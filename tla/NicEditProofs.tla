----------------------------- MODULE NicEditProofs -----------------------------
(* Theorems about NicEdit, for any number of NICs, sessions and changes.   *)
EXTENDS NicEdit, TLAPS

-----------------------------------------------------------------------------
(* What an edit makes of one NIC                                           *)

\* An edit makes a configuration of a configuration.
LEMMA EditedTyping ==
    ASSUME NEW c \in NicConfig, NEW r \in Request
    PROVE  Edited(c, r) \in NicConfig
<1>1. DnsOf(c, r.gateway) \in Gateway \cup Server
    BY DEF DnsOf, NicConfig, Request
<1>2. CASE r.dhcp
    BY <1>2 DEF Edited, DhcpOf, NicConfig
<1>3. CASE ~r.dhcp
    <2>1. Edited(c, r) = StaticOf(c, r)
        BY <1>3 DEF Edited
    <2>2. StaticOf(c, r) \in NicConfig
        BY <1>1 DEF StaticOf, NicConfig, Request
    <2> QED
        BY <2>1, <2>2
<1> QED
    BY <1>2, <1>3

\* An edit sets what was asked for and leaves a DHCP client the address it has.
LEMMA EditedAsAsked ==
    ASSUME NEW c \in NicConfig, NEW r \in Request
    PROVE  /\ Edited(c, r).dhcp = r.dhcp
           /\ ~r.dhcp => Edited(c, r).ip = r.ip /\ Edited(c, r).gateway = r.gateway
           /\ r.dhcp => Edited(c, r).ip = c.ip /\ Edited(c, r).gateway = c.gateway
BY DEF Edited, DhcpOf, StaticOf, NicConfig, Request

\* An edit leaves no DNS server of a gateway that is gone.
LEMMA EditedDns ==
    ASSUME NEW c \in NicConfig, NEW r \in Request, DnsReachable(c)
    PROVE  DnsReachable(Edited(c, r))
BY DEF Edited, DhcpOf, StaticOf, DnsOf, DnsReachable, NicConfig, Request

\* An edit leaves no IPv6 address of an address that is gone.
LEMMA EditedIpv6 ==
    ASSUME NEW c \in NicConfig, NEW r \in Request, Ipv6Own(c)
    PROVE  Ipv6Own(Edited(c, r))
BY DEF Edited, DhcpOf, StaticOf, Ipv6IsStale, Ipv6Own, NicConfig, Request

\* Repeating an edit changes nothing, whatever the configuration: the code may
\* be asked again for what a recorder already did.
THEOREM EditIsIdempotent ==
    ASSUME NEW c \in NicConfig, NEW r \in Request
    PROVE  Edited(Edited(c, r), r) = Edited(c, r)
<1>1. CASE r.dhcp
    BY <1>1 DEF Edited, DhcpOf, NicConfig
<1>2. CASE ~r.dhcp
    <2> DEFINE once == StaticOf(c, r)
    <2>1. /\ once \in NicConfig
          /\ once.dhcp = FALSE /\ once.ip = r.ip /\ once.gateway = r.gateway
          /\ once.dnsAuto = FALSE
          /\ once.ipv6On => once.ipv6 = Native
        BY <1>2, EditedTyping DEF Edited, StaticOf, Ipv6IsStale, NicConfig, Request
    <2>2. DnsOf(once, r.gateway) = once.dns
        BY <2>1 DEF DnsOf, NicConfig
    <2>3. StaticOf(once, r) = once
        BY <2>1, <2>2 DEF StaticOf, Ipv6IsStale, NicConfig
    <2> QED
        BY <1>2, <2>3 DEF Edited
<1> QED
    BY <1>1, <1>2

-----------------------------------------------------------------------------
(* Type correctness                                                        *)

\* The list a session sends is a list of configurations.
LEMMA ListTyping ==
    ASSUME TypeOK, NEW s \in Session
    PROVE  EditedList(nics, asked[s]) \in [Nic -> NicConfig]
<1>1. asked[s] \in Request
    BY NicAssumption DEF TypeOK
<1> QED
    BY <1>1, EditedTyping DEF TypeOK, EditedList

\* What is read of the recorder's own settings has their type.
LEMMA ReadTyping ==
    ASSUME TypeOK, NEW unread \in SUBSET Field
    PROVE  CommonAsRead(unread) \in ReadCommon
<1>1. /\ common.curWorkMode \in Mode
      /\ common.defaultNic \in Nic
    BY DEF TypeOK, Common
<1>2. CommonAsRead(unread) =
          [curWorkMode |-> IF "curWorkMode" \in unread THEN Unread ELSE common.curWorkMode,
           defaultNic |-> IF "defaultNic" \in unread THEN Unread ELSE common.defaultNic]
    BY DEF CommonAsRead, Field
<1> QED
    BY <1>1, <1>2 DEF ReadCommon

\* The recorder changes its configuration, and what is stale becomes more.
LEMMA ChangedTyping == Changed \subseteq Nic \cup Field
BY DEF Changed

\* A lease changes the address and the gateway of one NIC.
LEMMA LeasedTyping ==
    ASSUME TypeOK, NEW n \in Nic, NEW ip \in Address, NEW gateway \in Gateway,
           nics' = [nics EXCEPT ![n].ip = ip, ![n].gateway = gateway]
    PROVE  /\ nics' \in [Nic -> NicConfig]
           /\ nics'[n] = [nics[n] EXCEPT !.ip = ip, !.gateway = gateway]
           /\ \A m \in Nic \ {n} : nics'[m] = nics[m]
<1> DEFINE leased == [nics[n] EXCEPT !.ip = ip, !.gateway = gateway]
<1>1. nics[n] \in NicConfig
    BY DEF TypeOK
<1>2. leased \in NicConfig
    BY <1>1 DEF NicConfig
<1>3. nics \in [Nic -> NicConfig]
    BY DEF TypeOK
<1>4. nics' = [nics EXCEPT ![n] = leased]
    BY <1>1 DEF NicConfig
<1> HIDE DEF leased
<1>5. /\ nics' \in [Nic -> NicConfig]
      /\ nics'[n] = leased
      /\ \A m \in Nic \ {n} : nics'[m] = nics[m]
    BY <1>2, <1>3, <1>4
<1> QED
    BY <1>5 DEF leased

\* Every step keeps the types.
LEMMA TypeOKStep == TypeOK /\ Underway /\ [Next]_vars => TypeOK'
<1> SUFFICES ASSUME TypeOK, Underway, [Next]_vars
             PROVE  TypeOK'
    OBVIOUS
<1>1. ASSUME NEW s \in Session, Query(s)
      PROVE  TypeOK'
    <2>1. PICK unread \in SUBSET Field :
              /\ content' = [content EXCEPT ![s] =
                    [nics |-> EditedList(nics, asked[s]), common |-> CommonAsRead(unread)]]
              /\ stale' = [stale EXCEPT ![s] = unread]
        BY <1>1 DEF Query
    <2>2. [nics |-> EditedList(nics, asked[s]), common |-> CommonAsRead(unread)] \in Content
        BY ListTyping, ReadTyping DEF Content
    <2>3. content' \in [Session -> Content \cup {Nothing}]
        BY <2>1, <2>2 DEF TypeOK
    <2>4. stale' \in [Session -> SUBSET (Nic \cup Field)]
        BY <2>1 DEF TypeOK
    <2>5. pc' \in [Session -> Step]
        BY <1>1 DEF Query, Goto, Step, TypeOK
    <2> QED
        BY <1>1, <2>3, <2>4, <2>5 DEF Query, recorder, TypeOK
<1>2. ASSUME NEW s \in Session, Post(s)
      PROVE  TypeOK'
    BY <1>2 DEF Post, Goto, Step, recorder, TypeOK
<1>3. ASSUME NEW s \in Session, Reply(s)
      PROVE  TypeOK'
    BY <1>3 DEF Reply, Goto, Step, recorder, TypeOK
<1>4. ASSUME NEW s \in Session, Fail(s)
      PROVE  TypeOK'
    <2>1. content' \in [Session -> Content \cup {Nothing}]
        BY <1>4 DEF Fail, Forgotten, TypeOK
    <2>2. pc' \in [Session -> Step]
        BY <1>4 DEF Fail, Goto, Step, TypeOK
    <2> QED
        BY <1>4, <2>1, <2>2 DEF Fail, recorder, TypeOK
<1>5. ASSUME NEW s \in Session, Apply(s)
      PROVE  TypeOK'
    <2>1. content[s] \in Content
        BY <1>5 DEF Apply, Underway, TypeOK
    <2>2. nics' \in [Nic -> NicConfig] /\ common' \in Common
        BY <1>5, <2>1 DEF Apply, Content
    <2>3. stale' \in [Session -> SUBSET (Nic \cup Field)]
        BY <1>5, ChangedTyping DEF Apply, TypeOK
    <2>4. content' \in [Session -> Content \cup {Nothing}]
        BY <1>5 DEF Apply, Forgotten, TypeOK
    <2> QED
        BY <1>5, <2>2, <2>3, <2>4 DEF Apply, TypeOK
<1>6. ASSUME NEW s \in Session, Drop(s)
      PROVE  TypeOK'
    BY <1>6 DEF Drop, Forgotten, recorder, TypeOK
<1>7. ASSUME NEW n \in Nic, Lease(n)
      PROVE  TypeOK'
    <2>1. PICK ip \in Address, gateway \in Gateway :
              nics' = [nics EXCEPT ![n].ip = ip, ![n].gateway = gateway]
        BY <1>7 DEF Lease
    <2>2. nics' \in [Nic -> NicConfig]
        BY <2>1, LeasedTyping
    <2>3. stale' \in [Session -> SUBSET (Nic \cup Field)]
        BY <1>7, ChangedTyping DEF Lease, Elsewhere, TypeOK
    <2>4. outside' \in 0..MaxOutside
        BY <1>7, NicAssumption DEF Lease, Elsewhere, TypeOK
    <2> QED
        BY <1>7, <2>2, <2>3, <2>4 DEF Lease, Elsewhere, TypeOK
<1>8. CASE Regroup
    <2>1. stale' \in [Session -> SUBSET (Nic \cup Field)]
        BY <1>8, ChangedTyping DEF Regroup, Elsewhere, TypeOK
    <2>2. outside' \in 0..MaxOutside
        BY <1>8, NicAssumption DEF Regroup, Elsewhere, TypeOK
    <2> QED
        BY <1>8, <2>1, <2>2 DEF Regroup, Elsewhere, TypeOK
<1>9. CASE UNCHANGED vars
    BY <1>9 DEF vars, TypeOK
<1> QED
    BY <1>1, <1>2, <1>3, <1>4, <1>5, <1>6, <1>7, <1>8, <1>9 DEF Next, Finished

-----------------------------------------------------------------------------
(* Who has something to send                                               *)

\* A session has content exactly as long as an edit may still take effect.
LEMMA UnderwayStep == TypeOK /\ Underway /\ [Next]_vars => Underway'
<1> SUFFICES ASSUME TypeOK, Underway, [Next]_vars
             PROVE  Underway'
    OBVIOUS
<1>1. ASSUME NEW s \in Session, Query(s)
      PROVE  Underway'
    <2>1. PICK unread \in SUBSET Field :
              content' = [content EXCEPT ![s] =
                  [nics |-> EditedList(nics, asked[s]), common |-> CommonAsRead(unread)]]
        BY <1>1 DEF Query
    <2>2. [nics |-> EditedList(nics, asked[s]), common |-> CommonAsRead(unread)] \in Content
        BY ListTyping, ReadTyping DEF Content
    <2>3. content'[s] # Nothing
        BY <2>1, <2>2, NicAssumption DEF TypeOK
    <2>4. \A t \in Session \ {s} : content'[t] = content[t]
        BY <2>1 DEF TypeOK
    <2>5. /\ asked[s].mac \in Nic /\ edit[s] = "none" /\ pc'[s] = "edit"
          /\ \A t \in Session \ {s} : pc'[t] = pc[t]
          /\ UNCHANGED <<asked, edit>>
        BY <1>1 DEF Query, Goto, Underway, TypeOK
    <2> QED
        BY <2>3, <2>4, <2>5 DEF Underway
<1>2. ASSUME NEW s \in Session, Post(s)
      PROVE  Underway'
    BY <1>2 DEF Post, Goto, Underway, TypeOK
<1>3. ASSUME NEW s \in Session, Reply(s)
      PROVE  Underway'
    BY <1>3 DEF Reply, Goto, Underway, TypeOK
<1>4. ASSUME NEW s \in Session, Fail(s)
      PROVE  Underway'
    BY <1>4 DEF Fail, Goto, Forgotten, Underway, TypeOK
<1>5. ASSUME NEW s \in Session, Apply(s)
      PROVE  Underway'
    BY <1>5 DEF Apply, Forgotten, Underway, TypeOK
<1>6. ASSUME NEW s \in Session, Drop(s)
      PROVE  Underway'
    BY <1>6 DEF Drop, Forgotten, Underway, TypeOK
<1>7. CASE Elsewhere \/ UNCHANGED vars
    BY <1>7 DEF Elsewhere, vars, Underway
<1> QED
    BY <1>1, <1>2, <1>3, <1>4, <1>5, <1>6, <1>7 DEF Next, Lease, Regroup, Finished

-----------------------------------------------------------------------------
(* No address and no gateway that is gone                                  *)

\* A lease takes no name server from a NIC: one under DHCP asks no gateway.
LEMMA LeaseSound ==
    ASSUME NEW c \in NicConfig, c.dhcp, DnsReachable(c),
           NEW ip \in Address, NEW gateway \in Gateway
    PROVE  LET leased == [c EXCEPT !.ip = ip, !.gateway = gateway] IN
           DnsReachable(leased) /\ Ipv6Own(leased)
BY DEF DnsReachable, Ipv6Own, NicConfig

\* Whatever takes effect at the recorder, it and what is sent stay sound.
LEMMA AllSoundStep == TypeOK /\ Underway /\ AllSound /\ [Next]_vars => AllSound'
<1> SUFFICES ASSUME TypeOK, Underway, AllSound, [Next]_vars
             PROVE  AllSound'
    OBVIOUS
<1>1. ASSUME NEW s \in Session, Query(s)
      PROVE  AllSound'
    <2> DEFINE list == EditedList(nics, asked[s])
    <2>1. \A n \in Nic : DnsReachable(list[n]) /\ Ipv6Own(list[n])
        <3> SUFFICES ASSUME NEW n \in Nic
                     PROVE  DnsReachable(list[n]) /\ Ipv6Own(list[n])
            OBVIOUS
        <3>1. /\ nics[n] \in NicConfig /\ asked[s] \in Request
              /\ DnsReachable(nics[n]) /\ Ipv6Own(nics[n])
            BY NicAssumption DEF TypeOK, AllSound
        <3>2. list[n] = nics[n] \/ list[n] = Edited(nics[n], asked[s])
            BY DEF EditedList
        <3> QED
            BY <3>1, <3>2, EditedDns, EditedIpv6
    <2> HIDE DEF list
    <2>2. content'[s].nics = list /\ \A t \in Session \ {s} : content'[t] = content[t]
        BY <1>1 DEF Query, TypeOK, list
    <2>3. nics' = nics
        BY <1>1 DEF Query, recorder
    <2> QED
        BY <2>1, <2>2, <2>3 DEF AllSound
<1>2. ASSUME NEW s \in Session, Post(s) \/ Reply(s)
      PROVE  AllSound'
    BY <1>2 DEF Post, Reply, recorder, AllSound
<1>3. ASSUME NEW s \in Session, Fail(s)
      PROVE  AllSound'
    BY <1>3 DEF Fail, Forgotten, recorder, AllSound, TypeOK
<1>4. ASSUME NEW s \in Session, Apply(s)
      PROVE  AllSound'
    <2>1. content[s] # Nothing /\ nics' = content[s].nics
        BY <1>4 DEF Apply, Underway
    <2>2. \A t \in Session : content'[t] = Nothing \/ content'[t] = content[t]
        BY <1>4 DEF Apply, Forgotten, TypeOK
    <2> QED
        BY <2>1, <2>2 DEF AllSound
<1>5. ASSUME NEW s \in Session, Drop(s)
      PROVE  AllSound'
    BY <1>5 DEF Drop, Forgotten, recorder, AllSound, TypeOK
<1>6. ASSUME NEW n \in Nic, Lease(n)
      PROVE  AllSound'
    <2>1. PICK ip \in Address, gateway \in Gateway :
              nics' = [nics EXCEPT ![n].ip = ip, ![n].gateway = gateway]
        BY <1>6 DEF Lease
    <2>2. DnsReachable(nics'[n]) /\ Ipv6Own(nics'[n])
        <3>1. nics[n] \in NicConfig /\ nics[n].dhcp /\ DnsReachable(nics[n])
            BY <1>6 DEF Lease, TypeOK, AllSound
        <3> QED
            BY <2>1, <3>1, LeasedTyping, LeaseSound
    <2>3. \A m \in Nic \ {n} : nics'[m] = nics[m]
        BY <2>1, LeasedTyping
    <2>4. content' = content
        BY <1>6 DEF Lease, Elsewhere
    <2> QED
        BY <2>2, <2>3, <2>4 DEF AllSound
<1>7. CASE Regroup
    BY <1>7 DEF Regroup, Elsewhere, AllSound
<1>8. CASE UNCHANGED vars
    BY <1>8 DEF vars, AllSound
<1> QED
    BY <1>1, <1>2, <1>3, <1>4, <1>5, <1>6, <1>7, <1>8 DEF Next, Finished

-----------------------------------------------------------------------------
(* What is sent agrees with what is known                                  *)

\* The change of somebody else makes what it changed stale and leaves the rest
\* of what a session will send up to date.
LEMMA StaysUpToDate ==
    ASSUME TypeOK, NEW t \in Session, UpToDateOf(t),
           content'[t] = content[t], asked' = asked,
           stale'[t] = stale[t] \cup Changed
    PROVE  UpToDateOf(t)'
<1>1. \A n \in Nic \ stale'[t] : n \notin stale[t] /\ nics'[n] = nics[n]
    BY DEF Changed
<1>2. \A f \in Field \ stale'[t] : f \notin stale[t] /\ common'[f] = common[f]
    BY DEF Changed
<1>3. "curWorkMode" \in Field
    BY DEF Field
<1> QED
    BY <1>1, <1>2, <1>3 DEF UpToDateOf, Grouped

\* Nothing a session knew changes.
LEMMA StillUpToDate ==
    ASSUME NEW t \in Session, UpToDateOf(t), content'[t] = content[t],
           asked' = asked, stale'[t] = stale[t], nics' = nics, common' = common
    PROVE  UpToDateOf(t)'
BY DEF UpToDateOf, Grouped

\* What a session will send stays up to date but for what it shows as stale.
LEMMA UpToDateStep == TypeOK /\ Underway /\ UpToDate /\ [Next]_vars => UpToDate'
<1> SUFFICES ASSUME TypeOK, Underway, UpToDate, [Next]_vars
             PROVE  UpToDate'
    OBVIOUS
<1>1. ASSUME NEW s \in Session, Query(s)
      PROVE  UpToDate'
    <2> DEFINE r == asked[s]
               list == EditedList(nics, r)
    <2>1. PICK unread \in SUBSET Field :
              /\ Supported(unread)
              /\ content' = [content EXCEPT ![s] =
                    [nics |-> list, common |-> CommonAsRead(unread)]]
              /\ stale' = [stale EXCEPT ![s] = unread]
        BY <1>1 DEF Query
    <2>2. /\ r \in Request /\ r.mac \in Nic /\ nics[r.mac] \in NicConfig
          /\ UNCHANGED <<nics, common, asked>>
        BY <1>1, NicAssumption DEF Query, recorder, TypeOK
    <2>3. /\ content'[s].nics = list /\ content'[s].common = CommonAsRead(unread)
          /\ stale'[s] = unread
          /\ \A t \in Session \ {s} : content'[t] = content[t] /\ stale'[t] = stale[t]
        BY <2>1 DEF TypeOK
    <2>4. /\ list[r.mac] = Edited(nics[r.mac], r)
          /\ \A n \in Nic : list[n] = IF n = r.mac THEN Edited(nics[n], r) ELSE nics[n]
        BY <2>2 DEF EditedList
    <2>5. /\ list[r.mac].dhcp = r.dhcp
          /\ ~r.dhcp => list[r.mac].ip = r.ip /\ list[r.mac].gateway = r.gateway
          /\ Edited(list[r.mac], r) = list[r.mac]
        BY <2>2, <2>4, EditedAsAsked, EditIsIdempotent
    <2>6. /\ \A f \in Field \ unread : CommonAsRead(unread)[f] = common[f]
          /\ "curWorkMode" \notin unread => ~Grouped(common)
        BY <2>1 DEF CommonAsRead, Supported, Grouped
    <2> HIDE DEF list
    <2>7. UpToDateOf(s)'
        BY <2>2, <2>3, <2>4, <2>5, <2>6 DEF UpToDateOf, Grouped
    <2>8. ASSUME NEW t \in Session \ {s}, content'[t] # Nothing
          PROVE  UpToDateOf(t)'
        BY <2>2, <2>3, <2>8, StillUpToDate DEF UpToDate
    <2> QED
        BY <2>7, <2>8 DEF UpToDate
<1>2. ASSUME NEW s \in Session, Post(s) \/ Reply(s) \/ Fail(s) \/ Drop(s)
      PROVE  UpToDate'
    <2>1. /\ UNCHANGED <<nics, common, asked, stale>>
          /\ \A t \in Session : content'[t] \in {content[t], Nothing}
        BY <1>2 DEF Post, Reply, Fail, Drop, Forgotten, recorder, TypeOK
    <2> QED
        BY <2>1, StillUpToDate DEF UpToDate
<1>3. ASSUME NEW s \in Session, Apply(s)
      PROVE  UpToDate'
    <2>1. /\ content'[s] = Nothing /\ asked' = asked
          /\ \A t \in Session \ {s} :
                content'[t] = content[t] /\ stale'[t] = stale[t] \cup Changed
        BY <1>3 DEF Apply, Forgotten, TypeOK
    <2>2. ASSUME NEW t \in Session, content'[t] # Nothing
          PROVE  UpToDateOf(t)'
        <3>1. t # s /\ content[t] # Nothing
            BY <2>1, <2>2
        <3> QED
            BY <2>1, <3>1, StaysUpToDate DEF UpToDate
    <2> QED
        BY <2>2 DEF UpToDate
<1>4. CASE Elsewhere
    <2>1. UNCHANGED <<content, asked>>
        BY <1>4 DEF Elsewhere
    <2>2. \A t \in Session : stale'[t] = stale[t] \cup Changed
        BY <1>4 DEF Elsewhere
    <2> QED
        BY <2>1, <2>2, StaysUpToDate DEF UpToDate
<1>5. CASE UNCHANGED vars
    BY <1>5, StillUpToDate DEF vars, UpToDate
<1> QED
    BY <1>1, <1>2, <1>3, <1>4, <1>5 DEF Next, Lease, Regroup, Finished

\* Whatever happens after an edit took effect, repeating it would change
\* nothing but what somebody else changed.
LEMMA RetryStep ==
    TypeOK /\ Underway /\ UpToDate /\ RetryChangesNothing /\ [Next]_vars
        => RetryChangesNothing'
<1> SUFFICES ASSUME TypeOK, Underway, UpToDate, RetryChangesNothing, [Next]_vars,
                    NEW t \in Session, (edit[t] = "done")', (asked[t].mac \notin stale[t])'
             PROVE  (Edited(nics[asked[t].mac], asked[t]) = nics[asked[t].mac])'
    BY DEF RetryChangesNothing
<1>1. asked' = asked
    BY DEF Next, Query, Post, Reply, Fail, Apply, Drop, Lease, Regroup, Elsewhere,
           Finished, vars
<1>2. ASSUME edit[t] = "done", nics' = nics, stale'[t] = stale[t]
      PROVE  (Edited(nics[asked[t].mac], asked[t]) = nics[asked[t].mac])'
    BY <1>1, <1>2 DEF RetryChangesNothing, Edited, DhcpOf, StaticOf
<1>3. ASSUME edit[t] = "done", stale'[t] = stale[t] \cup Changed
      PROVE  (Edited(nics[asked[t].mac], asked[t]) = nics[asked[t].mac])'
    <2>1. asked[t].mac \in Nic
        BY <1>3 DEF Underway
    <2>2. asked[t].mac \notin stale[t] /\ nics'[asked[t].mac] = nics[asked[t].mac]
        BY <1>1, <1>3, <2>1 DEF Changed
    <2> QED
        BY <1>1, <1>3, <2>2 DEF RetryChangesNothing
<1>4. ASSUME NEW s \in Session, Query(s)
      PROVE  (Edited(nics[asked[t].mac], asked[t]) = nics[asked[t].mac])'
    <2>1. s # t /\ edit[t] = "done"
        BY <1>4 DEF Query, Underway
    <2>2. nics' = nics /\ stale'[t] = stale[t]
        BY <1>4, <2>1 DEF Query, recorder, TypeOK
    <2> QED
        BY <1>2, <2>1, <2>2
<1>5. ASSUME NEW s \in Session, Post(s) \/ Reply(s) \/ Fail(s) \/ Drop(s)
      PROVE  (Edited(nics[asked[t].mac], asked[t]) = nics[asked[t].mac])'
    <2>1. edit[t] = "done" /\ nics' = nics /\ stale'[t] = stale[t]
        BY <1>5 DEF Post, Reply, Fail, Drop, recorder, TypeOK
    <2> QED
        BY <1>2, <2>1
<1>6. ASSUME NEW s \in Session, Apply(s)
      PROVE  (Edited(nics[asked[t].mac], asked[t]) = nics[asked[t].mac])'
    <2>1. CASE t = s
        <3>1. nics' = content[t].nics /\ content[t] # Nothing
            BY <1>6, <2>1 DEF Apply, Underway
        <3>2. Edited(content[t].nics[asked[t].mac], asked[t]) = content[t].nics[asked[t].mac]
            BY <3>1 DEF UpToDate, UpToDateOf
        <3> QED
            BY <1>1, <3>1, <3>2
    <2>2. CASE t # s
        <3>1. edit[t] = "done" /\ stale'[t] = stale[t] \cup Changed
            BY <1>6, <2>2 DEF Apply, TypeOK
        <3> QED
            BY <1>3, <3>1
    <2> QED
        BY <2>1, <2>2
<1>7. CASE Elsewhere
    <2>1. edit[t] = "done" /\ stale'[t] = stale[t] \cup Changed
        BY <1>7 DEF Elsewhere
    <2> QED
        BY <1>3, <2>1
<1>8. CASE UNCHANGED vars
    <2>1. edit[t] = "done" /\ nics' = nics /\ stale'[t] = stale[t]
        BY <1>8 DEF vars
    <2> QED
        BY <1>2, <2>1
<1> QED
    BY <1>4, <1>5, <1>6, <1>7, <1>8 DEF Next, Lease, Regroup, Finished

-----------------------------------------------------------------------------
(* The inductive invariant and what it implies                             *)

\* At first nothing is known, nothing sent, and the recorder sound.
LEMMA IndInvInit == Init => IndInv
<1> SUFFICES ASSUME Init
             PROVE  IndInv
    OBVIOUS
<1>1. \A n \in Nic : nics[n] \in NicConfig /\ DnsReachable(nics[n]) /\ Ipv6Own(nics[n])
    BY NicAssumption DEF Init
<1>2. TypeOK
    BY <1>1, NicAssumption DEF Init, TypeOK, Step
<1>3. \A s \in Session : content[s] = Nothing /\ edit[s] = "none" /\ pc[s] = "query"
    BY DEF Init
<1>4. Underway /\ AllSound /\ UpToDate /\ RetryChangesNothing
    BY <1>1, <1>3 DEF Underway, AllSound, UpToDate, RetryChangesNothing
<1> QED
    BY <1>2, <1>4 DEF IndInv

\* Every step keeps the inductive invariant.
LEMMA IndInvStep == IndInv /\ [Next]_vars => IndInv'
BY TypeOKStep, UnderwayStep, AllSoundStep, UpToDateStep, RetryStep DEF IndInv

\* A session sends what it read a moment ago, changed in one place; what it
\* sends is sound and agrees with what it knows of the recorder.
THEOREM Inductive == Spec => []IndInv
BY IndInvInit, IndInvStep, PTL DEF Spec

\* Every variable has its type.
THEOREM Types == Spec => []TypeOK
BY Inductive, PTL DEF IndInv

\* No NIC with a fixed address asks for names at a gateway it lost, whatever
\* edits, leases and late answers came before.
THEOREM DnsFollows == Spec => []DnsFollowsGateway
<1>1. IndInv => DnsFollowsGateway
    BY DEF IndInv, AllSound, DnsFollowsGateway
<1> QED
    BY <1>1, Inductive, PTL

\* No NIC with a fixed address keeps an IPv6 address made of another one.
THEOREM Ipv6Follows == Spec => []NoForeignIpv6
<1>1. IndInv => NoForeignIpv6
    BY DEF IndInv, AllSound, NoForeignIpv6
<1> QED
    BY <1>1, Inductive, PTL

\* An edit that took effect may be sent again: unless somebody else changed
\* the NIC, nothing changes.
THEOREM RetryIsHarmless == Spec => []RetryChangesNothing
BY Inductive, PTL DEF IndInv

-----------------------------------------------------------------------------
(* Sessions implement NicChange                                            *)

\* An edit that takes effect is an edit that NicChange allows.
LEMMA ApplyIsEdit ==
    ASSUME IndInv, IndInv', NEW s \in Session, Apply(s)
    PROVE  Change!Edit(s)
<1> DEFINE r == asked[s]
<1>1. /\ edit[s] = "sent" /\ content[s] # Nothing /\ r.mac \in Nic /\ r \in Request
      /\ UpToDateOf(s)
      /\ nics' = content[s].nics
      /\ nics[r.mac] \in NicConfig
    BY NicAssumption DEF Apply, IndInv, Underway, UpToDate, TypeOK
<1>2. /\ nics' \in [Nic -> NicConfig] /\ common' \in Common
    BY DEF IndInv, TypeOK
<1>3. Change!AsAsked(s)
    <2>1. /\ nics'[r.mac].dhcp = r.dhcp
          /\ ~r.dhcp => nics'[r.mac].ip = r.ip /\ nics'[r.mac].gateway = r.gateway
        BY <1>1 DEF UpToDateOf
    <2>2. ASSUME r.dhcp, r.mac \notin stale[s]
          PROVE  nics'[r.mac].ip = nics[r.mac].ip /\ nics'[r.mac].gateway = nics[r.mac].gateway
        <3>1. nics'[r.mac] = Edited(nics[r.mac], r)
            BY <1>1, <2>2 DEF UpToDateOf
        <3> QED
            BY <1>1, <2>2, <3>1, EditedAsAsked
    <2> QED
        BY <1>1, <2>1, <2>2 DEF Change!AsAsked
<1>4. \A n \in Nic \ {r.mac} : n \notin stale[s] => nics'[n] = nics[n]
    BY <1>1 DEF UpToDateOf
<1>5. \A f \in Field : f \notin stale[s] => common'[f] = common[f]
    <2> SUFFICES ASSUME NEW f \in Field, f \notin stale[s]
                 PROVE  common'[f] = common[f]
        OBVIOUS
    <2>1. content[s].common[f] = common[f]
        BY <1>1 DEF UpToDateOf
    <2>2. common[f] # Unread
        BY NicAssumption DEF IndInv, TypeOK, Common, Field
    <2>3. content[s].common[f] \in {Unread, common'[f]}
        BY DEF Apply
    <2> QED
        BY <2>1, <2>2, <2>3
<1>6. "curWorkMode" \notin stale[s] => ~Grouped(common)
    BY <1>1 DEF UpToDateOf
<1>7. Change!Outdates(s)
    BY DEF Apply, Change!Outdates, Change!Changed, Changed
<1>8. /\ s \notin {t \in Session : edit[t] = "done"}
      /\ {t \in Session : edit'[t] = "done"} = {t \in Session : edit[t] = "done"} \cup {s}
      /\ asked' = asked
    BY <1>1 DEF Apply, IndInv, TypeOK
<1> QED
    BY <1>2, <1>3, <1>4, <1>5, <1>6, <1>7, <1>8 DEF Change!Edit

\* Every step of a session, of the recorder or of the world around it is a
\* step that NicChange allows, or none.
LEMMA StepRefines == IndInv /\ IndInv' /\ [Next]_vars => [Change!Next]_Change!vars
<1> SUFFICES ASSUME IndInv, IndInv', [Next]_vars
             PROVE  [Change!Next]_Change!vars
    OBVIOUS
<1> DEFINE edited == {s \in Session : edit[s] = "done"}
<1>1. ASSUME NEW s \in Session, Query(s)
      PROVE  Change!Next
    <2>1. Change!Learn(s)
        BY <1>1 DEF Query, recorder, Change!Learn
    <2> QED
        BY <2>1 DEF Change!Next
<1>2. ASSUME NEW s \in Session, Post(s) \/ Drop(s)
      PROVE  UNCHANGED Change!vars
    <2>1. edit[s] # "done"
        BY <1>2 DEF Post, Drop, IndInv, Underway
    <2>2. edited' = edited
        BY <1>2, <2>1 DEF Post, Drop, IndInv, TypeOK
    <2> QED
        BY <1>2, <2>2 DEF Post, Drop, recorder, Change!vars
<1>3. ASSUME NEW s \in Session, Reply(s) \/ Fail(s)
      PROVE  UNCHANGED Change!vars
    BY <1>3 DEF Reply, Fail, recorder, Change!vars
<1>4. ASSUME NEW s \in Session, Apply(s)
      PROVE  Change!Next
    BY <1>4, ApplyIsEdit DEF Change!Next
<1>5. CASE (\E n \in Nic : Lease(n)) \/ Regroup
    <2>1. /\ nics' \in [Nic -> NicConfig] /\ common' \in Common
          /\ stale' = [s \in Session |-> stale[s] \cup Changed]
          /\ UNCHANGED <<asked, edit>>
        BY <1>5 DEF Lease, Regroup, Elsewhere, IndInv, TypeOK
    <2>2. Change!Outside
        BY <2>1 DEF Change!Outside, Change!Changed, Changed
    <2> QED
        BY <2>2 DEF Change!Next
<1>6. CASE UNCHANGED vars
    BY <1>6 DEF vars, Change!vars
<1> QED
    BY <1>1, <1>2, <1>3, <1>4, <1>5, <1>6 DEF Next, Finished

\* What sessions do to a recorder is what NicChange promises.
THEOREM SessionsImplementNicChange == Spec => IsNicChange
<1>1. Init => Change!Init
    BY DEF Init, Change!Init
<1> QED
    BY <1>1, StepRefines, Inductive, PTL DEF Spec, IsNicChange, Change!Spec
=============================================================================
