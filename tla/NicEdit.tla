-------------------------------- MODULE NicEdit --------------------------------
(***************************************************************************)
(* What a web session does to the network settings of a recorder:          *)
(* tvt_web_set_network of web-provision.c reads the list of all NICs       *)
(* (queryNetCfgV2), changes one of them in the copy (build_edit_content)   *)
(* and sends the whole list back (editNetCfgV2).                           *)
(*                                                                         *)
(* Sessions of several batches, or of several workstations, may meet at    *)
(* one recorder; an edit may take effect after its session gave up, that   *)
(* is, during the next one.  Administrators and DHCP servers change the    *)
(* recorder too.  An answer ends where the connection ends: it may be cut. *)
(*                                                                         *)
(* A NIC is its MAC address.  The mask goes where the gateway goes; MTU,   *)
(* the second DNS server and the second address are sent back as read.     *)
(* The IPv6 address stands for all IPv6 fields.                            *)
(***************************************************************************)
EXTENDS Naturals

CONSTANTS
    Nic,            \* the NICs of the recorder
    Mac,            \* MAC addresses asked for
    Address,        \* IPv4 addresses of NICs
    Gateway,        \* gateways
    Server,         \* DNS servers that are nobody's gateway
    Session,        \* calls of tvt_web_set_network
    Jobs,           \* what sessions ask for
    MaxOutside,     \* changes of the recorder by anybody else
    Factory,        \* configurations the NICs may have at first
    Native,         \* an IPv6 address that is none made of an IPv4 address
    None,           \* no IPv6 address
    Nothing,        \* nothing to send, or to take effect
    Unread          \* a setting that the answer was cut off before

Mode == {"network_fault_tolerance", "other"}
Field == {"curWorkMode", "defaultNic"}

\* An IPv6 address is the IPv4 address it is made of, if any.
NicConfig ==
    [dhcp: BOOLEAN, ip: Address, gateway: Gateway,
     dnsAuto: BOOLEAN, dns: Gateway \cup Server,
     ipv6On: BOOLEAN, ipv6: Address \cup {Native, None}, secondOn: BOOLEAN]

Common == [curWorkMode: Mode, defaultNic: Nic]
ReadCommon == [curWorkMode: Mode \cup {Unread}, defaultNic: Nic \cup {Unread}]
Request == [mac: Mac, dhcp: BOOLEAN, ip: Address, gateway: Gateway]
Content == [nics: [Nic -> NicConfig], common: ReadCommon]

\* A fixed address has no DNS server left of an earlier one; what a NIC under
\* DHCP asks for names is no gateway it might lose.
DnsReachable(c) ==
    ~c.dnsAuto => c.dns \in Server \/ (~c.dhcp /\ c.dns = c.gateway)

\* A fixed address has no IPv6 address left that was made of an earlier one.
Ipv6Own(c) == ~c.dhcp /\ c.ipv6On => c.ipv6 \in {c.ip, Native}

ASSUME NicAssumption ==
    /\ Factory \subseteq {c \in NicConfig : DnsReachable(c) /\ Ipv6Own(c)}
    /\ Jobs \subseteq Request
    /\ Server \cap Gateway = {}
    /\ Nic \cap Field = {}
    /\ Native \notin Address /\ None \notin Address /\ Native # None
    /\ Unread \notin Mode \cup Nic
    /\ Nothing \notin Content
    /\ MaxOutside \in Nat

VARIABLES
    nics,       \* the recorder: configuration of each NIC
    common,     \* the recorder: settings that belong to no NIC
    pc,         \* where each session is
    asked,      \* the arguments of each session
    content,    \* what each session sends
    edit,       \* what became of its edit
    stale,      \* history: what is not as the session read it
    outside     \* changes by anybody else so far

recorder == <<nics, common>>
vars == <<nics, common, pc, asked, content, edit, stale, outside>>

Step == {"query", "edit", "reply", "ok", "failed"}

Goto(s, step) == pc' = [pc EXCEPT ![s] = step]

Changed == {n \in Nic : nics'[n] # nics[n]} \cup {f \in Field : common'[f] # common[f]}

-----------------------------------------------------------------------------
(* build_edit_content                                                      *)

\* tvt_web_ipv6_is_stale
Ipv6IsStale(ipv6) == ipv6 # Native

DhcpOf(c) == [c EXCEPT !.dhcp = TRUE, !.dnsAuto = TRUE, !.secondOn = FALSE]

\* The name server moves along with the gateway it was, or replaces one that
\* DHCP named.
DnsAtGateway(c, gateway) == IF c.dns = c.gateway THEN gateway ELSE c.dns    \* (mutant)
DnsFromDhcp(c, gateway) == IF c.dhcp THEN c.dns ELSE gateway               \* (mutant)
DnsOf(c, gateway) == IF c.dnsAuto \/ c.dns = c.gateway THEN gateway ELSE c.dns

Ipv6Kept(c, r) ==                                                   \* (mutant)
    [c EXCEPT !.dhcp = FALSE, !.ip = r.ip, !.gateway = r.gateway,
              !.dnsAuto = FALSE, !.dns = DnsOf(c, r.gateway)]
SwappedArguments(c, r) ==                                           \* (mutant)
    [c EXCEPT !.dhcp = FALSE, !.ip = r.gateway, !.gateway = r.ip,
              !.dnsAuto = FALSE, !.dns = DnsOf(c, r.gateway)]
StaticOf(c, r) ==
    LET clear == c.ipv6On /\ Ipv6IsStale(c.ipv6) IN
    [c EXCEPT !.dhcp = FALSE, !.ip = r.ip, !.gateway = r.gateway,
              !.dnsAuto = FALSE, !.dns = DnsOf(c, r.gateway),
              !.ipv6On = @ /\ ~clear, !.ipv6 = IF clear THEN None ELSE @]

Edited(c, r) == IF r.dhcp THEN DhcpOf(c) ELSE StaticOf(c, r)

Everyone(read, r) == [n \in Nic |-> Edited(read[n], r)]             \* (mutant)
EditedList(read, r) == [n \in Nic |-> IF n = r.mac THEN Edited(read[n], r) ELSE read[n]]

-----------------------------------------------------------------------------
(* tvt_web_set_network, after reqLogin and doLogin                         *)

Init ==
    /\ nics \in [Nic -> Factory]
    /\ common \in Common
    /\ pc = [s \in Session |-> "query"]
    /\ asked \in [Session -> Jobs]
    /\ content = [s \in Session |-> Nothing]
    /\ edit = [s \in Session |-> "none"]
    /\ stale = [s \in Session |-> Nic \cup Field]
    /\ outside = 0

\* The answer holds the NIC list to its closing tag and is perhaps cut after
\* it: a setting behind the cut is read as empty, the mode of a group too.
Supported(unread) ==
    "curWorkMode" \in unread \/ common.curWorkMode # "network_fault_tolerance"

CommonAsRead(unread) == [f \in Field |-> IF f \in unread THEN Unread ELSE common[f]]

Query(s) ==
    /\ pc[s] = "query"
    /\ asked[s].mac \in Nic
    /\ \E unread \in SUBSET Field :
        /\ Supported(unread)
        /\ content' = [content EXCEPT ![s] =
              [nics |-> EditedList(nics, asked[s]), common |-> CommonAsRead(unread)]]
        /\ stale' = [stale EXCEPT ![s] = unread]
    /\ Goto(s, "edit")
    /\ UNCHANGED <<recorder, asked, edit, outside>>

Forgotten(s) == [content EXCEPT ![s] = Nothing]

Post(s) ==
    /\ pc[s] = "edit"
    /\ edit' = [edit EXCEPT ![s] = "sent"]
    /\ Goto(s, "reply")
    /\ UNCHANGED <<recorder, asked, content, stale, outside>>

Reply(s) ==
    /\ pc[s] = "reply"
    /\ edit[s] = "done"
    /\ Goto(s, "ok")
    /\ UNCHANGED <<recorder, asked, content, edit, stale, outside>>

\* No connection, no answer in time, none that is whole, an error in it, a NIC
\* that is not there, a group: whatever it is, the session ends.
Fail(s) ==
    /\ pc[s] \in {"query", "edit", "reply"}
    /\ Goto(s, "failed")
    /\ content' = IF pc[s] = "edit" THEN Forgotten(s) ELSE content
    /\ UNCHANGED <<recorder, asked, edit, stale, outside>>

-----------------------------------------------------------------------------
(* The recorder and the world around it                                    *)

\* An edit takes effect, as a whole, whether or not its session still waits.
\* Of a setting sent empty the recorder makes what it likes.
Apply(s) ==
    /\ edit[s] = "sent"
    /\ nics' = content[s].nics
    /\ common' \in {c \in Common : \A f \in Field : content[s].common[f] \in {Unread, c[f]}}
    /\ edit' = [edit EXCEPT ![s] = "done"]
    /\ stale' = [t \in Session |-> IF t = s THEN stale[t] ELSE stale[t] \cup Changed]
    /\ content' = Forgotten(s)
    /\ UNCHANGED <<pc, asked, outside>>

\* The request is lost or refused.
Drop(s) ==
    /\ edit[s] = "sent"
    /\ edit' = [edit EXCEPT ![s] = "lost"]
    /\ content' = Forgotten(s)
    /\ UNCHANGED <<recorder, pc, asked, stale, outside>>

Elsewhere ==
    /\ outside < MaxOutside
    /\ outside' = outside + 1
    /\ stale' = [s \in Session |-> stale[s] \cup Changed]
    /\ UNCHANGED <<pc, asked, content, edit>>

Lease(n) ==
    /\ nics[n].dhcp
    /\ \E ip \in Address, gateway \in Gateway :
        nics' = [nics EXCEPT ![n].ip = ip, ![n].gateway = gateway]
    /\ UNCHANGED common
    /\ Elsewhere

\* An administrator groups the NICs, or makes another one the default.
Regroup ==
    /\ common' \in Common
    /\ UNCHANGED nics
    /\ Elsewhere

\* Every session has ended and no edit is on its way.
Finished ==
    /\ \A s \in Session : pc[s] \in {"ok", "failed"} /\ edit[s] # "sent"
    /\ UNCHANGED vars

Next ==
    \/ \E s \in Session :
        Query(s) \/ Post(s) \/ Reply(s) \/ Fail(s) \/ Apply(s) \/ Drop(s)
    \/ \E n \in Nic : Lease(n)
    \/ Regroup
    \/ Finished

Spec == Init /\ [][Next]_vars

-----------------------------------------------------------------------------
(* Properties                                                              *)

\* Every variable has its type.
TypeOK ==
    /\ nics \in [Nic -> NicConfig]
    /\ common \in Common
    /\ pc \in [Session -> Step]
    /\ asked \in [Session -> Jobs]
    /\ content \in [Session -> Content \cup {Nothing}]
    /\ edit \in [Session -> {"none", "sent", "done", "lost"}]
    /\ stale \in [Session -> SUBSET (Nic \cup Field)]
    /\ outside \in 0..MaxOutside

\* However static and DHCP edits, leases and late edits follow each other, a
\* NIC with a fixed address never asks for names at a gateway it no longer
\* has: build_edit_content moves the DNS server along.
DnsFollowsGateway == \A n \in Nic : DnsReachable(nics[n])

\* A NIC with a fixed address never keeps an IPv6 address in use that was made
\* of another IPv4 address: build_edit_content clears it, and no edit of
\* another NIC brings it back beside a new address.
NoForeignIpv6 == \A n \in Nic : Ipv6Own(nics[n])

\* Who repeats an edit because its answer was lost changes nothing, as long
\* as nobody else changed the NIC since it was read for the first.
RetryChangesNothing ==
    \A s \in Session : edit[s] = "done" /\ asked[s].mac \notin stale[s] =>
        LET c == nics[asked[s].mac] IN Edited(c, asked[s]) = c

\* What sessions do to a recorder is what NicChange allows: an edit changes
\* the NIC asked for, overwrites of the rest only what somebody changed after
\* the session read it or what its answer was cut off before, takes effect
\* once, and leaves groups alone that it was told of.
Grouped(c) == c.curWorkMode = "network_fault_tolerance"
Change == INSTANCE NicChange WITH edited <- {s \in Session : edit[s] = "done"}
IsNicChange == Change!Spec

-----------------------------------------------------------------------------
(* The inductive invariant of the proofs                                   *)

\* A session that has an edit to send, or on its way, has its content.
Underway ==
    \A s \in Session :
        /\ pc[s] = "query" => edit[s] = "none"
        /\ pc[s] = "edit" => content[s] # Nothing /\ edit[s] = "none"
        /\ edit[s] = "sent" => content[s] # Nothing
        /\ content[s] # Nothing \/ edit[s] = "done" => asked[s].mac \in Nic

\* The recorder is sound, and so is every list that will be sent to it.
AllSound ==
    /\ \A n \in Nic : DnsReachable(nics[n]) /\ Ipv6Own(nics[n])
    /\ \A s \in Session : content[s] # Nothing =>
        \A n \in Nic : DnsReachable(content[s].nics[n]) /\ Ipv6Own(content[s].nics[n])

\* What a session will send is what it asks for and, but for what is stale,
\* what the recorder has.
UpToDateOf(s) ==
    LET r == asked[s]
        target == content[s].nics[r.mac] IN
    /\ target.dhcp = r.dhcp
    /\ ~r.dhcp => target.ip = r.ip /\ target.gateway = r.gateway
    /\ Edited(target, r) = target
    /\ \A n \in Nic \ stale[s] :
        content[s].nics[n] = IF n = r.mac THEN Edited(nics[n], r) ELSE nics[n]
    /\ \A f \in Field \ stale[s] : content[s].common[f] = common[f]
    /\ "curWorkMode" \notin stale[s] => ~Grouped(common)

UpToDate == \A s \in Session : content[s] # Nothing => UpToDateOf(s)

IndInv == TypeOK /\ Underway /\ AllSound /\ UpToDate /\ RetryChangesNothing
=============================================================================
