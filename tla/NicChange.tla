------------------------------- MODULE NicChange -------------------------------
(***************************************************************************)
(* What editing a recorder's network settings promises, without saying     *)
(* how: an edit takes effect once at most and changes one NIC, the one     *)
(* asked for; of the others and of the settings of the whole recorder it   *)
(* leaves alone what is still as the session last learnt it.  What was     *)
(* changed since, or never learnt, the edit may overwrite.                 *)
(***************************************************************************)
CONSTANTS
    Nic,            \* the NICs of the recorder, each by its MAC address
    NicConfig,      \* configurations of a NIC
    Common,         \* settings of the whole recorder, a set of records
    Field,          \* the fields of those records
    Grouped(_),     \* whether its NICs are a fault-tolerance group
    Session

VARIABLES
    nics,       \* the recorder: configuration of each NIC
    common,     \* the recorder: settings that belong to no NIC
    asked,      \* what each session asks for
    stale,      \* what a session does not know as it is
    edited      \* sessions whose edit took effect

vars == <<nics, common, asked, stale, edited>>

Changed == {n \in Nic : nics'[n] # nics[n]} \cup {f \in Field : common'[f] # common[f]}

\* Everybody but the session that changes something knows less.
Outdates(who) ==
    stale' = [s \in Session |-> IF s = who THEN stale[s] ELSE stale[s] \cup Changed]

Init ==
    /\ stale = [s \in Session |-> Nic \cup Field]
    /\ edited = {}

\* A session learns how the recorder is, except for some settings.
Learn(s) ==
    /\ \E unknown \in SUBSET Field : stale' = [stale EXCEPT ![s] = unknown]
    /\ UNCHANGED <<nics, common, asked, edited>>

\* The NIC asked for, as asked for; DHCP takes over from the address it has.
AsAsked(s) ==
    LET n == asked[s].mac
        r == asked[s] IN
    /\ n \in Nic
    /\ nics'[n].dhcp = r.dhcp
    /\ ~r.dhcp => nics'[n].ip = r.ip /\ nics'[n].gateway = r.gateway
    /\ r.dhcp /\ n \notin stale[s] =>
        nics'[n].ip = nics[n].ip /\ nics'[n].gateway = nics[n].gateway

Edit(s) ==
    /\ s \notin edited
    /\ "curWorkMode" \notin stale[s] => ~Grouped(common)
    /\ nics' \in [Nic -> NicConfig]
    /\ common' \in Common
    /\ AsAsked(s)
    /\ \A n \in Nic \ {asked[s].mac} : n \notin stale[s] => nics'[n] = nics[n]
    /\ \A f \in Field : f \notin stale[s] => common'[f] = common[f]
    /\ Outdates(s)
    /\ edited' = edited \cup {s}
    /\ UNCHANGED asked

\* An administrator, a DHCP server.
Outside ==
    /\ nics' \in [Nic -> NicConfig]
    /\ common' \in Common
    /\ stale' = [s \in Session |-> stale[s] \cup Changed]
    /\ UNCHANGED <<asked, edited>>

Next == (\E s \in Session : Learn(s) \/ Edit(s)) \/ Outside

Spec == Init /\ [][Next]_vars
=============================================================================
