-------------------------------- MODULE Survey --------------------------------
(***************************************************************************)
(* What tvt_discover_lan promises its callers, without sockets, searches   *)
(* and datagrams: while a scan is under way it gathers records, each of    *)
(* them an address its device has had since the scan began and none for an *)
(* identity it knows already; it ends by itself, with all it gathered or   *)
(* with an error and nothing.                                              *)
(***************************************************************************)
CONSTANTS Scan, Device, Ip, Record, Key(_)

VARIABLES
    device,     \* the address of every device
    under,      \* scans under way
    held,       \* what the devices' addresses have been since a scan began
    gathered,   \* the records of a scan
    outcome     \* how a scan ended

vars == <<device, under, held, gathered, outcome>>

Init ==
    /\ device \in [Device -> Ip]
    /\ under = {}
    /\ held = [s \in Scan |-> {}]
    /\ gathered = [s \in Scan |-> {}]
    /\ outcome = [s \in Scan |-> "none"]

Move(d, a) ==
    /\ device' = [device EXCEPT ![d] = a]
    /\ held' = [s \in Scan |-> IF s \in under THEN held[s] \cup {<<d, a>>} ELSE held[s]]
    /\ UNCHANGED <<under, gathered, outcome>>

Begin(s) ==
    /\ s \notin under
    /\ under' = under \cup {s}
    /\ held' = [held EXCEPT ![s] = {<<d, device[d]>> : d \in Device}]
    /\ gathered' = [gathered EXCEPT ![s] = {}]
    /\ outcome' = [outcome EXCEPT ![s] = "none"]
    /\ UNCHANGED device

\* A scan that cannot begin has found nothing.
Refuse(s) ==
    /\ s \notin under
    /\ gathered' = [gathered EXCEPT ![s] = {}]
    /\ outcome' = [outcome EXCEPT ![s] = "failed"]
    /\ UNCHANGED <<device, under, held>>

Gather(s, m) ==
    /\ s \in under
    /\ <<m.from, m.ip>> \in held[s]
    /\ \A r \in gathered[s] : Key(r) # Key(m)
    /\ gathered' = [gathered EXCEPT ![s] = @ \cup {m}]
    /\ UNCHANGED <<device, under, held, outcome>>

End(s) ==
    /\ s \in under
    /\ under' = under \ {s}
    /\ \/ outcome' = [outcome EXCEPT ![s] = "done"] /\ UNCHANGED gathered
       \/ /\ outcome' = [outcome EXCEPT ![s] = "failed"]
          /\ gathered' = [gathered EXCEPT ![s] = {}]
    /\ UNCHANGED <<device, held>>

Next ==
    \/ \E d \in Device, a \in Ip : Move(d, a)
    \/ \E s \in Scan : Begin(s) \/ Refuse(s) \/ End(s)
    \/ \E s \in Scan, m \in Record : Gather(s, m)

Spec == Init /\ [][Next]_vars /\ \A s \in Scan : WF_vars(End(s))

\* What a caller may build on: every record it gets shows an address its device
\* had while the scan ran, and no identity comes twice.
ListsAreTrue ==
    \A s \in Scan : \A r \in gathered[s] :
        /\ <<r.from, r.ip>> \in held[s]
        /\ \A q \in gathered[s] : Key(q) = Key(r) => q = r
===============================================================================
