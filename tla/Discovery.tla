------------------------------ MODULE Discovery ------------------------------
(***************************************************************************)
(* tvt_discover_lan (discovery.c), as the window and the rescans of        *)
(* batches run it beside each other.  A scan opens a socket on one port    *)
(* that all scans share, asks in two protocols, and takes what comes in    *)
(* until its deadline, Retries times.                                      *)
(*                                                                         *)
(* Layer-2 answers are multicast to every socket of the group; SSDP        *)
(* answers go to the port the search came from, at which the kernel gives  *)
(* them to one socket.  Devices and network are external; an answer takes  *)
(* no time from the device to a socket.                                    *)
(***************************************************************************)
EXTENDS Naturals

CONSTANTS
    Scan,           \* scans that may be under way together
    Device,         \* devices on the LAN
    Ip,             \* their addresses
    Retries,        \* searches of each scan: 2 of the window, 1 of a rescan
    Speaks,         \* protocols each device answers
    XmlMac,         \* how a device spells its MAC address in XML
    Moving          \* devices that may change their address

Protocol == {"l2", "ssdp"}

Spelling == {"capitals", "lower", "none"}

ASSUME DiscoveryAssumption ==
    /\ Retries \in [Scan -> Nat \ {0}]
    /\ Speaks \in [Device -> SUBSET Protocol]
    /\ XmlMac \in [Device -> Spelling]
    /\ Moving \subseteq Device

VARIABLES
    device,     \* external: the address of every device
    asked,      \* external: searches a device has not answered yet
    inbox,      \* answers in the socket of a scan
    pc,         \* where each scan is
    attempt,    \* searches the scan has finished
    seen,       \* its hash table
    outcome,    \* what it returned
    held,       \* history: addresses of the devices since the scan began
    heard       \* history: devices the scan has read the MAC address of

network == <<device, asked>>
history == <<held, heard>>
vars == <<device, asked, inbox, pc, attempt, seen, outcome, held, heard>>

\* A device as it is in an answer.
Record == [from: Device, via: Protocol, ip: Ip]

\* Layer-2 answers carry the bytes of the MAC address, printed in capitals.
Named(m) == m.via = "l2" \/ XmlMac[m.from] # "none"

ByAddress(m) == <<m.ip, "ip">>                      \* (mutant)
Key(m) ==
    IF m.via = "l2" THEN <<m.from, "capitals">>
    ELSE IF Named(m) THEN <<m.from, XmlMac[m.from]>>
    ELSE <<m.ip, "ip">>

Open == {s \in Scan : pc[s] # "closed"}

Init ==
    /\ device \in [Device -> Ip]
    /\ asked = {}
    /\ inbox = [s \in Scan |-> {}]
    /\ pc = [s \in Scan |-> "closed"]
    /\ attempt = [s \in Scan |-> 0]
    /\ seen = [s \in Scan |-> {}]
    /\ outcome = [s \in Scan |-> "none"]
    /\ held = [s \in Scan |-> {}]
    /\ heard = [s \in Scan |-> {}]

-----------------------------------------------------------------------------
(* Devices and network (external)                                          *)

Readdress(d, a) ==
    /\ device' = [device EXCEPT ![d] = a]
    /\ held' = [s \in Scan |-> IF s \in Open THEN held[s] \cup {<<d, a>>} ELSE held[s]]
    /\ UNCHANGED <<asked, inbox, pc, attempt, seen, outcome, heard>>

\* The sockets an answer may reach: any of the group, or one of the port.
\* Reaching none it is lost.
Reach(m) == IF m.via = "l2" THEN SUBSET Open ELSE {{}} \cup {{s} : s \in Open}

Arrive(m) ==
    \E sockets \in Reach(m) :
        inbox' = [s \in Scan |-> IF s \in sockets THEN inbox[s] \cup {m} ELSE inbox[s]]

Answer(d, p) ==
    /\ <<d, p>> \in asked
    /\ asked' = asked \ {<<d, p>>}
    /\ Arrive([from |-> d, via |-> p, ip |-> device[d]])
    /\ UNCHANGED <<device, pc, attempt, seen, outcome, history>>

-----------------------------------------------------------------------------
(* tvt_discover_lan                                                        *)

EmptySeen(s) == [seen EXCEPT ![s] = {}]

OpenSocket(s) ==
    /\ pc[s] = "closed"
    /\ pc' = [pc EXCEPT ![s] = "search"]
    /\ attempt' = [attempt EXCEPT ![s] = 0]
    /\ seen' = EmptySeen(s)
    /\ outcome' = [outcome EXCEPT ![s] = "none"]
    /\ held' = [held EXCEPT ![s] = {<<d, device[d]>> : d \in Device}]
    /\ heard' = [heard EXCEPT ![s] = {}]
    /\ UNCHANGED <<network, inbox>>

\* No socket, a bind address that is none, a port or group that is refused.
OpenFails(s) ==
    /\ pc[s] = "closed"
    /\ outcome' = [outcome EXCEPT ![s] = "failed"]
    /\ seen' = EmptySeen(s)
    /\ heard' = [heard EXCEPT ![s] = {}]
    /\ UNCHANGED <<network, inbox, pc, attempt, held>>

Close(s) ==
    /\ pc' = [pc EXCEPT ![s] = "closed"]
    /\ inbox' = [inbox EXCEPT ![s] = {}]

ReturnPart(s) ==                                    \* (mutant)
    /\ Close(s)
    /\ outcome' = [outcome EXCEPT ![s] = "failed"]
    /\ UNCHANGED seen
\* An error is returned and the table released, whatever it holds.
ReturnError(s) ==
    /\ Close(s)
    /\ outcome' = [outcome EXCEPT ![s] = "failed"]
    /\ seen' = EmptySeen(s)

\* Of the two searches one has to leave.
SendSearch(s) ==
    /\ pc[s] = "search"
    /\ \/ \E sent \in SUBSET Protocol \ {{}} :
            /\ asked' = asked \cup {x \in Device \X sent : x[2] \in Speaks[x[1]]}
            /\ pc' = [pc EXCEPT ![s] = "listen"]
            /\ UNCHANGED <<inbox, seen, outcome>>
       \/ ReturnError(s) /\ UNCHANGED asked
    /\ UNCHANGED <<device, attempt, history>>

FirstAnswer(s, m) ==
    IF \E r \in seen[s] : Key(r) = Key(m) THEN seen[s] ELSE seen[s] \cup {m}

Receive(s, m) ==
    /\ pc[s] = "listen"
    /\ m \in inbox[s]
    /\ inbox' = [inbox EXCEPT ![s] = @ \ {m}]
    /\ seen' = [seen EXCEPT ![s] = FirstAnswer(s, m)]
    /\ heard' = [heard EXCEPT ![s] = IF Named(m) THEN @ \cup {m.from} ELSE @]
    /\ UNCHANGED <<network, pc, attempt, outcome, held>>

PollFails(s) ==
    /\ pc[s] = "listen"
    /\ ReturnError(s)
    /\ UNCHANGED <<network, attempt, history>>

OneTooMany(s, n) == n <= Retries[s]                 \* (mutant)
MoreAttempts(s, n) == n < Retries[s]

\* What is still in the socket waits for the next attempt, if there is one.
Deadline(s) ==
    /\ pc[s] = "listen"
    /\ attempt' = [attempt EXCEPT ![s] = @ + 1]
    /\ IF MoreAttempts(s, attempt'[s])
       THEN /\ pc' = [pc EXCEPT ![s] = "search"]
            /\ UNCHANGED <<inbox, outcome>>
       ELSE /\ Close(s)
            /\ outcome' = [outcome EXCEPT ![s] = "done"]
    /\ UNCHANGED <<network, seen, history>>

Next ==
    \/ \E d \in Moving, a \in Ip : Readdress(d, a)
    \/ \E d \in Device, p \in Protocol : Answer(d, p)
    \/ \E s \in Scan : \/ OpenSocket(s) \/ OpenFails(s) \/ SendSearch(s)
                       \/ PollFails(s) \/ Deadline(s)
                       \/ \E m \in inbox[s] : Receive(s, m)

\* The clock runs and the thread of a scan goes on, whatever comes in; nobody
\* has to start a scan, and devices need not answer.
Fairness == \A s \in Scan : WF_vars(SendSearch(s)) /\ WF_vars(Deadline(s))

Spec == Init /\ [][Next]_vars /\ Fairness

-----------------------------------------------------------------------------
(* Properties                                                              *)

\* Every variable has its type; a closed scan has no socket to hold anything.
TypeOK ==
    /\ device \in [Device -> Ip]
    /\ asked \subseteq Device \X Protocol
    /\ inbox \in [Scan -> SUBSET Record]
    /\ pc \in [Scan -> {"closed", "search", "listen"}]
    /\ attempt \in [Scan -> Nat]
    /\ \A s \in Scan : /\ attempt[s] <= Retries[s]
                       /\ pc[s] # "closed" => attempt[s] < Retries[s]
                       /\ pc[s] = "closed" => inbox[s] = {}
    /\ seen \in [Scan -> SUBSET Record]
    /\ outcome \in [Scan -> {"none", "done", "failed"}]
    /\ held \in [Scan -> SUBSET (Device \X Ip)]
    /\ heard \in [Scan -> SUBSET Device]

\* A scan without error lists every device it read an answer of that names
\* its MAC address, also when devices share an address, as new ones do, and
\* whatever a later attempt brings.
NobodyHidden ==
    \A s \in Scan : outcome[s] = "done" =>
        \A d \in heard[s] : \E r \in seen[s] : r.from = d

\* The scan implements what its callers rely on: records that are first of
\* their identity and of the time of the scan, all or none of them returned,
\* and an end.
Promise == INSTANCE Survey WITH under <- Open, gathered <- seen
IsSurvey == Promise!Spec
===============================================================================
