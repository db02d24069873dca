--------------------------- MODULE DiscoveryProofs ---------------------------
(* Theorems about Discovery, for any number of scans, devices, addresses   *)
(* and attempts.                                                           *)
EXTENDS Discovery, Integers, TLAPS

-----------------------------------------------------------------------------
(* Type correctness                                                        *)

\* An answer is a record and reaches sockets that are open.
LEMMA ArriveTyping ==
    ASSUME TypeOK, NEW m \in Record, Arrive(m)
    PROVE  /\ inbox' \in [Scan -> SUBSET Record]
           /\ \A s \in Scan : inbox'[s] # inbox[s] => s \in Open /\ inbox'[s] = inbox[s] \cup {m}
<1>1. PICK sockets \in Reach(m) :
          inbox' = [s \in Scan |-> IF s \in sockets THEN inbox[s] \cup {m} ELSE inbox[s]]
    BY DEF Arrive
<1>2. sockets \subseteq Open
    BY <1>1 DEF Reach
<1> QED
    BY <1>1, <1>2 DEF TypeOK

\* The key is looked up in, and the record added to, a set of records.
LEMMA FirstAnswerTyping ==
    ASSUME TypeOK, NEW s \in Scan, NEW m \in Record
    PROVE  FirstAnswer(s, m) \subseteq Record
BY DEF TypeOK, FirstAnswer

\* Every step keeps the types.
LEMMA TypeOKStep == TypeOK /\ [Next]_vars => TypeOK'
<1> SUFFICES ASSUME TypeOK, [Next]_vars
             PROVE  TypeOK'
    OBVIOUS
<1> USE DiscoveryAssumption
<1>1. ASSUME NEW d \in Moving, NEW a \in Ip, Readdress(d, a)
      PROVE  TypeOK'
    <2>1. device' \in [Device -> Ip]
        BY <1>1 DEF Readdress, TypeOK
    <2>2. held' \in [Scan -> SUBSET (Device \X Ip)]
        BY <1>1 DEF Readdress, TypeOK
    <2> QED
        BY <1>1, <2>1, <2>2 DEF Readdress, TypeOK
<1>2. ASSUME NEW d \in Device, NEW p \in Protocol, Answer(d, p)
      PROVE  TypeOK'
    <2> DEFINE m == [from |-> d, via |-> p, ip |-> device[d]]
    <2>1. m \in Record
        BY DEF TypeOK, Record
    <2>2. Arrive(m) /\ UNCHANGED <<device, pc, attempt, seen, outcome, held, heard>>
        BY <1>2 DEF Answer, history
    <2>3. asked' \subseteq Device \X Protocol
        BY <1>2 DEF Answer, TypeOK
    <2> HIDE DEF m
    <2> QED
        BY <2>1, <2>2, <2>3, ArriveTyping DEF TypeOK, Open
<1>3. ASSUME NEW s \in Scan, OpenSocket(s)
      PROVE  TypeOK'
    <2>1. held' \in [Scan -> SUBSET (Device \X Ip)]
        BY <1>3 DEF OpenSocket, TypeOK
    <2> QED
        BY <1>3, <2>1 DEF OpenSocket, EmptySeen, TypeOK, network
<1>4. ASSUME NEW s \in Scan, OpenFails(s)
      PROVE  TypeOK'
    BY <1>4 DEF OpenFails, EmptySeen, TypeOK, network
<1>5. ASSUME NEW s \in Scan, SendSearch(s)
      PROVE  TypeOK'
    <2>1. CASE ReturnError(s) /\ UNCHANGED asked
        BY <1>5, <2>1 DEF SendSearch, ReturnError, Close, EmptySeen, TypeOK, history
    <2>2. ASSUME NEW sent \in SUBSET Protocol \ {{}},
                 asked' = asked \cup {x \in Device \X sent : x[2] \in Speaks[x[1]]},
                 pc' = [pc EXCEPT ![s] = "listen"], UNCHANGED <<inbox, seen, outcome>>
          PROVE  TypeOK'
        BY <1>5, <2>2 DEF SendSearch, TypeOK, history
    <2> QED
        BY <1>5, <2>1, <2>2 DEF SendSearch
<1>6. ASSUME NEW s \in Scan, NEW m \in inbox[s], Receive(s, m)
      PROVE  TypeOK'
    <2>1. m \in Record /\ m.from \in Device
        BY DEF TypeOK, Record
    <2>2. seen' \in [Scan -> SUBSET Record]
        BY <1>6, <2>1, FirstAnswerTyping DEF Receive, TypeOK
    <2>3. heard' \in [Scan -> SUBSET Device]
        BY <1>6, <2>1 DEF Receive, TypeOK
    <2> QED
        BY <1>6, <2>2, <2>3 DEF Receive, TypeOK, network
<1>7. ASSUME NEW s \in Scan, PollFails(s)
      PROVE  TypeOK'
    BY <1>7 DEF PollFails, ReturnError, Close, EmptySeen, TypeOK, network, history
<1>8. ASSUME NEW s \in Scan, Deadline(s)
      PROVE  TypeOK'
    <2>1. attempt' = [attempt EXCEPT ![s] = attempt[s] + 1] /\ attempt[s] < Retries[s]
        BY <1>8 DEF Deadline, TypeOK
    <2>2. attempt' \in [Scan -> Nat] /\ attempt'[s] = attempt[s] + 1
        BY <2>1 DEF TypeOK
    <2>3. attempt'[s] <= Retries[s]
        BY <2>1, <2>2 DEF TypeOK
    <2>4. CASE attempt'[s] < Retries[s]
        BY <1>8, <2>1, <2>2, <2>3, <2>4 DEF Deadline, MoreAttempts, TypeOK, network, history
    <2>5. CASE ~(attempt'[s] < Retries[s])
        BY <1>8, <2>1, <2>2, <2>3, <2>5 DEF Deadline, MoreAttempts, Close, TypeOK, network, history
    <2> QED
        BY <2>4, <2>5
<1>9. CASE UNCHANGED vars
    BY <1>9 DEF vars, TypeOK
<1> QED
    BY <1>1, <1>2, <1>3, <1>4, <1>5, <1>6, <1>7, <1>8, <1>9 DEF Next

\* Scans, sockets and tables start with their types.
LEMMA InitTypeOK == Init => TypeOK
BY DiscoveryAssumption DEF Init, TypeOK

\* Every variable keeps its type and every scan its bound of attempts: the
\* loops of tvt_discover_lan.
THEOREM ScanTypes == Spec => []TypeOK
BY InitTypeOK, TypeOKStep, PTL DEF Spec

-----------------------------------------------------------------------------
(* A scan implements Survey                                                *)

\* What a socket holds was true at some time since the scan
\* opened it, and what is true now counts as such.
Fresh ==
    \A s \in Open :
        /\ \A d \in Device : <<d, device[d]>> \in held[s]
        /\ \A m \in inbox[s] : <<m.from, m.ip>> \in held[s]

\* Every step keeps the sockets fresh.
LEMMA FreshStep == TypeOK /\ Fresh /\ [Next]_vars => Fresh'
<1> SUFFICES ASSUME TypeOK, Fresh, [Next]_vars
             PROVE  Fresh'
    OBVIOUS
<1>1. ASSUME NEW d \in Moving, NEW a \in Ip, Readdress(d, a)
      PROVE  Fresh'
    <2>1. Open' = Open /\ UNCHANGED inbox
        BY <1>1 DEF Readdress, Open
    <2>2. \A s \in Open : held'[s] = held[s] \cup {<<d, a>>}
        BY <1>1 DEF Readdress, Open
    <2>3. \A e \in Device : device'[e] = IF e = d THEN a ELSE device[e]
        BY <1>1 DEF Readdress, TypeOK
    <2> QED
        BY <2>1, <2>2, <2>3 DEF Fresh
<1>2. ASSUME NEW d \in Device, NEW p \in Protocol, Answer(d, p)
      PROVE  Fresh'
    <2> DEFINE m == [from |-> d, via |-> p, ip |-> device[d]]
    <2>1. m \in Record /\ m.from = d /\ m.ip = device[d]
        BY DEF TypeOK, Record
    <2>2. Arrive(m) /\ UNCHANGED <<device, pc, held>>
        BY <1>2 DEF Answer, history
    <2> HIDE DEF m
    <2>3. Open' = Open
        BY <2>2 DEF Open
    <2>4. \A s \in Open : inbox'[s] \subseteq inbox[s] \cup {m}
        BY <2>1, <2>2, ArriveTyping DEF Open
    <2> QED
        BY <2>1, <2>2, <2>3, <2>4 DEF Fresh
<1>3. ASSUME NEW s \in Scan, OpenSocket(s)
      PROVE  Fresh'
    <2>1. Open' = Open \cup {s} /\ UNCHANGED <<device, inbox>>
        BY <1>3 DEF OpenSocket, Open, TypeOK, network
    <2>2. inbox[s] = {}
        BY <1>3 DEF OpenSocket, TypeOK
    <2>3. \A t \in Scan : held'[t] = IF t = s THEN {<<d, device[d]>> : d \in Device} ELSE held[t]
        BY <1>3 DEF OpenSocket, TypeOK
    <2>4. Open \subseteq Scan
        BY DEF Open
    <2> QED
        BY <2>1, <2>2, <2>3, <2>4 DEF Fresh
<1>4. ASSUME NEW s \in Scan, OpenFails(s)
      PROVE  Fresh'
    BY <1>4 DEF OpenFails, Fresh, Open, network
<1>5. ASSUME NEW s \in Scan, SendSearch(s)
      PROVE  Fresh'
    <2>1. UNCHANGED <<device, held>>
        BY <1>5 DEF SendSearch, history
    <2>2. Open' \subseteq Open /\ Open \subseteq Scan
        BY <1>5 DEF SendSearch, ReturnError, Close, Open, TypeOK
    <2>3. \A t \in Scan : inbox'[t] \subseteq inbox[t]
        BY <1>5 DEF SendSearch, ReturnError, Close, TypeOK
    <2> QED
        BY <2>1, <2>2, <2>3 DEF Fresh
<1>6. ASSUME NEW s \in Scan, NEW m \in inbox[s], Receive(s, m)
      PROVE  Fresh'
    <2>1. UNCHANGED <<device, held>> /\ Open' = Open /\ Open \subseteq Scan
        BY <1>6 DEF Receive, network, Open
    <2>2. \A t \in Scan : inbox'[t] \subseteq inbox[t]
        BY <1>6 DEF Receive, TypeOK
    <2> QED
        BY <2>1, <2>2 DEF Fresh
<1>7. ASSUME NEW s \in Scan, PollFails(s) \/ Deadline(s)
      PROVE  Fresh'
    <2>1. UNCHANGED <<device, held>>
        BY <1>7 DEF PollFails, Deadline, network, history
    <2>2. Open' \subseteq Open /\ Open \subseteq Scan
        BY <1>7 DEF PollFails, Deadline, ReturnError, Close, Open, TypeOK
    <2>3. \A t \in Scan : inbox'[t] \subseteq inbox[t]
        BY <1>7 DEF PollFails, Deadline, ReturnError, Close, TypeOK
    <2> QED
        BY <2>1, <2>2, <2>3 DEF Fresh
<1>8. CASE UNCHANGED vars
    BY <1>8 DEF vars, Fresh, Open
<1> QED
    BY <1>1, <1>2, <1>3, <1>4, <1>5, <1>6, <1>7, <1>8 DEF Next

\* A scan that closes leaves the scans under way, and no other does.
LEMMA Closing ==
    ASSUME TypeOK, NEW s \in Open, Close(s)
    PROVE  Open' = Open \ {s}
BY DEF TypeOK, Close, Open

\* A scan that ends in an error ends without records.
LEMMA ErrorIsEnd ==
    ASSUME TypeOK, NEW s \in Open, ReturnError(s), UNCHANGED <<device, held>>
    PROVE  Promise!End(s)
<1>1. Open' = Open \ {s}
    BY Closing DEF ReturnError
<1> QED
    BY <1>1 DEF ReturnError, EmptySeen, Promise!End

\* An answer read is gathered, if its identity is new.
LEMMA ReceiveIsGather ==
    ASSUME TypeOK, Fresh, NEW s \in Scan, NEW m \in inbox[s], Receive(s, m)
    PROVE  [Promise!Next]_(Promise!vars)
<1>1. s \in Open /\ Open' = Open /\ UNCHANGED <<device, held, outcome>>
    BY DEF Receive, Open, network
<1>2. seen' = [seen EXCEPT ![s] = FirstAnswer(s, m)]
    BY DEF Receive
<1>3. CASE \E r \in seen[s] : Key(r) = Key(m)
    <2>1. seen' = seen
        BY <1>2, <1>3 DEF FirstAnswer, TypeOK
    <2> QED
        BY <1>1, <2>1 DEF Promise!vars
<1>4. CASE ~ \E r \in seen[s] : Key(r) = Key(m)
    <2>1. seen' = [seen EXCEPT ![s] = seen[s] \cup {m}]
        BY <1>2, <1>4 DEF FirstAnswer
    <2>2. m \in Record
        BY DEF TypeOK
    <2>3. <<m.from, m.ip>> \in held[s]
        BY <1>1 DEF Fresh
    <2>4. Promise!Gather(s, m)
        BY <1>1, <1>4, <2>1, <2>3 DEF Promise!Gather
    <2> QED
        BY <2>2, <2>4 DEF Promise!Next
<1> QED
    BY <1>3, <1>4

\* Every step is one of Survey or changes nothing Survey speaks of.
LEMMA StepIsSurvey ==
    TypeOK /\ Fresh /\ [Next]_vars => [Promise!Next]_(Promise!vars)
<1> SUFFICES ASSUME TypeOK, Fresh, [Next]_vars
             PROVE  [Promise!Next]_(Promise!vars)
    OBVIOUS
<1>1. ASSUME NEW d \in Moving, NEW a \in Ip, Readdress(d, a)
      PROVE  [Promise!Next]_(Promise!vars)
    <2>1. Open' = Open
        BY <1>1 DEF Readdress, Open
    <2>2. Promise!Move(d, a)
        BY <1>1, <2>1 DEF Readdress, Promise!Move
    <2>3. d \in Device
        BY DiscoveryAssumption
    <2> QED
        BY <2>2, <2>3 DEF Promise!Next
<1>2. ASSUME NEW d \in Device, NEW p \in Protocol, Answer(d, p)
      PROVE  [Promise!Next]_(Promise!vars)
    BY <1>2 DEF Answer, history, Open, Promise!vars
<1>3. ASSUME NEW s \in Scan, OpenSocket(s)
      PROVE  [Promise!Next]_(Promise!vars)
    <2>1. s \notin Open /\ Open' = Open \cup {s}
        BY <1>3 DEF OpenSocket, Open, TypeOK
    <2>2. Promise!Begin(s)
        BY <1>3, <2>1 DEF OpenSocket, EmptySeen, network, Promise!Begin
    <2> QED
        BY <2>2 DEF Promise!Next
<1>4. ASSUME NEW s \in Scan, OpenFails(s)
      PROVE  [Promise!Next]_(Promise!vars)
    <2>1. s \notin Open /\ Open' = Open
        BY <1>4 DEF OpenFails, Open
    <2>2. Promise!Refuse(s)
        BY <1>4, <2>1 DEF OpenFails, EmptySeen, network, Promise!Refuse
    <2> QED
        BY <2>2 DEF Promise!Next
<1>5. ASSUME NEW s \in Scan, SendSearch(s)
      PROVE  [Promise!Next]_(Promise!vars)
    <2>1. s \in Open /\ UNCHANGED <<device, held>>
        BY <1>5 DEF SendSearch, Open, history
    <2>2. CASE ReturnError(s)
        BY <2>1, <2>2, ErrorIsEnd DEF Promise!Next, Open
    <2>3. CASE pc' = [pc EXCEPT ![s] = "listen"] /\ UNCHANGED <<inbox, seen, outcome>>
        <3>1. Open' = Open
            BY <1>5, <2>3 DEF SendSearch, Open, TypeOK
        <3> QED
            BY <2>1, <2>3, <3>1 DEF Promise!vars
    <2> QED
        BY <1>5, <2>2, <2>3 DEF SendSearch
<1>6. ASSUME NEW s \in Scan, NEW m \in inbox[s], Receive(s, m)
      PROVE  [Promise!Next]_(Promise!vars)
    BY <1>6, ReceiveIsGather
<1>7. ASSUME NEW s \in Scan, PollFails(s)
      PROVE  [Promise!Next]_(Promise!vars)
    <2>1. s \in Open /\ ReturnError(s) /\ UNCHANGED <<device, held>>
        BY <1>7 DEF PollFails, Open, network, history
    <2> QED
        BY <2>1, ErrorIsEnd DEF Promise!Next, Open
<1>8. ASSUME NEW s \in Scan, Deadline(s)
      PROVE  [Promise!Next]_(Promise!vars)
    <2>1. s \in Open /\ UNCHANGED <<device, held, seen>>
        BY <1>8 DEF Deadline, Open, network, history
    <2>2. CASE MoreAttempts(s, attempt'[s])
        <3>1. Open' = Open /\ UNCHANGED outcome
            BY <1>8, <2>2 DEF Deadline, Open, TypeOK
        <3> QED
            BY <2>1, <3>1 DEF Promise!vars
    <2>3. CASE ~MoreAttempts(s, attempt'[s])
        <3>1. Close(s) /\ outcome' = [outcome EXCEPT ![s] = "done"]
            BY <1>8, <2>3 DEF Deadline
        <3>2. Open' = Open \ {s}
            BY <2>1, <3>1, Closing
        <3>3. Promise!End(s)
            BY <2>1, <3>1, <3>2 DEF Promise!End
        <3> QED
            BY <1>8, <3>3 DEF Promise!Next
    <2> QED
        BY <2>2, <2>3
<1>9. CASE UNCHANGED vars
    BY <1>9 DEF vars, Open, Promise!vars
<1> QED
    BY <1>1, <1>2, <1>3, <1>4, <1>5, <1>6, <1>7, <1>8, <1>9 DEF Next

\* Nothing is under way at first.
LEMMA InitIsSurvey == Init => Promise!Init /\ Fresh
BY DEF Init, Fresh, Open, Promise!Init

\* Scans, however many share the port, implement Survey as far as safety goes,
\* what the batch worker and the window rely on: every record is the first of
\* its identity and of the time of the scan, and all or none are returned.
THEOREM ScansAreSurveys == Spec => Promise!Init /\ [][Promise!Next]_(Promise!vars)
BY InitIsSurvey, InitTypeOK, TypeOKStep, FreshStep, StepIsSurvey, PTL DEF Spec

-----------------------------------------------------------------------------
(* No device hides another                                                 *)

\* Every device whose MAC address was read has a record that names it, unless
\* the scan has failed.
Listed ==
    \A s \in Scan :
        /\ pc[s] # "closed" => outcome[s] = "none"
        /\ outcome[s] # "failed" =>
               \A d \in heard[s] : \E r \in seen[s] : Named(r) /\ r.from = d

\* An identity that is a MAC address is that of one device.
LEMMA SameName ==
    ASSUME NEW m \in Record, NEW r \in Record, Named(m), Key(r) = Key(m)
    PROVE  Named(r) /\ r.from = m.from
<1>1. XmlMac[m.from] \in Spelling /\ XmlMac[r.from] \in Spelling
    BY DiscoveryAssumption DEF Record
<1>2. Key(m)[1] = m.from /\ Key(m)[2] # "ip"
    BY <1>1 DEF Key, Named, Spelling
<1>3. Named(r)
    <2>1. ~Named(r) => Key(r) = <<r.ip, "ip">>
        BY DEF Key, Named
    <2>2. ~Named(r) => Key(r)[2] = "ip"
        BY <2>1
    <2> QED
        BY <1>2, <2>2
<1>4. Key(r)[1] = r.from
    BY <1>3 DEF Key
<1> QED
    BY <1>2, <1>3, <1>4

\* Every step keeps devices listed.
LEMMA ListedStep == TypeOK /\ Listed /\ [Next]_vars => Listed'
<1> SUFFICES ASSUME TypeOK, Listed, [Next]_vars
             PROVE  Listed'
    OBVIOUS
<1>1. ASSUME NEW s \in Scan, OpenSocket(s) \/ OpenFails(s)
      PROVE  Listed'
    <2>1. \A t \in Scan : t # s => /\ outcome'[t] = outcome[t] /\ heard'[t] = heard[t]
                                   /\ seen'[t] = seen[t] /\ pc'[t] = pc[t]
        BY <1>1 DEF OpenSocket, OpenFails, EmptySeen, TypeOK
    <2>2. heard'[s] = {} /\ (pc'[s] # "closed" => outcome'[s] = "none")
        BY <1>1 DEF OpenSocket, OpenFails, TypeOK
    <2> QED
        BY <2>1, <2>2 DEF Listed
<1>2. ASSUME NEW s \in Scan, SendSearch(s) \/ PollFails(s)
      PROVE  Listed'
    <2>1. heard' = heard
        BY <1>2 DEF SendSearch, PollFails, history
    <2>2. \/ UNCHANGED <<seen, outcome>> /\ pc[s] # "closed" /\ pc' = [pc EXCEPT ![s] = "listen"]
          \/ ReturnError(s)
        BY <1>2 DEF SendSearch, PollFails
    <2>3. CASE ReturnError(s)
        <3>1. outcome'[s] = "failed" /\ pc'[s] = "closed"
            BY <2>3 DEF ReturnError, Close, TypeOK
        <3>2. \A t \in Scan : t # s => /\ outcome'[t] = outcome[t] /\ seen'[t] = seen[t]
                                       /\ pc'[t] = pc[t]
            BY <2>3 DEF ReturnError, EmptySeen, Close, TypeOK
        <3> QED
            BY <2>1, <3>1, <3>2 DEF Listed
    <2> QED
        BY <2>1, <2>2, <2>3 DEF Listed, TypeOK
<1>3. ASSUME NEW s \in Scan, NEW m \in inbox[s], Receive(s, m)
      PROVE  Listed'
    <2>1. m \in Record /\ seen[s] \subseteq Record
        BY DEF TypeOK
    <2>2. /\ UNCHANGED <<outcome, pc>>
          /\ \A t \in Scan : seen'[t] = IF t = s THEN FirstAnswer(s, m) ELSE seen[t]
          /\ \A t \in Scan : heard'[t] = IF t = s /\ Named(m) THEN heard[t] \cup {m.from} ELSE heard[t]
        BY <1>3 DEF Receive, TypeOK
    <2>3. seen[s] \subseteq FirstAnswer(s, m)
        BY DEF FirstAnswer
    <2>4. Named(m) => \E r \in FirstAnswer(s, m) : Named(r) /\ r.from = m.from
        <3>1. CASE \E r \in seen[s] : Key(r) = Key(m)
            BY <2>1, <2>3, <3>1, SameName
        <3>2. CASE ~ \E r \in seen[s] : Key(r) = Key(m)
            BY <3>2 DEF FirstAnswer
        <3> QED
            BY <3>1, <3>2
    <2>5. ASSUME NEW t \in Scan, outcome[t] # "failed", NEW d \in heard'[t]
          PROVE  \E r \in seen'[t] : Named(r) /\ r.from = d
        <3>1. CASE d \in heard[t]
            BY <2>2, <2>3, <2>5, <3>1 DEF Listed
        <3>2. CASE d \notin heard[t]
            <4>1. t = s /\ Named(m) /\ d = m.from
                BY <2>2, <2>5, <3>2
            <4> QED
                BY <2>2, <2>4, <4>1
        <3> QED
            BY <3>1, <3>2
    <2>6. \A t \in Scan : pc'[t] # "closed" => outcome'[t] = "none"
        BY <2>2 DEF Listed
    <2> QED
        BY <2>2, <2>5, <2>6 DEF Listed, Named
<1>4. ASSUME NEW s \in Scan, Deadline(s)
      PROVE  Listed'
    <2>1. UNCHANGED <<seen, heard>> /\ pc[s] = "listen"
        BY <1>4 DEF Deadline, history
    <2>2. outcome[s] = "none"
        BY <2>1 DEF Listed
    <2>3. \A t \in Scan : t # s => outcome'[t] = outcome[t] /\ pc'[t] = pc[t]
        BY <1>4 DEF Deadline, Close, TypeOK
    <2>4. \/ pc'[s] = "closed"
          \/ outcome'[s] = "none"
        BY <1>4, <2>2 DEF Deadline, Close, TypeOK
    <2> QED
        BY <2>1, <2>2, <2>3, <2>4 DEF Listed
<1>5. CASE UNCHANGED <<seen, heard, outcome, pc>>
    BY <1>5 DEF Listed
<1> QED
    BY <1>1, <1>2, <1>3, <1>4, <1>5 DEF Next, Readdress, Answer, vars, history

\* Listed devices are not hidden.
LEMMA ListedIsNotHidden == Listed => NobodyHidden
BY DEF Listed, NobodyHidden

\* Whatever addresses devices share and whichever protocol they answer first,
\* a scan without error lists every device whose MAC address it read.
THEOREM NobodyIsHidden == Spec => []NobodyHidden
<1>1. Init => Listed
    BY DEF Init, Listed
<1> QED
    BY <1>1, InitTypeOK, TypeOKStep, ListedStep, ListedIsNotHidden, PTL DEF Spec
-----------------------------------------------------------------------------
(* What Survey promises, of the lists that scans return                    *)

\* A step of Survey keeps lists true.
LEMMA SurveyKeepsListsTrue ==
    TypeOK /\ Promise!ListsAreTrue /\ [Promise!Next]_(Promise!vars)
        => Promise!ListsAreTrue'
<1> SUFFICES ASSUME TypeOK, Promise!ListsAreTrue, [Promise!Next]_(Promise!vars)
             PROVE  Promise!ListsAreTrue'
    OBVIOUS
<1>1. ASSUME NEW d \in Device, NEW a \in Ip, Promise!Move(d, a)
      PROVE  Promise!ListsAreTrue'
    <2>1. seen' = seen /\ \A s \in Scan : held[s] \subseteq held'[s]
        BY <1>1 DEF Promise!Move, TypeOK
    <2> QED
        BY <2>1 DEF Promise!ListsAreTrue
<1>2. ASSUME NEW s \in Scan, Promise!Begin(s) \/ Promise!Refuse(s)
      PROVE  Promise!ListsAreTrue'
    <2>1. seen'[s] = {} /\ \A t \in Scan \ {s} : seen'[t] = seen[t] /\ held'[t] = held[t]
        BY <1>2 DEF Promise!Begin, Promise!Refuse, TypeOK
    <2> QED
        BY <2>1 DEF Promise!ListsAreTrue
<1>3. ASSUME NEW s \in Scan, Promise!End(s)
      PROVE  Promise!ListsAreTrue'
    <2>1. held' = held /\ \A t \in Scan : seen'[t] \subseteq seen[t]
        BY <1>3 DEF Promise!End, TypeOK
    <2> QED
        BY <2>1 DEF Promise!ListsAreTrue
<1>4. ASSUME NEW s \in Scan, NEW m \in Record, Promise!Gather(s, m)
      PROVE  Promise!ListsAreTrue'
    <2>1. /\ held' = held
          /\ \A t \in Scan : seen'[t] = IF t = s THEN seen[t] \cup {m} ELSE seen[t]
          /\ <<m.from, m.ip>> \in held[s]
          /\ \A r \in seen[s] : Key(r) # Key(m)
        BY <1>4 DEF Promise!Gather, TypeOK
    <2> QED
        BY <2>1 DEF Promise!ListsAreTrue
<1>5. CASE UNCHANGED Promise!vars
    BY <1>5 DEF Promise!vars, Promise!ListsAreTrue
<1> QED
    BY <1>1, <1>2, <1>3, <1>4, <1>5 DEF Promise!Next

\* The list tvt_discover_lan returns, and at any moment the one it is making,
\* shows every device at an address it had while the scan ran, and no identity
\* twice: what the store and the rescans of a batch rely on.
THEOREM ScansListTruly == Spec => []Promise!ListsAreTrue
<1>1. Init => Promise!ListsAreTrue
    BY DEF Init, Promise!ListsAreTrue
<1> QED
    BY <1>1, InitIsSurvey, InitTypeOK, TypeOKStep, FreshStep, StepIsSurvey,
       SurveyKeepsListsTrue, PTL DEF Spec

-----------------------------------------------------------------------------
(* Every scan runs out of steps                                            *)

\* Steps a scan has before it at most, apart from reading answers: a search and
\* a deadline in each attempt.
ScanStepsLeft(s) ==
    CASE pc[s] = "closed" -> 0
      [] pc[s] = "search" -> 2 * (Retries[s] - attempt[s])
      [] pc[s] = "listen" -> 2 * (Retries[s] - attempt[s]) - 1

\* No step gives a scan under way more to do, whatever comes in and whatever
\* other scans do, and each of its own steps but reading leaves it less.
ScanStepCounts ==
    \A s \in Open :
        /\ ScanStepsLeft(s)' <= ScanStepsLeft(s)
        /\ SendSearch(s) \/ PollFails(s) \/ Deadline(s)
               => ScanStepsLeft(s)' < ScanStepsLeft(s)

\* A scan has fewer than none left never, and none only when it is closed.
LEMMA StepsLeftIsNat ==
    ASSUME TypeOK, NEW s \in Scan
    PROVE  /\ ScanStepsLeft(s) \in 0 .. 2 * Retries[s]
           /\ ScanStepsLeft(s) = 0 => pc[s] = "closed"
<1>1. Retries[s] \in Nat /\ attempt[s] \in Nat /\ pc[s] \in {"closed", "search", "listen"}
    BY DiscoveryAssumption DEF TypeOK
<1>2. pc[s] # "closed" => attempt[s] < Retries[s]
    BY DEF TypeOK
<1> QED
    BY <1>1, <1>2 DEF ScanStepsLeft

\* A scan counts down by its own steps.
LEMMA ScanCountsDown ==
    ASSUME TypeOK, NEW s \in Open, SendSearch(s) \/ PollFails(s) \/ Deadline(s)
    PROVE  ScanStepsLeft(s)' < ScanStepsLeft(s)
<1>1. s \in Scan /\ Retries[s] \in Nat /\ attempt[s] \in Nat /\ attempt[s] < Retries[s]
    BY DiscoveryAssumption DEF TypeOK, Open
<1>2. ASSUME pc'[s] = "closed"
      PROVE  ScanStepsLeft(s)' < ScanStepsLeft(s)
    <2>1. ScanStepsLeft(s)' = 0
        BY <1>2 DEF ScanStepsLeft
    <2>2. ScanStepsLeft(s) \in 0 .. 2 * Retries[s] /\ ScanStepsLeft(s) # 0
        BY <1>1, StepsLeftIsNat DEF Open
    <2> QED
        BY <1>1, <2>1, <2>2
<1>3. CASE SendSearch(s)
    <2>1. pc[s] = "search" /\ attempt' = attempt
        BY <1>3 DEF SendSearch
    <2>2. pc'[s] = "closed" \/ pc'[s] = "listen"
        BY <1>1, <1>3 DEF SendSearch, ReturnError, Close, TypeOK
    <2> QED
        BY <1>1, <1>2, <2>1, <2>2 DEF ScanStepsLeft
<1>4. CASE PollFails(s)
    BY <1>1, <1>2, <1>4 DEF PollFails, ReturnError, Close, TypeOK
<1>5. CASE Deadline(s)
    <2>1. pc[s] = "listen" /\ attempt'[s] = attempt[s] + 1
        BY <1>1, <1>5 DEF Deadline, TypeOK
    <2>2. pc'[s] = "closed" \/ pc'[s] = "search"
        BY <1>1, <1>5 DEF Deadline, Close, TypeOK
    <2> QED
        BY <1>1, <1>2, <2>1, <2>2 DEF ScanStepsLeft
<1> QED
    BY <1>3, <1>4, <1>5

\* Any other step leaves it where it is.
LEMMA OthersCountNothing ==
    ASSUME TypeOK, NEW s \in Open, [Next]_vars, ~(SendSearch(s) \/ PollFails(s) \/ Deadline(s))
    PROVE  pc'[s] = pc[s] /\ attempt'[s] = attempt[s]
<1>1. s \in Scan /\ pc[s] # "closed"
    BY DEF Open
<1>2. ASSUME NEW t \in Scan, OpenSocket(t)
      PROVE  pc'[s] = pc[s] /\ attempt'[s] = attempt[s]
    BY <1>1, <1>2 DEF OpenSocket, TypeOK
<1>3. ASSUME NEW t \in Scan, t # s, SendSearch(t) \/ PollFails(t) \/ Deadline(t)
      PROVE  pc'[s] = pc[s] /\ attempt'[s] = attempt[s]
    BY <1>1, <1>3 DEF SendSearch, PollFails, Deadline, ReturnError, Close, TypeOK
<1>4. CASE UNCHANGED <<pc, attempt>>
    BY <1>4
<1> QED
    BY <1>2, <1>3, <1>4 DEF Next, Readdress, Answer, OpenFails, Receive, vars

\* A scan ends after two steps of its own in each attempt at most, however many
\* answers come in and in whatever order: with a deadline that is looked at, it
\* is not the network that decides how long tvt_discover_lan takes.
THEOREM ScansRunOut == Spec => [][ScanStepCounts]_vars
<1>1. TypeOK /\ [Next]_vars => ScanStepCounts
    <2> SUFFICES ASSUME TypeOK, [Next]_vars, NEW s \in Open
                 PROVE  /\ ScanStepsLeft(s)' <= ScanStepsLeft(s)
                        /\ SendSearch(s) \/ PollFails(s) \/ Deadline(s)
                               => ScanStepsLeft(s)' < ScanStepsLeft(s)
        BY DEF ScanStepCounts
    <2>1. CASE SendSearch(s) \/ PollFails(s) \/ Deadline(s)
        <3>1. s \in Scan /\ TypeOK' /\ Retries[s] \in Nat
            BY TypeOKStep, DiscoveryAssumption DEF Open
        <3>2. ScanStepsLeft(s) \in Nat
            BY <3>1, StepsLeftIsNat
        <3>3. ScanStepsLeft(s)' \in Int
            BY <3>1 DEF TypeOK, ScanStepsLeft
        <3> QED
            BY <2>1, <3>2, <3>3, ScanCountsDown
    <2>2. CASE ~(SendSearch(s) \/ PollFails(s) \/ Deadline(s))
        <3>1. ScanStepsLeft(s)' = ScanStepsLeft(s)
            BY <2>2, OthersCountNothing DEF ScanStepsLeft
        <3>2. s \in Scan /\ Retries[s] \in Nat
            BY DiscoveryAssumption DEF Open
        <3>3. ScanStepsLeft(s) \in Nat
            BY <3>2, StepsLeftIsNat
        <3> QED
            BY <2>2, <3>1, <3>3
    <2> QED
        BY <2>1, <2>2
<1> QED
    BY <1>1, InitTypeOK, TypeOKStep, PTL DEF Spec
===============================================================================
