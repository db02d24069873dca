--------------------------- MODULE KeepsPromiseProofs ---------------------------
(* ModifyBatch implements VerifiedChange, for any number of batches and    *)
(* jobs: every step of a worker, a device or the network is a step of the  *)
(* promise, or none that it sees.  With rescans that are scans of Survey   *)
(* it still does, and its verdicts are as fresh as the rescans.            *)
EXTENDS ModifyBatchProofs, SurveyedBatch

\* What the promise rests on: the safety properties proved before.
Basis == TypeOK /\ Bounds /\ OneAtATime /\ Routing /\ Watching /\ VerifiedWasReal

\* The turn of a job that is not behind the current one has come.
LEMMA TurnCame ==
    ASSUME Basis, NEW id \in JobId, id[2] <= cur[id[1]]
    PROVE  Promise!Begun(id)
<1>1. id[1] \in Worker /\ id[2] \in 1..NumJobs /\ NumJobs \in Nat
    BY ConstantAssumption DEF JobId
<1>2. cur[id[1]] \in Nat
    BY <1>1 DEF Basis, TypeOK
<1>3. \A k \in 1..(id[2] - 1) : k \in 1..NumJobs /\ k < cur[id[1]]
    BY <1>1, <1>2
<1> QED
    BY <1>1, <1>3 DEF Promise!Begun, Basis, OneAtATime

\* A job whose target is being watched is one whose turn has come.
LEMMA WatchedTurnCame ==
    ASSUME Basis, NEW id \in JobId, visited[id] # {}
    PROVE  Promise!Begun(id)
<1>1. /\ id[1] \in Worker /\ id[2] \in 1..NumJobs /\ id = <<id[1], id[2]>>
      /\ cur[id[1]] \in Nat
    BY ConstantAssumption DEF JobId, Basis, TypeOK
<1>2. ~(id[2] > cur[id[1]])
    BY <1>1 DEF Basis, Watching
<1>3. id[2] <= cur[id[1]]
    BY <1>1, <1>2
<1> QED
    BY <1>3, TurnCame

\* Whatever a device becomes, only open jobs that look for it see it.
LEMMA BecomeIsObserved ==
    ASSUME Basis, NEW d \in Device, NEW s \in State, Become(d, s), UNCHANGED <<job, verdict>>
    PROVE  Promise!Observe
<1> DEFINE found == Held' \ Held
<1>1. device'[d] = s
    BY DEF Become, Basis, TypeOK
<1>2. \A id \in JobId :
          \/ visited'[id] = visited[id]
          \/ /\ job[id].target = d /\ visited[id] # {} /\ verdict[id] = "pending"
             /\ visited'[id] = visited[id] \cup {s}
    BY DEF Become
<1>3. Held' = Held \cup found
    BY <1>2 DEF Held, Requested
<1>4. ASSUME NEW id \in found
      PROVE  /\ id \in JobId /\ Promise!Open(id)
             /\ Promise!Requested(job[id], device'[job[id].target])
    <2>1. id \in JobId /\ id \notin Held /\ \E x \in visited'[id] : Requested(job[id], x)
        BY DEF Held, Requested
    <2>2. /\ job[id].target = d /\ visited[id] # {} /\ verdict[id] = "pending"
          /\ visited'[id] = visited[id] \cup {s}
        BY <1>2, <2>1 DEF Held
    <2>3. Requested(job[id], s)
        BY <2>1, <2>2 DEF Held
    <2> QED
        BY <1>1, <2>1, <2>2, <2>3, WatchedTurnCame
        DEF Promise!Open, Promise!Requested, Requested
<1> HIDE DEF found
<1> QED
    BY <1>3, <1>4 DEF Promise!Observe, Promise!JobId, JobId

\* A request that takes effect is the change its job asks for.
LEMMA RequestIsChange ==
    ASSUME Basis, NEW m \in air, NEW s \in Outcomes(m.id), Become(m.to, s),
           UNCHANGED <<job, verdict>>
    PROVE  Promise!Next
<1>1. /\ m.id \in JobId /\ m.to \in Device /\ s \in State
      /\ m.to = job[m.id].target
    BY RequestTyping DEF Basis, Routing
<1>2. Promise!Begun(m.id)
    <2>1. /\ m.id[1] \in Worker /\ m.id[2] \in 1..NumJobs /\ m.id = <<m.id[1], m.id[2]>>
          /\ cur[m.id[1]] \in Nat
        BY <1>1, ConstantAssumption DEF JobId, Basis, TypeOK
    <2>2. ~(m.id[2] > cur[m.id[1]])
        BY <2>1 DEF Basis, OneAtATime
    <2>3. m.id[2] <= cur[m.id[1]]
        BY <2>1, <2>2
    <2> QED
        BY <1>1, <2>3, TurnCame
<1>3. s.dhcp = job[m.id].dhcp /\ Promise!Requested(job[m.id], s)
    <2>1. job[m.id] \in Job
        BY <1>1 DEF Basis, TypeOK
    <2>2. CASE job[m.id].dhcp
        <3>1. job[m.id].dhcp = TRUE /\ s \in [ip: Ip, dhcp: {TRUE}]
            BY <2>1, <2>2 DEF Outcomes, Job
        <3>2. s.dhcp = TRUE
            BY <3>1
        <3> QED
            BY <3>1, <3>2 DEF Promise!Requested
    <2>3. CASE ~job[m.id].dhcp
        <3>1. job[m.id].dhcp = FALSE /\ s = [ip |-> job[m.id].newIp, dhcp |-> FALSE]
            BY <2>1, <2>3 DEF Outcomes, Job
        <3>2. s.dhcp = FALSE /\ s.ip = job[m.id].newIp
            BY <3>1
        <3> QED
            BY <3>1, <3>2 DEF Promise!Requested
    <2> QED
        BY <2>2, <2>3
<1>4. Promise!Observe
    BY <1>1, BecomeIsObserved
<1>5. device' = [device EXCEPT ![job[m.id].target] = s]
    BY <1>1 DEF Become
<1>6. Promise!Change(m.id)
    BY <1>1, <1>2, <1>3, <1>4, <1>5 DEF Promise!Change, State
<1> QED
    BY <1>1, <1>6 DEF Promise!Next, Promise!JobId, JobId

\* What happens to devices and network is a change of a job's target, the move
\* of a DHCP device, or nothing that the promise speaks of.
LEMMA EnvironmentRefines ==
    ASSUME Basis, Environment
    PROVE  Promise!Next \/ UNCHANGED Promise!vars
<1> USE DEF deviceVars, sessionVars, l2Vars, scanVars, resultVars
<1>1. ASSUME NEW m \in air, DeviceEdits(m)
      PROVE  Promise!Next \/ UNCHANGED Promise!vars
    <2>1. UNCHANGED <<job, verdict>>
        BY <1>1 DEF DeviceEdits
    <2>2. UNCHANGED <<device, visited>> \/ \E s \in Outcomes(m.id) : Become(m.to, s)
        BY <1>1 DEF DeviceEdits
    <2>3. CASE UNCHANGED <<device, visited>>
        BY <2>1, <2>3 DEF Promise!vars, Held, Requested
    <2> QED
        BY <2>1, <2>2, <2>3, RequestIsChange
<1>2. ASSUME NEW m \in air, DeviceObeys(m)
      PROVE  Promise!Next
    BY <1>2, RequestIsChange DEF DeviceObeys
<1>3. ASSUME NEW m \in air, LoseRequest(m)
      PROVE  UNCHANGED Promise!vars
    BY <1>3 DEF LoseRequest, Promise!vars, Held, Requested
<1>4. ASSUME NEW d \in Device, RenewLease(d)
      PROVE  Promise!Next
    <2>1. PICK a \in Ip : Become(d, [ip |-> a, dhcp |-> TRUE])
        BY <1>4 DEF RenewLease
    <2>2. UNCHANGED <<job, verdict>> /\ device[d].dhcp /\ device[d] \in State
        BY <1>4 DEF RenewLease, Basis, TypeOK
    <2>3. Promise!Observe
        BY <2>1, <2>2, BecomeIsObserved DEF State
    <2>4. [device[d] EXCEPT !.ip = a] = [ip |-> a, dhcp |-> TRUE]
        <3>1. device[d].dhcp = TRUE
            BY <2>2 DEF State
        <3> DEFINE moved == [device[d] EXCEPT !.ip = a]
        <3>2. moved \in State /\ moved.ip = a /\ moved.dhcp = device[d].dhcp
            BY <2>2 DEF State
        <3> HIDE DEF moved
        <3>3. moved = [ip |-> moved.ip, dhcp |-> moved.dhcp]
            BY <3>2 DEF State
        <3>4. moved = [ip |-> a, dhcp |-> TRUE]
            BY <3>1, <3>2, <3>3
        <3> QED
            BY <3>4 DEF moved
    <2>5. device' = [device EXCEPT ![d].ip = a]
        BY <2>1, <2>4 DEF Become
    <2>6. Promise!Drift(d)
        BY <2>2, <2>3, <2>5 DEF Promise!Drift
    <2> QED
        BY <2>6 DEF Promise!Next
<1>5. ASSUME NEW w \in Worker, NEW d \in Device, NEW m \in Spelling, HearAnswer(w, d, m)
      PROVE  UNCHANGED Promise!vars
    BY <1>5 DEF HearAnswer, Promise!vars, Held, Requested
<1> QED
    BY <1>1, <1>2, <1>3, <1>4, <1>5 DEF Environment

\* A worker step judges its job, or finds its target as requested already when
\* the rescans begin, or nothing.
LEMMA WorkerRefines ==
    ASSUME Basis, Basis', NEW w \in Worker, WorkerStep(w)
    PROVE  Promise!Next
<1>1. UNCHANGED <<device, job>>
    BY WorkerFrame DEF Basis
<1>2. CASE UNCHANGED <<cur, verdict>>
    <2> DEFINE id == Cur(w)
               found == Held' \ Held
    <2>1. CASE UNCHANGED visited
        <3>1. Held' = Held \cup {}
            BY <1>1, <2>1 DEF Held, Requested
        <3>2. Promise!Observe
            BY <3>1 DEF Promise!Observe
        <3> QED
            BY <1>1, <1>2, <3>2 DEF Promise!Watch, Promise!Next
    <2>2. CASE ~UNCHANGED visited
        <3>1. /\ pc[w] \notin {"rescan", "scan", "done", "freed"}
              /\ visited' = [visited EXCEPT ![id] = {device[job[id].target]}]
            BY <1>2, <2>2, WatchMoves DEF Basis
        <3>2. /\ cur[w] \in 1..NumJobs /\ id \in JobId
            BY <3>1, CurrentJob DEF Basis
        <3>3. visited[id] = {} /\ verdict[id] = "pending"
            <4>1. ~(cur[w] < cur[w])
                BY <3>2, ConstantAssumption
            <4> QED
                BY <3>1, <3>2, <4>1 DEF Basis, Watching, OneAtATime, Cur
        <3>4. /\ visited'[id] = {device[job[id].target]}
              /\ \A k \in JobId : k # id => visited'[k] = visited[k]
            BY <3>1, <3>2 DEF Basis, TypeOK
        <3>5. Held' = Held \cup found
            BY <1>1, <3>3, <3>4 DEF Held, Requested
        <3>6. \A k \in found : k = id /\ Requested(job[id], device[job[id].target])
            BY <1>1, <3>3, <3>4 DEF Held, Requested
        <3>7. Promise!Begun(id)
            <4>1. id[1] = w /\ id[2] = cur[w] /\ cur[w] <= cur[w]
                BY <3>2, ConstantAssumption DEF Cur
            <4> QED
                BY <3>2, <4>1, TurnCame
        <3> HIDE DEF found, id
        <3>8. Promise!Observe
            BY <1>1, <3>2, <3>3, <3>5, <3>6, <3>7
            DEF Promise!Observe, Promise!Open, Promise!Requested, Requested, Promise!JobId, JobId
        <3> QED
            BY <1>1, <1>2, <3>8 DEF Promise!Watch, Promise!Next
    <2> QED
        BY <2>1, <2>2
<1>3. CASE ~UNCHANGED <<cur, verdict>>
    <2> DEFINE id == Cur(w)
    <2>1. /\ pc[w] \notin {"done", "freed"}
          /\ \E v \in Verdict \ {"pending"} : Conclude(w, v)
        BY <1>3, StayOrConclude DEF Basis
    <2>2. PICK v \in Verdict \ {"pending"} : Conclude(w, v)
        BY <2>1
    <2>3. cur[w] \in 1..NumJobs /\ id \in JobId
        BY <2>1, CurrentJob DEF Basis
    <2>4. verdict' = [verdict EXCEPT ![id] = v] /\ verdict'[id] = v
        BY <2>2, <2>3 DEF Conclude, Basis, TypeOK
    <2>5. UNCHANGED visited
        BY <1>3, WatchMoves DEF Basis
    <2>6. Held' = Held
        BY <1>1, <2>5 DEF Held, Requested
    <2>7. Promise!Open(id)
        <3>1. id[1] = w /\ id[2] = cur[w] /\ cur[w] <= cur[w] /\ ~(cur[w] < cur[w])
            BY <2>3, ConstantAssumption DEF Cur
        <3>2. verdict[id] = "pending"
            BY <2>3, <3>1 DEF Basis, OneAtATime, Cur
        <3> QED
            BY <2>3, <3>1, <3>2, TurnCame DEF Promise!Open
    <2>8. v = "verified" => id \in Held
        BY <2>3, <2>4, <2>6 DEF Basis, VerifiedWasReal, Held
    <2>9. Promise!Judge(id, v)
        BY <1>1, <2>4, <2>6, <2>7, <2>8 DEF Promise!Judge
    <2>10. v \in {"verified", "unverified", "failed"} /\ id \in Promise!JobId
        BY <2>3 DEF Verdict, JobId, Promise!JobId
    <2> HIDE DEF id
    <2> QED
        BY <2>9, <2>10 DEF Promise!JudgeSome, Promise!Next
<1> QED
    BY <1>2, <1>3

\* Every step of batches, devices and network is one of the promise.
LEMMA PromiseStep ==
    ASSUME Basis, Basis', [Next]_vars
    PROVE  [Promise!Next]_(Promise!vars)
<1>1. CASE UNCHANGED vars
    BY <1>1 DEF vars, Promise!vars, Held, Requested
<1>2. CASE Finished
    BY <1>1, <1>2 DEF Finished
<1> QED
    BY <1>1, <1>2, EnvironmentRefines, WorkerRefines DEF Next

\* The worker keeps its promise, however batches, devices and network
\* interleave: it changes targets only, in turn, and says "verified" of what
\* was seen as requested.
THEOREM WorkerKeepsPromise == Spec => KeepsPromiseSafely
<1>1. Init => Promise!Init
    BY DEF Init, Promise!Init, Held, JobId, Promise!JobId
<1>2. Spec => []Basis
    BY TypeCorrect, Sequential, RoutingAlways, WatchingAlways, PTL DEF Basis
<1> QED
    BY <1>1, <1>2, PromiseStep, PTL DEF Spec, KeepsPromiseSafely

-----------------------------------------------------------------------------
(* Rescans that are scans of Survey                                        *)

\* What the worker's invariants say, of the batch and of its scans.
HeldTypes == held \in [Worker -> SUBSET (Device \X State)]
SurveyedBasis == Basis /\ OnlyTheTarget /\ HeldTypes /\ ListIsOfTheScan

\* A rescan that is refused or lists a device is no step of ModifyBatch; all
\* others are.
LEMMA SurveyedCases ==
    ASSUME SurveyedNext
    PROVE  \/ Next
           \/ \E w \in Worker : RefuseRescan(w)
           \/ \E w \in Worker, m \in Record : ListDevice(w, m)
<1>1. ASSUME NEW w \in Worker, BeginRescan(w) \/ EndRescan(w) \/ BetweenRescans(w)
      PROVE  WorkerStep(w)
    BY <1>1 DEF BeginRescan, EndRescan, BetweenRescans, WorkerStep
<1>2. World => Environment
    BY DEF World, Environment
<1> QED
    BY <1>1, <1>2 DEF SurveyedNext, Next

\* A refused rescan counts, and changes nothing else.
LEMMA RefusedIsHarmless ==
    ASSUME SurveyedBasis, NEW w \in Worker, RefuseRescan(w)
    PROVE  (Basis /\ OnlyTheTarget)' /\ UNCHANGED Promise!vars
<1> USE DEF deviceVars, sessionVars, l2Vars, resultVars
<1>1. UNCHANGED <<device, air, job, pc, cur, session, reply, attempt, sent, answers,
                  secret, webError, usedWeb, verdict, visited, writes>>
    BY DEF RefuseRescan
<1>2. /\ pc[w] = "rescan" /\ rescan[w] < MaxRescans
      /\ rescan' = [rescan EXCEPT ![w] = rescan[w] + 1]
    BY DEF RefuseRescan, MoreRescans
<1>3. rescan' \in [Worker -> 0..MaxRescans]
    BY <1>2, ConstantAssumption DEF SurveyedBasis, Basis, TypeOK
<1>4. TypeOK'
    BY <1>1, <1>3 DEF SurveyedBasis, Basis, TypeOK
<1>5. Bounds'
    BY <1>1, <1>2 DEF SurveyedBasis, Basis, Bounds, TypeOK
<1>6. (OneAtATime /\ Routing /\ VerifiedWasReal /\ OnlyTheTarget)'
    BY <1>1 DEF SurveyedBasis, Basis, OneAtATime, Routing, VerifiedWasReal, OnlyTheTarget, Cur,
                Requested
<1>7. Watching'
    BY <1>1 DEF SurveyedBasis, Basis, Watching, Cur
<1>8. UNCHANGED Promise!vars
    BY <1>1 DEF Promise!vars, Held, Requested
<1> QED
    BY <1>4, <1>5, <1>6, <1>7, <1>8 DEF Basis

\* A device is listed at an address it has had since the rescans of the job
\* began, if it is the target, whatever it has now.
LEMMA ListedWasVisited ==
    ASSUME SurveyedBasis, NEW w \in Worker, NEW m \in Record, ListDevice(w, m)
    PROVE  (Basis /\ OnlyTheTarget)' /\ UNCHANGED Promise!vars
<1> USE DEF deviceVars, sessionVars, l2Vars, resultVars
<1>1. UNCHANGED <<device, air, job, pc, cur, session, reply, attempt, sent, rescan,
                  secret, webError, usedWeb, verdict, visited, writes>>
    BY DEF ListDevice
<1>2. /\ pc[w] = "scan" /\ <<m.from, m.ip>> \in held[w]
      /\ m.from \in Device /\ m.as \in Spelling /\ m.ip \in State
      /\ answers' = [answers EXCEPT ![w][<<m.from, m.as>>] = m.ip]
    BY DEF ListDevice, Scans!Gather, Record, Identity
<1>3. /\ answers' \in [Worker -> [Device \X Spelling -> State \cup {Nobody}]]
      /\ \A u \in Worker : u # w => answers'[u] = answers[u]
      /\ \A k \in Device \X Spelling :
             \/ answers'[w][k] = answers[w][k]
             \/ k = <<m.from, m.as>> /\ answers'[w][k] = m.ip
    <2>1. answers[w] \in [Device \X Spelling -> State \cup {Nobody}]
        BY DEF SurveyedBasis, Basis, TypeOK
    <2> DEFINE list == [answers[w] EXCEPT ![<<m.from, m.as>>] = m.ip]
    <2>2. list \in [Device \X Spelling -> State \cup {Nobody}]
        BY <1>2, <2>1
    <2>3. answers' = [answers EXCEPT ![w] = list]
        BY <1>2
    <2>4. \A k \in Device \X Spelling :
              list[k] = answers[w][k] \/ (k = <<m.from, m.as>> /\ list[k] = m.ip)
        BY <1>2, <2>1
    <2> HIDE DEF list
    <2> QED
        BY <2>2, <2>3, <2>4 DEF SurveyedBasis, Basis, TypeOK
<1>4. TypeOK' /\ Bounds'
    BY <1>1, <1>3 DEF SurveyedBasis, Basis, TypeOK, Bounds
<1>5. (OneAtATime /\ Routing /\ VerifiedWasReal /\ OnlyTheTarget)'
    BY <1>1 DEF SurveyedBasis, Basis, OneAtATime, Routing, VerifiedWasReal, OnlyTheTarget, Cur,
                Requested
<1>6. \A u \in Worker : Cur(u)' = Cur(u)
    BY <1>1 DEF Cur
<1>7. ASSUME NEW k \in Spelling
      PROVE  answers'[w][<<job[Cur(w)].target, k>>] \in visited[Cur(w)] \cup {Nobody}
    <2>1. answers[w][<<job[Cur(w)].target, k>>] \in visited[Cur(w)] \cup {Nobody}
        BY <1>2 DEF SurveyedBasis, Basis, Watching
    <2>2. job[Cur(w)].target \in Device
        BY <1>2, CurrentJob DEF SurveyedBasis, Basis, Job
    <2>3. job[Cur(w)].target = m.from => m.ip \in visited[Cur(w)]
        BY <1>2 DEF SurveyedBasis, ListIsOfTheScan
    <2> QED
        BY <1>3, <2>1, <2>2, <2>3
<1>8. Watching'
    <2>1. \A u \in Worker :
             /\ pc[u] \in {"rescan", "scan"} => device[job[Cur(u)].target] \in visited[Cur(u)]
             /\ pc[u] # "scan" => answers'[u] = NoAnswers
             /\ pc[u] = "scan" =>
                   \A k \in Spelling :
                       answers'[u][<<job[Cur(u)].target, k>>] \in visited[Cur(u)] \cup {Nobody}
        BY <1>2, <1>3, <1>7 DEF SurveyedBasis, Basis, Watching
    <2>2. \A u \in Worker, i \in 1..NumJobs :
             i > cur[u] \/ (i = cur[u] /\ pc[u] \notin {"rescan", "scan"}) => visited[<<u, i>>] = {}
        BY DEF SurveyedBasis, Basis, Watching
    <2> QED
        BY <1>1, <1>6, <2>1, <2>2 DEF Watching, NoAnswers
<1>9. UNCHANGED Promise!vars
    BY <1>1 DEF Promise!vars, Held, Requested
<1> QED
    BY <1>4, <1>5, <1>8, <1>9 DEF Basis

\* What a worker leaves to the scans of the others.
LEMMA OthersScan ==
    ASSUME SurveyedBasis, NEW w \in Worker, WorkerStep(w), UNCHANGED <<device, job>>,
           NEW u \in Worker, u # w, pc'[u] = "scan", held'[u] = held[u]
    PROVE  /\ \A k \in Device \X Spelling :
                  answers'[u][k] # Nobody => <<k[1], answers'[u][k]>> \in held'[u]
           /\ \A s \in State :
                  <<job'[Cur(u)'].target, s>> \in held'[u] => s \in visited'[Cur(u)']
<1>1. /\ pc[u] = "scan" /\ cur'[u] = cur[u] /\ answers'[u] = answers[u]
      /\ \A id \in JobId : id # Cur(w) => visited'[id] = visited[id]
    BY WorkerFrame DEF SurveyedBasis, Basis
<1>2. Cur(u)' = Cur(u) /\ Cur(u) # Cur(w) /\ Cur(u) \in JobId
    BY <1>1, CurrentJob DEF SurveyedBasis, Basis, Cur
<1>3. visited'[Cur(u)] = visited[Cur(u)]
    BY <1>1, <1>2
<1> QED
    BY <1>1, <1>2, <1>3 DEF SurveyedBasis, ListIsOfTheScan

\* Only what ended is not "scan" any more, and only what began is.
LEMMA ScanningBegins ==
    ASSUME SurveyedBasis, NEW w \in Worker, WorkerStep(w), pc'[w] = "scan"
    PROVE  pc[w] = "rescan"
<1>1. ASSUME NEW v \in Verdict, Conclude(w, v), pc[w] \notin {"done", "freed"}
      PROVE  FALSE
    BY <1>1, ConcludeTypes DEF SurveyedBasis, Basis, TypeOK
<1> QED
    BY <1>1, WatchMoves DEF SurveyedBasis, Basis

\* A rescan begins with an empty list, and with every device where it is.
LEMMA BeginKeepsList ==
    ASSUME SurveyedBasis, NEW w \in Worker, BeginRescan(w)
    PROVE  ListIsOfTheScan'
<1> USE DEF deviceVars, sessionVars, l2Vars, scanVars, resultVars
<1>1. /\ WorkerStep(w) /\ pc[w] = "rescan"
      /\ UNCHANGED <<device, visited, job, cur, answers>>
      /\ pc' = [pc EXCEPT ![w] = "scan"]
      /\ held' = [held EXCEPT ![w] = {<<d, device[d]>> : d \in Device}]
    BY DEF BeginRescan, StartRescan, Goto, WorkerStep, Scans!Begin
<1> SUFFICES ASSUME NEW u \in Worker, pc'[u] = "scan"
             PROVE  /\ \A k \in Device \X Spelling :
                           answers'[u][k] # Nobody => <<k[1], answers'[u][k]>> \in held'[u]
                    /\ \A s \in State :
                           <<job'[Cur(u)'].target, s>> \in held'[u] => s \in visited'[Cur(u)']
    BY DEF ListIsOfTheScan
<1>2. CASE u # w
    <2>1. held'[u] = held[u]
        BY <1>1, <1>2 DEF SurveyedBasis, HeldTypes
    <2> QED
        BY <1>1, <1>2, <2>1, OthersScan
<1>3. CASE u = w
    <2>1. \A k \in Device \X Spelling : answers'[w][k] = Nobody
        BY <1>1 DEF SurveyedBasis, Basis, Watching, NoAnswers
    <2>2. held'[w] = {<<d, device[d]>> : d \in Device}
        BY <1>1 DEF SurveyedBasis, HeldTypes
    <2>3. Cur(w)' = Cur(w)
        BY <1>1 DEF Cur
    <2>4. device[job[Cur(w)].target] \in visited[Cur(w)]
        BY <1>1 DEF SurveyedBasis, Basis, Watching
    <2> QED
        BY <1>1, <1>3, <2>1, <2>2, <2>3, <2>4
<1> QED
    BY <1>2, <1>3

\* A rescan that ends, and what a worker does between rescans.
LEMMA WorkerKeepsList ==
    ASSUME SurveyedBasis, NEW w \in Worker, EndRescan(w) \/ BetweenRescans(w)
    PROVE  ListIsOfTheScan'
<1>1. WorkerStep(w) /\ UNCHANGED held /\ pc'[w] # "scan"
    <2>1. CASE EndRescan(w)
        <3>1. WorkerStep(w) /\ UNCHANGED held /\ pc[w] = "scan"
            BY <2>1 DEF EndRescan, WorkerStep, FinishRescan, FailRescan, Scans!End
        <3>2. pc'[w] # "scan"
            BY <3>1, ScanningBegins
        <3> QED
            BY <3>1, <3>2
    <2>2. CASE BetweenRescans(w)
        BY <2>2 DEF BetweenRescans, scan
    <2> QED
        BY <2>1, <2>2
<1>2. UNCHANGED <<device, job>>
    BY <1>1, WorkerFrame DEF SurveyedBasis, Basis
<1> SUFFICES ASSUME NEW u \in Worker, pc'[u] = "scan"
             PROVE  /\ \A k \in Device \X Spelling :
                           answers'[u][k] # Nobody => <<k[1], answers'[u][k]>> \in held'[u]
                    /\ \A s \in State :
                           <<job'[Cur(u)'].target, s>> \in held'[u] => s \in visited'[Cur(u)']
    BY DEF ListIsOfTheScan
<1> QED
    BY <1>1, <1>2, OthersScan

\* What is listed was so since the scan began.
LEMMA ListingKeepsList ==
    ASSUME SurveyedBasis, NEW w \in Worker, NEW m \in Record, ListDevice(w, m)
    PROVE  ListIsOfTheScan'
<1>1. UNCHANGED <<held, pc, job, cur, visited>>
    BY DEF ListDevice, Scans!Gather, deviceVars
<1>2. /\ <<m.from, m.ip>> \in held[w] /\ m.from \in Device /\ m.as \in Spelling
      /\ answers' = [answers EXCEPT ![w][<<m.from, m.as>>] = m.ip]
    BY DEF ListDevice, Scans!Gather, Record, Identity
<1>3. \A u \in Worker, k \in Device \X Spelling :
          \/ answers'[u][k] = answers[u][k]
          \/ u = w /\ k = <<m.from, m.as>> /\ answers'[u][k] = m.ip
    BY <1>2 DEF SurveyedBasis, Basis, TypeOK
<1>4. \A u \in Worker : Cur(u)' = Cur(u)
    BY <1>1 DEF Cur
<1> SUFFICES ASSUME NEW u \in Worker, pc[u] = "scan"
             PROVE  /\ \A k \in Device \X Spelling :
                           answers'[u][k] # Nobody => <<k[1], answers'[u][k]>> \in held[u]
                    /\ \A s \in State :
                           <<job[Cur(u)].target, s>> \in held[u] => s \in visited[Cur(u)]
    BY <1>1, <1>4 DEF ListIsOfTheScan
<1>5. ASSUME NEW k \in Device \X Spelling, answers'[u][k] # Nobody
      PROVE  <<k[1], answers'[u][k]>> \in held[u]
    <2>1. CASE answers'[u][k] = answers[u][k]
        BY <1>5, <2>1 DEF SurveyedBasis, ListIsOfTheScan
    <2>2. CASE u = w /\ k = <<m.from, m.as>> /\ answers'[u][k] = m.ip
        BY <1>2, <2>2
    <2> QED
        BY <1>3, <2>1, <2>2
<1>6. \A s \in State : <<job[Cur(u)].target, s>> \in held[u] => s \in visited[Cur(u)]
    BY DEF SurveyedBasis, ListIsOfTheScan
<1> QED
    BY <1>5, <1>6

\* What devices and network do to the states of a watched target.
LEMMA WorldFrame ==
    ASSUME SurveyedBasis, World
    PROVE  /\ UNCHANGED <<job, pc, cur, answers, verdict>>
           /\ \A w \in Worker : pc[w] = "scan" => visited[Cur(w)] \subseteq visited'[Cur(w)]
<1> USE DEF deviceVars, sessionVars, l2Vars, scanVars, resultVars
<1>1. UNCHANGED <<job, pc, cur, answers, verdict>>
    BY DEF World, DeviceEdits, DeviceObeys, LoseRequest, RenewLease
<1>2. UNCHANGED visited \/ \E d \in Device, s \in State : Become(d, s)
    <2>1. \A m \in air : DeviceEdits(m) \/ DeviceObeys(m) =>
              UNCHANGED visited \/ \E s \in Outcomes(m.id) : Become(m.to, s)
        BY DEF DeviceEdits, DeviceObeys
    <2>2. \A m \in air : m.to \in Device /\ \A s \in Outcomes(m.id) : s \in State
        BY RequestTyping DEF SurveyedBasis, Basis
    <2>3. \A m \in air : LoseRequest(m) => UNCHANGED visited
        BY DEF LoseRequest
    <2>4. \A d \in Device : RenewLease(d) => \E s \in State : Become(d, s)
        BY DEF RenewLease, State
    <2> QED
        BY <2>1, <2>2, <2>3, <2>4 DEF World
<1>3. ASSUME NEW w \in Worker, pc[w] = "scan", NEW d \in Device, NEW s \in State, Become(d, s)
      PROVE  visited[Cur(w)] \subseteq visited'[Cur(w)]
    <2>1. Cur(w) \in JobId
        BY <1>3, CurrentJob DEF SurveyedBasis, Basis
    <2> QED
        BY <1>3, <2>1 DEF Become
<1> QED
    BY <1>1, <1>2, <1>3

\* A scan has seen of a target that moves what the job has.
LEMMA WorldKeepsList ==
    ASSUME SurveyedBasis, Watching', World
    PROVE  ListIsOfTheScan'
<1>1. /\ UNCHANGED <<job, pc, cur, answers>>
      /\ \A w \in Worker : pc[w] = "scan" => visited[Cur(w)] \subseteq visited'[Cur(w)]
    BY WorldFrame
<1>2. \A w \in Worker : Cur(w)' = Cur(w)
    BY <1>1 DEF Cur
<1> SUFFICES ASSUME NEW w \in Worker, pc[w] = "scan"
             PROVE  /\ \A k \in Device \X Spelling :
                           answers[w][k] # Nobody => <<k[1], answers[w][k]>> \in held'[w]
                    /\ \A s \in State :
                           <<job[Cur(w)].target, s>> \in held'[w] => s \in visited'[Cur(w)]
    BY <1>1, <1>2 DEF ListIsOfTheScan
<1>3. /\ \A k \in Device \X Spelling :
             answers[w][k] # Nobody => <<k[1], answers[w][k]>> \in held[w]
      /\ \A s \in State : <<job[Cur(w)].target, s>> \in held[w] => s \in visited'[Cur(w)]
    BY <1>1 DEF SurveyedBasis, ListIsOfTheScan
<1>4. device'[job[Cur(w)].target] \in visited'[Cur(w)]
    BY <1>1, <1>2 DEF Watching
<1>5. CASE UNCHANGED held
    BY <1>3, <1>5
<1>6. ASSUME NEW d \in Device, Scans!Move(d, device'[d])
      PROVE  held'[w] = held[w] \cup {<<d, device'[d]>>}
    BY <1>6 DEF Scans!Move
<1> QED
    BY <1>3, <1>4, <1>5, <1>6 DEF World, scan

\* What scans have seen are devices and their states.
LEMMA HeldTyping ==
    ASSUME SurveyedBasis, TypeOK', [SurveyedNext]_all
    PROVE  HeldTypes'
<1>1. ASSUME NEW w \in Worker, BeginRescan(w)
      PROVE  HeldTypes'
    <2>1. held' = [held EXCEPT ![w] = {<<d, device[d]>> : d \in Device}]
        BY <1>1 DEF BeginRescan, Scans!Begin
    <2>2. {<<d, device[d]>> : d \in Device} \in SUBSET (Device \X State)
        BY DEF SurveyedBasis, Basis, TypeOK
    <2> QED
        BY <2>1, <2>2 DEF SurveyedBasis, HeldTypes
<1>2. ASSUME NEW d \in Device, Scans!Move(d, device'[d])
      PROVE  HeldTypes'
    <2>1. <<d, device'[d]>> \in Device \X State
        BY DEF TypeOK
    <2>2. held' = [w \in Worker |-> IF w \in {u \in Worker : pc[u] = "scan"}
                                    THEN held[w] \cup {<<d, device'[d]>>} ELSE held[w]]
        BY <1>2 DEF Scans!Move
    <2>3. \A w \in Worker : held[w] \in SUBSET (Device \X State)
        BY DEF SurveyedBasis, HeldTypes
    <2> QED
        BY <2>1, <2>2, <2>3 DEF HeldTypes
<1>3. CASE UNCHANGED held
    BY <1>3 DEF SurveyedBasis, HeldTypes
<1>4. ASSUME NEW w \in Worker,
             \/ RefuseRescan(w) \/ EndRescan(w) \/ BetweenRescans(w)
             \/ \E m \in Record : ListDevice(w, m)
      PROVE  UNCHANGED held
    BY <1>4 DEF RefuseRescan, EndRescan, BetweenRescans, ListDevice, Scans!Refuse, Scans!End,
                Scans!Gather, scan
<1>5. World => UNCHANGED held \/ \E d \in Device : Scans!Move(d, device'[d])
    BY DEF World, scan
<1> QED
    BY <1>1, <1>2, <1>3, <1>4, <1>5 DEF SurveyedNext, all, scan

\* Every step keeps what the rescans rest on, and is one of the promise.
LEMMA SurveyedStep ==
    SurveyedBasis /\ [SurveyedNext]_all => SurveyedBasis' /\ [Promise!Next]_(Promise!vars)
<1> SUFFICES ASSUME SurveyedBasis, [SurveyedNext]_all
             PROVE  SurveyedBasis' /\ [Promise!Next]_(Promise!vars)
    OBVIOUS
<1>1. (Basis /\ OnlyTheTarget)' /\ [Promise!Next]_(Promise!vars)
    <2>1. CASE [Next]_vars
        <3>1. (Basis /\ OnlyTheTarget)'
            BY <2>1, TypeOKStep, OneAtATimeStep, RoutingStep, WatchingStep DEF SurveyedBasis, Basis
        <3> QED
            BY <2>1, <3>1, PromiseStep DEF SurveyedBasis
    <2>2. CASE \E w \in Worker : RefuseRescan(w)
        BY <2>2, RefusedIsHarmless
    <2>3. CASE \E w \in Worker, m \in Record : ListDevice(w, m)
        BY <2>3, ListedWasVisited
    <2> QED
        BY <2>1, <2>2, <2>3, SurveyedCases DEF all
<1>2. HeldTypes'
    BY <1>1, HeldTyping DEF Basis
<1>3. ListIsOfTheScan'
    <2>1. ASSUME NEW w \in Worker, RefuseRescan(w)
          PROVE  ListIsOfTheScan'
        <3>1. UNCHANGED <<held, pc, job, cur, answers, visited>>
            BY <2>1 DEF RefuseRescan, Scans!Refuse, deviceVars
        <3> QED
            BY <3>1 DEF SurveyedBasis, ListIsOfTheScan, Cur
    <2>2. CASE UNCHANGED vars /\ UNCHANGED scan
        BY <2>2 DEF SurveyedBasis, ListIsOfTheScan, Cur, vars, scan
    <2>3. World => ListIsOfTheScan'
        BY <1>1, WorldKeepsList DEF Basis
    <2> QED
        BY <2>1, <2>2, <2>3, BeginKeepsList, WorkerKeepsList, ListingKeepsList
        DEF SurveyedNext, Finished, all
<1> QED
    BY <1>1, <1>2, <1>3 DEF SurveyedBasis

\* The first state has no rescan under way.
LEMMA SurveyedInitBasis == SurveyedInit => SurveyedBasis /\ Promise!Init
<1> SUFFICES ASSUME SurveyedInit
             PROVE  SurveyedBasis /\ Promise!Init
    OBVIOUS
<1>1. Init /\ held = [w \in Worker |-> {}]
    BY DEF SurveyedInit, Scans!Init
<1>2. Basis /\ OnlyTheTarget
    <2>1. Routing /\ OnlyTheTarget
        BY <1>1 DEF Init, Routing, OnlyTheTarget
    <2> QED
        BY <1>1, <2>1, InitTypeOK, InitBounds, InitOneAtATime, InitWatching DEF Basis
<1>3. HeldTypes /\ ListIsOfTheScan
    BY <1>1 DEF Init, HeldTypes, ListIsOfTheScan
<1>4. Promise!Init
    BY <1>1 DEF Init, Promise!Init, Held, JobId, Promise!JobId
<1> QED
    BY <1>2, <1>3, <1>4 DEF SurveyedBasis

\* The worker's invariants survive rescans that list what their scans have seen
\* at any time, a target that answers and then moves included.
LEMMA SurveyedAlways == SurveyedSpec => []SurveyedBasis
BY SurveyedInitBasis, SurveyedStep, PTL DEF SurveyedSpec

\* What a refused rescan and a device in the list leave alone.
LEMMA RescanFrame ==
    ASSUME NEW w \in Worker, RefuseRescan(w) \/ \E m \in Record : ListDevice(w, m)
    PROVE  UNCHANGED <<device, air, job, pc, cur, session, reply, attempt, sent,
                       secret, webError, usedWeb, verdict, visited, writes>>
BY DEF RefuseRescan, ListDevice, deviceVars, sessionVars, l2Vars, resultVars

\* The whole inductive invariant of ModifyBatch survives: fallback, failures and
\* secrets are as safe with rescans that are scans of Survey.
THEOREM SurveyedBatchIsSafe == SurveyedSpec => []IndInv
<1> DEFINE Rest == Route /\ FailedSentNothing /\ SecretDiscipline
<1>1. SurveyedInit => Rest
    BY RouteInit, SecretInit DEF SurveyedInit
<1>2. SurveyedBasis /\ Rest /\ [SurveyedNext]_all => Rest'
    <2> SUFFICES ASSUME SurveyedBasis, Rest, [SurveyedNext]_all
                 PROVE  Rest'
        OBVIOUS
    <2>1. CASE [Next]_vars
        BY <2>1, RouteStep, SecretStep DEF SurveyedBasis, Basis
    <2>2. ASSUME NEW w \in Worker, RefuseRescan(w) \/ \E m \in Record : ListDevice(w, m)
          PROVE  Rest'
        BY <2>2, RescanFrame DEF Route, FailedSentNothing, NoDatagram, SecretDiscipline, Cur
    <2> HIDE DEF Rest
    <2> QED
        BY <2>1, <2>2, SurveyedCases DEF all
<1>3. SurveyedBasis /\ Rest => IndInv
    BY DEF SurveyedBasis, Basis, IndInv
<1> QED
    BY <1>1, <1>2, <1>3, SurveyedInitBasis, SurveyedAlways, PTL DEF SurveyedSpec

\* One batch from a true inventory never puts two static devices on one address,
\* whatever its rescans list.
THEOREM SurveyedNoClash == OneTrueBatch /\ SurveyedSpec => []NoStaticClash
<1>1. SurveyedBasis /\ NoClashInv /\ [SurveyedNext]_all => NoClashInv'
    <2> SUFFICES ASSUME SurveyedBasis, NoClashInv, [SurveyedNext]_all
                 PROVE  NoClashInv'
        OBVIOUS
    <2>1. CASE [Next]_vars
        BY <2>1, NoClashStep DEF SurveyedBasis, Basis
    <2>2. ASSUME NEW w \in Worker, RefuseRescan(w) \/ \E m \in Record : ListDevice(w, m)
          PROVE  NoClashInv'
        BY <2>2, RescanFrame DEF NoClashInv, NoStaticClash, PlanAvoids, PlanDiffers
    <2> QED
        BY <2>1, <2>2, SurveyedCases DEF all
<1>2. OneTrueBatch /\ SurveyedInit => NoClashInv
    BY NoClashInit DEF SurveyedInit
<1>3. NoClashInv => NoStaticClash
    BY DEF NoClashInv
<1> QED
    BY <1>1, <1>2, <1>3, SurveyedAlways, PTL DEF SurveyedSpec

\* Nothing a batch does beside its rescans disturbs them: seen from the scans, the
\* worker is a caller as Survey has it.
THEOREM RescansAreSurveys == SurveyedSpec => Scans!Init /\ [][Scans!Next]_(Scans!vars)
<1>1. SurveyedBasis /\ SurveyedBasis' /\ [SurveyedNext]_all => [Scans!Next]_(Scans!vars)
    <2> SUFFICES ASSUME SurveyedBasis, SurveyedBasis', [SurveyedNext]_all
                 PROVE  Scans!Next \/ UNCHANGED Scans!vars
        OBVIOUS
    <2>1. ASSUME NEW w \in Worker, BeginRescan(w) \/ RefuseRescan(w) \/ EndRescan(w)
          PROVE  Scans!Next
        BY <2>1 DEF BeginRescan, RefuseRescan, EndRescan, Scans!Next
    <2>2. ASSUME NEW w \in Worker, NEW m \in Record, ListDevice(w, m)
          PROVE  Scans!Next
        BY <2>2 DEF ListDevice, Scans!Next
    <2>3. ASSUME NEW w \in Worker, BetweenRescans(w)
          PROVE  UNCHANGED Scans!vars
        <3>1. UNCHANGED device /\ \A u \in Worker : pc'[u] = "scan" <=> pc[u] = "scan"
            BY <2>3, WorkerFrame DEF BetweenRescans, SurveyedBasis, Basis
        <3> QED
            BY <2>3, <3>1 DEF BetweenRescans, scan, Scans!vars
    <2>4. ASSUME World
          PROVE  Scans!Next \/ UNCHANGED Scans!vars
        <3>1. UNCHANGED pc
            BY <2>4, WorldFrame
        <3>2. \A d \in Device : device'[d] \in State
            BY DEF SurveyedBasis, Basis, TypeOK
        <3> QED
            BY <2>4, <3>1, <3>2 DEF World, scan, Scans!Next, Scans!vars
    <2>5. CASE UNCHANGED all
        BY <2>5 DEF all, vars, scan, Scans!vars
    <2>6. CASE Finished /\ UNCHANGED scan
        BY <2>6 DEF Finished, vars, scan, Scans!vars
    <2> QED
        BY <2>1, <2>2, <2>3, <2>4, <2>5, <2>6 DEF SurveyedNext
<1>2. SurveyedInit => Scans!Init
    BY DEF SurveyedInit
<1> QED
    BY <1>1, <1>2, SurveyedAlways, PTL DEF SurveyedSpec

\* What the worker promises it keeps with rescans that are scans of Survey,
\* although ModifyBatch takes a listed device for one that answers now.
THEOREM SurveyedBatchKeepsPromise == SurveyedSpec => KeepsPromiseSafely
BY SurveyedInitBasis, SurveyedStep, SurveyedAlways, PTL DEF SurveyedSpec, KeepsPromiseSafely

\* A verdict of "verified" comes from a device that was as requested and where the
\* scan that lists it was under way, whatever becomes of the device then.
THEOREM VerdictsAreFresh == SurveyedSpec => VerdictIsFresh
<1> DEFINE Fresh ==
        \A id \in JobId : verdict'[id] = "verified" =>
           \/ verdict[id] = "verified"
           \/ \E s \in State : /\ <<job[id].target, s>> \in held[id[1]]
                               /\ Requested(job[id], s)
<1>1. SurveyedBasis /\ [SurveyedNext]_all => [Fresh]_all
    <2> SUFFICES ASSUME SurveyedBasis, [SurveyedNext]_all
                 PROVE  Fresh \/ UNCHANGED all
        OBVIOUS
    <2>1. CASE UNCHANGED verdict
        BY <2>1
    <2>2. ASSUME NEW w \in Worker, WorkerStep(w)
          PROVE  Fresh
        <3> SUFFICES ASSUME NEW id \in JobId, verdict'[id] = "verified", verdict[id] # "verified"
                     PROVE  \E s \in State : /\ <<job[id].target, s>> \in held[id[1]]
                                             /\ Requested(job[id], s)
            OBVIOUS
        <3>1. id = Cur(w)
            BY <2>2, WorkerFrame DEF SurveyedBasis, Basis
        <3>2. PICK v \in Verdict \ {"pending"} :
                  /\ pc[w] \notin {"done", "freed"} /\ Conclude(w, v)
                  /\ v = "verified" => pc[w] = "scan" /\ Confirmed(w)
            BY <2>2, WatchMoves DEF SurveyedBasis, Basis
        <3>3. verdict' = [verdict EXCEPT ![Cur(w)] = v]
            BY <3>2 DEF Conclude
        <3>4. v = "verified"
            BY <3>1, <3>3 DEF SurveyedBasis, Basis, TypeOK
        <3>5. PICK m \in Spelling :
                  /\ answers[w][<<job[id].target, m>>] # Nobody
                  /\ Requested(job[id], answers[w][<<job[id].target, m>>])
            BY <3>1, <3>2, <3>4 DEF Confirmed, Matches
        <3>6. job[id].target \in Device
            BY DEF SurveyedBasis, Basis, TypeOK, Job
        <3> DEFINE s == answers[w][<<job[id].target, m>>]
        <3>7. s \in State /\ <<job[id].target, s>> \in held[w]
            BY <3>2, <3>4, <3>5, <3>6 DEF SurveyedBasis, Basis, TypeOK, ListIsOfTheScan
        <3>8. id[1] = w
            BY <3>1 DEF Cur
        <3> QED
            BY <3>5, <3>7, <3>8
    <2>3. ASSUME NEW w \in Worker,
                 RefuseRescan(w) \/ \E m \in Record : ListDevice(w, m)
          PROVE  UNCHANGED verdict
        BY <2>3 DEF RefuseRescan, ListDevice, resultVars
    <2>4. World => UNCHANGED verdict
        BY WorldFrame
    <2>5. ASSUME NEW w \in Worker, BeginRescan(w) \/ EndRescan(w) \/ BetweenRescans(w)
          PROVE  WorkerStep(w)
        BY <2>5 DEF BeginRescan, EndRescan, BetweenRescans, WorkerStep
    <2> HIDE DEF Fresh
    <2> QED
        BY <2>1, <2>2, <2>3, <2>4, <2>5 DEF SurveyedNext, Finished, all, vars
<1>2. SurveyedSpec => [][SurveyedNext]_all
    BY DEF SurveyedSpec
<1> QED
    BY <1>1, <1>2, SurveyedAlways, PTL DEF VerdictIsFresh
=============================================================================
