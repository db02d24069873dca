-------------------------- MODULE ModifyBatchProofs --------------------------
(***************************************************************************)
(* Proofs about ModifyBatch, for any number of workers, jobs, devices,     *)
(* addresses, send attempts and rescans.                                   *)
(***************************************************************************)
EXTENDS ModifyBatch, TLAPS

\* The result of Plan is a function from job identifiers to jobs.
LEMMA PlanTyping ==
    ASSUME NEW inventory \in Inventory, NEW row \in [JobId -> Entry],
           NEW mode \in [Worker -> Modes], NEW start \in [Worker -> Ip],
           NEW length \in [Worker -> Lengths], NEW right \in [JobId -> BOOLEAN],
           Selection(inventory, row),
           Admissible(inventory, Plan(inventory, row, mode, start, length, right))
    PROVE  Plan(inventory, row, mode, start, length, right) \in [JobId -> Job]
<1> DEFINE plan == Plan(inventory, row, mode, start, length, right)
<1>1. ASSUME NEW id \in JobId PROVE plan[id] \in Job
  <2>1. id[1] \in Worker /\ row[id] \in Entry /\ row[id][1] \in Device
    BY DEF JobId, Entry
  <2>2. plan[id].newIp \in Ip
    BY DEF Admissible
  <2>3. inventory[row[id]] \in Ip
    BY <2>1 DEF Selection, Inventory
  <2> QED BY <2>1, <2>2, <2>3, ConstantAssumption DEF Plan, Job, Length
<1> QED BY <1>1 DEF Plan

\* Every variable has its type initially.
LEMMA InitTypeOK == Init => TypeOK
<1> SUFFICES ASSUME Init PROVE TypeOK OBVIOUS
<1>1. job \in [JobId -> Job]
  <2>1. UpToDate(device) \in Inventory
    BY DEF Init, UpToDate, Inventory, Entry, State
  <2> QED BY <2>1, PlanTyping DEF Init
<1>2. NumJobs \in Nat /\ 1 \in 1..(NumJobs + 1) /\ 0 \in 0..L2Attempts /\ 0 \in 0..MaxRescans
  BY ConstantAssumption
<1> QED BY <1>1, <1>2 DEF Init, TypeOK, Control, NoAnswers, WebError, Verdict

\* The steps of the specification, one case each.
LEMMA StepCases ==
    ASSUME Next
    PROVE  \/ \E w \in Worker : WorkerStep(w)
           \/ \E m \in air : DeviceEdits(m)
           \/ \E m \in air : DeviceObeys(m)
           \/ \E m \in air : LoseRequest(m)
           \/ \E d \in Device : RenewLease(d)
           \/ \E w \in Worker, d \in Device, m \in Spelling : HearAnswer(w, d, m)
           \/ UNCHANGED vars
BY DEF Next, Environment, Finished

\* A worker that is not done has a current job.
LEMMA CurrentJob ==
    ASSUME TypeOK, Bounds, NEW w \in Worker, pc[w] \notin {"done", "freed"}
    PROVE  /\ cur[w] \in 1..NumJobs /\ cur[w] + 1 \in 1..(NumJobs + 1)
           /\ Cur(w) \in JobId /\ job[Cur(w)] \in Job
BY ConstantAssumption DEF TypeOK, Bounds, JobId, Cur

\* What the shared steps do to the variables they change.
LEMMA WebFailedTypes ==
    ASSUME TypeOK, Bounds, NEW w \in Worker, pc[w] \notin {"done", "freed"},
           NEW e \in WebError, WebFailed(w, e)
    PROVE  /\ webError' \in [JobId -> WebError]
           /\ session' \in [Worker -> Device \cup {Nobody}]
           /\ reply' \in [Worker -> {"none", "success", "refused"}]
           /\ pc' = [pc EXCEPT ![w] = "l2"]
BY CurrentJob DEF WebFailed, Goto, TypeOK

\* The end of a job keeps the types of what it changes.
LEMMA ConcludeTypes ==
    ASSUME TypeOK, Bounds, NEW w \in Worker, pc[w] \notin {"done", "freed"},
           NEW v \in Verdict, Conclude(w, v)
    PROVE  /\ verdict' \in [JobId -> Verdict]
           /\ cur' \in [Worker -> 1..(NumJobs + 1)]
           /\ cur' = [cur EXCEPT ![w] = cur[w] + 1]
           /\ pc' = [pc EXCEPT ![w] = IF cur[w] = NumJobs THEN "done" ELSE "start"]
<1>1. cur[w] \in Nat /\ cur \in [Worker -> 1..(NumJobs + 1)] /\ NumJobs \in Nat
  BY ConstantAssumption DEF TypeOK
<1>2. cur' = [cur EXCEPT ![w] = cur[w] + 1] /\ cur'[w] = cur[w] + 1
  BY <1>1 DEF Conclude
<1>3. cur' \in [Worker -> 1..(NumJobs + 1)]
  BY <1>1, <1>2, CurrentJob
<1>4. verdict' \in [JobId -> Verdict]
  BY CurrentJob DEF Conclude, TypeOK
<1>5. pc' = [pc EXCEPT ![w] = IF cur[w] = NumJobs THEN "done" ELSE "start"]
  BY DEF Conclude, Goto
<1> QED BY <1>2, <1>3, <1>4, <1>5

\* So does the turn from requests to rescans.
LEMMA BeginVerificationTypes ==
    ASSUME TypeOK, Bounds, NEW w \in Worker, pc[w] \notin {"done", "freed"},
           BeginVerification(w)
    PROVE  /\ secret' \subseteq JobId
           /\ rescan' \in [Worker -> 0..MaxRescans]
           /\ visited' \in [JobId -> SUBSET State]
           /\ pc' = [pc EXCEPT ![w] = "rescan"]
<1>1. device[job[Cur(w)].target] \in State
  BY CurrentJob DEF TypeOK, Job
<1>2. 0 \in 0..MaxRescans
  BY ConstantAssumption
<1> QED BY <1>1, <1>2, CurrentJob DEF BeginVerification, Wiped, Goto, TypeOK

\* The bounds survive a step that moves one worker from one job phase to
\* another and leaves the loop index alone.
LEMMA BoundsKept ==
    ASSUME TypeOK, Bounds, NEW w \in Worker, pc[w] \notin {"done", "freed"},
           NEW l \in Control \ {"done", "freed"}, pc' = [pc EXCEPT ![w] = l],
           UNCHANGED cur,
           \A u \in Worker : u # w => rescan'[u] = rescan[u],
           l = "scan" => rescan'[w] < MaxRescans
    PROVE  Bounds' /\ pc' \in [Worker -> Control]
BY DEF TypeOK, Bounds

\* The bounds survive the end of a job.
LEMMA BoundsAfterConclude ==
    ASSUME TypeOK, Bounds, NEW w \in Worker, pc[w] \notin {"done", "freed"},
           NEW v \in Verdict, Conclude(w, v), UNCHANGED rescan
    PROVE  Bounds' /\ pc' \in [Worker -> Control]
<1>1. cur[w] \in Nat /\ NumJobs \in Nat
  BY ConstantAssumption DEF TypeOK
<1>2. /\ cur' = [cur EXCEPT ![w] = cur[w] + 1]
      /\ pc' = [pc EXCEPT ![w] = IF cur[w] = NumJobs THEN "done" ELSE "start"]
  BY ConcludeTypes
<1>3. pc' \in [Worker -> Control]
  BY <1>2 DEF TypeOK, Control
<1>4. ASSUME NEW u \in Worker, u # w
      PROVE  pc'[u] = pc[u] /\ cur'[u] = cur[u] /\ rescan'[u] = rescan[u]
  BY <1>2, <1>4 DEF TypeOK
<1>5. pc'[w] = (IF cur[w] = NumJobs THEN "done" ELSE "start") /\ cur'[w] = cur[w] + 1
  BY <1>2 DEF TypeOK
<1>6. (pc'[w] \in {"done", "freed"} <=> cur'[w] = NumJobs + 1) /\ pc'[w] # "scan"
  BY <1>1, <1>5
<1> QED BY <1>3, <1>4, <1>6 DEF Bounds

\* Every worker step keeps the types and the bounds.
LEMMA WorkerTypeOK ==
    ASSUME TypeOK, Bounds, NEW w \in Worker, WorkerStep(w)
    PROVE  TypeOK' /\ Bounds'
<1> USE DEF deviceVars, sessionVars, l2Vars, scanVars, resultVars
<1>e. {"argument", "connect", "http", "protocol", "auth", "unsupported"} \subseteq WebError
  BY DEF WebError
<1>b. {"verified", "unverified", "failed"} \subseteq Verdict
  BY DEF Verdict
<1>1. CASE StartJob(w)
  <2>1. CASE job[Cur(w)].length = "empty"
    <3>1. WebFailed(w, "argument")
      BY <1>1, <2>1 DEF StartJob
    <3> QED BY <1>1, <3>1, <1>e, WebFailedTypes, BoundsKept DEF StartJob, TypeOK, Control
  <2>2. CASE job[Cur(w)].length # "empty"
    BY <1>1, <2>2, BoundsKept DEF StartJob, TypeOK, Control, Goto
  <2> QED BY <2>1, <2>2
<1>2. CASE ReqLogin(w)
  <2>1. ASSUME NEW d \in Device, session' = [session EXCEPT ![w] = d],
             Goto(w, "doLogin"), UNCHANGED <<reply, webError>>
        PROVE  TypeOK' /\ Bounds'
    BY <1>2, <2>1, BoundsKept DEF ReqLogin, TypeOK, Control, Goto
  <2>2. ASSUME NEW e \in WebError, WebFailed(w, e) PROVE TypeOK' /\ Bounds'
    BY <1>2, <2>2, WebFailedTypes, BoundsKept DEF ReqLogin, TypeOK, Control
  <2> QED BY <1>2, <2>1, <2>2, <1>e DEF ReqLogin, AtOldIp
<1>3. CASE DoLogin(w)
  <2>1. ASSUME Goto(w, "queryNetCfgV2"), UNCHANGED <<sessionVars, webError>>
        PROVE  TypeOK' /\ Bounds'
    BY <1>3, <2>1, BoundsKept DEF DoLogin, TypeOK, Control, Goto
  <2>2. ASSUME NEW e \in WebError, WebFailed(w, e) PROVE TypeOK' /\ Bounds'
    BY <1>3, <2>2, WebFailedTypes, BoundsKept DEF DoLogin, TypeOK, Control
  <2> QED BY <1>3, <2>1, <2>2, <1>e DEF DoLogin
<1>4. CASE QueryNetCfg(w)
  <2>1. ASSUME Goto(w, "editNetCfgV2"), UNCHANGED <<sessionVars, webError>>
        PROVE  TypeOK' /\ Bounds'
    BY <1>4, <2>1, BoundsKept DEF QueryNetCfg, TypeOK, Control, Goto
  <2>2. ASSUME NEW e \in WebError, WebFailed(w, e) PROVE TypeOK' /\ Bounds'
    BY <1>4, <2>2, WebFailedTypes, BoundsKept DEF QueryNetCfg, TypeOK, Control
  <2> QED BY <1>4, <2>1, <2>2, <1>e DEF QueryNetCfg
<1>5. CASE EditNetCfg(w)
  <2>1. CASE SessionUp(w) /\ Goto(w, "editReply") /\ UNCHANGED <<sessionVars, webError>>
    <3>1. session[w] \in Device
      BY <2>1 DEF SessionUp, AtOldIp
    <3>2. Cur(w) \in JobId
      BY <1>5, CurrentJob DEF EditNetCfg
    <3>3. [id |-> Cur(w), via |-> "web", to |-> session[w]] \in Request
      BY <3>1, <3>2 DEF Request
    <3>4. air' \subseteq Request
      BY <1>5, <3>3 DEF EditNetCfg, TypeOK
    <3> QED BY <1>5, <2>1, <3>4, BoundsKept DEF EditNetCfg, TypeOK, Control, Goto
  <2>2. ASSUME NEW e \in WebError, WebFailed(w, e), UNCHANGED air PROVE TypeOK' /\ Bounds'
    BY <1>5, <2>2, WebFailedTypes, BoundsKept DEF EditNetCfg, TypeOK, Control
  <2> QED BY <1>5, <2>1, <2>2, <1>e DEF EditNetCfg
<1>6. CASE EditReply(w)
  <2>1. CASE /\ usedWeb' = usedWeb \cup {Cur(w)}
             /\ session' = [session EXCEPT ![w] = Nobody]
             /\ reply' = [reply EXCEPT ![w] = "none"]
             /\ BeginVerification(w) /\ UNCHANGED webError
    <3>1. usedWeb' \subseteq JobId
      BY <1>6, <2>1, CurrentJob DEF EditReply, TypeOK
    <3>2. /\ session' \in [Worker -> Device \cup {Nobody}]
          /\ reply' \in [Worker -> {"none", "success", "refused"}]
      BY <2>1 DEF TypeOK
    <3> QED BY <1>6, <2>1, <3>1, <3>2, BeginVerificationTypes, BoundsKept
            DEF EditReply, BeginVerification, TypeOK, Control
  <2>2. ASSUME NEW e \in WebError, WebFailed(w, e), UNCHANGED <<secret, usedWeb, rescan, visited>>
        PROVE  TypeOK' /\ Bounds'
    BY <1>6, <2>2, WebFailedTypes, BoundsKept DEF EditReply, TypeOK, Control
  <2> QED BY <1>6, <2>1, <2>2, <1>e DEF EditReply
<1>7. CASE L2Open(w)
  <2>1. CASE /\ attempt' = [attempt EXCEPT ![w] = 0] /\ sent' = [sent EXCEPT ![w] = FALSE]
             /\ Goto(w, "l2send") /\ UNCHANGED <<cur, verdict>>
    <3>1. attempt' \in [Worker -> 0..L2Attempts] /\ sent' \in [Worker -> BOOLEAN]
      BY <2>1, ConstantAssumption DEF TypeOK
    <3> QED BY <1>7, <2>1, <3>1, BoundsKept DEF L2Open, TypeOK, Control, Goto
  <2>2. CASE Conclude(w, "failed") /\ UNCHANGED l2Vars
    BY <1>7, <2>2, <1>b, ConcludeTypes, BoundsAfterConclude DEF L2Open, TypeOK
  <2> QED BY <1>7, <2>1, <2>2 DEF L2Open
<1>8. CASE L2Send(w)
  <2>1. attempt' \in [Worker -> 0..L2Attempts]
    BY <1>8, ConstantAssumption DEF L2Send, TypeOK
  <2>2. [id |-> Cur(w), via |-> "l2", to |-> job[Cur(w)].target] \in Request
    BY <1>8, CurrentJob DEF L2Send, Request, Job
  <2>3. air' \subseteq Request /\ sent' \in [Worker -> BOOLEAN]
    BY <1>8, <2>2 DEF L2Send, AfterSendError, TypeOK
  <2> QED BY <1>8, <2>1, <2>3 DEF L2Send, TypeOK, Bounds
<1>9. CASE L2Close(w)
  <2>1. CASE BeginVerification(w) /\ UNCHANGED <<cur, verdict>>
    BY <1>9, <2>1, BeginVerificationTypes, BoundsKept
       DEF L2Close, BeginVerification, TypeOK, Control
  <2>2. CASE Conclude(w, "failed") /\ UNCHANGED <<secret, rescan, visited>>
    BY <1>9, <2>2, <1>b, ConcludeTypes, BoundsAfterConclude DEF L2Close, TypeOK
  <2> QED BY <1>9, <2>1, <2>2 DEF L2Close
<1>10. CASE StartRescan(w)
  BY <1>10, BoundsKept DEF StartRescan, MoreRescans, TypeOK, Control, Goto
<1>11. CASE FinishRescan(w)
  <2>1. answers' \in [Worker -> [Device \X Spelling -> State \cup {Nobody}]]
    BY <1>11 DEF FinishRescan, NoAnswers, TypeOK
  <2>2. CASE Conclude(w, "verified") /\ UNCHANGED rescan
    BY <1>11, <2>1, <2>2, <1>b, ConcludeTypes, BoundsAfterConclude DEF FinishRescan, TypeOK
  <2>3. CASE /\ rescan' = [rescan EXCEPT ![w] = @ + 1]
             /\ Goto(w, "rescan") /\ UNCHANGED <<cur, verdict>>
    <3>1. rescan' \in [Worker -> 0..MaxRescans]
      BY <1>11, <2>3, ConstantAssumption DEF FinishRescan, TypeOK, Bounds
    <3> QED BY <1>11, <2>1, <2>3, <3>1, BoundsKept DEF FinishRescan, TypeOK, Control, Goto
  <2> QED BY <1>11, <2>2, <2>3 DEF FinishRescan
<1>12. CASE FailRescan(w)
  <2>1. answers' \in [Worker -> [Device \X Spelling -> State \cup {Nobody}]]
    BY <1>12 DEF FailRescan, NoAnswers, TypeOK
  <2>2. rescan' \in [Worker -> 0..MaxRescans]
    BY <1>12, ConstantAssumption DEF FailRescan, TypeOK, Bounds
  <2> QED BY <1>12, <2>1, <2>2, BoundsKept DEF FailRescan, TypeOK, Control, Goto
<1>13. CASE GiveUp(w)
  BY <1>13, <1>b, ConcludeTypes, BoundsAfterConclude DEF GiveUp, TypeOK
<1>14. CASE FreeBatch(w)
  BY <1>14 DEF FreeBatch, Freed, Goto, TypeOK, Bounds, Control
<1> QED BY <1>1, <1>2, <1>3, <1>4, <1>5, <1>6, <1>7, <1>8, <1>9, <1>10, <1>11, <1>12, <1>13, <1>14 DEF WorkerStep

\* A request under way names a job and a device.
LEMMA RequestTyping ==
    ASSUME TypeOK, NEW m \in air
    PROVE  m.id \in JobId /\ m.to \in Device /\ Outcomes(m.id) \subseteq State
<1>1. m.id \in JobId /\ m.to \in Device
  BY DEF TypeOK, Request
<1>2. job[m.id].newIp \in Ip
  BY <1>1 DEF TypeOK, Job
<1>3. ASSUME NEW s \in Outcomes(m.id) PROVE s \in State
  <2>1. CASE job[m.id].dhcp
    BY <1>3, <2>1 DEF Outcomes, State
  <2>2. CASE ~job[m.id].dhcp
    <3>1. s = [ip |-> job[m.id].newIp, dhcp |-> FALSE]
      BY <1>3, <2>2 DEF Outcomes
    <3> QED BY <3>1, <1>2 DEF State
  <2> QED BY <2>1, <2>2
<1> QED BY <1>1, <1>3

\* So do the steps of devices and network.
LEMMA TypeOKStep == TypeOK /\ Bounds /\ [Next]_vars => TypeOK' /\ Bounds'
<1> SUFFICES ASSUME TypeOK, Bounds, [Next]_vars PROVE TypeOK' /\ Bounds'
  OBVIOUS
<1> USE DEF deviceVars, sessionVars, l2Vars, scanVars, resultVars
<1>0. ASSUME NEW d \in Device, NEW s \in State, Become(d, s)
      PROVE  device' \in [Device -> State] /\ visited' \in [JobId -> SUBSET State]
  BY <1>0 DEF Become, TypeOK
<1>1. ASSUME NEW m \in air, DeviceEdits(m) PROVE TypeOK' /\ Bounds'
  <2>1. m.id \in JobId /\ m.to \in Device /\ Outcomes(m.id) \subseteq State
    BY RequestTyping
  <2>2. reply' \in [Worker -> {"none", "success", "refused"}]
    BY <1>1 DEF DeviceEdits, TypeOK
  <2>3. device' \in [Device -> State] /\ visited' \in [JobId -> SUBSET State]
    BY <1>0, <1>1, <2>1 DEF DeviceEdits, TypeOK
  <2>4. writes' \subseteq JobId \X Device \X {"web", "l2"}
    BY <1>1, <2>1 DEF DeviceEdits, TypeOK
  <2> QED BY <1>1, <2>2, <2>3, <2>4 DEF DeviceEdits, TypeOK, Bounds
<1>2. ASSUME NEW m \in air, DeviceObeys(m) PROVE TypeOK' /\ Bounds'
  <2>1. m.id \in JobId /\ m.to \in Device /\ Outcomes(m.id) \subseteq State
    BY RequestTyping
  <2>2. device' \in [Device -> State] /\ visited' \in [JobId -> SUBSET State]
    BY <1>0, <1>2, <2>1 DEF DeviceObeys
  <2>3. writes' \subseteq JobId \X Device \X {"web", "l2"} /\ air' \subseteq Request
    BY <1>2, <2>1 DEF DeviceObeys, TypeOK
  <2> QED BY <1>2, <2>2, <2>3 DEF DeviceObeys, TypeOK, Bounds
<1>3. ASSUME NEW m \in air, LoseRequest(m) PROVE TypeOK' /\ Bounds'
  BY <1>3 DEF LoseRequest, TypeOK, Bounds
<1>4. ASSUME NEW d \in Device, RenewLease(d) PROVE TypeOK' /\ Bounds'
  <2>1. device' \in [Device -> State] /\ visited' \in [JobId -> SUBSET State]
    BY <1>0, <1>4 DEF RenewLease, State
  <2> QED BY <1>4, <2>1 DEF RenewLease, TypeOK, Bounds
<1>5. ASSUME NEW w \in Worker, NEW d \in Device, NEW m \in Spelling, HearAnswer(w, d, m)
      PROVE  TypeOK' /\ Bounds'
  <2>1. answers' \in [Worker -> [Device \X Spelling -> State \cup {Nobody}]]
    <3>1. <<d, m>> \in Device \X Spelling /\ device[d] \in State
      BY DEF TypeOK
    <3>2. /\ answers[w] \in [Device \X Spelling -> State \cup {Nobody}]
          /\ FirstAnswer(answers[w][<<d, m>>], device[d]) \in State \cup {Nobody}
      BY <3>1 DEF FirstAnswer, TypeOK
    <3>3. answers' = [answers EXCEPT ![w] =
              [answers[w] EXCEPT ![<<d, m>>] = FirstAnswer(answers[w][<<d, m>>], device[d])]]
      BY <1>5 DEF HearAnswer
    <3> QED BY <3>1, <3>2, <3>3 DEF TypeOK
  <2> QED BY <1>5, <2>1 DEF HearAnswer, TypeOK, Bounds
<1>6. CASE UNCHANGED vars
  BY <1>6 DEF vars, TypeOK, Bounds
<1> QED BY <1>1, <1>2, <1>3, <1>4, <1>5, <1>6, StepCases, WorkerTypeOK

\* Every batch has a current job at first.
LEMMA InitBounds == Init => Bounds
<1> SUFFICES ASSUME Init PROVE Bounds
  OBVIOUS
<1>1. \A w \in Worker : pc[w] = "start" /\ cur[w] = 1
  BY DEF Init
<1>2. 1 # NumJobs + 1
  BY ConstantAssumption
<1> QED BY <1>1, <1>2 DEF Bounds

\* Type correctness: every variable keeps its type in every behaviour.
THEOREM TypeCorrect == Spec => [](TypeOK /\ Bounds)
BY InitBounds, InitTypeOK, TypeOKStep, PTL DEF Spec
-----------------------------------------------------------------------------
\* What a worker step leaves alone: devices, jobs and the log of changes,
\* the other workers, and the results of all jobs but its current one; the
\* requests it sends are for that job.
LEMMA WorkerFrame ==
    ASSUME TypeOK, NEW w \in Worker, WorkerStep(w)
    PROVE  /\ UNCHANGED <<device, job, writes>>
           /\ \A u \in Worker : u # w =>
                 /\ pc'[u] = pc[u] /\ cur'[u] = cur[u] /\ session'[u] = session[u]
                 /\ sent'[u] = sent[u] /\ answers'[u] = answers[u]
           /\ \A id \in JobId : id # Cur(w) =>
                 /\ verdict'[id] = verdict[id] /\ webError'[id] = webError[id]
                 /\ visited'[id] = visited[id] /\ (id \in usedWeb' <=> id \in usedWeb)
           /\ \A m \in air' : m \notin air => m.id = Cur(w)
<1> USE DEF deviceVars, sessionVars, l2Vars, scanVars, resultVars, Goto
<1>1. CASE StartJob(w)
  BY <1>1 DEF StartJob, TypeOK, WebFailed
<1>2. CASE ReqLogin(w)
  BY <1>2 DEF ReqLogin, TypeOK, WebFailed
<1>3. CASE DoLogin(w)
  BY <1>3 DEF DoLogin, TypeOK, WebFailed
<1>4. CASE QueryNetCfg(w)
  BY <1>4 DEF QueryNetCfg, TypeOK, WebFailed
<1>5. CASE EditNetCfg(w)
  BY <1>5 DEF EditNetCfg, TypeOK, WebFailed
<1>6. CASE EditReply(w)
  BY <1>6 DEF EditReply, TypeOK, WebFailed, BeginVerification
<1>7. CASE L2Open(w)
  BY <1>7 DEF L2Open, TypeOK, Conclude
<1>8. CASE L2Send(w)
  BY <1>8 DEF L2Send, TypeOK, AfterSendError
<1>9. CASE L2Close(w)
  BY <1>9 DEF L2Close, TypeOK, Conclude, BeginVerification
<1>10. CASE StartRescan(w)
  BY <1>10 DEF StartRescan, TypeOK
<1>11. CASE FinishRescan(w)
  BY <1>11 DEF FinishRescan, TypeOK, Conclude
<1>12. CASE FailRescan(w)
  BY <1>12 DEF FailRescan, TypeOK
<1>13. CASE GiveUp(w)
  BY <1>13 DEF GiveUp, TypeOK, Conclude
<1>14. CASE FreeBatch(w)
  BY <1>14 DEF FreeBatch, TypeOK
<1> QED BY <1>1, <1>2, <1>3, <1>4, <1>5, <1>6, <1>7, <1>8, <1>9, <1>10, <1>11, <1>12, <1>13, <1>14 DEF WorkerStep

\* Every request goes to the target of its job, whoever opened the session.
LEMMA RoutingStep ==
    TypeOK /\ Bounds /\ Routing /\ OnlyTheTarget /\ [Next]_vars => Routing' /\ OnlyTheTarget'
<1> SUFFICES ASSUME TypeOK, Bounds, Routing, OnlyTheTarget, [Next]_vars
             PROVE  Routing' /\ OnlyTheTarget'
  OBVIOUS
<1> USE DEF deviceVars, sessionVars, l2Vars, scanVars, resultVars
<1>1. ASSUME NEW w \in Worker, WorkerStep(w) PROVE Routing' /\ OnlyTheTarget'
  <2>1. ASSUME NEW m \in air', m \notin air PROVE m.to = job[m.id].target
    <3>1. EditNetCfg(w) \/ L2Send(w)
      BY <1>1, <2>1 DEF WorkerStep, StartJob, ReqLogin, DoLogin, QueryNetCfg, EditReply, L2Open,
         L2Close, StartRescan, FinishRescan, FailRescan, GiveUp, FreeBatch
    <3>2. CASE EditNetCfg(w)
      <4>1. m = [id |-> Cur(w), via |-> "web", to |-> session[w]]
        BY <2>1, <3>2 DEF EditNetCfg
      <4>2. session[w] = job[Cur(w)].target
        BY <3>2 DEF EditNetCfg, Routing
      <4> QED BY <4>1, <4>2
    <3>3. CASE L2Send(w)
      BY <2>1, <3>3 DEF L2Send
    <3> QED BY <3>1, <3>2, <3>3
  <2>2. ASSUME pc'[w] = "editNetCfgV2"
        PROVE  session'[w] = job[Cur(w)].target /\ cur'[w] = cur[w]
    <3>1. CASE QueryNetCfg(w)
      BY <2>2, <3>1 DEF QueryNetCfg, HasNic, WebFailed, Goto, TypeOK
    <3>2. CASE ~QueryNetCfg(w)
      BY <1>1, <2>2, <3>2 DEF WorkerStep, StartJob, ReqLogin, DoLogin, EditNetCfg, EditReply, L2Open,
         L2Send, L2Close, StartRescan, FinishRescan, FailRescan, GiveUp, FreeBatch,
         WebFailed, BeginVerification, Conclude, Goto, TypeOK, Routing
    <3> QED BY <3>1, <3>2
  <2>3. \A u \in Worker : pc'[u] = "editNetCfgV2" => session'[u] = job'[Cur(u)'].target
    BY <1>1, <2>2, WorkerFrame DEF Routing, Cur
  <2> QED BY <1>1, <2>1, <2>3, WorkerFrame DEF Routing, OnlyTheTarget
<1>2. ASSUME NEW m \in air, DeviceEdits(m) PROVE Routing' /\ OnlyTheTarget'
  BY <1>2 DEF DeviceEdits, Routing, OnlyTheTarget, Cur
<1>3. ASSUME NEW m \in air, DeviceObeys(m) PROVE Routing' /\ OnlyTheTarget'
  BY <1>3 DEF DeviceObeys, Routing, OnlyTheTarget, Cur
<1>4. ASSUME NEW m \in air, LoseRequest(m) PROVE Routing' /\ OnlyTheTarget'
  BY <1>4 DEF LoseRequest, Routing, OnlyTheTarget, Cur
<1>5. ASSUME NEW d \in Device, RenewLease(d) PROVE Routing' /\ OnlyTheTarget'
  BY <1>5 DEF RenewLease, Routing, OnlyTheTarget, Cur
<1>6. ASSUME NEW w \in Worker, NEW d \in Device, NEW m \in Spelling, HearAnswer(w, d, m)
      PROVE  Routing' /\ OnlyTheTarget'
  BY <1>6 DEF HearAnswer, Routing, OnlyTheTarget, Cur
<1>7. CASE UNCHANGED vars
  BY <1>7 DEF vars, Routing, OnlyTheTarget, Cur
<1> QED BY <1>1, <1>2, <1>3, <1>4, <1>5, <1>6, <1>7, StepCases

\* Requests go to targets, and so do the changes they make.
LEMMA RoutingAlways == Spec => [](Routing /\ OnlyTheTarget)
<1>1. Init => Routing /\ OnlyTheTarget
  BY DEF Init, Routing, OnlyTheTarget
<1> QED BY <1>1, TypeCorrect, RoutingStep, PTL DEF Spec

\* Only the device a job names is changed for it, whatever answers at the
\* address the inventory had and however requests are delayed or repeated.
THEOREM TargetOnly == Spec => []OnlyTheTarget
BY RoutingAlways, PTL

\* A worker step either stays with its job or gives it a verdict and moves
\* on.
LEMMA StayOrConclude ==
    ASSUME TypeOK, NEW w \in Worker, WorkerStep(w)
    PROVE  \/ UNCHANGED <<cur, verdict>>
           \/ /\ pc[w] \notin {"done", "freed"}
              /\ \E v \in Verdict \ {"pending"} : Conclude(w, v)
<1> USE DEF deviceVars, sessionVars, l2Vars, scanVars, resultVars
<1>1. CASE L2Open(w) \/ L2Close(w) \/ FinishRescan(w) \/ GiveUp(w)
  BY <1>1 DEF L2Open, L2Close, FinishRescan, GiveUp, Verdict
<1>2. CASE ~(L2Open(w) \/ L2Close(w) \/ FinishRescan(w) \/ GiveUp(w))
  BY <1>2 DEF WorkerStep, StartJob, ReqLogin, DoLogin, QueryNetCfg, EditNetCfg, EditReply, L2Send,
     StartRescan, FailRescan, FreeBatch
<1> QED BY <1>1, <1>2

\* Jobs are judged in order, one at a time.
LEMMA OneAtATimeStep ==
    TypeOK /\ Bounds /\ OneAtATime /\ [Next]_vars => OneAtATime'
<1> SUFFICES ASSUME TypeOK, Bounds, OneAtATime, [Next]_vars PROVE OneAtATime'
  OBVIOUS
<1> USE DEF deviceVars, sessionVars, l2Vars, scanVars, resultVars
<1>1. ASSUME NEW w \in Worker, WorkerStep(w) PROVE OneAtATime'
  <2> SUFFICES ASSUME NEW u \in Worker, NEW i \in 1..NumJobs
               PROVE  /\ (verdict'[<<u, i>>] # "pending") <=> (i < cur'[u])
                      /\ i > cur'[u] => /\ \A m \in air' : m.id # <<u, i>>
                                        /\ \A x \in writes' : x[1] # <<u, i>>
                                        /\ webError'[<<u, i>>] = "none"
    BY DEF OneAtATime
  <2>1. <<u, i>> \in JobId /\ cur[u] \in Nat /\ i \in Nat
    BY ConstantAssumption DEF JobId, TypeOK
  <2>2. CASE UNCHANGED <<cur, verdict>>
    <3>1. i > cur[u] => <<u, i>> # Cur(w)
      BY <2>1 DEF Cur
    <3> QED BY <1>1, <2>1, <2>2, <3>1, WorkerFrame DEF OneAtATime
  <2>3. ASSUME pc[w] \notin {"done", "freed"}, NEW v \in Verdict \ {"pending"}, Conclude(w, v)
        PROVE  /\ (verdict'[<<u, i>>] # "pending") <=> (i < cur'[u])
               /\ i > cur'[u] => /\ \A m \in air' : m.id # <<u, i>>
                                 /\ \A x \in writes' : x[1] # <<u, i>>
                                 /\ webError'[<<u, i>>] = "none"
    <3>1. /\ cur' = [cur EXCEPT ![w] = cur[w] + 1] /\ cur[w] \in Nat
          /\ verdict' = [verdict EXCEPT ![Cur(w)] = v] /\ Cur(w) \in JobId
      <4>1. cur[w] \in Nat
        BY ConstantAssumption DEF TypeOK
      <4>2. cur' = [cur EXCEPT ![w] = cur[w] + 1]
        BY <2>3, ConcludeTypes
      <4>3. verdict' = [verdict EXCEPT ![Cur(w)] = v]
        BY <2>3 DEF Conclude
      <4>4. Cur(w) \in JobId
        BY <2>3, CurrentJob
      <4> QED BY <4>1, <4>2, <4>3, <4>4
    <3>2. CASE u # w
      <4>1. cur'[u] = cur[u] /\ <<u, i>> # Cur(w)
        BY <3>1, <3>2 DEF TypeOK, Cur
      <4> QED BY <1>1, <2>1, <4>1, WorkerFrame DEF OneAtATime
    <3>3. CASE u = w /\ i = cur[w]
      <4>1. verdict'[<<u, i>>] = v /\ cur'[u] = cur[u] + 1
        BY <3>1, <3>3 DEF TypeOK, Cur
      <4> QED BY <2>1, <3>3, <4>1
    <3>4. CASE u = w /\ i # cur[w]
      <4>1. <<u, i>> # Cur(w) /\ cur'[u] = cur[u] + 1
        BY <3>1, <3>4 DEF TypeOK, Cur
      <4>2. /\ verdict'[<<u, i>>] = verdict[<<u, i>>]
            /\ webError'[<<u, i>>] = webError[<<u, i>>]
            /\ writes' = writes
            /\ \A m \in air' : m.id = <<u, i>> => m \in air
        BY <1>1, <2>1, <4>1, WorkerFrame
      <4>3. /\ (verdict[<<u, i>>] # "pending") <=> (i < cur[u])
            /\ i > cur[u] => /\ \A m \in air : m.id # <<u, i>>
                             /\ \A x \in writes : x[1] # <<u, i>>
                             /\ webError[<<u, i>>] = "none"
        BY DEF OneAtATime
      <4> QED BY <2>1, <3>4, <4>1, <4>2, <4>3
    <3> QED BY <3>2, <3>3, <3>4
  <2> QED BY <1>1, <2>2, <2>3, StayOrConclude
<1>2. ASSUME NEW m \in air, DeviceEdits(m) PROVE OneAtATime'
  <2>1. \A x \in writes' : x \in writes \/ x[1] = m.id
    BY <1>2 DEF DeviceEdits
  <2>2. air' \subseteq air /\ UNCHANGED <<cur, verdict, webError>>
    BY <1>2 DEF DeviceEdits
  <2> QED BY <2>1, <2>2 DEF OneAtATime
<1>3. ASSUME NEW m \in air, DeviceObeys(m) PROVE OneAtATime'
  <2>1. \A x \in writes' : x \in writes \/ x[1] = m.id
    BY <1>3 DEF DeviceObeys
  <2>2. air' \subseteq air /\ UNCHANGED <<cur, verdict, webError>>
    BY <1>3 DEF DeviceObeys
  <2> QED BY <2>1, <2>2 DEF OneAtATime
<1>4. ASSUME NEW m \in air, LoseRequest(m) PROVE OneAtATime'
  BY <1>4 DEF LoseRequest, OneAtATime
<1>5. ASSUME NEW d \in Device, RenewLease(d) PROVE OneAtATime'
  BY <1>5 DEF RenewLease, OneAtATime
<1>6. ASSUME NEW w \in Worker, NEW d \in Device, NEW m \in Spelling, HearAnswer(w, d, m)
      PROVE  OneAtATime'
  BY <1>6 DEF HearAnswer, OneAtATime
<1>7. CASE UNCHANGED vars
  BY <1>7 DEF vars, OneAtATime
<1> QED BY <1>1, <1>2, <1>3, <1>4, <1>5, <1>6, <1>7, StepCases

\* No job is judged at first.
LEMMA InitOneAtATime == Init => OneAtATime
<1> SUFFICES ASSUME Init, NEW w \in Worker, NEW i \in 1..NumJobs
             PROVE  /\ verdict[<<w, i>>] = "pending" /\ webError[<<w, i>>] = "none"
                    /\ cur[w] = 1 /\ ~(i < 1) /\ air = {} /\ writes = {}
  BY DEF OneAtATime
<1> QED BY ConstantAssumption DEF Init, JobId

\* The jobs of a batch run strictly one after the other: a batch cut short
\* has sent nothing for the jobs it did not reach.
THEOREM Sequential == Spec => []OneAtATime
BY InitOneAtATime, TypeCorrect, OneAtATimeStep, PTL DEF Spec

\* Devices and network send nothing: a job without layer-2 requests stays
\* without, and the workers see only their answers.
LEMMA EnvironmentFrame ==
    ASSUME TypeOK, NEW id \in JobId, NoDatagram(id),
           \/ \E m \in air : DeviceEdits(m) \/ DeviceObeys(m) \/ LoseRequest(m)
           \/ \E d \in Device : RenewLease(d)
           \/ \E w \in Worker, d \in Device, m \in Spelling : HearAnswer(w, d, m)
           \/ UNCHANGED vars
    PROVE  NoDatagram(id)'
<1> USE DEF deviceVars
<1>1. ASSUME NEW m \in air, DeviceEdits(m) PROVE NoDatagram(id)'
  <2>1. air' \subseteq air /\ (\A x \in writes' : x \in writes \/ x[3] = "web")
    BY <1>1 DEF DeviceEdits
  <2> QED BY <2>1 DEF NoDatagram
<1>2. ASSUME NEW m \in air, DeviceObeys(m) PROVE NoDatagram(id)'
  <2>1. air' \subseteq air /\ (\A x \in writes' : x \in writes \/ x[1] = m.id)
    BY <1>2 DEF DeviceObeys
  <2>2. m.id # id
    BY <1>2 DEF DeviceObeys, NoDatagram
  <2> QED BY <2>1, <2>2 DEF NoDatagram
<1>3. ASSUME NEW m \in air, LoseRequest(m) PROVE NoDatagram(id)'
  BY <1>3 DEF LoseRequest, NoDatagram
<1>4. ASSUME NEW d \in Device, RenewLease(d) PROVE NoDatagram(id)'
  BY <1>4 DEF RenewLease, NoDatagram
<1>5. ASSUME NEW w \in Worker, NEW d \in Device, NEW m \in Spelling, HearAnswer(w, d, m)
      PROVE  NoDatagram(id)'
  BY <1>5 DEF HearAnswer, NoDatagram
<1>6. CASE UNCHANGED vars
  BY <1>6 DEF vars, NoDatagram
<1> QED BY <1>1, <1>2, <1>3, <1>4, <1>5, <1>6

\* Only L2Send puts a layer-2 request on the network, for the current job.
LEMMA DatagramFrame ==
    ASSUME TypeOK, NEW w \in Worker, WorkerStep(w), NEW id \in JobId, NoDatagram(id),
           \/ id # Cur(w)
           \/ ~L2Send(w)
    PROVE  NoDatagram(id)'
<1> USE DEF deviceVars, sessionVars, l2Vars, scanVars, resultVars
<1>1. writes' = writes /\ \A m \in air' : m \notin air => m.id = Cur(w)
  BY WorkerFrame
<1>2. CASE id # Cur(w)
  BY <1>1, <1>2 DEF NoDatagram
<1>3. CASE ~L2Send(w)
  <2>1. CASE EditNetCfg(w)
    BY <1>1, <2>1 DEF EditNetCfg, NoDatagram
  <2>2. CASE ~EditNetCfg(w)
    BY <1>1, <1>3, <2>2 DEF WorkerStep, StartJob, ReqLogin, DoLogin, QueryNetCfg, EditReply, L2Open,
       L2Close, StartRescan, FinishRescan, FailRescan, GiveUp, FreeBatch, NoDatagram
  <2> QED BY <2>1, <2>2
<1> QED BY <1>2, <1>3

\* How a worker that stays with its job moves between web and layer 2.
LEMMA RouteMoves ==
    ASSUME TypeOK, Bounds, NEW w \in Worker, WorkerStep(w), UNCHANGED cur,
           pc[w] \notin {"done", "freed"}
    PROVE  /\ pc'[w] \in WebPhase =>
                 /\ pc[w] \in WebPhase /\ ~L2Send(w)
                 /\ UNCHANGED <<webError, usedWeb>>
           /\ pc'[w] = "l2" =>
                 /\ pc[w] \in WebPhase /\ ~L2Send(w)
                 /\ webError'[Cur(w)] # "none" /\ UNCHANGED usedWeb
           /\ pc'[w] = "l2send" =>
                 /\ pc[w] \in {"l2", "l2send"} /\ UNCHANGED <<webError, usedWeb>>
                 /\ \/ pc[w] = "l2" /\ ~L2Send(w)
                    \/ pc[w] = "l2send" /\ sent'[w]
                    \/ pc[w] = "l2send" /\ ~sent[w] /\ UNCHANGED <<air, writes>>
                    \/ pc[w] = "l2send" /\ sent'[w] = sent[w]
           /\ pc'[w] \notin WebPhase \cup {"l2", "l2send"} =>
                 /\ ~L2Send(w) /\ UNCHANGED webError
                 /\ \/ UNCHANGED usedWeb
                    \/ usedWeb' = usedWeb \cup {Cur(w)} /\ pc[w] \in WebPhase
<1> USE DEF deviceVars, sessionVars, l2Vars, scanVars, resultVars, Goto, WebPhase
<1>0. Cur(w) \in JobId /\ cur[w] # cur[w] + 1
  <2>1. cur[w] \in Nat
    BY ConstantAssumption DEF TypeOK
  <2>2. Cur(w) \in JobId
    BY CurrentJob
  <2> QED BY <2>1, <2>2
<1>c. ASSUME NEW v, Conclude(w, v) PROVE FALSE
  <2>1. cur'[w] = cur[w] + 1
    BY <1>c DEF Conclude, TypeOK
  <2> QED BY <2>1, <1>0
<1>1. CASE StartJob(w) \/ ReqLogin(w) \/ DoLogin(w) \/ QueryNetCfg(w) \/ EditNetCfg(w)
  BY <1>0, <1>1 DEF StartJob, ReqLogin, DoLogin, QueryNetCfg, EditNetCfg, WebFailed, L2Send, TypeOK
<1>2. CASE EditReply(w)
  <2>1. ~L2Send(w) /\ pc[w] \in WebPhase
    BY <1>2 DEF EditReply, L2Send
  <2>2. CASE reply[w] = "success" /\ usedWeb' = usedWeb \cup {Cur(w)}
             /\ BeginVerification(w) /\ UNCHANGED webError
    BY <1>0, <2>1, <2>2 DEF BeginVerification, TypeOK
  <2>3. CASE UNCHANGED usedWeb /\ \E e \in {"protocol", "http"} : WebFailed(w, e)
    BY <1>0, <2>1, <2>3 DEF WebFailed, TypeOK
  <2> QED BY <1>2, <2>2, <2>3 DEF EditReply
<1>3. CASE L2Open(w)
  BY <1>0, <1>3, <1>c DEF L2Open, L2Send, TypeOK
<1>4. CASE L2Send(w)
  BY <1>4 DEF L2Send, AfterSendError, TypeOK
<1>5. CASE L2Close(w)
  BY <1>5, <1>c DEF L2Close, BeginVerification, L2Send, TypeOK
<1>6. CASE StartRescan(w) \/ FinishRescan(w) \/ FailRescan(w) \/ GiveUp(w)
  BY <1>6, <1>c DEF StartRescan, FinishRescan, FailRescan, GiveUp, L2Send, TypeOK
<1>7. CASE FreeBatch(w)
  BY <1>7 DEF FreeBatch
<1> QED BY <1>1, <1>2, <1>3, <1>4, <1>5, <1>6, <1>7 DEF WorkerStep

\* What a verdict tells about the route its job took.
LEMMA ConcludeRoute ==
    ASSUME TypeOK, Bounds, Route, NEW w \in Worker, WorkerStep(w), ~UNCHANGED <<cur, verdict>>
    PROVE  /\ pc[w] \notin {"done", "freed"} /\ pc'[w] \in {"start", "done"}
           /\ cur' = [cur EXCEPT ![w] = cur[w] + 1]
           /\ ~L2Send(w) /\ UNCHANGED <<webError, usedWeb>>
           /\ \E v \in Verdict \ {"pending"} :
                 /\ verdict' = [verdict EXCEPT ![Cur(w)] = v]
                 /\ v = "failed" => NoDatagram(Cur(w))
<1> USE DEF deviceVars, sessionVars, l2Vars, scanVars, resultVars
<1>1. pc[w] \notin {"done", "freed"} /\ \E v \in Verdict \ {"pending"} : Conclude(w, v)
  BY StayOrConclude
<1>2. pc'[w] \in {"start", "done"} /\ cur' = [cur EXCEPT ![w] = cur[w] + 1]
  BY <1>1 DEF Conclude, Goto, TypeOK
<1>3. L2Open(w) \/ L2Close(w) \/ FinishRescan(w) \/ GiveUp(w)
  BY DEF WorkerStep, StartJob, ReqLogin, DoLogin, QueryNetCfg, EditNetCfg, EditReply, L2Send,
     StartRescan, FailRescan, FreeBatch
<1>4. ~L2Send(w) /\ UNCHANGED <<webError, usedWeb>>
  BY <1>3 DEF L2Open, L2Close, FinishRescan, GiveUp, L2Send
<1>5. \E v \in Verdict \ {"pending"} :
          verdict' = [verdict EXCEPT ![Cur(w)] = v] /\ (v = "failed" => NoDatagram(Cur(w)))
  <2>1. CASE L2Open(w)
    BY <2>1 DEF L2Open, Conclude, Route, WebPhase, Verdict
  <2>2. CASE L2Close(w)
    BY <2>2 DEF L2Close, BeginVerification, Conclude, Route, Verdict
  <2>3. CASE FinishRescan(w)
    BY <2>3 DEF FinishRescan, Conclude, Verdict
  <2>4. CASE GiveUp(w)
    <3>1. Conclude(w, "unverified")
      BY <2>4 DEF GiveUp
    <3>2. verdict' = [verdict EXCEPT ![Cur(w)] = "unverified"]
      BY <3>1 DEF Conclude
    <3>3. "unverified" \in Verdict \ {"pending"} /\ "unverified" # "failed"
      BY DEF Verdict
    <3> QED BY <3>2, <3>3
  <2> QED BY <1>3, <2>1, <2>2, <2>3, <2>4
<1> QED BY <1>1, <1>2, <1>4, <1>5

\* A worker that stays with its job keeps to the route.
LEMMA RouteStay ==
    ASSUME TypeOK, Bounds, Route, NEW w \in Worker, WorkerStep(w), UNCHANGED cur
    PROVE  Route'
<1> USE DEF deviceVars, sessionVars, l2Vars, scanVars, resultVars
<1>1. CASE pc[w] \in {"done", "freed"}
  <2>1. FreeBatch(w)
    BY <1>1 DEF WorkerStep, StartJob, ReqLogin, DoLogin, QueryNetCfg, EditNetCfg, EditReply, L2Open,
       L2Send, L2Close, StartRescan, FinishRescan, FailRescan, GiveUp
  <2> QED BY <2>1 DEF FreeBatch, Goto, Route, NoDatagram, Cur, WebPhase, TypeOK
<1>2. CASE pc[w] \notin {"done", "freed"}
  <2>0. Cur(w) \in JobId /\ Cur(w)' = Cur(w) /\ (\A u \in Worker : u # w => Cur(u) # Cur(w))
    BY <1>2, CurrentJob DEF Cur
  <2>1. ASSUME NEW id \in JobId, NoDatagram(id), id # Cur(w) \/ ~L2Send(w) PROVE NoDatagram(id)'
    BY <2>1, DatagramFrame
  <2>2. /\ pc'[w] \in WebPhase => webError'[Cur(w)] = "none" /\ Cur(w) \notin usedWeb'
        /\ pc'[w] \in {"l2", "l2send"} => webError'[Cur(w)] # "none" /\ Cur(w) \notin usedWeb'
    BY <1>2, RouteMoves DEF Route, WebPhase
  <2>3. pc'[w] \in WebPhase \cup {"l2"} => NoDatagram(Cur(w))'
    BY <1>2, <2>0, <2>1, RouteMoves DEF Route, WebPhase
  <2>4. pc'[w] = "l2send" /\ ~sent'[w] => NoDatagram(Cur(w))'
    <3>1. CASE pc'[w] = "l2send" /\ pc[w] = "l2" /\ ~L2Send(w)
      BY <2>0, <2>1, <3>1 DEF Route
    <3>2. CASE pc[w] = "l2send" /\ ~sent[w] /\ UNCHANGED <<air, writes>>
      BY <3>2, <2>0 DEF Route, NoDatagram
    <3>3. CASE L2Send(w) /\ ~sent'[w]
      <4>1. ~sent[w] /\ UNCHANGED <<air, writes>> /\ pc[w] = "l2send"
        BY <3>3 DEF L2Send, AfterSendError, TypeOK
      <4> QED BY <4>1, <2>0 DEF Route, NoDatagram
    <3>4. CASE pc[w] = "l2send" /\ ~L2Send(w) /\ pc'[w] = "l2send"
      BY <3>4 DEF WorkerStep, StartJob, ReqLogin, DoLogin, QueryNetCfg, EditNetCfg, EditReply,
         L2Open, L2Close, StartRescan, FinishRescan, FailRescan, GiveUp, FreeBatch,
         BeginVerification, Conclude, Goto, TypeOK
    <3> QED BY <1>2, <3>1, <3>2, <3>3, <3>4, RouteMoves
  <2>5. ASSUME NEW u \in Worker, u # w, pc[u] \notin {"done", "freed"}
        PROVE  /\ pc'[u] = pc[u] /\ sent'[u] = sent[u] /\ Cur(u)' = Cur(u)
               /\ webError'[Cur(u)] = webError[Cur(u)] /\ (Cur(u) \in usedWeb' <=> Cur(u) \in usedWeb)
               /\ NoDatagram(Cur(u)) => NoDatagram(Cur(u))'
    <3>1. Cur(u) \in JobId /\ Cur(u) # Cur(w)
      BY <2>5, <2>0, CurrentJob
    <3>2. Cur(u)' = Cur(u)
      BY DEF Cur
    <3>3. ASSUME NoDatagram(Cur(u)) PROVE NoDatagram(Cur(u))'
      <4>1. PICK id \in JobId : id = Cur(u)
        BY <3>1
      <4>2. NoDatagram(id)'
        BY <2>1, <3>1, <3>3, <4>1
      <4> QED BY <4>1, <4>2, <3>2 DEF NoDatagram
    <3> QED BY <2>5, <3>1, <3>2, <3>3, WorkerFrame
  <2>6. \A u \in Worker :
            /\ pc'[u] \in WebPhase => webError'[Cur(u)'] = "none" /\ Cur(u)' \notin usedWeb'
            /\ pc'[u] \in {"l2", "l2send"} => webError'[Cur(u)'] # "none" /\ Cur(u)' \notin usedWeb'
            /\ pc'[u] \in WebPhase \cup {"l2"} => NoDatagram(Cur(u))'
            /\ pc'[u] = "l2send" /\ ~sent'[u] => NoDatagram(Cur(u))'
    <3> SUFFICES ASSUME NEW u \in Worker
                 PROVE  /\ pc'[u] \in WebPhase => webError'[Cur(u)'] = "none" /\ Cur(u)' \notin usedWeb'
                        /\ pc'[u] \in {"l2", "l2send"} => webError'[Cur(u)'] # "none" /\ Cur(u)' \notin usedWeb'
                        /\ pc'[u] \in WebPhase \cup {"l2"} => NoDatagram(Cur(u))'
                        /\ pc'[u] = "l2send" /\ ~sent'[u] => NoDatagram(Cur(u))'
      OBVIOUS
    <3>1. CASE u = w
      BY <3>1, <2>0, <2>2, <2>3, <2>4
    <3>2. CASE u # w /\ pc[u] \notin {"done", "freed"}
      BY <3>2, <2>5 DEF Route
    <3>3. CASE u # w /\ pc[u] \in {"done", "freed"}
      BY <3>3, WorkerFrame DEF WebPhase
    <3> QED BY <3>1, <3>2, <3>3
  <2>7. ASSUME NEW id \in JobId PROVE NoDatagram(id)' \/ (webError'[id] # "none" /\ id \notin usedWeb')
    <3>1. CASE id # Cur(w)
      BY <2>1, <3>1, WorkerFrame DEF Route
    <3>2. CASE id = Cur(w) /\ pc'[w] \in WebPhase \cup {"l2", "l2send"}
      BY <2>0, <2>2, <2>3, <3>2
    <3>3. CASE id = Cur(w) /\ pc'[w] \notin WebPhase \cup {"l2", "l2send"}
      <4>1. /\ ~L2Send(w) /\ UNCHANGED webError
            /\ UNCHANGED usedWeb \/ pc[w] \in WebPhase
        BY <1>2, <3>3, RouteMoves
      <4>2. CASE UNCHANGED usedWeb
        BY <2>1, <3>3, <4>1, <4>2 DEF Route
      <4>3. CASE pc[w] \in WebPhase
        BY <2>1, <3>3, <4>1, <4>3 DEF Route
      <4> QED BY <4>1, <4>2, <4>3
    <3> QED BY <3>1, <3>2, <3>3
  <2>8. ASSUME NEW u \in Worker, NEW i \in 1..NumJobs, i > cur'[u] PROVE <<u, i>> \notin usedWeb'
    <3>1. <<u, i>> \in JobId /\ <<u, i>> # Cur(w) /\ i > cur[u]
      <4>1. <<u, i>> \in JobId /\ cur[u] \in Nat /\ cur[w] \in Nat /\ i > cur[u]
        BY <2>8, ConstantAssumption DEF TypeOK, JobId
      <4> QED BY <4>1 DEF Cur
    <3> QED BY <3>1, WorkerFrame DEF Route
  <2> QED BY <2>6, <2>7, <2>8 DEF Route
<1> QED BY <1>1, <1>2

\* A worker that moves on to its next job starts it on a clean route.
LEMMA RouteConclude ==
    ASSUME TypeOK, Bounds, OneAtATime, Route, NEW w \in Worker, WorkerStep(w),
           ~UNCHANGED <<cur, verdict>>
    PROVE  Route'
<1>0. /\ pc[w] \notin {"done", "freed"} /\ pc'[w] \in {"start", "done"}
      /\ cur' = [cur EXCEPT ![w] = cur[w] + 1]
      /\ ~L2Send(w) /\ UNCHANGED <<webError, usedWeb>>
  BY ConcludeRoute
<1>1. /\ cur'[w] = cur[w] + 1 /\ cur[w] \in Nat
      /\ \A u \in Worker : u # w => cur'[u] = cur[u] /\ cur[u] \in Nat
  BY <1>0, ConstantAssumption DEF TypeOK
<1>2. ASSUME NEW id \in JobId, NoDatagram(id) PROVE NoDatagram(id)'
  BY <1>0, <1>2, DatagramFrame
<1>3. TypeOK' /\ Bounds'
  BY WorkerTypeOK
<1>4. ASSUME pc'[w] = "start"
      PROVE  /\ webError'[Cur(w)'] = "none" /\ Cur(w)' \notin usedWeb'
             /\ NoDatagram(Cur(w))'
  <2>1. /\ Cur(w)' = <<w, cur[w] + 1>> /\ cur[w] + 1 \in 1..NumJobs
        /\ cur[w] + 1 > cur[w] /\ <<w, cur[w] + 1>> \in JobId
    <3>1. cur'[w] \in 1..(NumJobs + 1) /\ cur'[w] # NumJobs + 1
      BY <1>3, <1>4 DEF TypeOK, Bounds
    <3>2. cur'[w] \in 1..NumJobs
      BY <3>1, <1>1, ConstantAssumption
    <3> QED BY <3>2, <1>1 DEF Cur, JobId
  <2>2. PICK id \in JobId : id = <<w, cur[w] + 1>>
    BY <2>1
  <2>3. webError[id] = "none" /\ id \notin usedWeb /\ NoDatagram(id)
    BY <2>1, <2>2 DEF OneAtATime, Route, NoDatagram
  <2>4. NoDatagram(id)'
    BY <1>2, <2>3
  <2> QED BY <1>0, <2>1, <2>2, <2>3, <2>4 DEF NoDatagram
<1>5. ASSUME NEW u \in Worker, u # w, pc[u] \notin {"done", "freed"}
      PROVE  /\ Cur(u)' = Cur(u) /\ NoDatagram(Cur(u)) => NoDatagram(Cur(u))'
  <2>1. Cur(u)' = Cur(u)
    BY <1>1, <1>5 DEF Cur
  <2>2. PICK id \in JobId : id = Cur(u)
    BY <1>5, CurrentJob
  <2>3. NoDatagram(id) => NoDatagram(id)'
    BY <1>2
  <2> QED BY <2>1, <2>2, <2>3 DEF NoDatagram
<1>6. ASSUME NEW u \in Worker
      PROVE  /\ pc'[u] \in WebPhase => webError'[Cur(u)'] = "none" /\ Cur(u)' \notin usedWeb'
             /\ pc'[u] \in {"l2", "l2send"} => webError'[Cur(u)'] # "none" /\ Cur(u)' \notin usedWeb'
             /\ pc'[u] \in WebPhase \cup {"l2"} => NoDatagram(Cur(u))'
             /\ pc'[u] = "l2send" /\ ~sent'[u] => NoDatagram(Cur(u))'
  <2>1. CASE u = w
    BY <1>0, <1>4, <2>1 DEF WebPhase
  <2>2. CASE u # w /\ pc[u] \notin {"done", "freed"}
    <3>1. Cur(u)' = Cur(u)
      BY <1>1, <2>2 DEF Cur
    <3> QED BY <3>1, <1>0, <1>5, <2>2, WorkerFrame DEF Route
  <2>3. CASE u # w /\ pc[u] \in {"done", "freed"}
    BY <2>3, WorkerFrame DEF WebPhase
  <2> QED BY <2>1, <2>2, <2>3
<1>7. ASSUME NEW id \in JobId PROVE NoDatagram(id)' \/ (webError'[id] # "none" /\ id \notin usedWeb')
  BY <1>0, <1>2 DEF Route
<1>8. ASSUME NEW u \in Worker, NEW i \in 1..NumJobs, i > cur'[u] PROVE <<u, i>> \notin usedWeb'
  <2>1. i > cur[u]
    BY <1>1, <1>8, ConstantAssumption
  <2> QED BY <1>0, <2>1 DEF Route
<1> QED BY <1>6, <1>7, <1>8 DEF Route

\* What devices and network leave alone: the workers and their results, and
\* they send no layer-2 request.
LEMMA RouteEnvironment ==
    ASSUME TypeOK, Bounds, Route, FailedSentNothing,
           \/ \E m \in air : DeviceEdits(m) \/ DeviceObeys(m) \/ LoseRequest(m)
           \/ \E d \in Device : RenewLease(d)
           \/ \E w \in Worker, d \in Device, m \in Spelling : HearAnswer(w, d, m)
           \/ UNCHANGED vars
    PROVE  Route' /\ FailedSentNothing'
<1> USE DEF deviceVars, sessionVars, l2Vars, scanVars, resultVars
<1>1. UNCHANGED <<pc, cur, sent, webError, usedWeb, verdict>>
  BY DEF DeviceEdits, DeviceObeys, LoseRequest, RenewLease, HearAnswer, vars
<1>2. ASSUME NEW id \in JobId, NoDatagram(id) PROVE NoDatagram(id)'
  BY <1>2, EnvironmentFrame
<1>3. ASSUME NEW u \in Worker, pc[u] \notin {"done", "freed"}, NoDatagram(Cur(u))
      PROVE  NoDatagram(Cur(u))'
  <2>1. PICK id \in JobId : id = Cur(u)
    BY <1>3, CurrentJob
  <2>2. NoDatagram(id)' /\ Cur(u)' = Cur(u)
    BY <1>1, <1>2, <1>3, <2>1 DEF Cur
  <2> QED BY <2>1, <2>2 DEF NoDatagram
<1>4. FailedSentNothing'
  BY <1>1, <1>2 DEF FailedSentNothing
<1>5. \A u \in Worker : Cur(u)' = Cur(u)
  BY <1>1 DEF Cur
<1>6. Route'
  BY <1>1, <1>2, <1>3, <1>5 DEF Route, WebPhase
<1> QED BY <1>4, <1>6

\* Layer 2 stays a fallback, and a failure means that nothing was sent.
LEMMA RouteStep ==
    TypeOK /\ Bounds /\ OneAtATime /\ Route /\ FailedSentNothing /\ [Next]_vars
        => Route' /\ FailedSentNothing'
<1> SUFFICES ASSUME TypeOK, Bounds, OneAtATime, Route, FailedSentNothing, [Next]_vars
             PROVE  Route' /\ FailedSentNothing'
  OBVIOUS
<1>1. ASSUME NEW w \in Worker, WorkerStep(w), UNCHANGED <<cur, verdict>>
      PROVE  Route' /\ FailedSentNothing'
  <2>1. ASSUME NEW id \in JobId, verdict[id] = "failed" PROVE NoDatagram(id)'
    <3>1. id # Cur(w) \/ ~L2Send(w)
      <4>1. CASE pc[w] \in {"done", "freed"}
        BY <4>1 DEF L2Send
      <4>2. CASE pc[w] \notin {"done", "freed"}
        <5>1. cur[w] \in 1..NumJobs /\ cur[w] \in Nat
          BY <4>2, CurrentJob, ConstantAssumption
        <5>2. verdict[<<w, cur[w]>>] = "pending"
          BY <5>1 DEF OneAtATime
        <5> QED BY <5>2, <2>1 DEF Cur
      <4> QED BY <4>1, <4>2
    <3> QED BY <1>1, <2>1, <3>1, DatagramFrame DEF FailedSentNothing
  <2>2. FailedSentNothing'
    BY <1>1, <2>1 DEF FailedSentNothing
  <2> QED BY <1>1, <2>2, RouteStay
<1>2. ASSUME NEW w \in Worker, WorkerStep(w), ~UNCHANGED <<cur, verdict>>
      PROVE  Route' /\ FailedSentNothing'
  <2>1. ~L2Send(w) /\ \E v \in Verdict \ {"pending"} :
            /\ verdict' = [verdict EXCEPT ![Cur(w)] = v]
            /\ v = "failed" => NoDatagram(Cur(w))
    BY <1>2, ConcludeRoute
  <2>2. ASSUME NEW id \in JobId, verdict'[id] = "failed" PROVE NoDatagram(id)
    BY <2>1, <2>2 DEF FailedSentNothing, TypeOK
  <2>3. ASSUME NEW id \in JobId, verdict'[id] = "failed" PROVE NoDatagram(id)'
    BY <1>2, <2>1, <2>2, <2>3, DatagramFrame
  <2>4. FailedSentNothing'
    BY <2>3 DEF FailedSentNothing
  <2> QED BY <1>2, <2>4, RouteConclude
<1> QED BY <1>1, <1>2, RouteEnvironment, StepCases

\* Initially nothing was sent and no session has failed.
LEMMA RouteInit == Init => Route /\ FailedSentNothing
<1> SUFFICES ASSUME Init PROVE Route /\ FailedSentNothing
  OBVIOUS
<1>1. \A id \in JobId : NoDatagram(id)
  BY DEF Init, NoDatagram
<1>2. \A w \in Worker : pc[w] = "start" /\ cur[w] = 1
  BY DEF Init
<1>3. ASSUME NEW w \in Worker PROVE Cur(w) \in JobId
  <2>1. cur[w] \in 1..NumJobs
    BY <1>2, ConstantAssumption
  <2> QED BY <2>1 DEF Cur, JobId
<1>4. /\ webError = [id \in JobId |-> "none"] /\ verdict = [id \in JobId |-> "pending"]
      /\ usedWeb = {}
  BY DEF Init
<1>5. \A id \in JobId : webError[id] = "none" /\ verdict[id] = "pending"
  BY <1>4
<1> QED BY <1>1, <1>2, <1>3, <1>4, <1>5 DEF Route, WebPhase, FailedSentNothing

\* The route and the honesty of a failure hold in every behaviour.
LEMMA RouteAlways == Spec => [](Route /\ FailedSentNothing)
BY RouteInit, RouteStep, TypeCorrect, Sequential, PTL DEF Spec

\* A job sends its layer-2 request only after its web session failed, and
\* never after the device confirmed the web edit.
THEOREM FallbackIsLast == Spec => []FallbackOnly
<1>1. TypeOK /\ Route => FallbackOnly
  BY DEF Route, NoDatagram, FallbackOnly
<1> QED BY <1>1, TypeCorrect, RouteAlways, PTL

\* A job reported failed put no layer-2 request on the network, whatever the
\* order of successful and failed send attempts.
THEOREM FailureIsHonest == Spec => []FailedSentNothing
BY RouteAlways, PTL

\* Passwords are wiped before the first rescan and when the batch is freed.
LEMMA SecretStep == TypeOK /\ SecretDiscipline /\ [Next]_vars => SecretDiscipline'
<1> SUFFICES ASSUME TypeOK, SecretDiscipline, [Next]_vars PROVE SecretDiscipline'
  OBVIOUS
<1> USE DEF deviceVars, sessionVars, l2Vars, scanVars, resultVars
<1>0. \A id \in secret : id \in JobId /\ id[1] \in Worker
  BY DEF TypeOK, JobId
<1>1. ASSUME NEW w \in Worker, WorkerStep(w) PROVE SecretDiscipline'
  <2>1. CASE FreeBatch(w)
    BY <1>0, <2>1 DEF FreeBatch, Freed, Goto, TypeOK, SecretDiscipline
  <2>2. CASE ~FreeBatch(w)
    <3>1. secret' \subseteq secret
      BY <1>1, <2>2 DEF WorkerStep, StartJob, ReqLogin, DoLogin, QueryNetCfg, EditNetCfg, EditReply,
         L2Open, L2Send, L2Close, StartRescan, FinishRescan, FailRescan, GiveUp, BeginVerification, Wiped
    <3>2. \A id \in secret' : visited'[id] = visited[id]
      <4>1. CASE EditReply(w) \/ L2Close(w)
        BY <1>0, <4>1 DEF EditReply, L2Close, BeginVerification, Wiped, TypeOK
      <4>2. CASE ~(EditReply(w) \/ L2Close(w))
        BY <1>1, <2>2, <4>2 DEF WorkerStep, StartJob, ReqLogin, DoLogin, QueryNetCfg, EditNetCfg,
           L2Open, L2Send, StartRescan, FinishRescan, FailRescan, GiveUp
      <4> QED BY <4>1, <4>2
    <3>3. pc'[w] = "freed" => pc[w] = "freed"
      BY <1>1, <2>2 DEF WorkerStep, StartJob, ReqLogin, DoLogin, QueryNetCfg, EditNetCfg, EditReply,
         L2Open, L2Send, L2Close, StartRescan, FinishRescan, FailRescan, GiveUp, BeginVerification,
         WebFailed, Conclude, Goto, TypeOK
    <3> QED BY <1>0, <1>1, <3>1, <3>2, <3>3, WorkerFrame DEF SecretDiscipline
  <2> QED BY <2>1, <2>2
<1>2. ASSUME NEW d, NEW s, Become(d, s) PROVE \A id \in secret : visited'[id] = {}
  BY <1>0, <1>2 DEF Become, SecretDiscipline
<1>3. ASSUME NEW m \in air, DeviceEdits(m) PROVE SecretDiscipline'
  BY <1>2, <1>3 DEF DeviceEdits, SecretDiscipline
<1>4. ASSUME NEW m \in air, DeviceObeys(m) PROVE SecretDiscipline'
  BY <1>2, <1>4 DEF DeviceObeys, SecretDiscipline
<1>5. ASSUME NEW m \in air, LoseRequest(m) PROVE SecretDiscipline'
  BY <1>5 DEF LoseRequest, SecretDiscipline
<1>6. ASSUME NEW d \in Device, RenewLease(d) PROVE SecretDiscipline'
  BY <1>2, <1>6 DEF RenewLease, SecretDiscipline
<1>7. ASSUME NEW w \in Worker, NEW d \in Device, NEW m \in Spelling, HearAnswer(w, d, m)
      PROVE  SecretDiscipline'
  BY <1>7 DEF HearAnswer, SecretDiscipline
<1>8. CASE UNCHANGED vars
  BY <1>8 DEF vars, SecretDiscipline
<1> QED BY <1>1, <1>3, <1>4, <1>5, <1>6, <1>7, <1>8, StepCases

\* Nobody is watched at first.
LEMMA SecretInit == Init => SecretDiscipline
BY DEF Init, SecretDiscipline, JobId

\* No password is in memory while its job waits for the device, or after the
\* batch was freed.
THEOREM SecretsKept == Spec => []SecretDiscipline
BY SecretInit, SecretStep, TypeCorrect, PTL DEF Spec

\* How a worker step moves into, within and out of the rescans.
LEMMA WatchMoves ==
    ASSUME TypeOK, Bounds, NEW w \in Worker, WorkerStep(w)
    PROVE  \/ /\ pc[w] \notin {"rescan", "scan", "done", "freed"} /\ pc'[w] = "rescan"
              /\ visited' = [visited EXCEPT ![Cur(w)] = {device[job[Cur(w)].target]}]
              /\ UNCHANGED <<cur, verdict, answers>>
           \/ /\ pc[w] = "rescan" /\ pc'[w] = "scan"
              /\ UNCHANGED <<cur, verdict, answers, visited>>
           \/ /\ pc[w] = "scan" /\ pc'[w] = "rescan"
              /\ answers' = [answers EXCEPT ![w] = NoAnswers]
              /\ UNCHANGED <<cur, verdict, visited>>
           \/ /\ pc[w] \notin {"rescan", "scan"} /\ pc'[w] \notin {"rescan", "scan"}
              /\ UNCHANGED <<cur, verdict, answers, visited>>
           \/ \E v \in Verdict \ {"pending"} :
              /\ pc[w] \notin {"done", "freed"} /\ Conclude(w, v)
              /\ v = "verified" => pc[w] = "scan" /\ Confirmed(w)
              /\ \/ answers' = [answers EXCEPT ![w] = NoAnswers]
                 \/ pc[w] # "scan" /\ UNCHANGED answers
              /\ UNCHANGED visited
<1> USE DEF deviceVars, sessionVars, l2Vars, scanVars, resultVars
<1>1. CASE StartJob(w) \/ ReqLogin(w) \/ DoLogin(w) \/ QueryNetCfg(w) \/ EditNetCfg(w)
  BY <1>1 DEF StartJob, ReqLogin, DoLogin, QueryNetCfg, EditNetCfg, WebFailed, Goto, TypeOK
<1>2. CASE EditReply(w)
  <2>1. CASE BeginVerification(w)
    BY <1>2, <2>1 DEF EditReply, BeginVerification, Goto, TypeOK
  <2>2. CASE UNCHANGED visited /\ \E e \in {"protocol", "http"} : WebFailed(w, e)
    BY <1>2, <2>2 DEF EditReply, WebFailed, Goto, TypeOK
  <2> QED BY <1>2, <2>1, <2>2 DEF EditReply
<1>3. CASE L2Open(w)
  <2>1. CASE Conclude(w, "failed")
    BY <1>3, <2>1 DEF L2Open, Verdict
  <2>2. CASE Goto(w, "l2send") /\ UNCHANGED <<cur, verdict>>
    BY <1>3, <2>2 DEF L2Open, Goto, TypeOK
  <2> QED BY <1>3, <2>1, <2>2 DEF L2Open
<1>4. CASE L2Send(w)
  BY <1>4 DEF L2Send
<1>5. CASE L2Close(w)
  <2>1. CASE Conclude(w, "failed") /\ UNCHANGED visited
    BY <1>5, <2>1 DEF L2Close, Verdict
  <2>2. CASE BeginVerification(w) /\ UNCHANGED <<cur, verdict>>
    BY <1>5, <2>2 DEF L2Close, BeginVerification, Goto, TypeOK
  <2> QED BY <1>5, <2>1, <2>2 DEF L2Close
<1>6. CASE StartRescan(w) \/ FailRescan(w) \/ FreeBatch(w)
  BY <1>6 DEF StartRescan, FailRescan, FreeBatch, Goto, TypeOK
<1>7. CASE FinishRescan(w)
  <2>1. CASE Confirmed(w) /\ Conclude(w, "verified")
    <3>1. "verified" \in Verdict \ {"pending"}
      BY DEF Verdict
    <3> QED BY <1>7, <2>1, <3>1 DEF FinishRescan
  <2>2. CASE Goto(w, "rescan") /\ UNCHANGED <<cur, verdict>>
    BY <1>7, <2>2 DEF FinishRescan, Goto, TypeOK
  <2> QED BY <1>7, <2>1, <2>2 DEF FinishRescan
<1>8. CASE GiveUp(w)
  <2>1. "unverified" \in Verdict \ {"pending"} /\ "unverified" # "verified"
    BY DEF Verdict
  <2>2. Conclude(w, "unverified") /\ pc[w] = "rescan" /\ UNCHANGED <<answers, visited>>
    BY <1>8 DEF GiveUp
  <2> QED BY <2>1, <2>2
<1> QED BY <1>1, <1>2, <1>3, <1>4, <1>5, <1>6, <1>7, <1>8 DEF WorkerStep

\* What a job sees in its rescans happened.
LEMMA ConfirmedWasVisited ==
    ASSUME TypeOK, Bounds, Watching, NEW w \in Worker, pc[w] = "scan", Confirmed(w)
    PROVE  \E s \in visited[Cur(w)] : Requested(job[Cur(w)], s)
<1>1. PICK d \in Device, m \in Spelling :
          /\ Matches(d, Cur(w))
          /\ answers[w][<<d, m>>] # Nobody
          /\ Requested(job[Cur(w)], answers[w][<<d, m>>])
  BY DEF Confirmed
<1>2. answers[w][<<job[Cur(w)].target, m>>] \in visited[Cur(w)] \cup {Nobody}
  BY DEF Watching
<1> QED BY <1>1, <1>2 DEF Matches

\* A worker step keeps watch.
LEMMA WatchingWorker ==
    ASSUME TypeOK, Bounds, OneAtATime, Watching, VerifiedWasReal, NEW w \in Worker, WorkerStep(w)
    PROVE  Watching' /\ VerifiedWasReal'
<1>1. UNCHANGED <<device, job>>
  BY WorkerFrame
<1>2. ASSUME NEW u \in Worker PROVE cur[u] \in Nat
  BY ConstantAssumption DEF TypeOK
<1>3. CASE UNCHANGED <<cur, verdict>>
  <2>1. \A u \in Worker : Cur(u)' = Cur(u)
    BY <1>3 DEF Cur
  <2>2. /\ \A u \in Worker : pc[u] \notin {"done", "freed"} => Cur(u) \in JobId
        /\ \A u \in Worker : u # w => Cur(u) # Cur(w)
    BY CurrentJob DEF Cur
  <2>3. \A u \in Worker : u # w => pc'[u] = pc[u] /\ answers'[u] = answers[u]
    BY WorkerFrame
  <2>4. \A id \in JobId : id # Cur(w) => visited'[id] = visited[id]
    BY WorkerFrame
  <2>5. CASE /\ pc[w] \notin {"rescan", "scan", "done", "freed"} /\ pc'[w] = "rescan"
             /\ visited' = [visited EXCEPT ![Cur(w)] = {device[job[Cur(w)].target]}]
             /\ UNCHANGED answers
    <3>1. visited'[Cur(w)] = {device[job[Cur(w)].target]}
      BY <2>2, <2>5 DEF TypeOK
    <3>2. \A u \in Worker :
             /\ pc'[u] \in {"rescan", "scan"} => device[job[Cur(u)].target] \in visited'[Cur(u)]
             /\ pc'[u] # "scan" => answers'[u] = NoAnswers
             /\ pc'[u] = "scan" =>
                   \A m \in Spelling :
                       answers'[u][<<job[Cur(u)].target, m>>] \in visited'[Cur(u)] \cup {Nobody}
      BY <2>2, <2>3, <2>4, <2>5, <3>1 DEF Watching
    <3>3. ASSUME NEW u \in Worker, NEW i \in 1..NumJobs,
                 i > cur[u] \/ (i = cur[u] /\ pc'[u] \notin {"rescan", "scan"})
          PROVE  visited'[<<u, i>>] = {}
      <4>1. <<u, i>> \in JobId /\ <<u, i>> # Cur(w)
        BY <1>2, <2>5, <3>3 DEF JobId, Cur
      <4> QED BY <2>3, <2>4, <2>5, <3>3, <4>1 DEF Watching
    <3>4. VerifiedWasReal'
      <4>1. pc[w] \notin {"done", "freed"}
        BY <2>5
      <4>2. verdict[Cur(w)] = "pending"
        BY <1>2, <4>1, CurrentJob DEF OneAtATime, Cur
      <4> QED BY <1>1, <1>3, <2>4, <4>2 DEF VerifiedWasReal
    <3> QED BY <1>1, <1>3, <2>1, <3>2, <3>3, <3>4 DEF Watching, NoAnswers
  <2>6. CASE /\ pc[w] = "rescan" /\ pc'[w] = "scan" /\ UNCHANGED <<answers, visited>>
    <3>1. \A d \in Device, m \in Spelling : answers[w][<<d, m>>] = Nobody
      BY <2>6 DEF Watching, NoAnswers
    <3>2. job[Cur(w)].target \in Device
      BY <2>2, <2>6 DEF TypeOK, Job
    <3>3. VerifiedWasReal'
      BY <1>1, <1>3, <2>6 DEF VerifiedWasReal
    <3>4. \A u \in Worker :
             /\ pc'[u] \in {"rescan", "scan"} => device[job[Cur(u)].target] \in visited[Cur(u)]
             /\ pc'[u] # "scan" => answers[u] = NoAnswers
             /\ pc'[u] = "scan" =>
                   \A m \in Spelling :
                       answers[u][<<job[Cur(u)].target, m>>] \in visited[Cur(u)] \cup {Nobody}
      BY <2>3, <2>6, <3>1, <3>2 DEF Watching
    <3>5. \A u \in Worker, i \in 1..NumJobs :
             i > cur[u] \/ (i = cur[u] /\ pc'[u] \notin {"rescan", "scan"}) => visited[<<u, i>>] = {}
      BY <2>3, <2>6 DEF Watching
    <3> QED BY <1>1, <1>3, <2>1, <2>6, <3>3, <3>4, <3>5 DEF Watching, NoAnswers
  <2>7. CASE \/ /\ pc[w] = "scan" /\ pc'[w] = "rescan"
                /\ answers' = [answers EXCEPT ![w] = NoAnswers] /\ UNCHANGED visited
             \/ /\ pc[w] \notin {"rescan", "scan"} /\ pc'[w] \notin {"rescan", "scan"}
                /\ UNCHANGED <<answers, visited>>
    <3>1. pc'[w] # "scan" /\ answers'[w] = NoAnswers /\ UNCHANGED visited
      BY <2>7 DEF Watching, TypeOK
    <3>2. VerifiedWasReal'
      BY <1>1, <1>3, <3>1 DEF VerifiedWasReal
    <3>3. \A u \in Worker :
             /\ pc'[u] \in {"rescan", "scan"} => device[job[Cur(u)].target] \in visited[Cur(u)]
             /\ pc'[u] # "scan" => answers'[u] = NoAnswers
             /\ pc'[u] = "scan" =>
                   \A m \in Spelling :
                       answers'[u][<<job[Cur(u)].target, m>>] \in visited[Cur(u)] \cup {Nobody}
      BY <2>3, <2>7, <3>1 DEF Watching
    <3>4. \A u \in Worker, i \in 1..NumJobs :
             i > cur[u] \/ (i = cur[u] /\ pc'[u] \notin {"rescan", "scan"}) => visited[<<u, i>>] = {}
      BY <2>3, <2>7 DEF Watching
    <3> QED BY <1>1, <1>3, <2>1, <3>1, <3>2, <3>3, <3>4 DEF Watching, NoAnswers
  <2>8. \A v : v # "pending" => ~Conclude(w, v) \/ pc[w] \in {"done", "freed"}
    <3> SUFFICES ASSUME NEW v, Conclude(w, v), pc[w] \notin {"done", "freed"} PROVE FALSE
      OBVIOUS
    <3>1. cur'[w] = cur[w] + 1
      BY DEF Conclude, TypeOK
    <3> QED BY <1>2, <1>3, <3>1
  <2> QED BY <2>5, <2>6, <2>7, <2>8, WatchMoves
<1>4. CASE ~UNCHANGED <<cur, verdict>>
  <2>1. PICK v \in Verdict \ {"pending"} :
              /\ pc[w] \notin {"done", "freed"} /\ Conclude(w, v)
              /\ v = "verified" => pc[w] = "scan" /\ Confirmed(w)
              /\ \/ answers' = [answers EXCEPT ![w] = NoAnswers]
                 \/ pc[w] # "scan" /\ UNCHANGED answers
              /\ UNCHANGED visited
    BY <1>4, WatchMoves
  <2>2. /\ pc'[w] \in {"start", "done"} /\ cur'[w] = cur[w] + 1
        /\ \A u \in Worker : u # w => cur'[u] = cur[u]
        /\ verdict' = [verdict EXCEPT ![Cur(w)] = v]
    BY <2>1 DEF Conclude, Goto, TypeOK
  <2>3. answers'[w] = NoAnswers
    BY <2>1 DEF Watching, TypeOK
  <2>4. \A u \in Worker : u # w => pc'[u] = pc[u] /\ answers'[u] = answers[u] /\ Cur(u)' = Cur(u)
    BY <2>2, WorkerFrame DEF Cur
  <2>5. \A u \in Worker :
             /\ pc'[u] \in {"rescan", "scan"} => device[job[Cur(u)'].target] \in visited[Cur(u)']
             /\ pc'[u] # "scan" => answers'[u] = NoAnswers
             /\ pc'[u] = "scan" =>
                   \A m \in Spelling :
                       answers'[u][<<job[Cur(u)'].target, m>>] \in visited[Cur(u)'] \cup {Nobody}
    BY <2>2, <2>3, <2>4 DEF Watching
  <2>6. ASSUME NEW u \in Worker, NEW i \in 1..NumJobs,
               i > cur'[u] \/ (i = cur'[u] /\ pc'[u] \notin {"rescan", "scan"})
        PROVE  visited[<<u, i>>] = {}
    <3>1. CASE u = w
      <4>1. i > cur[u] /\ i \in Nat
        BY <1>2, <2>2, <2>6, <3>1
      <4> QED BY <4>1 DEF Watching
    <3>2. CASE u # w
      BY <2>2, <2>4, <2>6, <3>2 DEF Watching
    <3> QED BY <3>1, <3>2
  <2>7. ASSUME NEW id \in JobId, verdict'[id] = "verified"
        PROVE  \E s \in visited[id] : Requested(job[id], s)
    <3>1. CASE id = Cur(w) /\ v = "verified"
      BY <2>1, <3>1, ConfirmedWasVisited
    <3>2. CASE ~(id = Cur(w) /\ v = "verified")
      <4>1. verdict[id] = "verified"
        BY <2>2, <2>7, <3>2 DEF TypeOK
      <4> QED BY <4>1 DEF VerifiedWasReal
    <3> QED BY <3>1, <3>2
  <2>8. VerifiedWasReal'
    BY <1>1, <2>1, <2>7 DEF VerifiedWasReal, Requested
  <2> QED BY <1>1, <2>1, <2>5, <2>6, <2>8 DEF Watching, NoAnswers
<1> QED BY <1>3, <1>4

\* A device that changes its state is watched by the jobs that wait for it.
LEMMA WatchingBecome ==
    ASSUME TypeOK, Bounds, OneAtATime, Watching, VerifiedWasReal,
           UNCHANGED <<job, pc, cur, verdict, answers>>,
           UNCHANGED <<device, visited>> \/ \E d \in Device, s \in State : Become(d, s)
    PROVE  Watching' /\ VerifiedWasReal'
<1>1. \A u \in Worker : Cur(u)' = Cur(u)
  BY DEF Cur
<1>2. /\ \A id \in JobId : visited[id] \subseteq visited'[id]
      /\ \A id \in JobId : visited[id] = {} => visited'[id] = {}
      /\ \A id \in JobId : device[job[id].target] \in visited[id] /\ verdict[id] = "pending"
                              => device'[job[id].target] \in visited'[id]
  <2>1. CASE UNCHANGED <<device, visited>>
    BY <2>1
  <2>2. ASSUME NEW d \in Device, NEW s \in State, Become(d, s)
        PROVE  /\ \A id \in JobId : visited[id] \subseteq visited'[id]
               /\ \A id \in JobId : visited[id] = {} => visited'[id] = {}
               /\ \A id \in JobId : device[job[id].target] \in visited[id] /\ verdict[id] = "pending"
                              => device'[job[id].target] \in visited'[id]
    <3>1. \A e \in Device : device'[e] = IF e = d THEN s ELSE device[e]
      BY <2>2 DEF Become, TypeOK
    <3>2. \A id \in JobId : visited'[id] =
              IF job[id].target = d /\ visited[id] # {} /\ verdict[id] = "pending"
              THEN visited[id] \cup {s} ELSE visited[id]
      BY <2>2 DEF Become
    <3>3. \A id \in JobId : job[id].target \in Device
      BY DEF TypeOK, Job
    <3> QED BY <3>1, <3>2, <3>3
  <2> QED BY <2>1, <2>2
<1>3. ASSUME NEW u \in Worker, pc[u] \in {"rescan", "scan"}
      PROVE  Cur(u) \in JobId /\ verdict[Cur(u)] = "pending"
  <2>1. cur[u] \in 1..NumJobs /\ cur[u] \in Nat /\ Cur(u) \in JobId
    BY <1>3, CurrentJob, ConstantAssumption
  <2> QED BY <2>1 DEF OneAtATime, Cur
<1>4. \A u \in Worker :
         /\ pc[u] \in {"rescan", "scan"} => device'[job[Cur(u)].target] \in visited'[Cur(u)]
         /\ pc[u] # "scan" => answers[u] = NoAnswers
         /\ pc[u] = "scan" =>
               \A m \in Spelling :
                   answers[u][<<job[Cur(u)].target, m>>] \in visited'[Cur(u)] \cup {Nobody}
  BY <1>2, <1>3 DEF Watching
<1>5. \A u \in Worker, i \in 1..NumJobs :
         i > cur[u] \/ (i = cur[u] /\ pc[u] \notin {"rescan", "scan"}) => visited'[<<u, i>>] = {}
  BY <1>2 DEF Watching, JobId
<1>6. VerifiedWasReal'
  BY <1>2 DEF VerifiedWasReal
<1> QED BY <1>1, <1>4, <1>5, <1>6 DEF Watching, NoAnswers

\* A verdict tells the truth: the step lemma.
LEMMA WatchingStep ==
    TypeOK /\ Bounds /\ OneAtATime /\ Watching /\ VerifiedWasReal /\ [Next]_vars
        => Watching' /\ VerifiedWasReal'
<1> SUFFICES ASSUME TypeOK, Bounds, OneAtATime, Watching, VerifiedWasReal, [Next]_vars
             PROVE  Watching' /\ VerifiedWasReal'
  OBVIOUS
<1> USE DEF deviceVars, sessionVars, l2Vars, scanVars, resultVars
<1>1. ASSUME NEW m \in air, DeviceEdits(m) PROVE Watching' /\ VerifiedWasReal'
  <2>1. UNCHANGED <<job, pc, cur, verdict, answers>>
    BY <1>1 DEF DeviceEdits
  <2>2. UNCHANGED <<device, visited>> \/ \E d \in Device, s \in State : Become(d, s)
    BY <1>1, RequestTyping DEF DeviceEdits
  <2> QED BY <2>1, <2>2, WatchingBecome
<1>2. ASSUME NEW m \in air, DeviceObeys(m) PROVE Watching' /\ VerifiedWasReal'
  <2>1. UNCHANGED <<job, pc, cur, verdict, answers>>
    BY <1>2 DEF DeviceObeys
  <2>2. \E d \in Device, s \in State : Become(d, s)
    BY <1>2, RequestTyping DEF DeviceObeys
  <2> QED BY <2>1, <2>2, WatchingBecome
<1>3. ASSUME NEW m \in air, LoseRequest(m) PROVE Watching' /\ VerifiedWasReal'
  BY <1>3, WatchingBecome DEF LoseRequest
<1>4. ASSUME NEW d \in Device, RenewLease(d) PROVE Watching' /\ VerifiedWasReal'
  <2>1. \E s \in State : Become(d, s)
    BY <1>4 DEF RenewLease, State
  <2>2. UNCHANGED <<job, pc, cur, verdict, answers>>
    BY <1>4 DEF RenewLease
  <2> QED BY <2>1, <2>2, WatchingBecome
<1>5. ASSUME NEW w \in Worker, NEW d \in Device, NEW m \in Spelling, HearAnswer(w, d, m)
      PROVE  Watching' /\ VerifiedWasReal'
  <2>1. UNCHANGED <<device, visited, job, pc, cur, verdict>> /\ pc[w] = "scan"
    BY <1>5 DEF HearAnswer
  <2>2. \A u \in Worker : Cur(u)' = Cur(u)
    BY <2>1 DEF Cur
  <2>3. /\ \A u \in Worker : u # w => answers'[u] = answers[u]
        /\ \A e \in Device, k \in Spelling :
              \/ answers'[w][<<e, k>>] = answers[w][<<e, k>>]
              \/ e = d /\ answers'[w][<<e, k>>] = device[d]
    <3>1. /\ \A u \in Worker : u # w => answers'[u] = answers[u]
          /\ answers'[w] = [answers[w] EXCEPT ![<<d, m>>] =
                               FirstAnswer(answers[w][<<d, m>>], device[d])]
      BY <1>5 DEF HearAnswer, TypeOK
    <3>2. /\ answers[w] \in [Device \X Spelling -> State \cup {Nobody}]
          /\ FirstAnswer(answers[w][<<d, m>>], device[d]) \in {answers[w][<<d, m>>], device[d]}
      BY DEF TypeOK, FirstAnswer
    <3> QED BY <3>1, <3>2
  <2>4. job[Cur(w)].target \in Device
    BY <2>1, CurrentJob DEF Job
  <2>5. ASSUME NEW k \in Spelling
        PROVE  answers'[w][<<job[Cur(w)].target, k>>] \in visited[Cur(w)] \cup {Nobody}
    <3>1. /\ device[job[Cur(w)].target] \in visited[Cur(w)]
          /\ answers[w][<<job[Cur(w)].target, k>>] \in visited[Cur(w)] \cup {Nobody}
      BY <2>1 DEF Watching
    <3> QED BY <2>3, <2>4, <3>1
  <2>6. VerifiedWasReal'
    BY <2>1 DEF VerifiedWasReal
  <2>7. \A u \in Worker :
           /\ pc[u] \in {"rescan", "scan"} => device[job[Cur(u)].target] \in visited[Cur(u)]
           /\ pc[u] # "scan" => answers'[u] = NoAnswers
           /\ pc[u] = "scan" =>
                 \A k \in Spelling :
                     answers'[u][<<job[Cur(u)].target, k>>] \in visited[Cur(u)] \cup {Nobody}
    BY <2>1, <2>3, <2>5 DEF Watching
  <2>8. \A u \in Worker, i \in 1..NumJobs :
           i > cur[u] \/ (i = cur[u] /\ pc[u] \notin {"rescan", "scan"}) => visited[<<u, i>>] = {}
    BY DEF Watching
  <2> QED BY <2>1, <2>2, <2>6, <2>7, <2>8 DEF Watching, NoAnswers
<1>6. CASE UNCHANGED vars
  BY <1>6, WatchingBecome DEF vars
<1> QED BY <1>1, <1>2, <1>3, <1>4, <1>5, <1>6, StepCases, WatchingWorker

\* Nothing is watched at first.
LEMMA InitWatching == Init => Watching /\ VerifiedWasReal
<1> SUFFICES ASSUME Init PROVE Watching /\ VerifiedWasReal
  OBVIOUS
<1>1. \A id \in JobId : visited[id] = {} /\ verdict[id] = "pending"
  BY DEF Init
<1>2. \A w \in Worker : pc[w] = "start" /\ answers[w] = NoAnswers
  BY DEF Init
<1> QED BY <1>1, <1>2 DEF Watching, VerifiedWasReal, JobId

\* The states of a watched target are all visited, and answers are some of them.
LEMMA WatchingAlways == Spec => [](Watching /\ VerifiedWasReal)
BY InitWatching, WatchingStep, TypeCorrect, Sequential, PTL DEF Spec

\* A job is reported verified only if its target really was in the state the
\* code looks for after the job's request was accepted or sent.
THEOREM VerdictIsTruthful == Spec => []VerifiedWasReal
BY WatchingAlways, PTL

-----------------------------------------------------------------------------
\* One batch, from an inventory that is true.
OneTrueBatch == ~StaleInventory /\ \A u, w \in Worker : u = w

\* No job is to give its target the address of a device with a static address.
PlanAvoids ==
    \A d \in Device, id \in JobId :
        ~device[d].dhcp /\ ~job[id].dhcp /\ job[id].target # d
            => device[d].ip # job[id].newIp

\* The static jobs of a batch plan one address each.
PlanDiffers ==
    \A id, k \in JobId :
        ~job[id].dhcp /\ ~job[k].dhcp /\ job[id].newIp = job[k].newIp => id = k

NoClashInv == NoStaticClash /\ PlanAvoids /\ PlanDiffers

\* A plan that apply_clicked lets through hands out addresses that nobody has.
LEMMA NoClashInit == OneTrueBatch /\ Init => NoClashInv
<1> SUFFICES ASSUME OneTrueBatch, Init
             PROVE  NoClashInv
    OBVIOUS
<1>1. NoStaticClash
    BY DEF Init, Distinct, NoStaticClash
<1> DEFINE listed == UpToDate(device)
<1>0. \A r \in Entry : listed[r] = device[r[1]].ip
    BY DEF UpToDate
<1>2. PICK row \in [JobId -> Entry], mode \in [Worker -> Modes], start \in [Worker -> Ip],
           length \in [Worker -> Lengths], right \in [JobId -> BOOLEAN] :
          /\ Admissible(listed, Plan(listed, row, mode, start, length, right))
          /\ job = Plan(listed, row, mode, start, length, right)
    BY DEF Init, OneTrueBatch
<1>3. \A id \in JobId :
          /\ id[1] \in Worker /\ id[2] \in 1..NumJobs /\ id = <<id[1], id[2]>>
          /\ row[id] \in Entry
          /\ job[id].target = row[id][1] /\ job[id].dhcp = mode[id[1]]
          /\ job[id].oldIp = device[job[id].target].ip
          /\ ~job[id].dhcp => job[id].newIp = start[id[1]] + (id[2] - 1)
    BY <1>0, <1>2 DEF Plan, JobId
<1>4. PlanDiffers
    <2> SUFFICES ASSUME NEW id \in JobId, NEW k \in JobId, ~job[id].dhcp, ~job[k].dhcp,
                        job[id].newIp = job[k].newIp
                 PROVE  id = k
        BY DEF PlanDiffers
    <2>1. id[1] = k[1] /\ start[id[1]] \in Nat /\ id[2] \in Nat /\ k[2] \in Nat
        BY <1>3, ConstantAssumption DEF OneTrueBatch
    <2>2. start[id[1]] + (id[2] - 1) = start[id[1]] + (k[2] - 1)
        BY <1>3, <2>1
    <2>3. id[2] = k[2]
        BY <2>1, <2>2
    <2> QED
        BY <1>3, <2>1, <2>3
<1>5. PlanAvoids
    <2> SUFFICES ASSUME NEW d \in Device, NEW id \in JobId, ~job[id].dhcp, job[id].target # d
                 PROVE  device[d].ip # job[id].newIp
        BY DEF PlanAvoids
    <2> DEFINE selected == {job[<<id[1], k>>].target : k \in 1..NumJobs}
    <2>1. ~HasDuplicateIp(listed, selected, job[id].newIp) /\ ~SelectedIpOwner(job, id)
        <3>1. Admissible(listed, job)
            BY <1>2
        <3> QED
            BY <3>1 DEF Admissible
    <2>2. CASE d \notin selected
        <3>1. PICK m \in Spelling : row[id][2] = m
            BY <1>3 DEF Entry
        <3>2. <<d, m>> \in Entry /\ listed[<<d, m>>] = device[d].ip
            BY <1>0 DEF Entry
        <3> QED
            BY <2>1, <2>2, <3>2 DEF HasDuplicateIp
    <2>3. CASE d \in selected
        <3>1. PICK k \in 1..NumJobs : job[<<id[1], k>>].target = d
            BY <2>3
        <3>2. k # id[2] /\ <<id[1], k>> \in JobId
            BY <1>3, <3>1 DEF JobId
        <3>3. job[<<id[1], k>>].oldIp = device[d].ip
            BY <1>3, <3>1, <3>2
        <3> QED
            BY <2>1, <3>2, <3>3 DEF SelectedIpOwner
    <2> QED
        BY <2>2, <2>3
<1> QED
    BY <1>1, <1>4, <1>5 DEF NoClashInv

\* A device changes into what a job planned for it, or moves under DHCP.
LEMMA NoClashBecome ==
    ASSUME TypeOK, NoClashInv, UNCHANGED job, NEW d \in Device, NEW s \in State, Become(d, s),
           \/ s.dhcp
           \/ \E id \in JobId : ~job[id].dhcp /\ job[id].target = d /\ s.ip = job[id].newIp
    PROVE  NoClashInv'
<1>1. device'[d] = s /\ \A e \in Device \ {d} : device'[e] = device[e]
    BY DEF Become, TypeOK
<1>2. CASE s.dhcp
    BY <1>1, <1>2 DEF NoClashInv, NoStaticClash, PlanAvoids, PlanDiffers
<1>3. ASSUME NEW id \in JobId, ~job[id].dhcp, job[id].target = d, s.ip = job[id].newIp
      PROVE  NoClashInv'
    <2>1. NoStaticClash'
        BY <1>1, <1>3 DEF NoClashInv, NoStaticClash, PlanAvoids
    <2>2. PlanAvoids'
        BY <1>1, <1>3 DEF NoClashInv, PlanAvoids, PlanDiffers
    <2>3. PlanDiffers'
        BY DEF NoClashInv, PlanDiffers
    <2> QED
        BY <2>1, <2>2, <2>3 DEF NoClashInv
<1> QED
    BY <1>2, <1>3

\* Every step keeps static addresses apart.
LEMMA NoClashStep == TypeOK /\ Routing /\ NoClashInv /\ [Next]_vars => NoClashInv'
<1> SUFFICES ASSUME TypeOK, Routing, NoClashInv, [Next]_vars
             PROVE  NoClashInv'
    OBVIOUS
<1> USE DEF deviceVars, sessionVars, l2Vars, scanVars, resultVars
<1>1. CASE UNCHANGED <<device, job>>
    BY <1>1 DEF NoClashInv, NoStaticClash, PlanAvoids, PlanDiffers
<1>2. ASSUME NEW m \in air, NEW s \in Outcomes(m.id), Become(m.to, s), UNCHANGED job
      PROVE  NoClashInv'
    <2>1. m.id \in JobId /\ m.to = job[m.id].target /\ m.to \in Device /\ s \in State
          /\ job[m.id] \in Job
        BY RequestTyping DEF Routing, TypeOK
    <2>2. \/ s.dhcp
          \/ ~job[m.id].dhcp /\ job[m.id].target = m.to /\ s.ip = job[m.id].newIp
        <3>1. CASE job[m.id].dhcp
            BY <3>1 DEF Outcomes
        <3>2. CASE ~job[m.id].dhcp
            <4>1. s = [ip |-> job[m.id].newIp, dhcp |-> FALSE]
                BY <3>2 DEF Outcomes
            <4>2. s.ip = job[m.id].newIp
                BY <4>1
            <4> QED
                BY <2>1, <3>2, <4>2
        <3> QED
            BY <3>1, <3>2
    <2> QED
        BY <1>2, <2>1, <2>2, NoClashBecome
<1>3. ASSUME NEW m \in air, DeviceEdits(m) \/ DeviceObeys(m)
      PROVE  NoClashInv'
    <2>1. UNCHANGED job
        BY <1>3 DEF DeviceEdits, DeviceObeys
    <2>2. UNCHANGED device \/ \E s \in Outcomes(m.id) : Become(m.to, s)
        BY <1>3 DEF DeviceEdits, DeviceObeys
    <2> QED
        BY <1>1, <1>2, <2>1, <2>2
<1>4. ASSUME NEW d \in Device, RenewLease(d)
      PROVE  NoClashInv'
    <2>1. PICK a \in Ip : Become(d, [ip |-> a, dhcp |-> TRUE])
        BY <1>4 DEF RenewLease
    <2>2. /\ [ip |-> a, dhcp |-> TRUE] \in State
          /\ [ip |-> a, dhcp |-> TRUE].dhcp
          /\ UNCHANGED job
        BY <1>4 DEF State, RenewLease
    <2> QED
        BY <2>1, <2>2, NoClashBecome
<1>5. ASSUME \/ \E w \in Worker : WorkerStep(w)
             \/ \E m \in air : LoseRequest(m)
             \/ \E w \in Worker, d \in Device, m \in Spelling : HearAnswer(w, d, m)
             \/ UNCHANGED vars
      PROVE  UNCHANGED <<device, job>>
    BY <1>5, WorkerFrame DEF LoseRequest, HearAnswer, vars
<1> QED
    BY <1>1, <1>3, <1>4, <1>5, StepCases

\* One batch, planned from a true inventory, never puts two static devices on
\* one address, however its requests are delayed, repeated or lost.
THEOREM NoClash == OneTrueBatch /\ Spec => []NoStaticClash
<1>1. NoClashInv => NoStaticClash
    BY DEF NoClashInv
<1> QED
    BY <1>1, NoClashInit, NoClashStep, TypeCorrect, RoutingAlways, PTL DEF Spec

-----------------------------------------------------------------------------
(* Batches come to an end: the steps a worker has left                     *)

\* The steps of a job are numbers.
LEMMA StepNumbers ==
    /\ NumJobs \in Nat /\ L2Attempts \in Nat /\ MaxRescans \in Nat
    /\ RescanSteps = 2 * MaxRescans + 1 /\ RescanSteps \in Nat
    /\ JobSteps = 8 + L2Attempts + RescanSteps /\ JobSteps \in Nat
BY ConstantAssumption DEF RescanSteps, JobSteps, CallsLeft

\* A job under way has a step left, and no more than the whole of it.
LEMMA JobStepsLeftTyping ==
    ASSUME TypeOK, Bounds, NEW w \in Worker, pc[w] \notin {"done", "freed"}
    PROVE  JobStepsLeft(w) \in 1..JobSteps
<1>1. /\ rescan[w] \in 0..MaxRescans /\ attempt[w] \in 0..L2Attempts
      /\ pc[w] = "scan" => rescan[w] < MaxRescans
      /\ pc[w] \in Control \ {"done", "freed"}
    BY DEF TypeOK, Bounds
<1>2. CASE pc[w] \in {"scan", "rescan", "l2send"}
    BY <1>1, <1>2, StepNumbers DEF JobStepsLeft, CallsLeft
<1>3. CASE pc[w] \notin {"scan", "rescan", "l2send"}
    <2>1. JobStepsLeft(w) = CallsLeft[pc[w]] + L2Attempts + RescanSteps
        BY <1>3 DEF JobStepsLeft
    <2>2. CallsLeft[pc[w]] \in 1..8
        BY <1>1, <1>3 DEF Control, CallsLeft
    <2> QED
        BY <2>1, <2>2, StepNumbers
<1> QED
    BY <1>2, <1>3

\* Whole jobs take whole numbers of steps.
LEMMA JobsToCome ==
    ASSUME NEW n \in Nat, NEW c \in 1..n, NEW s \in Nat
    PROVE  /\ (n - c) * s \in Nat
           /\ c < n => (n - (c + 1)) * s + s = (n - c) * s
           /\ (n - c) * s + s <= n * s
<1>1. n - c \in Nat
    OBVIOUS
<1>2. (n - c) * s \in Nat
    BY <1>1
<1>3. c < n => (n - (c + 1)) * s + s = (n - c) * s
    OBVIOUS
<1>4. (n - c) * s + s = (n - (c - 1)) * s
    OBVIOUS
<1>5. n * s = (n - (c - 1)) * s + (c - 1) * s /\ (c - 1) * s \in Nat
    OBVIOUS
<1> QED
    BY <1>2, <1>3, <1>4, <1>5

\* So is the number of steps a batch has left, and it has a bound.
LEMMA StepsLeftTyping ==
    ASSUME TypeOK, Bounds, NEW w \in Worker
    PROVE  StepsLeft(w) \in 0..(NumJobs * JobSteps + 1)
<1>1. CASE pc[w] \in {"done", "freed"}
    <2>1. NumJobs * JobSteps \in Nat
        BY StepNumbers
    <2> QED
        BY <1>1, <2>1 DEF StepsLeft
<1>2. CASE pc[w] \notin {"done", "freed"}
    <2> DEFINE rest == (NumJobs - cur[w]) * JobSteps
               all == NumJobs * JobSteps
    <2>1. cur[w] \in 1..NumJobs
        BY <1>2, CurrentJob
    <2>2. rest \in Nat /\ rest + JobSteps <= all /\ all \in Nat
        BY <2>1, StepNumbers, JobsToCome
    <2>3. StepsLeft(w) = 1 + rest + JobStepsLeft(w)
        BY <1>2 DEF StepsLeft
    <2>4. JobStepsLeft(w) \in 1..JobSteps
        BY <1>2, JobStepsLeftTyping
    <2> HIDE DEF rest, all
    <2>5. StepsLeft(w) \in 0..(all + 1)
        BY <2>2, <2>3, <2>4, StepNumbers
    <2> QED
        BY <2>5 DEF all
<1> QED
    BY <1>1, <1>2

\* The end of a job takes less than the job had left.
LEMMA ConcludeShortens ==
    ASSUME TypeOK, Bounds, NEW w \in Worker, pc[w] \notin {"done", "freed"},
           NEW v \in Verdict, Conclude(w, v)
    PROVE  StepsLeft(w)' < StepsLeft(w)
<1>1. /\ cur[w] \in 1..NumJobs /\ cur'[w] = cur[w] + 1
      /\ pc'[w] = IF cur[w] = NumJobs THEN "done" ELSE "start"
    BY CurrentJob, ConcludeTypes DEF TypeOK
<1>2. JobStepsLeft(w) \in 1..JobSteps
    BY JobStepsLeftTyping
<1> DEFINE rest == (NumJobs - cur[w]) * JobSteps
<1>3. rest \in Nat
    BY <1>1, StepNumbers, JobsToCome
<1>4. StepsLeft(w) = 1 + rest + JobStepsLeft(w)
    BY DEF StepsLeft
<1>5. CASE cur[w] = NumJobs
    <2>1. StepsLeft(w)' = 1
        BY <1>1, <1>5 DEF StepsLeft
    <2> HIDE DEF rest
    <2> QED
        BY <1>2, <1>3, <1>4, <2>1, StepNumbers
<1>6. CASE cur[w] # NumJobs
    <2> DEFINE less == (NumJobs - (cur[w] + 1)) * JobSteps
    <2>1. less + JobSteps = rest /\ less \in Nat
        <3>1. cur[w] < NumJobs /\ cur[w] + 1 \in 1..NumJobs
            BY <1>1, <1>6, StepNumbers
        <3> QED
            BY <1>1, <3>1, StepNumbers, JobsToCome
    <2>2. pc'[w] = "start"
        BY <1>1, <1>6
    <2>3. JobStepsLeft(w)' = JobSteps
        BY <2>2 DEF JobStepsLeft, JobSteps, CallsLeft
    <2>4. StepsLeft(w)' = 1 + less + JobStepsLeft(w)'
        BY <1>1, <2>2 DEF StepsLeft
    <2> HIDE DEF rest, less
    <2> QED
        BY <1>2, <1>3, <1>4, <2>1, <2>3, <2>4, StepNumbers
<1> QED
    BY <1>5, <1>6

\* A step within a job that shortens the job shortens the batch.
LEMMA MoveShortens ==
    ASSUME TypeOK, Bounds, NEW w \in Worker, pc[w] \notin {"done", "freed"},
           pc'[w] \notin {"done", "freed"}, cur'[w] = cur[w],
           NEW n \in Nat, JobStepsLeft(w)' = n, n < JobStepsLeft(w)
    PROVE  StepsLeft(w)' < StepsLeft(w)
<1> DEFINE rest == (NumJobs - cur[w]) * JobSteps
<1>1. rest \in Nat
    BY CurrentJob, StepNumbers, JobsToCome
<1>2. StepsLeft(w) = 1 + rest + JobStepsLeft(w) /\ StepsLeft(w)' = 1 + rest + JobStepsLeft(w)'
    BY DEF StepsLeft
<1>3. JobStepsLeft(w) \in Nat
    BY JobStepsLeftTyping, StepNumbers
<1> HIDE DEF rest
<1> QED
    BY <1>1, <1>2, <1>3

\* A step of the web session, to its next request or to the fallback.
LEMMA WebShortens ==
    ASSUME TypeOK, Bounds, NEW w \in Worker, pc[w] \in WebPhase, cur'[w] = cur[w],
           pc'[w] \in WebPhase \cup {"l2"}, CallsLeft[pc'[w]] < CallsLeft[pc[w]]
    PROVE  StepsLeft(w)' < StepsLeft(w)
<1>1. /\ JobStepsLeft(w) = CallsLeft[pc[w]] + L2Attempts + RescanSteps
      /\ JobStepsLeft(w)' = CallsLeft[pc'[w]] + L2Attempts + RescanSteps
    BY DEF JobStepsLeft, WebPhase
<1>2. CallsLeft[pc[w]] \in Nat /\ CallsLeft[pc'[w]] \in Nat
    BY DEF WebPhase, CallsLeft
<1>3. JobStepsLeft(w)' \in Nat /\ JobStepsLeft(w)' < JobStepsLeft(w)
    BY <1>1, <1>2, StepNumbers
<1> QED
    BY <1>3, MoveShortens DEF WebPhase

\* Every step of a worker shortens what its batch has left.
LEMMA WorkerShortens ==
    ASSUME TypeOK, Bounds, NEW w \in Worker, WorkerStep(w)
    PROVE  StepsLeft(w)' < StepsLeft(w)
<1>1. /\ rescan[w] \in 0..MaxRescans /\ attempt[w] \in 0..L2Attempts
      /\ pc[w] = "scan" => rescan[w] < MaxRescans
      /\ pc \in [Worker -> Control] /\ rescan \in [Worker -> 0..MaxRescans]
      /\ attempt \in [Worker -> 0..L2Attempts]
    BY DEF TypeOK, Bounds
<1> USE DEF Goto, scanVars, l2Vars
<1>2. CASE StartJob(w) \/ ReqLogin(w) \/ DoLogin(w) \/ QueryNetCfg(w) \/ EditNetCfg(w)
    <2>1. /\ pc[w] \in WebPhase /\ cur' = cur
          /\ pc'[w] \in WebPhase \cup {"l2"} /\ CallsLeft[pc'[w]] < CallsLeft[pc[w]]
        BY <1>1, <1>2
           DEF StartJob, ReqLogin, DoLogin, QueryNetCfg, EditNetCfg, WebFailed, WebPhase, CallsLeft
    <2> QED
        BY <2>1, WebShortens
<1>3. ASSUME BeginVerification(w), pc[w] \in {"editReply", "l2send"}, cur' = cur
      PROVE  StepsLeft(w)' < StepsLeft(w)
    <2>1. pc'[w] = "rescan" /\ rescan'[w] = 0
        BY <1>1, <1>3 DEF BeginVerification
    <2>2. JobStepsLeft(w)' = RescanSteps
        BY <2>1, StepNumbers DEF JobStepsLeft
    <2>3. RescanSteps < JobStepsLeft(w)
        BY <1>1, <1>3, StepNumbers DEF JobStepsLeft, CallsLeft
    <2> QED
        BY <1>3, <2>1, <2>2, <2>3, StepNumbers, MoveShortens
<1>4. CASE EditReply(w)
    <2>1. CASE BeginVerification(w)
        BY <1>3, <1>4, <2>1 DEF EditReply
    <2>2. CASE \E e \in WebError : WebFailed(w, e)
        <3>1. pc[w] = "editReply" /\ pc'[w] = "l2" /\ cur' = cur
            BY <1>1, <1>4, <2>2 DEF EditReply, WebFailed
        <3> QED
            BY <3>1, WebShortens DEF WebPhase, CallsLeft
    <2> QED
        BY <1>4, <2>1, <2>2 DEF EditReply, WebError
<1>5. CASE L2Open(w)
    <2>1. CASE Conclude(w, "failed")
        BY <1>5, <2>1, ConcludeShortens DEF L2Open, Verdict
    <2>2. CASE pc'[w] = "l2send" /\ attempt'[w] = 0 /\ cur' = cur
        <3>1. JobStepsLeft(w)' = 1 + L2Attempts + RescanSteps
            BY <2>2, StepNumbers DEF JobStepsLeft, CallsLeft
        <3>2. pc[w] = "l2" /\ JobStepsLeft(w) = 2 + L2Attempts + RescanSteps
            BY <1>5 DEF L2Open, JobStepsLeft, CallsLeft
        <3> QED
            BY <2>2, <3>1, <3>2, StepNumbers, MoveShortens
    <2> QED
        BY <1>1, <1>5, <2>1, <2>2 DEF L2Open
<1>6. CASE L2Send(w)
    <2>1. /\ pc[w] = "l2send" /\ pc' = pc /\ cur' = cur /\ attempt[w] < L2Attempts
          /\ attempt'[w] = attempt[w] + 1
        BY <1>1, <1>6 DEF L2Send
    <2>2. /\ JobStepsLeft(w) = 1 + (L2Attempts - attempt[w]) + RescanSteps
          /\ JobStepsLeft(w)' = 1 + (L2Attempts - (attempt[w] + 1)) + RescanSteps
        BY <2>1 DEF JobStepsLeft, CallsLeft
    <2>3. JobStepsLeft(w)' \in Nat /\ JobStepsLeft(w)' < JobStepsLeft(w)
        BY <1>1, <2>1, <2>2, StepNumbers
    <2> QED
        BY <2>1, <2>3, MoveShortens
<1>7. CASE L2Close(w)
    <2>1. CASE sent[w]
        BY <1>3, <1>7, <2>1 DEF L2Close
    <2>2. CASE ~sent[w]
        BY <1>7, <2>2, ConcludeShortens DEF L2Close, Verdict
    <2> QED
        BY <2>1, <2>2
<1>8. CASE StartRescan(w)
    <2>1. /\ pc[w] = "rescan" /\ pc'[w] = "scan" /\ cur' = cur
          /\ rescan' = rescan /\ rescan[w] < MaxRescans
        BY <1>1, <1>8 DEF StartRescan, MoreRescans
    <2>2. /\ JobStepsLeft(w) = 2 * (MaxRescans - rescan[w]) + 1
          /\ JobStepsLeft(w)' = 2 * (MaxRescans - rescan[w])
        BY <2>1 DEF JobStepsLeft
    <2>3. JobStepsLeft(w)' \in Nat /\ JobStepsLeft(w)' < JobStepsLeft(w)
        BY <1>1, <2>2, StepNumbers
    <2> QED
        BY <2>1, <2>3, MoveShortens
<1>9. ASSUME pc[w] = "scan", pc'[w] = "rescan", cur' = cur, rescan'[w] = rescan[w] + 1
      PROVE  StepsLeft(w)' < StepsLeft(w)
    <2>1. /\ JobStepsLeft(w) = 2 * (MaxRescans - rescan[w])
          /\ JobStepsLeft(w)' = 2 * (MaxRescans - (rescan[w] + 1)) + 1
        BY <1>9 DEF JobStepsLeft
    <2>2. JobStepsLeft(w)' \in Nat /\ JobStepsLeft(w)' < JobStepsLeft(w)
        BY <1>1, <1>9, <2>1, StepNumbers
    <2> QED
        BY <1>9, <2>2, MoveShortens
<1>10. CASE FinishRescan(w)
    <2>1. CASE Confirmed(w)
        BY <1>10, <2>1, ConcludeShortens DEF FinishRescan, Verdict
    <2>2. CASE ~Confirmed(w)
        BY <1>1, <1>9, <1>10, <2>2 DEF FinishRescan
    <2> QED
        BY <2>1, <2>2
<1>11. CASE FailRescan(w)
    BY <1>1, <1>9, <1>11 DEF FailRescan
<1>12. CASE GiveUp(w)
    BY <1>12, ConcludeShortens DEF GiveUp, Verdict
<1>13. CASE FreeBatch(w)
    <2>1. pc[w] = "done" /\ pc'[w] = "freed"
        BY <1>1, <1>13 DEF FreeBatch
    <2> QED
        BY <2>1 DEF StepsLeft
<1> QED
    BY <1>2, <1>4, <1>5, <1>6, <1>7, <1>8, <1>10, <1>11, <1>12, <1>13 DEF WorkerStep

\* No step of a worker, a device or the network touches the counters of another
\* worker.
LEMMA CountersFrame ==
    ASSUME TypeOK, [Next]_vars, NEW u \in Worker, ~WorkerStep(u)
    PROVE  /\ pc'[u] = pc[u] /\ cur'[u] = cur[u]
           /\ attempt'[u] = attempt[u] /\ rescan'[u] = rescan[u]
<1> USE DEF deviceVars, sessionVars, l2Vars, scanVars, resultVars, Goto
<1>1. ASSUME NEW w \in Worker, WorkerStep(w)
      PROVE  /\ pc'[u] = pc[u] /\ cur'[u] = cur[u]
             /\ attempt'[u] = attempt[u] /\ rescan'[u] = rescan[u]
    <2>1. u # w
        BY <1>1
    <2>2. CASE StartJob(w) \/ ReqLogin(w) \/ DoLogin(w) \/ QueryNetCfg(w) \/ EditNetCfg(w)
        BY <2>1, <2>2 DEF StartJob, ReqLogin, DoLogin, QueryNetCfg, EditNetCfg, WebFailed, TypeOK
    <2>3. CASE EditReply(w)
        BY <2>1, <2>3 DEF EditReply, WebFailed, BeginVerification, TypeOK
    <2>4. CASE L2Open(w) \/ L2Send(w) \/ L2Close(w)
        BY <2>1, <2>4 DEF L2Open, L2Send, L2Close, Conclude, BeginVerification, TypeOK
    <2>5. CASE StartRescan(w) \/ FinishRescan(w) \/ FailRescan(w) \/ GiveUp(w) \/ FreeBatch(w)
        BY <2>1, <2>5 DEF StartRescan, FinishRescan, FailRescan, GiveUp, FreeBatch, Conclude, TypeOK
    <2> QED
        BY <1>1, <2>2, <2>3, <2>4, <2>5 DEF WorkerStep
<1>2. CASE \E m \in air : DeviceEdits(m) \/ DeviceObeys(m) \/ LoseRequest(m)
    BY <1>2 DEF DeviceEdits, DeviceObeys, LoseRequest
<1>3. CASE \E d \in Device : RenewLease(d)
    BY <1>3 DEF RenewLease
<1>4. CASE \E w \in Worker, d \in Device, m \in Spelling : HearAnswer(w, d, m)
    BY <1>4 DEF HearAnswer
<1>5. CASE UNCHANGED vars
    BY <1>5 DEF vars
<1> QED
    BY <1>1, <1>2, <1>3, <1>4, <1>5, StepCases

\* However requests, answers and rescans turn out, and in any number, every step
\* of a worker brings the end of its batch nearer and nothing puts it off.
THEOREM BatchesRunOut == Spec => EveryStepCounts
<1> DEFINE Counts == \A w \in Worker :
                         /\ StepsLeft(w)' <= StepsLeft(w)
                         /\ WorkerStep(w) => StepsLeft(w)' < StepsLeft(w)
<1>1. ASSUME TypeOK, Bounds, TypeOK', Bounds', [Next]_vars
      PROVE  Counts
    <2> SUFFICES ASSUME NEW w \in Worker
                 PROVE  /\ StepsLeft(w)' <= StepsLeft(w)
                        /\ WorkerStep(w) => StepsLeft(w)' < StepsLeft(w)
        OBVIOUS
    <2>1. StepsLeft(w) \in Int /\ StepsLeft(w)' \in Int
        <3>1. StepsLeft(w) \in 0..(NumJobs * JobSteps + 1)
            BY <1>1, StepsLeftTyping
        <3>2. (StepsLeft(w) \in 0..(NumJobs * JobSteps + 1))'
            BY <1>1, StepsLeftTyping, PTL
        <3> QED
            BY <3>1, <3>2, StepNumbers
    <2>2. CASE WorkerStep(w)
        BY <1>1, <2>1, <2>2, WorkerShortens
    <2>3. CASE ~WorkerStep(w)
        <3>1. StepsLeft(w)' = StepsLeft(w)
            BY <1>1, <2>3, CountersFrame DEF StepsLeft, JobStepsLeft
        <3> QED
            BY <2>1, <2>3, <3>1
    <2> QED
        BY <2>2, <2>3
<1>2. TypeOK /\ Bounds /\ TypeOK' /\ Bounds' /\ [Next]_vars => [Counts]_vars
    BY <1>1
<1> QED
    BY <1>2, TypeCorrect, PTL DEF Spec, EveryStepCounts

\* A batch never has more steps left than all ways of all its jobs.
THEOREM StepsAreBounded ==
    Spec => [](\A w \in Worker : StepsLeft(w) \in 0..(NumJobs * JobSteps + 1))
<1>1. TypeOK /\ Bounds => \A w \in Worker : StepsLeft(w) \in 0..(NumJobs * JobSteps + 1)
    BY StepsLeftTyping
<1> QED
    BY <1>1, TypeCorrect, PTL
=============================================================================
