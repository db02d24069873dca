----------------------------- MODULE ModifyBatch -----------------------------
(***************************************************************************)
(* The worker thread behind "Apply": modify_batch_worker runs the jobs of  *)
(* a batch one after the other, and run_modify_job takes one device        *)
(* through the authenticated web session, the layer-2 fallback and the     *)
(* rescans that decide whether the change is reported as verified          *)
(* (application-gtk4.c, with web-provision.c and l2-provision.c below it). *)
(*                                                                         *)
(* Several workers may run at once: nothing in the code makes a second     *)
(* batch wait for the first.  A device is named by its MAC address.  The   *)
(* devices and the network between them and the program are external.      *)
(***************************************************************************)
EXTENDS Plans

CONSTANTS
    L2Attempts,     \* sendto calls of tvt_l2_send_set_ip (3 in the code)
    MaxRescans,     \* rescans of run_modify_job (40 in the code)
    StaleInventory, \* TRUE: the plan may come from an out-of-date inventory
    Leases,         \* TRUE: a DHCP device may change address on its own
    Modes,          \* settings of the DHCP tick box considered
    Lengths,        \* password lengths considered
    Nobody          \* no device, no answer

ASSUME ConstantAssumption ==
    /\ NumJobs \in Nat \ {0}
    /\ L2Attempts \in Nat \ {0}
    /\ MaxRescans \in Nat
    /\ Ip \subseteq Nat
    /\ StaleInventory \in BOOLEAN
    /\ Leases \in BOOLEAN
    /\ Modes \subseteq BOOLEAN
    /\ Lengths \subseteq {"empty", "short", "long"}
    /\ Nobody \notin Device
    /\ Nobody \notin [ip: Ip, dhcp: BOOLEAN]

WebError == {"none", "argument", "connect", "http", "auth", "protocol", "unsupported"}

Verdict == {"pending", "verified", "unverified", "failed"}

\* A change request under way to a device.
Request == [id: JobId, via: {"web", "l2"}, to: Device]

VARIABLES
    device,     \* external: address and DHCP mode of every device
    air,        \* external: requests sent and not yet handled or lost
    job,        \* the jobs of every batch, fixed when Apply was clicked
    pc,         \* where each worker is
    cur,        \* the worker's loop index in modify_batch_worker
    session,    \* the device that opened the worker's web session
    reply,      \* the device's answer to editNetCfgV2, if it came
    attempt,    \* send attempts made by tvt_l2_send_set_ip
    sent,       \* whether one of them succeeded
    rescan,     \* rescans made for the current job
    answers,    \* answers collected by the rescan under way
    secret,     \* jobs whose password is still in memory
    webError,   \* how the job's web session failed
    usedWeb,    \* jobs whose web session succeeded
    verdict,    \* what the batch result says of each job
    visited,    \* history: states of a job's target since its first rescan
    writes      \* history: which device was changed for which job

deviceVars == <<device, air, visited, writes>>
sessionVars == <<session, reply>>
l2Vars == <<attempt, sent>>
scanVars == <<rescan, answers>>
resultVars == <<secret, webError, usedWeb, verdict>>
vars == <<device, air, job, pc, cur, session, reply, attempt, sent, rescan,
          answers, secret, webError, usedWeb, verdict, visited, writes>>

Cur(w) == <<w, cur[w]>>
Goto(w, l) == pc' = [pc EXCEPT ![w] = l]
NoAnswers == [k \in Device \X Spelling |-> Nobody]

-----------------------------------------------------------------------------
(* The first state: a plan confirmed, nothing done                         *)

\* Every device is listed, all its rows with the address it has.
UpToDate(states) == [r \in Entry |-> states[r[1]].ip]

Distinct(states) == \A d, e \in Device : d # e => states[d].ip # states[e].ip

Init ==
    /\ device \in {s \in [Device -> State] : Distinct(s)}
    /\ \E inventory \in IF StaleInventory THEN Inventory ELSE {UpToDate(device)} :
       \E row \in [JobId -> Entry], mode \in [Worker -> Modes],
          start \in [Worker -> Ip], length \in [Worker -> Lengths],
          right \in [JobId -> BOOLEAN] :
            /\ Selection(inventory, row)
            /\ Admissible(inventory, Plan(inventory, row, mode, start, length, right))
            /\ job = Plan(inventory, row, mode, start, length, right)
    /\ air = {}
    /\ pc = [w \in Worker |-> "start"]
    /\ cur = [w \in Worker |-> 1]
    /\ session = [w \in Worker |-> Nobody]
    /\ reply = [w \in Worker |-> "none"]
    /\ attempt = [w \in Worker |-> 0]
    /\ sent = [w \in Worker |-> FALSE]
    /\ rescan = [w \in Worker |-> 0]
    /\ answers = [w \in Worker |-> NoAnswers]
    /\ secret = JobId
    /\ webError = [id \in JobId |-> "none"]
    /\ usedWeb = {}
    /\ verdict = [id \in JobId |-> "pending"]
    /\ visited = [id \in JobId |-> {}]
    /\ writes = {}

-----------------------------------------------------------------------------
(* The devices and the network (external).                                 *)

\* What the target becomes when a job's request is applied: a DHCP server
\* chooses the address of a device told to use DHCP.
Outcomes(id) ==
    IF job[id].dhcp THEN [ip: Ip, dhcp: {TRUE}]
                    ELSE {[ip |-> job[id].newIp, dhcp |-> FALSE]}

Become(d, s) ==
    /\ device' = [device EXCEPT ![d] = s]
    /\ visited' = [id \in JobId |->
                      IF job[id].target = d /\ visited[id] # {} /\ verdict[id] = "pending"
                      THEN visited[id] \cup {s} ELSE visited[id]]

\* The device handles an editNetCfgV2 request, maybe after the worker gave
\* up on it; the answer reaches the worker only while it still waits.
DeviceEdits(m) ==
    /\ m \in air /\ m.via = "web"
    /\ air' = air \ {m}
    /\ \E result \in {"success", "refused"} :
        /\ LET w == m.id[1] IN
           reply' = IF pc[w] = "editReply" /\ Cur(w) = m.id
                    THEN [reply EXCEPT ![w] = result] ELSE reply
        /\ IF result = "success"
           THEN /\ \E s \in Outcomes(m.id) : Become(m.to, s)
                /\ writes' = writes \cup {<<m.id, m.to, "web">>}
           ELSE UNCHANGED <<device, visited, writes>>
    /\ UNCHANGED <<job, pc, cur, session, l2Vars, scanVars, resultVars>>

\* A layer-2 request is multicast; the device with its MAC applies it when
\* the password is right.  The datagram may arrive again.
DeviceObeys(m) ==
    /\ m \in air /\ m.via = "l2" /\ job[m.id].right
    /\ \E s \in Outcomes(m.id) : Become(m.to, s)
    /\ writes' = writes \cup {<<m.id, m.to, "l2">>}
    /\ air' \in {air, air \ {m}}
    /\ UNCHANGED <<job, pc, cur, sessionVars, l2Vars, scanVars, resultVars>>

LoseRequest(m) ==
    /\ m \in air
    /\ air' = air \ {m}
    /\ UNCHANGED <<device, visited, writes, job, pc, cur, sessionVars, l2Vars,
                   scanVars, resultVars>>

RenewLease(d) ==
    /\ Leases /\ device[d].dhcp
    /\ \E a \in Ip : Become(d, [ip |-> a, dhcp |-> TRUE])
    /\ UNCHANGED <<air, writes, job, pc, cur, sessionVars, l2Vars, scanVars, resultVars>>

-----------------------------------------------------------------------------
(* tvt_web_set_network                                                     *)

\* Whoever answers at the address the inventory had for the target.
AtOldIp(w) == {d \in Device : device[d].ip = job[Cur(w)].oldIp}

\* The session's device still answers at that address.
SessionUp(w) == session[w] \in AtOldIp(w)

\* build_edit_content finds the job's MAC among the NICs the device reported.
AnyNic(d, id) == TRUE                               \* (mutant)
HasNic(d, id) == d = job[id].target

WebFailedSilently(w, e) ==                          \* (mutant)
    /\ UNCHANGED webError
    /\ session' = [session EXCEPT ![w] = Nobody]
    /\ reply' = [reply EXCEPT ![w] = "none"]
    /\ Goto(w, "l2")
WebFailed(w, e) ==
    /\ webError' = [webError EXCEPT ![Cur(w)] = e]
    /\ session' = [session EXCEPT ![w] = Nobody]
    /\ reply' = [reply EXCEPT ![w] = "none"]
    /\ Goto(w, "l2")

StartJob(w) ==
    /\ pc[w] = "start"
    /\ IF job[Cur(w)].length = "empty"
       THEN WebFailed(w, "argument")
       ELSE Goto(w, "reqLogin") /\ UNCHANGED <<sessionVars, webError>>
    /\ UNCHANGED <<deviceVars, job, cur, l2Vars, scanVars, secret, usedWeb, verdict>>

ReqLogin(w) ==
    /\ pc[w] = "reqLogin"
    /\ \/ \E d \in AtOldIp(w) :
            /\ session' = [session EXCEPT ![w] = d]
            /\ Goto(w, "doLogin")
            /\ UNCHANGED <<reply, webError>>
       \/ \E e \in {"connect", "http", "protocol"} : WebFailed(w, e)
    /\ UNCHANGED <<deviceVars, job, cur, l2Vars, scanVars, secret, usedWeb, verdict>>

\* Only the target is known to hold the password the job calls right.  Every
\* request is a connection of its own: whoever is at the address by now may
\* refuse it.
DoLogin(w) ==
    /\ pc[w] = "doLogin"
    /\ \/ /\ SessionUp(w)
          /\ session[w] = job[Cur(w)].target => job[Cur(w)].right
          /\ Goto(w, "queryNetCfgV2")
          /\ UNCHANGED <<sessionVars, webError>>
       \/ AtOldIp(w) # {} /\ WebFailed(w, "auth")
       \/ \E e \in {"connect", "http", "protocol"} : WebFailed(w, e)
    /\ UNCHANGED <<deviceVars, job, cur, l2Vars, scanVars, secret, usedWeb, verdict>>

QueryNetCfg(w) ==
    /\ pc[w] = "queryNetCfgV2"
    /\ \/ /\ SessionUp(w) /\ HasNic(session[w], Cur(w))
          /\ Goto(w, "editNetCfgV2")
          /\ UNCHANGED <<sessionVars, webError>>
       \/ \E e \in {"connect", "http", "protocol", "unsupported"} : WebFailed(w, e)
    /\ UNCHANGED <<deviceVars, job, cur, l2Vars, scanVars, secret, usedWeb, verdict>>

EditNetCfg(w) ==
    /\ pc[w] = "editNetCfgV2"
    /\ \/ /\ SessionUp(w)
          /\ air' = air \cup {[id |-> Cur(w), via |-> "web", to |-> session[w]]}
          /\ Goto(w, "editReply")
          /\ UNCHANGED <<sessionVars, webError>>
       \/ \E e \in {"connect", "http"} : WebFailed(w, e) /\ UNCHANGED air
    /\ UNCHANGED <<device, visited, writes, job, cur, l2Vars, scanVars, secret,
                   usedWeb, verdict>>

\* run_modify_job wipes the password once a request was accepted or sent.
NotWiped(w) == secret                               \* (mutant)
Wiped(w) == secret \ {Cur(w)}

BeginVerification(w) ==
    /\ secret' = Wiped(w)
    /\ rescan' = [rescan EXCEPT ![w] = 0]
    /\ visited' = [visited EXCEPT ![Cur(w)] = {device[job[Cur(w)].target]}]
    /\ Goto(w, "rescan")

\* http_post returns the answer to editNetCfgV2, or gives up on it; the
\* answer may get lost after the device acted.
EditReply(w) ==
    /\ pc[w] = "editReply"
    /\ \/ /\ reply[w] = "success"
          /\ usedWeb' = usedWeb \cup {Cur(w)}
          /\ session' = [session EXCEPT ![w] = Nobody]
          /\ reply' = [reply EXCEPT ![w] = "none"]
          /\ BeginVerification(w)
          /\ UNCHANGED webError
       \/ /\ reply[w] = "refused" /\ WebFailed(w, "protocol")
          /\ UNCHANGED <<secret, usedWeb, rescan, visited>>
       \/ WebFailed(w, "http") /\ UNCHANGED <<secret, usedWeb, rescan, visited>>
    /\ UNCHANGED <<device, air, writes, job, cur, l2Vars, answers, verdict>>

-----------------------------------------------------------------------------
(* modify_batch_worker's bookkeeping                                       *)

ConcludeUncounted(w, v) ==                          \* (mutant)
    /\ verdict' = IF v = "failed" THEN verdict ELSE [verdict EXCEPT ![Cur(w)] = v]
    /\ cur' = [cur EXCEPT ![w] = @ + 1]
    /\ Goto(w, IF cur[w] = NumJobs THEN "done" ELSE "start")
ConcludeAtFailure(w, v) ==                          \* (mutant)
    /\ verdict' = [verdict EXCEPT ![Cur(w)] = v]
    /\ cur' = [cur EXCEPT ![w] = @ + 1]
    /\ Goto(w, IF cur[w] = NumJobs \/ v = "failed" THEN "done" ELSE "start")
Conclude(w, v) ==
    /\ verdict' = [verdict EXCEPT ![Cur(w)] = v]
    /\ cur' = [cur EXCEPT ![w] = @ + 1]
    /\ Goto(w, IF cur[w] = NumJobs THEN "done" ELSE "start")

-----------------------------------------------------------------------------
(* tvt_l2_send_set_ip                                                      *)

FitsL2(length) == length # "long"

\* Building the packet refuses a long password; opening, binding or
\* configuring the socket may fail.
L2Open(w) ==
    /\ pc[w] = "l2"
    /\ \/ /\ FitsL2(job[Cur(w)].length)
          /\ attempt' = [attempt EXCEPT ![w] = 0]
          /\ sent' = [sent EXCEPT ![w] = FALSE]
          /\ Goto(w, "l2send")
          /\ UNCHANGED <<cur, verdict>>
       \/ Conclude(w, "failed") /\ UNCHANGED l2Vars
    /\ UNCHANGED <<deviceVars, job, sessionVars, scanVars, secret, webError, usedWeb>>

\* sent stays what it was: one datagram that left is enough.
LastAttemptDecides(w) == [sent EXCEPT ![w] = FALSE] \* (mutant)
AfterSendError(w) == sent

L2Send(w) ==
    /\ pc[w] = "l2send" /\ attempt[w] < L2Attempts
    /\ attempt' = [attempt EXCEPT ![w] = @ + 1]
    /\ \/ /\ sent' = [sent EXCEPT ![w] = TRUE]
          /\ air' = air \cup {[id |-> Cur(w), via |-> "l2", to |-> job[Cur(w)].target]}
       \/ sent' = AfterSendError(w) /\ UNCHANGED air
    /\ UNCHANGED <<device, visited, writes, job, pc, cur, sessionVars, scanVars, resultVars>>

L2Close(w) ==
    /\ pc[w] = "l2send" /\ attempt[w] = L2Attempts
    /\ IF sent[w]
       THEN BeginVerification(w) /\ UNCHANGED <<cur, verdict>>
       ELSE Conclude(w, "failed") /\ UNCHANGED <<secret, rescan, visited>>
    /\ UNCHANGED <<device, air, writes, job, sessionVars, l2Vars, answers, webError, usedWeb>>

-----------------------------------------------------------------------------
(* The rescans of run_modify_job                                           *)

\* tvt_discover_lan keeps the first answer given under an identity.
FirstAnswer(old, new) == IF old = Nobody THEN new ELSE old

AnyDevice(d, id) == TRUE                            \* (mutant)
Matches(d, id) == d = job[id].target

AddressOnly(j, s) == s.ip = j.newIp                 \* (mutant)
Requested(j, s) == IF j.dhcp THEN s.dhcp ELSE s.ip = j.newIp

AnsweredAtAll(w) ==                                 \* (mutant)
    \E d \in Device, m \in Spelling : Matches(d, Cur(w)) /\ answers[w][<<d, m>>] # Nobody
Confirmed(w) ==
    \E d \in Device, m \in Spelling :
        /\ Matches(d, Cur(w))
        /\ answers[w][<<d, m>>] # Nobody
        /\ Requested(job[Cur(w)], answers[w][<<d, m>>])

OneTooMany(w) == rescan[w] <= MaxRescans            \* (mutant)
MoreRescans(w) == rescan[w] < MaxRescans

StartRescan(w) ==
    /\ pc[w] = "rescan" /\ MoreRescans(w)
    /\ Goto(w, "scan")
    /\ UNCHANGED <<deviceVars, job, cur, sessionVars, l2Vars, scanVars, resultVars>>

HearAnswer(w, d, m) ==
    /\ pc[w] = "scan"
    /\ answers' = [answers EXCEPT ![w][<<d, m>>] = FirstAnswer(@, device[d])]
    /\ UNCHANGED <<deviceVars, job, pc, cur, sessionVars, l2Vars, rescan, resultVars>>

\* The devices found are looked through and released.
FinishRescan(w) ==
    /\ pc[w] = "scan"
    /\ answers' = [answers EXCEPT ![w] = NoAnswers]
    /\ IF Confirmed(w)
       THEN Conclude(w, "verified") /\ UNCHANGED rescan
       ELSE /\ rescan' = [rescan EXCEPT ![w] = @ + 1]
            /\ Goto(w, "rescan")
            /\ UNCHANGED <<cur, verdict>>
    /\ UNCHANGED <<deviceVars, job, sessionVars, l2Vars, secret, webError, usedWeb>>

\* tvt_discover_lan reports an error and no devices.
FailRescanUncounted(w) ==                           \* (mutant)
    /\ pc[w] = "scan"
    /\ answers' = [answers EXCEPT ![w] = NoAnswers]
    /\ Goto(w, "rescan")
    /\ UNCHANGED <<deviceVars, job, cur, sessionVars, l2Vars, rescan, resultVars>>
FailRescanKeeping(w) ==                             \* (mutant)
    /\ pc[w] = "scan"
    /\ rescan' = [rescan EXCEPT ![w] = @ + 1]
    /\ Goto(w, "rescan")
    /\ UNCHANGED <<deviceVars, job, cur, sessionVars, l2Vars, answers, resultVars>>
FailRescan(w) ==
    /\ pc[w] = "scan"
    /\ answers' = [answers EXCEPT ![w] = NoAnswers]
    /\ rescan' = [rescan EXCEPT ![w] = @ + 1]
    /\ Goto(w, "rescan")
    /\ UNCHANGED <<deviceVars, job, cur, sessionVars, l2Vars, resultVars>>

GiveUp(w) ==
    /\ pc[w] = "rescan" /\ ~MoreRescans(w)
    /\ Conclude(w, "unverified")
    /\ UNCHANGED <<deviceVars, job, sessionVars, l2Vars, scanVars, secret, webError, usedWeb>>

\* The task is finished and its batch freed, the passwords left wiped.
FreedUnwiped(w) == secret                           \* (mutant)
Freed(w) == {id \in secret : id[1] # w}

FreeBatch(w) ==
    /\ pc[w] = "done"
    /\ Goto(w, "freed")
    /\ secret' = Freed(w)
    /\ UNCHANGED <<deviceVars, job, cur, sessionVars, l2Vars, scanVars, webError,
                   usedWeb, verdict>>

WorkerStep(w) ==
    \/ StartJob(w) \/ ReqLogin(w) \/ DoLogin(w) \/ QueryNetCfg(w) \/ EditNetCfg(w)
    \/ EditReply(w) \/ L2Open(w) \/ L2Send(w) \/ L2Close(w)
    \/ StartRescan(w) \/ FinishRescan(w) \/ FailRescan(w) \/ GiveUp(w) \/ FreeBatch(w)

Environment ==
    \/ \E m \in air : DeviceEdits(m) \/ DeviceObeys(m) \/ LoseRequest(m)
    \/ \E d \in Device : RenewLease(d)
    \/ \E w \in Worker, d \in Device, m \in Spelling : HearAnswer(w, d, m)

\* Every batch is finished.
Finished == (\A w \in Worker : pc[w] = "freed") /\ UNCHANGED vars

Next == (\E w \in Worker : WorkerStep(w)) \/ Environment \/ Finished

\* A worker is a thread: it keeps running, its socket calls time out and a
\* rescan ends at its deadline.  Nothing is assumed of devices and network.
Fairness == \A w \in Worker : WF_vars(WorkerStep(w))

Spec == Init /\ [][Next]_vars /\ Fairness

-----------------------------------------------------------------------------
(* Properties                                                              *)

Control == {"start", "reqLogin", "doLogin", "queryNetCfgV2", "editNetCfgV2",
            "editReply", "l2", "l2send", "rescan", "scan", "done", "freed"}

\* Every variable has its type.
TypeOK ==
    /\ device \in [Device -> State]
    /\ air \subseteq Request
    /\ job \in [JobId -> Job]
    /\ pc \in [Worker -> Control]
    /\ cur \in [Worker -> 1..(NumJobs + 1)]
    /\ session \in [Worker -> Device \cup {Nobody}]
    /\ reply \in [Worker -> {"none", "success", "refused"}]
    /\ attempt \in [Worker -> 0..L2Attempts]
    /\ sent \in [Worker -> BOOLEAN]
    /\ rescan \in [Worker -> 0..MaxRescans]
    /\ answers \in [Worker -> [Device \X Spelling -> State \cup {Nobody}]]
    /\ secret \subseteq JobId
    /\ webError \in [JobId -> WebError]
    /\ usedWeb \subseteq JobId
    /\ verdict \in [JobId -> Verdict]
    /\ visited \in [JobId -> SUBSET State]
    /\ writes \subseteq JobId \X Device \X {"web", "l2"}

\* A job changes its own target and no other device, even when another
\* device answers at the address the inventory gave for the target.
OnlyTheTarget == \A x \in writes : x[2] = job[x[1]].target

\* "verified" is never reported unless the device with the job's MAC really
\* was in the state the code looks for at some moment after the job's request
\* was accepted or sent.
VerifiedWasReal ==
    \A id \in JobId : verdict[id] = "verified" =>
        \E s \in visited[id] : Requested(job[id], s)

\* The jobs of a batch run strictly one after the other: the verdicts given
\* are those of the jobs before the current one, and a job whose turn has not
\* come has sent nothing and changed nothing, so that a batch cut short
\* leaves the remaining devices alone.
OneAtATime ==
    \A w \in Worker, i \in 1..NumJobs :
        /\ (verdict[<<w, i>>] # "pending") <=> (i < cur[w])
        /\ i > cur[w] => /\ \A m \in air : m.id # <<w, i>>
                         /\ \A x \in writes : x[1] # <<w, i>>
                         /\ webError[<<w, i>>] = "none"

\* The layer-2 request is a fallback: a job sends one only after its web
\* session failed, and never after the device confirmed the web edit.
FallbackOnly ==
    \A id \in JobId :
        \/ \E m \in air : m.id = id /\ m.via = "l2"
        \/ <<id, job[id].target, "l2">> \in writes
        => webError[id] # "none" /\ id \notin usedWeb

\* No layer-2 request was ever sent for the job.
NoDatagram(id) ==
    /\ \A m \in air : m.id = id => m.via = "web"
    /\ \A x \in writes : x[1] = id => x[3] = "web"

\* A job reported failed put no layer-2 request on the network.
FailedSentNothing == \A id \in JobId : verdict[id] = "failed" => NoDatagram(id)

\* Two devices with a static address never share it, while one batch planned
\* from an up-to-date inventory runs.
NoStaticClash ==
    \A d, e \in Device :
        d # e /\ ~device[d].dhcp /\ ~device[e].dhcp => device[d].ip # device[e].ip

\* No password stays in memory while its job waits for the device to
\* reappear, nor once the batch is freed.
SecretDiscipline ==
    \A id \in secret : visited[id] = {} /\ pc[id[1]] # "freed"

\* Jobs whose target has been seen in the requested state.
Held == {id \in JobId : \E s \in visited[id] : Requested(job[id], s)}

Promise == INSTANCE VerifiedChange WITH held <- Held

\* The worker implements the abstract promise: it changes only targets, only
\* in turn, reports "verified" only for what held, and judges every job.
KeepsPromise == Promise!Spec

\* The same without liveness: every step maps to a step of the promise.
KeepsPromiseSafely == Promise!Init /\ [][Promise!Next]_(Promise!vars)

\* Whatever devices and network do, every password is wiped in the end.
SecretsAreWiped == <>(secret = {})

-----------------------------------------------------------------------------
(* Termination: how many steps of its thread a batch has left at most      *)

\* Requests of the web session and calls of layer 2 still to be made.
CallsLeft == [start |-> 8, reqLogin |-> 7, doLogin |-> 6, queryNetCfgV2 |-> 5,
              editNetCfgV2 |-> 4, editReply |-> 3, l2 |-> 2, l2send |-> 1]

\* A job that takes every way there is: web session, layer 2, all rescans.
RescanSteps == 2 * MaxRescans + 1
JobSteps == CallsLeft["start"] + L2Attempts + RescanSteps

JobStepsLeft(w) ==
    CASE pc[w] = "scan"   -> 2 * (MaxRescans - rescan[w])
      [] pc[w] = "rescan" -> 2 * (MaxRescans - rescan[w]) + 1
      [] pc[w] = "l2send" -> CallsLeft["l2send"] + (L2Attempts - attempt[w]) + RescanSteps
      [] OTHER            -> CallsLeft[pc[w]] + L2Attempts + RescanSteps

StepsLeft(w) ==
    CASE pc[w] = "freed" -> 0
      [] pc[w] = "done"  -> 1
      [] OTHER           -> 1 + (NumJobs - cur[w]) * JobSteps + JobStepsLeft(w)

\* No way through the fallbacks and retries of a job leads back: whatever
\* devices and network do, every step of a worker brings the end of its batch
\* nearer, and nothing else puts it off.
EveryStepCounts ==
    [][\A w \in Worker :
          /\ StepsLeft(w)' <= StepsLeft(w)
          /\ WorkerStep(w) => StepsLeft(w)' < StepsLeft(w)]_vars

-----------------------------------------------------------------------------
(* The inductive invariant behind the safety properties                    *)

\* A worker has a current job until its batch is done, and a rescan under
\* way is one of those it may make.
Bounds ==
    \A w \in Worker :
        /\ (pc[w] \in {"done", "freed"}) <=> (cur[w] = NumJobs + 1)
        /\ pc[w] = "scan" => rescan[w] < MaxRescans

WebPhase == {"start", "reqLogin", "doLogin", "queryNetCfgV2", "editNetCfgV2", "editReply"}

\* Requests go to targets: the web session is bound to the target before
\* the edit is sent.
Routing ==
    /\ \A m \in air : m.to = job[m.id].target
    /\ \A w \in Worker : pc[w] = "editNetCfgV2" => session[w] = job[Cur(w)].target

\* A layer-2 request is preceded by a web error and excludes web success.
Route ==
    /\ \A w \in Worker :
        /\ pc[w] \in WebPhase => /\ webError[Cur(w)] = "none"
                                 /\ Cur(w) \notin usedWeb
        /\ pc[w] \in {"l2", "l2send"} => /\ webError[Cur(w)] # "none"
                                         /\ Cur(w) \notin usedWeb
        /\ pc[w] \in WebPhase \cup {"l2"} => NoDatagram(Cur(w))
        /\ pc[w] = "l2send" /\ ~sent[w] => NoDatagram(Cur(w))
    /\ \A id \in JobId : NoDatagram(id) \/ (webError[id] # "none" /\ id \notin usedWeb)
    /\ \A w \in Worker, i \in 1..NumJobs : i > cur[w] => <<w, i>> \notin usedWeb

\* The target's present state is always among those visited, the answers of
\* the rescan under way come from visited states, and nothing is visited
\* before the job's first rescan.
Watching ==
    /\ \A w \in Worker :
        /\ pc[w] \in {"rescan", "scan"} => device[job[Cur(w)].target] \in visited[Cur(w)]
        /\ pc[w] # "scan" => answers[w] = NoAnswers
        /\ pc[w] = "scan" =>
               \A m \in Spelling :
                   answers[w][<<job[Cur(w)].target, m>>] \in visited[Cur(w)] \cup {Nobody}
    /\ \A w \in Worker, i \in 1..NumJobs :
        \/ i > cur[w]
        \/ i = cur[w] /\ pc[w] \notin {"rescan", "scan"}
        => visited[<<w, i>>] = {}

IndInv ==
    /\ TypeOK /\ Bounds /\ OneAtATime /\ Routing /\ OnlyTheTarget /\ Route
    /\ FailedSentNothing /\ Watching /\ VerifiedWasReal /\ SecretDiscipline

-----------------------------------------------------------------------------
(* What the documentation says and the code does not do                    *)

\* README: the layer-2 request is for a web API that is unreachable or
\* unsupported; run_modify_job sends it after a rejected login as well.
FallbackWhenUnavailable ==
    \A m \in air : m.via = "l2" => webError[m.id] # "auth"
=============================================================================
