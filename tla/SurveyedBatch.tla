---------------------------- MODULE SurveyedBatch ----------------------------
(***************************************************************************)
(* The worker of ModifyBatch on top of tvt_discover_lan: its rescans are   *)
(* scans as Survey promises them, and Discovery makes them.  What a scan   *)
(* lists was so at some moment since it began, which ModifyBatch on its    *)
(* own takes for the moment of listing: a device may answer, move, and be  *)
(* listed only then, and a scan may fail before it begins.                 *)
(***************************************************************************)
EXTENDS ModifyBatch

VARIABLES held, gathered, outcome       \* of Survey, for the rescans

scan == <<held, gathered, outcome>>
all == <<vars, scan>>

\* A device in an answer, with its MAC address as spelled.
Record == [from: Device, as: Spelling, ip: State]
Identity(m) == <<m.from, m.as>>

Scans == INSTANCE Survey
         WITH Scan <- Worker, Ip <- State, Key <- Identity,
              under <- {w \in Worker : pc[w] = "scan"}

SurveyedInit == Init /\ Scans!Init

BeginRescan(w) == StartRescan(w) /\ Scans!Begin(w)

\* tvt_discover_lan cannot open its socket.
RefuseRescan(w) ==
    /\ pc[w] = "rescan" /\ MoreRescans(w)
    /\ rescan' = [rescan EXCEPT ![w] = @ + 1]
    /\ UNCHANGED <<deviceVars, job, pc, cur, sessionVars, l2Vars, answers, resultVars>>
    /\ Scans!Refuse(w)

\* A device gets into the list the worker will look through.
ListDevice(w, m) ==
    /\ answers' = [answers EXCEPT ![w][Identity(m)] = m.ip]
    /\ UNCHANGED <<deviceVars, job, pc, cur, sessionVars, l2Vars, rescan, resultVars>>
    /\ Scans!Gather(w, m)

EndRescan(w) ==
    /\ \/ FinishRescan(w) /\ Scans!End(w) /\ outcome'[w] = "done"
       \/ FailRescan(w) /\ Scans!End(w) /\ outcome'[w] = "failed"

BetweenRescans(w) ==
    /\ WorkerStep(w)
    /\ pc[w] # "scan" /\ pc'[w] # "scan"
    /\ UNCHANGED scan

\* Devices and network; a device that moves is seen to by the scans.
World ==
    /\ \/ \E m \in air : DeviceEdits(m) \/ DeviceObeys(m) \/ LoseRequest(m)
       \/ \E d \in Device : RenewLease(d)
    /\ \/ \E d \in Device : Scans!Move(d, device'[d])
       \/ UNCHANGED <<device, scan>>

SurveyedNext ==
    \/ \E w \in Worker :
          \/ BeginRescan(w) \/ RefuseRescan(w) \/ EndRescan(w) \/ BetweenRescans(w)
          \/ \E m \in Record : ListDevice(w, m)
    \/ World
    \/ Finished /\ UNCHANGED scan

SurveyedSpec == SurveyedInit /\ [][SurveyedNext]_all

-----------------------------------------------------------------------------
(* Properties                                                              *)

\* "verified" is as fresh as the rescan that says so: the device with the job's
\* MAC was in the state the code looks for since that rescan began, not only
\* since the request.
VerdictIsFresh ==
    [][\A id \in JobId : verdict'[id] = "verified" =>
           \/ verdict[id] = "verified"
           \/ \E s \in State : /\ <<job[id].target, s>> \in held[id[1]]
                               /\ Requested(job[id], s)]_all

\* What the list shows of a target and what its scan has seen of it, it has
\* been since the job's rescans began.
ListIsOfTheScan ==
    \A w \in Worker : pc[w] = "scan" =>
        /\ \A k \in Device \X Spelling :
               answers[w][k] # Nobody => <<k[1], answers[w][k]>> \in held[w]
        /\ \A s \in State :
               <<job[Cur(w)].target, s>> \in held[w] => s \in visited[Cur(w)]
==============================================================================
