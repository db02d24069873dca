---------------------------- MODULE VerifiedChange ----------------------------
(***************************************************************************)
(* What "Apply" promises, without saying how: the jobs of a batch are      *)
(* judged one after the other; a job changes its own target only, and not  *)
(* before the jobs ahead of it are judged; a job is judged "verified" only *)
(* if its target has been in the state the job looks for since the turn of *)
(* that job came; and every job is judged in the end.  A change may still  *)
(* take effect after the verdict: "unverified" and "failed" promise        *)
(* nothing about the device.                                               *)
(***************************************************************************)
EXTENDS Naturals

CONSTANTS Worker, Device, Ip, NumJobs

VARIABLES
    device,     \* address and DHCP mode of every device
    job,        \* what every job asks for
    verdict,    \* what is reported of every job
    held        \* jobs whose target has been in the requested state

vars == <<device, job, verdict, held>>

JobId == Worker \X (1..NumJobs)

Requested(j, s) == IF j.dhcp THEN s.dhcp ELSE s.ip = j.newIp

\* The jobs ahead of this one in its batch are judged.
Begun(id) == \A k \in 1..(id[2] - 1) : verdict[<<id[1], k>>] # "pending"

Open(id) == Begun(id) /\ verdict[id] = "pending"

\* Any open job may find its target as requested.
Observe ==
    \E found \in SUBSET {id \in JobId : Open(id) /\ Requested(job[id], device'[job[id].target])} :
        held' = held \cup found

Init ==
    /\ verdict = [id \in JobId |-> "pending"]
    /\ held = {}

\* A job's target becomes what the job asks for.
Change(id) ==
    /\ Begun(id)
    /\ \E s \in [ip: Ip, dhcp: BOOLEAN] :
        /\ s.dhcp = job[id].dhcp
        /\ Requested(job[id], s)
        /\ device' = [device EXCEPT ![job[id].target] = s]
    /\ Observe
    /\ UNCHANGED <<job, verdict>>

\* A device that uses DHCP is given another address.
Drift(d) ==
    /\ device[d].dhcp
    /\ \E a \in Ip : device' = [device EXCEPT ![d].ip = a]
    /\ Observe
    /\ UNCHANGED <<job, verdict>>

Watch == Observe /\ UNCHANGED <<device, job, verdict>>

Judge(id, v) ==
    /\ Open(id)
    /\ v = "verified" => id \in held
    /\ verdict' = [verdict EXCEPT ![id] = v]
    /\ UNCHANGED <<device, job, held>>

JudgeSome == \E id \in JobId, v \in {"verified", "unverified", "failed"} : Judge(id, v)

Next ==
    \/ \E id \in JobId : Change(id)
    \/ \E d \in Device : Drift(d)
    \/ Watch
    \/ JudgeSome

Spec == Init /\ [][Next]_vars /\ WF_vars(JudgeSome)
=============================================================================
