----------------------------- MODULE PlannedBatch -----------------------------
(***************************************************************************)
(* From the plan of BulkPlan to the batch of ModifyBatch: confirm_apply    *)
(* hands the jobs apply_clicked made to the worker.  ModifyBatch begins    *)
(* with any plan that Plans calls admissible for an inventory; this module *)
(* says that the plans of BulkPlan are such plans.                         *)
(***************************************************************************)
EXTENDS BulkPlan

\* One batch, a job for every row selected.  A row is a spelling of its own.
TheBatch == "batch"

Batch == INSTANCE Plans
         WITH Worker <- {TheBatch}, Device <- Mac, Ip <- Address,
              NumJobs <- Len(selected), Spelling <- Row

\* The inventory as the worker's plans know it: devices with a MAC address, at
\* addresses.
Shown ==
    [r \in Batch!Entry |->
        IF rows[r[2]].mac = r[1] /\ rows[r[2]].ip \in Address
        THEN rows[r[2]].ip ELSE Batch!Unlisted]

RowOf == [id \in Batch!JobId |-> <<rows[selected[id[2]]].mac, selected[id[2]]>>]

\* The jobs of the plan.  The first address matters to a static batch only.
Jobs ==
    Batch!Plan(Shown, RowOf,
               [w \in {TheBatch} |-> form.dhcp],
               [w \in {TheBatch} |-> form.start],
               [w \in {TheBatch} |-> "short"],
               [id \in Batch!JobId |-> TRUE])

\* What discovery found the selected devices at were addresses.
FoundAtAddresses == \A i \in DOMAIN selected : rows[selected[i]].ip \in Address

\* The batch that is confirmed is one ModifyBatch begins with: its jobs come
\* from rows that are listed, each selected once, get the addresses of the
\* plan, and pass the look-ups of Plans, which know rows by device.
PlanIsAdmissible ==
    verdict = "accepted" /\ FoundAtAddresses =>
        /\ Shown \in Batch!Inventory
        /\ Batch!Selection(Shown, RowOf)
        /\ Batch!Admissible(Shown, Jobs)
        /\ \A i \in DOMAIN plan : Jobs[<<TheBatch, i>>].newIp = plan[i]
===============================================================================
