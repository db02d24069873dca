-------------------------------- MODULE Plans --------------------------------
(***************************************************************************)
(* Plans of a batch as apply_clicked lets them through: jobs, and what of  *)
(* them is looked up in the inventory (apply_clicked, has_duplicate_ip and *)
(* selected_ip_owner).  How a plan is made is BulkPlan.                    *)
(***************************************************************************)
EXTENDS Integers

CONSTANTS
    Worker,         \* batches running at the same time
    Device,         \* devices on the LAN, named by MAC address
    Ip,             \* IPv4 addresses, in the order increment_ipv4 walks them
    NumJobs,        \* jobs->len of every batch
    Spelling        \* ways a device spells its MAC in discovery answers

JobId == Worker \X (1..NumJobs)

\* "long" passwords exceed the 21 bytes a layer-2 request can carry.
Length == {"empty", "short", "long"}

\* right: the typed password is the one the target device knows.
Job == [target: Device, oldIp: Ip, newIp: Ip, dhcp: BOOLEAN,
        length: Length, right: BOOLEAN]

\* What a device says of itself in a discovery answer.
State == [ip: Ip, dhcp: BOOLEAN]

\* An entry of the inventory is a device in one of its spellings.  Those of a
\* device may show different addresses; Unlisted is one that is not there.
Entry == Device \X Spelling
Unlisted == -1
Inventory == [Entry -> Ip \cup {Unlisted}]

\* A device none of whose rows is selected has the address.
HasDuplicateIp(inventory, selected, a) ==
    \E r \in Entry : r[1] \notin selected /\ inventory[r] = a

\* Another selected row has the address.
NoOwnerCheck(plan, id) == FALSE                     \* (mutant)
SelectedIpOwner(plan, id) ==
    \E k \in (1..NumJobs) \ {id[2]} : plan[<<id[1], k>>].oldIp = plan[id].newIp

\* Every batch is all DHCP or all static: a static batch hands out
\* consecutive addresses, a DHCP batch keeps those of its rows.
Plan(inventory, row, mode, start, length, right) ==
    [id \in JobId |->
        LET w == id[1]
            i == id[2]
            now == inventory[row[id]]
        IN  [target |-> row[id][1], oldIp |-> now,
             newIp |-> IF mode[w] THEN now ELSE start[w] + (i - 1),
             dhcp |-> mode[w], length |-> length[w], right |-> right[id]]]

\* The rows of a batch are listed and each is selected once.
Selection(inventory, row) ==
    \A id \in JobId :
        /\ inventory[row[id]] # Unlisted
        /\ \A k \in (1..NumJobs) \ {id[2]} : row[<<id[1], k>>] # row[id]

Admissible(inventory, plan) ==
    \A id \in JobId :
        /\ plan[id].newIp \in Ip
        /\ LET selected == {plan[<<id[1], k>>].target : k \in 1..NumJobs} IN
           \/ plan[id].dhcp
           \/ /\ ~HasDuplicateIp(inventory, selected, plan[id].newIp)
              /\ ~SelectedIpOwner(plan, id)
==============================================================================
