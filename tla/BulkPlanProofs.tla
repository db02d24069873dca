---------------------------- MODULE BulkPlanProofs ----------------------------
(* Theorems about BulkPlan, for every size of addresses and every inventory. *)
EXTENDS PlannedBatch, TLAPS

\* There is an address, and numbers below Size are not NotAnAddress.
LEMMA Sizes == Size \in Nat /\ Size > 0
<1>1. Octet \in Nat /\ Octet > 0
    BY BulkPlanAssumption
<1>2. Octet * Octet \in Nat /\ Octet * Octet > 0
    BY <1>1
<1>3. Octet * Octet * Octet \in Nat /\ Octet * Octet * Octet > 0
    BY <1>1, <1>2
<1> QED
    BY <1>1, <1>3 DEF Size

\* A subnet has at least one address.
LEMMA SubnetSizes ==
    ASSUME NEW mask \in Address
    PROVE  SubnetSize(mask) \in Nat /\ SubnetSize(mask) > 0
BY Sizes DEF SubnetSize, Address

\* Counting up leaves a subnet only at its last address.
LEMMA NextInSubnet ==
    ASSUME NEW a \in Nat, NEW s \in Nat, s > 0, a % s # s - 1
    PROVE  (a + 1) \div s = a \div s
OBVIOUS

\* Counting never wraps around.
LEMMA IncrementedTyping ==
    ASSUME NEW start \in Address \cup {NotAnAddress}, NEW offset \in Nat,
           Incremented(start, offset) # NotAnAddress
    PROVE  /\ start \in Address
           /\ Incremented(start, offset) = start + offset
           /\ Incremented(start, offset) \in Address
BY Sizes DEF Incremented, Address

-----------------------------------------------------------------------------
(* Type correctness                                                        *)

\* The address of the next job is one that exists once it is validated.
LEMMA NewIpTyping ==
    ASSUME TypeOK, Valid
    PROVE  /\ Target \in Row
           /\ NewIp \in Address
           /\ ~form.dhcp => /\ form.start \in Address
                            /\ NewIp = form.start + Len(plan)
<1>1. Len(plan) \in Nat /\ Len(plan) + 1 \in DOMAIN selected /\ Target \in Row
    BY DEF TypeOK, Valid, Planning, Target
<1>2. NewIp # NotAnAddress
    BY DEF Valid, Complaint, Usable
<1>3. CASE form.dhcp
    <2>1. rows[Target].ip \in Place
        BY <1>1 DEF TypeOK, RowState
    <2>2. NewIp = rows[Target].ip
        BY <1>3 DEF NewIp
    <2>3. rows[Target].ip \in Address
        BY <1>2, <2>1, <2>2, BulkPlanAssumption
    <2> QED
        BY <1>1, <1>3, <2>2, <2>3
<1>4. CASE ~form.dhcp
    <2>1. form.start \in Address \cup {NotAnAddress}
        BY BulkPlanAssumption DEF TypeOK, Form
    <2>2. NewIp = Incremented(form.start, Len(plan))
        BY <1>4 DEF NewIp
    <2> QED
        BY <1>1, <1>2, <2>1, <2>2, IncrementedTyping
<1> QED
    BY <1>3, <1>4

\* A complaint is one of the verdicts.
LEMMA Complaints ==
    ASSUME NEW ip, NEW mask, NEW gateway
    PROVE  Complaint(ip, mask, gateway) \in Verdict \cup {"none"}
BY DEF Complaint, Verdict

\* A refusal keeps the types.
LEMMA RefuseTyping ==
    ASSUME TypeOK, NEW reason \in Verdict, Refuse(reason), UNCHANGED <<rows, selected, form>>
    PROVE  TypeOK'
<1>1. plan' \in Seq(Address) /\ Len(plan') = 0 /\ warned' = {}
    BY DEF Refuse
<1> QED
    BY <1>1 DEF TypeOK, Refuse

\* Every step of the planning keeps the types.
LEMMA TypeOKStep == TypeOK /\ [Next]_vars => TypeOK'
<1> SUFFICES ASSUME TypeOK, [Next]_vars
             PROVE  TypeOK'
    OBVIOUS
<1>1. CASE RefuseSettings
    <2>1. Complaint(NewIp, Settings.mask, Settings.gateway) \in Verdict
        BY <1>1, Complaints DEF RefuseSettings
    <2> QED
        BY <1>1, <2>1, RefuseTyping DEF RefuseSettings
<1>2. CASE RefuseDuplicate
    <2>1. "duplicate" \in Verdict
        BY DEF Verdict
    <2> QED
        BY <1>2, <2>1, RefuseTyping DEF RefuseDuplicate
<1>3. CASE RefuseOverlap
    <2>1. "overlap" \in Verdict
        BY DEF Verdict
    <2> QED
        BY <1>3, <2>1, RefuseTyping DEF RefuseOverlap
<1>4. CASE AddJob
    <2>1. NewIp \in Address
        BY <1>4, NewIpTyping DEF AddJob
    <2>2. /\ plan' \in Seq(Address)
          /\ Len(plan') = Len(plan) + 1
          /\ DOMAIN plan' = DOMAIN plan \cup {Len(plan) + 1}
        BY <1>4, <2>1 DEF AddJob, TypeOK
    <2>3. Len(plan') <= Len(selected)
        BY <1>4, <2>2 DEF AddJob, Valid, Planning, TypeOK
    <2>4. warned' \subseteq DOMAIN plan'
        BY <1>4, <2>2 DEF AddJob, TypeOK
    <2> QED
        BY <1>4, <2>2, <2>3, <2>4 DEF AddJob, TypeOK
<1>5. CASE Accept
    BY <1>5 DEF Accept, TypeOK, Verdict
<1>6. CASE UNCHANGED vars
    BY <1>6 DEF vars, TypeOK
<1>7. CASE RefuseNoMac
    <2>1. "noMac" \in Verdict
        BY DEF Verdict
    <2> QED
        BY <1>7, <2>1, RefuseTyping DEF RefuseNoMac
<1> QED
    BY <1>1, <1>2, <1>3, <1>4, <1>5, <1>6, <1>7 DEF Next

\* The planning starts with the types.
LEMMA InitTypeOK == Init => TypeOK
<1> SUFFICES ASSUME Init
             PROVE  TypeOK
    OBVIOUS
<1>1. selected \in Seq(Row)
    <2>1. PICK n \in 1..MaxSelected : selected \in [1..n -> Row]
        BY DEF Init
    <2> QED
        BY <2>1, BulkPlanAssumption
<1>2. plan \in Seq(Address) /\ Len(plan) = 0
    BY DEF Init
<1>3. Len(selected) \in Nat
    BY <1>1
<1> QED
    BY <1>1, <1>2, <1>3 DEF Init, TypeOK, Verdict

\* Every variable keeps its type while a plan is made: apply_clicked.
THEOREM PlanTypes == Spec => []TypeOK
BY InitTypeOK, TypeOKStep, PTL DEF Spec

-----------------------------------------------------------------------------
(* A static plan stays in one subnet                                       *)

\* The plan counts up from the first address, and no address of it is the last
\* of its subnet.
Counted ==
    ~form.dhcp => \A i \in DOMAIN plan :
        /\ form.start \in Address /\ form.mask \in Address
        /\ plan[i] = form.start + (i - 1)
        /\ HostPart(plan[i], form.mask) # SubnetSize(form.mask) - 1
        /\ Subnet(plan[i], form.mask) = Subnet(form.start, form.mask)

\* What a job added to the plan is known to be.
LEMMA AddedJob ==
    ASSUME TypeOK, AddJob
    PROVE  /\ plan' = Append(plan, NewIp)
           /\ Len(plan') = Len(plan) + 1
           /\ DOMAIN plan' = DOMAIN plan \cup {Len(plan) + 1}
           /\ \A i \in DOMAIN plan : plan'[i] = plan[i]
           /\ plan'[Len(plan) + 1] = NewIp
<1>1. NewIp \in Address /\ plan \in Seq(Address)
    BY NewIpTyping DEF AddJob, TypeOK
<1> QED
    BY <1>1 DEF AddJob

\* A validated static job continues the count within the subnet.
LEMMA NextCounted ==
    ASSUME TypeOK, Counted, Valid, ~form.dhcp
    PROVE  /\ form.start \in Address /\ form.mask \in Address
           /\ NewIp = form.start + Len(plan)
           /\ HostPart(NewIp, form.mask) # SubnetSize(form.mask) - 1
           /\ Subnet(NewIp, form.mask) = Subnet(form.start, form.mask)
<1>1. form.start \in Address /\ NewIp = form.start + Len(plan) /\ Len(plan) \in Nat
    BY NewIpTyping DEF TypeOK
<1>2. Settings = form
    BY DEF Settings
<1>3. /\ form.mask # NotAnAddress
      /\ HostPart(NewIp, form.mask) # SubnetSize(form.mask) - 1
    BY <1>2 DEF Valid, Complaint
<1>4. form.mask \in Address
    BY <1>3, BulkPlanAssumption DEF TypeOK, Form
<1>5. Subnet(NewIp, form.mask) = Subnet(form.start, form.mask)
    <2>1. CASE Len(plan) = 0
        BY <1>1, <2>1, Sizes DEF Address
    <2>2. CASE Len(plan) # 0
        <3>1. Len(plan) \in DOMAIN plan /\ plan[Len(plan)] \in Address
            BY <1>1, <2>2 DEF TypeOK
        <3>2. /\ plan[Len(plan)] + 1 = NewIp
              /\ HostPart(plan[Len(plan)], form.mask) # SubnetSize(form.mask) - 1
              /\ Subnet(plan[Len(plan)], form.mask) = Subnet(form.start, form.mask)
            BY <1>1, <3>1, Sizes DEF Counted, Address
        <3>3. plan[Len(plan)] \in Nat
            BY <3>1, Sizes DEF Address
        <3> DEFINE size == SubnetSize(form.mask)
        <3>4. size \in Nat /\ size > 0
            BY <1>4, SubnetSizes
        <3>5. plan[Len(plan)] % size # size - 1
            BY <3>2 DEF HostPart
        <3> HIDE DEF size
        <3>6. (plan[Len(plan)] + 1) \div size = plan[Len(plan)] \div size
            BY <3>3, <3>4, <3>5, NextInSubnet
        <3> QED
            BY <3>2, <3>6 DEF Subnet, size
    <2> QED
        BY <2>1, <2>2
<1> QED
    BY <1>1, <1>3, <1>4, <1>5

\* Every step keeps the count.
LEMMA CountedStep == TypeOK /\ Counted /\ [Next]_vars => Counted'
<1> SUFFICES ASSUME TypeOK, Counted, [Next]_vars
             PROVE  Counted'
    OBVIOUS
<1>1. CASE RefuseNoMac \/ RefuseSettings \/ RefuseDuplicate \/ RefuseOverlap
    <2>1. DOMAIN plan' = {}
        BY <1>1 DEF RefuseNoMac, RefuseSettings, RefuseDuplicate, RefuseOverlap, Refuse
    <2> QED
        BY <2>1 DEF Counted
<1>2. CASE AddJob
    <2>1. form' = form
        BY <1>2 DEF AddJob
    <2> SUFFICES ASSUME ~form.dhcp, NEW i \in DOMAIN plan'
                 PROVE  /\ form.start \in Address /\ form.mask \in Address
                        /\ plan'[i] = form.start + (i - 1)
                        /\ HostPart(plan'[i], form.mask) # SubnetSize(form.mask) - 1
                        /\ Subnet(plan'[i], form.mask) = Subnet(form.start, form.mask)
        BY <2>1 DEF Counted, HostPart, Subnet, SubnetSize
    <2>2. CASE i \in DOMAIN plan
        BY <1>2, <2>2, AddedJob DEF Counted
    <2>3. CASE i = Len(plan) + 1
        <3>1. plan'[i] = NewIp
            BY <1>2, <2>3, AddedJob
        <3>2. Len(plan) \in Nat
            BY DEF TypeOK
        <3>3. Valid
            BY <1>2 DEF AddJob
        <3>4. i - 1 = Len(plan)
            BY <2>3, <3>2
        <3> QED
            BY <3>1, <3>3, <3>4, NextCounted
    <2> QED
        BY <1>2, <2>2, <2>3, AddedJob
<1>3. CASE Accept \/ UNCHANGED vars
    BY <1>3 DEF Accept, vars, Counted
<1> QED
    BY <1>1, <1>2, <1>3 DEF Next

\* A plan that counts is in one subnet.
LEMMA CountedIsOneSubnet == Counted => OneSubnet
BY DEF Counted, OneSubnet

\* However long the range and whatever the mask, a static plan does not leave
\* the subnet of its first address: the loop of apply_clicked over
\* tvt_network_increment_ipv4 and tvt_network_validate.
THEOREM PlanInOneSubnet == Spec => []OneSubnet
<1>1. Init => Counted
    BY DEF Init, Counted
<1> QED
    BY <1>1, InitTypeOK, TypeOKStep, CountedStep, CountedIsOneSubnet, PTL DEF Spec

-----------------------------------------------------------------------------
(* A static plan is free                                                   *)

\* The inventory is what discovery made of it, and looking up an address of the
\* plan found neither an unselected device nor another selected row.
LookedUp ==
    ~form.dhcp =>
        \A i \in DOMAIN plan :
            /\ \A r \in Row : rows[r].ip = plan[i] => MacIsSelected(rows[r].mac)
            /\ \A r \in SelectedRows : rows[r].ip = plan[i] => r = selected[i]

\* Every step keeps what the look-ups found.
LEMMA LookedUpStep == TypeOK /\ LookedUp /\ [Next]_vars => LookedUp'
<1> SUFFICES ASSUME TypeOK, LookedUp, [Next]_vars
             PROVE  LookedUp'
    OBVIOUS
<1>1. CASE RefuseNoMac \/ RefuseSettings \/ RefuseDuplicate \/ RefuseOverlap
    <2>1. DOMAIN plan' = {} /\ rows' = rows
        BY <1>1 DEF RefuseNoMac, RefuseSettings, RefuseDuplicate, RefuseOverlap, Refuse
    <2> QED
        BY <2>1 DEF LookedUp
<1>2. CASE AddJob
    <2>1. UNCHANGED <<rows, selected, form>>
        BY <1>2 DEF AddJob
    <2>2. SelectedRows' = SelectedRows
        BY <2>1 DEF SelectedRows
    <2>3. \A mac : MacIsSelected(mac)' <=> MacIsSelected(mac)
        BY <2>1, <2>2 DEF MacIsSelected
    <2> SUFFICES ASSUME ~form.dhcp, NEW i \in DOMAIN plan'
                 PROVE  /\ \A r \in Row : rows[r].ip = plan'[i] => MacIsSelected(rows[r].mac)
                        /\ \A r \in SelectedRows : rows[r].ip = plan'[i] => r = selected[i]
        BY <2>1, <2>2, <2>3 DEF LookedUp
    <2>4. CASE i \in DOMAIN plan
        BY <1>2, <2>4, AddedJob DEF LookedUp
    <2>5. CASE i = Len(plan) + 1
        <3>1. plan'[i] = NewIp /\ Target = selected[i]
            BY <1>2, <2>5, AddedJob DEF Target
        <3>2. ~HasDuplicateIp(NewIp) /\ ~SelectedIpOwner(Target, NewIp)
            BY <1>2 DEF AddJob
        <3> QED
            BY <3>1, <3>2 DEF HasDuplicateIp, SelectedIpOwner
    <2> QED
        BY <1>2, <2>4, <2>5, AddedJob
<1>3. CASE Accept \/ UNCHANGED vars
    <2>1. UNCHANGED <<rows, selected, form, plan>>
        BY <1>3 DEF Accept, vars
    <2>2. SelectedRows' = SelectedRows
        BY <2>1 DEF SelectedRows
    <2>3. \A mac : MacIsSelected(mac)' <=> MacIsSelected(mac)
        BY <2>1, <2>2 DEF MacIsSelected
    <2> QED
        BY <2>1, <2>2, <2>3 DEF LookedUp
<1> QED
    BY <1>1, <1>2, <1>3 DEF Next

\* A plan is accepted when every selected row has a job.
Complete == verdict = "accepted" => Len(plan) = Len(selected)

\* Every step keeps accepted plans complete.
LEMMA CompleteStep == TypeOK /\ Complete /\ [Next]_vars => Complete'
<1> SUFFICES ASSUME TypeOK, Complete, [Next]_vars
             PROVE  Complete'
    OBVIOUS
<1>1. CASE Accept \/ UNCHANGED vars
    BY <1>1 DEF Accept, vars, Complete
<1>2. CASE AddJob
    BY <1>2 DEF AddJob, Valid, Planning, Complete
<1>3. CASE RefuseNoMac \/ RefuseSettings \/ RefuseDuplicate \/ RefuseOverlap
    <2>1. Complaint(NewIp, Settings.mask, Settings.gateway) # "accepted"
        BY DEF Complaint
    <2>2. verdict' # "accepted"
        BY <1>3, <2>1 DEF RefuseNoMac, RefuseSettings, RefuseDuplicate, RefuseOverlap, Refuse
    <2> QED
        BY <2>2 DEF Complete
<1> QED
    BY <1>1, <1>2, <1>3 DEF Next

\* A row of another device with the address of a planned job belongs to a device
\* that is selected, but neither this row nor one with this address is.
LEMMA LookedUpIsFree ==
    ASSUME LookedUp, ~form.dhcp, NEW i \in DOMAIN plan, NEW r \in Row,
           rows[r].ip = plan[i], rows[r].mac # rows[selected[i]].mac
    PROVE  Overlooked(r)
<1>1. PICK t \in SelectedRows : rows[t].mac = rows[r].mac
    BY DEF LookedUp, MacIsSelected
<1>2. r \notin SelectedRows
    BY DEF LookedUp
<1>3. rows[t].ip # rows[r].ip
    BY <1>1 DEF LookedUp
<1> QED
    BY <1>1, <1>2, <1>3 DEF Overlooked

\* Different places of the count are different addresses.
LEMMA CountedIsFree == TypeOK /\ Counted /\ LookedUp => PlanIsFree
<1> SUFFICES ASSUME TypeOK, Counted, LookedUp, ~form.dhcp, NEW i \in DOMAIN plan
             PROVE  /\ \A j \in DOMAIN plan : i # j => plan[i] # plan[j]
                    /\ \A r \in Row :
                           rows[r].ip = plan[i] /\ rows[r].mac # rows[selected[i]].mac
                               => Overlooked(r)
    BY DEF PlanIsFree
<1>1. ASSUME NEW j \in DOMAIN plan, i # j
      PROVE  plan[i] # plan[j]
    <2>1. i \in Int /\ j \in Int
        BY <1>1 DEF TypeOK
    <2>2. form.start \in Int
        BY Sizes DEF Counted, Address
    <2>3. plan[i] = form.start + (i - 1) /\ plan[j] = form.start + (j - 1)
        BY DEF Counted
    <2> QED
        BY <1>1, <2>1, <2>2, <2>3
<1> QED
    BY <1>1, LookedUpIsFree

\* No two devices of an accepted static plan get one address, and none gets an
\* address at which the inventory shows another device, except one that is
\* selected at some other address: has_duplicate_ip and selected_ip_owner.
THEOREM PlanFree == Spec => []PlanIsFree
<1>1. Init => Counted /\ LookedUp
    BY DEF Init, Counted, LookedUp
<1> QED
    BY <1>1, InitTypeOK, TypeOKStep, CountedStep, LookedUpStep, CountedIsFree, PTL DEF Spec

\* No device is listed at two addresses.
RowsAgree ==
    \A r, t \in Row : rows[r].mac = rows[t].mac /\ rows[r].mac # NoMac => rows[r].ip = rows[t].ip

\* Rows stay as discovery listed them.
LEMMA RowsAgreeStep == RowsAgree /\ [Next]_vars => RowsAgree'
BY DEF RowsAgree, Next, vars, RefuseNoMac, RefuseSettings, RefuseDuplicate, RefuseOverlap, AddJob,
       Accept

\* A row is selected once.
SelectedOnce == \A i, j \in DOMAIN selected : selected[i] = selected[j] => i = j

\* A planned device has a MAC address, and under DHCP keeps its address for now.
Named ==
    \A i \in DOMAIN plan :
        /\ rows[selected[i]].mac # NoMac
        /\ form.dhcp => plan[i] = rows[selected[i]].ip

\* Every step keeps both.
LEMMA NamedStep ==
    TypeOK /\ SelectedOnce /\ Named /\ [Next]_vars => SelectedOnce' /\ Named'
<1> SUFFICES ASSUME TypeOK, SelectedOnce, Named, [Next]_vars
             PROVE  SelectedOnce' /\ Named'
    OBVIOUS
<1>1. selected' = selected
    BY DEF Next, vars, RefuseNoMac, RefuseSettings, RefuseDuplicate, RefuseOverlap, AddJob, Accept
<1>2. SelectedOnce'
    BY <1>1 DEF SelectedOnce
<1>3. CASE RefuseNoMac \/ RefuseSettings \/ RefuseDuplicate \/ RefuseOverlap
    <2>1. DOMAIN plan' = {}
        BY <1>3 DEF RefuseNoMac, RefuseSettings, RefuseDuplicate, RefuseOverlap, Refuse
    <2> QED
        BY <1>2, <2>1 DEF Named
<1>4. CASE AddJob
    <2>1. UNCHANGED <<rows, selected, form>>
        BY <1>4 DEF AddJob
    <2> SUFFICES ASSUME NEW i \in DOMAIN plan'
                 PROVE  /\ rows[selected[i]].mac # NoMac
                        /\ form.dhcp => plan'[i] = rows[selected[i]].ip
        BY <1>2, <2>1 DEF Named
    <2>2. CASE i \in DOMAIN plan
        BY <1>4, <2>2, AddedJob DEF Named
    <2>3. CASE i = Len(plan) + 1
        <3>1. plan'[i] = NewIp /\ Target = selected[i]
            BY <1>4, <2>3, AddedJob DEF Target
        <3> QED
            BY <1>4, <3>1 DEF AddJob, Valid, NewIp
    <2> QED
        BY <1>4, <2>2, <2>3, AddedJob
<1>5. CASE Accept \/ UNCHANGED vars
    <2>1. UNCHANGED <<rows, selected, form, plan>>
        BY <1>5 DEF Accept, vars
    <2> QED
        BY <1>2, <2>1 DEF Named
<1> QED
    BY <1>3, <1>4, <1>5 DEF Next

\* A row is selected once at first, and nothing is planned.
LEMMA InitNamed == Init => SelectedOnce /\ Named
BY DEF Init, SelectedOnce, Named

\* An overlooked row is one of a device that is listed at two addresses.
LEMMA AgreeingIsFree ==
    RowsAgree /\ Complete /\ Named /\ TypeOK /\ PlanIsFree => NoAddressOfAnother
<1> SUFFICES ASSUME RowsAgree, Complete, Named, TypeOK, PlanIsFree,
                    verdict = "accepted", ~form.dhcp, NEW i \in DOMAIN plan, NEW r \in Row,
                    rows[r].ip = plan[i], rows[r].mac # rows[selected[i]].mac
             PROVE  FALSE
    BY DEF NoAddressOfAnother, ShownForAnother
<1>1. PICK t \in SelectedRows : rows[t].mac = rows[r].mac /\ rows[t].ip # rows[r].ip
    BY DEF PlanIsFree, Overlooked
<1>2. PICK j \in DOMAIN selected : t = selected[j]
    BY <1>1 DEF SelectedRows
<1>3. j \in DOMAIN plan /\ t \in Row
    BY <1>2 DEF Complete, TypeOK
<1> QED
    BY <1>1, <1>2, <1>3 DEF RowsAgree, Named

\* While no device is listed at two addresses, the two look-ups leave none out:
\* an accepted static plan gives a device no address shown for another one.
THEOREM AgreeingRowsAreEnough == RowsAgree /\ Spec => []NoAddressOfAnother
<1>1. Init => Complete
    BY DEF Init, Complete
<1> QED
    BY <1>1, InitTypeOK, InitNamed, TypeOKStep, CompleteStep, NamedStep, RowsAgreeStep,
       AgreeingIsFree, PlanFree, PTL DEF Spec

-----------------------------------------------------------------------------
(* A static plan is warned of as a whole                                   *)

\* The warning is about the subnet of the first address and that of the gateway.
GatewayIsElsewhere == Subnet(form.start, form.mask) # Subnet(form.gateway, form.mask)

\* All jobs planned so far carry the warning, or none does.
AllWarned == ~form.dhcp => warned = IF GatewayIsElsewhere THEN DOMAIN plan ELSE {}

\* Every step keeps the warning the same for all jobs.
LEMMA AllWarnedStep == TypeOK /\ Counted /\ AllWarned /\ [Next]_vars => AllWarned'
<1> SUFFICES ASSUME TypeOK, Counted, AllWarned, [Next]_vars
             PROVE  AllWarned'
    OBVIOUS
<1>1. CASE RefuseNoMac \/ RefuseSettings \/ RefuseDuplicate \/ RefuseOverlap
    <2>1. DOMAIN plan' = {} /\ warned' = {}
        BY <1>1 DEF RefuseNoMac, RefuseSettings, RefuseDuplicate, RefuseOverlap, Refuse
    <2> QED
        BY <2>1 DEF AllWarned
<1>2. CASE AddJob
    <2>1. form' = form /\ (GatewayIsElsewhere' <=> GatewayIsElsewhere)
        BY <1>2 DEF AddJob, GatewayIsElsewhere, Subnet, SubnetSize
    <2> SUFFICES ASSUME ~form.dhcp
                 PROVE  warned' = IF GatewayIsElsewhere THEN DOMAIN plan' ELSE {}
        BY <2>1 DEF AllWarned
    <2>2. Settings = form
        BY DEF Settings
    <2>3. OffSubnet(NewIp, form.mask, form.gateway) <=> GatewayIsElsewhere
        BY <1>2, NextCounted DEF AddJob, OffSubnet, GatewayIsElsewhere
    <2>4. warned' = IF GatewayIsElsewhere THEN warned \cup {Len(plan) + 1} ELSE warned
        BY <1>2, <2>2, <2>3 DEF AddJob
    <2>5. DOMAIN plan' = DOMAIN plan \cup {Len(plan) + 1}
        BY <1>2, AddedJob
    <2> QED
        BY <2>4, <2>5 DEF AllWarned
<1>3. CASE Accept \/ UNCHANGED vars
    <2>1. UNCHANGED <<form, plan, warned>>
        BY <1>3 DEF Accept, vars
    <2> QED
        BY <2>1 DEF AllWarned, GatewayIsElsewhere, Subnet, SubnetSize
<1> QED
    BY <1>1, <1>2, <1>3 DEF Next

\* The devices of a static plan are warned of together, although each is compared
\* with the gateway by itself: they share the subnet of the first address.
THEOREM PlanWarnedTogether == Spec => []WarnedTogether
<1>1. Init => Counted /\ AllWarned
    BY DEF Init, Counted, AllWarned
<1>2. AllWarned => WarnedTogether
    BY DEF AllWarned, WarnedTogether
<1> QED
    BY <1>1, <1>2, InitTypeOK, TypeOKStep, CountedStep, AllWarnedStep, PTL DEF Spec

-----------------------------------------------------------------------------
(* A confirmed plan is one ModifyBatch begins with                         *)

\* What is in a sequence has its type.
LEMMA ElementOf ==
    ASSUME NEW S, NEW s \in Seq(S), NEW i \in DOMAIN s
    PROVE  s[i] \in S
OBVIOUS

\* The jobs of a complete plan, and the rows they come from.
LEMMA JobsAre ==
    ASSUME TypeOK, Counted, Named, DOMAIN plan = 1..Len(selected), FoundAtAddresses,
           NEW i \in 1..Len(selected)
    PROVE  LET row == rows[selected[i]]
               j == Jobs[<<TheBatch, i>>]
           IN  /\ selected[i] \in Row /\ row.mac \in Mac
               /\ RowOf[<<TheBatch, i>>] = <<row.mac, selected[i]>>
               /\ Shown[<<row.mac, selected[i]>>] = row.ip /\ row.ip \in Address
               /\ j.target = row.mac /\ j.oldIp = row.ip /\ j.newIp = plan[i]
               /\ j.dhcp = form.dhcp
<1> DEFINE row == rows[selected[i]]
           id == <<TheBatch, i>>
<1>1. i \in DOMAIN selected /\ selected[i] \in Row /\ row \in RowState
    <2>1. selected \in Seq(Row) /\ i \in DOMAIN selected
        BY DEF TypeOK
    <2>2. selected[i] \in Row
        BY <2>1, ElementOf
    <2> QED
        BY <2>1, <2>2 DEF TypeOK
<1>2. row.mac \in Mac /\ row.ip \in Address
    BY <1>1 DEF RowState, Named, FoundAtAddresses
<1>3. Shown[<<row.mac, selected[i]>>] = row.ip
    <2>1. <<row.mac, selected[i]>> \in Batch!Entry
        BY <1>1, <1>2 DEF Batch!Entry
    <2> QED
        BY <1>2, <2>1 DEF Shown
<1>4. id \in Batch!JobId /\ id[1] = TheBatch /\ id[2] = i
    BY DEF Batch!JobId
<1>5. RowOf[id] = <<row.mac, selected[i]>>
    BY <1>4 DEF RowOf
<1>6. /\ Jobs[id].target = row.mac /\ Jobs[id].oldIp = row.ip
      /\ Jobs[id].newIp = IF form.dhcp THEN row.ip ELSE form.start + (i - 1)
      /\ Jobs[id].dhcp = form.dhcp
    BY <1>3, <1>4, <1>5 DEF Jobs, Batch!Plan
<1>7. plan[i] = IF form.dhcp THEN row.ip ELSE form.start + (i - 1)
    BY DEF Named, Counted
<1> QED
    BY <1>1, <1>2, <1>3, <1>5, <1>6, <1>7

\* What was looked up row by row is what Plans looks up device by device.
LEMMA CompleteIsAdmissible ==
    TypeOK /\ Counted /\ LookedUp /\ Complete /\ SelectedOnce /\ Named => PlanIsAdmissible
<1> SUFFICES ASSUME TypeOK, Counted, LookedUp, Complete, SelectedOnce, Named,
                    verdict = "accepted", FoundAtAddresses
             PROVE  /\ Shown \in Batch!Inventory
                    /\ Batch!Selection(Shown, RowOf)
                    /\ Batch!Admissible(Shown, Jobs)
                    /\ \A i \in DOMAIN plan : Jobs[<<TheBatch, i>>].newIp = plan[i]
    BY DEF PlanIsAdmissible
<1> DEFINE N == Len(selected)
<1>1. DOMAIN plan = 1..N /\ DOMAIN selected = 1..N
    BY DEF Complete, TypeOK
<1>2. \A i \in 1..N :
          /\ selected[i] \in Row /\ rows[selected[i]].mac \in Mac
          /\ RowOf[<<TheBatch, i>>] = <<rows[selected[i]].mac, selected[i]>>
          /\ Shown[<<rows[selected[i]].mac, selected[i]>>] = rows[selected[i]].ip
          /\ rows[selected[i]].ip \in Address
          /\ Jobs[<<TheBatch, i>>].target = rows[selected[i]].mac
          /\ Jobs[<<TheBatch, i>>].oldIp = rows[selected[i]].ip
          /\ Jobs[<<TheBatch, i>>].newIp = plan[i]
          /\ Jobs[<<TheBatch, i>>].dhcp = form.dhcp
    BY <1>1, JobsAre
<1>3. Shown \in Batch!Inventory
    BY DEF Shown, Batch!Inventory
<1>4. \A id \in Batch!JobId : id[2] \in 1..N /\ id = <<TheBatch, id[2]>> /\ id[1] = TheBatch
    BY DEF Batch!JobId
<1>5. -1 \notin Address
    BY Sizes DEF Address
<1>6. Batch!Selection(Shown, RowOf)
    <2> SUFFICES ASSUME NEW id \in Batch!JobId
                 PROVE  /\ Shown[RowOf[id]] # Batch!Unlisted
                        /\ \A k \in (1..N) \ {id[2]} : RowOf[<<id[1], k>>] # RowOf[id]
        BY DEF Batch!Selection
    <2>1. PICK i \in 1..N : id = <<TheBatch, i>> /\ id[1] = TheBatch /\ id[2] = i
        BY <1>4
    <2>2. Shown[RowOf[id]] # Batch!Unlisted
        BY <1>2, <1>5, <2>1 DEF Batch!Unlisted
    <2>3. ASSUME NEW k \in (1..N) \ {i}
          PROVE  RowOf[<<TheBatch, k>>] # RowOf[<<TheBatch, i>>]
        <3>1. selected[k] # selected[i]
            BY <1>1 DEF SelectedOnce
        <3>2. /\ RowOf[<<TheBatch, k>>] = <<rows[selected[k]].mac, selected[k]>>
              /\ RowOf[<<TheBatch, i>>] = <<rows[selected[i]].mac, selected[i]>>
            BY <1>2
        <3>3. \A a, b, c, d : b # d => <<a, b>> # <<c, d>>
            OBVIOUS
        <3> QED
            BY <3>1, <3>2, <3>3, Zenon
    <2> QED
        BY <2>1, <2>2, <2>3
<1> DEFINE targets == {Jobs[<<TheBatch, k>>].target : k \in 1..N}
<1>7. ASSUME NEW i \in 1..N, ~form.dhcp
      PROVE  ~Batch!HasDuplicateIp(Shown, targets, plan[i])
    <2> SUFFICES ASSUME NEW b \in Batch!Entry, b[1] \notin targets, Shown[b] = plan[i]
                 PROVE  FALSE
        BY DEF Batch!HasDuplicateIp
    <2>1. b[2] \in Row /\ plan[i] \in Address
        BY <1>1 DEF Batch!Entry, TypeOK
    <2>2. rows[b[2]].mac = b[1] /\ rows[b[2]].ip = plan[i]
        BY <1>5, <2>1 DEF Shown, Batch!Unlisted
    <2>3. PICK t \in SelectedRows : rows[t].mac = b[1]
        BY <1>1, <1>7, <2>1, <2>2 DEF LookedUp, MacIsSelected
    <2>4. PICK k \in 1..N : t = selected[k]
        BY <1>1, <2>3 DEF SelectedRows
    <2> QED
        BY <1>2, <2>3, <2>4
<1>8. ASSUME NEW i \in 1..N, ~form.dhcp
      PROVE  ~Batch!SelectedIpOwner(Jobs, <<TheBatch, i>>)
    <2> SUFFICES ASSUME NEW k \in 1..N, k # i,
                        Jobs[<<TheBatch, k>>].oldIp = Jobs[<<TheBatch, i>>].newIp
                 PROVE  FALSE
        BY DEF Batch!SelectedIpOwner
    <2>1. rows[selected[k]].ip = plan[i] /\ selected[k] \in SelectedRows
        BY <1>1, <1>2 DEF SelectedRows
    <2>2. selected[k] = selected[i]
        BY <1>1, <1>8, <2>1 DEF LookedUp
    <2> QED
        BY <1>1, <2>2 DEF SelectedOnce
<1>9. ASSUME NEW id \in Batch!JobId
      PROVE  /\ Jobs[id].newIp \in Address
             /\ LET chosen == {Jobs[<<id[1], k>>].target : k \in 1..N} IN
                \/ Jobs[id].dhcp
                \/ /\ ~Batch!HasDuplicateIp(Shown, chosen, Jobs[id].newIp)
                   /\ ~Batch!SelectedIpOwner(Jobs, id)
    <2>1. PICK i \in 1..N : id = <<TheBatch, i>> /\ id[1] = TheBatch
        BY <1>4
    <2>2. plan[i] \in Address
        BY <1>1 DEF TypeOK
    <2> HIDE DEF targets
    <2>3. Jobs[id].newIp \in Address
        BY <1>2, <2>1, <2>2
    <2>4. {Jobs[<<id[1], k>>].target : k \in 1..N} = targets
        BY <2>1 DEF targets
    <2>5. Jobs[id].dhcp \/ /\ ~Batch!HasDuplicateIp(Shown, targets, Jobs[id].newIp)
                           /\ ~Batch!SelectedIpOwner(Jobs, id)
        BY <1>2, <1>7, <1>8, <2>1
    <2> QED
        BY <2>3, <2>4, <2>5
<1>10. Batch!Admissible(Shown, Jobs)
    BY <1>9 DEF Batch!Admissible
<1> QED
    BY <1>1, <1>2, <1>3, <1>6, <1>10

\* Whatever is selected and typed, and also when a device is listed at two
\* addresses, a plan that is confirmed is one ModifyBatch begins with: jobs from
\* rows of an inventory, each with the address of its own row, looked up as the
\* worker's theorems assume.
THEOREM PlanBeginsBatch == Spec => []PlanIsAdmissible
<1>1. Init => Counted /\ LookedUp /\ Complete
    BY DEF Init, Counted, LookedUp, Complete
<1> QED
    BY <1>1, InitTypeOK, InitNamed, TypeOKStep, CountedStep, LookedUpStep, CompleteStep, NamedStep,
       CompleteIsAdmissible, PTL DEF Spec
===============================================================================
