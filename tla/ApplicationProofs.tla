---------------------------- MODULE ApplicationProofs ----------------------------
(* Theorems about Application, for any devices, addresses, filters, number *)
(* of batches and either frontend.                                         *)
EXTENDS Application, FiniteSetTheorems, TLAPS

-----------------------------------------------------------------------------
(* Which steps touch what                                                  *)

\* What changes discovery tasks.
LEMMA ScanCases ==
    ASSUME [Next]_vars
    PROVE  \/ UNCHANGED scanVars
           \/ StartDiscovery
           \/ \E s \in ScanId : DiscoveryWorker(s) \/ DiscoveryFailed(s) \/ DiscoveryDone(s)
           \/ Quit
BY DEF Next, Threads, Results, User, BatchJob, ModifyBatchDone, NoticeClosed, EndBatch,
       SdkChecked, RefreshClicked, AutoChanged, Select, TypePassword, FilterChanged, ApplyClicked, ConfirmApply,
       ConfirmCancel, SettingsClicked, SettingsClosed, SettingsSave, CheckSdkClicked,
       AutoRefresh, Ended, vars, scanVars

\* What changes batches.
LEMMA BatchCases ==
    ASSUME [Next]_vars
    PROVE  \/ UNCHANGED batchVars
           \/ \E b \in BatchId : ApplyClicked(b) \/ ConfirmApply(b) \/ ConfirmCancel(b)
                                   \/ BatchJob(b) \/ ModifyBatchDone(b) \/ NoticeClosed(b)
           \/ Quit
BY DEF Next, Threads, Results, User, DiscoveryWorker, DiscoveryFailed, DiscoveryDone, SdkChecked,
       RefreshClicked, AutoChanged, Select, TypePassword, FilterChanged, SettingsClicked,
       SettingsClosed, SettingsSave, CheckSdkClicked, AutoRefresh, Ended, vars, batchVars

\* What changes inventory, selection or form.
LEMMA FormCases ==
    ASSUME [Next]_vars
    PROVE  \/ UNCHANGED <<frontend, viewVars, formVars>>
           \/ Select \/ TypePassword \/ FilterChanged
           \/ \E s \in ScanId : DiscoveryDone(s)
           \/ \E b \in BatchId : ApplyClicked(b) \/ ConfirmApply(b) \/ ModifyBatchDone(b)
           \/ Quit
BY DEF Next, Threads, Results, User, DiscoveryWorker, DiscoveryFailed, BatchJob, ConfirmCancel,
       NoticeClosed, SdkChecked, RefreshClicked, AutoChanged, SettingsClicked, SettingsClosed, SettingsSave,
       CheckSdkClicked, AutoRefresh, Ended, vars, viewVars, formVars

-----------------------------------------------------------------------------
(* One discovery at a time                                                 *)

\* The flag and the tasks agree, whatever starts or ends a discovery.
LEMMA ScanStep ==
    TypeOK /\ ScanTruth /\ [Next]_vars => ScanTypes' /\ ScanTruth'
<1> SUFFICES ASSUME TypeOK, ScanTruth, [Next]_vars
             PROVE  ScanTypes' /\ ScanTruth'
    OBVIOUS
<1> USE DEF ScanTypes, ScanTruth, ScanPhase
<1>0. scanning \in BOOLEAN /\ scan \in [ScanId -> ScanPhase] /\ found \in [ScanId -> Inventory]
    BY DEF TypeOK
<1>1. CASE UNCHANGED scanVars
    BY <1>0, <1>1 DEF scanVars
<1>2. CASE StartDiscovery
    <2>1. CASE scanning
        BY <1>0, <1>2, <2>1 DEF StartDiscovery, NotScanning, scanVars
    <2>2. CASE ~scanning
        <3>1. PICK s \in ScanId : scan' = [scan EXCEPT ![s] = "running"]
            BY <1>2, <2>2 DEF StartDiscovery, NotScanning
        <3>2. scanning' = TRUE /\ UNCHANGED found
            BY <1>2, <2>2 DEF StartDiscovery, NotScanning
        <3>3. scan'[s] = "running" /\ \A t \in ScanId \ {s} : scan'[t] = "idle"
            BY <1>0, <2>2, <3>1
        <3>4. scan' \in [ScanId -> ScanPhase]
            BY <1>0, <3>1
        <3>5. \A t \in ScanId : scan'[t] # "idle" => t = s
            BY <3>3
        <3> QED
            BY <1>0, <3>2, <3>3, <3>4, <3>5
    <2> QED
        BY <2>1, <2>2
<1>3. ASSUME NEW s \in ScanId, DiscoveryWorker(s)
      PROVE  ScanTypes' /\ ScanTruth'
    <2>1. PICK result \in {"found", "failed"} : scan' = [scan EXCEPT ![s] = result]
        BY <1>3 DEF DiscoveryWorker
    <2>2. scanning' = scanning /\ scan[s] = "running"
        BY <1>3 DEF DiscoveryWorker
    <2>3. found' \in [ScanId -> Inventory]
        <3>1. CASE UNCHANGED found
            BY <1>0, <3>1
        <3>2. CASE ~UNCHANGED found
            <4>1. PICK heard \in SUBSET Device :
                      found' = [found EXCEPT ![s] =
                                   [d \in Device |-> IF d \in heard THEN lan[d] ELSE Absent]]
                BY <1>3, <3>2 DEF DiscoveryWorker
            <4>2. [d \in Device |-> IF d \in heard THEN lan[d] ELSE Absent] \in Inventory
                BY DEF Inventory, TypeOK, ViewTypes
            <4> QED
                BY <1>0, <4>1, <4>2
        <3> QED
            BY <3>1, <3>2
    <2>4. scan' \in [ScanId -> ScanPhase] /\ scan'[s] # "idle"
          /\ \A t \in ScanId \ {s} : scan'[t] = scan[t]
        BY <1>0, <2>1
    <2> QED
        BY <1>0, <2>2, <2>3, <2>4
<1>4. ASSUME NEW s \in ScanId, DiscoveryFailed(s) \/ DiscoveryDone(s)
      PROVE  ScanTypes' /\ ScanTruth'
    <2>1. /\ scan' = [scan EXCEPT ![s] = "idle"] /\ scanning' = FALSE /\ scan[s] # "idle"
          /\ found' = found \/ found' = [found EXCEPT ![s] = NoneFound]
        BY <1>4 DEF DiscoveryFailed, DiscoveryDone, NoLongerScanning
    <2>2. NoneFound \in Inventory
        BY DEF NoneFound, Inventory
    <2>3. found' \in [ScanId -> Inventory] /\ scan' \in [ScanId -> ScanPhase]
        BY <1>0, <2>1, <2>2
    <2>4. \A t \in ScanId : scan'[t] = "idle"
        BY <1>0, <2>1
    <2> QED
        BY <2>1, <2>3, <2>4
<1>5. CASE Quit
    BY <1>5 DEF Quit, NoneFound, Inventory
<1> QED
    BY <1>1, <1>2, <1>3, <1>4, <1>5, ScanCases

\* What the flag says, said in numbers.
LEMMA TruthCounted == ScanTypes /\ ScanTruth => OneScan
<1> SUFFICES ASSUME ScanTypes, ScanTruth
             PROVE  OneScan
    OBVIOUS
<1> DEFINE active == {s \in ScanId : scan[s] # "idle"}
<1>1. CASE scanning
    <2>1. PICK s \in ScanId : scan[s] # "idle"
        BY <1>1 DEF ScanTruth
    <2>2. active = {s}
        BY <2>1 DEF ScanTruth
    <2> HIDE DEF active
    <2>3. Cardinality(active) = 1
        BY <2>2, FS_Singleton
    <2> QED
        BY <1>1, <2>3 DEF OneScan, active
<1>2. CASE ~scanning
    <2>1. active = {}
        BY <1>2 DEF ScanTruth
    <2> HIDE DEF active
    <2>2. Cardinality(active) = 0
        BY <2>1, FS_EmptySet
    <2> QED
        BY <1>2, <2>2 DEF OneScan, active
<1> QED
    BY <1>1, <1>2

-----------------------------------------------------------------------------
(* Batches                                                                 *)

\* A plan that is accepted is a sequence of jobs, one for every device chosen.
LEMMA PlanTyping ==
    ASSUME TypeOK, selected # {}, NEW order \in Orders(selected), NEW start \in Ip,
           NEW mode \in BOOLEAN, Accepted(Plan(order, start, mode), mode)
    PROVE  /\ Plan(order, start, mode) \in Seq(Job)
           /\ 1 \in DOMAIN Plan(order, start, mode)
           /\ \A i \in DOMAIN Plan(order, start, mode) :
                  Plan(order, start, mode)[i].target \in selected
<1> DEFINE n == Cardinality(selected)
           plan == Plan(order, start, mode)
<1>1. IsFiniteSet(selected) /\ selected \subseteq Device
    BY ApplicationAssumption, FS_Subset DEF TypeOK, ViewTypes, Visible
<1>2. n \in Nat /\ n # 0
    BY <1>1, FS_CardinalityType, FS_EmptySet
<1> HIDE DEF n
<1>3. order \in [1..n -> selected]
    BY DEF Orders, n
<1>4. DOMAIN plan = 1..n
    BY <1>3 DEF Plan
<1>5. ASSUME NEW i \in 1..n
      PROVE  plan[i] \in Job /\ plan[i].target \in selected
    <2>1. order[i] \in selected /\ store[order[i]] \in Ip
        BY <1>3, <1>5 DEF TypeOK, ViewTypes, Visible, Inventory
    <2>2. plan[i].newIp \in Ip
        BY <1>4, <1>5 DEF Accepted
    <2>3. plan[i] = [target |-> order[i], oldIp |-> store[order[i]], newIp |-> plan[i].newIp]
        BY <1>3, <1>5 DEF Plan
    <2> HIDE DEF plan
    <2>4. plan[i].target = order[i]
        BY <2>3
    <2> QED
        BY <1>1, <2>1, <2>2, <2>3, <2>4 DEF Job
<1>6. plan = [i \in 1..n |-> plan[i]]
    BY <1>3 DEF Plan
<1> HIDE DEF plan
<1>7. plan \in Seq(Job) /\ 1 \in DOMAIN plan /\ \A i \in DOMAIN plan : plan[i].target \in selected
    BY <1>2, <1>4, <1>5, <1>6
<1> QED
    BY <1>7 DEF plan

\* What planning a batch makes of it.
LEMMA Planned ==
    ASSUME TypeOK, NEW b \in BatchId, ApplyClicked(b)
    PROVE  \E plan \in Seq(Job), mode \in BOOLEAN :
               /\ jobs' = [jobs EXCEPT ![b] = plan]
               /\ dhcp' = [dhcp EXCEPT ![b] = mode]
               /\ 1 \in DOMAIN plan
               /\ \A i \in DOMAIN plan : plan[i].target \in selected
<1>1. PICK order \in Orders(selected), start \in Ip, mode \in BOOLEAN :
          /\ Accepted(Plan(order, start, mode), mode)
          /\ jobs' = [jobs EXCEPT ![b] = Plan(order, start, mode)]
          /\ dhcp' = [dhcp EXCEPT ![b] = mode]
    BY DEF ApplyClicked
<1>2. selected # {}
    BY DEF ApplyClicked
<1> QED
    BY <1>1, <1>2, PlanTyping

\* Freeing a batch keeps the types and leaves it without jobs.
LEMMA FreeTyping ==
    ASSUME TypeOK, NEW b \in BatchId, Free(b)
    PROVE  /\ jobs' \in [BatchId -> Seq(Job)] /\ next' \in [BatchId -> Nat]
           /\ dhcp' \in [BatchId -> BOOLEAN] /\ scope' \in [BatchId -> SUBSET Device]
           /\ DOMAIN jobs'[b] = {}
           /\ \A c \in BatchId \ {b} :
                  jobs'[c] = jobs[c] /\ next'[c] = next[c] /\ scope'[c] = scope[c]
<1>1. <<>> \in Seq(Job) /\ DOMAIN <<>> = {}
    OBVIOUS
<1> QED
    BY <1>1 DEF Free, TypeOK, BatchTypes

\* The parts of the invariant that are about batches.
BatchInv == BatchTypes /\ AtSomeJob /\ FreedOnce /\ PasswordScope

\* A batch that is planned sends its password to what it was typed for.
LEMMA ApplyBatchInv ==
    ASSUME TypeOK, TypedForSelection, BatchInv, NEW b \in BatchId, ApplyClicked(b)
    PROVE  BatchInv'
<1>1. PICK plan \in Seq(Job), mode \in BOOLEAN :
          /\ jobs' = [jobs EXCEPT ![b] = plan]
          /\ dhcp' = [dhcp EXCEPT ![b] = mode]
          /\ 1 \in DOMAIN plan
          /\ \A i \in DOMAIN plan : plan[i].target \in selected
    BY Planned
<1> DEFINE into == IF password THEN typedFor ELSE Device
<1>2. /\ phase[b] = "unused" /\ phase' = [phase EXCEPT ![b] = "asked"]
      /\ scope' = [scope EXCEPT ![b] = into]
      /\ UNCHANGED <<next, frees>>
    BY DEF ApplyClicked
<1>3. into \subseteq Device /\ selected \subseteq into
    BY DEF TypedForSelection, TypeOK, FormTypes, ViewTypes, Visible
<1> HIDE DEF into
<1>4. BatchTypes'
    BY <1>1, <1>2, <1>3 DEF BatchInv, BatchTypes, BatchPhase
<1>5. /\ jobs'[b] = plan /\ scope'[b] = into /\ phase'[b] = "asked"
      /\ \A c \in BatchId \ {b} :
             jobs'[c] = jobs[c] /\ scope'[c] = scope[c] /\ phase'[c] = phase[c]
    BY <1>1, <1>2 DEF BatchInv, BatchTypes
<1>6. AtSomeJob' /\ FreedOnce'
    BY <1>1, <1>2, <1>5 DEF BatchInv, AtSomeJob, FreedOnce
<1>7. PasswordScope'
    BY <1>1, <1>3, <1>5 DEF BatchInv, PasswordScope, Targets
<1> QED
    BY <1>4, <1>6, <1>7 DEF BatchInv

\* Batches are freed once, and are at one of their jobs while they run.
LEMMA BatchStep ==
    TypeOK /\ TypedForSelection /\ BatchInv /\ [Next]_vars => BatchInv'
<1> SUFFICES ASSUME TypeOK, TypedForSelection, BatchInv, [Next]_vars
             PROVE  BatchInv'
    OBVIOUS
<1>1. CASE UNCHANGED batchVars
    BY <1>1 DEF batchVars, BatchInv, BatchTypes, AtSomeJob, FreedOnce, PasswordScope, Targets
<1>2. ASSUME NEW b \in BatchId, ApplyClicked(b)
      PROVE  BatchInv'
    BY <1>2, ApplyBatchInv
<1>3. ASSUME NEW b \in BatchId, ConfirmApply(b)
      PROVE  BatchInv'
    <2>1. /\ phase[b] = "asked" /\ phase' = [phase EXCEPT ![b] = "running"]
          /\ frees' = [frees EXCEPT ![b] = frees[b] + 0]
          /\ UNCHANGED <<jobs, next, dhcp, scope>>
        BY <1>3 DEF ConfirmApply, DialogFrees, planVars
    <2>2. BatchTypes' /\ AtSomeJob' /\ FreedOnce'
        BY <2>1 DEF BatchInv, BatchTypes, BatchPhase, AtSomeJob, FreedOnce
    <2>3. PasswordScope'
        BY <2>1 DEF BatchInv, PasswordScope, Targets
    <2> QED
        BY <2>2, <2>3 DEF BatchInv
<1>4. ASSUME NEW b \in BatchId, phase[b] \in {"asked", "returned", "reported"}, Free(b),
             phase' = [phase EXCEPT ![b] = "over"], frees' = [frees EXCEPT ![b] = frees[b] + 1]
      PROVE  BatchInv'
    <2>1. /\ phase[b] \in {"asked", "returned", "reported"}
          /\ phase' = [phase EXCEPT ![b] = "over"]
          /\ frees' = [frees EXCEPT ![b] = frees[b] + 1]
          /\ Free(b)
        BY <1>4
    <2>2. BatchTypes' /\ FreedOnce'
        BY <2>1, FreeTyping DEF BatchInv, BatchTypes, BatchPhase, FreedOnce
    <2>3. AtSomeJob'
        BY <2>1, FreeTyping DEF BatchInv, BatchTypes, AtSomeJob
    <2>4. PasswordScope'
        BY <2>1, FreeTyping DEF BatchInv, PasswordScope, Targets
    <2> QED
        BY <2>2, <2>3, <2>4 DEF BatchInv
<1>5. ASSUME NEW b \in BatchId, BatchJob(b)
      PROVE  BatchInv'
    <2>1. /\ phase[b] = "running" /\ next' = [next EXCEPT ![b] = next[b] + 1]
          /\ phase' = [phase EXCEPT ![b] = IF next[b] + 1 \in DOMAIN jobs[b]
                                           THEN phase[b] ELSE "returned"]
          /\ UNCHANGED <<jobs, dhcp, scope, frees>>
        BY <1>5 DEF BatchJob
    <2>2. BatchTypes' /\ AtSomeJob' /\ FreedOnce'
        BY <2>1 DEF BatchInv, BatchTypes, BatchPhase, AtSomeJob, FreedOnce
    <2>3. PasswordScope'
        BY <2>1 DEF BatchInv, PasswordScope, Targets
    <2> QED
        BY <2>2, <2>3 DEF BatchInv
<1>6. CASE Quit
    <2>1. <<>> \in Seq(Job) /\ DOMAIN <<>> = {}
        OBVIOUS
    <2>2. /\ phase' = [b \in BatchId |-> "unused"] /\ jobs' = [b \in BatchId |-> <<>>]
          /\ next' = [b \in BatchId |-> 1] /\ dhcp' = [b \in BatchId |-> FALSE]
          /\ scope' = [b \in BatchId |-> {}] /\ frees' = [b \in BatchId |-> 0]
        BY <1>6 DEF Quit
    <2> QED
        BY <2>1, <2>2
        DEF BatchInv, BatchTypes, BatchPhase, AtSomeJob, FreedOnce, PasswordScope, Targets
<1>7. ASSUME NEW b \in BatchId, ConfirmCancel(b) \/ NoticeClosed(b)
      PROVE  BatchInv'
    <2>1. /\ phase[b] \in {"asked", "reported"} /\ phase' = [phase EXCEPT ![b] = "over"]
          /\ frees' = [frees EXCEPT ![b] = frees[b] + 1]
          /\ Free(b)
        BY <1>7 DEF ConfirmCancel, NoticeClosed, EndBatch, DialogFrees
    <2> QED
        BY <1>4, <2>1
<1>8. ASSUME NEW b \in BatchId, ModifyBatchDone(b)
      PROVE  BatchInv'
    <2>1. CASE EndBatch(b)
        BY <1>4, <1>8, <2>1 DEF ModifyBatchDone, EndBatch
    <2>2. CASE ~EndBatch(b)
        <3>1. /\ phase[b] = "returned" /\ phase' = [phase EXCEPT ![b] = "reported"]
              /\ UNCHANGED <<jobs, next, dhcp, scope, frees>>
            BY <1>8, <2>2 DEF ModifyBatchDone, planVars
        <3>2. BatchTypes' /\ AtSomeJob' /\ FreedOnce'
            BY <3>1 DEF BatchInv, BatchTypes, BatchPhase, AtSomeJob, FreedOnce
        <3>3. PasswordScope'
            BY <3>1 DEF BatchInv, PasswordScope, Targets
        <3> QED
            BY <3>2, <3>3 DEF BatchInv
    <2> QED
        BY <2>1, <2>2
<1> QED
    BY <1>1, <1>2, <1>3, <1>5, <1>6, <1>7, <1>8, BatchCases

-----------------------------------------------------------------------------
(* Inventory, selection and form                                           *)

\* A refresh selects only what is shown.
LEMMA ReselectedShown ==
    ASSUME NEW shown, NEW again \in Reselected(shown)
    PROVE  /\ again \subseteq shown
           /\ again \cap WithMac \subseteq selected
BY DEF Reselected

\* The inventory shows what was found, and the selection is part of it.
LEMMA ViewStep == TypeOK /\ AtSomeJob /\ [Next]_vars => ViewTypes'
<1> SUFFICES ASSUME TypeOK, AtSomeJob, [Next]_vars
             PROVE  ViewTypes'
    OBVIOUS
<1>1. lan' \in [Device -> Ip]
    <2>1. CASE \E b \in BatchId : BatchJob(b)
        <3>1. PICK b \in BatchId : BatchJob(b)
            BY <2>1
        <3> DEFINE job == jobs[b][next[b]]
        <3>2. job \in Job
            BY <3>1 DEF BatchJob, AtSomeJob, TypeOK, BatchTypes
        <3>3. UNCHANGED lan \/ \E a \in Ip : lan' = [lan EXCEPT ![job.target] = a]
            BY <3>1, <3>2 DEF BatchJob, Job
        <3> HIDE DEF job
        <3> QED
            BY <3>2, <3>3 DEF TypeOK, ViewTypes, Job
    <2>2. CASE ~\E b \in BatchId : BatchJob(b)
        <3>1. UNCHANGED lan
            BY <2>2 DEF Next, Threads, Results, User, DiscoveryWorker, DiscoveryFailed,
                DiscoveryDone, SdkChecked, ModifyBatchDone, NoticeClosed, RefreshClicked,
                AutoChanged, Select, TypePassword, FilterChanged, ApplyClicked, ConfirmApply, ConfirmCancel,
                SettingsClicked, SettingsClosed, SettingsSave, CheckSdkClicked, AutoRefresh,
                Quit, Ended, vars
        <3> QED
            BY <3>1 DEF TypeOK, ViewTypes
    <2> QED
        BY <2>1, <2>2
<1>2. /\ frontend' \in Frontend /\ store' \in Inventory /\ hidden' \subseteq Hideable
      /\ selected' \subseteq Visible(store', hidden')
    <2>1. CASE UNCHANGED <<frontend, viewVars>>
        BY <2>1 DEF viewVars, TypeOK, ViewTypes, Visible
    <2>2. CASE Select
        BY <2>2 DEF Select, TypeOK, ViewTypes
    <2>3. CASE FilterChanged
        BY <2>3 DEF FilterChanged, TypeOK, ViewTypes, Visible
    <2>4. ASSUME NEW s \in ScanId, DiscoveryDone(s)
          PROVE  /\ frontend' \in Frontend /\ store' \in Inventory /\ hidden' \subseteq Hideable
                 /\ selected' \subseteq Visible(store', hidden')
        <3>1. /\ store' = found[s] /\ hidden' = hidden /\ frontend' = frontend
              /\ selected' \in Reselected(Visible(found[s], hidden))
            BY <2>4 DEF DiscoveryDone
        <3>2. selected' \subseteq Visible(found[s], hidden)
            BY <3>1, ReselectedShown
        <3> QED
            BY <3>1, <3>2 DEF TypeOK, ViewTypes, ScanTypes
    <2>5. CASE Quit
        BY <2>5 DEF Quit, NoneFound, Inventory, TypeOK, ViewTypes
    <2> QED
        BY <2>1, <2>2, <2>3, <2>4, <2>5, FormCases
        DEF TypePassword, ApplyClicked, ConfirmApply, ModifyBatchDone, viewVars
<1> QED
    BY <1>1, <1>2 DEF ViewTypes

\* What the password field and the button are made of.
LEMMA FormParts ==
    ASSUME TypeOK, NEW chosen,
           SelectionChanged(chosen) \/ RowsLeft(chosen)
    PROVE  /\ password' \in BOOLEAN /\ typedFor' \subseteq Device /\ apply' \in BOOLEAN
           /\ password' => password /\ typedFor' = typedFor
<1>1. password \in BOOLEAN /\ typedFor \subseteq Device /\ apply \in BOOLEAN
    BY DEF TypeOK, FormTypes
<1>2. Selectable(chosen) \in BOOLEAN
    BY DEF Selectable
<1>3. CASE SelectionChanged(chosen)
    BY <1>1, <1>2, <1>3 DEF SelectionChanged, PasswordAfter
<1>4. CASE RowsLeft(chosen)
    BY <1>1, <1>2, <1>4 DEF RowsLeft, formVars
<1> QED
    BY <1>3, <1>4

\* The form keeps its types, and a password is in it only with a selection it
\* was typed for.
LEMMA FormStep ==
    TypeOK /\ TypedForSelection /\ [Next]_vars => FormTypes' /\ TypedForSelection'
<1> SUFFICES ASSUME TypeOK, TypedForSelection, [Next]_vars
             PROVE  FormTypes' /\ TypedForSelection'
    OBVIOUS
<1>1. /\ dialog' \in {"none", "confirm", "settings"} /\ sdk' \in {"none", "main"}
      /\ auto' \in BOOLEAN /\ open' \in BOOLEAN
    BY DEF TypeOK, FormTypes, Next, Threads, Results, User, DiscoveryWorker, DiscoveryFailed,
           DiscoveryDone, BatchJob, SdkChecked, ModifyBatchDone, NoticeClosed, RefreshClicked,
           AutoChanged, Select, TypePassword, FilterChanged, ApplyClicked, ConfirmApply, ConfirmCancel,
           SettingsClicked, SettingsClosed, SettingsSave, CheckSdkClicked, AutoRefresh, Quit,
           Ended, vars, modalVars
<1>2. notices' \in Seq(BatchId)
    <2>0. notices \in Seq(BatchId)
        BY DEF TypeOK, FormTypes
    <2>1. ASSUME NEW b \in BatchId, ModifyBatchDone(b)
          PROVE  notices' \in Seq(BatchId)
        BY <2>0, <2>1 DEF ModifyBatchDone
    <2>2. ASSUME NEW b \in BatchId, NoticeClosed(b)
          PROVE  notices' \in Seq(BatchId)
        BY <2>0, <2>2 DEF NoticeClosed
    <2>3. CASE Quit
        BY <2>3 DEF Quit
    <2>4. CASE UNCHANGED notices
        BY <2>0, <2>4
    <2> QED
        BY <2>1, <2>2, <2>3, <2>4
        DEF Next, Threads, Results, User, DiscoveryWorker, DiscoveryFailed, DiscoveryDone,
            BatchJob, SdkChecked, RefreshClicked, AutoChanged, Select, TypePassword,
            FilterChanged, ApplyClicked, ConfirmApply, ConfirmCancel, SettingsClicked,
            SettingsClosed, SettingsSave, CheckSdkClicked, AutoRefresh, Ended, vars, modalVars
<1>3. /\ password' \in BOOLEAN /\ typedFor' \subseteq Device /\ apply' \in BOOLEAN
      /\ TypedForSelection'
    <2> USE DEF TypedForSelection
    <2>0. password \in BOOLEAN /\ typedFor \subseteq Device /\ apply \in BOOLEAN
        BY DEF TypeOK, FormTypes
    <2>1. CASE UNCHANGED <<frontend, viewVars, formVars>>
        BY <2>0, <2>1 DEF viewVars, formVars
    <2>2. CASE Select
        <3>1. PICK chosen \in SUBSET Visible(store, hidden) :
                  selected' = chosen /\ SelectionChanged(chosen)
            BY <2>2 DEF Select
        <3>2. password' => selected' = {}
            BY <3>1 DEF SelectionChanged, PasswordAfter
        <3> QED
            BY <3>1, <3>2, FormParts
    <2>3. CASE TypePassword
        BY <2>0, <2>3 DEF TypePassword, viewVars, TypeOK, ViewTypes, Visible
    <2>4. CASE FilterChanged
        <3>1. selected' \subseteq selected /\ RowsLeft(selected')
            BY <2>4 DEF FilterChanged
        <3> QED
            BY <3>1, FormParts
    <2>5. ASSUME NEW s \in ScanId, DiscoveryDone(s)
          PROVE  /\ password' \in BOOLEAN /\ typedFor' \subseteq Device /\ apply' \in BOOLEAN
                 /\ TypedForSelection'
        <3>1. CASE selected' = {}
            <4>1. RowsLeft({})
                BY <2>5, <3>1 DEF DiscoveryDone
            <4> QED
                BY <3>1, <4>1, FormParts
        <3>2. CASE selected' # {}
            <4>1. SelectionChanged(selected')
                BY <2>5, <3>2 DEF DiscoveryDone
            <4>2. ~password'
                BY <3>2, <4>1 DEF SelectionChanged, PasswordAfter
            <4> QED
                BY <4>1, <4>2, FormParts
        <3> QED
            BY <3>1, <3>2
    <2>6. ASSUME NEW b \in BatchId, ApplyClicked(b)
          PROVE  /\ password' \in BOOLEAN /\ typedFor' \subseteq Device /\ apply' \in BOOLEAN
                 /\ TypedForSelection'
        BY <2>0, <2>6 DEF ApplyClicked
    <2>7. ASSUME NEW b \in BatchId, ConfirmApply(b) \/ ModifyBatchDone(b)
          PROVE  /\ password' \in BOOLEAN /\ typedFor' \subseteq Device /\ apply' \in BOOLEAN
                 /\ TypedForSelection'
        <3>1. /\ UNCHANGED <<selected, password, typedFor>>
              /\ apply' = FALSE \/ apply' = ButtonRestored
            BY <2>7 DEF ConfirmApply, ModifyBatchDone, viewVars
        <3>2. apply' \in BOOLEAN
            BY <3>1 DEF ButtonRestored
        <3> QED
            BY <2>0, <3>1, <3>2
    <2>8. CASE Quit
        BY <2>8 DEF Quit
    <2> QED
        BY <2>1, <2>2, <2>3, <2>4, <2>5, <2>6, <2>7, <2>8, FormCases
<1> QED
    BY <1>1, <1>2, <1>3 DEF FormTypes

-----------------------------------------------------------------------------
(* The Apply button                                                        *)

\* What is left of a selection that is of no use is of no use.
LEMMA StillUseless ==
    ASSUME NEW chosen, NEW left \in SUBSET chosen, IsFiniteSet(chosen), ~Selectable(chosen)
    PROVE  ~Selectable(left)
<1>1. CASE Cardinality(chosen) = 1
    <2>1. PICK d : chosen = {d}
        BY <1>1, FS_Singleton
    <2>2. left = {} \/ left = chosen
        BY <2>1
    <2>3. Cardinality({}) = 0
        BY FS_EmptySet
    <2> QED
        BY <2>2, <2>3 DEF Selectable
<1>2. CASE Cardinality(chosen) # 1
    <2>1. left = chosen
        BY <1>2 DEF Selectable
    <2> QED
        BY <2>1
<1> QED
    BY <1>1, <1>2

\* The button is given back by whatever ends the reason it was taken for.
LEMMA ButtonStep ==
    TypeOK /\ NeverLockedOut /\ [Next]_vars => NeverLockedOut'
<1> SUFFICES ASSUME TypeOK, NeverLockedOut, [Next]_vars
             PROVE  NeverLockedOut'
    OBVIOUS
<1> USE DEF NeverLockedOut
<1>0. IsFiniteSet(selected)
    BY ApplicationAssumption, FS_Subset DEF TypeOK, ViewTypes, Visible
<1>1. ~Selectable({})
    BY FS_EmptySet DEF Selectable
<1>2. CASE Select
    BY <1>2 DEF Select, SelectionChanged
<1>3. CASE FilterChanged
    <2>1. /\ selected' \subseteq selected /\ RowsLeft(selected') /\ UNCHANGED phase
        BY <1>3 DEF FilterChanged, batchVars
    <2>2. apply' = Selectable(selected') \/ UNCHANGED apply
        BY <2>1 DEF RowsLeft, formVars
    <2> QED
        BY <1>0, <2>1, <2>2, StillUseless
<1>4. ASSUME NEW s \in ScanId, DiscoveryDone(s)
      PROVE  NeverLockedOut'
    BY <1>1, <1>4 DEF DiscoveryDone, SelectionChanged
<1>5. ASSUME NEW b \in BatchId, ConfirmApply(b)
      PROVE  NeverLockedOut'
    <2>1. phase'[b] = "running"
        BY <1>5 DEF ConfirmApply, TypeOK, BatchTypes
    <2> QED
        BY <2>1
<1>6. ASSUME NEW b \in BatchId, ModifyBatchDone(b)
      PROVE  NeverLockedOut'
    BY <1>6 DEF ModifyBatchDone, ButtonRestored
<1>7. CASE Quit
    BY <1>1, <1>7 DEF Quit
<1>8. ASSUME NEW b \in BatchId,
             ApplyClicked(b) \/ ConfirmCancel(b) \/ BatchJob(b) \/ NoticeClosed(b)
      PROVE  NeverLockedOut'
    <2>1. UNCHANGED <<apply, selected>>
        BY <1>8 DEF ApplyClicked, ConfirmCancel, BatchJob, NoticeClosed, formVars, viewVars
    <2>2. \A c \in BatchId : phase[c] \in {"running", "returned"}
              => phase'[c] \in {"running", "returned"}
        BY <1>8 DEF ApplyClicked, ConfirmCancel, BatchJob, NoticeClosed, EndBatch, TypeOK, BatchTypes
    <2> QED
        BY <2>1, <2>2
<1>9. CASE UNCHANGED <<apply, selected, phase>>
    BY <1>9
<1> QED
    BY <1>2, <1>3, <1>4, <1>5, <1>6, <1>7, <1>8, <1>9
    DEF Next, Threads, Results, User, DiscoveryWorker, DiscoveryFailed, SdkChecked,
        RefreshClicked, AutoChanged, TypePassword, SettingsClicked, SettingsClosed, SettingsSave,
        CheckSdkClicked, AutoRefresh, Ended, vars, batchVars, formVars, viewVars

-----------------------------------------------------------------------------
(* The inductive invariant and what follows                                *)

\* At first a discovery runs and nothing else does.
LEMMA IndInvInit == Init => IndInv
<1> SUFFICES ASSUME Init
             PROVE  IndInv
    OBVIOUS
<1>1. <<>> \in Seq(Job) /\ <<>> \in Seq(BatchId) /\ DOMAIN <<>> = {}
    OBVIOUS
<1>2. TypeOK
    <2>1. ViewTypes /\ FormTypes /\ ScanTypes
        BY <1>1 DEF Init, ViewTypes, FormTypes, ScanTypes, NoneFound, Inventory, ScanPhase, Visible
    <2>2. BatchTypes
        BY <1>1 DEF Init, BatchTypes, BatchPhase
    <2> QED
        BY <2>1, <2>2 DEF TypeOK
<1>3. ScanTruth
    BY DEF Init, ScanTruth, ScanId
<1>4. AtSomeJob /\ FreedOnce /\ PasswordScope /\ TypedForSelection
    BY <1>1 DEF Init, AtSomeJob, FreedOnce, PasswordScope, Targets, TypedForSelection
<1>5. NeverLockedOut
    BY FS_EmptySet DEF Init, NeverLockedOut, Selectable
<1> QED
    BY <1>2, <1>3, <1>4, <1>5 DEF IndInv

\* Every callback, thread and click keeps the inductive invariant.
LEMMA IndInvStep == IndInv /\ [Next]_vars => IndInv'
BY ScanStep, BatchStep, ViewStep, FormStep, ButtonStep DEF IndInv, BatchInv, TypeOK

\* Flag, tasks, batches, password and button agree at all times.
THEOREM Inductive == Spec => []IndInv
BY IndInvInit, IndInvStep, PTL DEF Spec

\* Every variable has its type.
THEOREM WindowTypes == Spec => []TypeOK
BY Inductive, PTL DEF IndInv

\* Button, timer, end of a batch and saved settings never start a second
\* discovery beside the one that runs, and none keeps the next one out.
THEOREM ScansAlone == Spec => []OneScan
<1>1. IndInv => OneScan
    BY TruthCounted DEF IndInv, TypeOK
<1> QED
    BY <1>1, Inductive, PTL

\* No refresh or filter between typing and Apply sends a password elsewhere.
THEOREM PasswordStays == Spec => []PasswordScope
BY Inductive, PTL DEF IndInv

\* Jobs are freed once, by whoever is the last to use them.
THEOREM JobsFreedOnce == Spec => []FreedOnce
BY Inductive, PTL DEF IndInv

\* The Apply button is never lost for good.
THEOREM ButtonComesBack == Spec => []NeverLockedOut
BY Inductive, PTL DEF IndInv

\* A refresh adds no device with a MAC address to the selection.
THEOREM RefreshIsSafe == Spec => RefreshKeepsTargets
<1>1. IndInv /\ [Next]_vars => [store' # store => selected' \cap WithMac \subseteq selected]_vars
    <2> SUFFICES ASSUME [Next]_vars, store' # store
                 PROVE  selected' \cap WithMac \subseteq selected
        OBVIOUS
    <2>1. ASSUME NEW s \in ScanId, DiscoveryDone(s)
          PROVE  selected' \cap WithMac \subseteq selected
        BY <2>1, ReselectedShown DEF DiscoveryDone
    <2>2. CASE Quit
        BY <2>2 DEF Quit
    <2> QED
        BY <2>1, <2>2, FormCases
        DEF Select, TypePassword, FilterChanged, ApplyClicked, ConfirmApply, ModifyBatchDone,
            viewVars
<1> QED
    BY <1>1, Inductive, PTL DEF Spec, RefreshKeepsTargets
=============================================================================
