----------------------------- MODULE Application -----------------------------
(***************************************************************************)
(* The GTK main loop of both frontends: inventory, filter, selection,      *)
(* password field, Apply button, dialogs, periodic refresh, and the        *)
(* discovery and batch threads whose results it waits for                  *)
(* (application-gtk4.c, and application-gtk3.c where it differs).          *)
(*                                                                         *)
(* Callbacks of the main loop are atomic and run one at a time; threads    *)
(* run beside it and hand their results over through it.  What a batch     *)
(* does on the network is the subject of ModifyBatch: here each of its     *)
(* jobs may or may not change its target.                                  *)
(***************************************************************************)
EXTENDS Naturals, Sequences, FiniteSets

CONSTANTS
    Device,         \* devices on the LAN
    WithMac,        \* those whose answers carry a MAC address
    Ip,             \* IPv4 addresses, in the order increment_ipv4 walks them
    Hideable,       \* devices some filter tells from the others
    MaxBatches,     \* batches planned in a behaviour
    Frontend,       \* the frontends considered
    Absent          \* no address: not in the inventory

ASSUME ApplicationAssumption ==
    /\ IsFiniteSet(Device)
    /\ WithMac \subseteq Device
    /\ Ip \subseteq Nat
    /\ Hideable \subseteq Device
    /\ MaxBatches \in Nat
    /\ Frontend \subseteq {"gtk3", "gtk4"}
    /\ Absent \notin Ip

BatchId == 1..MaxBatches

\* Two discovery tasks would be enough to show that they overlap.
ScanId == 1..2

Inventory == [Device -> Ip \cup {Absent}]

NoneFound == [d \in Device |-> Absent]

ScanPhase == {"idle", "running", "found", "failed"}

BatchPhase == {"unused", "asked", "running", "returned", "reported", "over"}

Job == [target: Device, oldIp: Ip, newIp: Ip]

VARIABLES
    frontend,   \* the one that was built, which never changes
    lan,        \* external: the address of every device
    store,      \* the inventory shown
    hidden,     \* devices the filter does not let through
    selected,   \* the selection
    password,   \* whether the password field holds something
    typedFor,   \* history: the selection when the password was typed
    apply,      \* whether the Apply button is sensitive
    dialog,     \* the modal window the user opened
    notices,    \* GTK 3: batches whose result is shown in a modal window, the last on top
    sdk,        \* the thread the SDK check runs in
    auto,       \* whether the refresh timer is installed
    scanning,   \* app->scanning
    scan,       \* the discovery tasks
    found,      \* what they found
    phase,      \* where every batch is
    jobs,       \* the jobs of every batch
    next,       \* the job a batch is at
    dhcp,       \* the mode of every batch
    scope,      \* history: typedFor when the batch was planned
    frees,      \* how often the batch's jobs were freed
    open        \* whether the application runs

formVars == <<password, typedFor, apply>>
viewVars == <<store, hidden, selected>>
modalVars == <<dialog, notices>>
scanVars == <<scanning, scan, found>>
planVars == <<jobs, next, dhcp, scope>>
batchVars == <<phase, jobs, next, dhcp, scope, frees>>
vars == <<frontend, lan, store, hidden, selected, password, typedFor, apply, dialog, notices,
          sdk, auto, scanning, scan, found, phase, jobs, next, dhcp, scope, frees, open>>

Visible(inventory, filtered) == {d \in Device : inventory[d] # Absent} \ filtered

\* The main loop runs a callback only when no other one is at work.
MainLoop == open /\ sdk # "main"

\* The result of a thread comes in through the main loop, whatever modal
\* window is open.
NotBehindDialog == MainLoop /\ dialog = "none"      \* (mutant)
Delivers == MainLoop

\* Input goes to the modal window that came last, a notice if there is one;
\* the main window takes clicks only while no modal window is open.
NoNotice == MainLoop /\ notices = <<>>
Clickable == NoNotice /\ dialog = "none"

-----------------------------------------------------------------------------
(* start_discovery                                                         *)

MayStart == TRUE                                    \* (mutant)
NotScanning == ~scanning

StartDiscovery ==
    IF NotScanning
    THEN /\ scanning' = TRUE
         /\ \E s \in ScanId : /\ scan[s] = "idle"
                              /\ scan' = [scan EXCEPT ![s] = "running"]
         /\ UNCHANGED found
    ELSE UNCHANGED scanVars

\* activate starts the first discovery.
Init ==
    /\ frontend \in Frontend
    /\ lan \in {a \in [Device -> Ip] : \A d, e \in Device : d # e => a[d] # a[e]}
    /\ store = NoneFound
    /\ hidden = {}
    /\ selected = {}
    /\ password = FALSE
    /\ typedFor = {}
    /\ apply = FALSE
    /\ dialog = "none"
    /\ notices = <<>>
    /\ sdk = "none"
    /\ auto = FALSE
    /\ found = [s \in ScanId |-> NoneFound]
    /\ phase = [b \in BatchId |-> "unused"]
    /\ jobs = [b \in BatchId |-> <<>>]
    /\ next = [b \in BatchId |-> 1]
    /\ dhcp = [b \in BatchId |-> FALSE]
    /\ scope = [b \in BatchId |-> {}]
    /\ frees = [b \in BatchId |-> 0]
    /\ scanning = TRUE
    /\ scan = [s \in ScanId |-> IF s = 1 THEN "running" ELSE "idle"]
    /\ open = TRUE

RefreshClicked ==
    /\ Clickable /\ ~scanning
    /\ StartDiscovery
    /\ UNCHANGED <<frontend, lan, viewVars, formVars, modalVars, sdk, auto, batchVars, open>>

AutoRefresh ==
    /\ MainLoop /\ auto
    /\ StartDiscovery
    /\ UNCHANGED <<frontend, lan, viewVars, formVars, modalVars, sdk, auto, batchVars, open>>

AutoChanged ==
    /\ Clickable
    /\ auto' \in BOOLEAN
    /\ UNCHANGED <<frontend, lan, viewVars, formVars, modalVars, sdk, scanVars, batchVars, open>>

\* The discovery thread hears some of the devices, or fails.
DiscoveryWorker(s) ==
    /\ open /\ scan[s] = "running"
    /\ \/ \E heard \in SUBSET Device :
            /\ scan' = [scan EXCEPT ![s] = "found"]
            /\ found' = [found EXCEPT ![s] =
                             [d \in Device |-> IF d \in heard THEN lan[d] ELSE Absent]]
       \/ scan' = [scan EXCEPT ![s] = "failed"] /\ UNCHANGED found
    /\ UNCHANGED <<frontend, lan, viewVars, formVars, modalVars, sdk, auto, scanning, batchVars,
                   open>>

-----------------------------------------------------------------------------
(* Selection and form                                                      *)

\* One device needs a MAC address; several are looked at when they are planned.
Selectable(chosen) ==
    IF Cardinality(chosen) = 1 THEN chosen \subseteq WithMac ELSE chosen # {}

\* The form is filled from a selection that is not empty; the password is
\* emptied with it.
KeepPassword(chosen) == password                    \* (mutant)
PasswordAfter(chosen) == IF chosen = {} THEN password ELSE FALSE

SelectionChanged(chosen) ==
    /\ apply' = Selectable(chosen)
    /\ password' = PasswordAfter(chosen)
    /\ typedFor' = IF password' THEN typedFor ELSE {}

\* Rows that leave the view leave the selection.  GTK 3 emits "changed" for
\* each of them, GTK 4 says nothing.
RowsLeft(remaining) ==
    IF frontend = "gtk3" /\ remaining # selected
    THEN /\ apply' = Selectable(remaining)
         /\ password' = IF Cardinality(selected) > 1 \/ remaining # {} THEN FALSE ELSE password
         /\ typedFor' = IF password' THEN typedFor ELSE {}
    ELSE UNCHANGED formVars

Select ==
    /\ Clickable
    /\ \E chosen \in SUBSET Visible(store, hidden) :
        /\ chosen # selected
        /\ selected' = chosen
        /\ SelectionChanged(chosen)
    /\ UNCHANGED <<frontend, lan, store, hidden, modalVars, sdk, auto, scanVars, batchVars, open>>

TypePassword ==
    /\ Clickable
    /\ password' = TRUE
    /\ typedFor' = selected
    /\ UNCHANGED <<frontend, lan, viewVars, apply, modalVars, sdk, auto, scanVars, batchVars, open>>

FilterChanged ==
    /\ Clickable
    /\ hidden' \in SUBSET Hideable
    /\ selected' = selected \ hidden'
    /\ RowsLeft(selected')
    /\ UNCHANGED <<frontend, lan, store, modalVars, sdk, auto, scanVars, batchVars, open>>

\* A refresh looks for the MAC addresses that were selected.  GTK 4 also
\* looks for an empty one and finds the first device without MAC address.
SamePlaces(shown) ==                                \* (mutant)
    {again \in SUBSET shown : Cardinality(again) = Cardinality(selected)}
KeptUnseen(shown) == {selected}                     \* (mutant)
Reselected(shown) ==
    LET known == selected \cap shown \cap WithMac
        nameless == shown \ WithMac
    IN  IF frontend = "gtk3" \/ selected \subseteq WithMac \/ nameless = {}
        THEN {known}
        ELSE {known \cup {d} : d \in nameless}

KeepScanning == scanning                            \* (mutant)
NoLongerScanning == FALSE

\* The thread failed: the inventory stays.
DiscoveryFailed(s) ==
    /\ Delivers /\ scan[s] = "failed"
    /\ scan' = [scan EXCEPT ![s] = "idle"]
    /\ scanning' = NoLongerScanning
    /\ UNCHANGED <<frontend, lan, viewVars, formVars, modalVars, sdk, auto, found, batchVars, open>>

\* The inventory is replaced; nothing is selected in between.
DiscoveryDone(s) ==
    /\ Delivers /\ scan[s] = "found"
    /\ scan' = [scan EXCEPT ![s] = "idle"]
    /\ found' = [found EXCEPT ![s] = NoneFound]
    /\ scanning' = NoLongerScanning
    /\ store' = found[s]
    /\ selected' \in Reselected(Visible(found[s], hidden))
    /\ IF selected' = {} THEN RowsLeft({}) ELSE SelectionChanged(selected')
    /\ UNCHANGED <<frontend, lan, hidden, modalVars, sdk, auto, batchVars, open>>

-----------------------------------------------------------------------------
(* apply_clicked                                                           *)

HasDuplicateIp(a) == \E d \in Device \ selected : store[d] = a

SelectedIpOwner(d, a) == \E e \in selected \ {d} : store[e] = a

HasMac(d) == d \in WithMac

\* The devices in the order of the view, with the addresses they get.
Plan(order, start, mode) ==
    [i \in DOMAIN order |->
        [target |-> order[i], oldIp |-> store[order[i]],
         newIp |-> IF mode THEN store[order[i]] ELSE start + (i - 1)]]

Accepted(plan, mode) ==
    \A i \in DOMAIN plan :
        /\ HasMac(plan[i].target)
        /\ plan[i].newIp \in Ip
        /\ \/ mode
           \/ /\ ~HasDuplicateIp(plan[i].newIp)
              /\ ~SelectedIpOwner(plan[i].target, plan[i].newIp)

Orders(chosen) ==
    {order \in [1..Cardinality(chosen) -> chosen] :
        \A i, j \in 1..Cardinality(chosen) : order[i] = order[j] => i = j}

\* A plan is shown for confirmation; a refused one leaves everything as it is.
ApplyClicked(b) ==
    /\ Clickable /\ apply /\ selected # {}
    /\ phase[b] = "unused" /\ \A c \in BatchId : c < b => phase[c] # "unused"
    /\ \E order \in Orders(selected), start \in Ip, mode \in BOOLEAN :
        /\ Accepted(Plan(order, start, mode), mode)
        /\ jobs' = [jobs EXCEPT ![b] = Plan(order, start, mode)]
        /\ dhcp' = [dhcp EXCEPT ![b] = mode]
    /\ scope' = [scope EXCEPT ![b] = IF password THEN typedFor ELSE Device]
    /\ phase' = [phase EXCEPT ![b] = "asked"]
    /\ password' = FALSE
    /\ typedFor' = {}
    /\ dialog' = "confirm"
    /\ UNCHANGED <<frontend, lan, notices, viewVars, apply, sdk, auto, scanVars, next, frees, open>>

\* modify_batch_free: the jobs are gone.
Free(b) ==
    /\ jobs' = [jobs EXCEPT ![b] = <<>>]
    /\ next' = [next EXCEPT ![b] = 1]
    /\ dhcp' = [dhcp EXCEPT ![b] = FALSE]
    /\ scope' = [scope EXCEPT ![b] = {}]

\* Whether closing the dialog frees the batch it was shown for.
DialogAlwaysFrees(confirmed) == 1                   \* (mutant)
DialogFrees(confirmed) == IF confirmed THEN 0 ELSE 1

ConfirmApply(b) ==
    /\ NoNotice /\ dialog = "confirm" /\ phase[b] = "asked"
    /\ phase' = [phase EXCEPT ![b] = "running"]
    /\ frees' = [frees EXCEPT ![b] = @ + DialogFrees(TRUE)]
    /\ apply' = FALSE
    /\ dialog' = "none"
    /\ UNCHANGED <<frontend, lan, notices, viewVars, password, typedFor, sdk, auto, scanVars,
                   planVars, open>>

ConfirmCancel(b) ==
    /\ NoNotice /\ dialog = "confirm" /\ phase[b] = "asked"
    /\ phase' = [phase EXCEPT ![b] = "over"]
    /\ frees' = [frees EXCEPT ![b] = @ + DialogFrees(FALSE)]
    /\ Free(b)
    /\ dialog' = "none"
    /\ UNCHANGED <<frontend, lan, notices, viewVars, formVars, sdk, auto, scanVars, open>>

-----------------------------------------------------------------------------
(* Batches                                                                 *)

\* One job of the batch thread.
BatchJob(b) ==
    /\ open /\ phase[b] = "running"
    /\ LET job == jobs[b][next[b]] IN
       \/ UNCHANGED lan
       \/ \E a \in IF dhcp[b] THEN Ip ELSE {job.newIp} : lan' = [lan EXCEPT ![job.target] = a]
    /\ next' = [next EXCEPT ![b] = @ + 1]
    /\ phase' = [phase EXCEPT ![b] = IF next[b] + 1 \in DOMAIN jobs[b] THEN @ ELSE "returned"]
    /\ UNCHANGED <<frontend, viewVars, formVars, modalVars, sdk, auto, scanVars, jobs, dhcp, scope,
                   frees, open>>

ButtonUnchanged == apply                            \* (mutant)
ButtonRestored == TRUE

\* The jobs are freed and the next discovery shows what became of them.
EndBatch(b) ==
    /\ phase' = [phase EXCEPT ![b] = "over"]
    /\ frees' = [frees EXCEPT ![b] = @ + 1]
    /\ Free(b)
    /\ StartDiscovery

\* GTK 4 shows the result and goes on; GTK 3 shows it in a main loop of its
\* own, inside this callback, which keeps the jobs meanwhile.
ModifyBatchDone(b) ==
    /\ Delivers /\ phase[b] = "returned"
    /\ apply' = ButtonRestored
    /\ \/ frontend = "gtk4" /\ EndBatch(b) /\ UNCHANGED notices
       \/ /\ frontend = "gtk3"
          /\ phase' = [phase EXCEPT ![b] = "reported"]
          /\ notices' = Append(notices, b)
          /\ UNCHANGED <<scanVars, planVars, frees>>
    /\ UNCHANGED <<frontend, lan, viewVars, password, typedFor, dialog, sdk, auto, open>>

\* The rest of the callback, when its notice is closed.
NoticeClosed(b) ==
    /\ MainLoop /\ phase[b] = "reported"
    /\ notices # <<>> /\ notices[Len(notices)] = b
    /\ notices' = SubSeq(notices, 1, Len(notices) - 1)
    /\ EndBatch(b)
    /\ UNCHANGED <<frontend, lan, viewVars, formVars, dialog, sdk, auto, open>>

-----------------------------------------------------------------------------
(* Settings, and the end of the application                                *)

SettingsClicked ==
    /\ Clickable
    /\ dialog' = "settings"
    /\ UNCHANGED <<frontend, lan, notices, viewVars, formVars, sdk, auto, scanVars, batchVars,
                   open>>

SettingsClosed ==
    /\ NoNotice /\ dialog = "settings"
    /\ dialog' = "none"
    /\ UNCHANGED <<frontend, lan, notices, viewVars, formVars, sdk, auto, scanVars, batchVars,
                   open>>

SettingsSave ==
    /\ NoNotice /\ dialog = "settings"
    /\ dialog' = "none"
    /\ StartDiscovery
    /\ UNCHANGED <<frontend, lan, notices, viewVars, formVars, sdk, auto, batchVars, open>>

\* tvt_sdk_is_available runs inside the callback.
CheckSdkClicked ==
    /\ NoNotice /\ dialog = "settings"
    /\ sdk' = "main"
    /\ UNCHANGED <<frontend, lan, viewVars, formVars, modalVars, auto, scanVars, batchVars, open>>

SdkChecked ==
    /\ open /\ sdk = "main"
    /\ sdk' = "none"
    /\ UNCHANGED <<frontend, lan, viewVars, formVars, modalVars, auto, scanVars, batchVars, open>>

\* The last window is closed and the process ends with whatever still runs;
\* its memory is gone.
Quit ==
    /\ Clickable
    /\ open' = FALSE
    /\ store' = NoneFound
    /\ hidden' = {}
    /\ selected' = {}
    /\ password' = FALSE
    /\ typedFor' = {}
    /\ apply' = FALSE
    /\ dialog' = "none"
    /\ notices' = <<>>
    /\ sdk' = "none"
    /\ auto' = FALSE
    /\ found' = [s \in ScanId |-> NoneFound]
    /\ phase' = [b \in BatchId |-> "unused"]
    /\ jobs' = [b \in BatchId |-> <<>>]
    /\ next' = [b \in BatchId |-> 1]
    /\ dhcp' = [b \in BatchId |-> FALSE]
    /\ scope' = [b \in BatchId |-> {}]
    /\ frees' = [b \in BatchId |-> 0]
    /\ scanning' = FALSE
    /\ scan' = [s \in ScanId |-> "idle"]
    /\ UNCHANGED <<frontend, lan>>

Ended == ~open /\ UNCHANGED vars

Threads ==
    \/ \E s \in ScanId : DiscoveryWorker(s)
    \/ \E b \in BatchId : BatchJob(b)

Results ==
    \/ \E s \in ScanId : DiscoveryDone(s) \/ DiscoveryFailed(s)
    \/ \E b \in BatchId : ModifyBatchDone(b)
    \/ SdkChecked

User ==
    \/ RefreshClicked \/ AutoChanged \/ Select \/ TypePassword \/ FilterChanged
    \/ \E b \in BatchId : ApplyClicked(b) \/ ConfirmApply(b) \/ ConfirmCancel(b)
                           \/ NoticeClosed(b)
    \/ SettingsClicked \/ SettingsClosed \/ SettingsSave \/ CheckSdkClicked
    \/ Quit

Next == Threads \/ Results \/ User \/ AutoRefresh \/ Ended

\* Threads keep running.  An iteration of the main loop dispatches every
\* source that is ready, so that clicks cannot keep a result from being
\* delivered.  Nothing is assumed of the user or of the timer.
Fairness ==
    /\ \A s \in ScanId : /\ WF_vars(DiscoveryWorker(s))
                         /\ SF_vars(DiscoveryDone(s) \/ DiscoveryFailed(s))
    /\ \A b \in BatchId : WF_vars(BatchJob(b)) /\ SF_vars(ModifyBatchDone(b))
    /\ WF_vars(SdkChecked)

Spec == Init /\ [][Next]_vars /\ Fairness

-----------------------------------------------------------------------------
(* Properties                                                              *)

ViewTypes ==
    /\ frontend \in Frontend
    /\ lan \in [Device -> Ip]
    /\ store \in Inventory
    /\ hidden \subseteq Hideable
    /\ selected \subseteq Visible(store, hidden)

FormTypes ==
    /\ password \in BOOLEAN
    /\ typedFor \subseteq Device
    /\ apply \in BOOLEAN
    /\ dialog \in {"none", "confirm", "settings"}
    /\ notices \in Seq(BatchId)
    /\ sdk \in {"none", "main"}
    /\ auto \in BOOLEAN
    /\ open \in BOOLEAN

ScanTypes ==
    /\ scanning \in BOOLEAN
    /\ scan \in [ScanId -> ScanPhase]
    /\ found \in [ScanId -> Inventory]

BatchTypes ==
    /\ phase \in [BatchId -> BatchPhase]
    /\ jobs \in [BatchId -> Seq(Job)]
    /\ next \in [BatchId -> Nat]
    /\ dhcp \in [BatchId -> BOOLEAN]
    /\ scope \in [BatchId -> SUBSET Device]
    /\ frees \in [BatchId -> Nat]

\* Every variable has its type.
TypeOK == ViewTypes /\ FormTypes /\ ScanTypes /\ BatchTypes

Targets(b) == {jobs[b][i].target : i \in DOMAIN jobs[b]}

\* At most one discovery of the window is under way, whatever starts it -
\* button, timer, end of a batch, saved settings - and the flag that keeps
\* the others out tells the truth.
OneScan ==
    /\ Cardinality({s \in ScanId : scan[s] # "idle"}) = IF scanning THEN 1 ELSE 0

\* A password goes only to devices that were selected when it was typed,
\* however refreshes and filters change the selection before Apply.
PasswordScope == \A b \in BatchId : Targets(b) \subseteq scope[b]

\* The jobs of a batch are freed once, and never before its thread and the
\* report of its result are done with them.
FreedOnce == \A b \in BatchId : frees[b] = IF phase[b] = "over" THEN 1 ELSE 0

\* The Apply button is insensitive only for a reason that goes away: nothing
\* usable is selected or a batch is running.
NeverLockedOut ==
    apply \/ ~Selectable(selected) \/ \E b \in BatchId : phase[b] \in {"running", "returned"}

\* A refresh never puts another device with a MAC address in the selection.
RefreshKeepsTargets ==
    [][store' # store => selected' \cap WithMac \subseteq selected]_vars

\* Every discovery ends, so that the next one can start.
ScanEnds == scanning ~> (~scanning \/ ~open)

\* The result of every confirmed batch is reported.  GTK 4 frees its jobs with
\* that, GTK 3 when the user closes the notice.
BatchReported ==
    \A b \in BatchId : phase[b] = "running" ~> (phase[b] \in {"reported", "over"} \/ ~open)

-----------------------------------------------------------------------------
(* The inductive invariant of the proofs                                   *)

\* One task is under way exactly when the flag says so.
ScanTruth ==
    /\ scanning => \E s \in ScanId : scan[s] # "idle"
    /\ \A s \in ScanId : scan[s] # "idle" =>
        scanning /\ \A t \in ScanId \ {s} : scan[t] = "idle"

\* A password in the field was typed for all that is selected.
TypedForSelection == password => selected \subseteq typedFor

\* A batch that is shown or runs is at one of its jobs.
AtSomeJob ==
    \A b \in BatchId :
        /\ phase[b] = "unused" => next[b] = 1
        /\ phase[b] \in {"asked", "running"} => next[b] \in DOMAIN jobs[b]

IndInv ==
    /\ TypeOK /\ ScanTruth /\ TypedForSelection /\ AtSomeJob
    /\ FreedOnce /\ PasswordScope /\ NeverLockedOut
=============================================================================
