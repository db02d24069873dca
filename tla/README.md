# A verification of tvt-iptool

`tvt-iptool` finds TVT cameras and recorders on a LAN and changes their IPv4
settings.  It has two frontends (`src/application-gtk3.c`,
`src/application-gtk4.c`) over one core in C.  This directory holds TLA+ models
of it, the TLC runs that check them and proofs that TLAPS checks.
All source paths below are relative to the repository (`src/...` is its source
directory); line numbers are those of the commit the models were read from.

## The system

| part | source | state | operations |
|---|---|---|---|
| main window | `application-gtk4.c`, `application-gtk3.c` | device store, filter, selection, form, password field, Apply button, modal window, refresh timer, `scanning` | `start_discovery`, `discovery_done`, `selection_changed`, `filter_changed`, `apply_clicked`, `confirm_apply`, `confirm_cancel`, `modify_batch_done`, `settings_*`, `check_sdk_clicked`, `auto_*` |
| batch worker | same files, `run_modify_job`, `modify_batch_worker` | loop index, the job's password, rescans made, result | one job after the other: web session, layer-2 fallback, rescans |
| web session | `web-provision.c` | cookie, token, the NIC list the device reported, the list to be sent back | `reqLogin`, `doLogin`, `queryNetCfgV2`, `editNetCfgV2` |
| layer 2 | `l2-provision.c` | socket, `sent` | build the packet, send it three times |
| discovery | `discovery.c`, `device.c` | socket, answers seen by identity, deadline | send two searches, collect answers, sort |
| address arithmetic | `network.c` | none | `tvt_network_validate`, `tvt_network_increment_ipv4` |
| configuration | `config.c`, `main.c`, settings dialogs | options in memory, `config.ini` | load, override, save |
| SDK check | `sdk-loader.c` | library handle | resolve, `dlopen`, init, cleanup, `dlclose` |

How they meet.  Everything the user sees happens in callbacks of the GTK main
loop, one at a time.  A discovery and a batch each run in a thread of their own
(`g_task_run_in_thread`), get their input as a copy when they start, and hand
their result to the main loop, which delivers it between two callbacks and also
while a modal window is open.  The threads share nothing in memory with the
main loop; they share the LAN: every rescan of a batch is a discovery of its
own beside the window's.  Nothing makes a second batch wait for the first: the
Apply button is made insensitive when a batch starts, and sensitive again by the
next selection, the next discovery or the end of any batch.

What is hard here: a device is changed by datagrams that may be lost, repeated
or late, or by a web request whose answer may be lost; the change removes the
device from the address it was found at; the only evidence of success is a later
discovery; inventory, selection and typed password age while discoveries
replace the store; threads return in any order, behind any window; the process
may end in the middle of a batch.  `PROJECT.json` lists these hazards with their
lines and the properties that cover them.

## Modules

| module | models | size of its world |
|---|---|---|
| `ModifyBatch` | the batch worker with the web session and layer 2 below it, the devices and the network around it | any number of batches at once, any number of jobs each |
| `VerifiedChange` | what "Apply" promises, without web, layer 2 or rescans | the same |
| `Plans` | the plans a batch may begin with, and what `apply_clicked` looks up for them | the same |
| `SurveyedBatch` | the batch worker with rescans that are scans of `Survey` | the same |
| `ModifyBatchProofs` | theorems about `ModifyBatch` | every value of the constants |
| `KeepsPromiseProofs` | that `ModifyBatch` implements `VerifiedChange`, also in `SurveyedBatch` | every value of the constants |
| `NicEdit` | what a web session does to the whole NIC list of a recorder: `queryNetCfgV2`, `build_edit_content`, `editNetCfgV2` | any number of sessions and NICs |
| `NicChange` | what editing a recorder promises, without reading, copying and sending back | the same |
| `NicEditProofs` | theorems about `NicEdit` | every value of the constants |
| `Application` | the main loop of both frontends, with discovery and batch threads beside it | two discovery tasks, `MaxBatches` batches |
| `ApplicationProofs` | theorems about `Application` | every value of the constants |
| `BulkPlan` | how `apply_clicked` makes a plan: the arithmetic of `network.c` and the two look-ups | any inventory, any octet size |
| `PlannedBatch` | the plan of `BulkPlan` as a batch of `Plans` | the same |
| `BulkPlanProofs` | theorems about `BulkPlan` and `PlannedBatch` | every value of the constants |
| `BitArithmeticProofs` | that the arithmetic of `BulkPlan` is that of the bits | every number of bits |
| `Discovery` | `tvt_discover_lan`, several scans on one port | any number of scans, attempts, devices |
| `Survey` | what a scan promises its callers, without sockets and datagrams | the same |
| `DiscoveryProofs` | theorems about `Discovery` | every value of the constants |
| `Launch` | options from defaults, file, command line and dialog, the SDK library they lead to and the check of it | any number of launches |
| `LaunchProofs` | theorems about `Launch` | every value of the constants |
| `MC...` | sets and symmetries for TLC | |

How they fit together.  `BulkPlan` makes the plan that `Application` shows for
confirmation and `ModifyBatch` carries out.  `PlannedBatch` is the step from the
one to the other, rows with MAC addresses of their own on one side, jobs for
devices on the other: an accepted plan is one that `Plans` lets a batch begin
with, job for job at the same addresses (`PlanIsAdmissible`, theorem
`PlanBeginsBatch`).  An `Entry` of `Plans` is a device in one spelling of its MAC
address, and every job goes to the old address its own row shows.  `Application`
takes from `BulkPlan` that an accepted plan hands out usable addresses,
consecutive and each looked up, and leaves masks and gateways out; it lets every
job of a batch change its target or not, and what really happens is
`ModifyBatch`.

The rescans of `ModifyBatch` and the discovery threads of `Application` are scans
of `Discovery`, which implements `Survey`.  `ModifyBatch` on its own takes the
moment a device is listed for the moment it answered (`HearAnswer`).
`SurveyedBatch` does not: it is `ModifyBatch` whose rescans are scans of `Survey`, so
that a device may answer, move and be listed only then, a scan may fail before
it begins, and a failed one has found nothing.  Not all its steps are steps of
`ModifyBatch`; the theorems about it show that the properties survive.  A
record of `Survey` has the address and no mode in `Discovery`, where nothing depends
on the mode, and address and mode in `SurveyedBatch`; a device whose answers carry
no MAC address matches no job and is left out of `SurveyedBatch`.

`ModifyBatch` has of a web edit the address and the mode it gives the target;
`NicEdit` is the same session seen from the recorder, with everything else the
edit sends back.

**ModifyBatch.**  `pc[w]` says where batch `w` is: the four requests of the web
session, the layer-2 loop, the rescans.  `cur[w]` is the loop index of
`modify_batch_worker`, `secret` the set of jobs whose password is still in
memory, `rescan` and `attempt` the two inner loop counters, `answers[w]` the
hash table of the discovery under way.  `device` and `air` are external: the
address and DHCP mode of each device, and the requests on their way.  A device
is its MAC address.  The actions `DeviceEdits`, `DeviceObeys`, `LoseRequest`
and `RenewLease` are devices and network: a web edit may be applied after the
program gave up waiting for the answer, a datagram may be applied twice or much
later, a DHCP device may move on its own.  Two history variables, `visited`
and `writes`, record what properties speak about and are never read.
`Init` enumerates every selection of rows and every plan `apply_clicked` lets
through (`Selection` and `Admissible` of `Plans`), from an inventory in which every row
shows where its device is (`UpToDate`) or (`StaleInventory`) from any other one, the
rows of a device at different addresses included.  `StepsLeft` counts what a
worker has before it at most, with every fallback and every retry.

**SurveyedBatch** adds what a scan keeps: `held[w]`, what the devices were since
the rescan of worker `w` began, and its list.  A rescan that cannot open its socket
is `RefuseRescan`; one that ends in an error has no list.

**VerifiedChange** says: jobs of a batch are judged in order; a job changes only
its own target, not before its turn; "verified" is said only if the target has
been in the requested state since the turn of the job; every job is judged.
`ModifyBatch` implements it under `held <- Held`, the jobs whose target was seen
in the requested state after their request (`KeepsPromise`).

**NicEdit.**  `nics` and `common` are the recorder: what `queryNetCfgV2` answers and
`editNetCfgV2` replaces as a whole.  A session (`pc[s]`) reads the list
(`Query`), keeps an edited copy (`content[s]`, made by `EditedList` as
`build_edit_content` makes it, field by field: DHCP keeps the old address as it
is, a static edit moves a DNS server that was the gateway, or came from DHCP, to
the new gateway, and clears a derived IPv6 address) and posts it.  `edit[s]` is
what became of the post: it takes effect once at most (`Apply`), at any later
moment, also after `Fail` ended the session; the session learns of it (`Reply`)
or does not.  `Lease` and `Regroup` are changes by anybody else; with the
sessions of other batches and workstations they make the list stale that a
session is about to send.  An answer ends where the connection ends
(`http_post` does not look at Content-Length) and is accepted from the closing
tag of the NIC list on, so settings behind the list may be read as absent
(`unread`), the fault-tolerance mode among them.  `stale[s]` is history: what
is not as session `s` read it.  External and assumed: a recorder takes an edit
as a whole or not at all, and what it makes of a field sent empty is open.

**NicChange** says: an edit takes effect once at most, gives its NIC the address
or the mode asked for, and leaves alone every other NIC and every setting of the
recorder that is still as the session read it; an edit of a group is made only
by a session that did not know of the group.  It does not say that changes made
in between survive: they do not, which is the price of sending the list back.

**Application.**  One action per callback.  `store`, `hidden` and `selected` are
the inventory, what the filter takes from the view, and the selection;
`scan[s]` are discovery tasks (more than the one the code allows, so that the
property says something), `phase[b]` the batches.  The two frontends differ
where GTK differs: when rows vanish from the view GTK 3 emits "changed" for
each of them, GTK 4 emits nothing (`RowsLeft`); GTK 4 looks for an empty MAC
address among the rows as well (`Reselected`).  `frontend` says which of them
was built.  `typedFor` and `scope` are
history variables: the selection a password was typed for, and what of it a
batch took along.  `Quit` resets what the process held.  A finished batch is one
step in GTK 4 and two in GTK 3, where `show_notice` runs a main loop inside the
callback: `ModifyBatchDone` makes Apply sensitive and opens the notice,
`NoticeClosed` frees the jobs and starts the discovery.  What comes in between is
any other callback but a click: results, the timer, the notice of another
batch, which has to be closed first (`notices` is a stack).

**BulkPlan.**  A plan grows by one job a step (`AddJob`), as the loop of
`apply_clicked` does, or is refused with the first complaint.  Addresses are
numbers to the base `Octet`, so that TLC walks a world of 256 addresses with all
its boundaries and the proofs cover 2^32; masks are numbers too, contiguous or
not.  Rows carry the MAC address, address, mask and gateway their device
reported.  `Inventory` says of the rows what discovery makes true of them: a
device without MAC address has one row per address.  It says nothing of the
others: `discovery.c:386` keys a device by its MAC address as spelled and keeps
the first answer of each spelling, so a device that answers in two spellings
and moves during a scan is listed twice, at two addresses.  If one of these rows
is selected and the other is not, no look-up sees the other: `has_duplicate_ip`
passes over it for its MAC address and `selected_ip_owner` looks at selected rows.
`Overlooked` names this row, `PlanIsFree` says that it is the only exception, and
`NoAddressOfAnother`, which knows none, fails (`duplicate_address`).

**Discovery.**  `pc[s]` is where scan `s` is: opening, sending the searches,
listening until the deadline, again for the next attempt.  `inbox[s]` is the
socket, `seen[s]` the hash table.  All scans bind one port: a layer-2 answer
goes to any set of them, an SSDP answer to one at most (`Reach`).  An answer
is a device, a protocol and the address of that moment; `Key` is the identity
it is stored under, by MAC address as spelled in that protocol, or by address.
`held` and `heard` are history: what was true since the scan began, and whose
MAC address was read.

**Survey** says: a scan gathers records of its own time, one for each identity,
and ends with all of them or with an error and none.

**Launch.**  `file` is `config.ini`, in the contents a hand can give it too;
`OpenWindow`, `CheckSdk`, `NoWindow`, `Refuse` and `HandOver` are the outcomes of
a launch; `SettingsSave` takes the dialog's fields over and writes them.
`library` follows `tvt_sdk_is_available` through `dlopen`, the symbols it needs,
`NET_SDK_Init`, `NET_SDK_Cleanup` and `dlclose`; nothing else in this module
happens meanwhile, because "Check SDK" calls it in its click handler and
`--check-sdk` in `main`.  `saved` is history.

## Runs

| run | world | what it shows |
|---|---|---|
| `one_job` | a job on two devices, three addresses, stale inventory, moving leases, every password length, two send attempts, two rescans | the safety properties of a job and that it keeps the promise |
| `one_batch` | a batch of two jobs from a true inventory | order of jobs, no two static devices on one address, every step of the worker brings the end nearer |
| `two_batches` | `SurveyedBatch`: two web batches at once for the same device, which moves | a verdict is as fresh as the rescan it comes from, also when batches overlap |
| `batch_liveness` | two jobs for one device that spells its MAC address in two ways and is listed at one address or at two | every job is judged, every password wiped, whatever devices and network do |
| `main_loop` | a device with and one without MAC address, three addresses, a batch, both frontends | one discovery at a time, selection and password, targets, button, refresh |
| `overlapping_batches` | two batches of one window, both frontends | jobs freed once, discoveries end, batches are reported |
| `bulk_planning` | three rows, 256 addresses, nine masks, starts around every boundary | plans stay in one subnet, give no device an address of another (but for `Overlooked` rows), are plans a batch begins with; the arithmetic is that of the bits |
| `discovery` | a scan of two attempts and one of one attempt, two devices, two addresses | nobody is hidden; the scans implement `Survey` |
| `nic_edit` | two sessions at a recorder with two NICs, a DHCP server or an administrator in between, answers cut behind the list | DNS server and IPv6 address follow every edit, a repeated edit changes nothing, sessions implement `NicChange` |
| `settings` | launches, dialogs, files and checks of the SDK in any order, two paths, timeouts on both sides of both limits | the timeout stays usable, no file keeps the program from starting, what was saved is loaded, the library is left as it was found |
| `rejected_login` | as `one_job` | a difference from README.md, see below |
| `duplicate_address` | three rows, one of them of a device that is selected in another row | a difference from README.md, see below |

Bounds and why they are enough.  `L2Attempts` is 3 and `MaxRescans` 40 in the
code; the loops treat all middle rounds alike, so two send attempts show every
mix of success and failure and two rescans show one that fails followed by one
that succeeds.  Two devices are a target and another one that may answer in its
place; three addresses are an old, a new and a free one.  Two jobs show what one
leaves to the next.  `two_batches` has passwords too long for layer 2, because with
its datagrams two surveyed rescans are too many states; that verdicts are right
with overlapping layer-2 batches is a theorem (`SurveyedBatchKeepsPromise`).
`MaxBatches` bounds the batches of a behaviour: two overlap.
`MaxSelected` is three: the first of a range, one in the middle and the last; a
selection of one or two leaves rows over for `has_duplicate_ip` to look at.
The octets of `bulk_planning` have two bits, so that 256 addresses hold a
loopback, a link-local and a multicast range and subnets of all sizes.  Two
attempts of a scan are what the window makes.  Two sessions of `nic_edit` are one
that reads and one that comes in between; two NICs are the one asked for and
another one; `MaxOutside` is one change by anybody else, because a second one
does to a list read before what the first did; the three configurations at first
are those that `build_edit_content` tells apart: the DNS server at the gateway or
elsewhere, fixed or from DHCP, the IPv6 address derived, native or off.
`Factory` leaves out a NIC under DHCP with a fixed DNS server that is a gateway:
no edit of this program makes one.  The theorems below hold without
these bounds.

`bulk_planning` and `duplicate_address` do not check deadlock because a plan ends
accepted or refused; no other run does without.

Fairness.  `ModifyBatch` assumes weak fairness of each worker: it is a thread,
its sockets have timeouts (`g_socket_client_set_timeout`, 4 s; a response is cut
off at a maximal size) and a discovery has a deadline.  Nothing is assumed of
devices and network.  `Discovery` assumes the same of sending and of the
deadline, which the loop looks at before every poll; nothing of receiving.
`Application` assumes weak fairness of the threads and
strong fairness of the delivery of their results: an iteration of the main loop
dispatches every source that is ready, so clicks cannot hold a result back.  It
also assumes that a check of the SDK returns.  Nothing is assumed of the user or
the timer.

## Where code and documentation differ

Checked:

* README.md:165 has the layer-2 request for a web API that is "unreachable or
  unsupported"; `run_modify_job` sends it after a rejected login too
  (`rejected_login`).
* README.md:163 has a change checked for a duplicate address in the current
  discovery set; of a device that is listed at two addresses and selected at one
  of them, the other is handed out to another device (`duplicate_address`;
  `application-gtk4.c:420` and `:406`).

Proved, with no run of its own:

* README.md:126 has a path in `TVT_SDK_PATH` override the default;
  `tvt_app_options_init` fills in the default path before anything else, and
  `resolve_path` looks at the variable only when there is no path
  (theorem `VariableIsHidden`).

Seen in the source while modelling; the models have these behaviours and no
property forbids them:

* README.md:108 and 166 have each change verified by rescans; a job whose web
  edit was applied, whose answer was lost and whose layer-2 request failed is
  reported failed without any (`application-gtk4.c:441`).
* A static job looks at the address only (`application-gtk4.c:472`), so a DHCP
  device asked to keep its address statically counts as verified while it still
  uses DHCP.
* README.md:186 has SDK work outside the main thread; "Check SDK" calls the
  loader in its click handler (`application-gtk4.c:844`).
* README.md:141 has command-line options override saved values for one launch;
  the settings dialog saves them with everything else
  (`application-gtk4.c:873`), and a launch while a window is open has no effect
  on its options (`application-gtk4.c:1052`).

What no document speaks of and a reader should know:

* A web edit sends back the whole list it read, so a change of another NIC made in
  between is undone (`web-provision.c:468`).
* A stale IPv6 address is cleared by static edits only: under DHCP one derived from
  the old IPv4 address stays (`web-provision.c:369`).
* `parse_network_config` refuses fault-tolerance groups (`web-provision.c:265`), but an
  answer cut before `curWorkMode` is read as one without a mode and edited.
* XML values are read without undoing their escapes and escaped again when they are
  sent back.

## Proofs

`ModifyBatchProofs` proves, for any number of batches, jobs, devices, addresses,
send attempts and rescans: `TypeCorrect`, `TargetOnly` (OnlyTheTarget),
`Sequential` (OneAtATime), `FallbackIsLast` (FallbackOnly), `FailureIsHonest`
(FailedSentNothing), `SecretsKept` (SecretDiscipline), `VerdictIsTruthful`
(VerifiedWasReal), `NoClash` (NoStaticClash) and `BatchesRunOut` (EveryStepCounts).  They assume
`ConstantAssumption`, which says of what kind the constants are; TLC evaluates
it in every run.

The argument is an inductive invariant in layers, `IndInv` in `ModifyBatch`,
each layer proved from the ones before:

1. `TypeOK` and `Bounds`: a worker that is not done has a current job.
2. `Routing`: the session is bound to the target before the edit is sent,
   because `build_edit_content` finds the job's MAC among the device's NICs;
   so every request under way goes to its target.  `OnlyTheTarget` follows.
3. `OneAtATime`: verdicts are those of the jobs before the current one.
4. `Route`: where a worker is tells whether its web session failed and whether
   a datagram left.  `FallbackOnly` and `FailedSentNothing` follow.
5. `SecretDiscipline` needs only the types.
6. `Watching`: while a job rescans, the present state of its target and all the
   answers heard are among the states visited since the rescans began.  A
   verdict "verified" comes from an answer, hence from a visited state:
   `VerifiedWasReal`.

`NoClash` (NoStaticClash) is about one batch from a true inventory
(`OneTrueBatch`, an assumption of the theorem; every row shows where its device
is, so twin rows agree): `PlanAvoids` says that no static
job is to give its target an address at which another static device is now,
`PlanDiffers` that the jobs hand out different addresses.  `Admissible` and
`Plan` establish both; a device that changes moves to an address its own job
planned, or to DHCP.

`BatchesRunOut` is a rank: `StepsLeft` falls with every step of its worker and rises
with none of anybody else, because the web calls, the datagrams and the rescans
of a job come in this order and each is counted down.  `StepsAreBounded` gives the
rank its bound, `NumJobs * JobSteps + 1` with `JobSteps` = 8 + 3 + 81 = 92 for the
values of the code.  It is what the liveness of a batch rests on, without the
fairness.

The steps go through one lemma for what a worker may touch (`WorkerFrame`) and
one for what devices and network may (`EnvironmentFrame`), so that other
workers need no case distinction of their own.

`BulkPlanProofs` proves, for any octet size, inventory, selection and form:
`PlanTypes` (TypeOK), `PlanInOneSubnet` (OneSubnet) and `PlanFree` (PlanIsFree),
from `BulkPlanAssumption`.  `OneSubnet` does not follow from the look of a single
address: the invariant `Counted` says that the i-th address is the first plus
i - 1 and that none is the last of its subnet, so that the count cannot step
from one subnet into the next.  `PlanFree` goes over `LookedUp`, what the two
look-ups established for the addresses planned so far: whoever is shown at one
is selected, and of the selected rows only the job's own shows it.  So a row of
another device at that address is not selected, and its device is selected by a
row that shows another address: it is `Overlooked`; that none is handed out twice
is `Counted`.  `AgreeingRowsAreEnough` says when the documentation is right: as long
as the rows of a device show one address (`RowsAgree`, an assumption of this
theorem alone), no address of another device is handed out.  `PlanWarnedTogether` is
one more consequence of `Counted`: all addresses of the plan share the first one's
subnet, so all comparisons with the gateway have one result (`AllWarned`).
`PlanBeginsBatch` (PlanIsAdmissible) puts the pieces together for `PlannedBatch`, with
no assumption about twin rows: a job is known by its row there (`RowOf`), the
inventory by rows (`Shown`), and the look-ups of `BulkPlan` are those of `Plans` row
by row.

`BitArithmeticProofs` proves `PlanArithmetic` (ArithmeticIsBitwise): for every number
of bits, the tests `BulkPlan` makes by division and multiples are those `network.c`
makes by `&`, `~` and `== 0`, for every mask, also one that is not contiguous.  It
is an induction over the bits.  The induction theorem of the library takes an
operator the provers here cannot instantiate; `Induction` says the same of a set
of numbers, from the well-foundedness of < (`WFMin`), and each use defines the set
of the numbers for which the claim holds.  With `TwoToRecursion` (the recursion of
the powers of two defines a function) and `QuotientIs` (a quotient with its
remainder is unique) the rest is arithmetic on bits, one lemma for each idiom of
the C code: `PowerByBits` for `(x & (x + 1)) == 0`, `MaskBits` and `HostBits` for the
inverse mask, `SubnetBits` for the comparison of network parts.  `CodeSizes` says that
addresses of 32 bits in octets of 256 are among the sizes the theorem speaks of.

`DiscoveryProofs` proves, for any number of scans, attempts, devices and
addresses, from `DiscoveryAssumption`: `ScanTypes` (TypeOK, with the bound of the
attempts), `ScansAreSurveys` (the safety part of IsSurvey: the initial states are
initial states of `Survey` and every step is one of its steps or a stutter) and
`NobodyIsHidden` (NobodyHidden).  What `Survey` promises of lists is proved of
`Survey` and carried over by the refinement: `ScansListTruly` (ListsAreTrue).
`ScansRunOut` is the rank of a scan, two steps for each attempt that no answer
and no other scan puts up again.  The refinement needs `Fresh`: what a socket
holds was true since its scan began.  `NobodyIsHidden` goes over `Listed`: a
device whose MAC address was read has a record that names it, or the scan ended
in an error.

`KeepsPromiseProofs` proves that `ModifyBatch` implements `VerifiedChange`:
`WorkerKeepsPromise` (KeepsPromiseSafely).  Every step maps to a step of the
promise or to a stutter.  The one thing to show that the invariants above do not
say is that a request that takes effect is a change the promise allows at that
moment: the job's turn has come (`TurnCame`, from `OneAtATime`) and the request
goes to its target (`Routing`); a verdict "verified" needs `Held`, which is
`VerifiedWasReal`.

The same module proves of `SurveyedBatch`, where a rescan is a scan of `Survey`:
`SurveyedBatchIsSafe` (the whole of `IndInv`), `SurveyedNoClash` (NoStaticClash),
`SurveyedBatchKeepsPromise` (KeepsPromiseSafely), `VerdictsAreFresh` (VerdictIsFresh) and
`RescansAreSurveys` (its scans take steps of `Survey` only).  A step of the worker
outside a rescan, of a device or of the network is a step of `ModifyBatch`, whose
lemmas apply as they are.  Listing a device, ending and refusing a rescan need an
invariant of their own, `ListIsOfTheScan`: what a list shows was so since its scan
began, and whatever the scan saw of the target is among the states the target
had since the job's rescans began.  With `Watching` that puts every state a verdict
may come from among those visited, although the device may be elsewhere by the
time it is listed.  Together with `ScansAreSurveys` this replaces the argument that a
rescan may be taken for an instant.

`NicEditProofs` proves, for any number of sessions, NICs, addresses and changes by
others: `Types` (TypeOK), `DnsFollows` (DnsFollowsGateway), `Ipv6Follows`
(NoForeignIpv6), `RetryIsHarmless` (RetryChangesNothing),
`SessionsImplementNicChange` (IsNicChange) and, of the edit alone,
`EditIsIdempotent`.  None of them is inductive: a list that is sent back is as old
as its session.  `AllSound` therefore asks of every list under way what the
properties ask of the recorder; `UpToDate` says that such a list agrees with the
recorder wherever nothing is stale, and has the target as asked; `Underway` ties
the lists to the steps of their sessions.  `NicAssumption` says that the
configurations at first are sound.

`LaunchProofs` proves, for any paths, addresses and timeouts: `LaunchTypes`
(TypeOK), `TimeoutKept` (TimeoutInRange), `AnyFileStarts` (FileNeverRefused),
`SettingsLast` (SettingsSurvive) and `LibraryGoesBack` (LibraryReleased).
`SavedInFile` (the file holds what was saved last, with a usable timeout) is what
`SettingsLast` needs: a launch replaces an unusable timeout on loading, and that
must not happen to a saved one.  `LibraryInUse` counts the handles by the step the
check is at; that `NET_SDK_Cleanup` is called after a `NET_SDK_Init` that succeeded
and after no other is part of `LibraryReleased`.  `LoadingIsStable` is about the file alone: loading what was saved
unchanged changes nothing, whatever stood in the file first.  `VariableIsHidden` is
the difference from README.md:126, for every path and variable: without a path
on its command line a check opens what file or default name.

`ApplicationProofs` proves, for both frontends and any number of devices, addresses
and batches: `WindowTypes` (TypeOK), `ScansAlone` (OneScan), `PasswordStays`
(PasswordScope), `JobsFreedOnce` (FreedOnce), `ButtonComesBack` (NeverLockedOut) and
`RefreshIsSafe` (RefreshKeepsTargets).  `ScanTruth` ties the flag to the tasks:
"at most one" is not inductive without "and the flag knows of it".
`TypedForSelection` says of a password in the field that all that is selected
now was selected when it was typed; it is what a selection, a refresh and a
filter have to keep, each in its own way and differently in the two frontends.
`AtSomeJob` keeps a running batch inside its list of jobs; that a batch is freed
once also when GTK 3 frees it behind a notice is in the phase it is left in
meanwhile, "reported".

Left to TLC: liveness and fairness (`KeepsPromise` beyond its safety part,
`SecretsAreWiped`, `ScanEnds`, `BatchReported`, `IsSurvey` beyond its safety part), which
are beyond this prover; the ranks of batches and scans are what can be said of
them without fairness.  Every invariant and every action property of a passing
run is a theorem.

## Not modelled, and why

* `device.c`, `web-uri.c`: a record with copy and free, and text; no state to
  speak of.
* Menus, "About", the web link, row widgets, export of the list: they read the
  inventory and change nothing.
* Encryption and encoding in `web-provision.c` and `l2-provision.c`, the bytes of
  packets and XML: a request is what it asks for, an answer what it says.
* In `NicEdit`: mask (goes where the gateway goes), MTU, second DNS server and PoE
  or TOE settings, which are sent back as read, and values with `&`, `<` or a quote
  in them, which change on their way.
* A recorder that takes half of an edit: how it applies one is not in this
  repository.
* Order of the list of devices, clock and duration of rescans, cancellation of a
  discovery (no caller cancels), GLib's dispatching after the last window was
  closed, the time an answer is under way (a record may be that much older than
  its scan), a receive that blocks after poll announced a datagram.
* In `Application`: a device has one row; twin rows are in `BulkPlan` and
  `ModifyBatch`.
* Modal notices of GTK 3 other than that of a batch: behind them a callback only
  frees a plan nobody else has seen, or nothing.
* Addresses spelled other than canonically: the code compares text, the models
  addresses.

## Plan

Done, in this order: `ModifyBatch` with `VerifiedChange` and proofs;
`Application`; `Launch`; `BulkPlan` with proofs; `Discovery` with `Survey` and
proofs; `NicEdit` with `NicChange` and proofs; the SDK check in `Launch`; proofs
for `Launch`, `Application`, the refinement of `VerifiedChange`, `NoStaticClash` and
`WarnedTogether`; the bit arithmetic; the ranks; plan and batch composed
(`PlannedBatch`); batch and discovery composed (`SurveyedBatch`).  `TargetsHaveMac`, once
planned for `Application`, only repeated a guard of the plan and was given up.

What is left, in the order of what it would add:

1. The time an answer is under way: one from before a scan in its socket.  With
   answers on their way as a variable of `Discovery`, and `Survey` telling of
   them, the two scans of the run need two million states and more, too many
   for its liveness; it takes a smaller instance that still has both
   protocols, two attempts and a moving device.
2. Addresses spelled in several ways, in `BulkPlan` and `Discovery`.
