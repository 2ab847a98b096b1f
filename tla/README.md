# TLA+ models of the sm8650 vendor kernel modules

The repository collects the out-of-tree kernel modules of a Qualcomm sm8650
phone: 22 driver packages under `qcom/opensource` and one NFC driver under
`nxp/opensource`, about three million lines of C. Most of it programs hardware,
talks to firmware that is not in the repository, or is tables. What a model can
say something about is the code that decides *who may do what, when*: locks and
drains built from spinlocks and completions, reference counts of clocks and
fences, work queues and timers that act on state that has moved on. This
directory models that code, component by component.

| module | what it is |
|---|---|
| `Dsc.tla` | the WLAN driver synchronization core: specification and properties |
| `DscProofs.tla` | TLAPS proofs of the safety properties of `Dsc` |
| `MCDsc.tla`, `MCDsc*.cfg` | instances of `Dsc` for TLC |
| `HierLock.tla` | what DSC promises: a lock on a tree with two modes |
| `DscRefinement.tla` | the mapping under which `Dsc` implements `HierLock` |
| `DscRefinementProofs.tla` | TLAPS proof of that refinement |
| `IpaPm.tla` | the power management of the IPA driver: specification and properties |
| `IpaPmProofs.tla` | TLAPS proofs of the safety properties of `IpaPm` |
| `MCIpaPm.tla`, `MCIpaPm*.cfg` | instances of `IpaPm` for TLC |
| `KgslTimeline.tla` | the timelines of the graphics driver: specification and properties |
| `KgslTimelineProofs.tla` | TLAPS proofs of the safety properties of `KgslTimeline` |
| `Timeline.tla` | what a timeline promises user space |
| `KgslTimelineRefinement.tla` | the mapping under which `KgslTimeline` implements `Timeline` |
| `KgslTimelineRefinementProofs.tla` | TLAPS proof of that refinement |
| `MCKgslTimeline.tla`, `.cfg` | an instance of `KgslTimeline` for TLC |
| `CamSync.tla` | the fences of the camera driver: specification and properties |
| `CamSyncProofs.tla` | TLAPS proofs of the safety properties of `CamSync` |
| `Fences.tla` | what cam_sync promises: fences, and fences merged from others |
| `CamSyncRefinement.tla` | the mapping under which `CamSync` implements `Fences` |
| `CamSyncRefinementProofs.tla` | TLAPS proof of that refinement |
| `MCCamSync.tla`, `MCCamSync*.cfg` | instances of `CamSync` for TLC |
| `PROJECT.json` | components, runs, mutants, the map from definitions to source lines, findings, hazards, theorems |

Run a model with `tlc -config MCDscSafety.cfg MCDsc`; check the proofs of a
component with `tlapm DscProofs.tla` (each `*Proofs.tla` by itself, in minutes). Definitions whose comment begins with "Mutant:" are not
part of a specification: each is a plausible bug in the definition that follows,
and `PROJECT.json` names the property that it breaks.

## 1. Inventory

Paths are relative to `src/qcom/opensource`. Every part is also listed under
`components` in `PROJECT.json`, with the reason where it is left out.

### WLAN driver synchronization core (`wlan/qcacld-3.0/components/dsc`) — modelled in part

*State.* A tree of contexts: one `dsc_driver`, its `dsc_psoc`s, their
`dsc_vdev`s. Each has `trans.active_desc` (the transition that is active, if any),
`trans.queue` (the callers that sleep until theirs may begin), `ops.count` (the
operations in flight) and `ops.event` (a completion the last one signals). One
spinlock, `driver->lock`, protects all of it.

*Operations.* `trans_start`, `trans_start_wait`, `trans_stop`, `op_start`,
`op_stop`, `wait_for_ops`, `vdev_wait_for_uptree_ops`, `create`, `destroy`, each
for the three levels. *Interaction.* `os_if/sync` keeps the contexts in tables and
calls DSC from every cfg80211, netdev, probe, remove and recovery entry point;
`qdf_is_recovering` and `qdf_is_driver_unloading` turn callers away.

*Hard.* A stop at any level must find out whom it may let go next, anywhere on its
path, from conditions spread over three files; a trigger makes a transition active
on behalf of a thread that is still asleep; drains sleep outside the lock on an
event that counts; destroy aborts the queue without the lock.

*Correct when* transitions on one root-to-leaf path exclude each other, nobody
queued is forgotten, a drained subtree stays without operations until the
transition stops, a destroy aborts whoever is queued and leaves nothing that refers to
the context, and waits end.

### IPA power management (`dataipa/drivers/platform/msm/ipa/ipa_v3/ipa_pm.c`) — modelled in part

*State.* Per client: `state` (seven values), `complete`, `wlock`, the timer of
`deactivate_work`, and the votes taken for it on the counter
`ipa3_active_clients`. Global: the array of clients, the active bitmask, the
current threshold and clock plan, a single-threaded work queue.

*Operations.* `register`, `deregister`, `activate` (atomic context),
`activate_sync`, `deferred_deactivate` (atomic context), `deactivate_sync`,
`deactivate_all_deferred` (AP suspend), the two work functions and the clock
scaling. *Interaction.* Some twenty drivers (rmnet, USB, WDI, MHI, ethernet,
RNDIS/ECM/NCM, ODL...) call it from transmit paths, NAPI, workqueues and teardown.

*Hard.* The state is decided under `state_lock`, but the vote, the wakeup source,
the bitmask and the completion follow after the unlock; the same client is worked
on by callers, by the timer and by the work queue at once.

*Correct when* an active client holds exactly one vote and an inactive one none,
whatever was asked last is what happens in the end, no timer outlives its state,
no waiter is left behind, and a client is freed only when nobody uses it.

### Graphics timelines (`graphics-kernel/kgsl_timeline.c`, `kgsl_drawobj.c`) — modelled in part

*State.* A timeline: `value`, `ref`, the list of `fences` and the sorted list of
`events`, each with its spinlock. A fence is a `dma_fence` with a sequence number;
a timeline object is a drawobj that signals the timeline when the GPU has retired
the commands before it, with `sig_refcount` shared by the pop and the GPU event.

*Operations.* The ioctls create, wait, fence_get, signal, query and destroy; the
submission, pop, event callback and retirement of a timeline object; the release of
a fence. *Interaction.* Processes call the ioctls, the dispatcher pops objects, the
event worker runs callbacks, and whoever drops the last reference of a fence runs
its release.

*Hard.* Two spinlocks, one held over a walk and one for each access; a walk meets
fences whose last reference is already gone; the node on `events` lives in an array
that the retirement frees; a query reads ahead of `value` what the GPU has done.

*Correct when* reference counts are exact, a fence is signalled if and only if its
number is reached (or the timeline is destroyed), nothing on a list is freed, a
later query never answers less, and waits end.

### Camera fences (`camera-kernel/drivers/cam_sync`) — modelled in part

*State.* A table of rows with a bitmap: `state`, `type`, `remaining`, `ref_cnt`,
the completion, the lists of children, parents, callbacks and user payloads, one
spinlock each. A merged fence is a row of type GROUP.

*Operations.* create, get and put of a reference, register and deregister of
callbacks and payloads, signal (kernel and user), merge, wait, destroy, open,
close. *Interaction.* The camera hardware managers signal from interrupt handlers
and work queues while the process creates, merges, destroys and closes; callbacks
run on a high-priority work queue.

*Hard.* An operation on several rows takes their locks one after the other; a
signaller walks its groups by number, on a list it has taken off the row, with no
lock and no reference on them; members are signalled while the merge collects them.

*Correct when* a group is completed when its last member is and not before, with an
error exactly when a member had one; nobody who waits is left behind; no row names a
row that is gone.

### Candidates for later modules

| component | state and operations | hard part | properties |
|---|---|---|---|
| `wlan/.../os_if/sync` | slot arrays for the driver, psocs and vdevs; register, unregister, `trans_start[_wait]`, `op_start`; calls DSC | uses the DSC context after its own unlock (`osif_vdev_sync.c:226`), unregister against a queued waiter | a slot's DSC context is not freed while somebody uses it; unregister ends all use |
| `camera-kernel/drivers/cam_req_mgr` | input queue slots, link states, watchdog, apply/error/flush | SOF triggers, flush and error recovery interleave | a request is applied once and in order |
| `graphics-kernel/kgsl_events.c` | event groups and their worker | retire against cancel | no event lost, each called once |
| `wlan/.../serialization` | active and pending command queues per pdev/vdev, timers | timeout against completion; cancel | at most one active command per vdev; each command ends once |
| `synx-kernel`, `mm-drivers/hw_fence` | fence tables shared with other cores | remote signals, recovery | as for `cam_sync` |
| `mmrm-driver` | clock reservations under a current budget | admission with peak and throttling lists | the budget is never exceeded |

### Not modelled

IPA RM (`dataipa/.../ipa_rm*.c`) is superseded by IPA PM: in this tree nobody
creates resources or requests producers any more. The rest (display, audio, video,
EVA, touch, Bluetooth, fingerprint, SPU, securemsm, DSP RPC, rmnet, UBWC-P, NFC,
the automotive fork of the camera) is dominated by hardware and firmware
interfaces; the device tree is data.

## 2. `Dsc`: the synchronization core

### Correspondence

One critical section under `driver->lock` is one action; what happens between two
of them is split. `TransStart`, `TransStartWait` (queue and sleep), `TranWake`
(`__dsc_tran_wait` returns, triggered or aborted), `TransStop` (with the whole
trigger cascade: `Triggers`), `OpStart`, `OpStop`, `DrainBegin` / `DrainCheck` /
`DrainWake` (the walk of `wait_for_ops`, one context at a time: look at the count
and reset the event under the lock, sleep after it), `UptreeDrainBegin`, `Create`,
`DestroyBegin` / `DestroyAbort` / `DestroyEnd`, `DriverDestroy`, and the two flags
set from outside. `CanTrans` returns the code's status values, which decide
between starting, queueing (`MustQueue`) and refusing. A transition's unique
description string is the thread that asked for it.

Two history variables, `drained` and `todo`, record what a drain has covered.

Destruction, as its callers do it. `dsc_psoc_destroy` and `dsc_vdev_destroy` check
nothing but the absence of children, and are called in three ways:

- by the holder of a transition *above* the context (`DestroyBegin`, "destroy":
  `hdd_close_all_adapters` under the driver transition of the unload), which aborts
  those queued on it;
- under no transition, for a context that was never registered or that nobody uses
  any more (`DestroyBegin`, "discard": the error path of
  `__osif_vdev_sync_create_and_trans`, `hdd_open_adapter_no_trans`);
- by the holder of the context's *own* transition, which unregisters it
  (`Unregister`, "closing"), waits for the operations, stops the transition (`TransStop`,
  whose `LetGo` goes on to "discard") and destroys it with no transition held:
  `wlan_hdd_del_virtual_intf`, and the error path of `hdd_soc_probe` for a psoc.

An unregistered context is in `dying`: callers that found it before may still be
queued on it, no other finds it (`Callable`). In the model the drain comes before `Unregister`; nobody
can begin an operation under the transition, so the order makes no difference.

`CloseAlone` is the set of contexts that are closed under their own transition only
with nobody queued on them. The code does not see to it. Without the vdev in `CloseAlone`,
as in the code, `dsc_destroy_race` shows what happens (Findings); the other runs
and the theorems take `CloseAlone = Nodes`, the discipline under which DSC keeps its
promises. The driver is destroyed last, when all are idle.

Not modelled: `WLAN_DSC_DEBUG` timers, the cached north-bound command, logging. The
lists that `wait_for_ops` walks without the lock are read as a snapshot; the code does
not keep a vdev that is closed meanwhile from being unlinked and freed under the walk.

### Properties

`PathExclusion`, `Ownership` (who is told it holds a transition is who holds it),
`QueueMatchesSleepers`, `NoLostTransition` (every queue has an active transition
whose stop leads to it), `OpsCounted`, `Quiescence` (drained stays drained),
`AbortsAllQueued` (what is queued when a destroy begins is aborted: no stop elsewhere
triggers it during the unlocked loop), `NoDangling`; `DriverWaitEnds`, `PsocWaitEnds`, `VdevWaitEnds`,
`DrainEnds`, `UptreeDrainEnds`.

### What DSC promises: `HierLock`

`HierLock` is the contract without queues, counters and events. Its state is who
holds each context, which context each caller has an operation in flight on, and
which contexts a holder was told are quiet. A caller *acquires* a context on whose
path nobody holds one; a *release* may give others theirs, as many as do not
conflict; an operation *begins* only where nobody holds a context of the path; a
holder learns that a context is *quiet* only when no operation is in flight there.
`DscRefinement` maps `holder` to `active_desc`, `op` to the contexts of the threads
that are in an operation, and `quiet` to the drained contexts; `ImplementsHierLock`
is `HierLock`'s specification under this mapping. Queueing, counting, waking,
creating and destroying are invisible; a stop with its whole cascade of triggers is
one release.

### Runs

| run | instance | shows |
|---|---|---|
| `dsc_safety` | 1 psoc, 2 vdevs, 3 threads, operations on driver, psoc and a vdev | all safety invariants, and `ImplementsHierLock` |
| `dsc_live` | 1 psoc, 2 vdevs, 3 threads, operations on one vdev, fairness | every `trans_start_wait` returns and every drain ends |
| `dsc_uptree_lost_wakeup` | 2 vdevs, 3 threads, fairness | **violated**: see Findings |
| `dsc_destroy_race` | 1 psoc, 1 vdev, 3 threads, no operations; a vdev may be closed with callers queued on it | `AbortsAllQueued` **violated**: see Findings |

*Bounds.* Three threads are a holder, a waiter and an actor that changes the
tree's state meanwhile. Two vdevs under one psoc are siblings, the case on which
the conditions of the code depend. Several psocs and longer queues are not run:
the theorems of section 7 hold for every tree and every set of threads. `dsc_live` has
operations on a vdev only: with operations on the psoc the lost wakeup of the
finding below leaves a holder asleep, and whoever waits for its transition waits
with it. `Watched` are the threads the liveness properties speak of; threads are
interchangeable, so one stands for all. `MaxDone` saturates a completion's count: a waiter
resets the event under the lock before it sleeps, so one pending wakeup is as
good as many. Operations are bounded by the threads that are in one.

*Fairness.* `WF(Progress(t))`: a thread inside a call runs, and operations end.
`SF(TransStop(t))`: a holder, which may drain again and again in between, stops in
the end. Starting anything is never fair. Waits below the driver end only if the
levels above pause: the code gives these precedence and promises no more.

## 3. `IpaPm`: IPA power management

### Correspondence

What a caller or a work function does under `state_lock` is one action. Between
the locked parts every step that others can interleave with is an action of its own:
taking the vote (`SyncVote`, `ActivateWorkVotes`), giving it back with the wakeup
source (`Devote`), the bitmask (`SetBit`, `ClearBit`; after it `ipa_pm_activate` leaves the
clock scaling to the work queue, everybody else does it in place), `complete_all`
(`Complete`), the two halves of `cancel_delayed_work_sync` (`Cancel`, `Flush`),
the unlocked look at the state (`Look`), and the two halves of `do_clk_scaling`
(`ScaleSample` under `client_mutex`, `ScaleApply` after it). `pc`, `client` and
`call` say where each thread and the one work-queue thread (`Worker`) are.

External, modelled from how the code uses it: `queue_work` (no effect on a pending
work), `queue_delayed_work` (no effect while pending or being cancelled), the
removal of a cancelled work (`Unqueue`), the timer, the FIFO of a single-threaded work queue.

Abstractions. The vote counter `ipa3_active_clients.cnt` is split by client, so that
one client's leak cannot hide behind another's vote; other users of the counter may
keep the clock on, so a non-blocking vote may always succeed and fails only when no
client votes. `skip` is the set of clients registered with `skip_clk_vote`, chosen
at registration among `MaySkip`. Throughput, groups and exceptions are abstracted: a plan is the pair
of what it was computed from, the active clients and the bitmask the threshold was
chosen for. `wanted` is a history variable: what the last call asked for.

`Calls` says which functions the threads call and `Serial` which of them a
driver makes only when it makes no other call on the client and the AP is not being
suspended (teardown paths). Unrelated drivers use different subsets; a run picks one.
`ClientAssumption` has no APPS client that skips votes: no driver registers one.

Not modelled: `set_throughput` and the throughput algorithm, the exception list,
pipe association and `handle_suspend`, client callbacks, dummy clients, statistics,
allocation failures, the TAG process before gating, the retry when the hardware is
busy.

### Properties

`ClockHeld` (an active client has a vote), `VotesBalance` (exactly one or none when
nothing is going on), `TimerNotLost` (a timer-set state has its timer) and, where
no suspend interferes, `TimerMatchesState` (and no timer outlives such a state),
`ActivationMatchesState` (in progress exactly while somebody is about to finish),
`LastCallWins`; `ActivationEnds`, and `DeactivationHappens`: a client does not stay in
`PENDING_RESCHEDULE`, and it does not stay among the two pending states for ever unless
callers put its deactivation off again and again. `NoOverdraft` is an
assertion of the code; `WaitEnds` and `EffectsSettle` (`WakeHeld` and `PlanFresh`)
say what its comments promise.

### Runs

| run | calls (serial ones in italics) | shows |
|---|---|---|
| `ipapm_traffic` | activate, activate_sync, deferred_deactivate, deactivate_all_deferred; 2 threads, client with or without votes, fairness | `TypeOK` and five invariants: state, timer, work queue, vote and last request agree while the AP suspends; activations end, deactivations happen |
| `ipapm_teardown` | activate_sync, deferred_deactivate, *deactivate_sync*, *deregister*; 3 threads | teardown against the timer and the running deferred work, and registration again |
| `ipapm_overdraft`, `ipapm_sync_wait`, `ipapm_effects` | the smallest set of calls that shows it | **violated**: see Findings |

`ipapm_teardown` leaves out the activation by work queue because `ipapm_overdraft`
shows what happens with it; its `deregister` therefore never has to wait for one, and
that branch of `DeregisterDecides` is in the model but in no passing run. `ipapm_traffic`
has synchronous activation: of `ipapm_sync_wait` it says nothing, for what stays behind
there is the caller that waits, not the state of the client. Its `VIEW NoPlan` leaves out the bitmask, the
threshold, the clock plan and the sample it is computed from: no guard reads them,
no other variable depends on them and no property of the run speaks of them.

*Bounds.* Every property but `PlanFresh` is about one client at a time, and another
client is felt only through "the clock may be on", which is always allowed; so one
client (a violation of `PlanFresh` takes two). Two threads are two callers beside the work queue
and the timer; the third of `ipapm_teardown` overtakes a pair of them.
`MaxVotes = 4` is never reached in a passing run.

*Fairness.* `WF` of the work queue's thread, of each timer, and of the steps of a
call that has begun; no call is ever required to be made.

## 4. `KgslTimeline`: graphics timelines

### Correspondence

One timeline is modelled: two share nothing but the table of ids, and `Create`
gives the next one once the last reference is gone. An ioctl is `Lookup`
(`kgsl_timeline_by_id` takes a reference), its own steps, and `PutTimeline`. `wait`
and `fence_get` go through `AllocFence` (value compared and fence listed under the
locks), `Install` or `EnableSignaling`, `Wake` or `TimeOut`, and `PutFence`; the
last reference leads to `Release`, which takes the fence off the list in a later
step, so that a walk can meet it with a count of zero. `SignalStart` raises the
value, takes the events it passes and puts the fences that it can still reference
on a stack list under both locks; `WalkFence` signals them one at a time under
`timeline->lock`. `DestroyName`, `DestroyCollect`, `DestroyLock` and `DestroyFence`
are destroy's four sections. A timeline object is `AddTimeline` (submitted, event
registered), `Retire` (the GPU passes its timestamp), `Fire` (the event callback) and
`Pop` (the dispatcher), which share `sigref`: the last of the two signals the
timeline and ends the object (`ObjEnd`). `Answer` is what a query returns.

External: `dma_fence_signal_locked`, `dma_fence_put`, polling and closing a
`sync_file`. Not modelled: waits for any or all of several timelines (fence arrays),
failed allocations other than a fence's and its file's, 64-bit wrap of `value`.

### Properties and run

`TimelineCounted` and `FenceCounted` (the counts are exact), `FreedClean` (the
`WARN_ON`s of the free), `NoMissedFence`, `EventsPending`, `ImplementsTimeline` (below),
`QueryMonotonic` and `WaitEnds`, all in `kgsl_timeline`: one thread that waits or
takes a fence, one that signals, queries and destroys, one fence, two timeline
objects. *Bounds.* `Fences` and `Objs` are the structures that exist at once;
`MaxSeqno = 2` gives a number below, at and above a fence's; two objects are
popped, retired and called back in every order, one with each number. A fence's
bookkeeping does not depend on other fences, as walks treat each alike.
*Fairness.* `SF` of the steps of a call that has begun and of what the GPU, the
dispatcher and the event worker do for a submitted object: strong, since
`timeline->lock` is a spinlock under contention and these are fair (queued)
spinlocks. Ioctls are never required.

### What a timeline promises: `Timeline`

`Timeline` is the contract without references, locks, walks and events. The value and
what a query knows *advance* and never go back, and a query never knows less than the
value. A fence is *issued* with a number, signalled from the start if that is reached;
it is *signalled* only when the value has reached its number; it is *broken* only when
the timeline has lost its id. It is *freed* only after it was *abandoned* by the last
who wanted it, and nobody wants it again after that. A new timeline is *created* when
nothing is left of the one before. `KgslTimelineRefinement` maps `known` to `Answer` and
`wanted` to the fences that a file descriptor or a call in progress refers to: the
references that walks take for themselves are the driver's own business, which is why
a walk may be the one who frees a fence. `ImplementsTimeline` is `Timeline`'s
specification under this mapping. It implies `SignalTruthful`, a part of the inductive
invariant, and `FenceKept`, what whoever refers to a fence can rely on.

## 5. `CamSync`: camera fences

### Correspondence

An action is a section under one row's lock. `CreateReserve` / `CreateInit`,
`GetObjRef`, `PutObjRef`, `RegisterCallback`, `DeregisterCallback` and their payload
twins, `Signal` (with `SignalBody`: drop the reference, set the state, dispatch, take
the parents) followed by one `NotifyParent` for each group, `UserSignal` (takes a
reference first), `MergeBegin` / `MergeCheck` (the members are checked, each under its
own lock), `MergeReserve` or `MergeNoRow`, `MergeInit` / `MergeLink` (one member at a
time, with the new row locked throughout) / `MergeEnd` or `MergeFail` / `MergeUnlink` /
`MergeAbort`, `Destroy` followed by `DestroyChild`, `DestroyParent` and `DestroyEnd`,
and `CloseBegin` ... `CloseEnd` (signal all, flush the work queue, destroy all).
`RunCallback` is the work queue. `lock` is held only by the calls that keep a row
over several sections. `pending` and `failed` are history: the members of a group
that have not been signalled, and the groups with a member in error.

`PutObjRef` has no check, as in the code: it may come after the object is gone, and on
a row that is free or used again. `MaxLate` bounds how far below zero such late puts take the
count; 0 means that references are paired, as their users do.

`cam_sync_wait` has no action. It changes no field that another call reads, but it is not
wholly passive: while it sleeps it is linked in the row's completion, which destroy
clears (section 6). The sleepers of a completion are not modelled.
Not modelled either: associated dma and synx fences, the monitor, the debugfs switch that
runs callbacks in the signaller.

### Properties and runs

`GroupWaitsForAll`, `RemainingCounted` (`remaining` is the members to come plus the
signallers on their way), `GroupStatus` (no error lost or invented),
`NothingLeftBehind`, `CallbackStatus`, `NoDanglingParent`; `MembersCovered` is the
row's own comment on `remaining`.

| run | instance | shows |
|---|---|---|
| `cam_sync` | 3 rows, hardware that signals and a process that does the rest, a row not reused while a call holds its number | all of them |
| `cam_stale_parent` | the same with reuse | **violated**: see Findings |

`Reuse = FALSE` is an assumption the code does not enforce:
`find_first_zero_bit` hands out the lowest free number at once. `cam_sync` shows
what holds as long as no such collision happens, `cam_stale_parent` what happens with
one. *Bounds.* Three rows are a group and two members, the smallest merge there is
(groups of groups are refused). A member shared by two groups takes four rows and
is out of this run's reach: a signaller notifies its groups one at a time, and what
it does to one does not look at another. Two threads are the two sides of the
lock in every pair of calls on a row; `Calls` gives each its role. One callback and
one payload: a row treats each on its list alike. `MaxRef = 1` bounds `GetObjRef` in `cam_sync`;
with the reference a user's signal takes the counts are 0, 1 and 2. `MaxLate` is 0 in
`cam_sync` and 1 in `cam_stale_parent`. There is no fairness and no liveness: the code
gives every wait a timeout.

### What cam_sync promises: `Fences`

`Fences` is the contract without locks, counts, references, callbacks and calls in
progress. A fence is *created* active, is *signalled* once, and keeps its outcome
until it is *destroyed*. A *merged* fence awaits members that report to it; a signal
reaches all the groups of its fence in one step; a merged fence *completes* when it
awaits nobody, with SUCCESS exactly when no member failed. A member destroyed before
it was signalled never reports, and its group stays active: this is what the code
does (section 6), so it is in the contract.

`CamSyncRefinement` maps a row to a fence when it is valid and its lock is free (a
merge keeps its row locked while it collects), with its outcome once it is signaled
with `remaining = 0`, the condition under which `cam_sync_register_callback` queues a
callback at once. `awaits` and `bad` are the history variables `pending` and `failed`
of the groups that can be seen, and `groups` the `parents` lists without the groups
that are being made or destroyed. `ImplementsFences` is the specification of `Fences`
under this mapping, `OutcomeFinal` the action property that an outcome stands until
the object is destroyed. Both hold on the instance of `cam_sync` (put
`PROPERTY ImplementsFences` and `PROPERTY OutcomeFinal` in `MCCamSync.cfg`). They are left out of the runs for their time;
section 7 proves them.

## 6. Findings

Each is a run that TLC finds violated, quoted in `PROJECT.json` with the comment
or assertion it contradicts.

- `dsc_uptree_lost_wakeup`: two vdevs of one psoc drain upwards at the same time
  and both sleep on the psoc's event; the last operation signals it once
  (`complete`), one of them sleeps for ever.
- `dsc_destroy_race`: the holder of a vdev's own transition unregisters the vdev, stops
  and destroys it (`wlan_hdd_del_virtual_intf`). A caller queued on the vdev is not
  triggered by that stop if a psoc or driver transition is queued too, which goes first;
  the stop of *that* transition then triggers the caller between two steps of
  destroy's unlocked loop, and the caller is told that it holds a transition on a vdev
  that is freed next. Seen in 13 steps: t1 holds the vdev and drains, t2 queues on it, t3
  queues on the psoc, t1 unregisters and stops (t3 is triggered), t1 enters destroy, t3
  stops and triggers t2.
- `ipapm_sync_wait`: a synchronous activation announces itself as
  `ACTIVATE_IN_PROGRESS` but completes nobody; a second one on the same handle
  sleeps until some unrelated activation goes through the work queue.
- `ipapm_overdraft`: `complete_all` comes after the unlock that publishes the new
  state, so it may complete the *next* activation; `deactivate_sync` then returns
  from its wait early, does not look at the state again but for `DEACTIVATED`, and
  gives back a vote that was never taken.
- `ipapm_effects`: the wakeup source is dropped after the lock, under a client that
  was activated meanwhile; the vote, being counted, survives the same race.
  `PlanFresh`, the other conjunct of `EffectsSettle`, fails in the same way: the
  clock plan of an older sample may be applied last (`Clients = {c1, c2}`,
  `Apps = {}`, `Calls = Serial = {"activate_sync"}`).
- `cam_stale_parent`: a signaller takes the list of its groups off the row and
  unlocks; a group on it is destroyed and its number handed out again, and the
  signaller counts down and signals an object that it has nothing to do with.

Met while modelling or reading, and listed as hazards without a run:

*DSC.* `dsc_psoc_wait_for_ops` walks `psoc->vdevs` without the lock
(`wlan_dsc_psoc.c:381`), while the holder of a vdev's own transition may unlink and free
that vdev.

*IPA.* Between cancel
and lock of `deactivate_all_deferred` a timer can be armed that then runs over a
deactivated client (harmless but for a `WARN_ON`). And `deregister` waits for the
completion, not for the work function, whose tail still uses the client after
`complete_all`; released by a late `complete_all` of an earlier activation, it even frees a
client whose next activation is still queued.

*Timelines.* An ioctl that looked a timeline up before its id was removed may add a
fence after destroy has collected the list (`kgsl_timeline.c:608`): nobody can find
the timeline to signal that fence, and its wait ends by timeout only. `WaitEnds`
does not promise more. When `kgsl_add_event` fails, `kgsl_drawobj_add_timeline`
frees the array but keeps `count` (`kgsl_drawobj.c:1076`, `1110`), and the destroy
that follows walks a NULL array; the failure is not in the model.
`dma_fence_set_error` in destroy may meet a fence that a signal has just signalled,
for which the kernel warns.

*Camera fences.* The error return of `cam_sync_merge` leaves the new row's spinlock
locked (`cam_sync.c:529`): in the model (`MergeAbort`) every later call on the row
waits for ever, which is why the runs do not check for deadlock. A user payload
registered on a group in a signaled state with members to come gets its event at
once (`cam_sync.c:872`), unlike a callback. Destroying an active member leaves
`remaining` of its group as it was, so the group is never completed; an object with
no reference cannot be signalled (`cam_sync_signal` on `ref_cnt` 0 returns success
and does nothing). `cam_sync_close` says "Signal all ACTIVE objects as ERR"
(`cam_sync.c:2466`) but signals only those with exactly one reference.
`cam_sync_merge` checks its members before it reserves the group's row: a member
destroyed in between may give the group its number, and the merge then spins on the lock
it holds (`cam_sync.c:526`, `cam_sync_util.c:371`; with `Reuse = TRUE` the model's `MergeLink`
waits for ever). A late `cam_sync_put_obj_ref` takes a reference from whatever object is
in the row by then (`cam_sync.c:581`). And destroy clears the row's completion with
`memset` (`cam_sync_util.c:615`) while a thread may be asleep in it (`cam_sync.c:645`).

## 7. Proofs

Every safety and action property that a passing run checks is a theorem, for every
value of the constants that meets the named assumptions of its module. (Those
assumptions are few: actors, rows and trees are finite and distinct from the
values that stand for "none", bounds are positive; TLC evaluates them on each
instance.) The invariants below were found by checking them with TLC on the
instances of the runs, and smaller ones, until they were inductive; then proved
with one lemma for each part and one step for each action.

### `Dsc`

`DscProofs` proves, for every tree and every finite set of threads (assumptions
`TreeAssumption`, `ThreadAssumption`, `BoundAssumption`), as long as contexts are closed
under their own transition only with nobody queued on them (`CloseAlone = Nodes`, a
hypothesis of the theorems; the code does not ensure it, and `dsc_destroy_race` shows what
happens without it):

- `Invariance`: `Spec => []IInv`, and from it `TypeCorrectness`, `Exclusion`,
  `OwnershipHolds`, `DrainedStaysQuiet`, `NothingDangles`,
  `QueuesMatch`, `OperationsCounted`;
- `DestroyAbortsAll`: `Spec => AbortsAllQueued`;
- `NobodyForgotten`: `Spec => []NoLostTransition`.

`IInv` is the conjunction of the safety invariants with five facts that they need.
`WalkOnPath`: a drain stays on its holder's path, so an operation refused because of
the transition is one the drain would have met. `SleepersWakeInTime`: an event
that is pending while somebody sleeps on it means that the count is zero, because
the sleeper reset it under the lock when the count was not; this gives
`Quiescence`. `DyingEnds`, `ClosedAlone`, `DestroyCovered`: an unregistered context is being
closed by its holder, with nobody queued on it, or has exactly one destroyer; that
destroyer either holds a transition above it, and then `PathExclusion` keeps every
trigger away from it while the abort loop runs without the lock, or nobody is queued
there and nobody can come. Hence `DestroyAbortsAll`. `Exclusion` needs `Ownership` and
`QueueMatchesSleepers` only for types of what a trigger dequeues; its heart is
`TriggersApart`: the contexts one stop triggers are pairwise unrelated and
unrelated to whatever is still active.

`NobodyForgotten` is proved beside `IInv`: a queued context is *awaited* by an active
transition related to it or to a queued ancestor. A caller queues only because of
such a transition (`MustQueueAwaited`). A stop that removes the awaited one either
triggers the queue, triggers the ancestor (which then is the active one), or is
kept from it by another active transition on the path (`TransStopAwaited`).

`DscRefinementProofs` proves `Refinement`, `Spec => Lock!Spec`: every step of DSC is
a step of `HierLock` or leaves what the lock speaks of alone. A stop with its
trigger cascade is one release; that whom it gives their contexts to do not
conflict is `PathExclusion` after the step. A drain that finds a count of zero is
the lock's "quiet": `OpsCounted` turns the count into "no operation in flight", and
`WalkOnPath` puts the context under the holder.

### `KgslTimeline`

`KgslTimelineProofs` proves for any finite sets of threads, fences and timeline
objects and any largest sequence number (`ActorAssumption`, `BoundAssumption`) that
the two reference counts are exact (`NoTimelineLeak`, `NoFenceLeak`), that lists are
empty and clean when they are freed (`FreedWithEmptyLists`), that a fence is
signalled neither early (`NeverEarly`) nor missed (`NeverMissed`), that the event
list is sorted and holds what has yet to come (`EventsSorted`), and the action
property `QueriesNeverGoBack`.

The invariant adds to the properties: the stages of threads, objects and walks;
`FenceOwners`, that one thread at most releases a fence, with no reference left, and
that two threads share a fence only where each is about to put or release it;
`WalkStages`, that a walk is under way exactly while its actor holds
`timeline->lock`; `ListedFences` and `ListedEvents`, what may be on the two lists.
The counts are sums of cardinalities of sets of holders, and a step changes each set
by one element at most. The sorted insertion needs that some event is the first
with a larger number, which is the well-ordering of the naturals applied to the
list's indices. `QueryMonotonic` follows from `AnswerIsMost`: what a query answers is
the largest number that was retired or signalled, and that set only grows while the
timeline lives.

`KgslTimelineRefinementProofs` proves `Refinement`, `Spec => ImplementsTimeline`, and from
it `FencesReliable`, `Spec => FenceKept`. A step that leaves the id and the fences
alone is an *advance* by `ValueGrows` and `AnswerGrows`, whatever it does to events and
objects; `StepWants` lists the steps after which the same fences are wanted, among
them the file that hands its reference to the thread that closes it. Where a fence is
freed, by its release or by a walk that held the last reference, `FenceCounted` turns
the count into "wanted by nobody". One fact had to be added to the invariant,
`DestroyedUnnamed` (`NamelessUnderDestroy`): while a destroy is under way no new
timeline can have the name, because the destroyer's reference is counted in `ref` and a
timeline is created only at zero. Without it, an error could be given to the fence of
a timeline that lives.

### `CamSync`

`CamSyncProofs` has two layers, for any finite table and any finite set of threads
(`ThreadAssumption`, `BoundAssumption`).

*Whatever is reused*: `Structure` (`Spec => []StructInv`), with `TypeCorrectness` and
`NoDanglingGroup`. Its parts: one owner at most for a row that is being made or
destroyed, whose row is invalid, or locked while a merge collects members; a
link from a member to a group is backed by a group that is valid or by the owner that
is about to remove the link; a row that is made again has no callback of the object
before.

Both layers hold for every `MaxLate`: no invariant speaks of the count of references but
for its type.

*With `Reuse = FALSE`*: `CountExact`, `NeverTooEarly`, `StatusExact`, `NothingWaits`,
`CallbacksTold`. This is the assumption that the code does not enforce, and
`cam_stale_parent` shows the properties' failure without it. `CountInv` says that
`remaining` is the members to come plus the signallers on their way, and traces
every error and every queued callback to the member or object it came from. The
steps are classified once: quiet for the counts, making a row, counting a group
down, signalling. A signal moves a member from `pending` to the notifiers of each of
its groups, so the sum stays; a notification takes one from both sides.
`FreshCounts`, that a row taken from the bitmap has no notifier left, is where
`Reuse = FALSE` enters.

`CamSyncRefinementProofs` proves, again with `Reuse = FALSE`, `Refinement`
(`Spec => ImplementsFences`) and from it `OutcomeStands` (`Spec => OutcomeFinal`). Five
kinds of step are seen by users of fences: the end of a creation, the section of a
signal that decides, the end of a merge, the start of a destruction, and the
notification of a group that takes its `remaining` to zero, which is the group's
completion. All others are invisible, for three reasons, each a lemma: they leave what
is mapped alone (`KeptUnseen`), they remove links to or from a row that cannot be seen
any more (`ForgetUnseen`), or they work on a row that cannot be seen yet
(`HiddenUnseen`). That a completed group awaits nobody is `GroupWaitsForAll`, and that
its status is right `GroupStatus`, both after the step.

The invariant of `CamSyncProofs` is not enough for the end of a merge: between the
section that linked a member and the section that shows the group, the member may
have been signalled or destroyed, and those that still report to the group must be
active ones. That is `LinkedActive`, which `LinkedStaysActive` proves: a signal takes
the object off its groups in the section that decides about it, a destruction
starts by taking the row's lists, and a merge links active members only.

### `IpaPm`

`IpaPmProofs` proves all safety properties of the passing runs for any number of
clients and any finite number of threads, for calls that are `Disciplined`. That is
a hypothesis of the theorems and not an assumption of the model, because the code does
not enforce it:

- `deactivate_sync` and `deregister` are made while no other call is (they are in
  `Serial`), as drivers do in their teardown paths;
- a client that is torn down is not activated through the work queue. Without this
  the count is wrong: `ipapm_overdraft`;
- a structure that is freed and registered again keeps its kind of vote (`MaySkip` is
  empty where `deregister` is called): the tail of a deferred work may return the vote
  of the old registration, and it looks at `skip_clk_vote` when it does.

Both instances `ipapm_traffic` and `ipapm_teardown` are disciplined. The invariant:

- *stages*: where each call and each work can be, and that its client is registered;
- *`OneFinisher`*: an activation in progress is on the queue, with the work queue's
  thread, or with one synchronous caller, never with two. So the work function finds
  the state in progress, and publishing the result ends it: `ActivationsMatch`;
- *`VotesCounted`*: the votes of a client are the one its state stands for, plus one for
  each actor that has taken one before or has yet to return one after a change of the
  state. A step changes either the state or one actor, and the votes with it;
  `ClockIsHeld`, `VotesBalanced` and "never below zero" are instances;
- *`SyncTeardown`*, *`TeardownAlone`*: between its first flush and its last the deferred
  work cannot interfere with `deactivate_sync`, and nobody else is on the client, so
  the vote it returns is the state's;
- *`OneCanceller`*, *`TimerKept`*: a work that is being cancelled has one canceller, and
  a state that needs a timer has one or somebody who will change the state. A timer
  that could not be armed because the work was being cancelled is the canceller's
  business: `TimerIsNotLost`;
- *`WantedState`*: the state is what the last call asked for, except in a synchronous
  activation that is still under way: `LastCallIsObeyed`.

`TimerMatches` has a further hypothesis, that the AP does not suspend
(`deactivate_all_deferred` is not called): between its cancel and its lock a timer can
be armed that outlives the state. `TimerInv` then says that a deferred work is on its
timer, on the queue or running, one at a time, and only in the states for it.

### Only model-checked

Liveness (fairness and `ENABLED` are out of the prover's reach): the waits and drains
of `Dsc`, `ActivationEnds` and `DeactivationHappens`, `WaitEnds` of `KgslTimeline`.
The refinement of `Fences` is safety only: that a merged fence completes needs every
signaller to run on, and no call waits for it without a timeout.
The findings are violated and have no theorem; what holds in their place is what the
hypotheses above delimit.

## 8. Plan

1. `OsifSync`: the tables in front of DSC, their callbacks between unlock and wait,
   and their own use of a context after their unlock, composed with `HierLock`. `Refinement`
   is what allows the composition.
2. `CamReqMgr` slots and links, on top of `CamSync`; WLAN serialization queues with
   timeouts; `kgsl_events.c`.
3. For `IpaPm`, the weakest discipline for `VotesCounted`: a driver that activates
   through the work queue and waits for it before it tears down.
