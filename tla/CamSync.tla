------------------------------ MODULE CamSync ------------------------------
(***************************************************************************)
(* The fences of the camera driver (camera-kernel/drivers/cam_sync):       *)
(* cam_sync.c and the table of cam_sync_util.c.                            *)
(*                                                                         *)
(* A sync object is a row of a fixed table, named by its number.  It is    *)
(* created by user space, referenced by the hardware contexts that will    *)
(* signal it, and waited for through kernel callbacks, user payloads and a *)
(* completion.  A merged object is a row of type GROUP that is signalled   *)
(* once all its members are.  Every row has a spinlock; an operation on    *)
(* several rows takes them one after the other, and a signaller walks the  *)
(* groups of the object on a list it has taken off the row, with no lock   *)
(* and no reference on them.                                               *)
(*                                                                         *)
(* An action is a section under one row's lock.  Associated dma and synx   *)
(* fences are not modelled, and neither are the monitor (a debugging aid)  *)
(* and the debugfs switch that runs callbacks in the signaller.            *)
(* cam_sync_wait has no action: it waits for the completion of the row     *)
(* (signaled) with a timeout, then reads the state.  While it sleeps it is *)
(* linked in the completion, which destroy clears with the row; the        *)
(* sleepers of a completion are not in the model.                          *)
(***************************************************************************)
EXTENDS Integers, FiniteSets

CONSTANTS
  Threads,    \* the threads and interrupt handlers that call in
  Rows,       \* bound: 1 .. CAM_SYNC_MAX_OBJS - 1
  Callbacks,  \* bound: the struct sync_callback_info in existence at once
  Payloads,   \* bound: the struct sync_user_payload in existence at once
  NoThread,   \* a lock that is free
  NoRow,      \* a thread that is in no call
  Statuses,   \* the statuses signallers use
  MaxRef,     \* bound: the references taken on an object
  MaxLate,    \* bound: how far below zero late references take the count
  Calls,      \* the calls each thread makes
  Reuse       \* a row may be reused while a call still holds its number

SignaledStates == {"SUCCESS", "ERROR", "CANCEL"}

CallNames == {"create", "signal", "user_signal", "merge", "destroy", "close"}

ASSUME ThreadAssumption ==
  /\ NoThread \notin Threads /\ NoRow \notin Rows
  /\ IsFiniteSet(Threads) /\ IsFiniteSet(Rows)

ASSUME BoundAssumption ==
  /\ Statuses \subseteq SignaledStates
  /\ MaxRef \in Nat /\ MaxLate \in Nat /\ Reuse \in BOOLEAN
  /\ Calls \in [Threads -> SUBSET CallNames]

VARIABLES
  bitmap,    \* sync_dev->bitmap: the rows in use
  row,       \* sync_dev->sync_table
  lock,      \* who holds a row's spinlock over several steps
  cb,        \* of each callback: its object, its status, where it is
  eventq,    \* sync_dev->cam_sync_eventq is set: the device is open
  pc,        \* where each thread is
  obj,       \* the object its call is about
  status,    \* the status it signals
  list,      \* its list of rows still to visit: parents, children or members
  parents,   \* its second list: the groups destroy visits, the members checked
  closer,    \* who is in cam_sync_close
  phase,     \* the loop it is in
  sweep,     \* the rows its loop has still to visit
  waitfor,   \* the works it flushes
  pending,   \* history: the members of each group that were not signalled
  failed     \* history: the groups with a member signalled with an error

rowVars == <<bitmap, row, lock>>
threadVars == <<pc, obj, status, list, parents>>
closeVars == <<closer, phase, sweep, waitfor, eventq>>
history == <<pending, failed>>
vars == <<bitmap, row, lock, cb, eventq, pc, obj, status, list, parents,
          closer, phase, sweep, waitfor, pending, failed>>

-----------------------------------------------------------------------------

\* A row after memset, and after cam_sync_init_row.
ZeroRow == [state |-> "INVALID", type |-> "INDV", remaining |-> 0, ref |-> 0,
            signaled |-> FALSE, children |-> {}, parents |-> {},
            callbacks |-> {}, payloads |-> {}]

InitRow(type) == [ZeroRow EXCEPT !.state = "ACTIVE", !.type = type]

NoCallback == [at |-> "none", obj |-> NoRow, status |-> "none"]

Unlocked(r) == lock[r] = NoThread

\* An ioctl can be issued: the file is open and not being released.
Open == eventq /\ closer = NoThread

Valid(r) == row[r].state # "INVALID"

\* The calls in progress that will still use the number r.
Named(r) == \E t \in Threads : r \in {obj[t]} \cup list[t] \cup parents[t]

\* find_first_zero_bit and test_and_set_bit; which free row it is depends on
\* what is freed in between.
Reserve(r) ==
  /\ r \notin bitmap /\ (Reuse \/ ~Named(r))
  /\ bitmap' = bitmap \cup {r}

\* A thread makes a call.
Enter(t, call) == pc[t] = "idle" /\ call \in Calls[t]

\* A call goes on, or returns: cam_sync_close to its loop, the others to the
\* caller.
Goto(t, at) == pc' = [pc EXCEPT ![t] = at]

Return(t) ==
  /\ Goto(t, IF closer = t THEN phase ELSE "idle")
  /\ obj' = [obj EXCEPT ![t] = NoRow]
  /\ status' = [status EXCEPT ![t] = "none"]
  /\ list' = [list EXCEPT ![t] = {}]
  /\ parents' = [parents EXCEPT ![t] = {}]

Init ==
  /\ bitmap = {}
  /\ row = [r \in Rows |-> ZeroRow]
  /\ lock = [r \in Rows |-> NoThread]
  /\ cb = [k \in Callbacks |-> NoCallback]
  /\ eventq = TRUE
  /\ pc = [t \in Threads |-> "idle"]
  /\ obj = [t \in Threads |-> NoRow]
  /\ status = [t \in Threads |-> "none"]
  /\ list = [t \in Threads |-> {}]
  /\ parents = [t \in Threads |-> {}]
  /\ closer = NoThread /\ phase = "none" /\ sweep = {} /\ waitfor = {}
  /\ pending = [r \in Rows |-> {}]
  /\ failed = {}

-----------------------------------------------------------------------------
(* Creation and references                                                 *)

\* cam_sync_create, an ioctl: the bit first, then the row under its lock.
CreateReserve(t, r) ==
  /\ Enter(t, "create") /\ Open /\ Reserve(r)
  /\ Goto(t, "create")
  /\ obj' = [obj EXCEPT ![t] = r]
  /\ UNCHANGED <<row, lock, cb, status, list, parents, closeVars, history>>

CreateInit(t) ==
  /\ pc[t] = "create" /\ Unlocked(obj[t])
  /\ row' = [row EXCEPT ![obj[t]] = InitRow("INDV")]
  /\ Return(t)
  /\ UNCHANGED <<bitmap, lock, cb, closeVars, history>>

\* cam_sync_get_obj_ref, by a hardware context when a request is submitted: on
\* the objects it will signal, which groups are not.
GetObjRef(r) ==
  /\ Unlocked(r) /\ row[r].state = "ACTIVE" /\ row[r].ref < MaxRef
  /\ row[r].type = "INDV"
  /\ row' = [row EXCEPT ![r].ref = @ + 1]
  /\ UNCHANGED <<bitmap, lock, cb, threadVars, closeVars, history>>

\* cam_sync_put_obj_ref, when the submission fails: no lock, no check.  The
\* object may be destroyed since, and its row free or used for another one.
PutObjRef(r) ==
  /\ row[r].ref > 0 - MaxLate
  /\ row' = [row EXCEPT ![r].ref = @ - 1]
  /\ UNCHANGED <<bitmap, lock, cb, threadVars, closeVars, history>>

-----------------------------------------------------------------------------
(* Callbacks and payloads                                                  *)

Signaled(r) == row[r].state \in SignaledStates

\* Mutant: the callback is put on the list whatever the state of the object.
RegisterCallbackLate(k, r) ==
  /\ Unlocked(r) /\ Valid(r) /\ cb[k].at = "none"
  /\ row' = [row EXCEPT ![r].callbacks = @ \cup {k}]
  /\ cb' = [cb EXCEPT ![k] = [at |-> "list", obj |-> r, status |-> "none"]]
  /\ UNCHANGED <<bitmap, lock, threadVars, closeVars, history>>

\* cam_sync_register_callback: queued at once on an object that is signalled.
RegisterCallback(k, r) ==
  /\ Unlocked(r) /\ Valid(r) /\ cb[k].at = "none"
  /\ IF Signaled(r) /\ row[r].remaining = 0
     THEN /\ cb' = [cb EXCEPT ![k] =
                      [at |-> "work", obj |-> r, status |-> row[r].state]]
          /\ UNCHANGED row
     ELSE /\ cb' = [cb EXCEPT ![k] =
                      [at |-> "list", obj |-> r, status |-> "none"]]
          /\ row' = [row EXCEPT ![r].callbacks = @ \cup {k}]
  /\ UNCHANGED <<bitmap, lock, threadVars, closeVars, history>>

\* cam_sync_deregister_callback: a callback that is queued already still runs.
DeregisterCallback(k, r) ==
  /\ Unlocked(r) /\ Valid(r) /\ k \in row[r].callbacks
  /\ row' = [row EXCEPT ![r].callbacks = @ \ {k}]
  /\ cb' = [cb EXCEPT ![k] = NoCallback]
  /\ UNCHANGED <<bitmap, lock, threadVars, closeVars, history>>

\* cam_sync_handle_register_user_payload: an object in a signalled state gets
\* its event at once, even a group with members to come; any other keeps the
\* payload.
RegisterPayload(p, r) ==
  /\ Open /\ Unlocked(r) /\ Valid(r) /\ ~Signaled(r)
  /\ \A q \in Rows : p \notin row[q].payloads
  /\ row' = [row EXCEPT ![r].payloads = @ \cup {p}]
  /\ UNCHANGED <<bitmap, lock, cb, threadVars, closeVars, history>>

DeregisterPayload(p, r) ==
  /\ Open /\ Unlocked(r) /\ Valid(r) /\ p \in row[r].payloads
  /\ row' = [row EXCEPT ![r].payloads = @ \ {p}]
  /\ UNCHANGED <<bitmap, lock, cb, threadVars, closeVars, history>>

\* cam_sync_util_cb_dispatch on the work queue.
RunCallback(k) ==
  /\ cb[k].at = "work"
  /\ cb' = [cb EXCEPT ![k] = NoCallback]
  /\ UNCHANGED <<rowVars, threadVars, closeVars, history>>

\* Mutant: a callback that is queued stays on the list.
DispatchedKept(rw) ==
  [rw EXCEPT !.signaled = TRUE, !.payloads = IF eventq THEN {} ELSE @]

\* cam_sync_util_dispatch_signaled_cb: the callbacks are queued, the payloads
\* are sent while there is somebody to send them to, waiters are released.
\* rw is the row as the caller leaves it.
Dispatched(rw) ==
  [rw EXCEPT !.callbacks = {}, !.signaled = TRUE,
             !.payloads = IF eventq THEN {} ELSE @]

Queued(rw, s) ==
  [k \in Callbacks |->
     IF k \in rw.callbacks THEN [cb[k] EXCEPT !.at = "work", !.status = s]
     ELSE cb[k]]

-----------------------------------------------------------------------------
(* Signalling                                                              *)

\* The member r is signalled: what its groups should know of it.
MemberSignaled(r, s) ==
  /\ pending' = [g \in Rows |-> IF g \in row[r].parents
                                THEN pending[g] \ {r} ELSE pending[g]]
  /\ failed' = IF s = "SUCCESS" THEN failed ELSE failed \cup row[r].parents

\* cam_sync_signal_validate_util
Signalable(r) == row[r].type = "INDV" /\ row[r].state = "ACTIVE"

\* The part of cam_sync_signal under the lock of the object: each user of the
\* object gives its reference back and the last one signals.
SignalBody(t, r, s) ==
  /\ Unlocked(r)
  /\ IF Signalable(r) /\ row[r].ref = 1
     THEN /\ row' = [row EXCEPT ![r] =
                       [Dispatched(@) EXCEPT !.state = s, !.ref = 0,
                                             !.parents = {}]]
          /\ cb' = Queued(row[r], s)
          /\ MemberSignaled(r, s)
          /\ IF row[r].parents = {} THEN Return(t)
             ELSE /\ Goto(t, "notify")
                  /\ obj' = [obj EXCEPT ![t] = NoRow]
                  /\ status' = [status EXCEPT ![t] = s]
                  /\ list' = [list EXCEPT ![t] = row[r].parents]
                  /\ UNCHANGED parents
     ELSE /\ row' = IF Signalable(r) THEN [row EXCEPT ![r].ref = @ - 1] ELSE row
          /\ Return(t)
          /\ UNCHANGED <<cb, history>>
  /\ UNCHANGED <<bitmap, lock>>

\* A hardware context signals an object it holds a reference on.
Signal(t, r, s) ==
  /\ Enter(t, "signal") /\ row[r].ref > 0
  /\ SignalBody(t, r, s)
  /\ UNCHANGED closeVars

\* cam_sync_handle_signal: user space signals; a reference is taken for it.
UserSignal(t, r, s) ==
  /\ Enter(t, "user_signal") /\ Open
  /\ Unlocked(r) /\ row[r].state = "ACTIVE" /\ row[r].ref < MaxRef
  /\ row' = [row EXCEPT ![r].ref = @ + 1]
  /\ Goto(t, "signal")
  /\ obj' = [obj EXCEPT ![t] = r]
  /\ status' = [status EXCEPT ![t] = s]
  /\ UNCHANGED <<bitmap, lock, cb, list, parents, closeVars, history>>

UserSignalEnd(t) ==
  /\ pc[t] = "signal"
  /\ SignalBody(t, obj[t], status[t])
  /\ UNCHANGED closeVars

\* Mutant: the latest status wins.
ParentStateLatest(old, new) == new

\* cam_sync_util_update_parent_state
ParentState(old, new) == IF old \in {"ACTIVE", "SUCCESS"} THEN new ELSE old

\* Mutant: the callbacks of a group are given the status of the last member.
NotifyParentStatus(t, g) ==
  /\ pc[t] = "notify" /\ g \in list[t] /\ Unlocked(g)
  /\ LET counted == [row[g] EXCEPT !.remaining = @ - 1,
                                   !.state = ParentState(@, status[t])]
     IN IF Valid(g) /\ counted.remaining = 0
        THEN /\ row' = [row EXCEPT ![g] = Dispatched(counted)]
             /\ cb' = Queued(counted, status[t])
        ELSE /\ row' = [row EXCEPT ![g] = counted]
             /\ UNCHANGED cb
  /\ IF list[t] = {g} THEN Return(t)
     ELSE /\ list' = [list EXCEPT ![t] = @ \ {g}]
          /\ UNCHANGED <<pc, obj, status, parents>>
  /\ UNCHANGED <<bitmap, lock, closeVars, history>>

\* Mutant: a group is completed by its first member.
NotifyParentFirst(t, g) ==
  /\ pc[t] = "notify" /\ g \in list[t] /\ Unlocked(g)
  /\ LET counted == [row[g] EXCEPT !.remaining = @ - 1,
                                   !.state = ParentState(@, status[t])]
     IN IF Valid(g)
        THEN /\ row' = [row EXCEPT ![g] = Dispatched(counted)]
             /\ cb' = Queued(counted, counted.state)
        ELSE /\ row' = [row EXCEPT ![g] = counted]
             /\ UNCHANGED cb
  /\ IF list[t] = {g} THEN Return(t)
     ELSE /\ list' = [list EXCEPT ![t] = @ \ {g}]
          /\ UNCHANGED <<pc, obj, status, parents>>
  /\ UNCHANGED <<bitmap, lock, closeVars, history>>

\* One round of cam_sync_signal_parent_util: the group counts down, and the
\* last member completes it.
NotifyParent(t, g) ==
  /\ pc[t] = "notify" /\ g \in list[t] /\ Unlocked(g)
  /\ LET counted == [row[g] EXCEPT !.remaining = @ - 1,
                                   !.state = ParentState(@, status[t])]
     IN IF Valid(g) /\ counted.remaining = 0
        THEN /\ row' = [row EXCEPT ![g] = Dispatched(counted)]
             /\ cb' = Queued(counted, counted.state)
        ELSE /\ row' = [row EXCEPT ![g] = counted]
             /\ UNCHANGED cb
  /\ IF list[t] = {g} THEN Return(t)
     ELSE /\ list' = [list EXCEPT ![t] = @ \ {g}]
          /\ UNCHANGED <<pc, obj, status, parents>>
  /\ UNCHANGED <<bitmap, lock, closeVars, history>>

-----------------------------------------------------------------------------
(* Merging                                                                 *)

\* cam_sync_check_valid
Checked(c) == c \in bitmap /\ Valid(c)

\* cam_sync_merge: the members are checked, each under its own lock.  A merge
\* whose first member fails changes nothing.
MergeBegin(t, members, c) ==
  /\ Enter(t, "merge") /\ Cardinality(members) > 1
  /\ c \in members /\ Unlocked(c) /\ Checked(c)
  /\ Goto(t, "check")
  /\ list' = [list EXCEPT ![t] = members \ {c}]
  /\ parents' = [parents EXCEPT ![t] = {c}]
  /\ UNCHANGED <<rowVars, cb, obj, status, closeVars, history>>

MergeCheck(t, c) ==
  /\ pc[t] = "check" /\ c \in list[t] /\ Unlocked(c)
  /\ IF Checked(c)
     THEN /\ list' = [list EXCEPT ![t] = @ \ {c}]
          /\ parents' = [parents EXCEPT ![t] = @ \cup {c}]
          /\ UNCHANGED <<pc, obj, status>>
     ELSE Return(t)
  /\ UNCHANGED <<rowVars, cb, closeVars, history>>

\* A row is reserved for the group, with no lock held: a member that has been
\* destroyed since its check may get its own number back as the group.
MergeReserve(t, g) ==
  /\ pc[t] = "check" /\ list[t] = {}
  /\ Reserve(g)
  /\ Goto(t, "merge")
  /\ obj' = [obj EXCEPT ![t] = g]
  /\ list' = [list EXCEPT ![t] = parents[t]]
  /\ parents' = [parents EXCEPT ![t] = {}]
  /\ UNCHANGED <<row, lock, cb, status, closeVars, history>>

\* ... or there is none, -ENOMEM.
MergeNoRow(t) ==
  /\ pc[t] = "check" /\ list[t] = {} /\ bitmap = Rows
  /\ Return(t)
  /\ UNCHANGED <<rowVars, cb, closeVars, history>>

\* The lock of the group is taken and kept until the members are linked.
MergeInit(t) ==
  /\ pc[t] = "merge" /\ Unlocked(obj[t])
  /\ row' = [row EXCEPT ![obj[t]] = InitRow("GROUP")]
  /\ lock' = [lock EXCEPT ![obj[t]] = t]
  /\ Goto(t, "link")
  /\ pending' = [pending EXCEPT ![obj[t]] = {}]
  /\ failed' = failed \ {obj[t]}
  /\ UNCHANGED <<bitmap, cb, obj, status, list, parents, closeVars>>

\* Mutant: members that are signalled already are counted too.
MergeLinkCountsAll(t, c) ==
  /\ pc[t] = "link" /\ c \in list[t] /\ Unlocked(c)
  /\ row[c].type = "INDV" /\ Valid(c)
  /\ IF row[c].state = "ACTIVE"
     THEN /\ row' = [row EXCEPT ![obj[t]].remaining = @ + 1,
                                ![obj[t]].children = @ \cup {c},
                                ![c].parents = @ \cup {obj[t]}]
          /\ pending' = [pending EXCEPT ![obj[t]] = @ \cup {c}]
          /\ UNCHANGED failed
     ELSE /\ row' = [row EXCEPT ![obj[t]].remaining = @ + 1,
                                ![obj[t]].state = ParentState(@, row[c].state)]
          /\ failed' = IF row[c].state = "SUCCESS" THEN failed
                       ELSE failed \cup {obj[t]}
          /\ UNCHANGED pending
  /\ list' = [list EXCEPT ![t] = @ \ {c}]
  /\ UNCHANGED <<bitmap, lock, cb, pc, obj, status, parents, closeVars>>

\* One round of the loop of cam_sync_init_group_object: a member that is
\* signalled leaves its error, one that is active is linked.
MergeLink(t, c) ==
  /\ pc[t] = "link" /\ c \in list[t] /\ Unlocked(c)
  /\ row[c].type = "INDV" /\ Valid(c)
  /\ IF row[c].state = "ACTIVE"
     THEN /\ row' = [row EXCEPT ![obj[t]].remaining = @ + 1,
                                ![obj[t]].children = @ \cup {c},
                                ![c].parents = @ \cup {obj[t]}]
          /\ pending' = [pending EXCEPT ![obj[t]] = @ \cup {c}]
          /\ UNCHANGED failed
     ELSE /\ row' = IF row[c].state = "SUCCESS" THEN row
                    ELSE [row EXCEPT ![obj[t]].state = row[c].state]
          /\ failed' = IF row[c].state = "SUCCESS" THEN failed
                       ELSE failed \cup {obj[t]}
          /\ UNCHANGED pending
  /\ list' = [list EXCEPT ![t] = @ \ {c}]
  /\ UNCHANGED <<bitmap, lock, cb, pc, obj, status, parents, closeVars>>

\* ... or the member is a group or destroyed, or there is no memory for a
\* link: the members linked so far are let go.
MergeFail(t, c) ==
  /\ pc[t] = "link" /\ c \in list[t] /\ Unlocked(c)
  /\ row[c].type = "GROUP" \/ row[c].state \in {"INVALID", "ACTIVE"}
  /\ row' = [row EXCEPT ![obj[t]].state = "INVALID"]
  /\ Goto(t, "unlink")
  /\ list' = [list EXCEPT ![t] = row[obj[t]].children]
  /\ UNCHANGED <<bitmap, lock, cb, obj, status, parents, closeVars, history>>

MergeUnlink(t, c) ==
  /\ pc[t] = "unlink" /\ c \in list[t] /\ Unlocked(c)
  /\ row' = [row EXCEPT ![c].parents = @ \ {obj[t]}]
  /\ list' = [list EXCEPT ![t] = @ \ {c}]
  /\ UNCHANGED <<bitmap, lock, cb, pc, obj, status, parents, closeVars, history>>

\* The error return of cam_sync_merge: the bit is cleared, the lock is kept.
MergeAbort(t) ==
  /\ pc[t] = "unlink" /\ list[t] = {}
  /\ row' = [row EXCEPT ![obj[t]].children = {}]
  /\ bitmap' = bitmap \ {obj[t]}
  /\ Return(t)
  /\ UNCHANGED <<lock, cb, closeVars, history>>

\* A group whose members were all signalled is complete from the start.
MergeEnd(t) ==
  /\ pc[t] = "link" /\ list[t] = {}
  /\ LET g == row[obj[t]] IN
     row' = [row EXCEPT ![obj[t]] =
               IF g.remaining > 0 THEN g
               ELSE [g EXCEPT !.state = ParentState(g.state, "SUCCESS"),
                              !.signaled = TRUE]]
  /\ lock' = [lock EXCEPT ![obj[t]] = NoThread]
  /\ Return(t)
  /\ UNCHANGED <<bitmap, cb, closeVars, history>>

-----------------------------------------------------------------------------
(* Destruction                                                             *)

\* cam_sync_deinit_object: the object becomes invalid and takes its links
\* along ...
DestroyBody(t, r) ==
  /\ Unlocked(r) /\ Valid(r)
  /\ row' = [row EXCEPT ![r].state = "INVALID", ![r].children = {},
                        ![r].parents = {}]
  /\ Goto(t, "destroy")
  /\ obj' = [obj EXCEPT ![t] = r]
  /\ list' = [list EXCEPT ![t] = row[r].children]
  /\ parents' = [parents EXCEPT ![t] = row[r].parents]
  /\ UNCHANGED <<bitmap, lock, cb, status, history>>

Destroy(t, r) ==
  /\ Enter(t, "destroy")
  /\ DestroyBody(t, r)
  /\ UNCHANGED closeVars

\* Mutant: a member that is still active keeps its link to the group.
DestroyChildActive(t, c) ==
  /\ pc[t] = "destroy" /\ c \in list[t] /\ Unlocked(c)
  /\ row' = IF Signaled(c) THEN [row EXCEPT ![c].parents = @ \ {obj[t]}] ELSE row
  /\ list' = [list EXCEPT ![t] = @ \ {c}]
  /\ UNCHANGED <<bitmap, lock, cb, pc, obj, status, parents, closeVars, history>>

\* ... then its members and its groups forget it, one at a time ...
DestroyChild(t, c) ==
  /\ pc[t] = "destroy" /\ c \in list[t] /\ Unlocked(c)
  /\ row' = IF Valid(c) THEN [row EXCEPT ![c].parents = @ \ {obj[t]}] ELSE row
  /\ list' = [list EXCEPT ![t] = @ \ {c}]
  /\ UNCHANGED <<bitmap, lock, cb, pc, obj, status, parents, closeVars, history>>

DestroyParent(t, g) ==
  /\ pc[t] = "destroy" /\ list[t] = {} /\ g \in parents[t] /\ Unlocked(g)
  /\ row' = IF Valid(g) THEN [row EXCEPT ![g].children = @ \ {obj[t]}] ELSE row
  /\ parents' = [parents EXCEPT ![t] = @ \ {g}]
  /\ UNCHANGED <<bitmap, lock, cb, pc, obj, status, list, closeVars, history>>

\* ... and the row is cleared, with the callbacks and payloads left on it.  A
\* queued callback still runs; that its object is gone is history.
DestroyEnd(t) ==
  /\ pc[t] = "destroy" /\ list[t] = {} /\ parents[t] = {} /\ Unlocked(obj[t])
  /\ row' = [row EXCEPT ![obj[t]] = ZeroRow]
  /\ bitmap' = bitmap \ {obj[t]}
  /\ cb' = [k \in Callbacks |->
              IF k \in row[obj[t]].callbacks THEN NoCallback
              ELSE IF cb[k].obj = obj[t] THEN [cb[k] EXCEPT !.obj = NoRow, !.status = "none"]
              ELSE cb[k]]
  /\ pending' = [pending EXCEPT ![obj[t]] = {}]
  /\ failed' = failed \ {obj[t]}
  /\ Return(t)
  /\ UNCHANGED <<lock, closeVars>>

-----------------------------------------------------------------------------
(* Closing and opening the device                                          *)

\* cam_sync_close, when the last file is released: no ioctl is in progress,
\* but drivers go on calling.
CloseBegin(t) ==
  /\ Enter(t, "close") /\ Open
  /\ \A u \in Threads : pc[u] \notin {"create", "signal"}
  /\ closer' = t /\ phase' = "sweep" /\ sweep' = Rows
  /\ Goto(t, "sweep")
  /\ UNCHANGED <<rowVars, cb, eventq, obj, status, list, parents, waitfor, history>>

\* The first loop signals the active objects.
CloseSignal(t, r) ==
  /\ pc[t] = "sweep" /\ r \in sweep
  /\ sweep' = sweep \ {r}
  /\ IF row[r].state = "ACTIVE" THEN SignalBody(t, r, "ERROR")
     ELSE UNCHANGED <<rowVars, cb, threadVars, history>>
  /\ UNCHANGED <<closer, phase, waitfor, eventq>>

\* The works queued so far are waited for.
CloseFlush(t) ==
  /\ pc[t] = "sweep" /\ sweep = {}
  /\ waitfor' = {k \in Callbacks : cb[k].at = "work"}
  /\ Goto(t, "flush")
  /\ UNCHANGED <<rowVars, cb, obj, status, list, parents, closer, phase, sweep,
                 eventq, history>>

CloseFlushed(t) ==
  /\ pc[t] = "flush" /\ \A k \in waitfor : cb[k].at # "work"
  /\ waitfor' = {} /\ phase' = "reap" /\ sweep' = Rows
  /\ Goto(t, "reap")
  /\ UNCHANGED <<rowVars, cb, obj, status, list, parents, closer, eventq, history>>

\* The second loop destroys what there is.
CloseDestroy(t, r) ==
  /\ pc[t] = "reap" /\ r \in sweep
  /\ sweep' = sweep \ {r}
  /\ IF Valid(r) THEN DestroyBody(t, r)
     ELSE UNCHANGED <<rowVars, cb, threadVars, history>>
  /\ UNCHANGED <<closer, phase, waitfor, eventq>>

CloseEnd(t) ==
  /\ pc[t] = "reap" /\ sweep = {}
  /\ closer' = NoThread /\ phase' = "none" /\ eventq' = FALSE
  /\ Goto(t, "idle")
  /\ UNCHANGED <<rowVars, cb, obj, status, list, parents, sweep, waitfor, history>>

\* cam_sync_open
OpenDevice ==
  /\ ~eventq /\ closer = NoThread
  /\ eventq' = TRUE
  /\ UNCHANGED <<rowVars, cb, threadVars, closer, phase, sweep, waitfor, history>>

-----------------------------------------------------------------------------

ThreadStep(t) ==
  \/ \E r \in Rows :
       \/ CreateReserve(t, r)
       \/ NotifyParent(t, r)
       \/ MergeCheck(t, r) \/ MergeReserve(t, r)
       \/ MergeLink(t, r) \/ MergeFail(t, r) \/ MergeUnlink(t, r)
       \/ Destroy(t, r) \/ DestroyChild(t, r) \/ DestroyParent(t, r)
       \/ CloseSignal(t, r) \/ CloseDestroy(t, r)
       \/ \E s \in Statuses : Signal(t, r, s) \/ UserSignal(t, r, s)
       \/ \E members \in SUBSET Rows : MergeBegin(t, members, r)
  \/ CreateInit(t) \/ UserSignalEnd(t)
  \/ MergeNoRow(t) \/ MergeInit(t) \/ MergeAbort(t) \/ MergeEnd(t)
  \/ DestroyEnd(t)
  \/ CloseBegin(t) \/ CloseFlush(t) \/ CloseFlushed(t) \/ CloseEnd(t)

RowStep(r) ==
  \/ GetObjRef(r) \/ PutObjRef(r)
  \/ \E k \in Callbacks : RegisterCallback(k, r) \/ DeregisterCallback(k, r)
  \/ \E p \in Payloads : RegisterPayload(p, r) \/ DeregisterPayload(p, r)

Next ==
  \/ \E t \in Threads : ThreadStep(t)
  \/ \E r \in Rows : RowStep(r)
  \/ \E k \in Callbacks : RunCallback(k)
  \/ OpenDevice

Spec == Init /\ [][Next]_vars

-----------------------------------------------------------------------------
(* Properties                                                              *)

RowType ==
  [state: SignaledStates \cup {"INVALID", "ACTIVE"}, type: {"INDV", "GROUP"},
   remaining: Int, ref: Int, signaled: BOOLEAN, children: SUBSET Rows,
   parents: SUBSET Rows, callbacks: SUBSET Callbacks,
   payloads: SUBSET Payloads]

\* The type of the state; a callback is on at most one list.
TypeOK ==
  /\ bitmap \subseteq Rows
  /\ row \in [Rows -> RowType]
  /\ lock \in [Rows -> Threads \cup {NoThread}]
  /\ cb \in [Callbacks -> [at: {"none", "list", "work"},
                           obj: Rows \cup {NoRow},
                           status: SignaledStates \cup {"none"}]]
  /\ eventq \in BOOLEAN
  /\ pc \in [Threads -> {"idle", "create", "signal", "notify", "check", "merge", "link",
                         "unlink", "destroy", "sweep", "flush", "reap"}]
  /\ obj \in [Threads -> Rows \cup {NoRow}]
  /\ status \in [Threads -> SignaledStates \cup {"none"}]
  /\ list \in [Threads -> SUBSET Rows]
  /\ parents \in [Threads -> SUBSET Rows]
  /\ closer \in Threads \cup {NoThread}
  /\ phase \in {"none", "sweep", "reap"}
  /\ sweep \subseteq Rows /\ waitfor \subseteq Callbacks
  /\ pending \in [Rows -> SUBSET Rows] /\ failed \subseteq Rows
  /\ \A k \in Callbacks, r \in Rows :
       k \in row[r].callbacks <=> (cb[k].at = "list" /\ cb[k].obj = r)

\* Nobody is released too early: when a merged object is completed, every
\* member of it was signalled.
GroupWaitsForAll ==
  \A r \in Rows : Valid(r) /\ row[r].signaled => pending[r] = {}

\* The signallers that still have to notify the group g.
Notifiers(g) == {t \in Threads : pc[t] = "notify" /\ g \in list[t]}

\* remaining counts the members that were not signalled and the signallers on
\* their way to the group.
RemainingCounted ==
  \A g \in Rows : Valid(g) =>
    row[g].remaining = Cardinality(pending[g]) + Cardinality(Notifiers(g))

\* An error is never lost and never invented: a group that is complete is in
\* SUCCESS exactly when all its members were.
GroupStatus ==
  \A g \in Rows : Valid(g) /\ row[g].type = "GROUP" /\ row[g].signaled =>
    (row[g].state = "SUCCESS" <=> g \notin failed)

\* Nothing is left waiting: an object that is signalled, with no member to
\* come, has released its waiters and has no callback and no payload left.
NothingLeftBehind ==
  \A r \in Rows : Unlocked(r) /\ Signaled(r) /\ row[r].remaining = 0 =>
    /\ row[r].signaled
    /\ row[r].callbacks = {} /\ row[r].payloads = {}

\* A queued callback carries the state its object ended in.
CallbackStatus ==
  \A k \in Callbacks :
    cb[k].at = "work" /\ cb[k].obj # NoRow /\ Valid(cb[k].obj) =>
      cb[k].status = row[cb[k].obj].state

\* An object never names a group that is gone: a parent on its list is a group
\* with the object among its children, or is being destroyed or unmerged by a
\* call that will still come past the object.
NoDanglingParent ==
  \A c, g \in Rows : g \in row[c].parents =>
    /\ g \in bitmap
    /\ \/ row[g].type = "GROUP" /\ Valid(g) /\ c \in row[g].children
       \/ \E t \in Threads : obj[t] = g /\ c \in list[t]

\* What the row promises of remaining, a "Count of remaining children that not
\* been signaled": it never falls below the members to come (an unsigned count
\* that has wrapped is negative here).
MembersCovered ==
  \A g \in Rows : Valid(g) => row[g].remaining >= Cardinality(pending[g])
-----------------------------------------------------------------------------
(* What else is true of every state, and makes the invariants inductive    *)

\* What a thread holds at each place: the object and the status of its call,
\* and the rows it has still to visit.
ThreadStages ==
  \A t \in Threads :
    /\ pc[t] \in {"create", "signal", "merge", "link", "unlink", "destroy"}
         => obj[t] \in Rows
    /\ pc[t] \in {"signal", "notify"} => status[t] \in SignaledStates
    /\ pc[t] \notin {"notify", "check", "merge", "link", "unlink", "destroy"}
         => list[t] = {}

\* cam_sync_close is where its loop is, and the device is open until its end.
CloseStages ==
  /\ closer = NoThread <=> phase = "none"
  /\ ~eventq => closer = NoThread
  /\ \A t \in Threads :
       /\ pc[t] \in {"sweep", "flush"} => closer = t /\ phase = "sweep"
       /\ pc[t] = "reap" => closer = t /\ phase = "reap"

\* The calls that make or unmake the row r.
Owns(t, r) ==
  pc[t] \in {"create", "merge", "link", "unlink", "destroy"} /\ obj[t] = r

\* There is one at a time, and the row is in use.
Owners ==
  \A r \in Rows, t \in Threads : Owns(t, r) =>
    /\ r \in bitmap
    /\ \A u \in Threads : Owns(u, r) => u = t

\* A row that is made or unmade is not an object for anybody else: it is
\* invalid, or its lock is held.
OwnedRows ==
  \A t \in Threads :
    /\ pc[t] \in {"create", "merge", "unlink", "destroy"} => ~Valid(obj[t])
    /\ pc[t] = "link" =>
         /\ Valid(obj[t]) /\ row[obj[t]].type = "GROUP" /\ lock[obj[t]] = t
         /\ ~row[obj[t]].signaled
         /\ row[obj[t]].callbacks = {} /\ row[obj[t]].payloads = {}
         /\ list[t] \cap pending[obj[t]] = {}

\* Only a merge keeps the lock of a row that is valid, and a valid row is in
\* use.
ValidRows ==
  \A r \in Rows : Valid(r) =>
    /\ r \in bitmap
    /\ ~Unlocked(r) => pc[lock[r]] = "link" /\ obj[lock[r]] = r

\* Nobody is a member of what is not an object, and groups have no groups.
LeafRows ==
  \A r \in Rows : ~Valid(r) \/ row[r].type = "GROUP" => row[r].parents = {}

\* No callback is left of the object a row was before.
FreshCallbacks ==
  \A k \in Callbacks :
    /\ \A r \in Rows \ bitmap : cb[k].obj # r
    /\ \A t \in Threads :
         pc[t] \in {"create", "merge", "link", "unlink"} => cb[k].obj # obj[t]

\* A group on the list of an object waits for it, or is being taken off.
ParentLinks ==
  \A c, g \in Rows : g \in row[c].parents =>
    /\ g \in bitmap
    /\ \/ /\ row[g].type = "GROUP" /\ Valid(g)
          /\ c \in row[g].children /\ c \in pending[g]
       \/ \E t \in Threads :
            pc[t] \in {"unlink", "destroy"} /\ obj[t] = g /\ c \in list[t]

\* Payloads that nobody would get are not kept: cam_sync_close destroys every
\* object that has one.
PayloadsSent ==
  \A r \in Rows :
    Valid(r) /\ (~eventq \/ (phase = "reap" /\ r \notin sweep)) =>
      row[r].payloads = {}

\* How rows, calls, links and callbacks hang together, whether or not a row is
\* reused while a call holds its number.
StructInv ==
  /\ TypeOK /\ ThreadStages /\ CloseStages
  /\ Owners /\ OwnedRows /\ ValidRows /\ LeafRows /\ ParentLinks
  /\ FreshCallbacks /\ PayloadsSent

\* Nor is a signaller or a member left, unless the lock that a failed merge
\* leaves behind keeps the row from being an object again.
FreshCounts ==
  /\ \A t \in Threads : pc[t] \in {"create", "merge"} =>
       /\ Notifiers(obj[t]) = {}
       /\ Unlocked(obj[t]) => pending[obj[t]] = {}
  /\ \A t \in Threads : pc[t] = "unlink" => ~Unlocked(obj[t])
  /\ \A r \in Rows \ bitmap : Unlocked(r) => pending[r] = {}

\* An object that is no group, or is complete, has nothing to come.
CountedDown ==
  \A r \in Rows : Valid(r) /\ (row[r].type = "INDV" \/ row[r].signaled) =>
    row[r].remaining = 0

Errors == {"ERROR", "CANCEL"}

\* An error of a member is in the state of the group or on its way to it.
StatusTraced ==
  \A g \in Rows : Valid(g) /\ row[g].type = "GROUP" =>
    /\ row[g].state \in Errors => g \in failed
    /\ \A t \in Notifiers(g) : status[t] \in Errors => g \in failed
    /\ g \in failed => \/ row[g].state \in Errors
                      \/ \E t \in Notifiers(g) : status[t] \in Errors
    /\ row[g].signaled => row[g].state # "ACTIVE"

\* A callback is queued when its object has its final state.
CallbackTraced ==
  \A k \in Callbacks, r \in Rows :
    cb[k].at = "work" /\ cb[k].obj = r /\ Valid(r) =>
      /\ Signaled(r) /\ row[r].remaining = 0
      /\ cb[k].status = row[r].state

\* The counts are right as long as rows are not reused.
CountInv ==
  /\ RemainingCounted /\ FreshCounts /\ CountedDown
  /\ StatusTraced /\ CallbackTraced /\ NothingLeftBehind

IInv == StructInv /\ CountInv
=============================================================================
