-------------------------------- MODULE Dsc --------------------------------
(***************************************************************************)
(* The Driver Synchronization Core of the WLAN host driver                 *)
(* (wlan/qcacld-3.0/components/dsc/src).                                   *)
(*                                                                         *)
(* A tree of contexts -- one driver, its psocs, their vdevs -- serialises  *)
(* two kinds of work.  A TRANSITION (load, unload, mode change, probe,     *)
(* recovery, interface up/down...) excludes every other transition on the  *)
(* same root-to-leaf path.  An OPERATION (an ioctl, a cfg80211 call...)    *)
(* may run beside other operations, is refused while a related transition  *)
(* is active or queued, and is drained by the transition that finds it in  *)
(* flight (the *_wait_for_ops calls).                                      *)
(*                                                                         *)
(* Every API function runs under the one spinlock driver->lock, so one     *)
(* critical section is one action; what happens between two critical       *)
(* sections (sleeping on a transition's event, sleeping on an operations   *)
(* event, walking the tree while draining) is split into actions.  The     *)
(* unique description of a transition is abstracted to the thread that     *)
(* asked for it.                                                           *)
(***************************************************************************)
EXTENDS Naturals, Sequences, FiniteSets

CONSTANTS
  Driver,     \* the root context (struct dsc_driver)
  Psocs,      \* the psoc contexts that can be created
  Vdevs,      \* the vdev contexts that can be created
  PsocOf,     \* the psoc a vdev is created under (vdev->psoc)
  Threads,    \* the kernel threads that call the API
  NoThread,   \* active_desc = NULL
  NoNode,     \* a thread that is in no call
  OpNodes,    \* the contexts on which operations are issued
  FlagValues, \* the values recovering and unloading are set to
  CloseAlone, \* the contexts their holders close only with nobody queued on them
  MaxDone,    \* bound: pending wakeups one completion counts (done saturates)
  Watched     \* the threads the liveness properties follow

Nodes == {Driver} \cup Psocs \cup Vdevs

ASSUME TreeAssumption ==
  /\ Driver \notin Psocs \cup Vdevs
  /\ Psocs \cap Vdevs = {}
  /\ PsocOf \in [Vdevs -> Psocs]
  /\ NoNode \notin Nodes
  /\ OpNodes \subseteq Nodes
  /\ CloseAlone \subseteq Nodes

ASSUME ThreadAssumption ==
  NoThread \notin Threads /\ IsFiniteSet(Threads) /\ Watched \subseteq Threads

ASSUME BoundAssumption ==
  /\ MaxDone \in Nat \ {0}
  /\ FlagValues \subseteq BOOLEAN

VARIABLES
  attached,   \* the contexts that exist and are linked into the tree
  dying,      \* the contexts no caller can name any more (unregistered)
  active,     \* trans.active_desc of every context
  queue,      \* trans.queue of every context
  ops,        \* ops.count of every context
  event,      \* ops.event of every context: completion->done
  recovering, \* qdf_is_recovering()
  unloading,  \* qdf_is_driver_unloading()
  pc,         \* where each thread is
  node,       \* the context each thread's call is about
  tran,       \* the struct dsc_tran on each waiting thread's stack
  todo,       \* the contexts a draining thread has still to visit
  cur,        \* the context a thread sleeps on the operations of, or destroys
  drained     \* the contexts a thread drained during its transition

treeVars == <<attached, dying>>
transVars == <<active, queue>>
opVars == <<ops, event>>
envVars == <<recovering, unloading>>
threadVars == <<pc, node, tran, todo, cur, drained>>
vars == <<attached, dying, active, queue, ops, event, recovering, unloading,
          pc, node, tran, todo, cur, drained>>

-----------------------------------------------------------------------------
(* The tree                                                                *)

Children(n) ==
  IF n = Driver THEN Psocs
  ELSE {v \in Vdevs : PsocOf[v] = n}

Parent(n) == IF n \in Vdevs THEN PsocOf[n] ELSE Driver

Subtree(n) ==
  IF n = Driver THEN Nodes
  ELSE {n} \cup {v \in Vdevs : PsocOf[v] = n}

Uptree(v) == {PsocOf[v], Driver}

\* Two contexts on one root-to-leaf path.
Related(m, n) == m \in Subtree(n) \/ n \in Subtree(m)

-----------------------------------------------------------------------------
(* Predicates on one context's transitions                                 *)

TransActive(n) == active[n] # NoThread

TransQueued(n) == queue[n] # <<>>

TransActiveOrQueued(n) == TransActive(n) \/ TransQueued(n)

DriverTransActiveDownTree ==
  \E n \in (Psocs \cup Vdevs) \cap attached : TransActive(n)

PsocTransActiveDownTree(p) ==
  \E v \in Children(p) \cap attached : TransActive(v)

-----------------------------------------------------------------------------
(* May a transition (or an operation) start now?                           *)

DriverCanTrans ==
  IF ~TransActiveOrQueued(Driver) /\ ~DriverTransActiveDownTree
  THEN "SUCCESS" ELSE "E_AGAIN"

\* Mutant: the psoc does not look at the transitions of its vdevs.
PsocCanTransPastVdevs(p) ==
  IF TransActiveOrQueued(Driver) THEN "E_INVAL"
  ELSE IF TransActiveOrQueued(p) THEN "E_AGAIN"
  ELSE "SUCCESS"

PsocCanTrans(p) ==
  IF TransActiveOrQueued(Driver) THEN "E_INVAL"
  ELSE IF TransActiveOrQueued(p) \/ PsocTransActiveDownTree(p) THEN "E_AGAIN"
  ELSE "SUCCESS"

\* Mutant: a queued driver transition does not hold vdev transitions back.
VdevCanTransPastDriver(v) ==
  IF TransActive(Driver) \/ recovering THEN "E_INVAL"
  ELSE IF TransActiveOrQueued(PsocOf[v])
       THEN IF unloading THEN "E_INVAL" ELSE "E_BUSY"
  ELSE IF TransActiveOrQueued(v) THEN "E_BUSY"
  ELSE "SUCCESS"

\* Mutant: a queued psoc transition does not hold vdev transitions back.
VdevCanTransPastPsoc(v) ==
  IF TransActiveOrQueued(Driver) \/ recovering THEN "E_INVAL"
  ELSE IF TransActive(PsocOf[v])
       THEN IF unloading THEN "E_INVAL" ELSE "E_BUSY"
  ELSE IF TransActiveOrQueued(v) THEN "E_BUSY"
  ELSE "SUCCESS"

VdevCanTrans(v) ==
  IF TransActiveOrQueued(Driver) \/ recovering THEN "E_INVAL"
  ELSE IF TransActiveOrQueued(PsocOf[v])
       THEN IF unloading THEN "E_INVAL" ELSE "E_BUSY"
  ELSE IF TransActiveOrQueued(v) THEN "E_BUSY"
  ELSE "SUCCESS"

CanTrans(n) ==
  IF n = Driver THEN DriverCanTrans
  ELSE IF n \in Psocs THEN PsocCanTrans(n)
  ELSE VdevCanTrans(n)

-----------------------------------------------------------------------------
(* Which queued transitions a stop starts.  Each operator is evaluated in  *)
(* the state before the stop, so the context being stopped counts as idle. *)

\* __dsc_driver_can_trigger once the transition on n has been stopped.
DriverCanTrigger(n) ==
  \A m \in attached \ {n} : ~TransActive(m)

\* Mutant: the psoc does not wait for its other vdevs.
PsocCanTriggerEarly(p, n) == ~TransActiveOrQueued(Driver) /\ ~TransActive(p)

\* __dsc_psoc_can_trigger once the transition on n has been stopped.
PsocCanTrigger(p, n) ==
  /\ ~TransActiveOrQueued(Driver)
  /\ \A m \in (Subtree(p) \cap attached) \ {n} : ~TransActive(m)

QueuedIn(S) == {m \in S \cap attached : TransQueued(m)}

DriverTriggers ==
  IF TransQueued(Driver) THEN {Driver}
  ELSE QueuedIn(Psocs)
         \cup {v \in QueuedIn(Vdevs) : ~TransQueued(PsocOf[v])}

\* Mutant: the psoc's stop forgets the vdevs' queues.
PsocTriggersNoVdevs(p) ==
  IF TransQueued(Driver) THEN IF DriverCanTrigger(p) THEN {Driver} ELSE {}
  ELSE QueuedIn({p})

PsocTriggers(p) ==
  IF TransQueued(Driver) THEN IF DriverCanTrigger(p) THEN {Driver} ELSE {}
  ELSE IF TransQueued(p) THEN {p}
  ELSE QueuedIn(Children(p))

VdevTriggers(v) ==
  IF TransQueued(Driver) THEN IF DriverCanTrigger(v) THEN {Driver} ELSE {}
  ELSE IF TransQueued(PsocOf[v])
       THEN IF PsocCanTrigger(PsocOf[v], v) THEN {PsocOf[v]} ELSE {}
  ELSE QueuedIn({v})

Triggers(n) ==
  IF n = Driver THEN DriverTriggers
  ELSE IF n \in Psocs THEN PsocTriggers(n)
  ELSE VdevTriggers(n)

-----------------------------------------------------------------------------
(* Thread bookkeeping                                                      *)

\* A thread inside a transition it holds.
TransPCs ==
  {"trans", "drain", "drainwait", "updrain", "updrainwait", "closing", "destroy"}

\* A thread inside destroy: under a transition above, or under none.
DestroyPCs == {"destroy", "discard"}

PCs == {"idle", "op", "wait", "discard"} \cup TransPCs

TranStates == {"none", "queued", "go", "abort"}

Goto(t, at) == pc' = [pc EXCEPT ![t] = at]

\* t's call on n starts and continues at the given place.
EnterCall(t, n, at) == Goto(t, at) /\ node' = [node EXCEPT ![t] = n]

\* t's call is over and t holds nothing.
LeaveCall(t) == Goto(t, "idle") /\ node' = [node EXCEPT ![t] = NoNode]

\* A caller finds a context through the tables of os_if/sync, where it stays
\* until it is unregistered.
Callable(n) == n \in attached \ dying

\* No call that found n is still under way.
Unused(n) == \A u \in Threads : node[u] # n /\ cur[u] # n

-----------------------------------------------------------------------------
(* Initially nothing exists: the module is not loaded.                     *)

Init ==
  /\ attached = {}
  /\ dying = {}
  /\ active = [n \in Nodes |-> NoThread]
  /\ queue = [n \in Nodes |-> <<>>]
  /\ ops = [n \in Nodes |-> 0]
  /\ event = [n \in Nodes |-> 0]
  /\ recovering = FALSE
  /\ unloading = FALSE
  /\ pc = [t \in Threads |-> "idle"]
  /\ node = [t \in Threads |-> NoNode]
  /\ tran = [t \in Threads |-> "none"]
  /\ todo = [t \in Threads |-> {}]
  /\ cur = [t \in Threads |-> NoNode]
  /\ drained = [t \in Threads |-> {}]

-----------------------------------------------------------------------------
(* Creating and destroying contexts                                        *)

\* dsc_{driver,psoc,vdev}_create: a fresh context, linked below its parent.
Create(n) ==
  /\ n \notin attached
  /\ n # Driver => Callable(Parent(n))
  /\ attached' = attached \cup {n}
  /\ active' = [active EXCEPT ![n] = NoThread]
  /\ queue' = [queue EXCEPT ![n] = <<>>]
  /\ ops' = [ops EXCEPT ![n] = 0]
  /\ event' = [event EXCEPT ![n] = 0]
  /\ UNCHANGED <<dying, envVars, threadVars>>

\* dsc_{psoc,vdev}_destroy is entered by a thread that holds a transition above
\* the context (hdd_close_all_adapters), or by one that holds none, for a
\* context that was never registered or is no longer in use
\* (__osif_vdev_sync_create_and_trans, hdd_open_adapter_no_trans).  Either
\* caller has unregistered it and waited for its operations.
DestroyBegin(t, n) ==
  /\ Callable(n) /\ n # Driver
  /\ Children(n) \cap attached = {}
  /\ ops[n] = 0
  /\ dying' = dying \cup {n}
  /\ cur' = [cur EXCEPT ![t] = n]
  /\ \/ /\ pc[t] = "trans"
        /\ n \in Subtree(node[t]) \ {node[t]}
        /\ Goto(t, "destroy")
        /\ UNCHANGED node
     \/ /\ pc[t] = "idle"
        /\ Unused(n)
        /\ EnterCall(t, n, "discard")
  /\ UNCHANGED <<attached, transVars, opVars, envVars, tran, todo, drained>>

\* The holder of a context's own transition closes it: it has waited for the
\* operations and unregisters it, then stops its transition and destroys it
\* without one (wlan_hdd_del_virtual_intf, hdd_soc_probe's error path).  The
\* code does not look at the queue, a careful caller would.
Unregister(t) ==
  /\ pc[t] = "trans" /\ node[t] # Driver
  /\ Callable(node[t]) /\ node[t] \in drained[t]
  /\ Children(node[t]) \cap attached = {}
  /\ node[t] \in CloseAlone => ~TransQueued(node[t])
  /\ dying' = dying \cup {node[t]}
  /\ Goto(t, "closing")
  /\ UNCHANGED <<attached, transVars, opVars, envVars, node, tran, todo, cur, drained>>

\* One __dsc_trans_abort: the first queued transition is told to give up.
\* The loop does not hold the lock from one to the next.
DestroyAbort(t) ==
  /\ pc[t] \in DestroyPCs
  /\ TransQueued(cur[t])
  /\ tran' = [tran EXCEPT ![Head(queue[cur[t]])] = "abort"]
  /\ queue' = [queue EXCEPT ![cur[t]] = Tail(@)]
  /\ UNCHANGED <<treeVars, active, opVars, envVars, pc, node, todo, cur, drained>>

\* n is unlinked and freed, and t returns from destroy.
Freed(t, n) ==
  /\ attached' = attached \ {n}
  /\ dying' = dying \ {n}
  /\ cur' = [cur EXCEPT ![t] = NoNode]
  /\ \/ pc[t] = "destroy" /\ Goto(t, "trans") /\ UNCHANGED node
     \/ pc[t] = "discard" /\ LeaveCall(t)

\* Mutant: the pending transitions are not flushed.
DestroyEndNoFlush(t) ==
  /\ pc[t] \in DestroyPCs
  /\ Freed(t, cur[t])
  /\ UNCHANGED <<transVars, opVars, envVars, tran, todo, drained>>

\* The loop finds nothing queued any more: unlink and free.
DestroyEnd(t) ==
  /\ pc[t] \in DestroyPCs
  /\ ~TransQueued(cur[t])
  /\ Freed(t, cur[t])
  /\ UNCHANGED <<transVars, opVars, envVars, tran, todo, drained>>

\* dsc_driver_destroy: the last call, made when no other is in progress.
DriverDestroy ==
  /\ attached = {Driver}
  /\ \A t \in Threads : pc[t] = "idle"
  /\ attached' = {}
  /\ UNCHANGED <<dying, transVars, opVars, envVars, threadVars>>

-----------------------------------------------------------------------------
(* Transitions                                                             *)

\* The transition is refused, and t returns with the error.
Refused(n) == CanTrans(n) # "SUCCESS"

\* __dsc_trans_start on behalf of t.
StartNow(t, n) ==
  /\ active' = [active EXCEPT ![n] = t]
  /\ EnterCall(t, n, "trans")
  /\ UNCHANGED <<queue, tran>>

\* __dsc_trans_queue: t's struct dsc_tran goes to the back, t will sleep on it.
QueueTran(t, n) ==
  /\ queue' = [queue EXCEPT ![n] = Append(@, t)]
  /\ tran' = [tran EXCEPT ![t] = "queued"]
  /\ EnterCall(t, n, "wait")
  /\ UNCHANGED active

\* dsc_*_trans_start; a refusal changes nothing.
TransStart(t, n) ==
  /\ pc[t] = "idle" /\ Callable(n)
  /\ ~Refused(n)
  /\ StartNow(t, n)
  /\ UNCHANGED <<treeVars, opVars, envVars, todo, cur, drained>>

\* The psoc and vdev calls give up on E_INVAL, the driver call never does.
MustQueue(n) == CanTrans(n) \in {"E_AGAIN", "E_BUSY"}

\* dsc_*_trans_start_wait, up to the sleep.
TransStartWait(t, n) ==
  /\ pc[t] = "idle" /\ Callable(n)
  /\ MustQueue(n)
  /\ QueueTran(t, n)
  /\ UNCHANGED <<treeVars, opVars, envVars, todo, cur, drained>>

\* Mutant: tran->abort is not looked at.
TranWakeIgnoresAbort(t) ==
  /\ pc[t] = "wait"
  /\ tran[t] \in {"go", "abort"}
  /\ Goto(t, "trans")
  /\ tran' = [tran EXCEPT ![t] = "none"]
  /\ UNCHANGED <<treeVars, transVars, opVars, envVars, node, todo, cur, drained>>

\* __dsc_tran_wait returns: the transition was triggered, or aborted.
TranWake(t) ==
  /\ pc[t] = "wait"
  /\ \/ tran[t] = "go" /\ Goto(t, "trans") /\ UNCHANGED node
     \/ tran[t] = "abort" /\ LeaveCall(t)
  /\ tran' = [tran EXCEPT ![t] = "none"]
  /\ UNCHANGED <<treeVars, transVars, opVars, envVars, todo, cur, drained>>

\* t's transition on n ends, and each context of S is given to its first waiter.
HandOver(n, S) ==
  /\ active' = [m \in Nodes |-> IF m \in S THEN Head(queue[m])
                                ELSE IF m = n THEN NoThread
                                ELSE active[m]]
  /\ queue' = [m \in Nodes |-> IF m \in S THEN Tail(queue[m]) ELSE queue[m]]

\* t holds nothing any more; one that is closing its context destroys it next.
LetGo(t) ==
  /\ drained' = [drained EXCEPT ![t] = {}]
  /\ \/ pc[t] = "trans" /\ LeaveCall(t) /\ UNCHANGED cur
     \/ /\ pc[t] = "closing"
        /\ Goto(t, "discard")
        /\ cur' = [cur EXCEPT ![t] = node[t]]
        /\ UNCHANGED node

\* Mutant: the triggered transitions' events are not set.
TransStopNoWake(t) ==
  /\ pc[t] \in {"trans", "closing"}
  /\ HandOver(node[t], Triggers(node[t]))
  /\ LetGo(t)
  /\ UNCHANGED <<treeVars, opVars, envVars, tran, todo>>

\* dsc_*_trans_stop: end t's transition and start the queued ones it blocked.
TransStop(t) ==
  /\ pc[t] \in {"trans", "closing"}
  /\ LET S == Triggers(node[t])
     IN /\ HandOver(node[t], S)
        /\ tran' = [u \in Threads |->
                      IF \E m \in S : u = Head(queue[m]) THEN "go" ELSE tran[u]]
  /\ LetGo(t)
  /\ UNCHANGED <<treeVars, opVars, envVars, todo>>

-----------------------------------------------------------------------------
(* Operations                                                              *)

\* Mutant: only the context itself is looked at, and not its path.
OpStartOwnContext(t, n) ==
  /\ pc[t] = "idle" /\ Callable(n)
  /\ ~TransActiveOrQueued(n)
  /\ ops' = [ops EXCEPT ![n] = @ + 1]
  /\ EnterCall(t, n, "op")
  /\ UNCHANGED <<treeVars, transVars, event, envVars, tran, todo, cur, drained>>

\* dsc_*_op_start: refused exactly when a transition would be.
OpStart(t, n) ==
  /\ pc[t] = "idle" /\ Callable(n)
  /\ ~Refused(n)
  /\ ops' = [ops EXCEPT ![n] = @ + 1]
  /\ EnterCall(t, n, "op")
  /\ UNCHANGED <<treeVars, transVars, event, envVars, tran, todo, cur, drained>>

\* complete(): one more sleeper may go.
Complete(n) ==
  event' = [event EXCEPT ![n] = IF @ < MaxDone THEN @ + 1 ELSE @]

\* Mutant: the count is not decremented when others remain.
OpStopMiscounts(t) ==
  /\ pc[t] = "op"
  /\ LET n == node[t]
     IN IF ops[n] = 1 THEN ops' = [ops EXCEPT ![n] = 0] /\ Complete(n)
        ELSE UNCHANGED opVars
  /\ LeaveCall(t)
  /\ UNCHANGED <<treeVars, transVars, envVars, tran, todo, cur, drained>>

\* Mutant: the count is compared before it is decremented.
OpStopComparesFirst(t) ==
  /\ pc[t] = "op"
  /\ LET n == node[t]
     IN /\ ops' = [ops EXCEPT ![n] = @ - 1]
        /\ IF ops[n] = 0 THEN Complete(n) ELSE UNCHANGED event
  /\ LeaveCall(t)
  /\ UNCHANGED <<treeVars, transVars, envVars, tran, todo, cur, drained>>

\* dsc_*_op_stop: the last operation of a context signals its event.
OpStop(t) ==
  /\ pc[t] = "op"
  /\ LET n == node[t]
     IN /\ ops' = [ops EXCEPT ![n] = @ - 1]
        /\ IF ops[n] = 1 THEN Complete(n) ELSE UNCHANGED event
  /\ LeaveCall(t)
  /\ UNCHANGED <<treeVars, transVars, envVars, tran, todo, cur, drained>>

-----------------------------------------------------------------------------
(* Draining the operations a transition found in flight                    *)

\* dsc_*_wait_for_ops is called by the holder of the transition.
DrainBegin(t) ==
  /\ pc[t] = "trans"
  /\ ~(Subtree(node[t]) \cap attached \subseteq drained[t])
  /\ todo' = [todo EXCEPT ![t] = Subtree(node[t]) \cap attached]
  /\ Goto(t, "drain")
  /\ UNCHANGED <<treeVars, transVars, opVars, envVars, node, tran, cur, drained>>

\* dsc_vdev_wait_for_uptree_ops is called by the holder of a vdev transition.
UptreeDrainBegin(t) ==
  /\ pc[t] = "trans" /\ node[t] \in Vdevs
  /\ ~(Uptree(node[t]) \subseteq drained[t])
  /\ todo' = [todo EXCEPT ![t] = Uptree(node[t])]
  /\ Goto(t, "updrain")
  /\ UNCHANGED <<treeVars, transVars, opVars, envVars, node, tran, cur, drained>>

\* The contexts a walk may visit next: down the tree a parent comes before
\* its children, up the tree the psoc comes before the driver.
MayVisit(t, m) ==
  /\ m \in todo[t]
  /\ IF pc[t] = "drain" THEN m = Driver \/ Parent(m) \notin todo[t]
     ELSE m = Driver => todo[t] = {Driver}

\* The visit of m is over; the call returns after the last one.
Visited(t, m, walk) ==
  /\ todo' = [todo EXCEPT ![t] = @ \ {m}]
  /\ drained' = [drained EXCEPT ![t] = @ \cup {m}]
  /\ Goto(t, IF todo[t] = {m} THEN "trans" ELSE walk)

Asleep(walk) == IF walk = "drain" THEN "drainwait" ELSE "updrainwait"

\* Mutant: the event is not reset, so an old completion ends the wait.
DrainCheckNoReset(t, m) ==
  /\ pc[t] \in {"drain", "updrain"}
  /\ MayVisit(t, m)
  /\ \/ ops[m] = 0 /\ Visited(t, m, pc[t]) /\ UNCHANGED cur
     \/ /\ ops[m] > 0
        /\ cur' = [cur EXCEPT ![t] = m]
        /\ Goto(t, Asleep(pc[t]))
        /\ UNCHANGED <<todo, drained>>
  /\ UNCHANGED <<treeVars, transVars, opVars, envVars, node, tran>>

\* The locked part of a visit: sleep if operations are in flight.
DrainCheck(t, m) ==
  /\ pc[t] \in {"drain", "updrain"}
  /\ MayVisit(t, m)
  /\ \/ /\ ops[m] = 0
        /\ Visited(t, m, pc[t])
        /\ UNCHANGED <<event, cur>>
     \/ /\ ops[m] > 0
        /\ event' = [event EXCEPT ![m] = 0]
        /\ cur' = [cur EXCEPT ![t] = m]
        /\ Goto(t, Asleep(pc[t]))
        /\ UNCHANGED <<todo, drained>>
  /\ UNCHANGED <<treeVars, transVars, ops, envVars, node, tran>>

\* Mutant: the wait is cut short, and still consumes a wakeup.
DrainWakeInterrupted(t, walk) ==
  /\ pc[t] = Asleep(walk)
  /\ event' = [event EXCEPT ![cur[t]] = @ - 1]
  /\ Visited(t, cur[t], walk)
  /\ cur' = [cur EXCEPT ![t] = NoNode]
  /\ UNCHANGED <<treeVars, transVars, ops, envVars, node, tran>>

\* wait_for_completion returns and takes one wakeup with it.
DrainWake(t, walk) ==
  /\ pc[t] = Asleep(walk)
  /\ event[cur[t]] > 0
  /\ event' = [event EXCEPT ![cur[t]] = @ - 1]
  /\ Visited(t, cur[t], walk)
  /\ cur' = [cur EXCEPT ![t] = NoNode]
  /\ UNCHANGED <<treeVars, transVars, ops, envVars, node, tran>>

-----------------------------------------------------------------------------
(* The driver's global state, set by code outside DSC                      *)

SetRecovering(b) ==
  /\ recovering' = b
  /\ UNCHANGED <<treeVars, transVars, opVars, unloading, threadVars>>

SetUnloading(b) ==
  /\ unloading' = b
  /\ UNCHANGED <<treeVars, transVars, opVars, recovering, threadVars>>

-----------------------------------------------------------------------------

Env ==
  \/ \E n \in Nodes : Create(n)
  \/ DriverDestroy
  \/ \E b \in FlagValues : SetRecovering(b) \/ SetUnloading(b)

\* What a thread decides to do.
Call(t) ==
  \/ \E n \in Nodes : TransStart(t, n) \/ TransStartWait(t, n)
  \/ \E n \in OpNodes : OpStart(t, n)
  \/ \E n \in Nodes : DestroyBegin(t, n)
  \/ Unregister(t)
  \/ DrainBegin(t) \/ UptreeDrainBegin(t)

\* How a call that has begun goes on.
Progress(t) ==
  \/ TranWake(t) \/ OpStop(t)
  \/ \E m \in Nodes : DrainCheck(t, m)
  \/ \E walk \in {"drain", "updrain"} : DrainWake(t, walk)
  \/ DestroyAbort(t) \/ DestroyEnd(t)

Next ==
  \/ Env
  \/ \E t \in Threads : Call(t) \/ Progress(t) \/ TransStop(t)

Spec == Init /\ [][Next]_vars

\* A runnable thread runs: calls that can continue do, operations end, and the
\* holder of a transition does not drain for ever and stops it in the end.
FairSpec ==
  /\ Spec
  /\ \A t \in Threads : WF_vars(Progress(t)) /\ SF_vars(TransStop(t))

-----------------------------------------------------------------------------
(* Properties                                                              *)

\* Every variable keeps its type: active_desc names a caller or nobody, queues
\* hold callers, counts are natural numbers.
TypeOK ==
  /\ attached \subseteq Nodes
  /\ dying \subseteq Nodes
  /\ active \in [Nodes -> Threads \cup {NoThread}]
  /\ queue \in [Nodes -> Seq(Threads)]
  /\ ops \in [Nodes -> Nat]
  /\ event \in [Nodes -> 0 .. MaxDone]
  /\ recovering \in BOOLEAN
  /\ unloading \in BOOLEAN
  /\ pc \in [Threads -> PCs]
  /\ node \in [Threads -> Nodes \cup {NoNode}]
  /\ tran \in [Threads -> TranStates]
  /\ todo \in [Threads -> SUBSET Nodes]
  /\ cur \in [Threads -> Nodes \cup {NoNode}]
  /\ drained \in [Threads -> SUBSET Nodes]

\* Two transitions are never active on one root-to-leaf path at once: what
\* __dsc_*_can_trans, __dsc_*_can_trigger and the trigger order are for.
PathExclusion ==
  \A m, n \in Nodes :
    Related(m, n) /\ TransActive(m) /\ TransActive(n) => m = n

\* t has been given a transition, whether or not it has woken up to use it.
Granted(t) == pc[t] \in TransPCs \/ tran[t] = "go"

\* active_desc of a context names a thread exactly when that thread has been
\* given the transition on it: no trigger starts a transition for a caller who
\* was told otherwise, and no holder loses its transition before it stops it.
Ownership ==
  \A t \in Threads, n \in Nodes :
    active[n] = t <=> node[t] = n /\ Granted(t)

\* A context's queue lists the threads asleep in its trans_start_wait that
\* were neither triggered nor aborted, each of them once.
QueueMatchesSleepers ==
  /\ \A n \in Nodes, t \in Threads :
       (\E i \in DOMAIN queue[n] : queue[n][i] = t)
         <=> node[t] = n /\ tran[t] = "queued"
  /\ \A n \in Nodes : \A i, j \in DOMAIN queue[n] :
       queue[n][i] = queue[n][j] => i = j
  /\ \A t \in Threads : tran[t] # "none" <=> pc[t] = "wait"

\* Whatever is queued, some active transition is left whose stop will look at
\* that queue, directly or after triggering a queued ancestor: the "handled,
\* but don't trigger" early returns of the trigger functions lose nobody.
NoLostTransition ==
  \A n \in Nodes : TransQueued(n) =>
    \E m, k \in Nodes :
      /\ TransActive(m) /\ Related(m, k)
      /\ n \in Subtree(k) /\ (k = n \/ TransQueued(k))

\* ops.count is the number of operations in flight, so op_stop never takes it
\* below zero and the last one out is the one that signals the event.
OpsCounted ==
  \A n \in Nodes :
    ops[n] = Cardinality({t \in Threads : pc[t] = "op" /\ node[t] = n})

\* Until the holder of a transition stops it, no operation runs on a context
\* it has drained: wait_for_ops returns only when the operations are over, and
\* can_op lets no new one in.
Quiescence ==
  \A t \in Threads : \A m \in drained[t] : ops[m] = 0

\* A transition that is queued on a context when its destruction begins is
\* aborted, whoever stops a transition meanwhile: the loop of destroy takes the
\* queue apart without the lock, and no trigger may take a part of it.
AbortsAllQueued ==
  [][\A t, u \in Threads :
       pc[u] \in DestroyPCs /\ cur[u] = node[t] /\ tran[t] = "queued"
         => tran'[t] \in {"queued", "abort"}]_vars

\* Nothing is left of a context that is not in the tree, and the tree has no
\* orphan: a destroyed psoc leaves no vdev whose vdev->psoc would dangle.
NoDangling ==
  /\ \A n \in attached : Parent(n) \in attached
  /\ \A n \in Nodes \ attached :
       ~TransActiveOrQueued(n) /\ ops[n] = 0
  /\ \A t \in Threads : node[t] # NoNode =>
       node[t] \in attached \/ tran[t] = "abort"

-----------------------------------------------------------------------------
(* What else is inductive: where a thread can be, and what it then knows   *)

Sleeping == {"drainwait", "updrainwait"}

Draining == {"drain", "updrain"} \cup Sleeping

\* The walks stay on the holder's path, and only a draining thread has one.
WalkOnPath ==
  \A t \in Threads :
    /\ pc[t] = "idle" <=> node[t] = NoNode
    /\ \A m \in todo[t] \cup drained[t] : Related(m, node[t])
    /\ todo[t] # {} => pc[t] \in Draining
    /\ drained[t] # {} => pc[t] \in TransPCs

\* A thread asleep in a walk sleeps on a context of that walk; if it can wake
\* the operations it waited for are over.
SleepersWakeInTime ==
  \A t \in Threads :
    /\ pc[t] \in Sleeping =>
         cur[t] \in todo[t] /\ (event[cur[t]] > 0 => ops[cur[t]] = 0)
    /\ cur[t] # NoNode => pc[t] \in Sleeping \cup DestroyPCs

\* The context t destroys is empty and nobody else's business.  Under a
\* transition above it its waiters have to be aborted, else it has none.
Covered(t) ==
  LET n == cur[t]
  IN /\ n \in dying \cap attached
     /\ Children(n) \cap attached = {}
     /\ ~TransActive(n) /\ ops[n] = 0
     /\ \A u \in Threads : cur[u] = n => u = t
     /\ \/ pc[t] = "destroy" /\ n \in Subtree(node[t]) \ {node[t]}
        \/ pc[t] = "discard" /\ n = node[t] /\ ~TransQueued(n)

DestroyCovered == \A t \in Threads : pc[t] \in DestroyPCs => Covered(t)

\* A holder that closes its context has drained it, with nobody left below it
\* and nobody queued behind it.
ClosedAlone ==
  \A t \in Threads :
    pc[t] = "closing" =>
      /\ node[t] \in dying \cap attached \cap drained[t]
      /\ Children(node[t]) \cap attached = {}
      /\ ~TransQueued(node[t])

\* Who is unregistered is on its way out.
DyingEnds ==
  \A n \in dying :
    \E t \in Threads :
      \/ pc[t] \in DestroyPCs /\ cur[t] = n
      \/ pc[t] = "closing" /\ node[t] = n

IInv ==
  /\ TypeOK
  /\ PathExclusion
  /\ Ownership
  /\ QueueMatchesSleepers
  /\ OpsCounted
  /\ Quiescence
  /\ NoDangling
  /\ WalkOnPath
  /\ SleepersWakeInTime
  /\ DestroyCovered
  /\ ClosedAlone
  /\ DyingEnds

-----------------------------------------------------------------------------
(* Liveness.  Threads are interchangeable, so that one may stand for all.  *)

\* A driver-level trans_start_wait returns: once it is queued nothing new is
\* let in anywhere, and the last transition to stop triggers it.
DriverWaitEnds ==
  \A t \in Watched :
    (pc[t] = "wait" /\ node[t] = Driver) ~> (pc[t] # "wait")

\* A psoc-level trans_start_wait returns, provided driver transitions, which
\* go first, are not requested without a pause for ever.
PsocWaitEnds ==
  \A p \in Psocs : []<>~TransActiveOrQueued(Driver) =>
    \A t \in Watched : (pc[t] = "wait" /\ node[t] = p) ~> (pc[t] # "wait")

\* A vdev-level trans_start_wait returns, provided driver and psoc transitions
\* are not requested without a common pause for ever.
VdevWaitEnds ==
  \A v \in Vdevs :
    []<>~(TransActiveOrQueued(Driver) \/ TransActiveOrQueued(PsocOf[v])) =>
      \A t \in Watched : (pc[t] = "wait" /\ node[t] = v) ~> (pc[t] # "wait")

\* wait_for_ops returns.
DrainEnds ==
  \A t \in Watched : (pc[t] = "drainwait") ~> (pc[t] # "drainwait")

\* wait_for_uptree_ops returns once the operations it waits for are over.
UptreeDrainEnds ==
  \A t \in Watched : (pc[t] = "updrainwait") ~> (pc[t] # "updrainwait")
=============================================================================
