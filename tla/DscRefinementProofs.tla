------------------------ MODULE DscRefinementProofs ------------------------
(***************************************************************************)
(* Dsc implements HierLock, for every tree of contexts and every finite    *)
(* set of threads: each step of Dsc, under the inductive invariant of      *)
(* DscProofs, is a step of the abstract lock or leaves it alone.           *)
(* Like there, a holder closes a context only with nobody queued on it.    *)
(***************************************************************************)
EXTENDS DscRefinement, DscProofs

\* The state the abstract lock sees.
lockVars == <<active, InFlight, drained>>

\* A step of HierLock, or none.
LockStep == [Lock!Next]_lockVars

-----------------------------------------------------------------------------
(* Operations in flight                                                    *)

\* A thread that neither enters nor leaves an operation is not noticed.
LEMMA InFlightUnchanged ==
  ASSUME TypeOK, NEW t \in Threads, NEW at, pc[t] # "op", at # "op",
         pc' = [pc EXCEPT ![t] = at],
         \A u \in Threads \ {t} : node'[u] = node[u]
  PROVE  InFlight' = InFlight
<1>1. \A u \in Threads : pc'[u] = "op" <=> pc[u] = "op"
  BY DEF TypeOK
<1>2. \A u \in Threads : pc[u] = "op" => node'[u] = node[u]
  OBVIOUS
<1> QED
  BY <1>1, <1>2 DEF InFlight

\* A count of zero means that nobody is in an operation there: what op_stop's
\* test and wait_for_ops rely on.
LEMMA ZeroIsQuiet ==
  ASSUME OpsCounted, NEW m \in Nodes, ops[m] = 0
  PROVE  \A u \in Threads : InFlight[u] # m
<1>1. IsFiniteSet(Running(m))
  BY ThreadAssumption, FS_Subset DEF Running
<1>2. Cardinality(Running(m)) = 0
  BY DEF OpsCounted, Running
<1>3. Running(m) = {}
  BY <1>1, <1>2, FS_EmptySet
<1> QED
  BY <1>3, TreeAssumption DEF InFlight, Running

\* A thread inside a transition is the holder of its context.
LEMMA HolderOfNode ==
  ASSUME IInv, NEW t \in Threads, pc[t] \in TransPCs
  PROVE  node[t] \in Nodes /\ active[node[t]] = t
<1>1. node[t] \in Nodes
  BY DEF IInv, TypeOK, WalkOnPath, TransPCs
<1> QED
  BY <1>1 DEF IInv, Ownership, Granted

-----------------------------------------------------------------------------
(* One lemma per step that the lock sees                                   *)

\* A transition that starts acquires a context whose path is free.
LEMMA TransStartAcquires ==
  ASSUME IInv, NEW t \in Threads, NEW n \in Nodes, TransStart(t, n)
  PROVE  Lock!Acquire(t, n)
<1>1. \A m \in Nodes : Related(m, n) => ~TransActive(m)
  BY RelatedCases, ActivePathRefused DEF TransStart, IInv
<1>2. pc[t] = "idle" /\ pc' = [pc EXCEPT ![t] = "trans"]
      /\ node' = [node EXCEPT ![t] = n]
  BY DEF TransStart, StartNow, EnterCall, Goto
<1>3. InFlight' = InFlight
  BY <1>2, InFlightUnchanged DEF IInv, TypeOK
<1> QED
  BY <1>1, <1>3 DEF Lock!Acquire, Lock!Held, TransActive, TransStart, StartNow

\* An operation begins where the path is free.
LEMMA OpStartBegins ==
  ASSUME IInv, NEW t \in Threads, NEW n \in Nodes, OpStart(t, n)
  PROVE  Lock!Begin(t, n)
<1>1. \A m \in Nodes : Related(m, n) => ~TransActive(m)
  BY RelatedCases, ActivePathRefused DEF OpStart, IInv
<1>2. /\ pc[t] = "idle" /\ pc' = [pc EXCEPT ![t] = "op"]
      /\ node' = [node EXCEPT ![t] = n] /\ UNCHANGED <<active, drained>>
  BY DEF OpStart, EnterCall, Goto, transVars
<1>3. InFlight' = [InFlight EXCEPT ![t] = n] /\ InFlight[t] = NoNode
  BY <1>2 DEF InFlight, IInv, TypeOK
<1> QED
  BY <1>1, <1>2, <1>3 DEF Lock!Begin, Lock!Held, TransActive

\* op_stop ends the caller's operation.
LEMMA OpStopEnds ==
  ASSUME IInv, NEW t \in Threads, OpStop(t)
  PROVE  Lock!End(t)
<1>1. /\ pc[t] = "op" /\ pc' = [pc EXCEPT ![t] = "idle"]
      /\ node' = [node EXCEPT ![t] = NoNode] /\ UNCHANGED <<active, drained>>
  BY DEF OpStop, LeaveCall, Goto, transVars
<1>2. node[t] # NoNode
  BY <1>1 DEF IInv, WalkOnPath
<1>3. InFlight' = [InFlight EXCEPT ![t] = NoNode] /\ InFlight[t] # NoNode
  BY <1>1, <1>2 DEF InFlight, IInv, TypeOK
<1> QED
  BY <1>1, <1>3 DEF Lock!End

\* A visit of a walk that is over makes the context quiet for the holder.
LEMMA VisitedQuiets ==
  ASSUME IInv, NEW t \in Threads, NEW m \in todo[t], NEW walk,
         pc[t] \in Draining, walk \in {"drain", "updrain"},
         ops[m] = 0, Visited(t, m, walk), UNCHANGED <<active, node>>
  PROVE  Lock!Quiet(t, m)
<1>1. m \in Nodes
  BY DEF IInv, TypeOK
<1>2. node[t] \in Nodes /\ active[node[t]] = t
  BY HolderOfNode DEF Draining, Sleeping, TransPCs
<1>3. Related(node[t], m)
  BY <1>1, <1>2, RelatedCases DEF IInv, WalkOnPath
<1>4. \A u \in Threads : InFlight[u] # m
  BY <1>1, ZeroIsQuiet DEF IInv
<1>5. InFlight' = InFlight
  <2> DEFINE at == IF todo[t] = {m} THEN "trans" ELSE walk
  <2>1. pc' = [pc EXCEPT ![t] = at] /\ at # "op" /\ pc[t] # "op"
    BY DEF Visited, Goto, Draining, Sleeping
  <2> QED
    BY <2>1, InFlightUnchanged DEF IInv
<1> QED
  BY <1>2, <1>3, <1>4, <1>5 DEF Lock!Quiet, Visited

\* The locked part of a visit: the context is quiet, or the thread sleeps.
LEMMA DrainCheckQuiets ==
  ASSUME IInv, NEW t \in Threads, NEW m \in Nodes, DrainCheck(t, m)
  PROVE  Lock!Quiet(t, m) \/ UNCHANGED lockVars
<1>1. pc[t] \in {"drain", "updrain"} /\ m \in todo[t] /\ UNCHANGED <<active, node>>
  BY DEF DrainCheck, MayVisit, transVars
<1>2. CASE ops[m] = 0 /\ Visited(t, m, pc[t])
  BY <1>1, <1>2, VisitedQuiets DEF Draining
<1>3. CASE ops[m] > 0 /\ Goto(t, Asleep(pc[t])) /\ UNCHANGED drained
  <2>1. Asleep(pc[t]) # "op" /\ pc[t] # "op"
    BY <1>1 DEF Asleep
  <2>2. InFlight' = InFlight
    BY <1>1, <1>3, <2>1, InFlightUnchanged DEF Goto, IInv
  <2> QED
    BY <1>1, <1>3, <2>2 DEF lockVars
<1> QED
  BY <1>2, <1>3 DEF DrainCheck

\* A sleeper of a walk wakes only when the operations are over.
LEMMA DrainWakeQuiets ==
  ASSUME IInv, NEW t \in Threads, NEW walk \in {"drain", "updrain"},
         DrainWake(t, walk)
  PROVE  cur[t] \in Nodes /\ Lock!Quiet(t, cur[t])
<1>1. pc[t] \in Sleeping
  BY DEF DrainWake, Asleep, Sleeping
<1>2. cur[t] \in todo[t] /\ ops[cur[t]] = 0
  BY <1>1 DEF DrainWake, IInv, SleepersWakeInTime
<1>3. cur[t] \in Nodes
  BY <1>2 DEF IInv, TypeOK
<1>4. Lock!Quiet(t, cur[t])
  BY <1>1, <1>2, VisitedQuiets DEF DrainWake, Draining, transVars
<1> QED
  BY <1>3, <1>4

\* A stop with its whole cascade of triggers is one release: whoever else
\* holds a context keeps it, and what is given away does not conflict.
LEMMA TransStopReleases ==
  ASSUME IInv, NEW t \in Threads, TransStop(t)
  PROVE  node[t] \in Nodes /\ Lock!Release(t, node[t])
<1> DEFINE n == node[t]
           S == Triggers(n)
<1>0. /\ pc[t] \in {"trans", "closing"}
      /\ \E at \in {"idle", "discard"} : pc' = [pc EXCEPT ![t] = at]
      /\ \A u \in Threads \ {t} : node'[u] = node[u]
      /\ active' = [m \in Nodes |-> IF m \in S THEN Head(queue[m])
                                    ELSE IF m = n THEN NoThread ELSE active[m]]
      /\ drained' = [drained EXCEPT ![t] = {}]
  <2>1. pc[t] \in {"trans", "closing"} /\ HandOver(n, S) /\ LetGo(t)
    BY DEF TransStop
  <2>2. node' = node \/ node' = [node EXCEPT ![t] = NoNode]
    BY <2>1 DEF LetGo, LeaveCall
  <2>3. \A u \in Threads \ {t} : node'[u] = node[u]
    BY <2>2 DEF IInv, TypeOK
  <2> QED
    BY <2>1, <2>3 DEF HandOver, LetGo, LeaveCall, Goto
<1>1. n \in Nodes /\ active[n] = t
  BY <1>0, HolderOfNode DEF TransPCs
<1>2. TransActive(n)
  BY <1>1, ThreadAssumption DEF TransActive
<1>3. \A m \in S, k \in Nodes : TransActive(k) /\ Related(m, k) => k = n
  BY <1>1, <1>2, TriggersApart DEF IInv
<1>4. S \subseteq Nodes
  BY <1>1, <1>2, TriggersApart DEF IInv
<1>5. \A m \in Nodes \ {n} : TransActive(m) => m \notin S
  BY <1>3, <1>4, RelatedCases
<1>6. IInv'
  BY TransStopIInv
<1>7. active' \in [Nodes -> Threads \cup {NoThread}]
  BY <1>6 DEF IInv, TypeOK
<1>8. \A m \in Nodes \ {n} : TransActive(m) => active'[m] = active[m]
  BY <1>0, <1>5
<1>9. \A m, k \in Nodes : Related(m, k) /\ active'[m] # NoThread
                            /\ active'[k] # NoThread => m = k
  BY <1>6 DEF IInv, PathExclusion, TransActive
<1>10. InFlight' = InFlight
  BY <1>0, InFlightUnchanged DEF IInv, TypeOK
<1> HIDE DEF n, S
<1>11. Lock!Release(t, n)
  BY <1>0, <1>1, <1>7, <1>8, <1>9, <1>10 DEF Lock!Release, Lock!Held, TransActive
<1> QED
  BY <1>1, <1>11 DEF n

-----------------------------------------------------------------------------
(* One lemma for the steps that it does not see                            *)

\* Creating and destroying contexts, queueing, the start of a walk and the
\* waking of a triggered or aborted waiter leave the abstract lock alone.
LEMMA Invisible ==
  ASSUME IInv
  PROVE  /\ Env => UNCHANGED lockVars
         /\ \A t \in Threads :
              /\ \A n \in Nodes : TransStartWait(t, n) \/ DestroyBegin(t, n)
                                    => UNCHANGED lockVars
              /\ Unregister(t) => UNCHANGED lockVars
              /\ DrainBegin(t) \/ UptreeDrainBegin(t) => UNCHANGED lockVars
              /\ TranWake(t) \/ DestroyAbort(t) \/ DestroyEnd(t) => UNCHANGED lockVars
<1>1. Env => UNCHANGED lockVars
  <2>1. ASSUME NEW n \in Nodes, Create(n) PROVE UNCHANGED lockVars
    <3>1. active[n] = NoThread
      BY <2>1 DEF Create, IInv, NoDangling, TransActiveOrQueued, TransActive
    <3>2. active' = active
      BY <2>1, <3>1 DEF Create, IInv, TypeOK
    <3> QED
      BY <2>1, <3>2 DEF Create, threadVars, lockVars, InFlight
  <2>2. DriverDestroy => UNCHANGED lockVars
    BY DEF DriverDestroy, transVars, threadVars, lockVars, InFlight
  <2>3. \A b \in FlagValues : SetRecovering(b) \/ SetUnloading(b) => UNCHANGED lockVars
    BY DEF SetRecovering, SetUnloading, transVars, threadVars, lockVars, InFlight
  <2> QED
    BY <2>1, <2>2, <2>3 DEF Env
<1>2. ASSUME NEW t \in Threads, NEW at, pc[t] # "op", at # "op",
             pc' = [pc EXCEPT ![t] = at], UNCHANGED <<active, drained>>,
             \A u \in Threads \ {t} : node'[u] = node[u]
      PROVE  UNCHANGED lockVars
  BY <1>2, InFlightUnchanged DEF IInv, lockVars
<1>3. ASSUME NEW t \in Threads, NEW n \in Nodes, TransStartWait(t, n)
      PROVE  UNCHANGED lockVars
  <2>1. /\ pc[t] = "idle" /\ pc' = [pc EXCEPT ![t] = "wait"]
        /\ node' = [node EXCEPT ![t] = n] /\ UNCHANGED <<active, drained>>
    BY <1>3 DEF TransStartWait, QueueTran, EnterCall, Goto
  <2> QED
    BY <1>2, <2>1 DEF IInv, TypeOK
<1>4. ASSUME NEW t \in Threads, NEW n \in Nodes, DestroyBegin(t, n)
      PROVE  UNCHANGED lockVars
  <2>1. UNCHANGED <<active, drained>>
    BY <1>4 DEF DestroyBegin, transVars
  <2>2. CASE pc[t] = "trans" /\ Goto(t, "destroy") /\ UNCHANGED node
    BY <1>2, <2>1, <2>2 DEF Goto
  <2>3. CASE pc[t] = "idle" /\ EnterCall(t, n, "discard")
    BY <1>2, <2>1, <2>3 DEF EnterCall, Goto, IInv, TypeOK
  <2> QED
    BY <1>4, <2>2, <2>3 DEF DestroyBegin
<1>8. ASSUME NEW t \in Threads, Unregister(t) PROVE UNCHANGED lockVars
  BY <1>2, <1>8 DEF Unregister, Goto, transVars
<1>5. ASSUME NEW t \in Threads, DrainBegin(t) \/ UptreeDrainBegin(t)
      PROVE  UNCHANGED lockVars
  BY <1>2, <1>5 DEF DrainBegin, UptreeDrainBegin, Goto, transVars
<1>6. ASSUME NEW t \in Threads, TranWake(t) PROVE UNCHANGED lockVars
  <2>1. /\ pc[t] = "wait" /\ UNCHANGED <<active, drained>>
        /\ pc' = [pc EXCEPT ![t] = "trans"] \/ pc' = [pc EXCEPT ![t] = "idle"]
        /\ node' = node \/ node' = [node EXCEPT ![t] = NoNode]
    BY <1>6 DEF TranWake, LeaveCall, Goto, transVars
  <2> QED
    BY <1>2, <2>1 DEF IInv, TypeOK
<1>7. ASSUME NEW t \in Threads, DestroyAbort(t) \/ DestroyEnd(t)
      PROVE  UNCHANGED lockVars
  <2>1. CASE DestroyAbort(t)
    BY <2>1 DEF DestroyAbort, lockVars, InFlight
  <2>2. CASE DestroyEnd(t)
    <3>1. UNCHANGED <<active, drained>> /\ Freed(t, cur[t])
      BY <2>2 DEF DestroyEnd, transVars
    <3>2. CASE pc[t] = "destroy" /\ Goto(t, "trans") /\ UNCHANGED node
      BY <1>2, <3>1, <3>2 DEF Goto
    <3>3. CASE pc[t] = "discard" /\ LeaveCall(t)
      BY <1>2, <3>1, <3>3 DEF LeaveCall, Goto, IInv, TypeOK
    <3> QED
      BY <3>1, <3>2, <3>3 DEF Freed
  <2> QED
    BY <1>7, <2>1, <2>2
<1> QED
  BY <1>1, <1>3, <1>4, <1>5, <1>6, <1>7, <1>8

-----------------------------------------------------------------------------
(* The refinement                                                          *)

\* Every step of DSC is a step of the lock.
LEMMA NextRefines == IInv /\ [Next]_vars => LockStep
<1> SUFFICES ASSUME IInv, [Next]_vars PROVE LockStep
  OBVIOUS
<1>1. UNCHANGED lockVars => LockStep
  BY DEF LockStep
<1>2. \A t \in Threads, n \in Nodes :
        Lock!Acquire(t, n) \/ Lock!Release(t, n) \/ Lock!Begin(t, n) \/ Lock!Quiet(t, n)
          => LockStep
  BY DEF LockStep, Lock!Next
<1>3. \A t \in Threads : Lock!End(t) => LockStep
  BY DEF LockStep, Lock!Next
<1>4. CASE Env
  BY <1>1, <1>4, Invisible
<1>5. ASSUME NEW t \in Threads, Call(t) PROVE LockStep
  <2>1. OpNodes \subseteq Nodes
    BY TreeAssumption
  <2> QED
    BY <1>1, <1>2, <1>5, <2>1, Invisible, TransStartAcquires, OpStartBegins DEF Call
<1>6. ASSUME NEW t \in Threads, Progress(t) PROVE LockStep
  BY <1>1, <1>2, <1>3, <1>6, Invisible, OpStopEnds, DrainCheckQuiets,
     DrainWakeQuiets DEF Progress
<1>7. ASSUME NEW t \in Threads, TransStop(t) PROVE LockStep
  BY <1>2, <1>7, TransStopReleases
<1>8. CASE UNCHANGED vars
  BY <1>1, <1>8 DEF vars, lockVars, InFlight
<1> QED
  BY <1>4, <1>5, <1>6, <1>7, <1>8 DEF Next

\* The synchronization core is the tree lock it promises its callers: nobody
\* is let in beside a holder of the same path, a stop takes nothing from other
\* holders, and a context reported quiet has no operation in flight.
THEOREM Refinement ==
  ASSUME CloseAlone = Nodes
  PROVE  Spec => ImplementsHierLock
<1>1. Init => Lock!Init
  BY DEF Init, Lock!Init, InFlight
<1>2. IInv /\ [Next]_vars => [Lock!Next]_<<active, InFlight, drained>>
  BY NextRefines DEF LockStep, lockVars
<1> QED
  BY <1>1, <1>2, Invariance, PTL DEF Spec, ImplementsHierLock, Lock!Spec
=============================================================================
