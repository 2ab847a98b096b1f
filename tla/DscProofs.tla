----------------------------- MODULE DscProofs -----------------------------
(***************************************************************************)
(* Proofs about Dsc for every tree of contexts and every finite set of     *)
(* threads: IInv is inductive, and the safety invariants follow from it.   *)
(* The theorems assume that no holder closes its own context with somebody *)
(* queued on it (CloseAlone = Nodes): without it they do not hold.         *)
(***************************************************************************)
EXTENDS Dsc, FiniteSetTheorems, TLAPS

-----------------------------------------------------------------------------
(* The tree                                                                *)

\* Every context is in the tree, its parent and its subtree are contexts.
LEMMA TreeTypes ==
  /\ Driver \in Nodes
  /\ \A n \in Nodes : Parent(n) \in Nodes /\ Subtree(n) \subseteq Nodes
  /\ \A n \in Nodes : n \in Subtree(n) /\ Children(n) \subseteq Nodes
  /\ \A v \in Vdevs : Uptree(v) \subseteq Nodes
BY TreeAssumption DEF Nodes, Parent, Subtree, Children, Uptree

\* Who is on one path with whom.
LEMMA RelatedCases ==
  ASSUME NEW m \in Nodes, NEW n \in Nodes
  PROVE  /\ Related(m, n) <=> Related(n, m)
         /\ Related(n, n)
         /\ Related(Driver, n)
         /\ m \in Psocs /\ n \in Psocs => (Related(m, n) <=> m = n)
         /\ m \in Vdevs /\ n \in Vdevs => (Related(m, n) <=> m = n)
         /\ m \in Psocs /\ n \in Vdevs => (Related(m, n) <=> m = PsocOf[n])
BY TreeAssumption DEF Nodes, Related, Subtree

\* While a transition is active, no transition and no operation can start on
\* a context of its path: the three can_trans functions together.
LEMMA ActivePathRefused ==
  ASSUME TypeOK, NoDangling, NEW m \in Nodes, NEW n \in Nodes,
         Related(m, n), TransActive(n)
  PROVE  Refused(m)
<1>1. n \in attached
  BY DEF NoDangling, TransActiveOrQueued
<1>2. CASE m = Driver
  BY <1>1, <1>2, TreeAssumption
  DEF Refused, CanTrans, DriverCanTrans, DriverTransActiveDownTree, Nodes,
      TransActiveOrQueued
<1>3. CASE m \in Psocs
  <2>1. m # Driver
    BY <1>3, TreeAssumption
  <2>2. n = Driver \/ n = m \/ (n \in Vdevs /\ PsocOf[n] = m)
    BY <1>3, RelatedCases DEF Nodes
  <2> QED
    BY <1>1, <1>3, <2>1, <2>2
    DEF Refused, CanTrans, PsocCanTrans, PsocTransActiveDownTree, Children,
        TransActiveOrQueued
<1>4. CASE m \in Vdevs
  <2>1. m # Driver /\ m \notin Psocs
    BY <1>4, TreeAssumption
  <2>2. n = Driver \/ n = m \/ n = PsocOf[m]
    BY <1>4, RelatedCases DEF Nodes
  <2> QED
    BY <2>1, <2>2
    DEF Refused, CanTrans, VdevCanTrans, TransActiveOrQueued
<1> QED
  BY <1>2, <1>3, <1>4 DEF Nodes

-----------------------------------------------------------------------------
(* Queues                                                                  *)

Elems(s, t) == \E i \in DOMAIN s : s[i] = t

Distinct(s) == \A i, j \in DOMAIN s : s[i] = s[j] => i = j

\* __dsc_trans_dequeue removes the first waiter and nobody else.
LEMMA DequeueElems ==
  ASSUME NEW S, NEW s \in Seq(S), s # <<>>, Distinct(s), NEW t
  PROVE  /\ Head(s) \in S /\ Elems(s, Head(s))
         /\ Tail(s) \in Seq(S)
         /\ Elems(Tail(s), t) <=> Elems(s, t) /\ t # Head(s)
         /\ Distinct(Tail(s))
<1>1. Len(s) \in Nat /\ Len(s) > 0 /\ DOMAIN s = 1 .. Len(s)
  OBVIOUS
<1>2. Tail(s) \in Seq(S) /\ DOMAIN Tail(s) = 1 .. (Len(s) - 1)
  OBVIOUS
<1>3. \A i \in 1 .. (Len(s) - 1) : Tail(s)[i] = s[i + 1]
  OBVIOUS
<1>4. Head(s) = s[1] /\ s[1] \in S
  BY <1>1
<1>5. Elems(Tail(s), t) => Elems(s, t) /\ t # Head(s)
  <2> SUFFICES ASSUME NEW i \in 1 .. (Len(s) - 1), Tail(s)[i] = t
               PROVE  Elems(s, t) /\ t # Head(s)
    BY <1>2 DEF Elems
  <2>1. i + 1 \in DOMAIN s /\ s[i + 1] = t /\ 1 \in DOMAIN s /\ i + 1 # 1
    BY <1>1, <1>3
  <2> QED
    BY <2>1, <1>4 DEF Elems, Distinct
<1>6. Elems(s, t) /\ t # Head(s) => Elems(Tail(s), t)
  <2> SUFFICES ASSUME NEW i \in 1 .. Len(s), s[i] = t, t # Head(s)
               PROVE  Elems(Tail(s), t)
    BY <1>1 DEF Elems
  <2>1. i - 1 \in 1 .. (Len(s) - 1) /\ (i - 1) + 1 = i
    BY <1>1, <1>4
  <2>2. Tail(s)[i - 1] = t
    BY <1>3, <2>1
  <2> QED
    BY <2>1, <2>2, <1>2 DEF Elems
<1>7. Distinct(Tail(s))
  <2> SUFFICES ASSUME NEW i \in 1 .. (Len(s) - 1), NEW j \in 1 .. (Len(s) - 1),
                      Tail(s)[i] = Tail(s)[j]
               PROVE  i = j
    BY <1>2 DEF Distinct
  <2>1. i + 1 \in DOMAIN s /\ j + 1 \in DOMAIN s /\ s[i + 1] = s[j + 1]
    BY <1>1, <1>3
  <2> QED
    BY <2>1 DEF Distinct
<1>8. Elems(s, Head(s))
  BY <1>1, <1>4 DEF Elems
<1> QED
  BY <1>2, <1>4, <1>5, <1>6, <1>7, <1>8

\* __dsc_trans_queue adds one waiter at the back.
LEMMA EnqueueElems ==
  ASSUME NEW S, NEW s \in Seq(S), Distinct(s), NEW t \in S, NEW u,
         ~Elems(s, t)
  PROVE  /\ Append(s, t) \in Seq(S)
         /\ Append(s, t) # <<>>
         /\ Elems(Append(s, t), u) <=> Elems(s, u) \/ u = t
         /\ Distinct(Append(s, t))
<1> DEFINE a == Append(s, t)
<1>1. a \in Seq(S) /\ Len(a) = Len(s) + 1 /\ Len(s) \in Nat
  OBVIOUS
<1>2. DOMAIN s = 1 .. Len(s) /\ DOMAIN a = 1 .. (Len(s) + 1)
  BY <1>1
<1>3. \A i \in 1 .. Len(s) : a[i] = s[i]
  OBVIOUS
<1>4. a[Len(s) + 1] = t
  OBVIOUS
<1> HIDE DEF a
<1>5. \A i \in DOMAIN a : i \in DOMAIN s \/ i = Len(s) + 1
  BY <1>1, <1>2
<1>6. DOMAIN s \subseteq DOMAIN a /\ Len(s) + 1 \in DOMAIN a
  BY <1>1, <1>2
<1>7. Elems(a, u) <=> Elems(s, u) \/ u = t
  BY <1>2, <1>3, <1>4, <1>5, <1>6 DEF Elems
<1>8. Distinct(a)
  BY <1>2, <1>3, <1>4, <1>5 DEF Elems, Distinct
<1>9. a # <<>>
  BY <1>6
<1> QED
  BY <1>1, <1>7, <1>8, <1>9 DEF a

\* QueueMatchesSleepers in those words.
LEMMA QueueFacts ==
  ASSUME TypeOK, QueueMatchesSleepers, NEW n \in Nodes
  PROVE  /\ queue[n] \in Seq(Threads)
         /\ Distinct(queue[n])
         /\ \A t \in Threads : Elems(queue[n], t) <=> node[t] = n /\ tran[t] = "queued"
         /\ TransQueued(n) =>
              /\ Head(queue[n]) \in Threads
              /\ node[Head(queue[n])] = n /\ tran[Head(queue[n])] = "queued"
              /\ pc[Head(queue[n])] = "wait"
<1>1. queue[n] \in Seq(Threads) /\ Distinct(queue[n])
  BY DEF TypeOK, QueueMatchesSleepers, Distinct
<1>2. \A t \in Threads : Elems(queue[n], t) <=> node[t] = n /\ tran[t] = "queued"
  BY DEF QueueMatchesSleepers, Elems
<1>3. TransQueued(n) => Head(queue[n]) \in Threads /\ Elems(queue[n], Head(queue[n]))
  BY <1>1, DequeueElems DEF TransQueued
<1> QED
  BY <1>1, <1>2, <1>3 DEF QueueMatchesSleepers

-----------------------------------------------------------------------------
(* IInv holds initially                                                    *)

\* Before the module is loaded there is no context, no transition and no call.
LEMMA InitIInv == Init => IInv
<1> SUFFICES ASSUME Init PROVE IInv
  OBVIOUS
<1> USE DEF Init
<1>1. TypeOK
  <2>1. <<>> \in Seq(Threads) /\ 0 \in 0 .. MaxDone
    BY BoundAssumption
  <2> QED
    BY <2>1 DEF TypeOK, PCs, TranStates
<1>2. PathExclusion
  BY DEF PathExclusion, TransActive
<1>3. Ownership
  BY ThreadAssumption, TreeAssumption DEF Ownership, Granted, TransPCs
<1>4. QueueMatchesSleepers
  BY TreeAssumption DEF QueueMatchesSleepers
<1>5. OpsCounted
  <2>1. \A n \in Nodes : {t \in Threads : pc[t] = "op" /\ node[t] = n} = {}
    OBVIOUS
  <2> QED
    BY <2>1, FS_EmptySet DEF OpsCounted
<1>6. Quiescence
  BY DEF Quiescence
<1>8. NoDangling
  BY DEF NoDangling, TransActiveOrQueued, TransActive, TransQueued
<1>9. WalkOnPath
  BY DEF WalkOnPath
<1>10. SleepersWakeInTime
  BY DEF SleepersWakeInTime, Sleeping
<1>11. DestroyCovered /\ ClosedAlone /\ DyingEnds
  BY DEF DestroyCovered, Covered, DestroyPCs, ClosedAlone, DyingEnds
<1> QED
  BY <1>1, <1>2, <1>3, <1>4, <1>5, <1>6, <1>8, <1>9, <1>10, <1>11 DEF IInv

\* Who destroys a context goes on undisturbed by steps on other contexts.
LEMMA CoveredKept ==
  ASSUME NEW u \in Threads, Covered(u),
         pc'[u] = pc[u], cur'[u] = cur[u], node'[u] = node[u],
         attached' = attached, cur[u] \in dying', ops'[cur[u]] = 0,
         active'[cur[u]] \in {active[cur[u]], NoThread},
         queue[cur[u]] = <<>> => queue'[cur[u]] = <<>>,
         \A w \in Threads : cur'[w] = cur[u] => cur[w] = cur[u]
  PROVE  Covered(u)'
<1>1. \/ pc'[u] = "destroy" /\ cur'[u] \in Subtree(node'[u]) \ {node'[u]}
      \/ pc'[u] = "discard" /\ cur'[u] = node'[u] /\ queue'[cur'[u]] = <<>>
  BY DEF Covered, TransQueued
<1>2. /\ cur'[u] \in dying' \cap attached' /\ Children(cur'[u]) \cap attached' = {}
      /\ active'[cur'[u]] = NoThread /\ ops'[cur'[u]] = 0
      /\ \A w \in Threads : cur'[w] = cur'[u] => w = u
  BY DEF Covered, TransActive
<1> QED
  BY <1>1, <1>2 DEF Covered, TransActive, TransQueued

\* Who sleeps on n's operations holds a transition of n's path: while one on n
\* or above is active, only its holder can.
LEMMA SleeperHolds ==
  ASSUME IInv, NEW n \in Nodes, NEW u \in Threads, cur[u] = n,
         pc[u] \notin DestroyPCs,
         NEW k \in Nodes, n \in Subtree(k), TransActive(k)
  PROVE  active[k] = u
<1> USE DEF IInv
<1>1. pc[u] \in Sleeping /\ n \in todo[u]
  BY TreeAssumption DEF SleepersWakeInTime
<1>2. node[u] \in Nodes /\ Related(n, node[u])
  BY <1>1 DEF WalkOnPath, TypeOK, Sleeping
<1>3. active[node[u]] = u /\ TransActive(node[u])
  BY <1>1, <1>2, ThreadAssumption
  DEF Ownership, Granted, TransPCs, Sleeping, TransActive
<1>4. Related(k, node[u])
  BY <1>2, TreeAssumption DEF Related, Subtree, Nodes
<1> QED
  BY <1>2, <1>3, <1>4 DEF PathExclusion

-----------------------------------------------------------------------------
(* IInv is preserved: creating and destroying contexts                     *)

\* A created context is idle and empty, whatever it was before.
LEMMA CreateIInv ==
  ASSUME IInv, NEW n \in Nodes, Create(n)
  PROVE  IInv'
<1> USE DEF IInv, Create, envVars, threadVars
<1>0. active[n] = NoThread /\ queue[n] = <<>> /\ ops[n] = 0
  BY DEF NoDangling, TransActiveOrQueued, TransActive, TransQueued
<1>a. active' = active /\ queue' = queue /\ ops' = ops
  BY <1>0 DEF TypeOK
<1>1. TypeOK'
  BY BoundAssumption DEF TypeOK
<1>2. PathExclusion' /\ Ownership' /\ QueueMatchesSleepers' /\ OpsCounted' /\ Quiescence'
  BY <1>a DEF PathExclusion, TransActive, Ownership, Granted, QueueMatchesSleepers,
              OpsCounted, Quiescence
<1>4. NoDangling'
  <2>1. Parent(n) \in attached'
    BY TreeAssumption DEF Parent, Callable
  <2> QED
    BY <1>a, <2>1 DEF NoDangling, TransActiveOrQueued, TransActive, TransQueued, Parent
<1>5. WalkOnPath'
  BY DEF WalkOnPath
<1>6. SleepersWakeInTime'
  BY <1>a, BoundAssumption DEF SleepersWakeInTime, TypeOK
<1>7. ASSUME NEW k \in dying, Children(k) \cap attached = {}
      PROVE  Children(k) \cap attached' = {}
  <2>1. n # Driver => Parent(n) \notin dying
    BY DEF Callable
  <2>2. n \in Children(k) => n # Driver /\ Parent(n) = k
    BY TreeAssumption DEF Children, Parent, TypeOK, Nodes
  <2> QED
    BY <1>7, <2>1, <2>2
<1>8. DestroyCovered'
  BY <1>a, <1>7 DEF DestroyCovered, Covered, TransActive, TransQueued
<1>9. ClosedAlone' /\ DyingEnds'
  BY <1>a, <1>7 DEF ClosedAlone, DyingEnds, TransQueued
<1> QED
  BY <1>1, <1>2, <1>4, <1>5, <1>6, <1>8, <1>9

\* Nothing is active on what is going to be destroyed: a transition above it
\* excludes that, or nobody has a call on it.
LEMMA DestroyBeginIInv ==
  ASSUME IInv, NEW t \in Threads, NEW n \in Nodes, DestroyBegin(t, n)
  PROVE  IInv'
<1> USE DEF IInv
<1>0. /\ n \in attached \ dying /\ Children(n) \cap attached = {} /\ ops[n] = 0
      /\ dying' = dying \cup {n} /\ cur' = [cur EXCEPT ![t] = n]
      /\ UNCHANGED <<attached, active, queue, ops, event, recovering, unloading,
                     tran, todo, drained>>
  BY DEF DestroyBegin, Callable, transVars, opVars, envVars
<1>1. \/ /\ pc[t] = "trans" /\ n \in Subtree(node[t]) \ {node[t]}
         /\ pc' = [pc EXCEPT ![t] = "destroy"] /\ node' = node
      \/ /\ pc[t] = "idle" /\ Unused(n)
         /\ pc' = [pc EXCEPT ![t] = "discard"] /\ node' = [node EXCEPT ![t] = n]
  BY DEF DestroyBegin, EnterCall, Goto
<1>a. /\ cur'[t] = n /\ pc'[t] \in DestroyPCs
      /\ \A u \in Threads : u # t =>
           cur'[u] = cur[u] /\ pc'[u] = pc[u] /\ node'[u] = node[u]
  BY <1>0, <1>1 DEF TypeOK, DestroyPCs
<1>b. /\ ~TransActive(n) /\ \A u \in Threads : cur[u] # n
      /\ \/ pc'[t] = "destroy" /\ n \in Subtree(node'[t]) \ {node'[t]}
         \/ pc'[t] = "discard" /\ n = node'[t] /\ ~TransQueued(n)
  <2>1. CASE pc[t] = "trans"
    <3>1. node[t] \in Nodes /\ active[node[t]] = t /\ TransActive(node[t])
      BY <2>1, TreeAssumption, ThreadAssumption
      DEF Ownership, Granted, TransPCs, WalkOnPath, TypeOK, TransActive
    <3>2. n \in Subtree(node[t]) \ {node[t]} /\ Related(n, node[t])
      BY <1>1, <2>1 DEF Related
    <3>3. ~TransActive(n)
      BY <3>1, <3>2 DEF PathExclusion
    <3>5. \A u \in Threads : cur[u] = n => pc[u] \notin DestroyPCs
      BY <1>0 DEF DestroyCovered, Covered
    <3>6. cur[t] # n
      BY <2>1, TreeAssumption DEF SleepersWakeInTime, Sleeping, DestroyPCs
    <3>7. \A u \in Threads : cur[u] # n
      BY <3>1, <3>2, <3>5, <3>6, SleeperHolds
    <3> QED
      BY <1>1, <2>1, <3>2, <3>3, <3>7 DEF TypeOK
  <2>2. CASE pc[t] = "idle"
    <3>1. Unused(n) /\ pc'[t] = "discard" /\ node'[t] = n
      BY <1>1, <2>2 DEF TypeOK
    <3>2. ~TransActive(n)
      BY <3>1 DEF Unused, Ownership, TransActive, TypeOK
    <3>3. ~TransQueued(n)
      BY <3>1, QueueFacts DEF Unused
    <3> QED
      BY <3>1, <3>2, <3>3 DEF Unused
  <2> QED
    BY <1>1, <2>1, <2>2
<1>2. TypeOK'
  BY <1>0, <1>1 DEF TypeOK, PCs, TransPCs
<1>3. PathExclusion' /\ Quiescence'
  BY <1>0 DEF PathExclusion, TransActive, Quiescence
<1>4. Ownership'
  <2>1. \A u \in Threads : Granted(u)' <=> Granted(u)
    BY <1>0, <1>1 DEF Granted, TransPCs, TypeOK
  <2>2. \A m \in Nodes : pc[t] = "idle" => active[m] # t
    BY TreeAssumption DEF Ownership, WalkOnPath
  <2>3. pc[t] = "idle" => ~Granted(t)
    BY DEF Granted, TransPCs, QueueMatchesSleepers
  <2> QED
    BY <1>0, <1>1, <1>a, <2>1, <2>2, <2>3 DEF Ownership
<1>5. QueueMatchesSleepers'
  <2>1. \A u \in Threads : pc'[u] = "wait" <=> pc[u] = "wait"
    BY <1>1 DEF TypeOK
  <2>2. \A u \in Threads : node'[u] = node[u] \/ (u = t /\ tran[u] = "none")
    BY <1>1, <1>a DEF QueueMatchesSleepers
  <2>3. \A k \in Nodes, u \in Threads : tran[u] = "none" => ~Elems(queue[k], u)
    BY QueueFacts
  <2> QED
    BY <1>0, <2>1, <2>2, <2>3 DEF QueueMatchesSleepers, Elems
<1>6. OpsCounted'
  <2>1. \A k \in Nodes : {u \in Threads : pc'[u] = "op" /\ node'[u] = k}
                       = {u \in Threads : pc[u] = "op" /\ node[u] = k}
    BY <1>1, <1>a DEF DestroyPCs
  <2> QED
    BY <1>0, <2>1 DEF OpsCounted
<1>7. NoDangling'
  <2>1. \A u \in Threads : node'[u] # NoNode =>
          node'[u] \in attached' \/ tran'[u] = "abort"
    BY <1>0, <1>1, <1>a DEF NoDangling, TypeOK
  <2> QED
    BY <1>0, <2>1 DEF NoDangling, TransActiveOrQueued, TransActive, TransQueued
<1>8. WalkOnPath'
  <2>1. pc[t] = "idle" => todo[t] = {} /\ drained[t] = {}
    BY DEF WalkOnPath, Draining, Sleeping, TransPCs
  <2>2. pc[t] = "trans" => todo[t] = {}
    BY DEF WalkOnPath, Draining, Sleeping
  <2>3. ASSUME NEW u \in Threads
        PROVE  /\ pc'[u] = "idle" <=> node'[u] = NoNode
               /\ \A m \in todo'[u] \cup drained'[u] : Related(m, node'[u])
               /\ todo'[u] # {} => pc'[u] \in Draining
               /\ drained'[u] # {} => pc'[u] \in TransPCs
    <3>1. CASE u = t
      BY <1>0, <1>1, <2>1, <2>2, <3>1, TreeAssumption DEF WalkOnPath, TransPCs, TypeOK
    <3>2. CASE u # t
      BY <1>0, <1>a, <3>2 DEF WalkOnPath
    <3> QED
      BY <3>1, <3>2
  <2> QED
    BY <2>3 DEF WalkOnPath
<1>9. SleepersWakeInTime'
  BY <1>0, <1>a DEF SleepersWakeInTime, Sleeping, DestroyPCs
<1>10. DestroyCovered'
  <2>1. ASSUME NEW u \in Threads, pc'[u] \in DestroyPCs, u # t
        PROVE  cur'[u] # n /\ pc[u] \in DestroyPCs /\ cur'[u] = cur[u]
    BY <1>a, <1>b, <2>1
  <2> QED
    BY <1>0, <1>a, <1>b, <2>1 DEF DestroyCovered, Covered, TransActive, TransQueued
<1>11. ClosedAlone' /\ DyingEnds'
  BY <1>0, <1>1, <1>a DEF ClosedAlone, DyingEnds, TransQueued, DestroyPCs
<1> QED
  BY <1>2, <1>3, <1>4, <1>5, <1>6, <1>7, <1>8, <1>9, <1>10, <1>11

\* A holder with nobody queued behind it becomes the only one to know of its
\* context.
LEMMA UnregisterIInv ==
  ASSUME CloseAlone = Nodes, IInv, NEW t \in Threads, Unregister(t)
  PROVE  IInv'
<1> USE DEF IInv
<1> DEFINE n == node[t]
<1>0. /\ pc[t] = "trans" /\ n \in attached \ dying /\ n \in drained[t]
      /\ Children(n) \cap attached = {} /\ ~TransQueued(n)
      /\ dying' = dying \cup {n} /\ pc' = [pc EXCEPT ![t] = "closing"]
      /\ UNCHANGED <<attached, active, queue, ops, event, recovering, unloading,
                     node, tran, todo, cur, drained>>
  BY DEF Unregister, Callable, Goto, transVars, opVars, envVars, TypeOK
<1> HIDE DEF n
<1>a. pc'[t] = "closing" /\ \A u \in Threads : u # t => pc'[u] = pc[u]
  BY <1>0 DEF TypeOK
<1>b. todo[t] = {}
  BY <1>0 DEF WalkOnPath, Draining, Sleeping
<1>1. TypeOK'
  BY <1>0 DEF TypeOK, PCs, TransPCs
<1>2. PathExclusion' /\ Quiescence' /\ NoDangling'
  BY <1>0 DEF PathExclusion, TransActive, Quiescence, NoDangling,
              TransActiveOrQueued, TransQueued
<1>3. Ownership'
  <2>1. \A u \in Threads : Granted(u)' <=> Granted(u)
    BY <1>0, <1>a DEF Granted, TransPCs
  <2> QED
    BY <1>0, <2>1 DEF Ownership
<1>4. QueueMatchesSleepers' /\ OpsCounted'
  <2>1. \A u \in Threads : /\ pc'[u] = "wait" <=> pc[u] = "wait"
                           /\ pc'[u] = "op" <=> pc[u] = "op"
    BY <1>0, <1>a
  <2>2. \A k \in Nodes : {u \in Threads : pc'[u] = "op" /\ node'[u] = k}
                       = {u \in Threads : pc[u] = "op" /\ node[u] = k}
    BY <1>0, <2>1
  <2>3. OpsCounted'
    BY <1>0, <2>2 DEF OpsCounted
  <2> QED
    BY <1>0, <2>1, <2>3 DEF QueueMatchesSleepers
<1>5. WalkOnPath' /\ SleepersWakeInTime'
  BY <1>0, <1>a, <1>b
  DEF WalkOnPath, TransPCs, SleepersWakeInTime, Sleeping, DestroyPCs
<1>6. DestroyCovered'
  BY <1>0, <1>a DEF DestroyCovered, Covered, DestroyPCs, TransActive, TransQueued
<1>7. ClosedAlone' /\ DyingEnds'
  BY <1>0, <1>a DEF ClosedAlone, DyingEnds, DestroyPCs, TransQueued, n
<1> QED
  BY <1>1, <1>2, <1>3, <1>4, <1>5, <1>6, <1>7

\* An abort reaches the first waiter only, and takes it out of the queue.
LEMMA DestroyAbortIInv ==
  ASSUME IInv, NEW t \in Threads, DestroyAbort(t)
  PROVE  IInv'
<1> USE DEF IInv, DestroyAbort, envVars, treeVars, opVars
<1> DEFINE n == cur[t]
           h == Head(queue[n])
<1>0. n \in Nodes /\ TransQueued(n) /\ n \in attached /\ t # h
  <2>1. n \in Nodes /\ n \in attached
    BY DEF DestroyCovered, Covered, TypeOK
  <2> QED
    BY <2>1, QueueFacts DEF DestroyPCs
<1>a. /\ h \in Threads /\ node[h] = n /\ tran[h] = "queued" /\ pc[h] = "wait"
      /\ queue[n] \in Seq(Threads) /\ queue[n] # <<>> /\ Distinct(queue[n])
  BY <1>0, QueueFacts DEF TransQueued
<1>b. /\ tran' = [tran EXCEPT ![h] = "abort"]
      /\ queue' = [queue EXCEPT ![n] = Tail(queue[n])]
      /\ UNCHANGED <<attached, dying, active, ops, event, recovering, unloading,
                     pc, node, todo, cur, drained>>
  OBVIOUS
<1> HIDE DEF n, h, DestroyAbort
<1>1. TypeOK'
  <2>1. Tail(queue[n]) \in Seq(Threads)
    BY <1>a, DequeueElems
  <2>2. queue' \in [Nodes -> Seq(Threads)]
    BY <1>b, <2>1 DEF TypeOK
  <2>3. tran' \in [Threads -> TranStates]
    BY <1>b DEF TypeOK, TranStates
  <2> QED
    BY <1>b, <2>2, <2>3 DEF TypeOK
<1>2. PathExclusion' /\ Quiescence' /\ OpsCounted'
  BY <1>b DEF PathExclusion, TransActive, Quiescence, OpsCounted
<1>3. Ownership'
  <2>1. \A u \in Threads : Granted(u)' <=> Granted(u)
    BY <1>a, <1>b DEF Granted, TypeOK, TransPCs
  <2> QED
    BY <1>b, <2>1 DEF Ownership
<1>4. QueueMatchesSleepers'
  <2>1. ASSUME NEW k \in Nodes
        PROVE  /\ Distinct(queue'[k])
               /\ \A u \in Threads : Elems(queue'[k], u) <=> node'[u] = k /\ tran'[u] = "queued"
    <3>1. CASE k = n
      <4>1. queue'[k] = Tail(queue[n])
        BY <1>0, <1>b, <3>1 DEF TypeOK
      <4>2. Distinct(queue'[k])
        BY <1>a, <4>1, DequeueElems
      <4>3. ASSUME NEW u \in Threads
            PROVE  Elems(queue'[k], u) <=> Elems(queue[n], u) /\ u # h
        BY <1>a, <4>1, DequeueElems DEF h
      <4>4. \A u \in Threads : Elems(queue[n], u) <=> node[u] = n /\ tran[u] = "queued"
        BY <1>0, QueueFacts
      <4>5. \A u \in Threads : tran'[u] = IF u = h THEN "abort" ELSE tran[u]
        BY <1>a, <1>b DEF TypeOK
      <4> QED
        BY <1>b, <3>1, <4>2, <4>3, <4>4, <4>5
    <3>2. CASE k # n
      <4>1. queue'[k] = queue[k]
        BY <1>b, <3>2 DEF TypeOK
      <4>2. \A u \in Threads : node[u] = k => tran'[u] = tran[u]
        BY <1>a, <1>b, <3>2 DEF TypeOK
      <4> QED
        BY <1>b, <4>1, <4>2, QueueFacts
    <3> QED
      BY <3>1, <3>2
  <2>2. \A u \in Threads : tran'[u] # "none" <=> pc'[u] = "wait"
    BY <1>a, <1>b DEF QueueMatchesSleepers, TypeOK
  <2> QED
    BY <2>1, <2>2 DEF QueueMatchesSleepers, Elems, Distinct
<1>5. NoDangling'
  <2>1. \A k \in Nodes \ attached' : ~TransActiveOrQueued(k)' /\ ops'[k] = 0
    BY <1>0, <1>b DEF NoDangling, TransActiveOrQueued, TransActive, TransQueued, TypeOK
  <2>2. \A u \in Threads : node'[u] # NoNode =>
          node'[u] \in attached' \/ tran'[u] = "abort"
    BY <1>a, <1>b DEF NoDangling, TypeOK
  <2> QED
    BY <1>b, <2>1, <2>2 DEF NoDangling
<1>6. WalkOnPath' /\ SleepersWakeInTime'
  BY <1>b DEF WalkOnPath, SleepersWakeInTime
<1>7. DestroyCovered' /\ ClosedAlone' /\ DyingEnds'
  <2>1. \A k \in Nodes : ~TransQueued(k) => ~TransQueued(k)'
    BY <1>0, <1>b DEF TransQueued, TypeOK
  <2>2. DestroyCovered'
    BY <1>b, <2>1 DEF DestroyCovered, Covered, TransActive, TypeOK
  <2> QED
    BY <1>b, <2>1, <2>2 DEF ClosedAlone, DyingEnds, TypeOK
<1> QED
  BY <1>1, <1>2, <1>3, <1>4, <1>5, <1>6, <1>7

\* What is unlinked is empty, childless and nobody else's business.
LEMMA DestroyEndIInv ==
  ASSUME IInv, NEW t \in Threads, DestroyEnd(t)
  PROVE  IInv'
<1> USE DEF IInv
<1> DEFINE n == cur[t]
<1>0. /\ pc[t] \in DestroyPCs /\ ~TransQueued(n)
      /\ attached' = attached \ {n} /\ dying' = dying \ {n}
      /\ cur' = [cur EXCEPT ![t] = NoNode]
      /\ \/ pc[t] = "destroy" /\ pc' = [pc EXCEPT ![t] = "trans"] /\ node' = node
         \/ /\ pc[t] = "discard" /\ pc' = [pc EXCEPT ![t] = "idle"]
            /\ node' = [node EXCEPT ![t] = NoNode]
      /\ UNCHANGED <<active, queue, ops, event, recovering, unloading, tran, todo,
                     drained>>
  BY DEF DestroyEnd, Freed, LeaveCall, Goto, envVars, transVars, opVars
<1>a. /\ n \in Nodes /\ n \in attached /\ n \in dying /\ n # NoNode
      /\ ~TransActive(n) /\ ops[n] = 0 /\ Children(n) \cap attached = {}
      /\ \A u \in Threads : cur[u] = n => u = t
  BY <1>0, TreeAssumption DEF DestroyCovered, Covered, TypeOK
<1> HIDE DEF n
<1>b. /\ cur'[t] = NoNode
      /\ \/ pc[t] = "destroy" /\ pc'[t] = "trans" /\ node'[t] = node[t]
         \/ pc[t] = "discard" /\ pc'[t] = "idle" /\ node'[t] = NoNode
      /\ \A u \in Threads : u # t =>
           cur'[u] = cur[u] /\ pc'[u] = pc[u] /\ node'[u] = node[u]
  BY <1>0 DEF TypeOK
<1>c. tran[t] = "none" /\ todo[t] = {} /\ (pc[t] = "discard" => drained[t] = {})
  BY <1>0 DEF QueueMatchesSleepers, WalkOnPath, Draining, Sleeping, TransPCs, DestroyPCs
<1>1. TypeOK'
  BY <1>0 DEF TypeOK, PCs, TransPCs
<1>2. PathExclusion' /\ Quiescence'
  BY <1>0 DEF PathExclusion, TransActive, Quiescence
<1>3. Ownership'
  <2>1. \A u \in Threads : Granted(u)' <=> Granted(u)
    BY <1>0, <1>b DEF Granted, TransPCs
  <2>2. pc[t] = "discard" => ~Granted(t)
    BY <1>c DEF Granted, TransPCs
  <2> QED
    BY <1>0, <1>b, <2>1, <2>2 DEF Ownership
<1>4. QueueMatchesSleepers'
  <2>1. \A u \in Threads : pc'[u] = "wait" <=> pc[u] = "wait"
    BY <1>b
  <2>2. \A u \in Threads : node'[u] = node[u] \/ (u = t /\ tran[u] = "none")
    BY <1>b, <1>c
  <2>3. \A k \in Nodes, u \in Threads : tran[u] = "none" => ~Elems(queue[k], u)
    BY QueueFacts
  <2> QED
    BY <1>0, <2>1, <2>2, <2>3 DEF QueueMatchesSleepers, Elems
<1>5. OpsCounted'
  <2>1. \A k \in Nodes : {u \in Threads : pc'[u] = "op" /\ node'[u] = k}
                       = {u \in Threads : pc[u] = "op" /\ node[u] = k}
    BY <1>b
  <2> QED
    BY <1>0, <2>1 DEF OpsCounted
<1>7. NoDangling'
  <2>1. \A k \in attached' : Parent(k) \in attached'
    BY <1>0, <1>a, TreeAssumption
    DEF NoDangling, Children, Parent, Nodes, TypeOK
  <2>2. \A k \in Nodes \ attached' : ~TransActiveOrQueued(k)' /\ ops'[k] = 0
    BY <1>0, <1>a DEF NoDangling, TransActiveOrQueued, TransActive, TransQueued
  <2>3. ASSUME NEW u \in Threads, node'[u] # NoNode
        PROVE  node'[u] \in attached' \/ tran'[u] = "abort"
    <3>0. node'[u] = node[u] /\ (u = t => node[t] # n)
      BY <1>0, <1>b, <2>3 DEF DestroyCovered, Covered, n
    <3>1. node[u] \in attached \/ tran[u] = "abort"
      BY <2>3, <3>0 DEF NoDangling
    <3>2. CASE node[u] = n
      <4>1. ~Granted(u)
        BY <1>a, <3>2, ThreadAssumption DEF Ownership, TransActive
      <4>2. tran[u] # "queued"
        BY <1>0, <1>a, <3>2, QueueFacts DEF TransQueued, Elems
      <4>3. pc[u] # "op"
        <5> SUFFICES ASSUME pc[u] = "op" PROVE FALSE
          OBVIOUS
        <5> DEFINE S == {w \in Threads : pc[w] = "op" /\ node[w] = n}
        <5>1. IsFiniteSet(S) /\ Cardinality(S) = 0
          BY <1>a, ThreadAssumption, FS_Subset DEF OpsCounted
        <5>2. S = {}
          BY <5>1, FS_EmptySet
        <5> QED
          BY <5>2, <3>2
      <4>4. pc[u] # "discard"
        BY <1>a, <3>0, <3>2 DEF DestroyCovered, Covered, DestroyPCs
      <4>5. pc[u] = "wait"
        BY <2>3, <3>0, <4>1, <4>3, <4>4 DEF TypeOK, PCs, WalkOnPath, Granted
      <4> QED
        BY <1>0, <4>1, <4>2, <4>5 DEF Granted, QueueMatchesSleepers, TypeOK, TranStates
    <3> QED
      BY <1>0, <3>0, <3>1, <3>2
  <2> QED
    BY <2>1, <2>2, <2>3 DEF NoDangling
<1>8. WalkOnPath'
  BY <1>0, <1>b, <1>c DEF WalkOnPath, TransPCs
<1>9. SleepersWakeInTime'
  BY <1>0, <1>b DEF SleepersWakeInTime, Sleeping
<1>10. DestroyCovered'
  <2>1. \A u \in Threads : pc'[u] \in DestroyPCs => u # t /\ pc[u] \in DestroyPCs
    BY <1>b DEF DestroyPCs
  <2> QED
    BY <1>0, <1>a, <1>b, <2>1, TreeAssumption
    DEF DestroyCovered, Covered, TransActive, TransQueued, TypeOK
<1>11. ClosedAlone'
  <2>1. ASSUME NEW u \in Threads, pc'[u] = "closing"
        PROVE  pc[u] = "closing" /\ u # t /\ node[u] # n
    <3>1. pc[u] = "closing" /\ u # t
      BY <1>b, <2>1
    <3>2. node[u] \in Nodes => active[node[u]] = u
      BY <3>1 DEF Ownership, Granted, TransPCs
    <3> QED
      BY <1>a, <3>1, <3>2, ThreadAssumption DEF TransActive
  <2> QED
    BY <1>0, <1>b, <2>1 DEF ClosedAlone, TransQueued
<1>12. DyingEnds'
  BY <1>0, <1>b DEF DyingEnds, DestroyPCs, n
<1> QED
  BY <1>1, <1>2, <1>3, <1>4, <1>5, <1>7, <1>8, <1>9, <1>10, <1>11, <1>12

\* With every thread idle nothing is queued, counted or held.
LEMMA DriverDestroyIInv ==
  ASSUME IInv, DriverDestroy
  PROVE  IInv'
<1> USE DEF IInv, DriverDestroy, envVars, transVars, opVars, threadVars
<1>0. \A t \in Threads : node[t] = NoNode /\ tran[t] = "none"
  BY DEF WalkOnPath, QueueMatchesSleepers
<1>1. TypeOK'
  BY DEF TypeOK
<1>2. /\ PathExclusion' /\ Quiescence' /\ Ownership' /\ QueueMatchesSleepers'
      /\ OpsCounted' /\ WalkOnPath' /\ SleepersWakeInTime'
  BY DEF PathExclusion, TransActive, Quiescence, Ownership, Granted,
         QueueMatchesSleepers, OpsCounted, WalkOnPath, SleepersWakeInTime
<1>3. dying = {}
  BY DEF DyingEnds, DestroyPCs
<1>4. DestroyCovered' /\ ClosedAlone' /\ DyingEnds'
  BY <1>3 DEF DestroyCovered, Covered, ClosedAlone, DyingEnds, DestroyPCs
<1>5. \A n \in Nodes : active[n] = NoThread /\ queue[n] = <<>> /\ ops[n] = 0
  <2> SUFFICES ASSUME NEW n \in Nodes
               PROVE  active[n] = NoThread /\ queue[n] = <<>> /\ ops[n] = 0
    OBVIOUS
  <2>1. active[n] = NoThread
    BY <1>0, TreeAssumption DEF Ownership, TypeOK
  <2>2. queue[n] = <<>>
    BY <1>0, QueueFacts, TreeAssumption DEF TransQueued
  <2>3. {t \in Threads : pc[t] = "op" /\ node[t] = n} = {}
    OBVIOUS
  <2> QED
    BY <2>1, <2>2, <2>3, FS_EmptySet DEF OpsCounted
<1>6. NoDangling'
  BY <1>0, <1>5 DEF NoDangling, TransActiveOrQueued, TransActive, TransQueued
<1> QED
  BY <1>1, <1>2, <1>4, <1>6

-----------------------------------------------------------------------------
(* IInv is preserved: transitions                                          *)

\* A transition that starts at once meets no other on its path.
LEMMA TransStartIInv ==
  ASSUME IInv, NEW t \in Threads, NEW n \in Nodes, TransStart(t, n)
  PROVE  IInv'
<1> USE DEF IInv
<1>0. /\ pc[t] = "idle" /\ n \in attached /\ n \notin dying
      /\ active' = [active EXCEPT ![n] = t]
      /\ pc' = [pc EXCEPT ![t] = "trans"]
      /\ node' = [node EXCEPT ![t] = n]
      /\ UNCHANGED <<attached, dying, queue, ops, event, recovering, unloading,
                     tran, todo, cur, drained>>
  BY DEF TransStart, StartNow, EnterCall, Goto, Callable, treeVars, opVars, envVars
<1>a. \A m \in Nodes : Related(m, n) => ~TransActive(m)
  BY RelatedCases, ActivePathRefused DEF TransStart
<1>b. node[t] = NoNode /\ tran[t] = "none" /\ active[n] = NoThread
  BY <1>0, <1>a, RelatedCases DEF WalkOnPath, QueueMatchesSleepers, TransActive
<1>1. TypeOK'
  BY <1>0 DEF TypeOK, PCs, TransPCs
<1>2. PathExclusion'
  BY <1>0, <1>a, RelatedCases DEF PathExclusion, TransActive, TypeOK
<1>3. Ownership'
  <2>1. \A m \in Nodes : active[m] # t
    BY <1>b, TreeAssumption DEF Ownership
  <2>2. \A u \in Threads : u # t => (Granted(u)' <=> Granted(u)) /\ node'[u] = node[u]
    BY <1>0 DEF Granted, TypeOK
  <2>3. Granted(t)' /\ node'[t] = n
    BY <1>0 DEF Granted, TypeOK, TransPCs
  <2>4. ASSUME NEW u \in Threads, NEW m \in Nodes
        PROVE  (active[m] = u <=> node[u] = m /\ Granted(u))'
    <3>1. CASE m = n
      BY <1>0, <1>b, <2>2, <2>3, <3>1, ThreadAssumption DEF Ownership, TypeOK
    <3>2. CASE m # n
      BY <1>0, <2>1, <2>2, <2>3, <3>2 DEF Ownership, TypeOK
    <3> QED
      BY <3>1, <3>2
  <2> QED
    BY <2>4 DEF Ownership
<1>4. QueueMatchesSleepers'
  BY <1>0, <1>b DEF QueueMatchesSleepers, TypeOK
<1>5. OpsCounted'
  <2>1. \A k \in Nodes : {u \in Threads : pc'[u] = "op" /\ node'[u] = k}
                       = {u \in Threads : pc[u] = "op" /\ node[u] = k}
    BY <1>0 DEF TypeOK
  <2> QED
    BY <1>0, <2>1 DEF OpsCounted
<1>6. Quiescence'
  BY <1>0 DEF Quiescence
<1>8. NoDangling'
  BY <1>0 DEF NoDangling, TransActiveOrQueued, TransActive, TransQueued, TypeOK
<1>9. WalkOnPath'
  BY <1>0, TreeAssumption DEF WalkOnPath, TypeOK, Draining, Sleeping, TransPCs
<1>10. SleepersWakeInTime'
  <2>1. cur[t] = NoNode
    BY <1>0 DEF SleepersWakeInTime, Sleeping, DestroyPCs
  <2>2. \A u \in Threads : u # t => pc'[u] = pc[u]
    BY <1>0 DEF TypeOK
  <2>3. pc'[t] \notin Sleeping
    BY <1>0 DEF TypeOK, Sleeping
  <2> QED
    BY <1>0, <2>1, <2>2, <2>3 DEF SleepersWakeInTime
<1>11. DestroyCovered'
  <2>1. ASSUME NEW u \in Threads, pc'[u] \in DestroyPCs
        PROVE  /\ Covered(u) /\ pc'[u] = pc[u] /\ node'[u] = node[u]
               /\ cur[u] # n /\ cur[u] \in dying /\ cur[u] \in Nodes /\ ops[cur[u]] = 0
    <3>1. pc'[u] = pc[u] /\ node'[u] = node[u]
      BY <1>0, <2>1 DEF TypeOK, DestroyPCs
    <3>2. Covered(u)
      BY <2>1, <3>1 DEF DestroyCovered
    <3> QED
      BY <1>0, <3>1, <3>2 DEF Covered, TypeOK
  <2>2. ASSUME NEW u \in Threads, pc'[u] \in DestroyPCs PROVE Covered(u)'
    BY <1>0, <2>1, <2>2, CoveredKept DEF TypeOK
  <2> QED
    BY <2>2 DEF DestroyCovered
<1>12. ClosedAlone' /\ DyingEnds'
  BY <1>0 DEF ClosedAlone, DyingEnds, DestroyPCs, TransQueued, TypeOK
<1> QED
  BY <1>1, <1>2, <1>3, <1>4, <1>5, <1>6, <1>8, <1>9, <1>10, <1>11, <1>12

\* A waiter enters one queue, and holds nothing.
LEMMA TransStartWaitIInv ==
  ASSUME IInv, NEW t \in Threads, NEW n \in Nodes, TransStartWait(t, n)
  PROVE  IInv'
<1> USE DEF IInv
<1>0. /\ pc[t] = "idle" /\ n \in attached /\ n \notin dying
      /\ queue' = [queue EXCEPT ![n] = Append(queue[n], t)]
      /\ tran' = [tran EXCEPT ![t] = "queued"]
      /\ pc' = [pc EXCEPT ![t] = "wait"]
      /\ node' = [node EXCEPT ![t] = n]
      /\ UNCHANGED <<attached, dying, active, ops, event, recovering, unloading,
                     todo, cur, drained>>
  BY DEF TransStartWait, QueueTran, EnterCall, Goto, Callable, treeVars, opVars, envVars
<1>b. node[t] = NoNode /\ tran[t] = "none" /\ ~Elems(queue[n], t)
  BY <1>0, QueueFacts DEF WalkOnPath, QueueMatchesSleepers
<1>c. queue[n] \in Seq(Threads) /\ Distinct(queue[n])
  BY QueueFacts
<1>1. TypeOK'
  <2>1. Append(queue[n], t) \in Seq(Threads)
    BY <1>b, <1>c, EnqueueElems
  <2>2. queue' \in [Nodes -> Seq(Threads)]
    BY <1>0, <2>1 DEF TypeOK
  <2> QED
    BY <1>0, <2>2 DEF TypeOK, PCs, TranStates
<1>2. PathExclusion'
  BY <1>0 DEF PathExclusion, TransActive
<1>3. Ownership'
  <2>1. \A u \in Threads : u # t => (Granted(u)' <=> Granted(u)) /\ node'[u] = node[u]
    BY <1>0 DEF Granted, TypeOK
  <2>2. ~Granted(t)' /\ \A m \in Nodes : active[m] # t
    BY <1>0, <1>b, TreeAssumption DEF Granted, TypeOK, TransPCs, Ownership
  <2> QED
    BY <1>0, <2>1, <2>2 DEF Ownership
<1>4. QueueMatchesSleepers'
  <2>1. ASSUME NEW k \in Nodes
        PROVE  /\ Distinct(queue'[k])
               /\ \A u \in Threads : Elems(queue'[k], u) <=> node'[u] = k /\ tran'[u] = "queued"
    <3>1. CASE k = n
      <4>1. queue'[k] = Append(queue[n], t)
        BY <1>0, <3>1 DEF TypeOK
      <4>2. Distinct(queue'[k])
        BY <1>b, <1>c, <4>1, EnqueueElems
      <4>3. ASSUME NEW u \in Threads
            PROVE  Elems(queue'[k], u) <=> Elems(queue[n], u) \/ u = t
        BY <1>b, <1>c, <4>1, EnqueueElems
      <4>4. \A u \in Threads : Elems(queue[n], u) <=> node[u] = n /\ tran[u] = "queued"
        BY QueueFacts
      <4> QED
        BY <1>0, <3>1, <4>2, <4>3, <4>4 DEF TypeOK
    <3>2. CASE k # n
      <4>1. queue'[k] = queue[k]
        BY <1>0, <3>2 DEF TypeOK
      <4>2. ASSUME NEW u \in Threads
            PROVE  Elems(queue[k], u) <=> node'[u] = k /\ tran'[u] = "queued"
        BY <1>0, <1>b, <3>2, QueueFacts DEF TypeOK
      <4> QED
        BY <4>1, <4>2, QueueFacts
    <3> QED
      BY <3>1, <3>2
  <2>2. \A u \in Threads : tran'[u] # "none" <=> pc'[u] = "wait"
    BY <1>0 DEF QueueMatchesSleepers, TypeOK
  <2> QED
    BY <2>1, <2>2 DEF QueueMatchesSleepers, Elems, Distinct
<1>5. OpsCounted'
  <2>1. \A k \in Nodes : {u \in Threads : pc'[u] = "op" /\ node'[u] = k}
                       = {u \in Threads : pc[u] = "op" /\ node[u] = k}
    BY <1>0 DEF TypeOK
  <2> QED
    BY <1>0, <2>1 DEF OpsCounted
<1>6. Quiescence'
  BY <1>0 DEF Quiescence
<1>8. NoDangling'
  BY <1>0, <1>b DEF NoDangling, TransActiveOrQueued, TransActive, TransQueued, TypeOK
<1>9. WalkOnPath'
  BY <1>0, TreeAssumption DEF WalkOnPath, TypeOK, Draining, Sleeping, TransPCs
<1>10. SleepersWakeInTime'
  <2>1. cur[t] = NoNode
    BY <1>0 DEF SleepersWakeInTime, Sleeping, DestroyPCs
  <2>2. \A u \in Threads : u # t => pc'[u] = pc[u]
    BY <1>0 DEF TypeOK
  <2>3. pc'[t] \notin Sleeping
    BY <1>0 DEF TypeOK, Sleeping
  <2> QED
    BY <1>0, <2>1, <2>2, <2>3 DEF SleepersWakeInTime
<1>11. DestroyCovered'
  <2>1. ASSUME NEW u \in Threads, pc'[u] \in DestroyPCs
        PROVE  /\ Covered(u) /\ pc'[u] = pc[u] /\ node'[u] = node[u]
               /\ cur[u] # n /\ cur[u] \in dying /\ cur[u] \in Nodes /\ ops[cur[u]] = 0
    <3>1. pc'[u] = pc[u] /\ node'[u] = node[u]
      BY <1>0, <2>1 DEF TypeOK, DestroyPCs
    <3>2. Covered(u)
      BY <2>1, <3>1 DEF DestroyCovered
    <3> QED
      BY <1>0, <3>1, <3>2 DEF Covered, TypeOK
  <2>2. ASSUME NEW u \in Threads, pc'[u] \in DestroyPCs PROVE Covered(u)'
    BY <1>0, <2>1, <2>2, CoveredKept DEF TypeOK
  <2> QED
    BY <2>2 DEF DestroyCovered
<1>12. ClosedAlone' /\ DyingEnds'
  <2>1. \A u \in Threads : u # t => pc'[u] = pc[u] /\ node'[u] = node[u]
    BY <1>0 DEF TypeOK
  <2>2. pc'[t] = "wait" /\ \A k \in Nodes : k # n => queue'[k] = queue[k]
    BY <1>0 DEF TypeOK
  <2>3. ClosedAlone'
    BY <1>0, <2>1, <2>2 DEF ClosedAlone, TransQueued, TypeOK
  <2>4. DyingEnds'
    BY <1>0, <2>1 DEF DyingEnds, DestroyPCs
  <2> QED
    BY <2>3, <2>4
<1> QED
  BY <1>1, <1>2, <1>3, <1>4, <1>5, <1>6, <1>8, <1>9, <1>10, <1>11, <1>12

\* Waking up changes only what the thread itself knows.
LEMMA TranWakeIInv ==
  ASSUME IInv, NEW t \in Threads, TranWake(t)
  PROVE  IInv'
<1> USE DEF IInv
<1>0. /\ pc[t] = "wait"
      /\ \/ tran[t] = "go" /\ pc' = [pc EXCEPT ![t] = "trans"] /\ node' = node
         \/ /\ tran[t] = "abort" /\ pc' = [pc EXCEPT ![t] = "idle"]
            /\ node' = [node EXCEPT ![t] = NoNode]
      /\ tran' = [tran EXCEPT ![t] = "none"]
      /\ UNCHANGED <<attached, dying, active, queue, ops, event, recovering,
                     unloading, todo, cur, drained>>
  BY DEF TranWake, LeaveCall, Goto, treeVars, transVars, opVars, envVars
<1>a. \A u \in Threads : u # t =>
        pc'[u] = pc[u] /\ node'[u] = node[u] /\ tran'[u] = tran[u]
  BY <1>0 DEF TypeOK
<1>b. \/ tran[t] = "go" /\ pc'[t] = "trans" /\ node'[t] = node[t] /\ tran'[t] = "none"
      \/ tran[t] = "abort" /\ pc'[t] = "idle" /\ node'[t] = NoNode /\ tran'[t] = "none"
  BY <1>0 DEF TypeOK
<1>c. todo[t] = {} /\ drained[t] = {}
  BY <1>0 DEF WalkOnPath, TransPCs, Draining, Sleeping
<1>1. TypeOK'
  BY <1>0 DEF TypeOK, PCs, TransPCs, TranStates
<1>2. PathExclusion' /\ Quiescence'
  BY <1>0 DEF PathExclusion, TransActive, Quiescence
<1>3. Ownership'
  <2>1. \A u \in Threads : u # t => (Granted(u)' <=> Granted(u))
    BY <1>a DEF Granted
  <2>2. ASSUME NEW m \in Nodes
        PROVE  (active[m] = t <=> node[t] = m /\ Granted(t))'
    <3>1. active[m] = t <=> node[t] = m /\ tran[t] = "go"
      BY <1>0 DEF Ownership, Granted, TransPCs
    <3> QED
      BY <1>0, <1>b, <3>1, TreeAssumption DEF Granted, TransPCs
  <2> QED
    BY <1>0, <1>a, <2>1, <2>2 DEF Ownership
<1>4. QueueMatchesSleepers'
  <2>1. ASSUME NEW k \in Nodes, NEW u \in Threads
        PROVE  Elems(queue[k], u) <=> node'[u] = k /\ tran'[u] = "queued"
    BY <1>a, <1>b, QueueFacts
  <2>2. \A k \in Nodes : Distinct(queue[k])
    BY QueueFacts
  <2>3. \A u \in Threads : tran'[u] # "none" <=> pc'[u] = "wait"
    BY <1>a, <1>b DEF QueueMatchesSleepers
  <2> QED
    BY <1>0, <2>1, <2>2, <2>3 DEF QueueMatchesSleepers, Elems, Distinct
<1>5. OpsCounted'
  <2>1. \A k \in Nodes : {u \in Threads : pc'[u] = "op" /\ node'[u] = k}
                       = {u \in Threads : pc[u] = "op" /\ node[u] = k}
    BY <1>0, <1>a, <1>b
  <2> QED
    BY <1>0, <2>1 DEF OpsCounted
<1>7. NoDangling'
  BY <1>0, <1>a, <1>b DEF NoDangling, TransActiveOrQueued, TransActive, TransQueued
<1>8. WalkOnPath'
  BY <1>0, <1>a, <1>b, <1>c DEF WalkOnPath
<1>9. SleepersWakeInTime'
  <2>1. cur[t] = NoNode /\ pc'[t] \notin Sleeping
    BY <1>0, <1>b DEF SleepersWakeInTime, Sleeping, DestroyPCs
  <2> QED
    BY <1>0, <1>a, <2>1 DEF SleepersWakeInTime
<1>10. DestroyCovered'
  <2>1. \A u \in Threads : pc'[u] \in DestroyPCs =>
          pc'[u] = pc[u] /\ node'[u] = node[u] /\ Covered(u) /\ ops[cur[u]] = 0
    BY <1>a, <1>b DEF DestroyCovered, Covered, DestroyPCs
  <2>2. ASSUME NEW u \in Threads, pc'[u] \in DestroyPCs PROVE Covered(u)'
    BY <1>0, <2>1, <2>2, CoveredKept DEF Covered
  <2> QED
    BY <2>2 DEF DestroyCovered
<1>11. ClosedAlone' /\ DyingEnds'
  BY <1>0, <1>a, <1>b DEF ClosedAlone, DyingEnds, DestroyPCs, TransQueued
<1> QED
  BY <1>1, <1>2, <1>3, <1>4, <1>5, <1>7, <1>8, <1>9, <1>10, <1>11

\* What a stop triggers: contexts with a waiter, none of them on the path of
\* a transition that goes on or of another triggered one.
LEMMA TriggersApart ==
  ASSUME TypeOK, PathExclusion, NoDangling, NEW n \in Nodes, TransActive(n)
  PROVE  /\ Triggers(n) \subseteq Nodes
         /\ \A m \in Triggers(n) : TransQueued(m)
         /\ \A m \in Triggers(n), k \in Nodes :
              TransActive(k) /\ Related(m, k) => k = n
         /\ \A m, k \in Triggers(n) : Related(m, k) => m = k
<1>0. \A k \in Nodes : TransActive(k) => k \in attached /\ (Related(k, n) => k = n)
  BY DEF NoDangling, TransActiveOrQueued, PathExclusion
<1>a. attached \subseteq Nodes
  BY DEF TypeOK
<1>1. CASE n = Driver
  <2>1. Triggers(n) = DriverTriggers
    BY <1>1 DEF Triggers
  <2>2. \A k \in Nodes : TransActive(k) => k = n
    BY <1>0, <1>1, RelatedCases
  <2>3. DriverTriggers \subseteq Nodes /\ \A m \in DriverTriggers : TransQueued(m)
    BY <1>a, TreeTypes DEF DriverTriggers, QueuedIn
  <2>4. \A m, k \in DriverTriggers : Related(m, k) => m = k
    <3>1. CASE TransQueued(Driver)
      BY <3>1 DEF DriverTriggers
    <3>2. CASE ~TransQueued(Driver)
      <4> SUFFICES ASSUME NEW m \in DriverTriggers, NEW k \in DriverTriggers,
                          Related(m, k)
                   PROVE  m = k
        OBVIOUS
      <4>1. \A x \in {m, k} : \/ x \in Psocs /\ TransQueued(x)
                              \/ x \in Vdevs /\ ~TransQueued(PsocOf[x])
        BY <3>2 DEF DriverTriggers, QueuedIn
      <4>2. m \in Nodes /\ k \in Nodes
        BY <2>3
      <4>3. CASE m \in Psocs /\ k \in Psocs
        BY <4>2, <4>3, RelatedCases
      <4>4. CASE m \in Vdevs /\ k \in Vdevs
        BY <4>2, <4>4, RelatedCases
      <4>5. CASE m \in Psocs /\ k \in Vdevs
        BY <4>1, <4>2, <4>5, RelatedCases, TreeAssumption
      <4>6. CASE k \in Psocs /\ m \in Vdevs
        BY <4>1, <4>2, <4>6, RelatedCases, TreeAssumption
      <4> QED
        BY <4>1, <4>3, <4>4, <4>5, <4>6
    <3> QED
      BY <3>1, <3>2
  <2> QED
    BY <2>1, <2>2, <2>3, <2>4
<1>2. CASE n \in Psocs
  <2>0. n # Driver
    BY <1>2, TreeAssumption
  <2>1. Triggers(n) = PsocTriggers(n)
    BY <1>2, <2>0 DEF Triggers
  <2>2. CASE TransQueued(Driver)
    <3>1. Triggers(n) \subseteq {Driver} /\ (Triggers(n) # {} => DriverCanTrigger(n))
      BY <2>1, <2>2 DEF PsocTriggers
    <3> QED
      BY <1>0, <2>2, <3>1, TreeTypes DEF DriverCanTrigger
  <2>3. CASE ~TransQueued(Driver)
    <3>1. Triggers(n) \subseteq {n} \/ (Triggers(n) \subseteq Children(n))
      BY <2>1, <2>3 DEF PsocTriggers, QueuedIn
    <3>2. \A m \in Triggers(n) : TransQueued(m) /\ m \in Nodes
      BY <2>1, <2>3, <1>a DEF PsocTriggers, QueuedIn
    <3>3. Children(n) = {v \in Vdevs : PsocOf[v] = n}
      BY <2>0 DEF Children
    <3>4. \A m \in Triggers(n), k \in Nodes :
              TransActive(k) /\ Related(m, k) => k = n
      <4> SUFFICES ASSUME NEW m \in Triggers(n), NEW k \in Nodes,
                          TransActive(k), Related(m, k)
                   PROVE  Related(k, n)
        BY <1>0
      <4>1. CASE m = n
        BY <4>1, RelatedCases
      <4>2. CASE m \in Vdevs /\ PsocOf[m] = n
        <5>0. m \in Nodes /\ (k = Driver \/ k \in Psocs \/ k \in Vdevs)
          BY <3>2 DEF Nodes
        <5>1. k = Driver \/ k = n \/ k = m
          <6>1. CASE k \in Psocs
            BY <4>2, <5>0, <6>1, RelatedCases
          <6>2. CASE k \in Vdevs
            BY <4>2, <5>0, <6>2, RelatedCases
          <6> QED
            BY <5>0, <6>1, <6>2
        <5>2. Related(Driver, n) /\ Related(n, n) /\ Related(m, n)
          BY <1>2, <4>2, <5>0, RelatedCases
        <5> QED
          BY <5>1, <5>2
      <4> QED
        BY <3>1, <3>3, <4>1, <4>2
    <3>5. \A m, k \in Triggers(n) : Related(m, k) => m = k
      BY <3>1, <3>2, <3>3, RelatedCases
    <3> QED
      BY <3>2, <3>4, <3>5
  <2> QED
    BY <2>2, <2>3
<1>3. CASE n \in Vdevs
  <2>0. n # Driver /\ n \notin Psocs
    BY <1>3, TreeAssumption
  <2>1. Triggers(n) = VdevTriggers(n)
    BY <2>0 DEF Triggers
  <2>2. CASE TransQueued(Driver)
    <3>1. Triggers(n) \subseteq {Driver} /\ (Triggers(n) # {} => DriverCanTrigger(n))
      BY <2>1, <2>2 DEF VdevTriggers
    <3> QED
      BY <1>0, <2>2, <3>1, TreeTypes DEF DriverCanTrigger
  <2>3. CASE ~TransQueued(Driver) /\ TransQueued(PsocOf[n])
    <3> DEFINE p == PsocOf[n]
    <3>1. p \in Psocs /\ p \in Nodes /\ p # Driver
      BY <1>3, TreeAssumption DEF Nodes
    <3>2. Triggers(n) \subseteq {p} /\ (Triggers(n) # {} => PsocCanTrigger(p, n))
      BY <2>1, <2>3 DEF VdevTriggers
    <3>3. ASSUME PsocCanTrigger(p, n), NEW k \in Nodes, TransActive(k), Related(p, k)
          PROVE  k = n
      <4>1. k = Driver \/ k \in Subtree(p)
        BY <3>1, <3>3, RelatedCases DEF Related, Subtree, Nodes
      <4> QED
        BY <1>0, <3>3, <4>1 DEF PsocCanTrigger, TransActiveOrQueued
    <3> QED
      BY <2>3, <3>1, <3>2, <3>3
  <2>4. CASE ~TransQueued(Driver) /\ ~TransQueued(PsocOf[n])
    <3>1. Triggers(n) \subseteq {n} /\ (Triggers(n) # {} => TransQueued(n))
      BY <2>1, <2>4 DEF VdevTriggers, QueuedIn
    <3> QED
      BY <1>0, <3>1, RelatedCases
  <2> QED
    BY <2>2, <2>3, <2>4
<1> QED
  BY <1>1, <1>2, <1>3 DEF Nodes

\* No stop triggers a context that is unregistered: what it would trigger is
\* covered by a transition above it, or has nobody queued.
LEMMA DyingNotTriggered ==
  ASSUME IInv, NEW t \in Threads, pc[t] \in {"trans", "closing"}
  PROVE  \A m \in Triggers(node[t]) : m \notin dying
<1> USE DEF IInv
<1> DEFINE n == node[t]
<1>1. n \in Nodes /\ active[n] = t /\ TransActive(n)
  <2>1. n \in Nodes
    BY TreeAssumption DEF WalkOnPath, TypeOK
  <2> QED
    BY <2>1, ThreadAssumption DEF Ownership, Granted, TransPCs, TransActive
<1> SUFFICES ASSUME NEW m \in Triggers(n), m \in dying PROVE FALSE
  OBVIOUS
<1>2. /\ m \in Nodes /\ TransQueued(m)
      /\ \A k \in Nodes : TransActive(k) /\ Related(m, k) => k = n
  BY <1>1, TriggersApart
<1>3. PICK u \in Threads : pc[u] = "destroy" /\ cur[u] = m /\ m \in Subtree(node[u])
  BY <1>2 DEF DyingEnds, DestroyCovered, Covered, ClosedAlone, DestroyPCs
<1>4. node[u] \in Nodes /\ active[node[u]] = u /\ u # t
  BY <1>3 DEF WalkOnPath, TypeOK, Ownership, Granted, TransPCs
<1> QED
  BY <1>1, <1>2, <1>3, <1>4, ThreadAssumption DEF Related, TransActive

\* A stop hands each triggered context to its first waiter.
LEMMA TransStopIInv ==
  ASSUME IInv, NEW t \in Threads, TransStop(t)
  PROVE  IInv'
<1> USE DEF IInv
<1> DEFINE n == node[t]
           S == Triggers(n)
<1>0. /\ active' = [m \in Nodes |-> IF m \in S THEN Head(queue[m])
                                    ELSE IF m = n THEN NoThread ELSE active[m]]
      /\ queue' = [m \in Nodes |-> IF m \in S THEN Tail(queue[m]) ELSE queue[m]]
      /\ tran' = [u \in Threads |->
                    IF \E m \in S : u = Head(queue[m]) THEN "go" ELSE tran[u]]
      /\ drained' = [drained EXCEPT ![t] = {}]
      /\ UNCHANGED <<attached, dying, ops, event, recovering, unloading, todo>>
  BY DEF TransStop, HandOver, LetGo, treeVars, opVars, envVars
<1>z. \/ /\ pc[t] = "trans" /\ pc' = [pc EXCEPT ![t] = "idle"]
         /\ node' = [node EXCEPT ![t] = NoNode] /\ cur' = cur
      \/ /\ pc[t] = "closing" /\ pc' = [pc EXCEPT ![t] = "discard"]
         /\ cur' = [cur EXCEPT ![t] = n] /\ node' = node
  BY DEF TransStop, LetGo, LeaveCall, Goto
<1>a. /\ n \in Nodes /\ active[n] = t /\ TransActive(n)
      /\ tran[t] = "none" /\ todo[t] = {} /\ cur[t] = NoNode
  <2>1. n \in Nodes /\ tran[t] = "none"
    BY <1>z, TreeAssumption DEF WalkOnPath, TypeOK, QueueMatchesSleepers
  <2>2. todo[t] = {} /\ cur[t] = NoNode
    BY <1>z DEF WalkOnPath, Draining, Sleeping, SleepersWakeInTime, DestroyPCs
  <2> QED
    BY <1>z, <2>1, <2>2, ThreadAssumption DEF Ownership, Granted, TransPCs, TransActive
<1>b. /\ S \subseteq Nodes
      /\ \A m \in S : TransQueued(m)
      /\ \A m \in S, k \in Nodes : TransActive(k) /\ Related(m, k) => k = n
      /\ \A m, k \in S : Related(m, k) => m = k
  BY <1>a, TriggersApart
<1>c. \A m \in S : /\ Head(queue[m]) \in Threads /\ node[Head(queue[m])] = m
                   /\ tran[Head(queue[m])] = "queued" /\ pc[Head(queue[m])] = "wait"
  BY <1>b, QueueFacts
<1>d. /\ tran'[t] = "none" /\ drained'[t] = {}
      /\ \/ pc[t] = "trans" /\ pc'[t] = "idle" /\ node'[t] = NoNode /\ cur'[t] = NoNode
         \/ pc[t] = "closing" /\ pc'[t] = "discard" /\ node'[t] = n /\ cur'[t] = n
  <2>1. tran'[t] = "none"
    BY <1>0, <1>a, <1>c
  <2>2. drained'[t] = {}
    BY <1>0 DEF TypeOK
  <2> QED
    BY <1>z, <1>a, <2>1, <2>2 DEF TypeOK
<1>e. \A u \in Threads : u # t =>
        /\ pc'[u] = pc[u] /\ node'[u] = node[u] /\ drained'[u] = drained[u]
        /\ cur'[u] = cur[u]
        /\ tran'[u] = IF \E m \in S : u = Head(queue[m]) THEN "go" ELSE tran[u]
  <2>1. \A u \in Threads : u # t => drained'[u] = drained[u]
          /\ tran'[u] = IF \E m \in S : u = Head(queue[m]) THEN "go" ELSE tran[u]
    BY <1>0 DEF TypeOK
  <2>2. \A u \in Threads : u # t =>
          pc'[u] = pc[u] /\ node'[u] = node[u] /\ cur'[u] = cur[u]
    BY <1>z DEF TypeOK
  <2> QED
    BY <2>1, <2>2
<1>f. \A m \in Nodes :
        /\ m \in S => active'[m] = Head(queue[m]) /\ queue'[m] = Tail(queue[m])
        /\ m \notin S => queue'[m] = queue[m]
        /\ m \notin S /\ m = n => active'[m] = NoThread
        /\ m \notin S /\ m # n => active'[m] = active[m]
  BY <1>0
<1> HIDE DEF n, S
<1>1. TypeOK'
  <2>1. ASSUME NEW m \in Nodes PROVE active'[m] \in Threads \cup {NoThread}
    <3>1. CASE m \in S
      BY <1>c, <1>f, <3>1
    <3>2. CASE m \notin S
      BY <1>f, <3>2 DEF TypeOK
    <3> QED
      BY <3>1, <3>2
  <2>2. \A m \in Nodes : queue'[m] \in Seq(Threads)
    <3> SUFFICES ASSUME NEW m \in Nodes PROVE queue'[m] \in Seq(Threads)
      OBVIOUS
    <3>1. CASE m \in S
      <4>1. queue[m] \in Seq(Threads) /\ Distinct(queue[m]) /\ queue[m] # <<>>
        BY <1>b, <3>1, QueueFacts DEF TransQueued
      <4>2. Tail(queue[m]) \in Seq(Threads)
        BY <4>1, DequeueElems
      <4> QED
        BY <1>f, <3>1, <4>2
    <3>2. CASE m \notin S
      BY <1>f, <3>2 DEF TypeOK
    <3> QED
      BY <3>1, <3>2
  <2>3. active' \in [Nodes -> Threads \cup {NoThread}]
    BY <1>0, <2>1
  <2>4. queue' \in [Nodes -> Seq(Threads)]
    BY <1>0, <2>2
  <2>5. tran' \in [Threads -> TranStates]
    BY <1>0 DEF TypeOK, TranStates
  <2>6. /\ pc' \in [Threads -> PCs] /\ node' \in [Threads -> Nodes \cup {NoNode}]
        /\ cur' \in [Threads -> Nodes \cup {NoNode}]
    <3>0. {"idle", "discard"} \subseteq PCs
      BY DEF PCs
    <3>1. CASE pc[t] = "trans"
      <4>1. /\ pc' = [pc EXCEPT ![t] = "idle"] /\ cur' = cur
            /\ node' = [node EXCEPT ![t] = NoNode]
        BY <1>z, <3>1
      <4> QED
        BY <3>0, <4>1 DEF TypeOK
    <3>2. CASE pc[t] = "closing"
      <4>1. /\ pc' = [pc EXCEPT ![t] = "discard"] /\ node' = node
            /\ cur' = [cur EXCEPT ![t] = n]
        BY <1>z, <3>2
      <4> QED
        BY <1>a, <3>0, <4>1 DEF TypeOK
    <3> QED
      BY <1>z, <3>1, <3>2
  <2> QED
    BY <1>0, <2>3, <2>4, <2>5, <2>6 DEF TypeOK
<1>2. PathExclusion'
  <2> SUFFICES ASSUME NEW m \in Nodes, NEW k \in Nodes, Related(m, k),
                      TransActive(m)', TransActive(k)'
               PROVE  m = k
    BY DEF PathExclusion
  <2>1. \A x \in {m, k} : x \in S \/ (x # n /\ TransActive(x))
    BY <1>f DEF TransActive
  <2>2. CASE m \in S /\ k \in S
    BY <1>b, <2>2
  <2>3. CASE m \in S /\ k \notin S
    BY <1>b, <2>1, <2>3
  <2>4. CASE m \notin S /\ k \in S
    BY <1>b, <2>1, <2>4, RelatedCases
  <2>5. CASE m \notin S /\ k \notin S
    BY <2>1, <2>5 DEF PathExclusion
  <2> QED
    BY <2>2, <2>3, <2>4, <2>5
<1>3. Ownership'
  <2>1. ASSUME NEW u \in Threads, NEW m \in Nodes
        PROVE  active'[m] = u <=> node'[u] = m /\ Granted(u)'
    <3>1. CASE u = t
      <4>1. ~Granted(t)'
        BY <1>d DEF Granted, TransPCs
      <4>2. active'[m] # t
        <5>1. CASE m \in S
          BY <1>z, <1>c, <1>f, <5>1
        <5>2. CASE m \notin S /\ m # n
          <6>1. active'[m] = active[m]
            BY <1>f, <5>2
          <6> QED
            BY <5>2, <6>1 DEF Ownership, n
        <5> QED
          BY <1>f, <5>1, <5>2, ThreadAssumption
      <4> QED
        BY <3>1, <4>1, <4>2
    <3>2. CASE u # t
      <4>1. Granted(u)' <=> Granted(u) \/ \E k \in S : u = Head(queue[k])
        BY <1>c, <1>e, <3>2 DEF Granted, TransPCs
      <4>2. node'[u] = node[u]
        BY <1>e, <3>2
      <4>3. Granted(u) /\ node[u] = m => active[m] = u /\ m # n
        BY <1>a, <3>2 DEF Ownership
      <4>4. CASE m \in S
        <5>1. active'[m] = u => node[u] = m /\ Granted(u)'
          BY <1>c, <1>f, <4>1, <4>4
        <5>2. node[u] = m => ~Granted(u)
          BY <1>b, <4>3, <4>4, RelatedCases, ThreadAssumption DEF TransActive
        <5>3. (\E k \in S : u = Head(queue[k])) /\ node[u] = m => active'[m] = u
          BY <1>c, <1>f, <4>4
        <5> QED
          BY <4>1, <4>2, <5>1, <5>2, <5>3
      <4>5. CASE m \notin S
        <5>1. node[u] = m => (Granted(u)' <=> Granted(u))
          BY <1>c, <4>1, <4>5
        <5>2. CASE m = n
          BY <1>f, <4>2, <4>3, <4>5, <5>1, <5>2, ThreadAssumption
        <5>3. CASE m # n
          BY <1>f, <4>2, <4>5, <5>1, <5>3 DEF Ownership
        <5> QED
          BY <5>2, <5>3
      <4> QED
        BY <4>4, <4>5
    <3> QED
      BY <3>1, <3>2
  <2> QED
    BY <2>1 DEF Ownership
<1>4. QueueMatchesSleepers'
  <2>1. ASSUME NEW k \in Nodes
        PROVE  /\ Distinct(queue'[k])
               /\ \A u \in Threads : Elems(queue'[k], u) <=> node'[u] = k /\ tran'[u] = "queued"
    <3>0. /\ queue[k] \in Seq(Threads) /\ Distinct(queue[k])
          /\ \A u \in Threads : Elems(queue[k], u) <=> node[u] = k /\ tran[u] = "queued"
      BY QueueFacts
    <3>a. \A u \in Threads : node'[u] = k /\ tran'[u] = "queued" <=>
            /\ node[u] = k /\ tran[u] = "queued"
            /\ ~\E m \in S : u = Head(queue[m])
      BY <1>a, <1>d, <1>e
    <3>1. CASE k \in S
      <4>1. queue[k] # <<>> /\ queue'[k] = Tail(queue[k])
        BY <1>b, <1>f, <3>1 DEF TransQueued
      <4>2. Distinct(queue'[k])
        BY <3>0, <4>1, DequeueElems
      <4>3. ASSUME NEW u \in Threads
            PROVE  Elems(queue'[k], u) <=> Elems(queue[k], u) /\ u # Head(queue[k])
        BY <3>0, <4>1, DequeueElems
      <4>4. \A u \in Threads : node[u] = k =>
              ((\E m \in S : u = Head(queue[m])) <=> u = Head(queue[k]))
        BY <1>c, <3>1
      <4> QED
        BY <3>0, <3>a, <4>2, <4>3, <4>4
    <3>2. CASE k \notin S
      <4>1. \A u \in Threads : node[u] = k => ~\E m \in S : u = Head(queue[m])
        BY <1>c, <3>2
      <4> QED
        BY <1>f, <3>0, <3>a, <3>2, <4>1
    <3> QED
      BY <3>1, <3>2
  <2>2. \A u \in Threads : tran'[u] # "none" <=> pc'[u] = "wait"
    BY <1>c, <1>d, <1>e DEF QueueMatchesSleepers
  <2> QED
    BY <2>1, <2>2 DEF QueueMatchesSleepers, Elems, Distinct
<1>5. OpsCounted'
  <2>1. \A k \in Nodes : {u \in Threads : pc'[u] = "op" /\ node'[u] = k}
                       = {u \in Threads : pc[u] = "op" /\ node[u] = k}
    BY <1>0, <1>d, <1>e
  <2> QED
    BY <1>0, <2>1 DEF OpsCounted
<1>6. Quiescence'
  BY <1>0, <1>d, <1>e DEF Quiescence
<1>7. \A m \in S : m \in attached
  BY <1>b DEF NoDangling, TransActiveOrQueued
<1>8. \A m \in S : m \notin dying
  BY DyingNotTriggered DEF TransStop, n, S
<1>10. NoDangling'
  <2>1. \A k \in Nodes \ attached' : ~TransActiveOrQueued(k)' /\ ops'[k] = 0
    BY <1>0, <1>7, <1>f DEF NoDangling, TransActiveOrQueued, TransActive, TransQueued
  <2>2. \A u \in Threads : node'[u] # NoNode =>
          node'[u] \in attached' \/ tran'[u] = "abort"
    <3> SUFFICES ASSUME NEW u \in Threads, node'[u] # NoNode
                 PROVE  node'[u] \in attached \/ tran'[u] = "abort"
      BY <1>0
    <3>1. node'[u] = node[u]
      BY <1>d, <1>e DEF n
    <3>2. node[u] \in attached \/ tran[u] = "abort"
      BY <3>1 DEF NoDangling
    <3>3. \A m \in S : Head(queue[m]) = u => node[u] \in attached
      BY <1>7, <1>c
    <3> QED
      BY <1>a, <1>e, <3>1, <3>2, <3>3
  <2> QED
    BY <1>0, <2>1, <2>2 DEF NoDangling
<1>11. WalkOnPath'
  BY <1>0, <1>a, <1>d, <1>e, TreeAssumption DEF WalkOnPath
<1>12. SleepersWakeInTime'
  BY <1>0, <1>d, <1>e DEF SleepersWakeInTime, Sleeping, DestroyPCs
<1>13. \A m \in Nodes : /\ ~TransQueued(m) => ~TransQueued(m)'
                        /\ m \in dying /\ ~TransActive(m) => ~TransActive(m)'
  BY <1>8, <1>b, <1>f DEF TransQueued, TransActive
<1>14. pc[t] = "closing" =>
         /\ n \in dying \cap attached /\ Children(n) \cap attached = {}
         /\ ~TransQueued(n) /\ ops[n] = 0 /\ n \notin S
  BY <1>b DEF ClosedAlone, Quiescence, n
<1>15. \A u \in Threads : u # t /\ pc[t] = "closing" => cur[u] # n
  <2> SUFFICES ASSUME NEW u \in Threads, u # t, cur[u] = n PROVE FALSE
    OBVIOUS
  <2>1. pc[u] \notin DestroyPCs
    BY <1>a DEF DestroyCovered, Covered
  <2> QED
    BY <1>a, <2>1, SleeperHolds, TreeTypes
<1>16. DestroyCovered'
  <2>1. ASSUME pc'[t] \in DestroyPCs PROVE Covered(t)'
    <3>1. pc[t] = "closing" /\ pc'[t] = "discard" /\ node'[t] = n /\ cur'[t] = n
      BY <1>d, <2>1 DEF DestroyPCs
    <3>2. active'[n] = NoThread /\ queue'[n] = <<>>
      BY <1>14, <1>a, <1>f, <3>1 DEF TransQueued
    <3>3. \A u \in Threads : cur'[u] = n => u = t
      BY <1>15, <1>e, <3>1
    <3>4. n \in dying' /\ n \in attached' /\ Children(n) \cap attached' = {} /\ ops'[n] = 0
      BY <1>0, <1>14, <3>1
    <3> QED
      BY <3>1, <3>2, <3>3, <3>4 DEF Covered, TransActive, TransQueued
  <2>2. ASSUME NEW u \in Threads, u # t, pc'[u] \in DestroyPCs PROVE Covered(u)'
    <3>1. pc'[u] = pc[u] /\ cur'[u] = cur[u] /\ node'[u] = node[u] /\ Covered(u)
      BY <1>e, <2>2 DEF DestroyCovered
    <3>2. cur[u] \in dying /\ cur[u] \in Nodes /\ ops[cur[u]] = 0 /\ ~TransActive(cur[u])
      BY <3>1 DEF Covered, TypeOK
    <3>3. /\ active'[cur[u]] = NoThread
          /\ queue[cur[u]] = <<>> => queue'[cur[u]] = <<>>
      BY <1>13, <3>2 DEF TransActive, TransQueued
    <3>4. cur'[t] # cur[u]
      BY <1>15, <1>d, <2>2, <3>2, TreeAssumption
    <3>5. \A w \in Threads : cur'[w] = cur[u] => cur[w] = cur[u]
      BY <1>e, <3>4
    <3>6. cur[u] \in dying' /\ ops'[cur[u]] = 0 /\ attached' = attached
      BY <1>0, <3>2
    <3> QED
      BY <3>1, <3>3, <3>5, <3>6, CoveredKept
  <2> QED
    BY <2>1, <2>2 DEF DestroyCovered, DestroyPCs
<1>17. ClosedAlone' /\ DyingEnds'
  <2>1. \A u \in Threads : pc'[u] = "closing" => u # t /\ pc[u] = "closing"
    BY <1>d, <1>e
  <2>2. ClosedAlone'
    BY <1>0, <1>13, <1>e, <2>1 DEF ClosedAlone, TypeOK
  <2>3. DyingEnds'
    BY <1>0, <1>d, <1>e DEF DyingEnds, DestroyPCs, n
  <2> QED
    BY <2>2, <2>3
<1> QED
  BY <1>1, <1>2, <1>3, <1>4, <1>5, <1>6, <1>10, <1>11, <1>12, <1>16, <1>17

-----------------------------------------------------------------------------
(* IInv is preserved: operations                                           *)

\* The threads running an operation on n.
Running(n) == {t \in Threads : pc[t] = "op" /\ node[t] = n}

\* Operations start only where no transition of the path has drained.
LEMMA OpStartIInv ==
  ASSUME IInv, NEW t \in Threads, NEW n \in Nodes, OpStart(t, n)
  PROVE  IInv'
<1> USE DEF IInv
<1>0. /\ pc[t] = "idle" /\ n \in attached /\ n \notin dying
      /\ ops' = [ops EXCEPT ![n] = ops[n] + 1]
      /\ pc' = [pc EXCEPT ![t] = "op"]
      /\ node' = [node EXCEPT ![t] = n]
      /\ UNCHANGED <<attached, dying, active, queue, event, recovering, unloading,
                     tran, todo, cur, drained>>
  BY DEF OpStart, EnterCall, Goto, Callable, treeVars, transVars, envVars
<1>a. \A m \in Nodes : Related(m, n) => ~TransActive(m)
  BY RelatedCases, ActivePathRefused DEF OpStart
<1>b. node[t] = NoNode /\ tran[t] = "none" /\ todo[t] = {} /\ drained[t] = {} /\ cur[t] = NoNode
  BY <1>0
  DEF WalkOnPath, QueueMatchesSleepers, SleepersWakeInTime, Sleeping, Draining,
      TransPCs, DestroyPCs
<1>c. \A u \in Threads : u # t => pc'[u] = pc[u] /\ node'[u] = node[u]
  BY <1>0 DEF TypeOK
<1>d. pc'[t] = "op" /\ node'[t] = n
  BY <1>0 DEF TypeOK
<1>e. ASSUME NEW u \in Threads, pc[u] \in TransPCs, NEW m \in Nodes, Related(m, node[u])
      PROVE  m # n
  <2>1. node[u] \in Nodes
    BY <1>e DEF WalkOnPath, TypeOK, TransPCs
  <2>2. TransActive(node[u])
    BY <1>e, <2>1, ThreadAssumption DEF Ownership, Granted, TransActive
  <2> QED
    BY <1>a, <1>e, <2>1, <2>2, RelatedCases
<1>1. TypeOK'
  BY <1>0 DEF TypeOK, PCs
<1>2. PathExclusion'
  BY <1>0 DEF PathExclusion, TransActive
<1>3. Ownership'
  <2>1. \A u \in Threads : u # t => (Granted(u)' <=> Granted(u))
    BY <1>0, <1>c DEF Granted
  <2>2. ~Granted(t)' /\ \A m \in Nodes : active[m] # t
    BY <1>0, <1>b, <1>d, TreeAssumption DEF Granted, TransPCs, Ownership
  <2> QED
    BY <1>0, <1>c, <2>1, <2>2 DEF Ownership
<1>4. QueueMatchesSleepers'
  <2>1. ASSUME NEW k \in Nodes, NEW u \in Threads
        PROVE  Elems(queue[k], u) <=> node'[u] = k /\ tran'[u] = "queued"
    BY <1>0, <1>b, <1>c, QueueFacts
  <2>2. \A k \in Nodes : Distinct(queue[k])
    BY QueueFacts
  <2>3. \A u \in Threads : tran'[u] # "none" <=> pc'[u] = "wait"
    BY <1>0, <1>b, <1>c, <1>d DEF QueueMatchesSleepers
  <2> QED
    BY <1>0, <2>1, <2>2, <2>3 DEF QueueMatchesSleepers, Elems, Distinct
<1>5. OpsCounted'
  <2>1. ASSUME NEW k \in Nodes PROVE ops'[k] = Cardinality(Running(k)')
    <3>0. IsFiniteSet(Running(k)) /\ ops[k] = Cardinality(Running(k))
      BY ThreadAssumption, FS_Subset DEF OpsCounted, Running
    <3>1. CASE k = n
      <4>1. Running(k)' = Running(k) \cup {t} /\ t \notin Running(k)
        BY <1>0, <1>c, <1>d, <3>1 DEF Running
      <4>2. Cardinality(Running(k) \cup {t}) = Cardinality(Running(k)) + 1
        BY <3>0, <4>1, FS_AddElement
      <4> QED
        BY <1>0, <3>0, <3>1, <4>1, <4>2 DEF TypeOK
    <3>2. CASE k # n
      <4>1. Running(k)' = Running(k)
        BY <1>0, <1>c, <1>d, <3>2 DEF Running
      <4> QED
        BY <1>0, <3>0, <3>2, <4>1 DEF TypeOK
    <3> QED
      BY <3>1, <3>2
  <2> QED
    BY <2>1 DEF OpsCounted, Running
<1>6. Quiescence'
  <2> SUFFICES ASSUME NEW u \in Threads, NEW m \in drained[u] PROVE ops'[m] = 0
    BY <1>0 DEF Quiescence
  <2>1. m \in Nodes /\ pc[u] \in TransPCs /\ Related(m, node[u])
    BY DEF WalkOnPath, TypeOK
  <2> QED
    BY <1>0, <1>e, <2>1 DEF Quiescence, TypeOK
<1>8. NoDangling'
  BY <1>0, <1>c, <1>d DEF NoDangling, TransActiveOrQueued, TransActive, TransQueued, TypeOK
<1>9. WalkOnPath'
  BY <1>0, <1>b, <1>c, <1>d, TreeAssumption DEF WalkOnPath
<1>10. SleepersWakeInTime'
  <2>1. ASSUME NEW u \in Threads, pc'[u] \in Sleeping
        PROVE  cur'[u] \in todo'[u] /\ (event'[cur'[u]] > 0 => ops'[cur'[u]] = 0)
    <3>1. u # t /\ pc[u] \in Sleeping
      BY <1>c, <1>d, <2>1 DEF Sleeping
    <3>2. cur[u] \in todo[u] /\ (event[cur[u]] > 0 => ops[cur[u]] = 0)
      BY <3>1 DEF SleepersWakeInTime
    <3>3. cur[u] \in Nodes /\ pc[u] \in TransPCs /\ Related(cur[u], node[u])
      BY <3>1, <3>2 DEF WalkOnPath, TypeOK, Sleeping, TransPCs
    <3> QED
      BY <1>0, <1>e, <3>2, <3>3 DEF TypeOK
  <2>2. ASSUME NEW u \in Threads, cur'[u] # NoNode
        PROVE  pc'[u] \in Sleeping \cup DestroyPCs
    BY <1>0, <1>b, <1>c, <2>2 DEF SleepersWakeInTime
  <2> QED
    BY <2>1, <2>2 DEF SleepersWakeInTime
<1>11. DestroyCovered'
  <2>1. \A u \in Threads : pc'[u] \in DestroyPCs => u # t /\ cur[u] # n
    BY <1>0, <1>c, <1>d DEF DestroyCovered, Covered, DestroyPCs
  <2> QED
    BY <1>0, <1>c, <2>1 DEF DestroyCovered, Covered, TransActive, TransQueued, TypeOK
<1>12. ClosedAlone' /\ DyingEnds'
  BY <1>0, <1>c, <1>d DEF ClosedAlone, DyingEnds, DestroyPCs, TransQueued
<1> QED
  BY <1>1, <1>2, <1>3, <1>4, <1>5, <1>6, <1>8, <1>9, <1>10, <1>11, <1>12

\* The count is positive when an operation stops; the event is signalled only
\* when it becomes zero.
LEMMA OpStopIInv ==
  ASSUME IInv, NEW t \in Threads, OpStop(t)
  PROVE  IInv'
<1> USE DEF IInv
<1> DEFINE n == node[t]
<1>0. /\ pc[t] = "op"
      /\ ops' = [ops EXCEPT ![n] = ops[n] - 1]
      /\ \/ ops[n] = 1 /\ event' = [event EXCEPT ![n] =
                             IF event[n] < MaxDone THEN event[n] + 1 ELSE event[n]]
         \/ ops[n] # 1 /\ event' = event
      /\ pc' = [pc EXCEPT ![t] = "idle"]
      /\ node' = [node EXCEPT ![t] = NoNode]
      /\ UNCHANGED <<attached, dying, active, queue, recovering, unloading,
                     tran, todo, cur, drained>>
  BY DEF OpStop, Complete, LeaveCall, Goto, treeVars, transVars, envVars
<1>a. n \in Nodes /\ tran[t] = "none" /\ todo[t] = {} /\ drained[t] = {} /\ cur[t] = NoNode
  <2>1. n \in Nodes /\ todo[t] = {} /\ drained[t] = {}
    BY <1>0 DEF WalkOnPath, Sleeping, Draining, TransPCs, TypeOK
  <2>2. tran[t] = "none" /\ cur[t] = NoNode
    BY <1>0 DEF QueueMatchesSleepers, SleepersWakeInTime, Sleeping, DestroyPCs
  <2> QED
    BY <2>1, <2>2
<1> HIDE DEF n
<1>b. IsFiniteSet(Running(n)) /\ ops[n] = Cardinality(Running(n)) /\ t \in Running(n)
  BY <1>0, <1>a, ThreadAssumption, FS_Subset DEF OpsCounted, Running, n
<1>c. \A u \in Threads : u # t => pc'[u] = pc[u] /\ node'[u] = node[u]
  BY <1>0 DEF TypeOK
<1>d. pc'[t] = "idle" /\ node'[t] = NoNode
  BY <1>0 DEF TypeOK
<1>e. ops[n] \in Nat /\ ops[n] > 0
  <2>1. Running(n) # {} /\ Cardinality(Running(n)) \in Nat
    BY <1>b, FS_CardinalityType
  <2> QED
    BY <1>b, <2>1, FS_EmptySet
<1>1. TypeOK'
  <2>1. ops' \in [Nodes -> Nat]
    <3>1. ops[n] - 1 \in Nat
      BY <1>e
    <3> QED
      BY <1>0, <3>1 DEF TypeOK
  <2>2. event' \in [Nodes -> 0 .. MaxDone]
    BY <1>0, <1>a, BoundAssumption DEF TypeOK
  <2> QED
    BY <1>0, <2>1, <2>2 DEF TypeOK, PCs
<1>2. PathExclusion'
  BY <1>0 DEF PathExclusion, TransActive
<1>3. Ownership'
  <2>1. \A u \in Threads : u # t => (Granted(u)' <=> Granted(u))
    BY <1>0, <1>c DEF Granted
  <2>2. ~Granted(t)' /\ ~Granted(t)
    BY <1>0, <1>a, <1>d DEF Granted, TransPCs
  <2> QED
    BY <1>0, <1>c, <2>1, <2>2 DEF Ownership
<1>4. QueueMatchesSleepers'
  <2>1. ASSUME NEW k \in Nodes, NEW u \in Threads
        PROVE  Elems(queue[k], u) <=> node'[u] = k /\ tran'[u] = "queued"
    BY <1>0, <1>a, <1>c, QueueFacts
  <2>2. \A k \in Nodes : Distinct(queue[k])
    BY QueueFacts
  <2>3. \A u \in Threads : tran'[u] # "none" <=> pc'[u] = "wait"
    BY <1>0, <1>a, <1>c, <1>d DEF QueueMatchesSleepers
  <2> QED
    BY <1>0, <2>1, <2>2, <2>3 DEF QueueMatchesSleepers, Elems, Distinct
<1>5. OpsCounted'
  <2>1. ASSUME NEW k \in Nodes PROVE ops'[k] = Cardinality(Running(k)')
    <3>1. CASE k = n
      <4>1. Running(k)' = Running(k) \ {t}
        BY <1>0, <1>c, <1>d, <3>1, <1>a, TreeAssumption DEF Running
      <4>2. Cardinality(Running(k) \ {t}) = Cardinality(Running(k)) - 1
        BY <1>b, <3>1, FS_RemoveElement
      <4> QED
        BY <1>0, <1>b, <3>1, <4>1, <4>2 DEF TypeOK
    <3>2. CASE k # n
      <4>1. Running(k)' = Running(k)
        BY <1>0, <1>c, <1>d, <3>2 DEF Running, n
      <4> QED
        BY <1>0, <3>2, <4>1 DEF TypeOK, OpsCounted, Running
    <3> QED
      BY <3>1, <3>2
  <2> QED
    BY <2>1 DEF OpsCounted, Running
<1>6. Quiescence'
  <2>1. \A m \in Nodes : ops[m] = 0 => ops'[m] = 0
    BY <1>0, <1>e DEF TypeOK
  <2> QED
    BY <1>0, <2>1 DEF Quiescence, TypeOK
<1>8. NoDangling'
  BY <1>0, <1>c, <1>d, <1>e DEF NoDangling, TransActiveOrQueued, TransActive, TransQueued, TypeOK
<1>9. WalkOnPath'
  BY <1>0, <1>a, <1>c, <1>d DEF WalkOnPath
<1>10. SleepersWakeInTime'
  <2>1. \A m \in Nodes : (event[m] > 0 => ops[m] = 0) => (event'[m] > 0 => ops'[m] = 0)
    BY <1>0, <1>e DEF TypeOK
  <2>2. \A u \in Threads : pc'[u] \in Sleeping => pc[u] \in Sleeping /\ cur[u] \in Nodes
    BY <1>c, <1>d DEF Sleeping, SleepersWakeInTime, TypeOK
  <2> QED
    BY <1>0, <1>a, <1>c, <2>1, <2>2 DEF SleepersWakeInTime
<1>11. DestroyCovered'
  <2>1. \A u \in Threads : pc'[u] \in DestroyPCs => u # t /\ cur[u] # n
    BY <1>c, <1>d, <1>e DEF DestroyCovered, Covered, DestroyPCs
  <2> QED
    BY <1>0, <1>c, <2>1 DEF DestroyCovered, Covered, TransActive, TransQueued, TypeOK
<1>12. ClosedAlone' /\ DyingEnds'
  BY <1>0, <1>c, <1>d DEF ClosedAlone, DyingEnds, DestroyPCs, TransQueued
<1> QED
  BY <1>1, <1>2, <1>3, <1>4, <1>5, <1>6, <1>8, <1>9, <1>10, <1>11, <1>12

-----------------------------------------------------------------------------
(* IInv is preserved: draining                                             *)

\* Where a holder is that neither closes nor destroys a context.
WalkPCs == {"trans"} \cup Draining

\* The step only moves t inside its transition, and changes no context's
\* transitions, operations or place in the tree.
InsideTransition(t) ==
  /\ pc[t] \in WalkPCs
  /\ \E p \in WalkPCs : pc' = [pc EXCEPT ![t] = p]
  /\ \A u \in Threads : u # t => cur'[u] = cur[u] /\ drained'[u] = drained[u]
  /\ cur'[t] = NoNode \/ ops[cur'[t]] # 0
  /\ UNCHANGED <<attached, dying, active, queue, ops, recovering, unloading, node, tran>>

\* The part of IInv that no step inside a transition can disturb.
LEMMA InsideTransitionIInv ==
  ASSUME IInv, NEW t \in Threads, InsideTransition(t)
  PROVE  /\ PathExclusion' /\ Ownership' /\ QueueMatchesSleepers' /\ OpsCounted'
         /\ NoDangling' /\ DestroyCovered' /\ ClosedAlone' /\ DyingEnds'
         /\ pc' \in [Threads -> PCs]
         /\ \A u \in Threads : u # t => pc'[u] = pc[u]
         /\ node[t] \in Nodes /\ active[node[t]] = t
<1> USE DEF IInv, WalkPCs, Draining, Sleeping
<1>0. PICK p \in WalkPCs : pc' = [pc EXCEPT ![t] = p]
  BY DEF InsideTransition
<1>a. /\ pc[t] \in WalkPCs
      /\ UNCHANGED <<attached, dying, active, queue, ops, recovering, unloading, node, tran>>
  BY DEF InsideTransition
<1>b. pc'[t] = p /\ \A u \in Threads : u # t => pc'[u] = pc[u]
  BY <1>0 DEF TypeOK
<1>1. PathExclusion'
  BY <1>a DEF PathExclusion, TransActive
<1>2. Ownership'
  <2>1. \A u \in Threads : Granted(u)' <=> Granted(u)
    BY <1>a, <1>b DEF Granted, TransPCs
  <2> QED
    BY <1>a, <2>1 DEF Ownership
<1>3. QueueMatchesSleepers'
  <2>1. \A u \in Threads : pc'[u] = "wait" <=> pc[u] = "wait"
    BY <1>a, <1>b DEF TransPCs
  <2> QED
    BY <1>a, <2>1 DEF QueueMatchesSleepers
<1>4. OpsCounted'
  <2>1. \A u \in Threads : pc'[u] = "op" <=> pc[u] = "op"
    BY <1>a, <1>b DEF TransPCs
  <2>2. \A k \in Nodes : Running(k)' = Running(k)
    BY <1>a, <2>1 DEF Running
  <2> QED
    BY <1>a, <2>2 DEF OpsCounted, Running
<1>5. NoDangling'
  BY <1>a DEF NoDangling, TransActiveOrQueued, TransActive, TransQueued
<1>6. pc' \in [Threads -> PCs]
  BY <1>0 DEF TypeOK, PCs, TransPCs
<1>7. node[t] \in Nodes
  BY <1>a DEF WalkOnPath, TypeOK, TransPCs
<1>8. active[node[t]] = t
  BY <1>a, <1>7 DEF Ownership, Granted, TransPCs
<1>9. DyingEnds'
  <2>1. \A u \in Threads : /\ pc[u] \in DestroyPCs => pc'[u] \in DestroyPCs /\ u # t
                           /\ pc[u] = "closing" => pc'[u] = "closing"
    BY <1>a, <1>b DEF DestroyPCs
  <2>2. \A u \in Threads : u # t => cur'[u] = cur[u]
    BY DEF InsideTransition
  <2> QED
    BY <1>a, <2>1, <2>2 DEF DyingEnds
<1>10. ClosedAlone'
  <2>1. \A u \in Threads : pc'[u] = "closing" => u # t /\ pc[u] = "closing"
    BY <1>0, <1>b
  <2>2. \A u \in Threads : u # t => drained'[u] = drained[u]
    BY DEF InsideTransition
  <2> QED
    BY <1>a, <2>1, <2>2 DEF ClosedAlone, TransQueued
<1>11. DestroyCovered'
  <2>1. /\ \A u \in Threads : u # t => cur'[u] = cur[u]
        /\ cur'[t] = NoNode \/ ops[cur'[t]] # 0
    BY DEF InsideTransition
  <2>2. ASSUME NEW u \in Threads, pc'[u] \in DestroyPCs PROVE Covered(u)'
    <3>1. u # t /\ pc'[u] = pc[u] /\ cur'[u] = cur[u] /\ Covered(u)
      BY <1>0, <1>b, <2>1, <2>2 DEF DestroyPCs, DestroyCovered
    <3>2. cur[u] \in dying /\ ops[cur[u]] = 0 /\ cur[u] # NoNode
      BY <3>1, TreeAssumption DEF Covered, TypeOK
    <3>3. \A w \in Threads : cur'[w] = cur[u] => cur[w] = cur[u]
      BY <2>1, <3>2
    <3> QED
      BY <1>a, <3>1, <3>2, <3>3, CoveredKept
  <2> QED
    BY <2>2 DEF DestroyCovered
<1> QED
  BY <1>1, <1>2, <1>3, <1>4, <1>5, <1>6, <1>7, <1>8, <1>9, <1>10, <1>11, <1>b

\* wait_for_ops and wait_for_uptree_ops walk contexts of the holder's path.
LEMMA DrainBeginIInv ==
  ASSUME IInv, NEW t \in Threads, DrainBegin(t) \/ UptreeDrainBegin(t)
  PROVE  IInv'
<1> USE DEF IInv
<1>0. PICK W \in SUBSET Nodes, p \in {"drain", "updrain"} :
        /\ pc[t] = "trans" /\ pc' = [pc EXCEPT ![t] = p]
        /\ todo' = [todo EXCEPT ![t] = W]
        /\ \A m \in W : Related(m, node[t])
        /\ UNCHANGED <<attached, dying, active, queue, ops, event, recovering,
                       unloading, node, tran, cur, drained>>
  <2>0. pc[t] = "trans" => node[t] \in Nodes
    BY DEF WalkOnPath, TypeOK
  <2>1. CASE DrainBegin(t)
    <3>1. Subtree(node[t]) \cap attached \in SUBSET Nodes
      BY DEF TypeOK
    <3> QED
      BY <2>1, <3>1
      DEF DrainBegin, Goto, treeVars, transVars, opVars, envVars, Related
  <2>2. CASE UptreeDrainBegin(t)
    <3>1. Uptree(node[t]) \in SUBSET Nodes
      BY <2>2, TreeTypes DEF UptreeDrainBegin
    <3>2. \A m \in Uptree(node[t]) : Related(m, node[t])
      BY <2>2, TreeAssumption DEF UptreeDrainBegin, Uptree, Related, Subtree, Nodes
    <3> QED
      BY <2>2, <3>1, <3>2
      DEF UptreeDrainBegin, Goto, treeVars, transVars, opVars, envVars
  <2> QED
    BY <2>1, <2>2
<1>d. cur[t] = NoNode
  BY <1>0 DEF SleepersWakeInTime, Sleeping, DestroyPCs
<1>a. InsideTransition(t)
  BY <1>0, <1>d DEF InsideTransition, WalkPCs, Draining
<1>b. /\ PathExclusion' /\ Ownership' /\ QueueMatchesSleepers' /\ OpsCounted'
      /\ NoDangling' /\ DestroyCovered' /\ ClosedAlone' /\ DyingEnds'
      /\ pc' \in [Threads -> PCs]
      /\ \A u \in Threads : u # t => pc'[u] = pc[u]
  BY <1>a, InsideTransitionIInv
<1>c. pc'[t] = p /\ todo'[t] = W /\ \A u \in Threads : u # t => todo'[u] = todo[u]
  BY <1>0 DEF TypeOK
<1>1. TypeOK'
  BY <1>0, <1>b DEF TypeOK
<1>2. Quiescence'
  BY <1>0 DEF Quiescence
<1>4. WalkOnPath'
  BY <1>0, <1>b, <1>c DEF WalkOnPath, Draining, TransPCs
<1>5. SleepersWakeInTime'
  BY <1>0, <1>b, <1>c, <1>d DEF SleepersWakeInTime, Sleeping
<1> QED
  BY <1>1, <1>2, <1>4, <1>5, <1>b

\* A visit ends with no operation in flight, or sleeps on a fresh event.
LEMMA DrainCheckIInv ==
  ASSUME IInv, NEW t \in Threads, NEW m \in Nodes, DrainCheck(t, m)
  PROVE  IInv'
<1> USE DEF IInv
<1>0. /\ pc[t] \in {"drain", "updrain"} /\ m \in todo[t]
      /\ UNCHANGED <<attached, dying, active, queue, ops, recovering, unloading,
                     node, tran>>
  BY DEF DrainCheck, MayVisit, treeVars, transVars, envVars
<1>c. cur[t] = NoNode
  BY <1>0 DEF SleepersWakeInTime, Sleeping, DestroyPCs
<1>a. InsideTransition(t)
  <2>1. \E p \in WalkPCs : pc' = [pc EXCEPT ![t] = p]
    BY <1>0 DEF DrainCheck, Visited, Goto, Asleep, WalkPCs, Draining, Sleeping
  <2>2. \A u \in Threads : u # t => cur'[u] = cur[u] /\ drained'[u] = drained[u]
    BY DEF DrainCheck, Visited, TypeOK
  <2>3. cur'[t] = NoNode \/ ops[cur'[t]] # 0
    BY <1>c DEF DrainCheck, TypeOK
  <2> QED
    BY <1>0, <2>1, <2>2, <2>3 DEF InsideTransition, WalkPCs, Draining
<1>b. /\ PathExclusion' /\ Ownership' /\ QueueMatchesSleepers' /\ OpsCounted'
      /\ NoDangling' /\ DestroyCovered' /\ ClosedAlone' /\ DyingEnds'
      /\ pc' \in [Threads -> PCs]
      /\ \A u \in Threads : u # t => pc'[u] = pc[u]
  BY <1>a, InsideTransitionIInv
<1>d. Related(m, node[t])
  BY <1>0 DEF WalkOnPath
<1>1. CASE ops[m] = 0
  <2>0. /\ todo' = [todo EXCEPT ![t] = todo[t] \ {m}]
        /\ drained' = [drained EXCEPT ![t] = drained[t] \cup {m}]
        /\ pc' = [pc EXCEPT ![t] = IF todo[t] = {m} THEN "trans" ELSE pc[t]]
        /\ UNCHANGED <<event, cur>>
    BY <1>1 DEF DrainCheck, Visited, Goto
  <2>a. /\ todo'[t] = todo[t] \ {m} /\ drained'[t] = drained[t] \cup {m}
        /\ pc'[t] = IF todo[t] = {m} THEN "trans" ELSE pc[t]
        /\ \A u \in Threads : u # t => todo'[u] = todo[u] /\ drained'[u] = drained[u]
    BY <2>0 DEF TypeOK
  <2>1. TypeOK'
    BY <1>0, <1>b, <2>0 DEF TypeOK
  <2>2. Quiescence'
    BY <1>0, <1>1, <2>a DEF Quiescence
  <2>4. WalkOnPath'
    <3>1. \A u \in Threads : \A k \in todo'[u] \cup drained'[u] : Related(k, node'[u])
      BY <1>0, <1>d, <2>a DEF WalkOnPath
    <3>2. ASSUME NEW u \in Threads
          PROVE  /\ pc'[u] = "idle" <=> node'[u] = NoNode
                 /\ todo'[u] # {} => pc'[u] \in Draining
                 /\ drained'[u] # {} => pc'[u] \in TransPCs
      BY <1>0, <1>b, <2>a DEF WalkOnPath, Draining, TransPCs
    <3> QED
      BY <3>1, <3>2 DEF WalkOnPath
  <2>5. SleepersWakeInTime'
    BY <1>0, <1>b, <1>c, <2>0, <2>a DEF SleepersWakeInTime, Sleeping
  <2> QED
    BY <2>1, <2>2, <2>4, <2>5, <1>b
<1>2. CASE ops[m] # 0
  <2>0. /\ event' = [event EXCEPT ![m] = 0]
        /\ cur' = [cur EXCEPT ![t] = m]
        /\ pc' = [pc EXCEPT ![t] = Asleep(pc[t])]
        /\ UNCHANGED <<todo, drained>>
    BY <1>2 DEF DrainCheck, Goto
  <2>a. /\ pc'[t] \in Sleeping /\ cur'[t] = m /\ event'[m] = 0
        /\ \A u \in Threads : u # t => cur'[u] = cur[u]
        /\ \A k \in Nodes : k # m => event'[k] = event[k]
    BY <1>0, <2>0 DEF TypeOK, Asleep, Sleeping
  <2>1. TypeOK'
    BY <1>0, <1>b, <2>0, BoundAssumption DEF TypeOK
  <2>2. Quiescence'
    BY <1>0, <2>0 DEF Quiescence
  <2>4. WalkOnPath'
    BY <1>0, <1>b, <2>0, <2>a DEF WalkOnPath, Draining, Sleeping, TransPCs
  <2>5. SleepersWakeInTime'
    <3>1. ASSUME NEW u \in Threads, pc'[u] \in Sleeping
          PROVE  cur'[u] \in todo'[u] /\ (event'[cur'[u]] > 0 => ops'[cur'[u]] = 0)
      <4>1. CASE u = t
        BY <1>0, <2>0, <2>a, <4>1
      <4>2. CASE u # t
        <5>1. cur'[u] = cur[u] /\ cur[u] \in todo[u] /\ cur[u] \in Nodes
              /\ (event[cur[u]] > 0 => ops[cur[u]] = 0)
          BY <1>b, <2>a, <3>1, <4>2 DEF SleepersWakeInTime, TypeOK
        <5> QED
          BY <1>0, <2>0, <2>a, <5>1
      <4> QED
        BY <4>1, <4>2
    <3>2. ASSUME NEW u \in Threads, cur'[u] # NoNode
          PROVE  pc'[u] \in Sleeping \cup DestroyPCs
      BY <1>b, <2>a, <3>2 DEF SleepersWakeInTime
    <3> QED
      BY <3>1, <3>2 DEF SleepersWakeInTime
  <2> QED
    BY <2>1, <2>2, <2>4, <2>5, <1>b
<1> QED
  BY <1>1, <1>2

\* A thread that wakes finds no operation in flight on what it waited for.
LEMMA DrainWakeIInv ==
  ASSUME IInv, NEW t \in Threads, NEW walk \in {"drain", "updrain"},
         DrainWake(t, walk)
  PROVE  IInv'
<1> USE DEF IInv
<1> DEFINE m == cur[t]
<1>0. /\ pc[t] \in Sleeping /\ event[m] > 0
      /\ event' = [event EXCEPT ![m] = event[m] - 1]
      /\ todo' = [todo EXCEPT ![t] = todo[t] \ {m}]
      /\ drained' = [drained EXCEPT ![t] = drained[t] \cup {m}]
      /\ pc' = [pc EXCEPT ![t] = IF todo[t] = {m} THEN "trans" ELSE walk]
      /\ cur' = [cur EXCEPT ![t] = NoNode]
      /\ UNCHANGED <<attached, dying, active, queue, ops, recovering, unloading,
                     node, tran>>
  BY DEF DrainWake, Visited, Goto, Asleep, Sleeping, treeVars, transVars, envVars
<1>a. m \in todo[t] /\ m \in Nodes /\ ops[m] = 0 /\ Related(m, node[t])
  BY <1>0 DEF SleepersWakeInTime, TypeOK, WalkOnPath
<1> HIDE DEF m
<1>b. InsideTransition(t)
  <2>1. /\ \A u \in Threads : u # t => cur'[u] = cur[u] /\ drained'[u] = drained[u]
        /\ cur'[t] = NoNode
    BY <1>0 DEF TypeOK
  <2>2. \E p \in WalkPCs : pc' = [pc EXCEPT ![t] = p]
    BY <1>0 DEF WalkPCs, Draining
  <2> QED
    BY <1>0, <2>1, <2>2 DEF InsideTransition, WalkPCs, Draining
<1>c. /\ PathExclusion' /\ Ownership' /\ QueueMatchesSleepers' /\ OpsCounted'
      /\ NoDangling' /\ DestroyCovered' /\ ClosedAlone' /\ DyingEnds'
      /\ pc' \in [Threads -> PCs]
      /\ \A u \in Threads : u # t => pc'[u] = pc[u]
  BY <1>b, InsideTransitionIInv
<1>d. /\ todo'[t] = todo[t] \ {m} /\ drained'[t] = drained[t] \cup {m}
      /\ pc'[t] = (IF todo[t] = {m} THEN "trans" ELSE walk) /\ cur'[t] = NoNode
      /\ \A u \in Threads : u # t =>
           todo'[u] = todo[u] /\ drained'[u] = drained[u] /\ cur'[u] = cur[u]
      /\ \A k \in Nodes : event'[k] > 0 => event[k] > 0
  BY <1>0, <1>a DEF TypeOK
<1>1. TypeOK'
  <2>1. event' \in [Nodes -> 0 .. MaxDone]
    BY <1>0, <1>a, BoundAssumption DEF TypeOK
  <2> QED
    BY <1>0, <1>a, <1>c, <2>1 DEF TypeOK
<1>2. Quiescence'
  BY <1>0, <1>a, <1>d DEF Quiescence
<1>4. WalkOnPath'
  <2>1. \A u \in Threads : \A k \in todo'[u] \cup drained'[u] : Related(k, node'[u])
    BY <1>0, <1>a, <1>d DEF WalkOnPath
  <2>2. ASSUME NEW u \in Threads
        PROVE  /\ pc'[u] = "idle" <=> node'[u] = NoNode
               /\ todo'[u] # {} => pc'[u] \in Draining
               /\ drained'[u] # {} => pc'[u] \in TransPCs
    <3>1. CASE u = t
      <4>1. node[t] # NoNode /\ node' = node
        BY <1>0 DEF WalkOnPath, Sleeping
      <4> QED
        BY <1>d, <1>a, <3>1, <4>1 DEF Draining, TransPCs
    <3>2. CASE u # t
      BY <1>0, <1>c, <1>d, <3>2 DEF WalkOnPath
    <3> QED
      BY <3>1, <3>2
  <2> QED
    BY <2>1, <2>2 DEF WalkOnPath
<1>5. SleepersWakeInTime'
  <2>1. ASSUME NEW u \in Threads, pc'[u] \in Sleeping
        PROVE  cur'[u] \in todo'[u] /\ (event'[cur'[u]] > 0 => ops'[cur'[u]] = 0)
    <3>1. u # t
      BY <1>d, <2>1 DEF Sleeping
    <3>2. cur[u] \in todo[u] /\ cur[u] \in Nodes /\ (event[cur[u]] > 0 => ops[cur[u]] = 0)
      BY <1>c, <2>1, <3>1 DEF SleepersWakeInTime, TypeOK
    <3> QED
      BY <1>0, <1>d, <3>1, <3>2
  <2>2. ASSUME NEW u \in Threads, cur'[u] # NoNode
        PROVE  pc'[u] \in Sleeping \cup DestroyPCs
    BY <1>c, <1>d, <2>2 DEF SleepersWakeInTime
  <2> QED
    BY <2>1, <2>2 DEF SleepersWakeInTime
<1> QED
  BY <1>1, <1>2, <1>4, <1>5, <1>c

-----------------------------------------------------------------------------
(* The theorems                                                            *)

\* recovering and unloading are inputs: no part of IInv depends on them.
LEMMA FlagsIInv ==
  ASSUME IInv, NEW b \in FlagValues, SetRecovering(b) \/ SetUnloading(b)
  PROVE  IInv'
<1> USE DEF IInv
<1>0. /\ recovering' \in {b, recovering} /\ unloading' \in {b, unloading}
      /\ UNCHANGED <<attached, dying, active, queue, ops, event, pc, node, tran,
                     todo, cur, drained>>
  BY DEF SetRecovering, SetUnloading, treeVars, transVars, opVars, threadVars
<1>1. TypeOK'
  <2>1. recovering' \in BOOLEAN /\ unloading' \in BOOLEAN
    BY <1>0, BoundAssumption DEF TypeOK
  <2> QED
    BY <1>0, <2>1 DEF TypeOK
<1>2. PathExclusion' /\ Ownership' /\ QueueMatchesSleepers'
  BY <1>0 DEF PathExclusion, TransActive, Ownership, Granted, QueueMatchesSleepers
<1>3. OpsCounted' /\ Quiescence' /\ NoDangling'
  BY <1>0 DEF OpsCounted, Quiescence, TransActive, NoDangling,
              TransActiveOrQueued, TransQueued
<1>4. WalkOnPath' /\ SleepersWakeInTime'
  BY <1>0 DEF WalkOnPath, SleepersWakeInTime
<1>5. DestroyCovered' /\ ClosedAlone' /\ DyingEnds'
  BY <1>0 DEF DestroyCovered, Covered, ClosedAlone, DyingEnds, TransActive, TransQueued
<1> QED
  BY <1>1, <1>2, <1>3, <1>4, <1>5

\* Every step of every thread preserves IInv.
LEMMA NextIInv ==
  ASSUME CloseAlone = Nodes
  PROVE  IInv /\ [Next]_vars => IInv'
<1> SUFFICES ASSUME IInv, [Next]_vars PROVE IInv'
  OBVIOUS
<1>1. CASE Env
  BY <1>1, CreateIInv, DriverDestroyIInv, FlagsIInv DEF Env
<1>2. ASSUME NEW t \in Threads, Call(t) PROVE IInv'
  <2>1. \A n \in OpNodes : n \in Nodes
    BY TreeAssumption
  <2> QED
    BY <1>2, <2>1, TransStartIInv, TransStartWaitIInv, OpStartIInv, DestroyBeginIInv,
       UnregisterIInv, DrainBeginIInv DEF Call
<1>3. ASSUME NEW t \in Threads, Progress(t) PROVE IInv'
  BY <1>3, TranWakeIInv, OpStopIInv, DrainCheckIInv, DrainWakeIInv,
     DestroyAbortIInv, DestroyEndIInv DEF Progress
<1>4. ASSUME NEW t \in Threads, TransStop(t) PROVE IInv'
  BY <1>4, TransStopIInv
<1>5. CASE UNCHANGED vars
  BY <1>5
  DEF vars, IInv, TypeOK, PathExclusion, TransActive, Ownership, Granted,
      QueueMatchesSleepers, OpsCounted, Quiescence, NoDangling,
      TransActiveOrQueued, TransQueued, WalkOnPath, SleepersWakeInTime,
      DestroyCovered, Covered, ClosedAlone, DyingEnds
<1> QED
  BY <1>1, <1>2, <1>3, <1>4, <1>5 DEF Next

\* The inductive invariant holds of every behaviour, for every tree of
\* contexts and every finite set of threads.
THEOREM Invariance ==
  ASSUME CloseAlone = Nodes
  PROVE  Spec => []IInv
BY InitIInv, NextIInv, PTL DEF Spec

\* The variables keep their types; in particular ops.count never goes below 0.
THEOREM TypeCorrectness ==
  ASSUME CloseAlone = Nodes
  PROVE  Spec => []TypeOK
<1>1. IInv => TypeOK
  BY DEF IInv
<1> QED
  BY <1>1, Invariance, PTL

\* No two transitions are active on one root-to-leaf path.
THEOREM Exclusion ==
  ASSUME CloseAlone = Nodes
  PROVE  Spec => []PathExclusion
<1>1. IInv => PathExclusion
  BY DEF IInv
<1> QED
  BY <1>1, Invariance, PTL

\* A transition belongs to the thread that was given it, until that thread
\* stops it.
THEOREM OwnershipHolds ==
  ASSUME CloseAlone = Nodes
  PROVE  Spec => []Ownership
<1>1. IInv => Ownership
  BY DEF IInv
<1> QED
  BY <1>1, Invariance, PTL

\* What a transition has drained stays quiet until it stops.
THEOREM DrainedStaysQuiet ==
  ASSUME CloseAlone = Nodes
  PROVE  Spec => []Quiescence
<1>1. IInv => Quiescence
  BY DEF IInv
<1> QED
  BY <1>1, Invariance, PTL

\* Nothing is freed under a user: no queue, walk or operation refers to a
\* context that dsc_driver_destroy, dsc_psoc_destroy or dsc_vdev_destroy freed.
THEOREM NothingDangles ==
  ASSUME CloseAlone = Nodes
  PROVE  Spec => []NoDangling
<1>1. IInv => NoDangling
  BY DEF IInv
<1> QED
  BY <1>1, Invariance, PTL

\* The queue of a context is its sleepers, each once: nobody sleeps without a
\* stack entry that dsc_trans_stop or dsc_abort can complete, and no entry is
\* left of a thread that is gone.
THEOREM QueuesMatch ==
  ASSUME CloseAlone = Nodes
  PROVE  Spec => []QueueMatchesSleepers
<1>1. IInv => QueueMatchesSleepers
  BY DEF IInv
<1> QED
  BY <1>1, Invariance, PTL

\* ops.count is the number of operations that run on the context, whatever
\* order starts, stops and transitions come in.
THEOREM OperationsCounted ==
  ASSUME CloseAlone = Nodes
  PROVE  Spec => []OpsCounted
<1>1. IInv => OpsCounted
  BY DEF IInv
<1> QED
  BY <1>1, Invariance, PTL

\* Nobody who is queued on a context when its destruction begins is given the
\* transition instead of being aborted.
LEMMA StepAborts ==
  ASSUME IInv, [Next]_vars, NEW t \in Threads, NEW u \in Threads,
         pc[u] \in DestroyPCs, cur[u] = node[t], tran[t] = "queued"
  PROVE  tran'[t] \in {"queued", "abort"}
<1> USE DEF IInv
<1>0. node[t] \in dying /\ pc[t] = "wait"
  BY DEF DestroyCovered, Covered, QueueMatchesSleepers
<1>1. ASSUME NEW w \in Threads, TransStop(w) PROVE tran'[t] = "queued"
  <2>1. \A m \in Triggers(node[w]) : m \notin dying
    BY <1>1, DyingNotTriggered DEF TransStop
  <2>2. Triggers(node[w]) \subseteq Nodes /\ \A m \in Triggers(node[w]) : TransQueued(m)
    <3>1. node[w] \in Nodes
      BY <1>1, TreeAssumption DEF TransStop, WalkOnPath, TypeOK
    <3>2. TransActive(node[w])
      BY <1>1, <3>1, ThreadAssumption
      DEF TransStop, Ownership, Granted, TransPCs, TransActive
    <3> QED
      BY <3>1, <3>2, TriggersApart
  <2>3. \A m \in Triggers(node[w]) : t # Head(queue[m])
    BY <1>0, <2>1, <2>2, QueueFacts
  <2> QED
    BY <1>1, <2>3 DEF TransStop
<1>2. ASSUME NEW w \in Threads, Progress(w) PROVE tran'[t] \in {"queued", "abort"}
  <2>1. CASE TranWake(w)
    BY <2>1 DEF TranWake, TypeOK
  <2>2. CASE DestroyAbort(w)
    BY <2>2 DEF DestroyAbort, TypeOK
  <2> QED
    BY <1>2, <2>1, <2>2
    DEF Progress, OpStop, DrainCheck, DrainWake, DestroyEnd
<1>3. ASSUME NEW w \in Threads, Call(w) PROVE tran'[t] = "queued"
  <2>1. ASSUME NEW n \in Nodes, TransStart(w, n) PROVE tran' = tran
    BY <2>1 DEF TransStart, StartNow
  <2>2. ASSUME NEW n \in Nodes, TransStartWait(w, n) PROVE tran'[t] = "queued"
    BY <1>0, <2>2 DEF TransStartWait, QueueTran, TypeOK
  <2> QED
    BY <1>3, <2>1, <2>2
    DEF Call, OpStart, DestroyBegin, Unregister, DrainBegin, UptreeDrainBegin
<1>4. CASE Env
  BY <1>4 DEF Env, Create, DriverDestroy, SetRecovering, SetUnloading, threadVars
<1>5. CASE UNCHANGED vars
  BY <1>5 DEF vars
<1> QED
  BY <1>1, <1>2, <1>3, <1>4, <1>5 DEF Next

\* dsc_psoc_destroy and dsc_vdev_destroy abort every transition queued on the
\* context: no trigger takes one from the queue they flush.
THEOREM DestroyAbortsAll ==
  ASSUME CloseAlone = Nodes
  PROVE  Spec => AbortsAllQueued
<1> DEFINE A == \A t, u \in Threads :
                  pc[u] \in DestroyPCs /\ cur[u] = node[t] /\ tran[t] = "queued"
                    => tran'[t] \in {"queued", "abort"}
<1>1. IInv /\ [Next]_vars => [A]_vars
  BY StepAborts
<1> QED
  BY <1>1, Invariance, PTL DEF Spec, AbortsAllQueued

-----------------------------------------------------------------------------
(* No queued transition is forgotten                                       *)

\* An active transition will reach x's queue: it is on x's path, or on the
\* path of a context above x whose queue goes first.
Awaited(x) ==
  \E m, k \in Nodes :
    /\ TransActive(m) /\ Related(m, k)
    /\ x \in Subtree(k) /\ (k = x \/ TransQueued(k))

\* An active transition on x's own path will do.
LEMMA AwaitedOnPath ==
  ASSUME NEW x \in Nodes, NEW m \in Nodes, TransActive(m), Related(m, x)
  PROVE  Awaited(x)
BY TreeTypes DEF Awaited

\* Waiting below a queued context is waiting for what that context awaits.
LEMMA AwaitedBelow ==
  ASSUME NEW x \in Nodes, NEW y \in Nodes, x \in Subtree(y), TransQueued(y), Awaited(y)
  PROVE  Awaited(x)
<1>1. PICK m, k \in Nodes : /\ TransActive(m) /\ Related(m, k)
                            /\ y \in Subtree(k) /\ (k = y \/ TransQueued(k))
  BY DEF Awaited
<1>2. x \in Subtree(k) /\ TransQueued(k)
  BY <1>1, TreeAssumption DEF Subtree, Nodes
<1> QED
  BY <1>1, <1>2 DEF Awaited

\* A caller is put to sleep only behind something that will wake it.
LEMMA MustQueueAwaited ==
  ASSUME TypeOK, NoLostTransition, NEW n \in Nodes, MustQueue(n)
  PROVE  Awaited(n)
<1>0. \A y \in Nodes : TransQueued(y) => Awaited(y)
  BY DEF NoLostTransition, Awaited
<1>a. \A m \in Nodes : TransActive(m) /\ Related(m, n) => Awaited(n)
  BY AwaitedOnPath
<1>1. CASE n = Driver
  <2>1. TransQueued(Driver) \/ \E m \in Nodes : TransActive(m)
    BY <1>1, TreeTypes
    DEF MustQueue, CanTrans, DriverCanTrans, TransActiveOrQueued,
        DriverTransActiveDownTree, Nodes
  <2> QED
    BY <1>0, <1>1, <1>a, <2>1, RelatedCases, TreeTypes
<1>2. CASE n \in Psocs
  <2>1. n # Driver
    BY <1>2, TreeAssumption
  <2>2. TransQueued(n) \/ TransActive(n)
        \/ \E v \in Vdevs : PsocOf[v] = n /\ TransActive(v)
    BY <1>2, <2>1
    DEF MustQueue, CanTrans, PsocCanTrans, TransActiveOrQueued,
        PsocTransActiveDownTree, Children
  <2>3. \A v \in Vdevs : PsocOf[v] = n => v \in Nodes /\ Related(v, n)
    BY <2>1 DEF Nodes, Related, Subtree
  <2> QED
    BY <1>0, <1>a, <2>2, <2>3, RelatedCases
<1>3. CASE n \in Vdevs
  <2> DEFINE p == PsocOf[n]
  <2>1. n # Driver /\ n \notin Psocs /\ p \in Nodes /\ p \in Psocs
    BY <1>3, TreeAssumption DEF Nodes
  <2>2. n \in Subtree(p) /\ Related(p, n)
    BY <1>3, <2>1, TreeAssumption DEF Related, Subtree
  <2>3. TransQueued(n) \/ TransActive(n) \/ TransQueued(p) \/ TransActive(p)
    BY <2>1 DEF MustQueue, CanTrans, VdevCanTrans, TransActiveOrQueued
  <2> HIDE DEF p
  <2>4. TransQueued(p) => Awaited(n)
    BY <1>0, <2>1, <2>2, AwaitedBelow
  <2> QED
    BY <1>0, <1>a, <2>1, <2>2, <2>3, <2>4, RelatedCases
<1> QED
  BY <1>1, <1>2, <1>3 DEF Nodes

\* After a stop, a context still queued is awaited: by a triggered transition,
\* or by one that goes on and holds back a queued ancestor.
LEMMA TransStopAwaited ==
  ASSUME IInv, NoLostTransition, NEW t \in Threads, TransStop(t)
  PROVE  NoLostTransition'
<1> USE DEF IInv
<1> DEFINE n == node[t]
           S == Triggers(n)
<1>0. n \in Nodes /\ active[n] = t /\ TransActive(n)
  <2>1. n \in Nodes
    BY TreeAssumption DEF TransStop, WalkOnPath, TypeOK
  <2> QED
    BY <2>1, ThreadAssumption DEF TransStop, Ownership, Granted, TransPCs, TransActive
<1>b. S \subseteq Nodes /\ \A m \in S : TransQueued(m) /\ Head(queue[m]) \in Threads
  BY <1>0, TriggersApart, QueueFacts
<1>c. \A m \in Nodes : (m \in S \/ (m # n /\ TransActive(m))) => TransActive(m)'
  BY <1>b, ThreadAssumption DEF TransStop, HandOver, TransActive
<1>d. \A m \in Nodes : /\ TransQueued(m)' => TransQueued(m)
                       /\ TransQueued(m) /\ m \notin S => TransQueued(m)'
  BY <1>b DEF TransStop, HandOver, TransQueued
<1>e. \A m \in Nodes : /\ TransQueued(m) => m \in attached
                       /\ TransActive(m) => m \in attached
  BY DEF NoDangling, TransActiveOrQueued
<1>f. \A m \in Nodes : TransActive(m) /\ Related(m, n) => m = n
  BY <1>0 DEF PathExclusion
<1> SUFFICES ASSUME NEW x \in Nodes, TransQueued(x)' PROVE Awaited(x)'
  BY DEF NoLostTransition, Awaited
<1>1. \A m \in Nodes : TransActive(m)' /\ Related(m, x) => Awaited(x)'
  BY TreeTypes DEF Awaited
<1>2. PICK m, k \in Nodes : /\ TransActive(m) /\ Related(m, k)
                            /\ x \in Subtree(k) /\ (k = x \/ TransQueued(k))
  BY <1>d DEF NoLostTransition
<1>3. TransQueued(k) /\ Related(k, x)
  BY <1>2, <1>d DEF Related
<1> HIDE DEF n, S
<1>4. CASE k \in S
  BY <1>1, <1>3, <1>4, <1>c
<1>5. CASE k \notin S /\ m # n
  BY <1>2, <1>3, <1>5, <1>c, <1>d DEF Awaited
<1>6. CASE k \notin S /\ m = n
  <2>1. ASSUME NEW y \in Nodes, TransQueued(y), x \in Subtree(y), y \notin S,
               NEW z \in Nodes, z # n, TransActive(z), Related(z, y)
        PROVE  Awaited(x)'
    BY <1>c, <1>d, <2>1 DEF Awaited
  <2>2. ASSUME TransQueued(Driver), n # Driver PROVE Awaited(x)'
    <3>1. CASE Driver \in S
      BY <1>1, <1>c, <3>1, RelatedCases, TreeTypes
    <3>2. CASE Driver \notin S
      <4>1. ~DriverCanTrigger(n)
        BY <1>0, <2>2, <3>2 DEF S, Triggers, PsocTriggers, VdevTriggers
      <4>2. PICK z \in attached \ {n} : TransActive(z)
        BY <4>1 DEF DriverCanTrigger
      <4>3. z \in Nodes /\ Related(z, Driver) /\ x \in Subtree(Driver)
        BY RelatedCases, TreeTypes DEF TypeOK, Subtree
      <4> QED
        BY <2>1, <2>2, <3>2, <4>2, <4>3, TreeTypes
    <3> QED
      BY <3>1, <3>2
  <2>3. CASE n = Driver
    <3>1. S = DriverTriggers
      BY <2>3 DEF S, Triggers
    <3>2. CASE TransQueued(Driver)
      <4>1. Driver \in S
        BY <3>1, <3>2 DEF DriverTriggers
      <4> QED
        BY <1>1, <1>c, <4>1, RelatedCases, TreeTypes
    <3>3. CASE ~TransQueued(Driver)
      <4>0. k # Driver /\ k \in attached
        BY <1>3, <1>e, <3>3
      <4>1. k \in Vdevs /\ TransQueued(PsocOf[k])
        BY <1>3, <1>6, <3>1, <3>3, <4>0 DEF DriverTriggers, QueuedIn, Nodes
      <4>2. PsocOf[k] \in S /\ PsocOf[k] \in Nodes /\ PsocOf[k] \in Psocs
        BY <1>e, <3>1, <3>3, <4>1, TreeAssumption DEF DriverTriggers, QueuedIn, Nodes
      <4>3. x = k
        BY <1>2, <4>1, <4>0, TreeAssumption DEF Subtree
      <4> QED
        BY <1>1, <1>c, <4>1, <4>2, <4>3, RelatedCases
    <3> QED
      BY <3>2, <3>3
  <2>4. CASE n \in Psocs /\ ~TransQueued(Driver)
    <3>0. n # Driver /\ S = PsocTriggers(n)
      BY <2>4, TreeAssumption DEF S, Triggers
    <3>1. k = n \/ (k \in Vdevs /\ PsocOf[k] = n)
      BY <1>2, <1>3, <1>6, <2>4, RelatedCases DEF Nodes
    <3>2. n \in S \/ k \in S
      BY <1>3, <1>e, <2>4, <3>0, <3>1 DEF PsocTriggers, QueuedIn, Children
    <3>3. x \in Subtree(n)
      BY <1>2, <3>0, <3>1, TreeAssumption DEF Subtree
    <3> QED
      BY <1>0, <1>1, <1>6, <1>c, <3>2, <3>3 DEF Related
  <2>5. CASE n \in Vdevs /\ ~TransQueued(Driver)
    <3> DEFINE p == PsocOf[n]
    <3>0. n # Driver /\ S = VdevTriggers(n) /\ p \in Psocs /\ p \in Nodes /\ p # Driver
      BY <2>5, TreeAssumption DEF S, Triggers, Nodes
    <3>1. k = n \/ k = p
      BY <1>2, <1>3, <1>6, <2>5, RelatedCases DEF Nodes
    <3>2. x \in Subtree(p)
      BY <1>2, <2>5, <3>0, <3>1, TreeAssumption DEF Subtree
    <3>3. CASE TransQueued(p)
      <4>1. CASE p \in S
        BY <1>1, <1>c, <3>0, <3>2, <4>1 DEF Related
      <4>2. CASE p \notin S
        <5>1. ~PsocCanTrigger(p, n)
          BY <2>5, <3>0, <3>3, <4>2 DEF VdevTriggers
        <5>2. ~TransActive(Driver)
          BY <1>0, <1>f, <3>0, RelatedCases, TreeTypes
        <5>3. PICK z \in (Subtree(p) \cap attached) \ {n} : TransActive(z)
          BY <2>5, <5>1, <5>2 DEF PsocCanTrigger, TransActiveOrQueued
        <5>4. z \in Nodes /\ Related(z, p)
          BY DEF TypeOK, Related
        <5> QED
          BY <2>1, <3>0, <3>2, <3>3, <4>2, <5>3, <5>4
      <4> QED
        BY <4>1, <4>2
    <3>4. CASE ~TransQueued(p)
      <4>1. k = n /\ k \in S
        BY <1>3, <1>e, <2>5, <3>0, <3>1, <3>4 DEF VdevTriggers, QueuedIn
      <4> QED
        BY <1>6, <4>1
    <3> QED
      BY <3>3, <3>4
  <2> QED
    BY <1>0, <2>2, <2>3, <2>4, <2>5, TreeAssumption DEF Nodes
<1> QED
  BY <1>4, <1>5, <1>6

\* Every step keeps every queued transition awaited.
LEMMA NextAwaited ==
  ASSUME IInv, NoLostTransition, [Next]_vars
  PROVE  NoLostTransition'
<1> USE DEF IInv
<1>0. ASSUME \A m \in Nodes : TransActive(m) => TransActive(m)',
             \A m \in Nodes : TransQueued(m) => TransQueued(m)',
             NEW x \in Nodes, Awaited(x)
      PROVE  Awaited(x)'
  BY <1>0 DEF Awaited
<1>1. ASSUME UNCHANGED <<active, queue>> PROVE NoLostTransition'
  BY <1>1 DEF NoLostTransition, TransActive, TransQueued
<1>2. ASSUME NEW n \in Nodes, Create(n) PROVE NoLostTransition'
  <2>1. active[n] = NoThread /\ queue[n] = <<>>
    BY <1>2 DEF Create, NoDangling, TransActiveOrQueued, TransActive, TransQueued
  <2>2. UNCHANGED <<active, queue>>
    BY <1>2, <2>1 DEF Create, TypeOK
  <2> QED
    BY <1>1, <2>2
<1>3. ASSUME NEW t \in Threads, NEW n \in Nodes, TransStart(t, n)
      PROVE  NoLostTransition'
  BY <1>3, ThreadAssumption
  DEF TransStart, StartNow, NoLostTransition, TransActive, TransQueued, TypeOK
<1>4. ASSUME NEW t \in Threads, NEW n \in Nodes, TransStartWait(t, n)
      PROVE  NoLostTransition'
  <2>1. active' = active /\ queue' = [queue EXCEPT ![n] = Append(queue[n], t)]
    BY <1>4 DEF TransStartWait, QueueTran
  <2>2. Append(queue[n], t) # <<>>
    <3>1. queue[n] \in Seq(Threads) /\ Distinct(queue[n]) /\ ~Elems(queue[n], t)
      BY <1>4, QueueFacts DEF TransStartWait, QueueMatchesSleepers
    <3> QED
      BY <3>1, EnqueueElems
  <2>3. /\ \A m \in Nodes : TransActive(m) => TransActive(m)'
        /\ \A m \in Nodes : TransQueued(m) => TransQueued(m)'
        /\ \A m \in Nodes : TransQueued(m)' => TransQueued(m) \/ m = n
    BY <2>1, <2>2 DEF TransActive, TransQueued, TypeOK
  <2>4. \A x \in Nodes : TransQueued(x)' => Awaited(x)
    BY <1>4, <2>3, MustQueueAwaited DEF NoLostTransition, Awaited, TransStartWait
  <2>5. \A x \in Nodes : TransQueued(x)' => Awaited(x)'
    BY <1>0, <2>3, <2>4
  <2> QED
    BY <2>5 DEF NoLostTransition, Awaited
<1>5. ASSUME NEW t \in Threads, DestroyAbort(t) PROVE NoLostTransition'
  <2> DEFINE n == cur[t]
             a == node[t]
  <2>1. n \in Nodes /\ a \in Nodes /\ n \in Subtree(a) /\ TransActive(a)
    <3>0. pc[t] = "destroy"
      BY <1>5 DEF DestroyAbort, DestroyCovered, Covered, DestroyPCs
    <3>1. n \in Nodes /\ a \in Nodes /\ n \in Subtree(a)
      <4>1. n \in dying /\ n \in Subtree(a) /\ a # NoNode
        BY <3>0 DEF DestroyCovered, Covered, DestroyPCs, WalkOnPath
      <4> QED
        BY <4>1 DEF TypeOK
    <3>2. active[a] = t
      BY <3>0, <3>1 DEF Ownership, Granted, TransPCs
    <3> QED
      BY <3>1, <3>2, ThreadAssumption DEF TransActive
  <2>2. active' = active /\ queue' = [queue EXCEPT ![n] = Tail(queue[n])]
    BY <1>5 DEF DestroyAbort
  <2> HIDE DEF n, a
  <2>3. /\ \A m \in Nodes : TransActive(m) <=> TransActive(m)'
        /\ \A m \in Nodes : m # n => (TransQueued(m) <=> TransQueued(m)')
    BY <2>2 DEF TransActive, TransQueued, TypeOK
  <2>4. TransQueued(n)
    BY <1>5 DEF DestroyAbort, n
  <2> SUFFICES ASSUME NEW x \in Nodes, TransQueued(x)' PROVE Awaited(x)'
    BY DEF NoLostTransition, Awaited
  <2>5. PICK m, k \in Nodes : /\ TransActive(m) /\ Related(m, k)
                              /\ x \in Subtree(k) /\ (k = x \/ TransQueued(k))
    BY <2>3, <2>4 DEF NoLostTransition
  <2>6. CASE k # n \/ k = x
    BY <2>3, <2>5, <2>6 DEF Awaited
  <2>7. CASE k = n
    <3>1. Related(a, x)
      BY <2>1, <2>5, <2>7, TreeAssumption DEF Related, Subtree, Nodes
    <3> QED
      BY <2>1, <2>3, <3>1, TreeTypes DEF Awaited
  <2> QED
    BY <2>6, <2>7
<1>6. CASE Env
  BY <1>1, <1>2, <1>6
  DEF Env, DriverDestroy, SetRecovering, SetUnloading, transVars
<1>7. ASSUME NEW t \in Threads, Call(t) PROVE NoLostTransition'
  BY <1>1, <1>3, <1>4, <1>7
  DEF Call, OpStart, DestroyBegin, Unregister, DrainBegin, UptreeDrainBegin, transVars
<1>8. ASSUME NEW t \in Threads, Progress(t) PROVE NoLostTransition'
  BY <1>1, <1>5, <1>8
  DEF Progress, TranWake, OpStop, DrainCheck, DrainWake, DestroyEnd, transVars
<1>9. CASE UNCHANGED vars
  BY <1>1, <1>9 DEF vars
<1> QED
  BY <1>6, <1>7, <1>8, <1>9, TransStopAwaited DEF Next

\* Every queued transition has an active one that will lead to it: no stop,
\* abort or early return of a trigger function forgets a sleeper.
THEOREM NobodyForgotten ==
  ASSUME CloseAlone = Nodes
  PROVE  Spec => []NoLostTransition
<1>1. Init => NoLostTransition
  BY DEF Init, NoLostTransition, TransQueued
<1>2. IInv /\ NoLostTransition /\ [Next]_vars => NoLostTransition'
  BY NextAwaited
<1> QED
  BY <1>1, <1>2, Invariance, PTL DEF Spec
=============================================================================
