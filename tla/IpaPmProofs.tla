---------------------------- MODULE IpaPmProofs ----------------------------
(***************************************************************************)
(* The safety properties of IpaPm, for any number of clients and threads   *)
(* and any choice of calls that is Disciplined.                            *)
(*                                                                         *)
(* First what the operations on the work queue and the steps of one actor  *)
(* do to the sets the invariant counts, then one lemma for each part of    *)
(* IInv with a step for each action, then the theorems.                    *)
(***************************************************************************)
EXTENDS IpaPm, FiniteSetTheorems, SequenceTheorems, TLAPS

-----------------------------------------------------------------------------
(* The work queue                                                          *)

Distinct == \A i, j \in DOMAIN wq : wq[i] = wq[j] => i = j

\* queue_work adds the work, and only it.
LEMMA QueueWorkAdds ==
  ASSUME wq \in Seq(Works), Distinct, NEW w \in Works, QueueWork(w)
  PROVE  /\ wq' \in Seq(Works) /\ Distinct'
         /\ \A v : Queued(v)' <=> Queued(v) \/ v = w
<1>1. CASE Queued(w)
  BY <1>1 DEF QueueWork, Queued, Distinct
<1>2. CASE ~Queued(w)
  <2>1. /\ wq' \in Seq(Works) /\ Len(wq') = Len(wq) + 1 /\ wq'[Len(wq) + 1] = w
        /\ \A i \in 1 .. Len(wq) : wq'[i] = wq[i]
    BY <1>2 DEF QueueWork
  <2>2. DOMAIN wq = 1 .. Len(wq) /\ DOMAIN wq' = 1 .. Len(wq) + 1 /\ Len(wq) \in Nat
    BY <2>1
  <2> QED
    BY <1>2, <2>1, <2>2 DEF Queued, Distinct
<1> QED
  BY <1>1, <1>2

\* cancel_delayed_work takes the work off, and only it.
LEMMA UnqueueRemoves ==
  ASSUME wq \in Seq(Works), Distinct, NEW w \in Works, Unqueue(w)
  PROVE  /\ wq' \in Seq(Works) /\ Distinct'
         /\ \A v : Queued(v)' <=> Queued(v) /\ v # w
<1>1. CASE ~Queued(w) /\ UNCHANGED wq
  BY <1>1 DEF Queued, Distinct
<1>2. ASSUME NEW i \in DOMAIN wq, wq[i] = w,
             wq' = SubSeq(wq, 1, i - 1) \o SubSeq(wq, i + 1, Len(wq))
      PROVE  /\ wq' \in Seq(Works) /\ Distinct'
             /\ \A v : Queued(v)' <=> Queued(v) /\ v # w
  <2>1. i \in 1 .. Len(wq) /\ Len(wq) \in Nat /\ DOMAIN wq = 1 .. Len(wq)
    BY <1>2
  <2>2. /\ wq' \in Seq(Works) /\ DOMAIN wq' = 1 .. Len(wq) - 1
        /\ \A j \in 1 .. Len(wq) - 1 : wq'[j] = IF j < i THEN wq[j] ELSE wq[j + 1]
    <3> DEFINE p == SubSeq(wq, 1, i - 1)
               q == SubSeq(wq, i + 1, Len(wq))
    <3>1. /\ p \in Seq(Works) /\ Len(p) = i - 1
          /\ \A j \in 1 .. i - 1 : p[j] = wq[j]
      BY <2>1
    <3>2. /\ q \in Seq(Works) /\ Len(q) = Len(wq) - i
          /\ \A j \in 1 .. Len(wq) - i : q[j] = wq[j + i]
      BY <2>1
    <3>3. wq' = p \o q
      BY <1>2
    <3>l. Len(p) = i - 1 /\ Len(q) = Len(wq) - i
      BY <3>1, <3>2
    <3> HIDE DEF p, q
    <3>4. wq' \in Seq(Works) /\ Len(wq') = Len(p) + Len(q)
      BY <3>1, <3>2, <3>3, ConcatProperties
    <3>c. \A j \in 1 .. Len(p) + Len(q) :
            wq'[j] = IF j <= Len(p) THEN p[j] ELSE q[j - Len(p)]
      BY <3>1, <3>2, <3>3, ConcatProperties, Zenon
    <3>5. ASSUME NEW j \in 1 .. Len(wq) - 1, j < i PROVE wq'[j] = wq[j]
      <4>1. j \in 1 .. Len(p) + Len(q) /\ j <= Len(p) /\ j \in 1 .. i - 1
        BY <2>1, <3>l, <3>5
      <4> QED
        BY <3>1, <3>c, <4>1
    <3>6. ASSUME NEW j \in 1 .. Len(wq) - 1, ~(j < i) PROVE wq'[j] = wq[j + 1]
      <4>1. j - (i - 1) \in 1 .. Len(wq) - i /\ j - (i - 1) + i = j + 1
        BY <2>1, <3>6
      <4>2. j \in 1 .. Len(p) + Len(q) /\ ~(j <= Len(p)) /\ j - Len(p) = j - (i - 1)
        BY <2>1, <3>l, <3>6
      <4>3. wq'[j] = q[j - (i - 1)]
        BY <3>c, <4>2
      <4> QED
        BY <3>2, <4>1, <4>3
    <3> QED
      BY <2>1, <3>1, <3>2, <3>4, <3>5, <3>6
  <2>3. \A j \in 1 .. Len(wq) : j # i => wq[j] # w
    BY <1>2, <2>1 DEF Distinct
  <2>4. Distinct'
    <3> SUFFICES ASSUME NEW j \in 1 .. Len(wq) - 1, NEW k \in 1 .. Len(wq) - 1,
                        wq'[j] = wq'[k]
                 PROVE  j = k
      BY <2>2 DEF Distinct
    <3> DEFINE at(l) == IF l < i THEN l ELSE l + 1
    <3>1. at(j) \in DOMAIN wq /\ at(k) \in DOMAIN wq /\ wq[at(j)] = wq[at(k)]
      BY <2>1, <2>2
    <3>2. at(j) = at(k)
      BY <3>1 DEF Distinct
    <3> QED
      BY <2>1, <3>2
  <2>5. ASSUME NEW v, Queued(v)' PROVE Queued(v) /\ v # w
    BY <2>1, <2>2, <2>3, <2>5 DEF Queued
  <2>6. ASSUME NEW v, Queued(v), v # w PROVE Queued(v)'
    <3>1. PICK j \in 1 .. Len(wq) : wq[j] = v
      BY <2>1, <2>6 DEF Queued
    <3>2. CASE j < i
      BY <2>1, <2>2, <3>1, <3>2 DEF Queued
    <3>3. CASE j > i
      <4>1. j - 1 \in 1 .. Len(wq) - 1 /\ wq'[j - 1] = v
        BY <2>1, <2>2, <3>1, <3>3
      <4> QED
        BY <2>2, <4>1 DEF Queued
    <3> QED
      BY <1>2, <2>1, <2>6, <3>1, <3>2, <3>3
  <2> QED
    BY <2>2, <2>4, <2>5, <2>6
<1> QED
  BY <1>1, <1>2 DEF Unqueue

\* The worker takes the first work, and only it.
LEMMA TailRemoves ==
  ASSUME wq \in Seq(Works), Distinct, wq # <<>>, wq' = Tail(wq)
  PROVE  /\ wq' \in Seq(Works) /\ Distinct'
         /\ Head(wq) \in Works /\ Queued(Head(wq))
         /\ \A v : Queued(v)' <=> Queued(v) /\ v # Head(wq)
<1>1. /\ Len(wq) \in Nat /\ Len(wq) > 0 /\ DOMAIN wq = 1 .. Len(wq)
      /\ Head(wq) = wq[1] /\ Head(wq) \in Works
  OBVIOUS
<1>2. /\ wq' \in Seq(Works) /\ DOMAIN wq' = 1 .. Len(wq) - 1
      /\ \A i \in 1 .. Len(wq) - 1 : wq'[i] = wq[i + 1]
  BY <1>1
<1>3. Distinct'
  BY <1>1, <1>2 DEF Distinct
<1>4. \A j \in 1 .. Len(wq) : j # 1 => wq[j] # Head(wq)
  BY <1>1 DEF Distinct
<1>5. ASSUME NEW v, Queued(v)' PROVE Queued(v) /\ v # Head(wq)
  BY <1>1, <1>2, <1>4, <1>5 DEF Queued
<1>6. ASSUME NEW v, Queued(v), v # Head(wq) PROVE Queued(v)'
  <2>1. PICK j \in 1 .. Len(wq) : wq[j] = v
    BY <1>1, <1>6 DEF Queued
  <2>2. j - 1 \in 1 .. Len(wq) - 1 /\ wq'[j - 1] = v
    BY <1>1, <1>2, <1>6, <2>1
  <2> QED
    BY <1>2, <2>2 DEF Queued
<1>7. Queued(Head(wq))
  BY <1>1 DEF Queued
<1> QED
  BY <1>1, <1>2, <1>3, <1>5, <1>6, <1>7

\* A queue that stays the same holds the same works.
LEMMA SameQueue ==
  ASSUME wq' = wq
  PROVE  Distinct' = Distinct /\ \A v : Queued(v)' <=> Queued(v)
BY DEF Distinct, Queued

-----------------------------------------------------------------------------
(* The actor of a step                                                     *)

\* Only a moves.
Moves(a) ==
  \A b \in Actors \ {a} : pc'[b] = pc[b] /\ client'[b] = client[b] /\ call'[b] = call[b]

\* A step of a thread moves only that thread.
LEMMA ThreadMoves ==
  ASSUME TypeOK, NEW t \in Threads, Request(t) \/ Progress(t)
  PROVE  Moves(t)
<1>1. /\ pc \in [Actors -> PCs]
      /\ client \in [Actors -> Clients \cup {NoClient}]
      /\ call \in [Actors -> CallNames \cup {"none", "deactivate", "scale"}]
  BY DEF TypeOK
<1>2. CASE Request(t)
  <2> USE DEF Moves, Stay, Enter, Return, Goto
  <2>1. ASSUME NEW c \in Clients,
               \/ ActivateInProgress(t, c) \/ ActivateActive(t, c) \/ ActivateNow(t, c)
               \/ ActivateLater(t, c)
        PROVE  Moves(t)
    BY <1>1, <2>1 DEF ActivateInProgress, ActivateActive, ActivateNow, ActivateLater, callVars
  <2>2. ASSUME NEW c \in Clients, ActivateSync(t, c) \/ ActivateSyncWaits(t, c)
        PROVE  Moves(t)
    BY <1>1, <2>2 DEF ActivateSync, SyncSwitch, ActivateSyncWaits, callVars
  <2>3. ASSUME NEW c \in Clients,
               DeferredDeactivate(t, c) \/ DeactivateSync(t, c) \/ Deregister(t, c)
        PROVE  Moves(t)
    BY <1>1, <2>3 DEF DeferredDeactivate, DeactivateSync, Deregister, callVars
  <2>4. CASE DeactivateAll(t)
    BY <1>1, <2>4 DEF DeactivateAll, callVars
  <2> QED
    BY <1>2, <2>1, <2>2, <2>3, <2>4 DEF Request
<1>3. CASE Progress(t)
  BY <1>1, <1>3 DEF Progress, Moves, Woken, ActivateSyncWoken, SyncSwitch, SyncVote, SyncGot,
     SetBit, Cancel, Flush, Look, DeactivateSyncWoken, SyncOff, Devote, ClearBit, NextClient,
     AllWoken, DeregisterDecides, Free, ScaleSample, ScaleApply, Enter, Return, Goto, callVars
<1> QED
  BY <1>2, <1>3

\* A step of the work queue moves only its thread.
LEMMA WorkerMoves ==
  ASSUME TypeOK, Work PROVE Moves(Worker)
<1>1. /\ pc \in [Actors -> PCs]
      /\ client \in [Actors -> Clients \cup {NoClient}]
      /\ call \in [Actors -> CallNames \cup {"none", "deactivate", "scale"}]
  BY DEF TypeOK
<1> QED
  BY <1>1 DEF Work, Moves, WorkStart, ActivateWorkVotes, ActivateWorkLocked, Complete,
     DeactivateWorkLocked, SetBit, Devote, ClearBit, ScaleSample, ScaleApply, Enter, Return,
     Goto, callVars

\* The actors that hold votes are finitely many.
LEMMA ExtraFinite ==
  ASSUME NEW c PROVE IsFiniteSet(Extra(c)) /\ Cardinality(Extra(c)) \in Nat
<1>1. IsFiniteSet(Actors)
  BY ActorAssumption, FS_Union, FS_Singleton DEF Actors
<1>2. Extra(c) \subseteq Actors
  BY DEF Extra
<1> QED
  BY <1>1, <1>2, FS_Subset, FS_CardinalityType

\* The actors that are counted for a client change by the one that moves.
LEMMA ExtraMoves ==
  ASSUME NEW a \in Actors, Moves(a), NEW c \in Clients
  PROVE  /\ Cardinality(Extra(c)) \in Nat /\ Cardinality(Extra(c))' \in Nat
         /\ (a \in Extra(c) <=> a \in Extra(c)')
              => Cardinality(Extra(c))' = Cardinality(Extra(c))
         /\ a \notin Extra(c) /\ a \in Extra(c)'
              => Cardinality(Extra(c))' = Cardinality(Extra(c)) + 1
         /\ a \in Extra(c) /\ a \notin Extra(c)'
              => Cardinality(Extra(c))' = Cardinality(Extra(c)) - 1
         /\ a \in Extra(c) => Cardinality(Extra(c)) > 0
<1>1. IsFiniteSet(Actors)
  BY ActorAssumption, FS_Union, FS_Singleton DEF Actors
<1>2. Extra(c) \subseteq Actors /\ Extra(c)' \subseteq Actors
  BY DEF Extra
<1>3. IsFiniteSet(Extra(c)) /\ IsFiniteSet(Extra(c)')
  BY <1>1, <1>2, FS_Subset
<1>4. \A b \in Actors \ {a} : b \in Extra(c) <=> b \in Extra(c)'
  BY DEF Extra, Moves
<1>5. /\ Cardinality(Extra(c)) \in Nat /\ Cardinality(Extra(c)') \in Nat
      /\ Cardinality(Extra(c)) = 0 <=> Extra(c) = {}
  BY <1>3, FS_CardinalityType, FS_EmptySet
<1>6. CASE a \in Extra(c) <=> a \in Extra(c)'
  <2>1. Extra(c)' = Extra(c)
    BY <1>2, <1>4, <1>6
  <2> QED
    BY <1>5, <2>1, <1>6
<1>7. CASE a \notin Extra(c) /\ a \in Extra(c)'
  <2>1. Extra(c)' = Extra(c) \cup {a}
    BY <1>2, <1>4, <1>7
  <2>2. Cardinality(Extra(c) \cup {a}) = Cardinality(Extra(c)) + 1
    BY <1>3, <1>7, FS_AddElement
  <2> QED
    BY <1>5, <1>7, <2>1, <2>2
<1>8. CASE a \in Extra(c) /\ a \notin Extra(c)'
  <2>1. Extra(c)' = Extra(c) \ {a}
    BY <1>2, <1>4, <1>8
  <2>2. Cardinality(Extra(c) \ {a}) = Cardinality(Extra(c)) - 1
    BY <1>3, <1>8, FS_RemoveElement
  <2> QED
    BY <1>5, <1>8, <2>1, <2>2
<1> QED
  BY <1>6, <1>7, <1>8

\* When nobody moves nothing that is counted changes.
LEMMA ExtraStays ==
  ASSUME UNCHANGED <<pc, client, call>>, NEW c \in Clients
  PROVE  Extra(c)' = Extra(c) /\ Finishers(c)' = Finishers(c) /\ TakenBack(c)' = TakenBack(c)
BY DEF Extra, Finishers, TakenBack

-----------------------------------------------------------------------------
(* Where the actors are                                                    *)

\* Every step leaves every thread in a stage of its call, on a registered client.
LEMMA NextThreadStages ==
  ASSUME IInv, Next PROVE ThreadStages'
<1>0. /\ pc \in [Actors -> PCs]
      /\ client \in [Actors -> Clients \cup {NoClient}]
      /\ call \in [Actors -> CallNames \cup {"none", "deactivate", "scale"}]
      /\ state \in [Clients -> TimerFreeStates \cup TimerSetStates]
      /\ Worker \notin Threads /\ Actors = Threads \cup {Worker}
  BY ActorAssumption DEF IInv, TypeOK, Actors
<1>1. ThreadStages
  BY DEF IInv
<1>2. todo \in [Actors -> SUBSET Clients]
  BY DEF IInv, TypeOK
<1>3. ASSUME NEW c \in Clients, Register(c) PROVE ThreadStages'
  <2>1. Finishers(c) = {}
    BY <1>3 DEF IInv, Unregistered, OneFinisher, FinishedOnce, InProgress, Register
  <2>2. \A t \in Threads : client[t] = c => pc[t] \notin {"inc", "got"}
    BY <1>0, <2>1 DEF Finishers
  <2> QED
    BY <1>0, <1>1, <1>3, <2>2 DEF Register, SetState, callVars, ThreadStages, ThreadStage
<1>4. ASSUME NEW c \in Clients, TimerFire(c) PROVE ThreadStages'
  BY <1>0, <1>1, <1>4 DEF TimerFire, clientVars, clockVars, callVars, ThreadStages,
     ThreadStage
<1>5. ASSUME NEW t \in Threads, NEW c \in Clients, ActivateInProgress(t, c) PROVE ThreadStages'
  BY <1>0, <1>1, <1>5 DEF ActivateInProgress, MayCall, Idle, InProgress, SetState, Want,
     Stay, workVars, clockVars, callVars, ThreadStages, ThreadStage
<1>6. ASSUME NEW t \in Threads, NEW c \in Clients, ActivateActive(t, c) PROVE ThreadStages'
  BY <1>0, <1>1, <1>6 DEF ActivateActive, MayCall, Idle, KeepActive, Active, SetState,
     Want, Stay, workVars, clockVars, callVars, ThreadStages, ThreadStage
<1>7. ASSUME NEW t \in Threads, NEW c \in Clients, ActivateNow(t, c) PROVE ThreadStages'
  BY <1>0, <1>1, <1>7 DEF ActivateNow, MayCall, Idle, SetState, Want, Enter, Goto,
     StayAwake, Vote, workVars, ThreadStages, ThreadStage
<1>8. ASSUME NEW t \in Threads, NEW c \in Clients, ActivateLater(t, c) PROVE ThreadStages'
  BY <1>0, <1>1, <1>8 DEF ActivateLater, MayCall, Idle, SetState, Want, Stay, clockVars,
     callVars, ThreadStages, ThreadStage
<1>9. ASSUME NEW t \in Threads, NEW c \in Clients, ActivateSync(t, c) PROVE ThreadStages'
  BY <1>0, <1>1, <1>9 DEF ActivateSync, MayCall, Idle, InProgress, SyncSwitch,
     KeepActive, Active, SetState, Want, Enter, Return, Goto, StayAwake, workVars,
     clockVars, callVars, ThreadStages, ThreadStage
<1>10. ASSUME NEW t \in Threads, NEW c \in Clients, ActivateSyncWaits(t, c) PROVE ThreadStages'
  BY <1>0, <1>1, <1>10 DEF ActivateSyncWaits, MayCall, Idle, InProgress, Enter, Goto,
     clientVars, workVars, clockVars, ThreadStages, ThreadStage
<1>11. ASSUME NEW t \in Threads, NEW c \in Clients, DeferredDeactivate(t, c) PROVE ThreadStages'
  BY <1>0, <1>1, <1>11 DEF DeferredDeactivate, MayCall, Idle, SetState, ArmTimer, Want,
     Stay, clockVars, callVars, ThreadStages, ThreadStage
<1>12. ASSUME NEW t \in Threads, NEW c \in Clients, DeactivateSync(t, c) PROVE ThreadStages'
  BY <1>0, <1>1, <1>12 DEF DeactivateSync, MayCall, Idle, Enter, Goto, clientVars,
     workVars, clockVars, ThreadStages, ThreadStage
<1>13. ASSUME NEW t \in Threads, NEW c \in Clients, Deregister(t, c) PROVE ThreadStages'
  BY <1>0, <1>1, <1>13 DEF Deregister, MayCall, Idle, Enter, Goto,
     clientVars, workVars, clockVars, ThreadStages, ThreadStage
<1>14. ASSUME NEW t \in Threads, DeactivateAll(t) PROVE ThreadStages'
  BY <1>0, <1>1, <1>14 DEF DeactivateAll, Idle, Goto, clientVars, workVars, clockVars,
     ThreadStages, ThreadStage
<1>15. ASSUME NEW t \in Threads, Woken(t) PROVE ThreadStages'
  BY <1>0, <1>1, <1>15 DEF Woken, Goto, clientVars, workVars, clockVars, callVars,
     ThreadStages, ThreadStage
<1>16. ASSUME NEW t \in Threads, ActivateSyncWoken(t) PROVE ThreadStages'
  BY <1>0, <1>1, <1>16 DEF ActivateSyncWoken, InProgress, SyncSwitch, KeepActive,
     Active, SetState, Want, Enter, Return, Goto, StayAwake, workVars, clockVars,
     ThreadStages, ThreadStage
<1>17. ASSUME NEW t \in Threads, SyncVote(t) PROVE ThreadStages'
  BY <1>0, <1>1, <1>17 DEF SyncVote, Vote, Goto, clientVars, workVars, callVars,
     ThreadStages, ThreadStage
<1>18. ASSUME NEW t \in Threads, SyncGot(t) PROVE ThreadStages'
  BY <1>0, <1>1, <1>18 DEF SyncGot, SetState, StayAwake, Want, Goto, workVars,
     clockVars, callVars, ThreadStages, ThreadStage
<1>19. ASSUME NEW t \in Threads, Cancel(t) PROVE ThreadStages'
  BY <1>0, <1>1, <1>19 DEF Cancel, Goto, clientVars, clockVars, callVars, ThreadStages,
     ThreadStage
<1>20. ASSUME NEW t \in Threads, Flush(t) PROVE ThreadStages'
  BY <1>0, <1>1, <1>20 DEF Flush, Goto, clientVars, clockVars, callVars, ThreadStages,
     ThreadStage
<1>21. ASSUME NEW t \in Threads, Look(t) PROVE ThreadStages'
  BY <1>0, <1>1, <1>21 DEF Look, Goto, InProgress, clientVars, workVars, clockVars,
     callVars, ThreadStages, ThreadStage
<1>22. ASSUME NEW t \in Threads, DeactivateSyncWoken(t) PROVE ThreadStages'
  BY <1>0, <1>1, <1>22 DEF DeactivateSyncWoken, Return, Want, Goto, clientVars,
     workVars, clockVars, callVars, ThreadStages, ThreadStage
<1>23. ASSUME NEW t \in Threads, SyncOff(t) PROVE ThreadStages'
  BY <1>0, <1>1, <1>23 DEF SyncOff, SetState, Want, Goto, workVars, clockVars, callVars,
     ThreadStages, ThreadStage
<1>24. ASSUME NEW t \in Threads, NextClient(t) PROVE ThreadStages'
  BY <1>0, <1>1, <1>24, <1>2 DEF NextClient, Goto, Return, clientVars, workVars,
     clockVars, ThreadStages, ThreadStage
<1>25. ASSUME NEW t \in Threads, AllWoken(t) PROVE ThreadStages'
  BY <1>0, <1>1, <1>25 DEF AllWoken, SetState, Goto, workVars, clockVars, ThreadStages,
     ThreadStage
<1>26. ASSUME NEW t \in Threads, DeregisterDecides(t) PROVE ThreadStages'
  BY <1>0, <1>1, <1>26 DEF DeregisterDecides, Active, InProgress, Return, Goto, clientVars,
     workVars, clockVars, callVars, ThreadStages, ThreadStage
<1>27. ASSUME NEW t \in Threads, Free(t) PROVE ThreadStages'
  <2>1. call[t] = "deregister"
    BY <1>1, <1>27 DEF Free, ThreadStages, ThreadStage
  <2>2. \A u \in Threads \ {t} :
          client[u] # client[t] /\ call[u] # "deactivate_all_deferred"
    BY <2>1 DEF IInv, TeardownAlone, TeardownCalls
  <2> QED
    BY <1>0, <1>1, <1>27, <2>2 DEF Free, Return, Goto, ThreadStages, ThreadStage
<1>28. ASSUME NEW a \in Actors, SetBit(a) PROVE ThreadStages'
  BY <1>0, <1>1, <1>28 DEF SetBit, Return, Goto, clientVars, callVars, ThreadStages,
     ThreadStage
<1>29. ASSUME NEW a \in Actors, Devote(a) PROVE ThreadStages'
  BY <1>0, <1>1, <1>29 DEF Devote, Unvote, Return, Goto, workVars, callVars,
     ThreadStages, ThreadStage
<1>30. ASSUME NEW a \in Actors, ClearBit(a) PROVE ThreadStages'
  BY <1>0, <1>1, <1>30 DEF ClearBit, Goto, clientVars, workVars, callVars, ThreadStages,
     ThreadStage
<1>31. ASSUME NEW a \in Actors, ScaleSample(a) PROVE ThreadStages'
  BY <1>0, <1>1, <1>31 DEF ScaleSample, Return, Goto, clientVars, workVars, callVars,
     ThreadStages, ThreadStage
<1>32. ASSUME NEW a \in Actors, ScaleApply(a) PROVE ThreadStages'
  BY <1>0, <1>1, <1>32 DEF ScaleApply, Return, Goto, clientVars, workVars, ThreadStages,
     ThreadStage
<1>33. ASSUME WorkStart PROVE ThreadStages'
  BY <1>0, <1>1, <1>33 DEF WorkStart, Idle, Enter, Goto, clientVars, clockVars,
     ThreadStages, ThreadStage
<1>34. ASSUME ActivateWorkVotes PROVE ThreadStages'
  BY <1>0, <1>1, <1>34 DEF ActivateWorkVotes, Vote, StayAwake, Goto, workVars, callVars,
     ThreadStages, ThreadStage
<1>35. ASSUME ActivateWorkLocked PROVE ThreadStages'
  BY <1>0, <1>1, <1>35 DEF ActivateWorkLocked, SetState, Goto, workVars, clockVars,
     callVars, ThreadStages, ThreadStage
<1>36. ASSUME Complete PROVE ThreadStages'
  BY <1>0, <1>1, <1>36 DEF Complete, Goto, workVars, clockVars, callVars, ThreadStages,
     ThreadStage
<1>37. ASSUME DeactivateWorkLocked PROVE ThreadStages'
  BY <1>0, <1>1, <1>37 DEF DeactivateWorkLocked, SetState, ArmTimer, Return, Goto,
     clockVars, callVars, ThreadStages, ThreadStage
<1> QED
  BY <1>3, <1>4, <1>5, <1>6, <1>7, <1>8, <1>9, <1>10, <1>11, <1>12, <1>13, <1>14, <1>15,
     <1>16, <1>17, <1>18, <1>19, <1>20, <1>21, <1>22, <1>23, <1>24, <1>25, <1>26, <1>27,
     <1>28, <1>29, <1>30, <1>31, <1>32, <1>33, <1>34, <1>35, <1>36, <1>37 DEF Next,
     Request, Progress, Work, Actors


\* The worker is moved by its own steps only.
LEMMA WorkerStays ==
  ASSUME TypeOK,
         \/ \E c \in Clients : Register(c) \/ TimerFire(c)
         \/ \E t \in Threads : Request(t) \/ Progress(t)
  PROVE  pc'[Worker] = pc[Worker] /\ client'[Worker] = client[Worker]
         /\ call'[Worker] = call[Worker]
<1>1. ASSUME NEW c \in Clients, Register(c) \/ TimerFire(c)
      PROVE  UNCHANGED <<pc, client, call>>
  BY <1>1 DEF Register, TimerFire, callVars
<1>2. ASSUME NEW t \in Threads, Request(t) \/ Progress(t) PROVE Moves(t)
  BY <1>2, ThreadMoves
<1> QED
  BY <1>1, <1>2, ActorAssumption DEF Moves, Actors

\* Every step leaves the work queue's thread in a stage of its work.
LEMMA NextWorkerStages ==
  ASSUME IInv, Next PROVE WorkerStages'
<1>0. /\ pc \in [Actors -> PCs]
      /\ client \in [Actors -> Clients \cup {NoClient}]
      /\ call \in [Actors -> CallNames \cup {"none", "deactivate", "scale"}]
      /\ state \in [Clients -> TimerFreeStates \cup TimerSetStates]
      /\ Worker \notin Threads /\ Actors = Threads \cup {Worker}
  BY ActorAssumption DEF IInv, TypeOK, Actors
<1>1. WorkerStages /\ TypeOK /\ wq \in Seq(Works) /\ Distinct
  BY DEF IInv, TypeOK, QueueDistinct, Distinct
<1>2. CASE \/ \E c \in Clients : Register(c) \/ TimerFire(c)
           \/ \E t \in Threads : Request(t) \/ Progress(t)
  BY <1>1, <1>2, WorkerStays DEF WorkerStages
<1>3. CASE WorkStart
  <2>1. Head(wq) \in Works
    BY <1>1, <1>3, TailRemoves DEF WorkStart
  <2> QED
    BY <1>0, <1>3, <2>1, ActorAssumption DEF WorkStart, Enter, Goto, Works, WorkerStages
<1>4. CASE ActivateWorkVotes \/ ActivateWorkLocked \/ Complete
  BY <1>0, <1>1, <1>4 DEF ActivateWorkVotes, ActivateWorkLocked, Complete, Goto, callVars,
     WorkerStages
<1>5. CASE DeactivateWorkLocked
  BY <1>0, <1>1, <1>5 DEF DeactivateWorkLocked, Return, Goto, callVars, WorkerStages
<1>6. CASE SetBit(Worker) \/ Devote(Worker) \/ ClearBit(Worker)
  BY <1>0, <1>1, <1>6 DEF SetBit, Devote, ClearBit, Return, Goto, callVars, WorkerStages
<1>7. CASE ScaleSample(Worker) \/ ScaleApply(Worker)
  BY <1>0, <1>1, <1>7 DEF ScaleSample, ScaleApply, Return, Goto, callVars, WorkerStages
<1> QED
  BY <1>2, <1>3, <1>4, <1>5, <1>6, <1>7 DEF Next, Work

\* Nobody enters a call on a client that is being torn down, and nobody tears
\* down a client that somebody else is at work on.
LEMMA NextTeardownAlone ==
  ASSUME Disciplined, IInv, Next PROVE TeardownAlone'
<1>0. /\ pc \in [Actors -> PCs]
      /\ client \in [Actors -> Clients \cup {NoClient}]
      /\ call \in [Actors -> CallNames \cup {"none", "deactivate", "scale"}]
      /\ state \in [Clients -> TimerFreeStates \cup TimerSetStates]
      /\ Worker \notin Threads /\ Actors = Threads \cup {Worker}
  BY ActorAssumption DEF IInv, TypeOK, Actors
<1>1. TeardownAlone /\ ThreadStages
  BY DEF IInv
<1>2. Calls \cap TeardownCalls \subseteq Serial
  BY DEF Disciplined
<1>3. /\ \A t \in Threads : call[t] \in TeardownCalls => client[t] \in Clients
      /\ NoClient \notin Clients /\ "none" \notin TeardownCalls
  BY <1>1, ActorAssumption DEF ThreadStages, ThreadStage, TeardownCalls
<1>4. ASSUME NEW c \in Clients, Register(c) PROVE TeardownAlone'
  BY <1>0, <1>1, <1>3, <1>4 DEF Register, SetState, Want, workVars, clockVars, callVars,
     TeardownAlone
<1>5. ASSUME NEW c \in Clients, TimerFire(c) PROVE TeardownAlone'
  BY <1>0, <1>1, <1>3, <1>5 DEF TimerFire, clientVars, clockVars, callVars,
     TeardownAlone
<1>6. ASSUME NEW t \in Threads, NEW c \in Clients, ActivateInProgress(t, c) PROVE TeardownAlone'
  BY <1>0, <1>1, <1>3, <1>6, <1>2 DEF ActivateInProgress, MayCall, Idle, InProgress,
     SetState, Want, Stay, workVars, clockVars, callVars, TeardownAlone, ThreadStages,
     ThreadStage, TeardownCalls
<1>7. ASSUME NEW t \in Threads, NEW c \in Clients, ActivateActive(t, c) PROVE TeardownAlone'
  BY <1>0, <1>1, <1>3, <1>7, <1>2 DEF ActivateActive, MayCall, Idle, KeepActive, Active,
     SetState, Want, Stay, workVars, clockVars, callVars, TeardownAlone, ThreadStages,
     ThreadStage, TeardownCalls
<1>8. ASSUME NEW t \in Threads, NEW c \in Clients, ActivateNow(t, c) PROVE TeardownAlone'
  BY <1>0, <1>1, <1>3, <1>8, <1>2 DEF ActivateNow, MayCall, Idle, SetState, Want, Enter,
     Goto, StayAwake, Vote, workVars, TeardownAlone, ThreadStages, ThreadStage,
     TeardownCalls
<1>9. ASSUME NEW t \in Threads, NEW c \in Clients, ActivateLater(t, c) PROVE TeardownAlone'
  BY <1>0, <1>1, <1>3, <1>9, <1>2 DEF ActivateLater, MayCall, Idle, SetState, Want,
     Stay, clockVars, callVars, TeardownAlone, ThreadStages, ThreadStage, TeardownCalls
<1>10. ASSUME NEW t \in Threads, NEW c \in Clients, ActivateSync(t, c) PROVE TeardownAlone'
  BY <1>0, <1>1, <1>3, <1>10, <1>2 DEF ActivateSync, MayCall, Idle, InProgress,
     SyncSwitch, KeepActive, Active, SetState, Want, Enter, Return, Goto, StayAwake,
     workVars, clockVars, callVars, TeardownAlone, ThreadStages, ThreadStage,
     TeardownCalls
<1>11. ASSUME NEW t \in Threads, NEW c \in Clients, ActivateSyncWaits(t, c) PROVE TeardownAlone'
  BY <1>0, <1>1, <1>3, <1>11, <1>2 DEF ActivateSyncWaits, MayCall, Idle, InProgress,
     Enter, Goto, clientVars, workVars, clockVars, TeardownAlone, ThreadStages,
     ThreadStage, TeardownCalls
<1>12. ASSUME NEW t \in Threads, NEW c \in Clients, DeferredDeactivate(t, c) PROVE TeardownAlone'
  BY <1>0, <1>1, <1>3, <1>12, <1>2 DEF DeferredDeactivate, MayCall, Idle, SetState,
     ArmTimer, Want, Stay, clockVars, callVars, TeardownAlone, ThreadStages,
     ThreadStage, TeardownCalls
<1>13. ASSUME NEW t \in Threads, NEW c \in Clients, DeactivateSync(t, c) PROVE TeardownAlone'
  BY <1>0, <1>1, <1>3, <1>13, <1>2 DEF DeactivateSync, MayCall, Idle, Enter, Goto,
     clientVars, workVars, clockVars, TeardownAlone, ThreadStages, ThreadStage,
     TeardownCalls
<1>14. ASSUME NEW t \in Threads, NEW c \in Clients, Deregister(t, c) PROVE TeardownAlone'
  BY <1>0, <1>1, <1>3, <1>14, <1>2 DEF Deregister, MayCall, Idle, Enter, Goto,
     clientVars, workVars, clockVars, TeardownAlone, ThreadStages,
     ThreadStage, TeardownCalls
<1>15. ASSUME NEW t \in Threads, DeactivateAll(t) PROVE TeardownAlone'
  BY <1>0, <1>1, <1>3, <1>15, <1>2 DEF DeactivateAll, Idle, Goto, clientVars, workVars,
     clockVars, TeardownAlone, ThreadStages, ThreadStage, TeardownCalls
<1>16. ASSUME NEW t \in Threads, Woken(t) PROVE TeardownAlone'
  BY <1>0, <1>1, <1>3, <1>16 DEF Woken, Goto, clientVars, workVars, clockVars, callVars,
     TeardownAlone
<1>17. ASSUME NEW t \in Threads, ActivateSyncWoken(t) PROVE TeardownAlone'
  BY <1>0, <1>1, <1>3, <1>17 DEF ActivateSyncWoken, InProgress, SyncSwitch, KeepActive,
     Active, SetState, Want, Enter, Return, Goto, StayAwake, workVars, clockVars,
     TeardownAlone, TeardownCalls
<1>18. ASSUME NEW t \in Threads, SyncVote(t) PROVE TeardownAlone'
  BY <1>0, <1>1, <1>3, <1>18 DEF SyncVote, Vote, Goto, clientVars, workVars, callVars,
     TeardownAlone
<1>19. ASSUME NEW t \in Threads, SyncGot(t) PROVE TeardownAlone'
  BY <1>0, <1>1, <1>3, <1>19 DEF SyncGot, SetState, StayAwake, Want, Goto, workVars,
     clockVars, callVars, TeardownAlone
<1>20. ASSUME NEW t \in Threads, Cancel(t) PROVE TeardownAlone'
  BY <1>0, <1>1, <1>3, <1>20 DEF Cancel, Goto, clientVars, clockVars, callVars,
     TeardownAlone
<1>21. ASSUME NEW t \in Threads, Flush(t) PROVE TeardownAlone'
  BY <1>0, <1>1, <1>3, <1>21 DEF Flush, Goto, clientVars, clockVars, callVars,
     TeardownAlone
<1>22. ASSUME NEW t \in Threads, Look(t) PROVE TeardownAlone'
  BY <1>0, <1>1, <1>3, <1>22 DEF Look, Goto, InProgress, clientVars, workVars,
     clockVars, callVars, TeardownAlone
<1>23. ASSUME NEW t \in Threads, DeactivateSyncWoken(t) PROVE TeardownAlone'
  BY <1>0, <1>1, <1>3, <1>23 DEF DeactivateSyncWoken, Return, Want, Goto, clientVars,
     workVars, clockVars, callVars, TeardownAlone
<1>24. ASSUME NEW t \in Threads, SyncOff(t) PROVE TeardownAlone'
  BY <1>0, <1>1, <1>3, <1>24 DEF SyncOff, SetState, Want, Goto, workVars, clockVars,
     callVars, TeardownAlone
<1>25. ASSUME NEW t \in Threads, NextClient(t) PROVE TeardownAlone'
  BY <1>0, <1>1, <1>3, <1>25, <1>2 DEF NextClient, Goto, Return, clientVars, workVars,
     clockVars, TeardownAlone, ThreadStages, ThreadStage, TeardownCalls
<1>26. ASSUME NEW t \in Threads, AllWoken(t) PROVE TeardownAlone'
  BY <1>0, <1>1, <1>3, <1>26, <1>2 DEF AllWoken, SetState, Goto, workVars, clockVars,
     TeardownAlone, ThreadStages, ThreadStage, TeardownCalls
<1>27. ASSUME NEW t \in Threads, DeregisterDecides(t) PROVE TeardownAlone'
  BY <1>0, <1>1, <1>3, <1>27 DEF DeregisterDecides, Active, InProgress, Return, Goto, clientVars,
     workVars, clockVars, callVars, TeardownAlone
<1>28. ASSUME NEW t \in Threads, Free(t) PROVE TeardownAlone'
  BY <1>0, <1>1, <1>3, <1>28 DEF Free, Return, Goto, workVars, clockVars, TeardownAlone
<1>29. ASSUME NEW a \in Actors, SetBit(a) PROVE TeardownAlone'
  BY <1>0, <1>1, <1>3, <1>29 DEF SetBit, Return, Goto, clientVars, callVars,
     TeardownAlone
<1>30. ASSUME NEW a \in Actors, Devote(a) PROVE TeardownAlone'
  BY <1>0, <1>1, <1>3, <1>30 DEF Devote, Unvote, Return, Goto, workVars, callVars,
     TeardownAlone
<1>31. ASSUME NEW a \in Actors, ClearBit(a) PROVE TeardownAlone'
  BY <1>0, <1>1, <1>3, <1>31 DEF ClearBit, Goto, clientVars, workVars, callVars,
     TeardownAlone
<1>32. ASSUME NEW a \in Actors, ScaleSample(a) PROVE TeardownAlone'
  BY <1>0, <1>1, <1>3, <1>32 DEF ScaleSample, Return, Goto, clientVars, workVars,
     callVars, TeardownAlone
<1>33. ASSUME NEW a \in Actors, ScaleApply(a) PROVE TeardownAlone'
  BY <1>0, <1>1, <1>3, <1>33 DEF ScaleApply, Return, Goto, clientVars, workVars,
     TeardownAlone
<1>34. ASSUME WorkStart PROVE TeardownAlone'
  BY <1>0, <1>1, <1>3, <1>34 DEF WorkStart, Idle, Enter, Goto, clientVars, clockVars,
     TeardownAlone
<1>35. ASSUME ActivateWorkVotes PROVE TeardownAlone'
  BY <1>0, <1>1, <1>3, <1>35 DEF ActivateWorkVotes, Vote, StayAwake, Goto, workVars,
     callVars, TeardownAlone
<1>36. ASSUME ActivateWorkLocked PROVE TeardownAlone'
  BY <1>0, <1>1, <1>3, <1>36 DEF ActivateWorkLocked, SetState, Goto, workVars,
     clockVars, callVars, TeardownAlone
<1>37. ASSUME Complete PROVE TeardownAlone'
  BY <1>0, <1>1, <1>3, <1>37 DEF Complete, Goto, workVars, clockVars, callVars,
     TeardownAlone
<1>38. ASSUME DeactivateWorkLocked PROVE TeardownAlone'
  BY <1>0, <1>1, <1>3, <1>38 DEF DeactivateWorkLocked, SetState, ArmTimer, Return, Goto,
     clockVars, callVars, TeardownAlone
<1> QED
  BY <1>4, <1>5, <1>6, <1>7, <1>8, <1>9, <1>10, <1>11, <1>12, <1>13, <1>14, <1>15,
     <1>16, <1>17, <1>18, <1>19, <1>20, <1>21, <1>22, <1>23, <1>24, <1>25, <1>26, <1>27,
     <1>28, <1>29, <1>30, <1>31, <1>32, <1>33, <1>34, <1>35, <1>36, <1>37, <1>38 DEF
     Next, Request, Progress, Work, Actors

-----------------------------------------------------------------------------
(* The work queue                                                          *)
\* Every step keeps a work on the queue at most once.
LEMMA NextQueue ==
  ASSUME IInv, Next PROVE wq' \in Seq(Works) /\ QueueDistinct'
<1> DEFINE Good == wq \in Seq(Works) /\ QueueDistinct
<1>0. /\ pc \in [Actors -> PCs]
      /\ client \in [Actors -> Clients \cup {NoClient}]
      /\ call \in [Actors -> CallNames \cup {"none", "deactivate", "scale"}]
      /\ state \in [Clients -> TimerFreeStates \cup TimerSetStates]
      /\ Worker \notin Threads /\ Actors = Threads \cup {Worker}
  BY ActorAssumption DEF IInv, TypeOK, Actors
<1>1. /\ wq \in Seq(Works) /\ QueueDistinct /\ Distinct /\ TypeOK
      /\ WorkerStages /\ ThreadStages
      /\ timer \subseteq Clients
  BY DEF IInv, TypeOK, QueueDistinct, Distinct
<1>2. ASSUME NEW c \in Clients, TimerFire(c) PROVE Good'
  <2>1. <<"deactivate", c>> \in Works
    BY DEF Works
  <2>2. /\ wq' \in Seq(Works) /\ Distinct'
        /\ \A v : Queued(v)' <=> Queued(v) \/ v = <<"deactivate", c>>
    BY <1>1, <1>2, <2>1, QueueWorkAdds DEF TimerFire
  <2>3. UNCHANGED <<pc, client, call>>
    BY <1>2 DEF TimerFire, callVars
  <2> QED
    BY <1>1, <2>2, <2>3 DEF QueueDistinct, Distinct
<1>3. ASSUME NEW t \in Threads, NEW c \in Clients, ActivateLater(t, c) PROVE Good'
  <2>1. <<"activate", c>> \in Works /\ "activate" \in Calls
    BY <1>3 DEF Works, ActivateLater, MayCall
  <2>2. wq' \in Seq(Works) /\ Distinct'
    BY <1>1, <1>3, <2>1, QueueWorkAdds DEF ActivateLater
  <2> QED
    BY <2>1, <2>2 DEF QueueDistinct, Distinct
<1>4. ASSUME NEW a \in Actors, SetBit(a), QueueWork(<<"scale", NoClient>>),
             call' = [call EXCEPT ![a] = "none"]
      PROVE  Good'
  <2>1. <<"scale", NoClient>> \in Works
    BY DEF Works
  <2>2. /\ wq' \in Seq(Works) /\ Distinct'
        /\ \A v : Queued(v)' <=> Queued(v) \/ v = <<"scale", NoClient>>
    BY <1>1, <1>4, <2>1, QueueWorkAdds
  <2> QED
    BY <1>0, <1>1, <1>4, <2>2 DEF QueueDistinct, Distinct
<1>5. ASSUME NEW t \in Threads, Cancel(t) PROVE Good'
  <2>1. client[t] \in Clients
    BY <1>1, <1>5 DEF Cancel, ThreadStages, ThreadStage
  <2>2. <<"deactivate", client[t]>> \in Works
    BY <2>1 DEF Works
  <2>3. /\ wq' \in Seq(Works) /\ Distinct'
        /\ \A v : Queued(v)' <=> Queued(v) /\ v # <<"deactivate", client[t]>>
    BY <1>1, <1>5, <2>2, UnqueueRemoves DEF Cancel
  <2> QED
    BY <1>0, <1>1, <1>5, <2>3 DEF QueueDistinct, Distinct, Cancel, callVars
<1>6. ASSUME WorkStart PROVE Good'
  <2>1. /\ wq' \in Seq(Works) /\ Distinct' /\ Head(wq) \in Works /\ Queued(Head(wq))
        /\ \A v : Queued(v)' <=> Queued(v) /\ v # Head(wq)
    BY <1>1, <1>6, TailRemoves DEF WorkStart
  <2>2. call'[Worker] = "activate" => \E c \in Clients : Head(wq) = <<"activate", c>>
    BY <1>0, <1>6, <2>1 DEF WorkStart, Enter, Works
  <2> QED
    BY <1>1, <2>1, <2>2 DEF QueueDistinct, Distinct
<1>7. CASE wq' = wq /\ (call'[Worker] = call[Worker] \/ call'[Worker] # "activate")
  <2>1. Distinct' /\ \A v : Queued(v)' <=> Queued(v)
    BY <1>1, <1>7, SameQueue
  <2> QED
    BY <1>1, <1>7, <2>1 DEF QueueDistinct, Distinct
<1>8. ASSUME NEW c \in Clients, Register(c) PROVE Good'
  BY <1>7, <1>8 DEF Register, workVars, callVars
<1>9. ASSUME NEW t \in Threads, Request(t), ~\E c \in Clients : ActivateLater(t, c) PROVE Good'
  <2>1. wq' = wq
    BY <1>9 DEF Request, ActivateInProgress, ActivateActive, ActivateNow, ActivateSync,
       ActivateSyncWaits, DeferredDeactivate, DeactivateSync, Deregister, DeactivateAll, workVars
  <2> QED
    BY <1>1, <1>7, <1>9, <2>1, WorkerStays
<1>10. ASSUME NEW t \in Threads, Progress(t), ~Cancel(t), ~SetBit(t) PROVE Good'
  <2>1. wq' = wq
    BY <1>10 DEF Progress, Woken, ActivateSyncWoken, SyncVote, SyncGot, Flush, Look,
       DeactivateSyncWoken, SyncOff, Devote, ClearBit, NextClient, AllWoken,
       DeregisterDecides, Free, ScaleSample, ScaleApply, workVars
  <2> QED
    BY <1>1, <1>7, <1>10, <2>1, WorkerStays
<1>11. ASSUME NEW a \in Actors, SetBit(a) PROVE Good'
  <2>1. CASE a # Worker /\ call[a] = "activate"
    BY <1>4, <1>11, <2>1 DEF SetBit, Return
  <2>2. CASE ~(a # Worker /\ call[a] = "activate")
    BY <1>7, <1>11, <2>2 DEF SetBit, callVars
  <2> QED
    BY <2>1, <2>2
<1>12. CASE ActivateWorkVotes \/ ActivateWorkLocked \/ Complete
  BY <1>7, <1>12 DEF ActivateWorkVotes, ActivateWorkLocked, Complete, workVars, callVars
<1>13. CASE DeactivateWorkLocked
  BY <1>0, <1>7, <1>13 DEF DeactivateWorkLocked, Return, callVars
<1>14. CASE Devote(Worker) \/ ClearBit(Worker) \/ ScaleSample(Worker) \/ ScaleApply(Worker)
  BY <1>0, <1>7, <1>14 DEF Devote, ClearBit, ScaleSample, ScaleApply, Return, workVars, callVars
<1>15. ASSUME NEW t \in Threads, Request(t) \/ Progress(t) PROVE Good'
  BY <1>3, <1>5, <1>9, <1>10, <1>11, <1>15 DEF Actors
<1>16. ASSUME Work PROVE Good'
  BY <1>6, <1>11, <1>12, <1>13, <1>14, <1>16 DEF Work, Actors
<1> QED
  BY <1>2, <1>8, <1>15, <1>16 DEF Next

\* What each step that touches the queue does to it.
LEMMA QueueEffects ==
  ASSUME IInv
  PROVE  /\ \A c \in Clients : TimerFire(c) =>
              \A v : Queued(v)' <=> Queued(v) \/ v = <<"deactivate", c>>
         /\ \A t \in Threads, c \in Clients : ActivateLater(t, c) =>
              \A v : Queued(v)' <=> Queued(v) \/ v = <<"activate", c>>
         /\ \A a \in Actors : SetBit(a) =>
              \A c : /\ Queued(<<"activate", c>>)' <=> Queued(<<"activate", c>>)
                     /\ Queued(<<"deactivate", c>>)' <=> Queued(<<"deactivate", c>>)
         /\ \A t \in Threads : Cancel(t) =>
              /\ client[t] \in Clients
              /\ \A v : Queued(v)' <=> Queued(v) /\ v # <<"deactivate", client[t]>>
         /\ WorkStart =>
              /\ Head(wq) \in Works /\ Queued(Head(wq))
              /\ \A v : Queued(v)' <=> Queued(v) /\ v # Head(wq)
<1>1. wq \in Seq(Works) /\ Distinct /\ ThreadStages
  BY DEF IInv, TypeOK, QueueDistinct, Distinct
<1>2. \A c \in Clients : <<"deactivate", c>> \in Works /\ <<"activate", c>> \in Works
  BY DEF Works
<1>3. <<"scale", NoClient>> \in Works
  BY DEF Works
<1>4. ASSUME NEW c \in Clients, TimerFire(c)
      PROVE  \A v : Queued(v)' <=> Queued(v) \/ v = <<"deactivate", c>>
  BY <1>1, <1>2, <1>4, QueueWorkAdds DEF TimerFire
<1>5. ASSUME NEW t \in Threads, NEW c \in Clients, ActivateLater(t, c)
      PROVE  \A v : Queued(v)' <=> Queued(v) \/ v = <<"activate", c>>
  BY <1>1, <1>2, <1>5, QueueWorkAdds DEF ActivateLater
<1>6. ASSUME NEW a \in Actors, SetBit(a), NEW c
      PROVE  /\ Queued(<<"activate", c>>)' <=> Queued(<<"activate", c>>)
             /\ Queued(<<"deactivate", c>>)' <=> Queued(<<"deactivate", c>>)
  <2>1. CASE QueueWork(<<"scale", NoClient>>)
    BY <1>1, <1>3, <2>1, QueueWorkAdds
  <2>2. CASE UNCHANGED wq
    BY <2>2, SameQueue
  <2> QED
    BY <1>6, <2>1, <2>2 DEF SetBit
<1>7. ASSUME NEW t \in Threads, Cancel(t)
      PROVE  /\ client[t] \in Clients
             /\ \A v : Queued(v)' <=> Queued(v) /\ v # <<"deactivate", client[t]>>
  <2>1. client[t] \in Clients
    BY <1>1, <1>7 DEF Cancel, ThreadStages, ThreadStage
  <2> QED
    BY <1>1, <1>2, <1>7, <2>1, UnqueueRemoves DEF Cancel
<1>8. ASSUME WorkStart
      PROVE  /\ Head(wq) \in Works /\ Queued(Head(wq))
             /\ \A v : Queued(v)' <=> Queued(v) /\ v # Head(wq)
  BY <1>1, <1>8, TailRemoves DEF WorkStart
<1> QED
  BY <1>4, <1>5, <1>6, <1>7, <1>8

-----------------------------------------------------------------------------
(* Activations in progress                                                 *)

\* t begins a synchronous activation of c.
Begins(t, c) ==
  /\ state[c] = "DEACTIVATED" /\ SetState(c, "ACTIVATE_IN_PROGRESS")
  /\ Enter(t, c, "activate_sync", "inc")

\* Every step leaves an activation in progress with exactly one finisher.
LEMMA NextOneFinisher ==
  ASSUME IInv, Next PROVE OneFinisher'
<1>0. /\ pc \in [Actors -> PCs]
      /\ client \in [Actors -> Clients \cup {NoClient}]
      /\ call \in [Actors -> CallNames \cup {"none", "deactivate", "scale"}]
      /\ state \in [Clients -> TimerFreeStates \cup TimerSetStates]
      /\ Worker \notin Threads /\ Actors = Threads \cup {Worker}
  BY ActorAssumption DEF IInv, TypeOK, Actors
<1>1. OneFinisher /\ ThreadStages /\ WorkerStages
  BY DEF IInv
<1>2. ASSUME NEW c \in Clients,
             Finishers(c)' = Finishers(c),
             Queued(<<"activate", c>>)' <=> Queued(<<"activate", c>>),
             InProgress(c)' <=> InProgress(c)
      PROVE  FinishedOnce(c)'
  <2>1. FinishedOnce(c)
    BY <1>1 DEF OneFinisher
  <2>2. (\A a, b \in Finishers(c) : a = b)'
    BY <1>2, <2>1 DEF FinishedOnce
  <2>3. (Finishers(c) = {})' <=> Finishers(c) = {}
    BY <1>2
  <2> QED
    BY <1>2, <2>1, <2>2, <2>3 DEF FinishedOnce
<1>3. ASSUME NEW a \in Actors, Moves(a),
             pc[a] \notin {"inc", "got", "work", "worklocked"},
             pc'[a] \notin {"inc", "got", "work", "worklocked"},
             \A c \in Clients : Queued(<<"activate", c>>)' <=> Queued(<<"activate", c>>),
             \A c \in Clients : InProgress(c)' <=> InProgress(c)
      PROVE  OneFinisher'
  <2>1. \A c \in Clients : Finishers(c)' = Finishers(c)
    BY <1>3 DEF Finishers, Moves
  <2> QED
    BY <1>2, <1>3, <2>1 DEF OneFinisher
<1>4. ASSUME NEW t \in Threads, NEW c \in Clients, Begins(t, c), pc[t] \in {"idle", "woken"},
             \A v : Queued(v)' <=> Queued(v)
      PROVE  OneFinisher'
  <2>1. /\ pc'[t] = "inc" /\ client'[t] = c /\ Moves(t)
        /\ \A d \in Clients : d # c => (InProgress(d)' <=> InProgress(d))
        /\ ~InProgress(c) /\ InProgress(c)'
    BY <1>0, <1>4 DEF Begins, SetState, Enter, Goto, Moves, InProgress
  <2>2. Finishers(c) = {} /\ ~Queued(<<"activate", c>>)
    BY <1>1, <2>1 DEF OneFinisher, FinishedOnce
  <2>3. Finishers(c)' = {t}
    BY <1>0, <2>1, <2>2 DEF Finishers, Moves
  <2>4. FinishedOnce(c)'
    BY <1>4, <2>1, <2>2, <2>3 DEF FinishedOnce
  <2>5. \A d \in Clients \ {c} : Finishers(d)' = Finishers(d)
    BY <1>0, <1>4, <2>1 DEF Finishers, Moves
  <2>6. \A d \in Clients \ {c} : FinishedOnce(d)'
    BY <1>2, <1>4, <2>1, <2>5
  <2> QED
    BY <2>4, <2>6 DEF OneFinisher
<1>5. ASSUME NEW a \in Actors, NEW c \in Clients, a \in Finishers(c), Moves(a),
             client' = client, pc'[a] \notin {"inc", "got", "work", "worklocked"},
             \A v : Queued(v)' <=> Queued(v),
             \A d \in Clients \ {c} : state'[d] = state[d],
             ~InProgress(c)'
      PROVE  OneFinisher'
  <2>1. Finishers(c) = {a} /\ ~Queued(<<"activate", c>>)
    BY <1>1, <1>5 DEF OneFinisher, FinishedOnce
  <2>2. Finishers(c)' = {}
    BY <1>5, <2>1 DEF Finishers, Moves
  <2>3. FinishedOnce(c)'
    BY <1>5, <2>1, <2>2 DEF FinishedOnce
  <2>4. \A d \in Clients \ {c} : Finishers(d)' = Finishers(d)
    BY <1>5 DEF Finishers, Moves
  <2>5. \A d \in Clients \ {c} : InProgress(d)' <=> InProgress(d)
    BY <1>5 DEF InProgress
  <2>6. \A d \in Clients \ {c} : FinishedOnce(d)'
    BY <1>2, <1>5, <2>4, <2>5
  <2> QED
    BY <2>3, <2>6 DEF OneFinisher
<1>6. ASSUME NEW c \in Clients, Register(c) PROVE OneFinisher'
  BY <1>0, <1>6, <1>2, SameQueue DEF Register, SetState, Want, workVars, clockVars,
     callVars, InProgress, Finishers, OneFinisher, IInv, Unregistered
<1>7. ASSUME NEW c \in Clients, TimerFire(c) PROVE OneFinisher'
  BY <1>0, <1>7, <1>2, QueueEffects DEF TimerFire, clientVars, clockVars, callVars,
     InProgress, Finishers, OneFinisher
<1>8. ASSUME NEW t \in Threads, NEW c \in Clients, ActivateInProgress(t, c) PROVE OneFinisher'
  BY <1>0, <1>8, <1>2, SameQueue DEF ActivateInProgress, MayCall, Idle, InProgress,
     SetState, Want, Stay, workVars, clockVars, callVars, Finishers, OneFinisher,
     TimerSetStates, TimerFreeStates
<1>9. ASSUME NEW t \in Threads, NEW c \in Clients, ActivateActive(t, c) PROVE OneFinisher'
  BY <1>0, <1>9, <1>2, SameQueue DEF ActivateActive, MayCall, Idle, KeepActive, Active,
     SetState, Want, Stay, workVars, clockVars, callVars, InProgress, Finishers,
     OneFinisher, TimerSetStates, TimerFreeStates
<1>10. ASSUME NEW t \in Threads, NEW c \in Clients, ActivateNow(t, c) PROVE OneFinisher'
  BY <1>0, <1>10, <1>2, SameQueue DEF ActivateNow, MayCall, Idle, SetState, Want, Enter,
     Goto, StayAwake, Vote, workVars, InProgress, Finishers, OneFinisher,
     TimerSetStates, TimerFreeStates
<1>11. ASSUME NEW t \in Threads, NEW c \in Clients, ActivateLater(t, c) PROVE OneFinisher'
  <2>1. \A d \in Clients : Queued(<<"activate", d>>)' <=> Queued(<<"activate", d>>) \/ d = c
    BY <1>11, QueueEffects
  <2>2. \A d \in Clients : Finishers(d)' = Finishers(d)
    BY <1>11 DEF ActivateLater, Stay, Finishers
  <2>3. /\ \A d \in Clients : d # c => (InProgress(d)' <=> InProgress(d))
        /\ ~InProgress(c) /\ InProgress(c)'
    BY <1>0, <1>11 DEF ActivateLater, SetState, InProgress
  <2>4. FinishedOnce(c)'
    <3>1. Finishers(c) = {}
      BY <1>1, <2>3 DEF OneFinisher, FinishedOnce
    <3>2. Finishers(c)' = {}
      BY <2>2, <3>1
    <3> QED
      BY <2>1, <2>3, <3>2 DEF FinishedOnce
  <2>5. \A d \in Clients \ {c} : FinishedOnce(d)'
    BY <1>2, <2>1, <2>2, <2>3
  <2> QED
    BY <2>4, <2>5 DEF OneFinisher
<1>12. ASSUME NEW t \in Threads, NEW c \in Clients, ActivateSync(t, c) PROVE OneFinisher'
  <2>1. CASE Begins(t, c)
    BY <1>4, <1>12, <2>1, SameQueue DEF ActivateSync, MayCall, Idle, workVars
  <2>2. CASE ~Begins(t, c)
    BY <1>0, <1>3, <1>12, <2>2, SameQueue DEF Moves, Begins, ActivateSync, MayCall, Idle, InProgress, SyncSwitch,
       KeepActive, Active, SetState, Enter, Return, Goto, workVars, TimerSetStates
  <2> QED
    BY <2>1, <2>2
<1>13. ASSUME NEW t \in Threads, NEW c \in Clients, ActivateSyncWaits(t, c) PROVE OneFinisher'
  BY <1>0, <1>13, <1>2, SameQueue DEF ActivateSyncWaits, MayCall, Idle, InProgress,
     Enter, Goto, clientVars, workVars, clockVars, Finishers, OneFinisher,
     TimerSetStates, TimerFreeStates
<1>14. ASSUME NEW t \in Threads, NEW c \in Clients, DeferredDeactivate(t, c) PROVE OneFinisher'
  BY <1>0, <1>14, <1>2, SameQueue DEF DeferredDeactivate, MayCall, Idle, SetState,
     ArmTimer, Want, Stay, clockVars, callVars, InProgress, Finishers, OneFinisher,
     TimerSetStates, TimerFreeStates
<1>15. ASSUME NEW t \in Threads, NEW c \in Clients, DeactivateSync(t, c) PROVE OneFinisher'
  BY <1>0, <1>15, <1>2, SameQueue DEF DeactivateSync, MayCall, Idle, Enter, Goto,
     clientVars, workVars, clockVars, InProgress, Finishers, OneFinisher,
     TimerSetStates, TimerFreeStates
<1>16. ASSUME NEW t \in Threads, NEW c \in Clients, Deregister(t, c) PROVE OneFinisher'
  BY <1>0, <1>16, <1>2, SameQueue DEF Deregister, MayCall, Idle, Enter, Goto,
     clientVars, workVars, clockVars, InProgress, Finishers, OneFinisher,
     TimerSetStates, TimerFreeStates
<1>17. ASSUME NEW t \in Threads, DeactivateAll(t) PROVE OneFinisher'
  BY <1>0, <1>17, <1>2, SameQueue DEF DeactivateAll, Idle, Goto, clientVars, workVars,
     clockVars, InProgress, Finishers, OneFinisher, TimerSetStates, TimerFreeStates
<1>18. ASSUME NEW t \in Threads, Woken(t) PROVE OneFinisher'
  BY <1>0, <1>18, <1>2, SameQueue DEF Woken, Goto, clientVars, workVars, clockVars,
     callVars, InProgress, Finishers, OneFinisher, TimerSetStates, TimerFreeStates
<1>19. ASSUME NEW t \in Threads, ActivateSyncWoken(t) PROVE OneFinisher'
  <2>1. client[t] \in Clients
    BY <1>1, <1>19 DEF ActivateSyncWoken, ThreadStages, ThreadStage
  <2>2. CASE Begins(t, client[t])
    BY <1>4, <1>19, <2>1, <2>2, SameQueue DEF ActivateSyncWoken, workVars
  <2>3. CASE ~Begins(t, client[t])
    BY <1>0, <1>3, <1>19, <2>1, <2>3, SameQueue DEF Moves, Begins, ActivateSyncWoken, InProgress, SyncSwitch,
       KeepActive, Active, SetState, Enter, Return, Goto, workVars, TimerSetStates
  <2> QED
    BY <2>2, <2>3
<1>20. ASSUME NEW t \in Threads, SyncVote(t) PROVE OneFinisher'
  BY <1>0, <1>20, <1>2, SameQueue DEF SyncVote, Vote, Goto, clientVars, workVars,
     callVars, InProgress, Finishers, OneFinisher, TimerSetStates, TimerFreeStates
<1>21. ASSUME NEW t \in Threads, SyncGot(t) PROVE OneFinisher'
  <2>1. client[t] \in Clients /\ t \in Finishers(client[t])
    BY <1>0, <1>1, <1>21 DEF SyncGot, ThreadStages, ThreadStage, Finishers
  <2>2. /\ pc'[t] = "setbit" /\ Moves(t) /\ UNCHANGED <<client, wq>>
        /\ state' = [state EXCEPT ![client[t]] = "ACTIVATED"]
    BY <1>0, <1>21 DEF SyncGot, Goto, SetState, Moves, workVars, callVars
  <2> QED
    BY <1>0, <1>5, <2>1, <2>2, SameQueue DEF InProgress
<1>22. ASSUME NEW t \in Threads, Cancel(t) PROVE OneFinisher'
  BY <1>0, <1>22, <1>2, QueueEffects DEF Cancel, Goto, clientVars, clockVars, callVars,
     InProgress, Finishers, OneFinisher
<1>23. ASSUME NEW t \in Threads, Flush(t) PROVE OneFinisher'
  BY <1>0, <1>23, <1>2, SameQueue DEF Flush, Goto, clientVars, clockVars, callVars,
     InProgress, Finishers, OneFinisher, TimerSetStates, TimerFreeStates
<1>24. ASSUME NEW t \in Threads, Look(t) PROVE OneFinisher'
  BY <1>0, <1>24, <1>2, SameQueue DEF Look, Goto, InProgress, clientVars, workVars,
     clockVars, callVars, Finishers, OneFinisher, TimerSetStates, TimerFreeStates
<1>25. ASSUME NEW t \in Threads, DeactivateSyncWoken(t) PROVE OneFinisher'
  BY <1>0, <1>25, <1>3, SameQueue DEF DeactivateSyncWoken, Return, Want, Goto,
     clientVars, workVars, clockVars, callVars, InProgress, Moves, TimerSetStates
<1>26. ASSUME NEW t \in Threads, SyncOff(t) PROVE OneFinisher'
  BY <1>0, <1>26, <1>1, <1>3, SameQueue DEF SyncOff, SetState, Want, Goto, workVars,
     clockVars, callVars, InProgress, Moves, IInv, SyncTeardown, Active, ThreadStages,
     ThreadStage, TimerSetStates
<1>27. ASSUME NEW t \in Threads, NextClient(t) PROVE OneFinisher'
  BY <1>0, <1>27, <1>3, SameQueue DEF NextClient, Goto, Return, clientVars, workVars,
     clockVars, InProgress, Moves, TimerSetStates
<1>28. ASSUME NEW t \in Threads, AllWoken(t) PROVE OneFinisher'
  BY <1>0, <1>28, <1>3, SameQueue DEF AllWoken, SetState, Goto, workVars, clockVars,
     InProgress, Moves, TimerSetStates
<1>29. ASSUME NEW t \in Threads, DeregisterDecides(t) PROVE OneFinisher'
  BY <1>0, <1>29, <1>3, SameQueue DEF DeregisterDecides, Active, InProgress, Return, Goto,
     clientVars, workVars, clockVars, callVars, Moves, TimerSetStates
<1>30. ASSUME NEW t \in Threads, Free(t) PROVE OneFinisher'
  BY <1>0, <1>30, <1>3, SameQueue DEF Free, Return, Goto, workVars, clockVars,
     InProgress, Moves, TimerSetStates
<1>31. ASSUME NEW a \in Actors, SetBit(a) PROVE OneFinisher'
  <2>1. /\ \A c \in Clients : Queued(<<"activate", c>>)' <=> Queued(<<"activate", c>>)
        /\ UNCHANGED state /\ pc[a] = "setbit" /\ pc'[a] \in {"idle", "scale"}
    BY <1>0, <1>31, QueueEffects DEF SetBit, Return, Goto, clientVars
  <2>2. Moves(a)
    BY <1>0, <1>31 DEF SetBit, Return, Goto, callVars, Moves
  <2> QED
    BY <1>3, <2>1, <2>2 DEF InProgress
<1>32. ASSUME NEW a \in Actors, Devote(a) PROVE OneFinisher'
  BY <1>0, <1>32, <1>3, SameQueue DEF Devote, Unvote, Return, Goto, workVars, callVars,
     InProgress, Moves, TimerSetStates
<1>33. ASSUME NEW a \in Actors, ClearBit(a) PROVE OneFinisher'
  BY <1>0, <1>33, <1>2, SameQueue DEF ClearBit, Goto, clientVars, workVars, callVars,
     InProgress, Finishers, OneFinisher, TimerSetStates, TimerFreeStates
<1>34. ASSUME NEW a \in Actors, ScaleSample(a) PROVE OneFinisher'
  BY <1>0, <1>34, <1>3, SameQueue DEF ScaleSample, Return, Goto, clientVars, workVars,
     callVars, InProgress, Moves, TimerSetStates
<1>35. ASSUME NEW a \in Actors, ScaleApply(a) PROVE OneFinisher'
  BY <1>0, <1>35, <1>3, SameQueue DEF ScaleApply, Return, Goto, clientVars, workVars,
     InProgress, Moves, TimerSetStates
<1>36. ASSUME WorkStart PROVE OneFinisher'
  <2>1. /\ Head(wq) \in Works /\ Queued(Head(wq))
        /\ \A v : Queued(v)' <=> Queued(v) /\ v # Head(wq)
    BY <1>36, QueueEffects
  <2>2. /\ \A d \in Clients : InProgress(d)' <=> InProgress(d)
        /\ pc[Worker] = "idle" /\ Moves(Worker)
    BY <1>36, WorkerMoves DEF WorkStart, clientVars, Idle, Work, IInv, InProgress
  <2>3. ASSUME NEW c \in Clients, Head(wq) = <<"activate", c>> PROVE OneFinisher'
    <3>1. pc'[Worker] = "work" /\ client'[Worker] = c
      BY <1>0, <1>36, <2>3 DEF WorkStart, Enter, Goto
    <3>2. Finishers(c) = {} /\ InProgress(c)
      BY <1>1, <2>1, <2>3 DEF OneFinisher, FinishedOnce
    <3>3. Finishers(c)' = {Worker}
      BY <1>0, <2>2, <3>1, <3>2 DEF Finishers, Moves
    <3>4. FinishedOnce(c)'
      BY <2>1, <2>2, <2>3, <3>2, <3>3 DEF FinishedOnce
    <3>5. \A d \in Clients \ {c} : Finishers(d)' = Finishers(d)
      BY <1>0, <2>2, <3>1 DEF Finishers, Moves
    <3>6. \A d \in Clients \ {c} : FinishedOnce(d)'
      <4> SUFFICES ASSUME NEW d \in Clients \ {c} PROVE FinishedOnce(d)'
        OBVIOUS
      <4>1. Queued(<<"activate", d>>)' <=> Queued(<<"activate", d>>)
        BY <2>1, <2>3
      <4> QED
        BY <1>2, <2>2, <3>5, <4>1
    <3> QED
      BY <3>4, <3>6 DEF OneFinisher
  <2>4. ASSUME \A c \in Clients : Head(wq) # <<"activate", c>> PROVE OneFinisher'
    <3>1. \A d \in Clients : Finishers(d)' = Finishers(d)
      BY <1>0, <1>36, <2>1, <2>2, <2>4 DEF WorkStart, Enter, Goto, Finishers, Moves, Works
    <3> QED
      BY <1>2, <2>1, <2>2, <2>4, <3>1 DEF OneFinisher
  <2> QED
    BY <2>3, <2>4
<1>37. ASSUME ActivateWorkVotes PROVE OneFinisher'
  BY <1>0, <1>37, <1>2, SameQueue DEF ActivateWorkVotes, Vote, StayAwake, Goto,
     workVars, callVars, InProgress, Finishers, OneFinisher, TimerSetStates,
     TimerFreeStates
<1>38. ASSUME ActivateWorkLocked PROVE OneFinisher'
  <2>1. client[Worker] \in Clients /\ Worker \in Finishers(client[Worker])
    BY <1>0, <1>1, <1>38 DEF ActivateWorkLocked, WorkerStages, Finishers
  <2>2. InProgress(client[Worker])
    BY <1>1, <2>1 DEF OneFinisher, FinishedOnce
  <2>3. /\ pc'[Worker] \in {"complete", "completeoff"} /\ Moves(Worker) /\ UNCHANGED <<client, wq>>
        /\ state' = [state EXCEPT ![client[Worker]] = state'[client[Worker]]]
        /\ state'[client[Worker]] \in {"ACTIVATED", "DEACTIVATED"}
    BY <1>0, <1>38, <2>1, <2>2
    DEF ActivateWorkLocked, Goto, SetState, Moves, workVars, callVars, InProgress
  <2> QED
    BY <1>0, <1>5, <2>1, <2>3, SameQueue DEF InProgress
<1>39. ASSUME Complete PROVE OneFinisher'
  BY <1>0, <1>39, <1>2, SameQueue DEF Complete, Goto, workVars, clockVars, callVars,
     InProgress, Finishers, OneFinisher, TimerSetStates, TimerFreeStates
<1>40. ASSUME DeactivateWorkLocked PROVE OneFinisher'
  BY <1>0, <1>40, <1>3, SameQueue DEF DeactivateWorkLocked, SetState, ArmTimer, Return,
     Goto, clockVars, callVars, InProgress, Moves, TimerSetStates
<1> QED
  BY <1>6, <1>7, <1>8, <1>9, <1>10, <1>11, <1>12, <1>13, <1>14, <1>15, <1>16, <1>17,
     <1>18, <1>19, <1>20, <1>21, <1>22, <1>23, <1>24, <1>25, <1>26, <1>27, <1>28, <1>29,
     <1>30, <1>31, <1>32, <1>33, <1>34, <1>35, <1>36, <1>37, <1>38, <1>39, <1>40 DEF
     Next, Request, Progress, Work, Actors

-----------------------------------------------------------------------------
(* Teardown                                                                *)

\* A client that is torn down has no activation in progress and no other thread
\* on it, and no call on it can begin.
LEMMA TeardownQuiet ==
  ASSUME Disciplined, IInv, NEW t \in Threads, call[t] \in TeardownCalls
  PROVE  /\ client[t] \in Clients /\ call[t] \in Calls \cap Serial
         /\ "activate" \notin Calls /\ call[Worker] # "activate"
         /\ ~InProgress(client[t])
         /\ \A u \in Threads \ {t} :
              client[u] # client[t] /\ call[u] # "deactivate_all_deferred"
<1>1. ThreadStages /\ WorkerStages /\ OneFinisher /\ QueueDistinct /\ TeardownAlone
  BY DEF IInv
<1>2. /\ client[t] \in Clients /\ call[t] \in Calls
      /\ pc[t] \notin {"inc", "got", "work", "worklocked"}
  BY <1>1 DEF ThreadStages, ThreadStage, TeardownCalls
<1>3. call[t] \in Serial /\ "activate" \notin Calls
  BY <1>2 DEF Disciplined
<1>4. ~Queued(<<"activate", client[t]>>) /\ call[Worker] # "activate"
  BY <1>1, <1>2, <1>3 DEF QueueDistinct
<1>5. \A u \in Threads \ {t} :
        client[u] # client[t] /\ call[u] # "deactivate_all_deferred"
  BY <1>1 DEF TeardownAlone
<1>6. Finishers(client[t]) = {}
  BY <1>1, <1>2, <1>4, <1>5 DEF Finishers, WorkerStages, Actors
<1>7. ~InProgress(client[t])
  BY <1>1, <1>2, <1>4, <1>6 DEF OneFinisher, FinishedOnce
<1> QED
  BY <1>2, <1>3, <1>4, <1>5, <1>7

\* No call on a client begins while it is torn down.
LEMMA NotCalled ==
  ASSUME Disciplined, IInv, NEW t \in Threads, call[t] \in TeardownCalls,
         NEW u \in Threads, NEW c \in Clients, NEW f, MayCall(u, c, f)
  PROVE  u # t /\ c # client[t]
<1>1. client[t] \in Clients /\ call[t] \in Serial
  BY TeardownQuiet
<1>2. ThreadStages
  BY DEF IInv
<1> QED
  BY <1>1, <1>2 DEF MayCall, Idle, ThreadStages, ThreadStage, TeardownCalls

\* While t tears its client down, others leave the client's state alone, except
\* for a deferred work that was under way, and arm no timer for it.
LEMMA TeardownUndisturbed ==
  ASSUME Disciplined, IInv, Next, NEW t \in Threads, call[t] \in TeardownCalls,
         ~Progress(t)
  PROVE  /\ pc'[t] = pc[t] /\ client'[t] = client[t] /\ call'[t] = call[t]
         /\ state'[client[t]] # state[client[t]] =>
              pc[Worker] = "expired" /\ client[Worker] = client[t]
         /\ state[client[t]] = "DEACTIVATED" => state'[client[t]] = "DEACTIVATED"
         /\ DeactivationPending(client[t])' => DeactivationPending(client[t])
<1>a. PICK c \in Clients : c = client[t]
  BY TeardownQuiet
<1> DEFINE Kept == /\ pc'[t] = pc[t] /\ client'[t] = client[t] /\ call'[t] = call[t]
                   /\ state'[c] # state[c] => pc[Worker] = "expired" /\ client[Worker] = c
                   /\ state[c] = "DEACTIVATED" => state'[c] = "DEACTIVATED"
                   /\ DeactivationPending(c)' => DeactivationPending(c)
<1>0. /\ pc \in [Actors -> PCs]
      /\ client \in [Actors -> Clients \cup {NoClient}]
      /\ call \in [Actors -> CallNames \cup {"none", "deactivate", "scale"}]
      /\ state \in [Clients -> TimerFreeStates \cup TimerSetStates]
      /\ Worker \notin Threads /\ Actors = Threads \cup {Worker}
  BY ActorAssumption DEF IInv, TypeOK, Actors
<1>1. /\ call[t] \in Serial /\ call[Worker] # "activate"
      /\ \A u \in Threads \ {t} : client[u] # c
      /\ \A u \in Threads, d \in Clients, f \in CallNames : MayCall(u, d, f) => u # t /\ d # c
      /\ WorkerStages /\ ThreadStages /\ pc[t] # "idle"
  BY <1>a, TeardownQuiet, NotCalled DEF IInv, ThreadStages, ThreadStage, TeardownCalls
<1>2. ASSUME NEW d \in Clients, Register(d) PROVE Kept
  BY <1>0, <1>1, <1>2, SameQueue
  DEF Register, SetState, workVars, callVars, DeactivationPending, IInv, Unregistered
<1>3. ASSUME NEW d \in Clients, TimerFire(d) PROVE Kept
  <2>1. \A v : Queued(v)' <=> Queued(v) \/ v = <<"deactivate", d>>
    BY <1>3, QueueEffects
  <2> QED
    BY <1>0, <1>1, <1>3, <2>1 DEF TimerFire, clientVars, callVars, DeactivationPending
<1>4. ASSUME NEW u \in Threads, NEW d \in Clients, ActivateLater(u, d) PROVE Kept
  <2>1. \A v : Queued(v)' <=> Queued(v) \/ v = <<"activate", d>>
    BY <1>4, QueueEffects
  <2>2. d # c
    BY <1>1, <1>4 DEF ActivateLater, CallNames
  <2> QED
    BY <1>0, <1>1, <1>4, <2>1, <2>2
    DEF ActivateLater, SetState, Stay, callVars, DeactivationPending
<1>5. ASSUME NEW u \in Threads, NEW d \in Clients,
             \/ ActivateInProgress(u, d) \/ ActivateActive(u, d) \/ ActivateNow(u, d)
             \/ ActivateSync(u, d) \/ ActivateSyncWaits(u, d) \/ DeferredDeactivate(u, d)
             \/ DeactivateSync(u, d) \/ Deregister(u, d)
      PROVE  Kept
  <2>1. u # t /\ d # c
    BY <1>1, <1>5 DEF ActivateInProgress, ActivateActive, ActivateNow, ActivateSync,
       ActivateSyncWaits, DeferredDeactivate, DeactivateSync, Deregister, CallNames
  <2>2. /\ pc'[t] = pc[t] /\ client'[t] = client[t] /\ call'[t] = call[t]
        /\ pc'[Worker] = pc[Worker] /\ client'[Worker] = client[Worker] /\ wq' = wq
    BY <1>0, <1>5, <2>1 DEF ActivateInProgress, ActivateActive, ActivateNow, ActivateSync,
       SyncSwitch, ActivateSyncWaits, DeferredDeactivate, DeactivateSync, Deregister, Stay,
       Enter, Return, Goto, callVars, workVars
  <2>3. state'[c] = state[c] /\ (c \in timer' => c \in timer)
    BY <1>0, <1>1, <1>5, <2>1 DEF ActivateInProgress, ActivateActive, KeepActive, ActivateNow,
       ActivateSync, SyncSwitch, ActivateSyncWaits, DeferredDeactivate, DeactivateSync,
       Deregister, SetState, ArmTimer, clientVars, workVars
  <2> QED
    BY <2>2, <2>3, SameQueue DEF DeactivationPending
<1>6. ASSUME NEW u \in Threads, DeactivateAll(u) PROVE Kept
  <2>1. u # t
    BY <1>1, <1>6 DEF DeactivateAll, Idle
  <2> QED
    BY <1>0, <1>6, <2>1, SameQueue
    DEF DeactivateAll, Goto, clientVars, workVars, DeactivationPending
<1>7. ASSUME NEW u \in Threads \ {t}, Cancel(u) PROVE Kept
  <2>1. \A v : Queued(v)' => Queued(v)
    BY <1>7, QueueEffects
  <2> QED
    BY <1>0, <1>1, <1>7, <2>1 DEF Cancel, Goto, clientVars, callVars, DeactivationPending
<1>8. ASSUME NEW u \in Threads \ {t}, Progress(u), ~Cancel(u) PROVE Kept
  <2>1. client[u] # c /\ Moves(u) /\ pc[u] # "expired"
    BY <1>1, <1>8, ThreadMoves DEF IInv, ThreadStages, ThreadStage
  <2>2. timer' = timer /\ (Queued(<<"deactivate", c>>)' <=> Queued(<<"deactivate", c>>))
    <3>1. CASE SetBit(u)
      BY <1>0, <3>1, QueueEffects DEF SetBit
    <3>2. CASE ~SetBit(u)
      <4>1. wq' = wq /\ timer' = timer
        BY <1>8, <3>2 DEF Progress, Woken, ActivateSyncWoken, SyncVote, SyncGot, Flush, Look,
           DeactivateSyncWoken, SyncOff, Devote, ClearBit, NextClient, AllWoken,
           DeregisterDecides, Free, ScaleSample, ScaleApply, workVars
      <4> QED
        BY <4>1, SameQueue
    <3> QED
      BY <3>1, <3>2
  <2>3. state'[c] = state[c]
    BY <1>0, <1>1, <1>8, <2>1 DEF Progress, Woken, ActivateSyncWoken, SyncSwitch, KeepActive,
       SyncVote, SyncGot, SetBit, Flush, Look, DeactivateSyncWoken, SyncOff, Devote, ClearBit,
       NextClient, AllWoken, DeregisterDecides, Free, ScaleSample, ScaleApply, SetState, clientVars
  <2> QED
    BY <1>0, <1>8, <2>1, <2>2, <2>3 DEF Moves, DeactivationPending
<1>9. ASSUME WorkStart PROVE Kept
  <2>1. /\ Head(wq) \in Works /\ Queued(Head(wq))
        /\ \A v : Queued(v)' <=> Queued(v) /\ v # Head(wq)
    BY <1>9, QueueEffects
  <2>2. pc'[Worker] = "expired" /\ client'[Worker] = c => Head(wq) = <<"deactivate", c>>
    BY <1>0, <1>9, <2>1 DEF WorkStart, Enter, Goto, Works
  <2>3. UNCHANGED <<state, timer>> /\ Moves(Worker)
    BY <1>9, WorkerMoves DEF WorkStart, clientVars, Work, IInv
  <2> QED
    BY <1>0, <2>1, <2>2, <2>3 DEF Moves, DeactivationPending
<1>10. ASSUME Work, ~WorkStart PROVE Kept
  <2>1. Moves(Worker)
    BY <1>10, WorkerMoves DEF IInv
  <2>2. Queued(<<"deactivate", c>>)' <=> Queued(<<"deactivate", c>>)
    <3>1. CASE SetBit(Worker)
      BY <1>0, <3>1, QueueEffects
    <3>2. CASE ~SetBit(Worker)
      <4>1. wq' = wq
        BY <1>10, <3>2 DEF Work, ActivateWorkVotes, ActivateWorkLocked, Complete,
           DeactivateWorkLocked, Devote, ClearBit, ScaleSample, ScaleApply, workVars
      <4> QED
        BY <4>1, SameQueue
    <3> QED
      BY <3>1, <3>2
  <2>3. CASE DeactivateWorkLocked
    BY <1>0, <1>1, <2>1, <2>2, <2>3
    DEF DeactivateWorkLocked, SetState, ArmTimer, Return, Goto, TimerFreeStates, Moves,
        DeactivationPending
  <2>4. CASE ActivateWorkVotes \/ ActivateWorkLocked \/ Complete
    BY <1>1, <2>4 DEF ActivateWorkVotes, ActivateWorkLocked, Complete, WorkerStages
  <2>5. CASE SetBit(Worker) \/ Devote(Worker) \/ ClearBit(Worker)
             \/ ScaleSample(Worker) \/ ScaleApply(Worker)
    <3>1. UNCHANGED <<state, timer>> /\ pc'[Worker] # "expired"
      BY <1>0, <2>5 DEF SetBit, Devote, ClearBit, ScaleSample, ScaleApply, Return, Goto,
         clientVars, workVars
    <3> QED
      BY <1>0, <2>1, <2>2, <3>1 DEF Moves, DeactivationPending
  <2> QED
    BY <1>10, <2>3, <2>4, <2>5 DEF Work
<1>11. Kept
  BY <1>2, <1>3, <1>4, <1>5, <1>6, <1>7, <1>8, <1>9, <1>10 DEF Next, Request
<1> QED
  BY <1>a, <1>11 DEF DeactivationPending

\* A client that is freed, or not registered, is off.
LEMMA NextUnregistered ==
  ASSUME Disciplined, IInv, Next PROVE Unregistered'
<1>0. /\ pc \in [Actors -> PCs]
      /\ client \in [Actors -> Clients \cup {NoClient}]
      /\ call \in [Actors -> CallNames \cup {"none", "deactivate", "scale"}]
      /\ state \in [Clients -> TimerFreeStates \cup TimerSetStates]
      /\ Worker \notin Threads /\ Actors = Threads \cup {Worker}
  BY ActorAssumption DEF IInv, TypeOK, Actors
<1>1. ThreadStages /\ WorkerStages /\ Unregistered /\ OneFinisher
  BY DEF IInv
<1>2. ASSUME NEW t \in Threads, pc'[t] = "free" PROVE state'[client'[t]] = "DEACTIVATED"
  <2>1. CASE pc[t] = "free"
    <3>1. call[t] \in TeardownCalls /\ state[client[t]] = "DEACTIVATED"
      BY <1>1, <2>1 DEF ThreadStages, ThreadStage, TeardownCalls, Unregistered
    <3>2. ~Progress(t)
      <4>1. ~Free(t)
        BY <1>0, <1>2 DEF Free, Return, Goto
      <4> QED
        BY <2>1, <3>1, <4>1 DEF Progress, Woken, ActivateSyncWoken, SyncVote, SyncGot, SetBit,
           Cancel, Flush, Look, DeactivateSyncWoken, SyncOff, Devote, ClearBit, NextClient,
           AllWoken, DeregisterDecides, ScaleSample, ScaleApply
    <3> QED
      BY <3>1, <3>2, TeardownUndisturbed
  <2>2. CASE pc[t] # "free"
    <3>1. ASSUME NEW c \in Clients, Deregister(t, c) PROVE state'[client'[t]] = "DEACTIVATED"
      BY <1>0, <1>2, <3>1 DEF Deregister, Enter, Goto
    <3>2. ASSUME DeregisterDecides(t) PROVE state'[client'[t]] = "DEACTIVATED"
      <4>1. client[t] \in Clients /\ ~InProgress(client[t])
        BY <3>2, TeardownQuiet DEF DeregisterDecides, TeardownCalls
      <4> QED
        BY <1>0, <1>2, <3>2, <4>1 DEF DeregisterDecides, Return, Goto, Active, InProgress,
           TimerFreeStates, TimerSetStates, clientVars
    <3>3. CASE Request(t) /\ ~\E c \in Clients : Deregister(t, c)
      BY <1>0, <1>2, <2>2, <3>3 DEF Request, ActivateInProgress, ActivateActive, ActivateNow,
         ActivateLater, ActivateSync, SyncSwitch, ActivateSyncWaits, DeferredDeactivate,
         DeactivateSync, DeactivateAll, Stay, Enter, Return, Goto
    <3>4. CASE Progress(t) /\ ~DeregisterDecides(t)
      BY <1>0, <1>2, <2>2, <3>4 DEF Progress, Woken, ActivateSyncWoken, SyncSwitch, SyncVote,
         SyncGot, SetBit, Cancel, Flush, Look, DeactivateSyncWoken, SyncOff, Devote, ClearBit,
         NextClient, AllWoken, Free, ScaleSample, ScaleApply, Enter, Return, Goto
    <3>5. CASE \E c \in Clients : Register(c) \/ TimerFire(c)
      BY <1>2, <2>2, <3>5 DEF Register, TimerFire
    <3>6. CASE Work
      BY <1>0, <1>2, <2>2, <3>6, WorkerMoves DEF IInv, Moves
    <3>7. ASSUME NEW u \in Threads \ {t}, Request(u) \/ Progress(u) PROVE FALSE
      BY <1>0, <1>2, <2>2, <3>7, ThreadMoves DEF IInv, Moves
    <3> QED
      BY <3>1, <3>2, <3>3, <3>4, <3>5, <3>6, <3>7 DEF Next
  <2> QED
    BY <2>1, <2>2
<1>3. \/ \E c \in Clients : Register(c)
      \/ \E t \in Threads : Free(t)
      \/ UNCHANGED <<registered, skip>>
  <2>1. ASSUME NEW c \in Clients, TimerFire(c) PROVE UNCHANGED <<registered, skip>>
    BY <2>1 DEF TimerFire, clientVars
  <2>2. ASSUME NEW t \in Threads, Request(t) PROVE UNCHANGED <<registered, skip>>
    BY <2>2 DEF Request, ActivateInProgress, ActivateActive, ActivateNow, ActivateLater,
       ActivateSync, ActivateSyncWaits, DeferredDeactivate, DeactivateSync, Deregister,
       DeactivateAll, clientVars
  <2>3. ASSUME NEW t \in Threads, Progress(t), ~Free(t) PROVE UNCHANGED <<registered, skip>>
    BY <2>3 DEF Progress, Woken, ActivateSyncWoken, SyncVote, SyncGot, SetBit, Cancel, Flush,
       Look, DeactivateSyncWoken, SyncOff, Devote, ClearBit, NextClient, AllWoken,
       DeregisterDecides, ScaleSample, ScaleApply, clientVars
  <2>4. ASSUME Work PROVE UNCHANGED <<registered, skip>>
    BY <2>4 DEF Work, WorkStart, ActivateWorkVotes, ActivateWorkLocked, Complete,
       DeactivateWorkLocked, SetBit, Devote, ClearBit, ScaleSample, ScaleApply, clientVars
  <2> QED
    BY <2>1, <2>2, <2>3, <2>4 DEF Next
<1>4. skip' \subseteq registered'
  <2>1. skip \subseteq registered /\ skip \subseteq MaySkip
    BY <1>1 DEF Unregistered, IInv, TypeOK
  <2>2. ASSUME NEW c \in Clients, Register(c) PROVE skip' \subseteq registered'
    BY <2>1, <2>2 DEF Register
  <2>3. ASSUME NEW t \in Threads, Free(t) PROVE skip' \subseteq registered'
    <3>1. "deregister" \in Calls
      BY <1>1, <2>3 DEF Free, ThreadStages, ThreadStage
    <3> QED
      BY <2>1, <2>3, <3>1 DEF Free, Disciplined
  <2>4. CASE UNCHANGED <<registered, skip>>
    BY <2>1, <2>4
  <2> QED
    BY <1>3, <2>2, <2>3, <2>4
<1>5. ASSUME NEW c \in Clients \ registered' PROVE state'[c] = "DEACTIVATED"
  <2>1. CASE c \in registered
    <3>1. PICK t \in Threads : Free(t)
      BY <1>5, <1>3, <2>1 DEF Register
    <3> QED
      BY <1>1, <1>5, <2>1, <3>1 DEF Free, Unregistered
  <2>2. CASE c \notin registered
    <3>1. /\ state[c] = "DEACTIVATED" /\ Finishers(c) = {}
          /\ \A t \in Threads : client[t] = c => call[t] \in {"none", "deactivate_all_deferred"}
      BY <1>1, <1>5, <2>2
      DEF Unregistered, OneFinisher, FinishedOnce, InProgress, ThreadStages, ThreadStage
    <3>2. ASSUME NEW d \in Clients, Register(d) PROVE state'[c] = "DEACTIVATED"
      BY <1>0, <3>1, <3>2 DEF Register, SetState
    <3>3. ASSUME NEW d \in Clients, TimerFire(d) PROVE state'[c] = "DEACTIVATED"
      BY <3>1, <3>3 DEF TimerFire, clientVars
    <3>4. ASSUME NEW t \in Threads, Request(t) PROVE state'[c] = "DEACTIVATED"
      BY <1>0, <2>2, <3>1, <3>4 DEF Request, ActivateInProgress, ActivateActive, KeepActive,
         ActivateNow, ActivateLater, ActivateSync, SyncSwitch, ActivateSyncWaits,
         DeferredDeactivate, DeactivateSync, Deregister, DeactivateAll, SetState, MayCall,
         clientVars
    <3>5. ASSUME NEW t \in Threads, Progress(t) PROVE state'[c] = "DEACTIVATED"
      <4>1. CASE AllWoken(t)
        BY <1>0, <3>1, <4>1 DEF AllWoken, SetState
      <4>2. CASE SyncOff(t)
        BY <1>0, <3>1, <4>2 DEF SyncOff, SetState
      <4>3. CASE SyncGot(t)
        BY <1>0, <3>1, <4>3 DEF SyncGot, SetState, Finishers
      <4>4. CASE ActivateSyncWoken(t)
        BY <1>0, <3>1, <4>4 DEF ActivateSyncWoken, SyncSwitch, KeepActive, SetState
      <4>5. CASE ~AllWoken(t) /\ ~SyncOff(t) /\ ~SyncGot(t) /\ ~ActivateSyncWoken(t)
        BY <3>1, <3>5, <4>5 DEF Progress, Woken, SyncVote, SetBit, Cancel, Flush, Look,
           DeactivateSyncWoken, Devote, ClearBit, NextClient, DeregisterDecides, Free,
           ScaleSample, ScaleApply, clientVars
      <4> QED
        BY <4>1, <4>2, <4>3, <4>4, <4>5
    <3>6. ASSUME Work PROVE state'[c] = "DEACTIVATED"
      <4>1. CASE ActivateWorkLocked
        BY <1>0, <3>1, <4>1 DEF ActivateWorkLocked, SetState, Finishers
      <4>2. CASE DeactivateWorkLocked
        BY <1>0, <3>1, <4>2 DEF DeactivateWorkLocked, SetState
      <4>3. CASE ~ActivateWorkLocked /\ ~DeactivateWorkLocked
        BY <3>1, <3>6, <4>3 DEF Work, WorkStart, ActivateWorkVotes, Complete, SetBit, Devote,
           ClearBit, ScaleSample, ScaleApply, clientVars
      <4> QED
        BY <4>1, <4>2, <4>3
    <3> QED
      BY <3>2, <3>3, <3>4, <3>5, <3>6 DEF Next
  <2> QED
    BY <2>1, <2>2
<1> QED
  BY <1>2, <1>4, <1>5 DEF Unregistered

-----------------------------------------------------------------------------
(* The deferred work                                                       *)

\* What steps other than a timer, a cancellation and the worker's start do to
\* the queue of deferred works, and whom they move.
LEMMA OtherSteps ==
  ASSUME IInv
  PROVE  /\ \A t \in Threads : Request(t) =>
              /\ Moves(t) /\ pc[t] = "idle"
              /\ pc'[t] \in {"idle", "setbit", "inc", "wait", "cancel", "begin", "next"}
              /\ cancelling' = cancelling
              /\ \A c : Queued(<<"deactivate", c>>)' <=> Queued(<<"deactivate", c>>)
              /\ \A c : c \in timer' /\ c \notin timer =>
                   c \notin cancelling /\ DeferredDeactivate(t, c)
         /\ \A t \in Threads : Progress(t) /\ ~Cancel(t) =>
              /\ Moves(t) /\ timer' = timer
              /\ \A c : Queued(<<"deactivate", c>>)' <=> Queued(<<"deactivate", c>>)
         /\ Work /\ ~WorkStart =>
              /\ Moves(Worker) /\ cancelling' = cancelling
              /\ pc'[Worker] \notin {"flush", "reflush", "expired"}
              /\ \A c : Queued(<<"deactivate", c>>)' <=> Queued(<<"deactivate", c>>)
              /\ \A c : c \in timer' /\ c \notin timer =>
                   c \notin cancelling /\ DeactivateWorkLocked /\ client[Worker] = c
<1>0. /\ pc \in [Actors -> PCs]
      /\ client \in [Actors -> Clients \cup {NoClient}]
      /\ call \in [Actors -> CallNames \cup {"none", "deactivate", "scale"}]
      /\ state \in [Clients -> TimerFreeStates \cup TimerSetStates]
      /\ Worker \notin Threads /\ Actors = Threads \cup {Worker}
  BY ActorAssumption DEF IInv, TypeOK, Actors
<1>1. ThreadStages /\ WorkerStages /\ TypeOK
  BY DEF IInv
<1>2. ASSUME NEW t \in Threads, Request(t)
      PROVE  /\ Moves(t) /\ pc[t] = "idle"
             /\ pc'[t] \in {"idle", "setbit", "inc", "wait", "cancel", "begin", "next"}
             /\ cancelling' = cancelling
             /\ \A c : Queued(<<"deactivate", c>>)' <=> Queued(<<"deactivate", c>>)
             /\ \A c : c \in timer' /\ c \notin timer =>
                  c \notin cancelling /\ DeferredDeactivate(t, c)
  <2>1. Moves(t)
    BY <1>1, <1>2, ThreadMoves
  <2>2. /\ pc[t] = "idle"
        /\ pc'[t] \in {"idle", "setbit", "inc", "wait", "cancel", "begin", "next"}
    BY <1>0, <1>2 DEF Request, ActivateInProgress, ActivateActive, ActivateNow, ActivateLater,
       ActivateSync, SyncSwitch, ActivateSyncWaits, DeferredDeactivate, DeactivateSync,
       Deregister, DeactivateAll, MayCall, Idle, Stay, Enter, Return, Goto
  <2>3. cancelling' = cancelling
    BY <1>2 DEF Request, ActivateInProgress, ActivateActive, ActivateNow, ActivateLater,
       ActivateSync, ActivateSyncWaits, DeferredDeactivate, DeactivateSync, Deregister,
       DeactivateAll, workVars
  <2>4. \A c : Queued(<<"deactivate", c>>)' <=> Queued(<<"deactivate", c>>)
    <3>1. ASSUME NEW c \in Clients, ActivateLater(t, c)
          PROVE  \A d : Queued(<<"deactivate", d>>)' <=> Queued(<<"deactivate", d>>)
      BY <3>1, QueueEffects
    <3>2. CASE ~\E c \in Clients : ActivateLater(t, c)
      <4>1. wq' = wq
        BY <1>2, <3>2 DEF Request, ActivateInProgress, ActivateActive, ActivateNow,
           ActivateSync, ActivateSyncWaits, DeferredDeactivate, DeactivateSync, Deregister,
           DeactivateAll, workVars
      <4> QED
        BY <4>1, SameQueue
    <3> QED
      BY <3>1, <3>2
  <2>5. ASSUME NEW c, c \in timer', c \notin timer
        PROVE  c \notin cancelling /\ DeferredDeactivate(t, c)
    <3>1. PICK d \in Clients : DeferredDeactivate(t, d)
      BY <1>2, <2>5 DEF Request, ActivateInProgress, ActivateActive, ActivateNow,
         ActivateLater, ActivateSync, ActivateSyncWaits, DeactivateSync, Deregister,
         DeactivateAll, workVars
    <3>2. d = c /\ c \notin cancelling
      BY <2>5, <3>1 DEF DeferredDeactivate, ArmTimer
    <3> QED
      BY <3>1, <3>2
  <2> QED
    BY <2>1, <2>2, <2>3, <2>4, <2>5
<1>3. ASSUME NEW t \in Threads, Progress(t), ~Cancel(t)
      PROVE  /\ Moves(t) /\ timer' = timer
             /\ \A c : Queued(<<"deactivate", c>>)' <=> Queued(<<"deactivate", c>>)
  <2>1. Moves(t)
    BY <1>1, <1>3, ThreadMoves
  <2>2. timer' = timer
    BY <1>3 DEF Progress, Woken, ActivateSyncWoken, SyncVote, SyncGot, SetBit, Flush, Look,
       DeactivateSyncWoken, SyncOff, Devote, ClearBit, NextClient, AllWoken,
       DeregisterDecides, Free, ScaleSample, ScaleApply, workVars
  <2>3. CASE SetBit(t)
    BY <1>0, <2>1, <2>2, <2>3, QueueEffects
  <2>4. CASE ~SetBit(t)
    <3>1. wq' = wq
      BY <1>3, <2>4 DEF Progress, Woken, ActivateSyncWoken, SyncVote, SyncGot, Flush, Look,
         DeactivateSyncWoken, SyncOff, Devote, ClearBit, NextClient, AllWoken,
         DeregisterDecides, Free, ScaleSample, ScaleApply, workVars
    <3> QED
      BY <2>1, <2>2, <3>1, SameQueue
  <2> QED
    BY <2>3, <2>4
<1>4. ASSUME Work, ~WorkStart
      PROVE  /\ Moves(Worker) /\ cancelling' = cancelling
             /\ pc'[Worker] \notin {"flush", "reflush", "expired"}
             /\ \A c : Queued(<<"deactivate", c>>)' <=> Queued(<<"deactivate", c>>)
             /\ \A c : c \in timer' /\ c \notin timer =>
                  c \notin cancelling /\ DeactivateWorkLocked /\ client[Worker] = c
  <2>1. Moves(Worker)
    BY <1>1, <1>4, WorkerMoves
  <2>2. cancelling' = cancelling /\ pc'[Worker] \notin {"flush", "reflush", "expired"}
    BY <1>0, <1>4 DEF Work, ActivateWorkVotes, ActivateWorkLocked, Complete, DeactivateWorkLocked,
       SetBit, Devote, ClearBit, ScaleSample, ScaleApply, Return, Goto, workVars
  <2>3. \A c : Queued(<<"deactivate", c>>)' <=> Queued(<<"deactivate", c>>)
    <3>1. CASE SetBit(Worker)
      BY <1>0, <3>1, QueueEffects
    <3>2. CASE ~SetBit(Worker)
      <4>1. wq' = wq
        BY <1>4, <3>2 DEF Work, ActivateWorkVotes, ActivateWorkLocked, Complete,
           DeactivateWorkLocked, Devote, ClearBit, ScaleSample, ScaleApply, workVars
      <4> QED
        BY <4>1, SameQueue
    <3> QED
      BY <3>1, <3>2
  <2>4. ASSUME NEW c, c \in timer', c \notin timer
        PROVE  c \notin cancelling /\ DeactivateWorkLocked /\ client[Worker] = c
    <3>1. DeactivateWorkLocked
      BY <1>4, <2>4 DEF Work, ActivateWorkVotes, ActivateWorkLocked, Complete, SetBit, Devote,
         ClearBit, ScaleSample, ScaleApply, workVars
    <3> QED
      BY <2>4, <3>1 DEF DeactivateWorkLocked, ArmTimer
  <2> QED
    BY <2>1, <2>2, <2>3, <2>4
<1> QED
  BY <1>2, <1>3, <1>4

\* Every step keeps a work that is cancelled with one canceller.
LEMMA NextOneCanceller ==
  ASSUME IInv, Next PROVE OneCanceller'
<1>0. /\ pc \in [Actors -> PCs]
      /\ client \in [Actors -> Clients \cup {NoClient}]
      /\ call \in [Actors -> CallNames \cup {"none", "deactivate", "scale"}]
      /\ state \in [Clients -> TimerFreeStates \cup TimerSetStates]
      /\ Worker \notin Threads /\ Actors = Threads \cup {Worker}
  BY ActorAssumption DEF IInv, TypeOK, Actors
<1>1. /\ OneCanceller /\ ThreadStages /\ WorkerStages /\ cancelling \subseteq Clients
  BY DEF IInv, TypeOK
<1>2. ASSUME NEW a \in Actors, Moves(a), cancelling' = cancelling,
             pc[a] \notin {"flush", "reflush"}, pc'[a] \notin {"flush", "reflush"},
             \A c \in cancelling : c \in timer' => c \in timer,
             \A c \in cancelling :
               Queued(<<"deactivate", c>>)' => Queued(<<"deactivate", c>>)
      PROVE  OneCanceller'
  BY <1>0, <1>1, <1>2 DEF OneCanceller, Moves
<1>3. ASSUME NEW c \in Clients, Register(c) PROVE OneCanceller'
  BY <1>0, <1>1, <1>3, SameQueue DEF Register, workVars, callVars, OneCanceller
<1>4. ASSUME NEW c \in Clients, TimerFire(c) PROVE OneCanceller'
  <2>1. \A v : Queued(v)' <=> Queued(v) \/ v = <<"deactivate", c>>
    BY <1>4, QueueEffects
  <2> QED
    BY <1>0, <1>1, <1>4, <2>1 DEF TimerFire, OneCanceller
<1>5. ASSUME NEW t \in Threads, Request(t) PROVE OneCanceller'
  <2>1. /\ Moves(t) /\ pc[t] = "idle"
        /\ pc'[t] \in {"idle", "setbit", "inc", "wait", "cancel", "begin", "next"}
        /\ cancelling' = cancelling
        /\ \A c : Queued(<<"deactivate", c>>)' <=> Queued(<<"deactivate", c>>)
        /\ \A c : c \in timer' /\ c \notin timer => c \notin cancelling
    BY <1>5, OtherSteps
  <2> QED
    BY <1>0, <1>2, <2>1
<1>6. ASSUME NEW t \in Threads, Cancel(t) PROVE OneCanceller'
  <2>1. /\ client[t] \in Clients
        /\ \A v : Queued(v)' <=> Queued(v) /\ v # <<"deactivate", client[t]>>
    BY <1>6, QueueEffects
  <2>2. /\ client[t] \notin cancelling /\ cancelling' = cancelling \cup {client[t]}
        /\ timer' = timer \ {client[t]} /\ client' = client
        /\ pc[t] \notin {"flush", "reflush"}
        /\ pc' = [pc EXCEPT ![t] = pc'[t]] /\ pc'[t] \in {"flush", "reflush"}
    BY <1>0, <1>6 DEF Cancel, Goto
  <2> QED
    BY <1>0, <1>1, <2>1, <2>2 DEF OneCanceller
<1>7. ASSUME NEW t \in Threads, Flush(t) PROVE OneCanceller'
  <2>1. client[t] \in Clients
    BY <1>1, <1>7 DEF Flush, ThreadStages, ThreadStage
  <2> QED
    BY <1>0, <1>1, <1>7, <2>1, SameQueue DEF Flush, Goto, OneCanceller
<1>8. ASSUME NEW t \in Threads, Progress(t), ~Cancel(t), ~Flush(t) PROVE OneCanceller'
  <2>1. /\ Moves(t) /\ timer' = timer
        /\ \A c : Queued(<<"deactivate", c>>)' <=> Queued(<<"deactivate", c>>)
    BY <1>8, OtherSteps
  <2>2. /\ pc[t] \notin {"flush", "reflush"} /\ pc'[t] \notin {"flush", "reflush"}
        /\ cancelling' = cancelling
    BY <1>0, <1>8 DEF Progress, Woken, ActivateSyncWoken, SyncSwitch, SyncVote, SyncGot,
       SetBit, Look, DeactivateSyncWoken, SyncOff, Devote, ClearBit, NextClient, AllWoken,
       DeregisterDecides, Free, ScaleSample, ScaleApply, Enter, Return, Goto, workVars
  <2> QED
    BY <1>0, <1>2, <2>1, <2>2
<1>9. ASSUME WorkStart PROVE OneCanceller'
  <2>1. \A v : Queued(v)' => Queued(v)
    BY <1>9, QueueEffects
  <2>2. /\ Moves(Worker) /\ UNCHANGED <<timer, cancelling>>
        /\ pc[Worker] \notin {"flush", "reflush"}
    BY <1>9, WorkerMoves DEF WorkStart, Idle, Work, IInv
  <2> QED
    BY <1>0, <1>1, <2>1, <2>2 DEF OneCanceller, Moves
<1>10. ASSUME Work, ~WorkStart PROVE OneCanceller'
  <2>1. /\ Moves(Worker) /\ cancelling' = cancelling
        /\ pc'[Worker] \notin {"flush", "reflush"}
        /\ \A c : Queued(<<"deactivate", c>>)' <=> Queued(<<"deactivate", c>>)
        /\ \A c : c \in timer' /\ c \notin timer => c \notin cancelling
    BY <1>10, OtherSteps
  <2>2. pc[Worker] \notin {"flush", "reflush"}
    BY <1>1 DEF WorkerStages
  <2> QED
    BY <1>0, <1>2, <2>1, <2>2
<1> QED
  BY <1>3, <1>4, <1>5, <1>6, <1>7, <1>8, <1>9, <1>10 DEF Next

\* deactivate_sync keeps what it has made sure of.
LEMMA NextSyncTeardown ==
  ASSUME Disciplined, IInv, Next PROVE SyncTeardown'
<1>0. /\ pc \in [Actors -> PCs]
      /\ client \in [Actors -> Clients \cup {NoClient}]
      /\ call \in [Actors -> CallNames \cup {"none", "deactivate", "scale"}]
      /\ state \in [Clients -> TimerFreeStates \cup TimerSetStates]
      /\ Worker \notin Threads /\ Actors = Threads \cup {Worker}
  BY ActorAssumption DEF IInv, TypeOK, Actors
<1>1. SyncTeardown /\ OneCanceller /\ ThreadStages /\ WorkerStages
  BY DEF IInv
<1>2. ASSUME NEW t \in Threads, call'[t] = "deactivate_sync", call[t] # "deactivate_sync"
      PROVE  pc'[t] = "cancel"
  <2>1. ASSUME NEW c \in Clients, Register(c) \/ TimerFire(c) PROVE FALSE
    BY <1>2, <2>1 DEF Register, TimerFire, callVars
  <2>2. ASSUME NEW u \in Threads \ {t}, Request(u) \/ Progress(u) PROVE FALSE
    BY <1>0, <1>2, <2>2, ThreadMoves DEF IInv, Moves
  <2>3. ASSUME Work PROVE FALSE
    BY <1>0, <1>2, <2>3, WorkerMoves DEF IInv, Moves
  <2>4. ASSUME Progress(t) PROVE FALSE
    BY <1>0, <1>2, <2>4 DEF Progress, Woken, ActivateSyncWoken, SyncSwitch, SyncVote, SyncGot,
       SetBit, Cancel, Flush, Look, DeactivateSyncWoken, SyncOff, Devote, ClearBit, NextClient,
       AllWoken, DeregisterDecides, Free, ScaleSample, ScaleApply, Enter, Return, callVars
  <2>5. ASSUME Request(t) PROVE pc'[t] = "cancel"
    BY <1>0, <1>2, <2>5 DEF Request, ActivateInProgress, ActivateActive, ActivateNow,
       ActivateLater, ActivateSync, SyncSwitch, ActivateSyncWaits, DeferredDeactivate,
       DeactivateSync, Deregister, DeactivateAll, Stay, Enter, Return, Goto, callVars
  <2> QED
    BY <2>1, <2>2, <2>3, <2>4, <2>5 DEF Next
<1>3. ASSUME NEW t \in Threads, call'[t] = "deactivate_sync", call[t] = "deactivate_sync",
             NEW c \in Clients, client[t] = c
      PROVE  /\ client'[t] = c
             /\ pc'[t] \notin {"cancel", "flush", "recancel", "reflush"}
                  => ~DeactivationPending(c)'
             /\ pc'[t] \in {"dec", "off"} => Active(c)'
             /\ pc'[t] \in {"recancel", "reflush", "clearbit", "scale", "apply"}
                  => state'[c] = "DEACTIVATED"
  <2>1. /\ pc[t] \notin {"cancel", "flush", "recancel", "reflush"} => ~DeactivationPending(c)
        /\ pc[t] \in {"dec", "off"} => Active(c)
        /\ pc[t] \in {"recancel", "reflush", "clearbit", "scale", "apply"}
             => state[c] = "DEACTIVATED"
        /\ ~InProgress(c) /\ call[t] \in TeardownCalls
    BY <1>1, <1>3, TeardownQuiet DEF SyncTeardown, TeardownCalls
  <2>2. CASE ~Progress(t)
    <3>1. /\ pc'[t] = pc[t] /\ client'[t] = c
          /\ state'[c] # state[c] => DeactivationPending(c)
          /\ state[c] = "DEACTIVATED" => state'[c] = "DEACTIVATED"
          /\ DeactivationPending(c)' => DeactivationPending(c)
      BY <1>3, <2>1, <2>2, TeardownUndisturbed DEF DeactivationPending
    <3>2. pc[t] \in {"dec", "off"} => Active(c)'
      BY <2>1, <3>1 DEF Active
    <3> QED
      BY <2>1, <3>1, <3>2
  <2>3. CASE Cancel(t)
    BY <1>0, <1>3, <2>1, <2>3 DEF Cancel, Goto, clientVars
  <2>4. CASE Flush(t)
    <3>1. c \in cancelling
      BY <1>1, <1>3, <2>4 DEF Flush, OneCanceller
    <3>2. c \notin timer' /\ ~Queued(<<"deactivate", c>>)'
      BY <1>1, <2>4, <3>1, SameQueue DEF Flush, OneCanceller
    <3>3. ~(pc'[Worker] = "expired" /\ client'[Worker] = c)
      BY <1>0, <1>1, <1>3, <2>4 DEF Flush, Goto, WorkerStages
    <3> QED
      BY <1>0, <1>3, <2>1, <2>4, <3>2, <3>3 DEF Flush, Goto, clientVars, DeactivationPending
  <2>5. CASE Progress(t) /\ ~Cancel(t) /\ ~Flush(t)
    <3>1. /\ Moves(t) /\ timer' = timer
          /\ \A d : Queued(<<"deactivate", d>>)' <=> Queued(<<"deactivate", d>>)
      BY <2>5, OtherSteps
    <3>2. DeactivationPending(c)' <=> DeactivationPending(c)
      BY <1>0, <3>1 DEF Moves, DeactivationPending
    <3>3. \/ Look(t) \/ Woken(t) \/ DeactivateSyncWoken(t) \/ Devote(t) \/ SyncOff(t)
          \/ ClearBit(t) \/ ScaleSample(t)
      BY <1>0, <1>1, <1>3, <2>5 DEF Progress, ActivateSyncWoken, SyncVote, SyncGot, SetBit,
         NextClient, AllWoken, DeregisterDecides, Free, ScaleApply, Return, ThreadStages,
         ThreadStage
    <3>4. CASE Look(t) \/ Woken(t) \/ ClearBit(t) \/ ScaleSample(t)
      BY <1>0, <1>3, <2>1, <3>2, <3>4 DEF Look, Woken, ClearBit, ScaleSample, Return, Goto,
         clientVars
    <3>5. CASE DeactivateSyncWoken(t)
      <4>1. state[c] # "DEACTIVATED" /\ pc'[t] = "dec" /\ client'[t] = c /\ state' = state
        BY <1>0, <1>3, <3>5 DEF DeactivateSyncWoken, Return, Goto, clientVars
      <4>2. Active(c)'
        BY <1>0, <2>1, <4>1 DEF Active, InProgress, TimerFreeStates, TimerSetStates
      <4> QED
        BY <2>1, <3>2, <3>5, <4>1, <4>2 DEF DeactivateSyncWoken
    <3>6. CASE Devote(t)
      <4>1. pc[t] = "dec" /\ pc'[t] = "off" /\ client'[t] = c /\ state' = state
        BY <1>0, <1>3, <3>6 DEF Devote, Goto
      <4>2. Active(c)'
        BY <2>1, <4>1 DEF Active
      <4> QED
        BY <2>1, <3>2, <4>1, <4>2
    <3>7. CASE SyncOff(t)
      BY <1>0, <1>3, <3>7 DEF SyncOff, Goto, SetState
    <3> QED
      BY <3>3, <3>4, <3>5, <3>6, <3>7
  <2> QED
    BY <2>2, <2>3, <2>4, <2>5
<1>4. ASSUME NEW t \in Threads, call'[t] = "deactivate_sync"
      PROVE  /\ pc'[t] \notin {"cancel", "flush", "recancel", "reflush"}
                  => ~DeactivationPending(client[t])'
             /\ pc'[t] \in {"dec", "off"} => Active(client[t])'
             /\ pc'[t] \in {"recancel", "reflush", "clearbit", "scale", "apply"}
                  => state'[client'[t]] = "DEACTIVATED"
  <2>1. CASE call[t] # "deactivate_sync"
    BY <1>2, <1>4, <2>1
  <2>2. CASE call[t] = "deactivate_sync"
    <3>1. PICK c \in Clients : c = client[t]
      BY <2>2, TeardownQuiet DEF TeardownCalls
    <3>2. /\ client'[t] = c
          /\ pc'[t] \notin {"cancel", "flush", "recancel", "reflush"}
               => ~DeactivationPending(c)'
          /\ pc'[t] \in {"dec", "off"} => Active(c)'
          /\ pc'[t] \in {"recancel", "reflush", "clearbit", "scale", "apply"}
               => state'[c] = "DEACTIVATED"
      BY <1>3, <1>4, <2>2, <3>1
    <3> QED
      BY <3>2 DEF DeactivationPending, Active, Queued
  <2> QED
    BY <2>1, <2>2
<1> QED
  BY <1>4 DEF SyncTeardown

-----------------------------------------------------------------------------
(* The votes                                                               *)

Counted(c) == votes[c] = Cardinality(Extra(c)) + StateVote(c)

\* 1 if a holds a vote for c that the state does not account for.
Holds(a, c) == IF a \in Extra(c) THEN 1 ELSE 0

\* The count stays right if the votes change by what the actor that moves, and
\* the state, account for.
LEMMA CountMoves ==
  ASSUME NEW a \in Actors, Moves(a), NEW c \in Clients, Counted(c),
         votes'[c] + Holds(a, c) + StateVote(c) = votes[c] + Holds(a, c)' + StateVote(c)',
         votes[c] \in Int, votes'[c] \in Int
  PROVE  Counted(c)'
<1> DEFINE n == Cardinality(Extra(c))
           m == Cardinality(Extra(c))'
<1>1. /\ n \in Nat /\ m \in Nat
      /\ (a \in Extra(c) <=> a \in Extra(c)') => m = n
      /\ a \notin Extra(c) /\ a \in Extra(c)' => m = n + 1
      /\ a \in Extra(c) /\ a \notin Extra(c)' => m = n - 1
  BY ExtraMoves
<1>2. StateVote(c) \in {0, 1} /\ StateVote(c)' \in {0, 1}
  BY DEF StateVote
<1>3. votes[c] = n + StateVote(c)
  BY DEF Counted
<1>4. m + Holds(a, c) = n + Holds(a, c)' /\ Holds(a, c) \in {0, 1} /\ Holds(a, c)' \in {0, 1}
  BY <1>1 DEF Holds
<1> HIDE DEF n, m
<1>5. votes'[c] = m + StateVote(c)'
  BY <1>1, <1>2, <1>3, <1>4
<1> QED
  BY <1>5 DEF Counted, n, m

\* While deactivate_sync is between the vote and the state, the client is active
\* and nobody else changes that.
LEMMA TakenBackAlone ==
  ASSUME Disciplined, IInv, NEW c \in Clients, TakenBack(c)
  PROVE  /\ Active(c) /\ ~DeactivationPending(c)
         /\ \A t \in Threads : client[t] = c => pc[t] = "off" /\ call[t] = "deactivate_sync"
<1>1. PICK t \in Threads : client[t] = c /\ pc[t] = "off"
  BY DEF TakenBack
<1>2. call[t] = "deactivate_sync"
  BY <1>1 DEF IInv, ThreadStages, ThreadStage
<1>3. Active(c) /\ ~DeactivationPending(c)
  BY <1>1, <1>2 DEF IInv, SyncTeardown
<1>4. \A u \in Threads \ {t} : client[u] # c
  BY <1>1, <1>2, TeardownQuiet DEF TeardownCalls
<1> QED
  BY <1>1, <1>2, <1>3, <1>4

\* The votes are taken and given back with the states they belong to.
LEMMA NextVotesCounted ==
  ASSUME Disciplined, IInv, Next PROVE VotesCounted'
<1>0. /\ pc \in [Actors -> PCs]
      /\ client \in [Actors -> Clients \cup {NoClient}]
      /\ call \in [Actors -> CallNames \cup {"none", "deactivate", "scale"}]
      /\ state \in [Clients -> TimerFreeStates \cup TimerSetStates]
      /\ Worker \notin Threads /\ Actors = Threads \cup {Worker}
  BY ActorAssumption DEF IInv, TypeOK, Actors
<1>1. /\ ThreadStages /\ WorkerStages /\ OneFinisher /\ SyncTeardown /\ Unregistered
      /\ votes \in [Clients -> 0 .. MaxVotes] /\ skip \subseteq registered
      /\ \A c \in Clients \ skip : Counted(c)
  BY DEF IInv, TypeOK, Unregistered, VotesCounted, Counted
<1>2. \A c \in Clients : votes[c] \in Int
  BY <1>1, ClientAssumption
<1>3. ASSUME UNCHANGED <<pc, client, call, votes>>, skip \cap Clients \subseteq skip',
             \A c \in Clients : Active(c)' <=> Active(c)
      PROVE  VotesCounted'
  <2> SUFFICES ASSUME NEW c \in Clients \ skip' PROVE Counted(c)'
    BY DEF VotesCounted, Counted
  <2>1. Counted(c)
    BY <1>1, <1>3
  <2>2. Extra(c)' = Extra(c) /\ TakenBack(c)' = TakenBack(c)
    BY <1>3, ExtraStays
  <2>3. StateVote(c)' = StateVote(c)
    BY <1>3, <2>2 DEF StateVote
  <2> QED
    BY <1>3, <2>1, <2>2, <2>3 DEF Counted
<1>4. ASSUME NEW a \in Actors, Moves(a), skip' = skip,
             \A c \in Clients \ skip :
               /\ votes'[c] \in Int
               /\ votes'[c] + Holds(a, c) + StateVote(c)
                    = votes[c] + Holds(a, c)' + StateVote(c)'
      PROVE  VotesCounted'
  <2> SUFFICES ASSUME NEW c \in Clients \ skip PROVE Counted(c)'
    BY <1>4 DEF VotesCounted, Counted
  <2> QED
    BY <1>1, <1>2, <1>4, CountMoves
<1>5. ASSUME NEW a \in Actors, Moves(a), NEW c \in Clients, pc[a] # "off", pc'[a] # "off"
      PROVE  TakenBack(c)' <=> TakenBack(c)
  BY <1>0, <1>5 DEF TakenBack, Moves
<1>6. ASSUME NEW a \in Actors, Moves(a), skip' = skip, votes' = votes,
             pc[a] \notin {"got", "worklocked", "completeoff", "dec", "off"},
             pc'[a] \notin {"got", "worklocked", "completeoff", "off"},
             pc'[a] = "dec" => call'[a] = "deactivate_sync",
             \A c \in Clients \ skip : Active(c)' <=> Active(c)
      PROVE  VotesCounted'
  <2> SUFFICES ASSUME NEW c \in Clients \ skip
               PROVE  Holds(a, c) = Holds(a, c)' /\ StateVote(c) = StateVote(c)'
    BY <1>2, <1>4, <1>6
  <2>1. Holds(a, c) = 0 /\ Holds(a, c)' = 0
    BY <1>6 DEF Holds, Extra
  <2>2. StateVote(c)' = StateVote(c)
    BY <1>5, <1>6 DEF StateVote
  <2> QED
    BY <2>1, <2>2
<1>7. ASSUME NEW c \in Clients, Register(c) PROVE VotesCounted'
  <2>1. state' = state
    BY <1>0, <1>1, <1>7 DEF Register, SetState, Unregistered
  <2>2. skip \subseteq skip'
    BY <1>1, <1>7 DEF Register
  <2>3. UNCHANGED <<pc, client, call, votes>>
    BY <1>7 DEF Register, clockVars, callVars
  <2> QED
    BY <1>3, <2>1, <2>2, <2>3 DEF Active
<1>8. ASSUME NEW c \in Clients, TimerFire(c) PROVE VotesCounted'
  <2>1. UNCHANGED <<pc, client, call, votes, state, skip>>
    BY <1>8 DEF TimerFire, clockVars, callVars, clientVars
  <2> QED
    BY <1>3, <2>1 DEF Active
<1>9. ASSUME NEW t \in Threads, NEW c \in Clients, ActivateNow(t, c) PROVE VotesCounted'
  <2>1. /\ Moves(t) /\ pc[t] = "idle" /\ pc'[t] = "setbit" /\ skip' = skip /\ t \in Actors
        /\ state[c] = "DEACTIVATED" /\ state' = [state EXCEPT ![c] = "ACTIVATED"]
    BY <1>0, <1>9, ThreadMoves DEF ActivateNow, MayCall, Idle, Enter, Goto, SetState, Request,
       IInv
  <2>2. ~TakenBack(c)
    BY <2>1, TakenBackAlone DEF Active, TimerSetStates
  <2>3. \A d \in Clients : TakenBack(d)' <=> TakenBack(d)
    BY <1>5, <2>1
  <2>4. \A d \in Clients : Holds(t, d) = 0 /\ Holds(t, d)' = 0
    BY <2>1 DEF Holds, Extra
  <2>5. StateVote(c) = 0 /\ StateVote(c)' = 1
    BY <1>0, <2>1, <2>2, <2>3 DEF StateVote, Active, TimerSetStates
  <2>6. \A d \in Clients : d # c => StateVote(d)' = StateVote(d)
    BY <1>0, <2>1, <2>3 DEF StateVote, Active
  <2>7. \A d \in Clients \ skip :
          votes'[d] \in Int /\ votes'[d] = votes[d] + (IF d = c THEN 1 ELSE 0)
    BY <1>1, <1>2, <1>9 DEF ActivateNow, Vote
  <2>8. ASSUME NEW d \in Clients \ skip
        PROVE  votes'[d] + Holds(t, d) + StateVote(d) = votes[d] + Holds(t, d)' + StateVote(d)'
    <3>1. CASE d = c
      BY <1>2, <2>4, <2>5, <2>7, <3>1
    <3>2. CASE d # c
      BY <1>2, <2>4, <2>6, <2>7, <3>2
    <3> QED
      BY <3>1, <3>2
  <2> QED
    BY <1>4, <2>1, <2>7, <2>8
<1>10. ASSUME NEW t \in Threads, Request(t), ~\E c \in Clients : ActivateNow(t, c)
       PROVE  VotesCounted'
  <2>1. /\ Moves(t) /\ t \in Actors /\ pc[t] = "idle"
        /\ pc'[t] \in {"idle", "setbit", "inc", "wait", "cancel", "begin", "next"}
    BY <1>0, <1>10, OtherSteps
  <2>2. skip' = skip /\ votes' = votes
    BY <1>10 DEF Request, ActivateInProgress, ActivateActive, ActivateLater, ActivateSync,
       ActivateSyncWaits, DeferredDeactivate, DeactivateSync, Deregister, DeactivateAll,
       clientVars, clockVars
  <2>3. ASSUME NEW c \in Clients \ skip PROVE Active(c)' <=> Active(c)
    <3> USE DEF SetState, Active
    <3>1. ASSUME NEW d \in Clients, ActivateInProgress(t, d) \/ ActivateActive(t, d)
          PROVE  Active(c)' <=> Active(c)
      BY <1>0, <2>3, <3>1 DEF ActivateInProgress, ActivateActive, KeepActive, InProgress,
         TimerSetStates
    <3>2. ASSUME NEW d \in Clients,
                 ActivateLater(t, d) \/ ActivateSync(t, d) \/ ActivateSyncWaits(t, d)
          PROVE  Active(c)' <=> Active(c)
      BY <1>0, <2>3, <3>2 DEF ActivateLater, ActivateSync, SyncSwitch, KeepActive,
         ActivateSyncWaits, TimerSetStates, clientVars
    <3>3. ASSUME NEW d \in Clients,
                 DeferredDeactivate(t, d) \/ DeactivateSync(t, d) \/ Deregister(t, d)
          PROVE  Active(c)' <=> Active(c)
      BY <1>0, <2>3, <3>3 DEF DeferredDeactivate, DeactivateSync, Deregister, TimerSetStates,
         clientVars
    <3>4. CASE DeactivateAll(t)
      BY <3>4 DEF DeactivateAll, clientVars
    <3> QED
      BY <1>10, <3>1, <3>2, <3>3, <3>4 DEF Request
  <2> QED
    BY <1>6, <2>1, <2>2, <2>3
<1>11. ASSUME NEW t \in Threads,
              \/ Woken(t) \/ ActivateSyncWoken(t) \/ Cancel(t) \/ Flush(t) \/ Look(t)
              \/ DeactivateSyncWoken(t) \/ NextClient(t) \/ DeregisterDecides(t) \/ Free(t)
       PROVE  VotesCounted'
  <2>1. Moves(t) /\ t \in Actors
    BY <1>0, <1>11, ThreadMoves DEF Progress, IInv
  <2>2. skip' = skip /\ votes' = votes
    BY <1>11 DEF Woken, ActivateSyncWoken, Cancel, Flush, Look, DeactivateSyncWoken, NextClient,
       DeregisterDecides, Free, clientVars, clockVars
  <2>3. /\ pc[t] \notin {"got", "worklocked", "completeoff", "dec", "off"}
        /\ pc'[t] \notin {"got", "worklocked", "completeoff", "off"}
        /\ pc'[t] = "dec" => call'[t] = "deactivate_sync"
    BY <1>0, <1>11 DEF Woken, ActivateSyncWoken, SyncSwitch, Cancel, Flush, Look,
       DeactivateSyncWoken, NextClient, DeregisterDecides, Free, Enter, Return, Goto, callVars
  <2>4. ASSUME NEW c \in Clients \ skip PROVE Active(c)' <=> Active(c)
    BY <1>0, <1>11, <2>4 DEF Woken, ActivateSyncWoken, SyncSwitch, KeepActive, Cancel, Flush,
       Look, DeactivateSyncWoken, NextClient, DeregisterDecides, Free, SetState, Active,
       TimerSetStates, clientVars
  <2> QED
    BY <1>6, <2>1, <2>2, <2>3, <2>4
<1>12. ASSUME NEW a \in Actors, SetBit(a) \/ ClearBit(a) \/ ScaleSample(a) \/ ScaleApply(a)
       PROVE  VotesCounted'
  <2>1. Moves(a)
    BY <1>0, <1>12, ThreadMoves, WorkerMoves DEF Progress, Work, IInv
  <2>2. UNCHANGED <<skip, votes, state>>
    BY <1>12 DEF SetBit, ClearBit, ScaleSample, ScaleApply, clientVars
  <2>3. /\ pc[a] \notin {"got", "worklocked", "completeoff", "dec", "off"}
        /\ pc'[a] \notin {"got", "worklocked", "completeoff", "dec", "off"}
    BY <1>0, <1>12 DEF SetBit, ClearBit, ScaleSample, ScaleApply, Return, Goto
  <2> QED
    BY <1>6, <2>1, <2>2, <2>3 DEF Active
<1>13. ASSUME WorkStart PROVE VotesCounted'
  <2>1. Moves(Worker) /\ UNCHANGED <<skip, votes, state>> /\ pc[Worker] = "idle"
    BY <1>13, WorkerMoves DEF WorkStart, Work, IInv, clientVars, clockVars, Idle
  <2>2. pc'[Worker] \in {"work", "expired", "scale"}
    <3>1. Head(wq) \in Works
      BY <1>13, QueueEffects
    <3> QED
      BY <1>0, <1>13, <3>1 DEF WorkStart, Enter, Goto, Works
  <2> QED
    BY <1>0, <1>6, <2>1, <2>2 DEF Active
<1>14. ASSUME NEW a \in Actors, NEW c \in Clients, client[a] = c, client'[a] = c, Moves(a),
              skip' = skip, pc[a] # "off", pc'[a] # "off",
              \A d \in Clients : d # c => state'[d] = state[d] /\ votes'[d] = votes[d],
              c \notin skip =>
                /\ votes'[c] \in Int
                /\ votes'[c] + Holds(a, c) + StateVote(c)
                     = votes[c] + Holds(a, c)' + StateVote(c)'
       PROVE  VotesCounted'
  <2>1. ASSUME NEW d \in Clients, d # c
        PROVE  /\ votes'[d] \in Int
               /\ votes'[d] + Holds(a, d) + StateVote(d)
                    = votes[d] + Holds(a, d)' + StateVote(d)'
    <3>1. Holds(a, d) = 0 /\ Holds(a, d)' = 0
      BY <1>14, <2>1 DEF Holds, Extra
    <3>2. StateVote(d)' = StateVote(d)
      BY <1>5, <1>14, <2>1 DEF StateVote, Active
    <3> QED
      BY <1>2, <1>14, <2>1, <3>1, <3>2
  <2> QED
    BY <1>4, <1>14, <2>1
<1>15. ASSUME NEW a \in Actors, NEW c \in Clients, client[a] = c, client'[a] = c, Moves(a),
              pc[a] \in {"inc", "work"}, pc'[a] \in {"got", "worklocked"},
              UNCHANGED <<skip, state>>, Vote(c)
       PROVE  VotesCounted'
  <2>1. \A d \in Clients : d # c => state'[d] = state[d] /\ votes'[d] = votes[d]
    BY <1>1, <1>15 DEF Vote
  <2>2. c \notin skip => votes'[c] = votes[c] + 1 /\ votes'[c] \in Int
    BY <1>1, <1>2, <1>15 DEF Vote
  <2>3. Holds(a, c) = 0 /\ Holds(a, c)' = 1
    BY <1>15 DEF Holds, Extra
  <2>4. StateVote(c)' = StateVote(c) /\ StateVote(c) \in Int
    BY <1>5, <1>15 DEF StateVote, Active
  <2> QED
    BY <1>2, <1>14, <1>15, <2>1, <2>2, <2>3, <2>4
<1>16. ASSUME NEW a \in Actors, NEW c \in Clients, client[a] = c, client'[a] = c, Moves(a),
              pc[a] \notin {"dec", "off"}, pc'[a] # "off", UNCHANGED <<skip, votes>>,
              \A d \in Clients : d # c => state'[d] = state[d],
              ~TakenBack(c),
              (IF a \in Extra(c) THEN ~Active(c) ELSE Active(c)),
              Active(c)' <=> a \notin Extra(c)'
       PROVE  VotesCounted'
  <2>1. ~TakenBack(c)'
    BY <1>5, <1>16
  <2>2. Holds(a, c) + StateVote(c) = 1 /\ Holds(a, c)' + StateVote(c)' = 1
    BY <1>16, <2>1 DEF Holds, StateVote
  <2>3. /\ Holds(a, c) \in Int /\ StateVote(c) \in Int
        /\ Holds(a, c)' \in Int /\ StateVote(c)' \in Int
    BY DEF Holds, StateVote
  <2> QED
    BY <1>2, <1>14, <1>16, <2>2, <2>3
<1>17. ASSUME NEW t \in Threads, SyncVote(t) PROVE VotesCounted'
  <2>1. client[t] \in Clients /\ Moves(t)
    BY <1>1, <1>17, ThreadMoves DEF SyncVote, ThreadStages, ThreadStage, Progress, IInv
  <2> QED
    BY <1>0, <1>15, <1>17, <2>1 DEF SyncVote, Goto, clientVars
<1>18. ASSUME NEW t \in Threads, SyncGot(t) PROVE VotesCounted'
  <2>1. PICK c \in Clients : client[t] = c
    BY <1>1, <1>18 DEF SyncGot, ThreadStages, ThreadStage
  <2>2. /\ pc[t] = "got" /\ pc'[t] = "setbit" /\ client' = client /\ UNCHANGED <<skip, votes>>
        /\ state' = [state EXCEPT ![c] = "ACTIVATED"] /\ Moves(t) /\ t \in Actors
    BY <1>0, <1>18, <2>1, ThreadMoves DEF SyncGot, Goto, SetState, clockVars, Progress, IInv
  <2>3. InProgress(c)
    BY <1>1, <2>1, <2>2 DEF OneFinisher, FinishedOnce, Finishers
  <2>4. ~Active(c) /\ ~TakenBack(c)
    BY <2>3, TakenBackAlone DEF Active, InProgress, TimerSetStates
  <2>5. t \in Extra(c) /\ t \notin Extra(c)' /\ Active(c)'
    BY <1>0, <2>1, <2>2 DEF Extra, Active
  <2> QED
    BY <1>0, <1>16, <2>1, <2>2, <2>4, <2>5
<1>19. ASSUME NEW t \in Threads, SyncOff(t) PROVE VotesCounted'
  <2>1. PICK c \in Clients : client[t] = c
    BY <1>1, <1>19 DEF SyncOff, ThreadStages, ThreadStage
  <2>2. /\ pc[t] = "off" /\ pc'[t] = "recancel" /\ client' = client /\ UNCHANGED <<skip, votes>>
        /\ state' = [state EXCEPT ![c] = "DEACTIVATED"] /\ Moves(t) /\ t \in Actors
    BY <1>0, <1>19, <2>1, ThreadMoves DEF SyncOff, Goto, SetState, clockVars, Progress, IInv
  <2>3. \A d \in Clients : Holds(t, d) = 0 /\ Holds(t, d)' = 0
    BY <2>2 DEF Holds, Extra
  <2>4. StateVote(c) = 0 /\ StateVote(c)' = 0
    BY <1>0, <2>1, <2>2 DEF StateVote, TakenBack, Active, TimerSetStates
  <2>5. ASSUME NEW d \in Clients, d # c PROVE StateVote(d)' = StateVote(d)
    <3>1. TakenBack(d)' <=> TakenBack(d)
      BY <1>0, <2>1, <2>2, <2>5 DEF TakenBack, Moves
    <3> QED
      BY <1>0, <2>2, <2>5, <3>1 DEF StateVote, Active
  <2> QED
    BY <1>2, <1>4, <2>2, <2>3, <2>4, <2>5
<1>20. ASSUME NEW t \in Threads, AllWoken(t) PROVE VotesCounted'
  <2>1. PICK c \in Clients : client[t] = c
    BY <1>1, <1>20 DEF AllWoken, ThreadStages, ThreadStage
  <2>2. /\ pc[t] = "woken" /\ pc'[t] \in {"next", "dec"} /\ client' = client /\ call' = call
        /\ UNCHANGED <<skip, votes>> /\ Moves(t) /\ t \in Actors
        /\ call[t] = "deactivate_all_deferred"
    BY <1>0, <1>20, ThreadMoves DEF AllWoken, Goto, clockVars, Progress, IInv
  <2>3. CASE state[c] \in {"PENDING_DEACTIVATION", "PENDING_RESCHEDULE"}
    <3>1. pc'[t] = "dec" /\ state' = [state EXCEPT ![c] = "DEACTIVATED"]
      BY <1>0, <1>20, <2>1, <2>3 DEF AllWoken, Goto, SetState, TimerFreeStates
    <3>2. ~TakenBack(c)
      BY <2>1, <2>2, TakenBackAlone
    <3>3. t \notin Extra(c) /\ Active(c) /\ t \in Extra(c)' /\ ~Active(c)'
      BY <1>0, <2>1, <2>2, <2>3, <3>1 DEF Extra, Active, TimerSetStates
    <3> QED
      BY <1>0, <1>16, <2>1, <2>2, <3>1, <3>2, <3>3
  <2>4. CASE state[c] \notin {"PENDING_DEACTIVATION", "PENDING_RESCHEDULE"}
    <3>1. pc'[t] = "next" /\ \A d \in Clients : Active(d)' <=> Active(d)
      BY <1>0, <1>20, <2>1, <2>4 DEF AllWoken, Goto, SetState, Active, TimerSetStates
    <3> QED
      BY <1>6, <2>2, <3>1
  <2> QED
    BY <2>3, <2>4
<1>21. ASSUME NEW a \in Actors, Devote(a) PROVE VotesCounted'
  <2>1. PICK c \in Clients : client[a] = c
    BY <1>0, <1>1, <1>21 DEF Devote, ThreadStages, ThreadStage, WorkerStages
  <2>2. /\ Moves(a) /\ pc[a] = "dec" /\ UNCHANGED <<skip, state>>
        /\ pc'[a] = "off" <=> call[a] = "deactivate_sync"
        /\ pc'[a] \in {"idle", "off", "clearbit"}
        /\ call[a] = "deactivate_sync" => a \in Threads /\ client' = client /\ call' = call
        /\ client'[a] \in {c, NoClient}
    BY <1>0, <1>1, <1>21, <2>1, ThreadMoves, WorkerMoves
    DEF Devote, Return, Goto, Progress, Work, IInv, WorkerStages, callVars
  <2>3. \A d \in Clients \ skip :
          votes'[d] \in Int /\ votes'[d] = votes[d] - (IF d = c THEN 1 ELSE 0)
    BY <1>1, <1>2, <1>21, <2>1 DEF Devote, Unvote
  <2>4. CASE call[a] # "deactivate_sync"
    <3>1. \A d \in Clients : Holds(a, d)' = 0 /\ Holds(a, d) = (IF d = c THEN 1 ELSE 0)
      BY <2>1, <2>2, <2>4 DEF Holds, Extra
    <3>2. \A d \in Clients : StateVote(d)' = StateVote(d) /\ StateVote(d) \in Int
      BY <1>5, <2>2, <2>4 DEF StateVote, Active
    <3>3. ASSUME NEW d \in Clients \ skip
          PROVE  votes'[d] + Holds(a, d) + StateVote(d)
                   = votes[d] + Holds(a, d)' + StateVote(d)'
      <4>1. CASE d = c
        BY <1>2, <2>3, <3>1, <3>2, <4>1
      <4>2. CASE d # c
        BY <1>2, <2>3, <3>1, <3>2, <4>2
      <4> QED
        BY <4>1, <4>2
    <3> QED
      BY <1>4, <2>2, <2>3, <3>3
  <2>5. CASE call[a] = "deactivate_sync"
    <3>1. \A d \in Clients : Holds(a, d) = 0 /\ Holds(a, d)' = 0
      BY <2>2, <2>5 DEF Holds, Extra
    <3>2. Active(c)
      BY <1>1, <2>1, <2>2, <2>5 DEF SyncTeardown
    <3>3. ~TakenBack(c)
      BY <2>1, <2>2, <2>5, TakenBackAlone
    <3>4. StateVote(c) = 1 /\ StateVote(c)' = 0
      BY <2>1, <2>2, <2>5, <3>2, <3>3 DEF StateVote, TakenBack
    <3>5. ASSUME NEW d \in Clients, d # c
          PROVE  StateVote(d)' = StateVote(d) /\ StateVote(d) \in Int
      <4>1. TakenBack(d)' <=> TakenBack(d)
        BY <1>0, <2>1, <2>2, <2>5, <3>5 DEF TakenBack, Moves
      <4> QED
        BY <2>2, <4>1 DEF StateVote, Active
    <3>6. ASSUME NEW d \in Clients \ skip
          PROVE  votes'[d] + Holds(a, d) + StateVote(d)
                   = votes[d] + Holds(a, d)' + StateVote(d)'
      <4>1. CASE d = c
        BY <1>2, <2>3, <3>1, <3>4, <4>1
      <4>2. CASE d # c
        BY <1>2, <2>3, <3>1, <3>5, <4>2
      <4> QED
        BY <4>1, <4>2
    <3> QED
      BY <1>4, <2>2, <2>3, <3>6
  <2> QED
    BY <2>4, <2>5
<1>22. ASSUME ActivateWorkVotes PROVE VotesCounted'
  <2>1. client[Worker] \in Clients /\ Moves(Worker)
    BY <1>1, <1>22, WorkerMoves DEF ActivateWorkVotes, WorkerStages, Work, IInv
  <2> QED
    BY <1>0, <1>15, <1>22, <2>1 DEF ActivateWorkVotes, Goto
<1>23. ASSUME ActivateWorkLocked PROVE VotesCounted'
  <2>1. PICK c \in Clients : client[Worker] = c
    BY <1>1, <1>23 DEF ActivateWorkLocked, WorkerStages
  <2>2. /\ pc[Worker] = "worklocked" /\ client' = client /\ UNCHANGED <<skip, votes>>
        /\ Moves(Worker) /\ Worker \in Actors
    BY <1>0, <1>23, WorkerMoves DEF ActivateWorkLocked, clockVars, Work, IInv
  <2>3. InProgress(c)
    BY <1>0, <1>1, <2>1, <2>2 DEF OneFinisher, FinishedOnce, Finishers
  <2>4. ~Active(c) /\ ~TakenBack(c) /\ Worker \in Extra(c)
    BY <2>1, <2>2, <2>3, TakenBackAlone DEF Active, InProgress, TimerSetStates, Extra
  <2>5. \/ pc'[Worker] = "complete" /\ state' = [state EXCEPT ![c] = "ACTIVATED"]
        \/ pc'[Worker] = "completeoff" /\ state' = [state EXCEPT ![c] = "DEACTIVATED"]
    BY <1>0, <1>23, <2>1, <2>3 DEF ActivateWorkLocked, Goto, SetState, InProgress
  <2>6. Active(c)' <=> Worker \notin Extra(c)'
    BY <1>0, <2>1, <2>2, <2>5 DEF Active, Extra, TimerSetStates
  <2> QED
    BY <1>0, <1>16, <2>1, <2>2, <2>4, <2>5, <2>6
<1>24. ASSUME Complete PROVE VotesCounted'
  <2>1. PICK c \in Clients : client[Worker] = c
    BY <1>1, <1>24 DEF Complete, WorkerStages
  <2>2. /\ UNCHANGED <<skip, votes, state, client, call>> /\ Moves(Worker) /\ Worker \in Actors
        /\ pc[Worker] \in {"complete", "completeoff"} /\ call[Worker] # "deactivate_sync"
        /\ pc'[Worker] = IF pc[Worker] = "complete" THEN "setbit" ELSE "dec"
    BY <1>0, <1>1, <1>24, WorkerMoves
    DEF Complete, Goto, clockVars, callVars, Work, IInv, WorkerStages
  <2>3. Holds(Worker, c)' = Holds(Worker, c)
    BY <2>1, <2>2 DEF Holds, Extra
  <2>4. StateVote(c)' = StateVote(c)
    BY <1>5, <2>2 DEF StateVote, Active
  <2> QED
    BY <1>2, <1>14, <2>1, <2>2, <2>3, <2>4
<1>25. ASSUME DeactivateWorkLocked PROVE VotesCounted'
  <2>1. PICK c \in Clients : client[Worker] = c
    BY <1>1, <1>25 DEF DeactivateWorkLocked, WorkerStages
  <2>2. /\ UNCHANGED <<skip, votes>> /\ Moves(Worker) /\ Worker \in Actors
        /\ pc[Worker] = "expired" /\ pc'[Worker] \in {"idle", "dec"}
        /\ call[Worker] = "deactivate"
    BY <1>0, <1>1, <1>25, WorkerMoves
    DEF DeactivateWorkLocked, Return, Goto, clockVars, Work, IInv, WorkerStages
  <2>3. CASE state[c] = "PENDING_DEACTIVATION"
    <3>1. /\ pc'[Worker] = "dec" /\ state' = [state EXCEPT ![c] = "DEACTIVATED"]
          /\ client' = client /\ call' = call
      BY <1>0, <1>25, <2>1, <2>3 DEF DeactivateWorkLocked, Goto, SetState, TimerFreeStates,
         callVars
    <3>2. ~TakenBack(c)
      BY <2>1, <2>2, TakenBackAlone DEF DeactivationPending
    <3>3. Worker \notin Extra(c) /\ Active(c) /\ Worker \in Extra(c)' /\ ~Active(c)'
      BY <1>0, <2>1, <2>2, <2>3, <3>1 DEF Extra, Active, TimerSetStates
    <3> QED
      BY <1>0, <1>16, <2>1, <2>2, <3>1, <3>2, <3>3
  <2>4. CASE state[c] # "PENDING_DEACTIVATION"
    <3>1. pc'[Worker] = "idle" /\ \A d \in Clients : Active(d)' <=> Active(d)
      BY <1>0, <1>25, <2>1, <2>4
      DEF DeactivateWorkLocked, Return, Goto, SetState, Active, TimerSetStates
    <3> QED
      BY <1>6, <2>2, <3>1
  <2> QED
    BY <2>3, <2>4
<1> QED
  BY <1>0, <1>7, <1>8, <1>9, <1>10, <1>11, <1>12, <1>13, <1>17, <1>18, <1>19, <1>20, <1>21,
     <1>22, <1>23, <1>24, <1>25 DEF Next, Progress, Work

-----------------------------------------------------------------------------
(* The timer                                                               *)

\* A state that needs a timer has one, or somebody who will change the state.
LEMMA NextTimerKept ==
  ASSUME Disciplined, IInv, Next PROVE TimerKept'
<1>0. /\ pc \in [Actors -> PCs]
      /\ client \in [Actors -> Clients \cup {NoClient}]
      /\ call \in [Actors -> CallNames \cup {"none", "deactivate", "scale"}]
      /\ state \in [Clients -> TimerFreeStates \cup TimerSetStates]
      /\ Worker \notin Threads /\ Actors = Threads \cup {Worker}
  BY ActorAssumption DEF IInv, TypeOK, Actors
<1>1. /\ ThreadStages /\ WorkerStages /\ OneCanceller /\ SyncTeardown /\ TimerKept
      /\ cancelling \subseteq Clients
  BY DEF IInv, TypeOK
<1>2. ASSUME NEW a \in Actors, NEW t \in Threads, NEW c \in Clients, Moves(a), t # a
      PROVE  WillSettle(t, c)' <=> WillSettle(t, c)
  BY <1>0, <1>2 DEF Moves, WillSettle
<1>3. ASSUME NEW c \in Clients, state'[c] \in TimerSetStates => state[c] \in TimerSetStates,
             DeactivationPending(c) => DeactivationPending(c)',
             \A t \in Threads : WillSettle(t, c) /\ state'[c] \in TimerSetStates
               => WillSettle(t, c)',
             state'[c] \in TimerSetStates
      PROVE  DeactivationPending(c)' \/ \E t \in Threads : WillSettle(t, c)'
  BY <1>1, <1>3 DEF TimerKept
<1>4. ASSUME NEW c \in cancelling, NEW a \in Actors, Moves(a), pc[a] \notin {"flush", "reflush"}
      PROVE  \E t \in Threads : WillSettle(t, c)'
  <2>1. PICK t \in Threads : pc[t] \in {"flush", "reflush"} /\ client[t] = c
    BY <1>1, <1>4 DEF OneCanceller
  <2>2. WillSettle(t, c)
    BY <1>1, <2>1 DEF ThreadStages, ThreadStage, WillSettle
  <2> QED
    BY <1>1, <1>2, <1>4, <2>1, <2>2
<1>5. ASSUME NEW d \in Clients, Register(d), NEW c \in Clients, state'[c] \in TimerSetStates
      PROVE  DeactivationPending(c)' \/ \E t \in Threads : WillSettle(t, c)'
  <2>1. UNCHANGED <<pc, client, call, timer, wq>>
    BY <1>5 DEF Register, workVars, callVars
  <2>2. state[c] \in TimerSetStates
    BY <1>0, <1>5 DEF Register, SetState, TimerSetStates
  <2>3. DeactivationPending(c) => DeactivationPending(c)'
    BY <2>1, SameQueue DEF DeactivationPending
  <2>4. \A t \in Threads : WillSettle(t, c) => WillSettle(t, c)'
    BY <2>1 DEF WillSettle
  <2> QED
    BY <1>3, <1>5, <2>2, <2>3, <2>4
<1>6. ASSUME NEW d \in Clients, TimerFire(d), NEW c \in Clients, state'[c] \in TimerSetStates
      PROVE  DeactivationPending(c)' \/ \E t \in Threads : WillSettle(t, c)'
  <2>1. /\ UNCHANGED <<pc, client, call, state>> /\ timer' = timer \ {d}
        /\ \A v : Queued(v)' <=> Queued(v) \/ v = <<"deactivate", d>>
    BY <1>6, QueueEffects DEF TimerFire, clientVars, callVars
  <2>2. DeactivationPending(c) => DeactivationPending(c)'
    BY <2>1 DEF DeactivationPending
  <2>3. \A t \in Threads : WillSettle(t, c) => WillSettle(t, c)'
    BY <2>1 DEF WillSettle
  <2> QED
    BY <1>3, <1>6, <2>1, <2>2, <2>3
<1>7. ASSUME NEW t \in Threads, Request(t), NEW c \in Clients, state'[c] \in TimerSetStates
      PROVE  DeactivationPending(c)' \/ \E u \in Threads : WillSettle(u, c)'
  <2>1. /\ Moves(t) /\ pc[t] = "idle"
        /\ \A d : Queued(<<"deactivate", d>>)' <=> Queued(<<"deactivate", d>>)
    BY <1>7, OtherSteps
  <2>2. timer \subseteq timer'
    BY <1>7 DEF Request, ActivateInProgress, ActivateActive, ActivateNow, ActivateLater,
       ActivateSync, ActivateSyncWaits, DeferredDeactivate, ArmTimer, DeactivateSync,
       Deregister, DeactivateAll, workVars
  <2>3. DeactivationPending(c) => DeactivationPending(c)'
    BY <1>0, <2>1, <2>2 DEF DeactivationPending, Moves
  <2>4. ~WillSettle(t, c)
    BY <1>1, <2>1 DEF ThreadStages, ThreadStage, WillSettle
  <2>5. CASE state[c] \in TimerSetStates
    BY <1>0, <1>2, <1>3, <1>7, <2>1, <2>3, <2>4, <2>5
  <2>6. CASE state[c] \notin TimerSetStates
    <3>1. PICK d \in Clients : DeferredDeactivate(t, d)
      BY <1>0, <1>7, <2>6 DEF Request, ActivateInProgress, ActivateActive, KeepActive,
         ActivateNow, ActivateLater, ActivateSync, SyncSwitch, ActivateSyncWaits,
         DeactivateSync, Deregister, DeactivateAll, SetState, TimerSetStates, clientVars
    <3>2. ArmTimer(c)
      BY <1>0, <1>7, <2>6, <3>1 DEF DeferredDeactivate, SetState, TimerSetStates
    <3>3. CASE c \in cancelling
      BY <1>0, <1>4, <2>1, <3>3
    <3>4. CASE c \notin cancelling
      BY <2>1, <3>2, <3>4 DEF ArmTimer, DeactivationPending
    <3> QED
      BY <3>3, <3>4
  <2> QED
    BY <2>5, <2>6
<1>8. ASSUME NEW t \in Threads, Cancel(t), NEW c \in Clients, state'[c] \in TimerSetStates
      PROVE  DeactivationPending(c)' \/ \E u \in Threads : WillSettle(u, c)'
  <2>1. /\ client[t] \in Clients
        /\ \A v : Queued(v)' <=> Queued(v) /\ v # <<"deactivate", client[t]>>
    BY <1>8, QueueEffects
  <2>2. /\ timer' = timer \ {client[t]} /\ UNCHANGED <<client, call, state>>
        /\ pc[t] \in {"cancel", "recancel"} /\ Moves(t)
        /\ pc'[t] = IF pc[t] = "cancel" THEN "flush" ELSE "reflush"
    BY <1>0, <1>8, ThreadMoves DEF Cancel, Goto, clientVars, callVars, Progress, IInv
  <2>3. CASE client[t] = c
    BY <1>1, <2>2, <2>3 DEF ThreadStages, ThreadStage, WillSettle
  <2>4. CASE client[t] # c
    <3>1. DeactivationPending(c) => DeactivationPending(c)'
      BY <1>0, <2>1, <2>2, <2>4 DEF DeactivationPending, Moves
    <3>2. ~WillSettle(t, c)
      BY <2>4 DEF WillSettle
    <3> QED
      BY <1>0, <1>2, <1>3, <1>8, <2>2, <3>1, <3>2
  <2> QED
    BY <2>3, <2>4
<1>9. ASSUME NEW t \in Threads, Progress(t), ~Cancel(t), NEW c \in Clients,
             state'[c] \in TimerSetStates
      PROVE  DeactivationPending(c)' \/ \E u \in Threads : WillSettle(u, c)'
  <2>1. /\ Moves(t) /\ timer' = timer
        /\ \A d : Queued(<<"deactivate", d>>)' <=> Queued(<<"deactivate", d>>)
    BY <1>9, OtherSteps
  <2>2. DeactivationPending(c) => DeactivationPending(c)'
    BY <1>0, <2>1 DEF DeactivationPending, Moves
  <2>3. state[c] \in TimerSetStates
    BY <1>0, <1>9 DEF Progress, Woken, ActivateSyncWoken, SyncSwitch, KeepActive, SyncVote,
       SyncGot, SetBit, Flush, Look, DeactivateSyncWoken, SyncOff, Devote, ClearBit,
       NextClient, AllWoken, DeregisterDecides, Free, ScaleSample, ScaleApply, SetState,
       TimerSetStates, clientVars
  <2>4. ASSUME WillSettle(t, c) PROVE WillSettle(t, c)'
    <3>1. CASE call[t] = "deactivate_sync"
      <4>1. pc[t] \notin {"scale", "apply"}
        BY <1>1, <2>3, <2>4, <3>1 DEF SyncTeardown, WillSettle, TimerSetStates
      <4>2. \/ Woken(t) \/ Flush(t) \/ Look(t) \/ DeactivateSyncWoken(t) \/ SyncOff(t)
            \/ Devote(t) \/ ClearBit(t)
        BY <1>1, <1>9, <3>1, <4>1 DEF Progress, ActivateSyncWoken, SyncVote, SyncGot, SetBit,
           NextClient, AllWoken, DeregisterDecides, Free, ScaleSample, ScaleApply,
           ThreadStages, ThreadStage
      <4>3. client'[t] = c /\ call'[t] = "deactivate_sync"
        BY <1>0, <2>3, <2>4, <3>1, <4>2 DEF Woken, Flush, Look, DeactivateSyncWoken, SyncOff,
           Devote, ClearBit, callVars, WillSettle, TimerSetStates
      <4> QED
        BY <4>3 DEF WillSettle
    <3>2. CASE call[t] # "deactivate_sync"
      <4>1. /\ client[t] = c /\ call[t] = "deactivate_all_deferred"
            /\ pc[t] \in {"flush", "look", "woken"}
        BY <2>4, <3>2 DEF WillSettle
      <4>2. Flush(t) \/ Look(t) \/ AllWoken(t)
        BY <1>9, <4>1 DEF Progress, Woken, ActivateSyncWoken, SyncVote, SyncGot, SetBit,
           DeactivateSyncWoken, SyncOff, Devote, ClearBit, NextClient, DeregisterDecides, Free,
           ScaleSample, ScaleApply
      <4>3. ~AllWoken(t)
        BY <1>0, <1>9, <4>1 DEF AllWoken, SetState, TimerSetStates, TimerFreeStates
      <4>4. client' = client /\ call' = call /\ pc'[t] \in {"look", "woken"}
        BY <1>0, <2>3, <4>1, <4>2, <4>3
        DEF Flush, Look, Goto, callVars, InProgress, TimerSetStates
      <4> QED
        BY <4>1, <4>4 DEF WillSettle
    <3> QED
      BY <3>1, <3>2
  <2> QED
    BY <1>0, <1>2, <1>3, <1>9, <2>1, <2>2, <2>3, <2>4
<1>10. ASSUME Work, NEW c \in Clients PROVE \A t \in Threads : WillSettle(t, c) => WillSettle(t, c)'
  BY <1>0, <1>2, <1>10, WorkerMoves DEF IInv
<1>11. ASSUME WorkStart, NEW c \in Clients, state'[c] \in TimerSetStates
       PROVE  DeactivationPending(c)' \/ \E t \in Threads : WillSettle(t, c)'
  <2>1. /\ Head(wq) \in Works
        /\ \A v : Queued(v)' <=> Queued(v) /\ v # Head(wq)
    BY <1>11, QueueEffects
  <2>2. Head(wq) = <<"deactivate", c>> => pc'[Worker] = "expired" /\ client'[Worker] = c
    BY <1>0, <1>11 DEF WorkStart, Enter, Goto
  <2>3. UNCHANGED <<state, timer>> /\ pc[Worker] # "expired"
    BY <1>11 DEF WorkStart, clientVars, Idle
  <2>4. DeactivationPending(c) => DeactivationPending(c)'
    BY <2>1, <2>2, <2>3 DEF DeactivationPending
  <2> QED
    BY <1>3, <1>10, <1>11, <2>3, <2>4 DEF Work
<1>12. ASSUME Work, ~WorkStart, ~DeactivateWorkLocked, NEW c \in Clients,
              state'[c] \in TimerSetStates
       PROVE  DeactivationPending(c)' \/ \E t \in Threads : WillSettle(t, c)'
  <2>1. \A d : Queued(<<"deactivate", d>>)' <=> Queued(<<"deactivate", d>>)
    BY <1>12, OtherSteps
  <2>2. timer' = timer /\ pc[Worker] # "expired"
    BY <1>12 DEF Work, ActivateWorkVotes, ActivateWorkLocked, Complete, SetBit, Devote,
       ClearBit, ScaleSample, ScaleApply, workVars
  <2>3. DeactivationPending(c) => DeactivationPending(c)'
    BY <2>1, <2>2 DEF DeactivationPending
  <2>4. state[c] \in TimerSetStates
    BY <1>0, <1>12 DEF Work, ActivateWorkVotes, ActivateWorkLocked, Complete, SetBit, Devote,
       ClearBit, ScaleSample, ScaleApply, SetState, TimerSetStates, clientVars
  <2> QED
    BY <1>3, <1>10, <1>12, <2>3, <2>4
<1>13. ASSUME DeactivateWorkLocked, NEW c \in Clients, state'[c] \in TimerSetStates
       PROVE  DeactivationPending(c)' \/ \E t \in Threads : WillSettle(t, c)'
  <2>1. /\ Moves(Worker) /\ pc[Worker] = "expired" /\ Work /\ ~WorkStart
        /\ \A d : Queued(<<"deactivate", d>>)' <=> Queued(<<"deactivate", d>>)
    BY <1>13, OtherSteps DEF Work, DeactivateWorkLocked, WorkStart, Idle
  <2>2. timer \subseteq timer'
    BY <1>13 DEF DeactivateWorkLocked, ArmTimer
  <2>3. CASE client[Worker] # c
    <3>1. state'[c] = state[c]
      BY <1>0, <1>13, <2>3 DEF DeactivateWorkLocked, SetState
    <3>2. DeactivationPending(c) => DeactivationPending(c)'
      BY <2>1, <2>2, <2>3 DEF DeactivationPending
    <3> QED
      BY <1>3, <1>10, <1>13, <2>1, <3>1, <3>2
  <2>4. CASE client[Worker] = c
    <3>1. ArmTimer(c)
      BY <1>0, <1>13, <2>4 DEF DeactivateWorkLocked, SetState, TimerSetStates, TimerFreeStates
    <3>2. CASE c \in cancelling
      BY <1>0, <1>4, <2>1, <3>2
    <3>3. CASE c \notin cancelling
      BY <2>1, <3>1, <3>3 DEF ArmTimer, DeactivationPending
    <3> QED
      BY <3>2, <3>3
  <2> QED
    BY <2>3, <2>4
<1>14. ASSUME NEW c \in Clients, state'[c] \in TimerSetStates
       PROVE  DeactivationPending(c)' \/ \E t \in Threads : WillSettle(t, c)'
  BY <1>5, <1>6, <1>7, <1>8, <1>9, <1>11, <1>12, <1>13, <1>14 DEF Next
<1> QED
  BY <1>14 DEF TimerKept

-----------------------------------------------------------------------------
(* What was asked for                                                      *)

\* WantedState for one client.
Settled(c) ==
  /\ state[c] \in {"ACTIVATED", "TIMER_SET"} => wanted[c] = "on"
  /\ state[c] \in {"DEACTIVATED", "PENDING_DEACTIVATION", "PENDING_RESCHEDULE",
                  "DEACTIVATE_IN_PROGRESS"} => wanted[c] = "off"
  /\ state[c] = "ACTIVATE_IN_PROGRESS" =>
       wanted[c] = "on" \/ \E t \in Threads : t \in Finishers(c)

\* Every step keeps the state in line with what was asked for last.
LEMMA NextWantedState ==
  ASSUME IInv, Next PROVE WantedState'
<1>0. /\ pc \in [Actors -> PCs]
      /\ client \in [Actors -> Clients \cup {NoClient}]
      /\ call \in [Actors -> CallNames \cup {"none", "deactivate", "scale"}]
      /\ state \in [Clients -> TimerFreeStates \cup TimerSetStates]
      /\ Worker \notin Threads /\ Actors = Threads \cup {Worker}
  BY ActorAssumption DEF IInv, TypeOK, Actors
<1>1. /\ ThreadStages /\ WorkerStages /\ OneFinisher /\ \A c \in Clients : Settled(c)
      /\ wanted \in [Clients -> {"on", "off"}]
  BY DEF IInv, TypeOK, WantedState, Settled
<1>2. ASSUME NEW a \in Actors, Moves(a), pc[a] \notin {"inc", "got"},
             NEW c \in Clients, NEW t \in Threads, t \in Finishers(c)
      PROVE  t \in Finishers(c)'
  <2>1. pc[t] \in {"inc", "got"} /\ client[t] = c
    BY <1>1, <1>2 DEF Finishers, ThreadStages, ThreadStage
  <2> QED
    BY <1>0, <1>2, <2>1 DEF Finishers, Moves
<1>3. ASSUME NEW c \in Clients, state'[c] = state[c], wanted'[c] = wanted[c],
             \A t \in Threads : t \in Finishers(c) => t \in Finishers(c)'
      PROVE  Settled(c)'
  BY <1>1, <1>3 DEF Settled
<1>4. ASSUME NEW a \in Actors, Moves(a), pc[a] \notin {"inc", "got"},
             NEW c \in Clients, state'[c] = state[c], wanted'[c] = wanted[c]
      PROVE  Settled(c)'
  BY <1>2, <1>3, <1>4
<1>5. ASSUME NEW d \in Clients, Register(d) \/ TimerFire(d), NEW c \in Clients PROVE Settled(c)'
  <2>1. UNCHANGED <<pc, client, call>>
    BY <1>5 DEF Register, TimerFire, callVars
  <2>2. CASE state'[c] = state[c] /\ wanted'[c] = wanted[c]
    BY <1>3, <2>1, <2>2, ExtraStays
  <2>3. CASE ~(state'[c] = state[c] /\ wanted'[c] = wanted[c])
    BY <1>0, <1>1, <1>5, <2>3 DEF Register, TimerFire, SetState, Want, clientVars, Settled
  <2> QED
    BY <2>2, <2>3
<1>6. ASSUME NEW t \in Threads, NEW c \in Clients,
             state'[c] = "ACTIVATE_IN_PROGRESS", Enter(t, c, "activate_sync", "inc")
      PROVE  Settled(c)'
  <2>1. t \in Finishers(c)'
    BY <1>0, <1>6 DEF Enter, Goto, Finishers
  <2> QED
    BY <1>6, <2>1 DEF Settled
<1>7. ASSUME NEW t \in Threads, Request(t), NEW c \in Clients PROVE Settled(c)'
  <2>1. Moves(t) /\ pc[t] = "idle"
    BY <1>7, OtherSteps
  <2>2. CASE state'[c] = state[c] /\ wanted'[c] = wanted[c]
    BY <1>0, <1>4, <2>1, <2>2
  <2>3. CASE ~(state'[c] = state[c] /\ wanted'[c] = wanted[c])
    <3>a. ASSUME NEW d \in Clients,
                 \/ ActivateInProgress(t, d) \/ ActivateActive(t, d) \/ ActivateNow(t, d)
                 \/ ActivateLater(t, d) \/ ActivateSync(t, d) \/ DeferredDeactivate(t, d)
          PROVE  d = c
      BY <1>0, <1>1, <2>3, <3>a DEF ActivateInProgress, ActivateActive, KeepActive,
         ActivateNow, ActivateLater, ActivateSync, SyncSwitch, DeferredDeactivate, SetState,
         Want
    <3>b. ASSUME NEW d \in Clients,
                 ActivateSyncWaits(t, d) \/ DeactivateSync(t, d) \/ Deregister(t, d)
          PROVE  FALSE
      BY <2>3, <3>b DEF ActivateSyncWaits, DeactivateSync, Deregister, clientVars
    <3>c. ~DeactivateAll(t)
      BY <2>3 DEF DeactivateAll, clientVars
    <3>1. \/ ActivateInProgress(t, c) \/ ActivateActive(t, c) \/ ActivateNow(t, c)
          \/ ActivateLater(t, c) \/ ActivateSync(t, c) \/ DeferredDeactivate(t, c)
      BY <1>7, <3>a, <3>b, <3>c DEF Request
    <3>2. CASE ActivateInProgress(t, c) \/ ActivateActive(t, c) \/ ActivateNow(t, c)
               \/ ActivateLater(t, c)
      BY <1>0, <1>1, <3>2 DEF ActivateInProgress, ActivateActive, KeepActive, ActivateNow,
         ActivateLater, SetState, Want, Settled
    <3>3. CASE ActivateSync(t, c)
      <4>1. CASE Enter(t, c, "activate_sync", "inc") /\ SetState(c, "ACTIVATE_IN_PROGRESS")
        BY <1>0, <1>6, <4>1 DEF SetState
      <4>2. CASE ~(Enter(t, c, "activate_sync", "inc") /\ SetState(c, "ACTIVATE_IN_PROGRESS"))
        BY <1>0, <1>1, <3>3, <4>2
        DEF ActivateSync, SyncSwitch, KeepActive, SetState, Want, Settled
      <4> QED
        BY <4>1, <4>2
    <3>4. CASE DeferredDeactivate(t, c)
      BY <1>0, <1>1, <3>4 DEF DeferredDeactivate, SetState, Want, Settled
    <3> QED
      BY <3>1, <3>2, <3>3, <3>4
  <2> QED
    BY <2>2, <2>3
<1>8. ASSUME NEW t \in Threads, SyncVote(t), NEW c \in Clients PROVE Settled(c)'
  <2>1. /\ pc' = [pc EXCEPT ![t] = "got"] /\ UNCHANGED <<client, state, wanted>>
        /\ pc[t] = "inc"
    BY <1>8 DEF SyncVote, Goto, clientVars
  <2>2. \A u \in Threads : u \in Finishers(c) => u \in Finishers(c)'
    BY <1>0, <2>1 DEF Finishers
  <2> QED
    BY <1>3, <2>1, <2>2
<1>9. ASSUME NEW t \in Threads, SyncGot(t), NEW c \in Clients PROVE Settled(c)'
  <2>1. CASE client[t] = c
    BY <1>0, <1>1, <1>9, <2>1 DEF SyncGot, SetState, Want, Settled
  <2>2. CASE client[t] # c
    <3>1. /\ state'[c] = state[c] /\ wanted'[c] = wanted[c] /\ client' = client
          /\ pc' = [pc EXCEPT ![t] = "setbit"]
      BY <1>0, <1>1, <1>9, <2>2 DEF SyncGot, SetState, Want, Goto
    <3>2. \A u \in Threads : u \in Finishers(c) => u \in Finishers(c)'
      BY <1>0, <2>2, <3>1 DEF Finishers
    <3> QED
      BY <1>3, <3>1, <3>2
  <2> QED
    BY <2>1, <2>2
<1>10. ASSUME NEW t \in Threads, Progress(t), ~SyncVote(t), ~SyncGot(t), NEW c \in Clients
       PROVE  Settled(c)'
  <2>1. Moves(t) /\ pc[t] \notin {"inc", "got"}
    BY <1>10, ThreadMoves DEF IInv, Progress, Woken, ActivateSyncWoken, SetBit, Cancel, Flush,
       Look, DeactivateSyncWoken, SyncOff, Devote, ClearBit, NextClient, AllWoken,
       DeregisterDecides, Free, ScaleSample, ScaleApply
  <2>2. CASE state'[c] = state[c] /\ wanted'[c] = wanted[c]
    BY <1>0, <1>4, <2>1, <2>2
  <2>3. CASE ~(state'[c] = state[c] /\ wanted'[c] = wanted[c])
    <3>1. /\ client[t] = c
          /\ ActivateSyncWoken(t) \/ DeactivateSyncWoken(t) \/ SyncOff(t) \/ AllWoken(t)
      BY <1>0, <1>1, <1>10, <2>3 DEF Progress, Woken, ActivateSyncWoken, SyncSwitch, KeepActive,
         SetBit, Cancel, Flush, Look, DeactivateSyncWoken, SyncOff, Devote, ClearBit,
         NextClient, AllWoken, DeregisterDecides, Free, ScaleSample, ScaleApply, SetState, Want,
         clientVars
    <3>2. CASE ActivateSyncWoken(t)
      <4>1. CASE Enter(t, c, "activate_sync", "inc") /\ SetState(c, "ACTIVATE_IN_PROGRESS")
        BY <1>0, <1>6, <4>1 DEF SetState
      <4>2. CASE ~(Enter(t, c, "activate_sync", "inc") /\ SetState(c, "ACTIVATE_IN_PROGRESS"))
        BY <1>0, <1>1, <2>3, <3>1, <3>2, <4>2
        DEF ActivateSyncWoken, SyncSwitch, KeepActive, SetState, Want, Settled
      <4> QED
        BY <4>1, <4>2
    <3>3. CASE DeactivateSyncWoken(t) \/ SyncOff(t) \/ AllWoken(t)
      BY <1>0, <1>1, <2>3, <3>1, <3>3
      DEF DeactivateSyncWoken, SyncOff, AllWoken, SetState, Want, Settled, clientVars
    <3> QED
      BY <3>1, <3>2, <3>3
  <2> QED
    BY <2>2, <2>3
<1>11. ASSUME Work, NEW c \in Clients PROVE Settled(c)'
  <2>1. Moves(Worker) /\ pc[Worker] \notin {"inc", "got"}
    BY <1>1, <1>11, WorkerMoves DEF IInv, WorkerStages
  <2>2. CASE state'[c] = state[c] /\ wanted'[c] = wanted[c]
    BY <1>0, <1>4, <2>1, <2>2
  <2>3. CASE ~(state'[c] = state[c] /\ wanted'[c] = wanted[c])
    <3>1. client[Worker] = c /\ (ActivateWorkLocked \/ DeactivateWorkLocked)
      BY <1>0, <1>11, <2>3 DEF Work, WorkStart, ActivateWorkVotes, ActivateWorkLocked, Complete,
         DeactivateWorkLocked, SetBit, Devote, ClearBit, ScaleSample, ScaleApply, SetState,
         clientVars
    <3>2. CASE ActivateWorkLocked
      <4>1. Worker \in Finishers(c)
        BY <1>0, <3>1, <3>2 DEF ActivateWorkLocked, Finishers
      <4>2. ~\E t \in Threads : t \in Finishers(c)
        BY <1>0, <1>1, <4>1 DEF OneFinisher, FinishedOnce
      <4> QED
        BY <1>0, <1>1, <2>3, <3>1, <3>2, <4>2
        DEF ActivateWorkLocked, SetState, Settled
    <3>3. CASE DeactivateWorkLocked
      BY <1>0, <1>1, <2>3, <3>1, <3>3 DEF DeactivateWorkLocked, SetState, Settled
    <3> QED
      BY <3>1, <3>2, <3>3
  <2> QED
    BY <2>2, <2>3
<1>12. \A c \in Clients : Settled(c)'
  BY <1>5, <1>7, <1>8, <1>9, <1>10, <1>11 DEF Next
<1> QED
  BY <1>12 DEF WantedState, Settled

-----------------------------------------------------------------------------
(* Types                                                                   *)

\* Every step keeps the votes of a client between zero and the bound.
LEMMA NextVotesType ==
  ASSUME Disciplined, IInv, Next PROVE votes' \in [Clients -> 0 .. MaxVotes]
<1>0. /\ pc \in [Actors -> PCs]
      /\ client \in [Actors -> Clients \cup {NoClient}]
      /\ call \in [Actors -> CallNames \cup {"none", "deactivate", "scale"}]
      /\ state \in [Clients -> TimerFreeStates \cup TimerSetStates]
      /\ Worker \notin Threads /\ Actors = Threads \cup {Worker}
  BY ActorAssumption DEF IInv, TypeOK, Actors
<1>1. votes \in [Clients -> 0 .. MaxVotes] /\ MaxVotes \in Nat /\ ThreadStages /\ WorkerStages
  BY ClientAssumption DEF IInv, TypeOK
<1>2. ASSUME NEW c, Vote(c) PROVE votes' \in [Clients -> 0 .. MaxVotes]
  BY <1>1, <1>2 DEF Vote
<1>3. ASSUME NEW a \in Actors, Devote(a) PROVE votes' \in [Clients -> 0 .. MaxVotes]
  <2>1. PICK c \in Clients : client[a] = c
    BY <1>0, <1>1, <1>3 DEF Devote, ThreadStages, ThreadStage, WorkerStages
  <2>2. CASE c \in skip
    BY <1>1, <1>3, <2>1, <2>2 DEF Devote, Unvote
  <2>3. CASE c \notin skip
    <3>1. votes[c] = Cardinality(Extra(c)) + StateVote(c)
      BY <2>3 DEF IInv, VotesCounted
    <3>2. Cardinality(Extra(c)) \in Nat /\ (a \in Extra(c) => Cardinality(Extra(c)) > 0)
      <4>1. Moves(a)
        BY <1>0, <1>3, ThreadMoves, WorkerMoves DEF Progress, Work, IInv
      <4> QED
        BY <4>1, ExtraMoves
    <3>3. StateVote(c) \in {0, 1}
      BY DEF StateVote
    <3>4. CASE call[a] # "deactivate_sync"
      <4>1. a \in Extra(c)
        BY <1>3, <2>1, <3>4 DEF Devote, Extra
      <4>2. votes[c] > 0
        BY <3>1, <3>2, <3>3, <4>1
      <4> QED
        BY <1>1, <1>3, <2>1, <4>2 DEF Devote, Unvote
    <3>5. CASE call[a] = "deactivate_sync"
      <4>1. a \in Threads
        BY <1>0, <1>1, <3>5 DEF WorkerStages
      <4>2. Active(c) /\ ~TakenBack(c)
        BY <1>3, <2>1, <3>5, <4>1, TakenBackAlone DEF Devote, IInv, SyncTeardown
      <4>3. StateVote(c) = 1
        BY <4>2 DEF StateVote
      <4>4. votes[c] > 0
        BY <3>1, <3>2, <4>3
      <4> QED
        BY <1>1, <1>3, <2>1, <4>4 DEF Devote, Unvote
    <3> QED
      BY <3>4, <3>5
  <2> QED
    BY <2>2, <2>3
<1>4. ASSUME NEW c \in Clients, Register(c) \/ TimerFire(c) PROVE votes' = votes
  BY <1>4 DEF Register, TimerFire, clockVars
<1>5. ASSUME NEW t \in Threads, Request(t), ~\E c \in Clients : Vote(c) PROVE votes' = votes
  BY <1>5 DEF Request, ActivateInProgress, ActivateActive, ActivateNow, ActivateLater,
     ActivateSync, ActivateSyncWaits, DeferredDeactivate, DeactivateSync, Deregister,
     DeactivateAll, clockVars
<1>6. ASSUME NEW t \in Threads, Progress(t), ~SyncVote(t), ~Devote(t) PROVE votes' = votes
  BY <1>6 DEF Progress, Woken, ActivateSyncWoken, SyncGot, SetBit, Cancel, Flush, Look,
     DeactivateSyncWoken, SyncOff, ClearBit, NextClient, AllWoken, DeregisterDecides, Free,
     ScaleSample, ScaleApply, clockVars
<1>7. ASSUME Work, ~ActivateWorkVotes, ~Devote(Worker) PROVE votes' = votes
  BY <1>7 DEF Work, WorkStart, ActivateWorkLocked, Complete, DeactivateWorkLocked, SetBit,
     ClearBit, ScaleSample, ScaleApply, clockVars
<1> QED
  BY <1>0, <1>1, <1>2, <1>3, <1>4, <1>5, <1>6, <1>7 DEF Next, SyncVote, ActivateWorkVotes

\* TypeOK but for the queue and the votes.
OtherTypes ==
  /\ registered \subseteq Clients /\ skip \subseteq MaySkip
  /\ state \in [Clients -> TimerFreeStates \cup TimerSetStates]
  /\ done \subseteq Clients /\ awake \subseteq Clients
  /\ timer \subseteq Clients /\ cancelling \subseteq Clients
  /\ bits \subseteq Clients /\ threshold \subseteq Clients
  /\ plan \in (SUBSET Clients) \X (SUBSET Clients)
  /\ pc \in [Actors -> PCs]
  /\ client \in [Actors -> Clients \cup {NoClient}]
  /\ call \in [Actors -> CallNames \cup {"none", "deactivate", "scale"}]
  /\ todo \in [Actors -> SUBSET Clients]
  /\ rescale \subseteq Actors
  /\ sample \in [Actors -> SUBSET Clients]
  /\ wanted \in [Clients -> {"on", "off"}]

\* Every step keeps TypeOK.
LEMMA NextTypeOK ==
  ASSUME Disciplined, IInv, Next PROVE TypeOK'
<1>0. /\ OtherTypes /\ Actors = Threads \cup {Worker} /\ Calls \subseteq CallNames
      /\ \A t \in Threads : pc[t] \notin {"idle", "next", "scale", "apply"} => client[t] \in Clients
      /\ pc[Worker] \notin {"idle", "scale", "apply"} => client[Worker] \in Clients
  BY ClientAssumption
  DEF IInv, TypeOK, OtherTypes, Actors, ThreadStages, ThreadStage, WorkerStages
<1>1. wq' \in Seq(Works) /\ votes' \in [Clients -> 0 .. MaxVotes]
  BY NextQueue, NextVotesType
<1>2. ASSUME NEW c \in Clients, Register(c) PROVE OtherTypes'
  BY <1>0, <1>2 DEF Register, SetState, Want, workVars, clockVars, callVars, OtherTypes,
     PCs, TimerFreeStates, TimerSetStates, CallNames
<1>3. ASSUME NEW c \in Clients, TimerFire(c) PROVE OtherTypes'
  BY <1>0, <1>3 DEF TimerFire, clientVars, clockVars, callVars, OtherTypes, PCs,
     TimerFreeStates, TimerSetStates, CallNames
<1>4. ASSUME NEW t \in Threads, NEW c \in Clients, ActivateInProgress(t, c) PROVE OtherTypes'
  BY <1>0, <1>4 DEF ActivateInProgress, MayCall, Idle, InProgress, SetState, Want, Stay,
     workVars, clockVars, callVars, OtherTypes, PCs, TimerFreeStates, TimerSetStates,
     CallNames
<1>5. ASSUME NEW t \in Threads, NEW c \in Clients, ActivateActive(t, c) PROVE OtherTypes'
  BY <1>0, <1>5 DEF ActivateActive, MayCall, Idle, KeepActive, Active, SetState, Want,
     Stay, workVars, clockVars, callVars, OtherTypes, PCs, TimerFreeStates,
     TimerSetStates, CallNames
<1>6. ASSUME NEW t \in Threads, NEW c \in Clients, ActivateNow(t, c) PROVE OtherTypes'
  BY <1>0, <1>6 DEF ActivateNow, MayCall, Idle, SetState, Want, Enter, Goto, StayAwake,
     Vote, workVars, OtherTypes, PCs, TimerFreeStates, TimerSetStates, CallNames
<1>7. ASSUME NEW t \in Threads, NEW c \in Clients, ActivateLater(t, c) PROVE OtherTypes'
  BY <1>0, <1>7 DEF ActivateLater, MayCall, Idle, SetState, Want, Stay, clockVars,
     callVars, OtherTypes, PCs, TimerFreeStates, TimerSetStates, CallNames
<1>8. ASSUME NEW t \in Threads, NEW c \in Clients, ActivateSync(t, c) PROVE OtherTypes'
  BY <1>0, <1>8 DEF ActivateSync, MayCall, Idle, InProgress, SyncSwitch, KeepActive,
     Active, SetState, Want, Enter, Return, Goto, StayAwake, workVars, clockVars,
     callVars, OtherTypes, PCs, TimerFreeStates, TimerSetStates, CallNames
<1>9. ASSUME NEW t \in Threads, NEW c \in Clients, ActivateSyncWaits(t, c) PROVE OtherTypes'
  BY <1>0, <1>9 DEF ActivateSyncWaits, MayCall, Idle, InProgress, Enter, Goto,
     clientVars, workVars, clockVars, OtherTypes, PCs, TimerFreeStates, TimerSetStates,
     CallNames
<1>10. ASSUME NEW t \in Threads, NEW c \in Clients, DeferredDeactivate(t, c) PROVE OtherTypes'
  BY <1>0, <1>10 DEF DeferredDeactivate, MayCall, Idle, SetState, ArmTimer, Want, Stay,
     clockVars, callVars, OtherTypes, PCs, TimerFreeStates, TimerSetStates, CallNames
<1>11. ASSUME NEW t \in Threads, NEW c \in Clients, DeactivateSync(t, c) PROVE OtherTypes'
  BY <1>0, <1>11 DEF DeactivateSync, MayCall, Idle, Enter, Goto, clientVars, workVars,
     clockVars, OtherTypes, PCs, TimerFreeStates, TimerSetStates, CallNames
<1>12. ASSUME NEW t \in Threads, NEW c \in Clients, Deregister(t, c) PROVE OtherTypes'
  BY <1>0, <1>12 DEF Deregister, MayCall, Idle, Enter, Goto,
     clientVars, workVars, clockVars, OtherTypes, PCs, TimerFreeStates, TimerSetStates,
     CallNames
<1>13. ASSUME NEW t \in Threads, DeactivateAll(t) PROVE OtherTypes'
  BY <1>0, <1>13 DEF DeactivateAll, Idle, Goto, clientVars, workVars, clockVars,
     OtherTypes, PCs, TimerFreeStates, TimerSetStates, CallNames
<1>14. ASSUME NEW t \in Threads, Woken(t) PROVE OtherTypes'
  BY <1>0, <1>14 DEF Woken, Goto, clientVars, workVars, clockVars, callVars, OtherTypes,
     PCs, TimerFreeStates, TimerSetStates, CallNames
<1>15. ASSUME NEW t \in Threads, ActivateSyncWoken(t) PROVE OtherTypes'
  BY <1>0, <1>15 DEF ActivateSyncWoken, InProgress, SyncSwitch, KeepActive, Active,
     SetState, Want, Enter, Return, Goto, StayAwake, workVars, clockVars, OtherTypes,
     PCs, TimerFreeStates, TimerSetStates, CallNames
<1>16. ASSUME NEW t \in Threads, SyncVote(t) PROVE OtherTypes'
  BY <1>0, <1>16 DEF SyncVote, Vote, Goto, clientVars, workVars, callVars, OtherTypes,
     PCs, TimerFreeStates, TimerSetStates, CallNames
<1>17. ASSUME NEW t \in Threads, SyncGot(t) PROVE OtherTypes'
  BY <1>0, <1>17 DEF SyncGot, SetState, StayAwake, Want, Goto, workVars, clockVars,
     callVars, OtherTypes, PCs, TimerFreeStates, TimerSetStates, CallNames
<1>18. ASSUME NEW t \in Threads, Cancel(t) PROVE OtherTypes'
  BY <1>0, <1>18 DEF Cancel, Goto, clientVars, clockVars, callVars, OtherTypes, PCs,
     TimerFreeStates, TimerSetStates, CallNames
<1>19. ASSUME NEW t \in Threads, Flush(t) PROVE OtherTypes'
  BY <1>0, <1>19 DEF Flush, Goto, clientVars, clockVars, callVars, OtherTypes, PCs,
     TimerFreeStates, TimerSetStates, CallNames
<1>20. ASSUME NEW t \in Threads, Look(t) PROVE OtherTypes'
  BY <1>0, <1>20 DEF Look, Goto, InProgress, clientVars, workVars, clockVars, callVars,
     OtherTypes, PCs, TimerFreeStates, TimerSetStates, CallNames
<1>21. ASSUME NEW t \in Threads, DeactivateSyncWoken(t) PROVE OtherTypes'
  BY <1>0, <1>21 DEF DeactivateSyncWoken, Return, Want, Goto, clientVars, workVars,
     clockVars, callVars, OtherTypes, PCs, TimerFreeStates, TimerSetStates, CallNames
<1>22. ASSUME NEW t \in Threads, SyncOff(t) PROVE OtherTypes'
  BY <1>0, <1>22 DEF SyncOff, SetState, Want, Goto, workVars, clockVars, callVars,
     OtherTypes, PCs, TimerFreeStates, TimerSetStates, CallNames
<1>23. ASSUME NEW t \in Threads, NextClient(t) PROVE OtherTypes'
  BY <1>0, <1>23 DEF NextClient, Goto, Return, clientVars, workVars, clockVars,
     OtherTypes, PCs, TimerFreeStates, TimerSetStates, CallNames
<1>24. ASSUME NEW t \in Threads, AllWoken(t) PROVE OtherTypes'
  BY <1>0, <1>24 DEF AllWoken, SetState, Goto, workVars, clockVars, OtherTypes, PCs,
     TimerFreeStates, TimerSetStates, CallNames
<1>25. ASSUME NEW t \in Threads, DeregisterDecides(t) PROVE OtherTypes'
  BY <1>0, <1>25 DEF DeregisterDecides, Active, InProgress, Return, Goto, clientVars,
     workVars, clockVars, callVars, OtherTypes, PCs, TimerFreeStates, TimerSetStates, CallNames
<1>26. ASSUME NEW t \in Threads, Free(t) PROVE OtherTypes'
  BY <1>0, <1>26 DEF Free, Return, Goto, workVars, clockVars, OtherTypes, PCs,
     TimerFreeStates, TimerSetStates, CallNames
<1>27. ASSUME NEW a \in Actors, SetBit(a) PROVE OtherTypes'
  BY <1>0, <1>27 DEF SetBit, Return, Goto, clientVars, callVars, OtherTypes, PCs,
     TimerFreeStates, TimerSetStates, CallNames
<1>28. ASSUME NEW a \in Actors, Devote(a) PROVE OtherTypes'
  BY <1>0, <1>28 DEF Devote, Unvote, Return, Goto, workVars, callVars, OtherTypes, PCs,
     TimerFreeStates, TimerSetStates, CallNames
<1>29. ASSUME NEW a \in Actors, ClearBit(a) PROVE OtherTypes'
  BY <1>0, <1>29 DEF ClearBit, Goto, clientVars, workVars, callVars, OtherTypes, PCs,
     TimerFreeStates, TimerSetStates, CallNames
<1>30. ASSUME NEW a \in Actors, ScaleSample(a) PROVE OtherTypes'
  BY <1>0, <1>30 DEF ScaleSample, Return, Goto, clientVars, workVars, callVars,
     OtherTypes, PCs, TimerFreeStates, TimerSetStates, CallNames, ActiveClients
<1>31. ASSUME NEW a \in Actors, ScaleApply(a) PROVE OtherTypes'
  BY <1>0, <1>31 DEF ScaleApply, Return, Goto, clientVars, workVars, OtherTypes, PCs,
     TimerFreeStates, TimerSetStates, CallNames
<1>32. ASSUME WorkStart PROVE OtherTypes'
  <2>1. Head(wq) \in Works
    BY <1>32, QueueEffects
  <2>2. /\ Head(wq)[1] \in {"activate", "deactivate", "scale"}
        /\ Head(wq)[2] \in Clients \cup {NoClient}
    BY <2>1 DEF Works
  <2>3. /\ Enter(Worker, Head(wq)[2], Head(wq)[1], pc'[Worker])
        /\ pc'[Worker] \in {"work", "expired", "scale"}
    BY <1>0, <1>32, <2>2 DEF WorkStart, Enter, Goto, OtherTypes
  <2> QED
    BY <1>0, <1>32, <2>2, <2>3
    DEF WorkStart, Enter, Goto, clientVars, clockVars, OtherTypes, PCs, CallNames
<1>33. ASSUME ActivateWorkVotes PROVE OtherTypes'
  BY <1>0, <1>33 DEF ActivateWorkVotes, Vote, StayAwake, Goto, workVars, callVars,
     OtherTypes, PCs, TimerFreeStates, TimerSetStates, CallNames
<1>34. ASSUME ActivateWorkLocked PROVE OtherTypes'
  BY <1>0, <1>34 DEF ActivateWorkLocked, SetState, Goto, workVars, clockVars, callVars,
     OtherTypes, PCs, TimerFreeStates, TimerSetStates, CallNames
<1>35. ASSUME Complete PROVE OtherTypes'
  BY <1>0, <1>35 DEF Complete, Goto, workVars, clockVars, callVars, OtherTypes, PCs,
     TimerFreeStates, TimerSetStates, CallNames
<1>36. ASSUME DeactivateWorkLocked PROVE OtherTypes'
  BY <1>0, <1>36 DEF DeactivateWorkLocked, SetState, ArmTimer, Return, Goto, clockVars,
     callVars, OtherTypes, PCs, TimerFreeStates, TimerSetStates, CallNames
<1>37. OtherTypes'
  BY <1>2, <1>3, <1>4, <1>5, <1>6, <1>7, <1>8, <1>9, <1>10, <1>11, <1>12, <1>13, <1>14,
     <1>15, <1>16, <1>17, <1>18, <1>19, <1>20, <1>21, <1>22, <1>23, <1>24, <1>25, <1>26,
     <1>27, <1>28, <1>29, <1>30, <1>31, <1>32, <1>33, <1>34, <1>35, <1>36 DEF Next,
     Request, Progress, Work, Actors
<1> QED
  BY <1>1, <1>37 DEF OtherTypes, TypeOK

-----------------------------------------------------------------------------
(* The invariant                                                           *)

\* The invariant holds when ipa_pm_init returns.
LEMMA InitIInv ==
  ASSUME Init PROVE IInv
<1>0. /\ Worker \notin Threads /\ Actors = Threads \cup {Worker} /\ NoClient \notin Clients
      /\ MaxVotes \in Nat /\ wq = <<>> /\ DOMAIN wq = {}
  BY ActorAssumption, ClientAssumption DEF Actors, Init
<1>1. TypeOK
  BY <1>0 DEF Init, TypeOK, TimerFreeStates, PCs
<1>2. ThreadStages /\ WorkerStages /\ Unregistered /\ TeardownAlone /\ OneCanceller
  BY <1>0 DEF Init, ThreadStages, ThreadStage, WorkerStages, Unregistered, TeardownAlone,
     OneCanceller, TeardownCalls
<1>3. QueueDistinct /\ SyncTeardown
  BY <1>0 DEF Init, QueueDistinct, Queued, SyncTeardown
<1>4. OneFinisher
  BY <1>0 DEF Init, OneFinisher, FinishedOnce, Finishers, InProgress, Queued
<1>5. VotesCounted
  <2> SUFFICES ASSUME NEW c \in Clients PROVE votes[c] = Cardinality(Extra(c)) + StateVote(c)
    BY DEF VotesCounted
  <2>1. Extra(c) = {} /\ votes[c] = 0 /\ StateVote(c) = 0
    BY <1>0 DEF Init, Extra, StateVote, Active, TimerSetStates
  <2> QED
    BY <2>1, FS_EmptySet
<1>6. TimerKept /\ WantedState
  BY DEF Init, TimerKept, WantedState, TimerSetStates
<1> QED
  BY <1>1, <1>2, <1>3, <1>4, <1>5, <1>6 DEF IInv

\* The invariant does not depend on anything but the variables.
LEMMA StutterIInv ==
  ASSUME IInv, UNCHANGED vars PROVE IInv'
<1>1. TypeOK' /\ ThreadStages' /\ WorkerStages' /\ Unregistered' /\ TeardownAlone'
  BY DEF IInv, vars, TypeOK, ThreadStages, ThreadStage, WorkerStages, Unregistered,
     TeardownAlone
<1>2. QueueDistinct' /\ OneCanceller' /\ SyncTeardown' /\ TimerKept'
  BY DEF IInv, vars, QueueDistinct, Queued, OneCanceller, SyncTeardown, TimerKept,
     DeactivationPending, Active, WillSettle
<1>3. OneFinisher' /\ WantedState'
  BY DEF IInv, vars, OneFinisher, FinishedOnce, Finishers, InProgress, Queued, WantedState
<1>4. VotesCounted'
  BY DEF IInv, vars, VotesCounted, Extra, StateVote, Active, TakenBack
<1> QED
  BY <1>1, <1>2, <1>3, <1>4 DEF IInv

\* The bookkeeping of ipa_pm.c is exact in every behaviour whose calls are
\* disciplined: the stages of the actors, the work queue, one finisher for each
\* activation in progress, one canceller of a timer, the votes counted by state
\* and actors, a timer for each state that needs one, and the state that the
\* last call asked for.
THEOREM Invariance ==
  ASSUME Disciplined PROVE Spec => []IInv
<1>1. Init => IInv
  BY InitIInv
<1>2. IInv /\ [Next]_vars => IInv'
  <2>1. ASSUME IInv, Next PROVE IInv'
    BY <2>1, NextTypeOK, NextThreadStages, NextWorkerStages, NextUnregistered,
       NextTeardownAlone, NextQueue, NextOneFinisher, NextOneCanceller, NextSyncTeardown,
       NextVotesCounted, NextTimerKept, NextWantedState DEF IInv
  <2> QED
    BY <2>1, StutterIInv
<1> QED
  BY <1>1, <1>2, PTL DEF Spec

\* Every variable of ipa_pm.c keeps its type; in particular no client's votes
\* for the IPA clock fall below zero, the ipa_assert of
\* __ipa3_dec_client_disable_clks.
THEOREM TypeCorrectness ==
  ASSUME Disciplined PROVE Spec => []TypeOK
<1>1. IInv => TypeOK
  BY DEF IInv
<1> QED
  BY <1>1, Invariance, PTL

\* The clock is never gated under a client that is active, whatever the timers,
\* the work queue and the callers do.
THEOREM ClockIsHeld ==
  ASSUME Disciplined PROVE Spec => []ClockHeld
<1>1. ASSUME IInv PROVE ClockHeld
  <2> SUFFICES ASSUME NEW c \in registered \ skip, Active(c),
                      \A t \in Threads : client[t] = c => call[t] # "deactivate_sync"
               PROVE  votes[c] > 0
    BY DEF ClockHeld
  <2>1. c \in Clients \ skip /\ ThreadStages
    BY <1>1 DEF IInv, TypeOK
  <2>2. ~TakenBack(c)
    BY <2>1 DEF TakenBack, ThreadStages, ThreadStage
  <2>3. StateVote(c) = 1 /\ votes[c] = Cardinality(Extra(c)) + StateVote(c)
    BY <1>1, <2>1, <2>2 DEF StateVote, IInv, VotesCounted
  <2>4. Cardinality(Extra(c)) \in Nat
    BY ExtraFinite
  <2> QED
    BY <2>3, <2>4
<1> QED
  BY <1>1, Invariance, PTL

\* Once nobody is at work on a client it holds one vote if it is active and none
\* if it is not: no vote is leaked and none returned twice.
THEOREM VotesBalanced ==
  ASSUME Disciplined PROVE Spec => []VotesBalance
<1>1. ASSUME IInv PROVE VotesBalance
  <2> SUFFICES ASSUME NEW c \in registered \ skip, Quiet(c)
               PROVE  votes[c] = IF Active(c) THEN 1 ELSE 0
    BY DEF VotesBalance
  <2>1. c \in Clients \ skip /\ votes[c] = Cardinality(Extra(c)) + StateVote(c)
    BY <1>1 DEF IInv, TypeOK, VotesCounted
  <2>2. Extra(c) = {} /\ ~TakenBack(c)
    BY DEF Quiet, Extra, TakenBack, Actors
  <2>3. Cardinality(Extra(c)) = 0
    BY <2>2, FS_EmptySet
  <2> QED
    BY <2>1, <2>2, <2>3 DEF StateVote
<1> QED
  BY <1>1, Invariance, PTL

\* A client in a "Timer set state" has its deferred work pending unless a caller
\* has cancelled it and will change the state: a deactivation that was asked for
\* is not forgotten.
THEOREM TimerIsNotLost ==
  ASSUME Disciplined PROVE Spec => []TimerNotLost
<1>1. ASSUME IInv PROVE TimerNotLost
  BY <1>1 DEF IInv, TypeOK, TimerKept, TimerNotLost, WillSettle
<1> QED
  BY <1>1, Invariance, PTL

\* A client is in an IN_PROGRESS state exactly while its activation is with the
\* work queue or a synchronous caller: activate_work_func meets no "unexpected
\* state", and nobody waits for a completion nobody will signal.
THEOREM ActivationsMatch ==
  ASSUME Disciplined PROVE Spec => []ActivationMatchesState
<1>1. ASSUME IInv PROVE ActivationMatchesState
  <2> SUFFICES ASSUME NEW c \in registered PROVE InProgress(c) <=> ActivationPending(c)
    BY DEF ActivationMatchesState
  <2>1. /\ c \in Clients /\ ThreadStages /\ WorkerStages
        /\ InProgress(c) <=> Queued(<<"activate", c>>) \/ Finishers(c) # {}
    BY <1>1 DEF IInv, TypeOK, OneFinisher, FinishedOnce
  <2>2. ASSUME NEW t \in Threads
        PROVE  t \in Finishers(c) <=> client[t] = c /\ pc[t] \in {"inc", "got"}
    BY <2>1, <2>2 DEF Finishers, ThreadStages, ThreadStage, Actors
  <2>3. Worker \in Finishers(c) <=> client[Worker] = c /\ pc[Worker] \in {"work", "worklocked"}
    BY <2>1 DEF Finishers, WorkerStages, Actors
  <2>4. Finishers(c) # {} <=> Worker \in Finishers(c) \/ \E t \in Threads : t \in Finishers(c)
    BY DEF Finishers, Actors
  <2> QED
    BY <2>1, <2>2, <2>3, <2>4 DEF ActivationPending
<1> QED
  BY <1>1, Invariance, PTL

\* Once nothing is going on a client is on, or on its way off, as the last call
\* asked, whichever of them overtook the other on the work queue.
THEOREM LastCallIsObeyed ==
  ASSUME Disciplined PROVE Spec => []LastCallWins
<1>1. ASSUME IInv PROVE LastCallWins
  <2> SUFFICES ASSUME NEW c \in registered, Quiet(c)
               PROVE  IF wanted[c] = "on" THEN state[c] \in {"ACTIVATED", "TIMER_SET"}
                      ELSE state[c] \in {"DEACTIVATED", "PENDING_DEACTIVATION",
                                         "PENDING_RESCHEDULE"}
    BY DEF LastCallWins
  <2>1. /\ c \in Clients /\ state[c] \in TimerFreeStates \cup TimerSetStates
        /\ InProgress(c) <=> Queued(<<"activate", c>>) \/ Finishers(c) # {}
    BY <1>1 DEF IInv, TypeOK, OneFinisher, FinishedOnce
  <2>2. ~Queued(<<"activate", c>>) /\ Finishers(c) = {}
    BY DEF Quiet, Queued, Finishers
  <2> QED
    BY <1>1, <2>1, <2>2
    DEF IInv, WantedState, InProgress, TimerFreeStates, TimerSetStates
<1> QED
  BY <1>1, Invariance, PTL

-----------------------------------------------------------------------------
(* The timer and the state, when the AP does not suspend                   *)

Torn(c) == \E t \in Threads : client[t] = c /\ call[t] = "deactivate_sync"

\* TimerInv for one client: a deferred work belongs to a state that needs it or
\* to a client that is torn down, and there is one of it.
Backed(c) == DeactivationPending(c) => state[c] \in TimerSetStates \/ Torn(c)

OneWork(c) ==
  /\ c \in timer => ~Queued(<<"deactivate", c>>)
  /\ pc[Worker] = "expired" /\ client[Worker] = c =>
       c \notin timer /\ ~Queued(<<"deactivate", c>>)

\* Without a suspending AP every step keeps TimerInv.
LEMMA NextTimerInv ==
  ASSUME Disciplined, IInv, TimerInv, Next, "deactivate_all_deferred" \notin Calls
  PROVE  TimerInv'
<1>0. /\ pc \in [Actors -> PCs]
      /\ client \in [Actors -> Clients \cup {NoClient}]
      /\ call \in [Actors -> CallNames \cup {"none", "deactivate", "scale"}]
      /\ state \in [Clients -> TimerFreeStates \cup TimerSetStates]
      /\ Worker \notin Threads /\ Actors = Threads \cup {Worker}
  BY ActorAssumption DEF IInv, TypeOK, Actors
<1>1. /\ ThreadStages /\ WorkerStages /\ OneFinisher /\ SyncTeardown /\ Unregistered
      /\ \A c \in Clients : Backed(c) /\ OneWork(c)
  BY DEF IInv, TimerInv, Backed, OneWork, Torn
<1>2. ASSUME NEW c \in Clients, UNCHANGED <<pc, client, call, timer, state>>,
             \A v : Queued(v)' <=> Queued(v)
      PROVE  Backed(c)' /\ OneWork(c)'
  BY <1>1, <1>2 DEF Backed, OneWork, Torn, DeactivationPending
<1>3. ASSUME NEW d \in Clients, Register(d), NEW c \in Clients PROVE Backed(c)' /\ OneWork(c)'
  <2>1. UNCHANGED <<pc, client, call, timer, wq, state>>
    BY <1>0, <1>1, <1>3 DEF Register, SetState, workVars, callVars, Unregistered
  <2> QED
    BY <1>2, <2>1, SameQueue
<1>4. ASSUME NEW d \in Clients, TimerFire(d), NEW c \in Clients PROVE Backed(c)' /\ OneWork(c)'
  <2>1. /\ UNCHANGED <<pc, client, call, state>> /\ d \in timer /\ timer' = timer \ {d}
        /\ \A v : Queued(v)' <=> Queued(v) \/ v = <<"deactivate", d>>
    BY <1>4, QueueEffects DEF TimerFire, clientVars, callVars
  <2> QED
    BY <1>1, <2>1 DEF Backed, OneWork, Torn, DeactivationPending
<1>5. ASSUME NEW t \in Threads, Request(t), NEW c \in Clients PROVE Backed(c)' /\ OneWork(c)'
  <2>1. /\ Moves(t) /\ pc[t] = "idle"
        /\ \A d : Queued(<<"deactivate", d>>)' <=> Queued(<<"deactivate", d>>)
        /\ \A d : d \in timer' /\ d \notin timer => DeferredDeactivate(t, d)
    BY <1>5, OtherSteps
  <2>2. Torn(c) => Torn(c)'
    <3>1. call[t] # "deactivate_sync"
      BY <1>1, <2>1 DEF ThreadStages, ThreadStage
    <3> QED
      BY <1>0, <2>1, <3>1 DEF Torn, Moves
  <2>3. pc'[Worker] = pc[Worker] /\ client'[Worker] = client[Worker]
    BY <1>0, <2>1 DEF Moves
  <2>4. state[c] \in TimerSetStates => state'[c] \in TimerSetStates
    <3> USE DEF SetState, TimerSetStates
    <3>1. ASSUME NEW d \in Clients, ActivateInProgress(t, d) \/ ActivateActive(t, d)
          PROVE  state[c] \in TimerSetStates => state'[c] \in TimerSetStates
      BY <1>0, <3>1 DEF ActivateInProgress, InProgress, ActivateActive, KeepActive
    <3>2. ASSUME NEW d \in Clients,
                 \/ ActivateNow(t, d) \/ ActivateLater(t, d) \/ ActivateSync(t, d)
                 \/ ActivateSyncWaits(t, d)
          PROVE  state[c] \in TimerSetStates => state'[c] \in TimerSetStates
      BY <1>0, <3>2 DEF ActivateNow, ActivateLater, ActivateSync, SyncSwitch, KeepActive,
         ActivateSyncWaits, clientVars
    <3>3. ASSUME NEW d \in Clients,
                 DeferredDeactivate(t, d) \/ DeactivateSync(t, d) \/ Deregister(t, d)
          PROVE  state[c] \in TimerSetStates => state'[c] \in TimerSetStates
      BY <1>0, <3>3 DEF DeferredDeactivate, DeactivateSync, Deregister, clientVars
    <3>4. CASE DeactivateAll(t)
      BY <3>4 DEF DeactivateAll, clientVars
    <3> QED
      BY <1>5, <3>1, <3>2, <3>3, <3>4 DEF Request
  <2>5. CASE c \in timer' /\ c \notin timer
    <3>1. DeferredDeactivate(t, c) /\ state'[c] \in TimerSetStates
      BY <1>0, <2>1, <2>5 DEF DeferredDeactivate, SetState, TimerSetStates
    <3>2. MayCall(t, c, "deferred_deactivate") /\ state[c] \notin TimerSetStates
      BY <2>5, <3>1 DEF DeferredDeactivate, TimerSetStates
    <3>3. ~Torn(c)
      <4>1. \A u \in Threads : call[u] \in TeardownCalls => c # client[u]
        BY <3>2, NotCalled
      <4> QED
        BY <4>1 DEF Torn, TeardownCalls
    <3>4. ~DeactivationPending(c)
      BY <1>1, <3>2, <3>3 DEF Backed
    <3> QED
      BY <2>1, <2>3, <3>1, <3>4 DEF Backed, OneWork, DeactivationPending
  <2>6. CASE ~(c \in timer' /\ c \notin timer)
    BY <1>1, <2>1, <2>2, <2>3, <2>4, <2>6 DEF Backed, OneWork, DeactivationPending
  <2> QED
    BY <2>5, <2>6
<1>6. ASSUME NEW t \in Threads, Cancel(t), NEW c \in Clients PROVE Backed(c)' /\ OneWork(c)'
  <2>1. \A v : Queued(v)' => Queued(v)
    BY <1>6, QueueEffects
  <2>2. /\ timer' \subseteq timer /\ UNCHANGED <<client, call, state>>
        /\ pc'[Worker] = pc[Worker]
    BY <1>0, <1>6 DEF Cancel, Goto, clientVars, callVars
  <2> QED
    BY <1>1, <2>1, <2>2 DEF Backed, OneWork, Torn, DeactivationPending
<1>7. ASSUME NEW t \in Threads, Progress(t), ~Cancel(t), NEW c \in Clients
      PROVE  Backed(c)' /\ OneWork(c)'
  <2>1. /\ Moves(t) /\ timer' = timer
        /\ \A d : Queued(<<"deactivate", d>>)' <=> Queued(<<"deactivate", d>>)
    BY <1>7, OtherSteps
  <2>2. pc'[Worker] = pc[Worker] /\ client'[Worker] = client[Worker]
    BY <1>0, <2>1 DEF Moves
  <2>3. OneWork(c)'
    BY <1>1, <2>1, <2>2 DEF OneWork
  <2>4. DeactivationPending(c)' <=> DeactivationPending(c)
    BY <2>1, <2>2 DEF DeactivationPending
  <2>5. ASSUME DeactivationPending(c), Torn(c) PROVE Torn(c)'
    <3>1. PICK u \in Threads : client[u] = c /\ call[u] = "deactivate_sync"
      BY <2>5 DEF Torn
    <3>2. CASE u # t
      BY <1>0, <2>1, <3>1, <3>2 DEF Torn, Moves
    <3>3. CASE u = t
      <4>1. pc[t] \in {"cancel", "flush", "recancel", "reflush"}
        BY <1>1, <2>5, <3>1, <3>3 DEF SyncTeardown
      <4>2. Flush(t)
        BY <1>7, <4>1 DEF Progress, Woken, ActivateSyncWoken, SyncVote, SyncGot, SetBit, Look,
           DeactivateSyncWoken, SyncOff, Devote, ClearBit, NextClient, AllWoken,
           DeregisterDecides, Free, ScaleSample, ScaleApply
      <4> QED
        BY <3>1, <3>3, <4>2 DEF Flush, callVars, Torn
    <3> QED
      BY <3>2, <3>3
  <2>6. ASSUME state[c] \in TimerSetStates PROVE state'[c] \in TimerSetStates \/ Torn(c)'
    <3>1. CASE SyncOff(t)
      <4>1. call[t] = "deactivate_sync"
        BY <1>1, <3>1 DEF SyncOff, ThreadStages, ThreadStage
      <4> QED
        BY <1>0, <2>6, <3>1, <4>1 DEF SyncOff, SetState, callVars, Torn
    <3>2. CASE SyncGot(t)
      <4>1. client[t] \in Clients /\ InProgress(client[t])
        BY <1>0, <1>1, <3>2 DEF SyncGot, OneFinisher, FinishedOnce, Finishers, ThreadStages,
           ThreadStage
      <4> QED
        BY <1>0, <2>6, <3>2, <4>1 DEF SyncGot, SetState, InProgress, TimerSetStates
    <3>3. CASE ~SyncOff(t) /\ ~SyncGot(t)
      <4>1. ~AllWoken(t)
        BY <1>1 DEF AllWoken, ThreadStages, ThreadStage
      <4> QED
        BY <1>0, <1>7, <2>6, <3>3, <4>1 DEF Progress, Woken, ActivateSyncWoken, SyncSwitch,
           KeepActive, SyncVote, SetBit, Flush, Look, DeactivateSyncWoken, Devote, ClearBit,
           NextClient, DeregisterDecides, Free, ScaleSample, ScaleApply, SetState,
           TimerSetStates, clientVars
    <3> QED
      BY <3>1, <3>2, <3>3
  <2> QED
    BY <1>1, <2>3, <2>4, <2>5, <2>6 DEF Backed
<1>8. ASSUME Work, NEW c \in Clients PROVE Torn(c)' <=> Torn(c)
  BY <1>0, <1>8, WorkerMoves DEF IInv, Torn, Moves
<1>9. ASSUME WorkStart, NEW c \in Clients PROVE Backed(c)' /\ OneWork(c)'
  <2>1. /\ Head(wq) \in Works /\ Queued(Head(wq))
        /\ \A v : Queued(v)' <=> Queued(v) /\ v # Head(wq)
    BY <1>9, QueueEffects
  <2>2. pc'[Worker] = "expired" /\ client'[Worker] = c => Head(wq) = <<"deactivate", c>>
    BY <1>0, <1>9, <2>1 DEF WorkStart, Enter, Goto, Works
  <2>3. UNCHANGED <<state, timer>> /\ (Torn(c)' <=> Torn(c))
    BY <1>8, <1>9 DEF WorkStart, clientVars, Work
  <2> QED
    BY <1>1, <2>1, <2>2, <2>3 DEF Backed, OneWork, DeactivationPending
<1>10. ASSUME Work, ~WorkStart, ~DeactivateWorkLocked, NEW c \in Clients
       PROVE  Backed(c)' /\ OneWork(c)'
  <2>1. /\ pc'[Worker] # "expired"
        /\ \A d : Queued(<<"deactivate", d>>)' <=> Queued(<<"deactivate", d>>)
    BY <1>10, OtherSteps
  <2>2. timer' = timer
    BY <1>10 DEF Work, ActivateWorkVotes, ActivateWorkLocked, Complete, SetBit, Devote,
       ClearBit, ScaleSample, ScaleApply, workVars
  <2>3. state[c] \in TimerSetStates => state'[c] \in TimerSetStates
    BY <1>0, <1>10 DEF Work, ActivateWorkVotes, ActivateWorkLocked, Complete, SetBit, Devote,
       ClearBit, ScaleSample, ScaleApply, SetState, TimerSetStates, clientVars
  <2> QED
    BY <1>1, <1>8, <1>10, <2>1, <2>2, <2>3 DEF Backed, OneWork, DeactivationPending
<1>11. ASSUME DeactivateWorkLocked, NEW c \in Clients PROVE Backed(c)' /\ OneWork(c)'
  <2>1. /\ pc'[Worker] # "expired" /\ pc[Worker] = "expired" /\ Work
        /\ \A d : Queued(<<"deactivate", d>>)' <=> Queued(<<"deactivate", d>>)
        /\ \A d : d \in timer' /\ d \notin timer => client[Worker] = d
    BY <1>11, OtherSteps DEF Work, DeactivateWorkLocked, WorkStart, Idle
  <2>2. CASE client[Worker] # c
    <3>1. state'[c] = state[c] /\ (c \in timer' <=> c \in timer)
      BY <1>0, <1>11, <2>2 DEF DeactivateWorkLocked, SetState, ArmTimer
    <3> QED
      BY <1>1, <1>8, <2>1, <2>2, <3>1 DEF Backed, OneWork, DeactivationPending
  <2>3. CASE client[Worker] = c
    <3>1. c \notin timer /\ ~Queued(<<"deactivate", c>>)'
      BY <1>1, <2>1, <2>3 DEF OneWork
    <3>2. c \in timer' => state'[c] \in TimerSetStates
      BY <1>0, <1>11, <2>3, <3>1 DEF DeactivateWorkLocked, SetState, TimerSetStates
    <3> QED
      BY <2>1, <3>1, <3>2 DEF Backed, OneWork, DeactivationPending
  <2> QED
    BY <2>2, <2>3
<1>12. \A c \in Clients : Backed(c)' /\ OneWork(c)'
  BY <1>3, <1>4, <1>5, <1>6, <1>7, <1>9, <1>10, <1>11 DEF Next
<1>13. timer' \subseteq Clients /\ WorkerStages'
  BY NextTypeOK, NextWorkerStages DEF TypeOK
<1> QED
  BY <1>12, <1>13 DEF TimerInv, Backed, OneWork, Torn, WorkerStages

\* The deferred work of a client is pending exactly in the "Timer set states"
\* when the AP does not suspend: no client waits for a deactivation whose timer
\* was lost, and no timer outlives the state it was set for.
THEOREM TimerMatches ==
  ASSUME Disciplined, "deactivate_all_deferred" \notin Calls
  PROVE  Spec => []TimerMatchesState
<1>1. Init => TimerInv
  BY DEF Init, TimerInv, DeactivationPending, Queued, Actors
<1>2. IInv /\ TimerInv /\ [Next]_vars => TimerInv'
  <2>1. ASSUME TimerInv, UNCHANGED vars PROVE TimerInv'
    BY <2>1 DEF TimerInv, DeactivationPending, Queued, vars
  <2> QED
    BY <2>1, NextTimerInv
<1>3. IInv /\ TimerInv => TimerMatchesState
  <2> SUFFICES ASSUME IInv, TimerInv, NEW c \in registered,
                      \A t \in Threads : client[t] = c => call[t] # "deactivate_sync"
               PROVE  DeactivationPending(c) <=> state[c] \in TimerSetStates
    BY DEF TimerMatchesState
  <2>1. c \in Clients /\ ThreadStages
    BY DEF IInv, TypeOK
  <2>2. DeactivationPending(c) => state[c] \in TimerSetStates
    BY <2>1 DEF TimerInv
  <2>3. ~\E t \in Threads : WillSettle(t, c)
    BY <2>1 DEF WillSettle, ThreadStages, ThreadStage
  <2> QED
    BY <2>1, <2>2, <2>3 DEF IInv, TimerKept
<1> QED
  BY <1>1, <1>2, <1>3, Invariance, PTL DEF Spec
=============================================================================
