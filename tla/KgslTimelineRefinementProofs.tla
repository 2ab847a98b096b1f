-------------------- MODULE KgslTimelineRefinementProofs --------------------
(***************************************************************************)
(* KgslTimeline implements Timeline: every step is one of the abstract     *)
(* timeline or invisible.  The lemmas say who still wants a fence after a  *)
(* step, then which abstract step each step is.                            *)
(***************************************************************************)
EXTENDS KgslTimelineRefinement, KgslTimelineProofs

shown == <<named, value, Answer, fstate, fseq, Wanted>>

TimelineStep == [Abstract!Next]_shown

-----------------------------------------------------------------------------
(* A timeline that is being destroyed                                      *)

\* The name does not come back before the destroy is over: the destroyer's
\* reference keeps the place taken.
LEMMA NextDestroyedUnnamed ==
  ASSUME IInv, DestroyedUnnamed, [Next]_vars PROVE DestroyedUnnamed'
<1> USE DEF timelineVars, actorVars, Goto
<1>0. ioctl \in [Threads -> IoctlNames \cup {"none", "failed"}]
  BY DEF IInv, TypeOK
<1>1. ASSUME UNCHANGED <<named, ioctl>> PROVE DestroyedUnnamed'
  BY <1>1 DEF DestroyedUnnamed
<1>2. ASSUME named' = named, NEW t \in Threads, NEW i, i # "destroy",
             ioctl' = [ioctl EXCEPT ![t] = i]
      PROVE  DestroyedUnnamed'
  BY <1>0, <1>2 DEF DestroyedUnnamed
<1>3. ASSUME NEW s \in Initials, Create(s) PROVE DestroyedUnnamed'
  <2>1. ref = 0 /\ ioctl' = ioctl
    BY <1>3 DEF Create
  <2>2. \A t \in Threads : ~Holds(t)
    BY <2>1, Alive DEF IInv
  <2> QED
    BY <2>1, <2>2 DEF DestroyedUnnamed, Holds
<1>4. ASSUME NEW t \in Threads, Return(t), named' = named PROVE DestroyedUnnamed'
  BY <1>2, <1>4 DEF Return
<1>5. ASSUME NEW t \in Threads, AfterFence(t), named' = named PROVE DestroyedUnnamed'
  BY <1>1, <1>4, <1>5 DEF AfterFence
<1>6. ASSUME NEW a \in Actors, Progress(a) PROVE DestroyedUnnamed'
  BY <1>1, <1>6 DEF Progress, SignalStart, WalkFence, WalkEnd
<1>7. ASSUME NEW t \in Threads, PutTimeline(t) PROVE DestroyedUnnamed'
  BY <1>1, <1>4, <1>7 DEF PutTimeline
<1>8. ASSUME NEW t \in Threads, PutFence(t) \/ Release(t) PROVE DestroyedUnnamed'
  BY <1>1, <1>5, <1>8 DEF PutFence, Release
<1>9. ASSUME NEW t \in Threads, AllocFails(t) PROVE DestroyedUnnamed'
  BY <1>2, <1>9 DEF AllocFails
<1>10. ASSUME NEW t \in Threads, ThreadProgress(t) PROVE DestroyedUnnamed'
  <2>1. CASE Progress(t)
    BY <1>6, <2>1 DEF Actors
  <2>2. CASE \/ Install(t) \/ EnableSignaling(t) \/ Wake(t) \/ Query(t)
             \/ DestroyCollect(t) \/ DestroyLock(t)
    BY <1>1, <2>2 DEF Install, EnableSignaling, Wake, Query, DestroyCollect, DestroyLock
  <2>3. ASSUME NEW f \in Fences, NEW s \in Seqnos, AllocFence(t, f, s)
        PROVE  DestroyedUnnamed'
    BY <1>1, <2>3 DEF AllocFence
  <2>4. ASSUME NEW f \in Fences, DestroyFence(t, f) PROVE DestroyedUnnamed'
    BY <1>1, <2>4 DEF DestroyFence
  <2> QED
    BY <1>7, <1>8, <1>9, <1>10, <2>1, <2>2, <2>3, <2>4 DEF ThreadProgress
<1>11. ASSUME NEW o \in Objs, ObjProgress(o) PROVE DestroyedUnnamed'
  <2>1. CASE Progress(o)
    BY <1>6, <2>1 DEF Actors
  <2>2. CASE Retire(o) \/ Pop(o) \/ Fire(o) \/ ObjEnd(o)
    BY <1>1, <2>2 DEF Retire, Pop, Fire, ObjEnd
  <2> QED
    BY <1>11, <2>1, <2>2 DEF ObjProgress
<1>12. ASSUME NEW t \in Threads, NEW i \in IoctlNames, Lookup(t, i) PROVE DestroyedUnnamed'
  BY <1>2, <1>12 DEF Lookup
<1>13. ASSUME NEW t \in Threads, DestroyName(t) PROVE DestroyedUnnamed'
  BY <1>13 DEF DestroyName, DestroyedUnnamed
<1>14. ASSUME NEW t \in Threads, NEW f \in Fences, Close(t, f) PROVE DestroyedUnnamed'
  BY <1>1, <1>14 DEF Close
<1>15. CASE Request
  BY <1>1, <1>3, <1>12, <1>13, <1>14, <1>15 DEF Request, TimeOut, Poll, AddTimeline
<1>16. CASE UNCHANGED vars
  BY <1>1, <1>16 DEF vars
<1> QED
  BY <1>10, <1>11, <1>15, <1>16 DEF Next

\* Once its id is gone a timeline stays without one until its destroy is over,
\* so that no new timeline takes the place of one that is being destroyed.
THEOREM NamelessUnderDestroy == Spec => []DestroyedUnnamed
<1>1. Init => DestroyedUnnamed
  BY DEF Init, DestroyedUnnamed
<1>2. IInv /\ DestroyedUnnamed /\ [Next]_vars => DestroyedUnnamed'
  BY NextDestroyedUnnamed
<1> QED
  BY <1>1, <1>2, Invariance, PTL DEF Spec

-----------------------------------------------------------------------------
(* Who wants a fence                                                       *)

\* A thread's reference on a fence, as Wanted sees it.
LEMMA WantedBy ==
  \A f \in Fences : f \in Wanted <=> f \in fd \/ \E t \in Threads : HasFence(t, f)
BY DEF Wanted

\* A fence with no reference, or with that of a walk only, is wanted by nobody.
LEMMA Unwanted ==
  ASSUME IInv, NEW f \in Fences,
         frefs[f] = 0 \/ (frefs[f] = 1 /\ \E a \in Actors : f \in temp[a])
  PROVE  f \notin Wanted
<1>1. TypeOK /\ FenceCounted
  BY DEF IInv
<1> QED
  BY <1>1, Referred DEF Wanted

\* An actor that moves and leaves its fence alone changes nobody's wishes.
LEMMA MoveWants ==
  ASSUME TypeOK, NEW a \in Actors, NEW x, x # "release", pc[a] # "release",
         pc' = [pc EXCEPT ![a] = x], fence' = fence
  PROVE  \A t \in Threads, f \in Fences : HasFence(t, f)' <=> HasFence(t, f)
<1>1. \A t \in Threads : (pc'[t] = "release") <=> (pc[t] = "release")
  BY DEF TypeOK, Actors
<1> QED
  BY <1>1 DEF HasFence

\* The wishes are the same when nobody's reference comes or goes.
LEMMA WantsKept ==
  ASSUME fd' = fd,
         \A t \in Threads, f \in Fences : HasFence(t, f)' <=> HasFence(t, f)
  PROVE  Wanted' = Wanted
BY DEF Wanted

\* ... which is so when neither places nor fences change.
LEMMA StillWants ==
  ASSUME UNCHANGED <<fd, pc, fence>>
  PROVE  Wanted' = Wanted
BY DEF Wanted, HasFence

\* The steps after which the same fences are wanted.
LEMMA StepWants ==
  ASSUME IInv
  PROVE  /\ \A t \in Threads :
              /\ \/ PutTimeline(t) \/ Install(t) \/ EnableSignaling(t) \/ Wake(t)
                 \/ TimeOut(t) \/ AllocFails(t) \/ Query(t) \/ DestroyName(t)
                 \/ DestroyCollect(t) \/ DestroyLock(t)
                 => Wanted' = Wanted
              /\ \A i \in IoctlNames : Lookup(t, i) => Wanted' = Wanted
              /\ \A f \in Fences : Close(t, f) => Wanted' = Wanted
         /\ \A a \in Actors :
              /\ WalkEnd(a) => Wanted' = Wanted
              /\ \A s \in Seqnos : SignalStart(a, s) => Wanted' = Wanted
         /\ \A o \in Objs : Pop(o) \/ Fire(o) \/ ObjEnd(o) => Wanted' = Wanted
<1> USE DEF fenceVars, actorVars
<1>0. TypeOK /\ ThreadStages /\ Threads \subseteq Actors /\ Objs \subseteq Actors
  BY DEF IInv, Actors
<1>1. ASSUME NEW a \in Actors, NEW x, x # "release", pc[a] # "release", Goto(a, x),
             UNCHANGED <<fence, fd>>
      PROVE  Wanted' = Wanted
  BY <1>0, <1>1, MoveWants, WantsKept DEF Goto
<1>2. ASSUME NEW t \in Threads, Return(t), fence[t] = NoFence, pc[t] # "release", fd' = fd
      PROVE  Wanted' = Wanted
  <2>1. fence' = fence
    BY <1>0, <1>2 DEF Return, TypeOK
  <2> QED
    BY <1>0, <1>1, <1>2, <2>1 DEF Return
<1>3. ASSUME NEW t \in Threads, PutTimeline(t) PROVE Wanted' = Wanted
  <2>1. pc[t] = "put" /\ fd' = fd
    BY <1>3 DEF PutTimeline
  <2>2. CASE ioctl[t] = "wait"
    <3>1. Goto(t, "enable") /\ fence' = fence
      BY <1>3, <2>2 DEF PutTimeline
    <3> QED
      BY <1>0, <1>1, <2>1, <3>1
  <2>3. CASE ioctl[t] # "wait"
    <3>1. Return(t)
      BY <1>3, <2>3 DEF PutTimeline
    <3>2. fence[t] = NoFence
      BY <1>0, <2>1, <2>3 DEF ThreadStages
    <3> QED
      BY <1>2, <2>1, <3>1, <3>2
  <2> QED
    BY <2>2, <2>3
<1>4. ASSUME NEW t \in Threads, Install(t) PROVE Wanted' = Wanted
  <2>1. /\ pc[t] = "install" /\ fence' = fence /\ fd' \in {fd, fd \cup {fence[t]}}
        /\ pc' = [pc EXCEPT ![t] = "putfence"]
    BY <1>4 DEF Install, Goto
  <2>2. \A u \in Threads, f \in Fences : HasFence(u, f)' <=> HasFence(u, f)
    BY <1>0, <2>1, MoveWants
  <2>3. \A f \in Fences : fence[t] = f => HasFence(t, f)
    BY <2>1 DEF HasFence
  <2>4. \A f \in Fences : f \in fd' <=> f \in fd \/ (fd' # fd /\ f = fence[t])
    BY <2>1
  <2> QED
    BY <2>2, <2>3, <2>4 DEF Wanted
<1>5. ASSUME NEW t \in Threads, NEW f \in Fences, Close(t, f) PROVE Wanted' = Wanted
  <2>1. /\ pc[t] = "idle" /\ f \in fd /\ fd' = fd \ {f}
        /\ pc' = [pc EXCEPT ![t] = "putfence"] /\ fence' = [fence EXCEPT ![t] = f]
    BY <1>5 DEF Close, Goto
  <2>2. fence[t] = NoFence /\ \A g \in Fences : ~HasFence(t, g)
    BY <1>0, <2>1, ActorAssumption DEF ThreadStages, HasFence
  <2>3. /\ pc'[t] = "putfence" /\ fence'[t] = f
        /\ \A u \in Threads \ {t} : pc'[u] = pc[u] /\ fence'[u] = fence[u]
    BY <1>0, <2>1 DEF TypeOK, Actors
  <2>4. \A g \in Fences : HasFence(t, g)' <=> g = f
    BY <2>3 DEF HasFence
  <2>5. \A u \in Threads \ {t}, g \in Fences : HasFence(u, g)' <=> HasFence(u, g)
    BY <2>3 DEF HasFence
  <2> QED
    BY <2>1, <2>2, <2>4, <2>5 DEF Wanted
<1>6. ASSUME NEW t \in Threads,
             \/ EnableSignaling(t) \/ Wake(t) \/ TimeOut(t) \/ AllocFails(t) \/ Query(t)
             \/ DestroyName(t) \/ DestroyCollect(t) \/ DestroyLock(t)
      PROVE  Wanted' = Wanted
  <2>1. \E x \in {"sleep", "putfence", "put", "collect", "destroylock", "destroywalk"} : Goto(t, x)
    BY <1>6 DEF EnableSignaling, Wake, TimeOut, AllocFails, Query, DestroyName,
       DestroyCollect, DestroyLock
  <2>2. UNCHANGED <<fence, fd>>
    BY <1>6 DEF EnableSignaling, Wake, TimeOut, AllocFails, Query, DestroyName,
       DestroyCollect, DestroyLock
  <2>3. pc[t] # "release"
    BY <1>6 DEF EnableSignaling, Wake, TimeOut, AllocFails, Query, DestroyName,
       DestroyCollect, DestroyLock
  <2> QED
    BY <1>0, <1>1, <2>1, <2>2, <2>3
<1>7. ASSUME NEW t \in Threads, NEW i \in IoctlNames, Lookup(t, i) PROVE Wanted' = Wanted
  BY <1>0, <1>1, <1>7 DEF Lookup
<1>8. ASSUME NEW a \in Actors, WalkEnd(a) PROVE Wanted' = Wanted
  BY <1>1, <1>8 DEF WalkEnd
<1>9. ASSUME NEW a \in Actors, NEW s \in Seqnos, SignalStart(a, s) PROVE Wanted' = Wanted
  <2>1. pc[a] # "release" /\ UNCHANGED <<fence, fd>>
    BY <1>9 DEF SignalStart, Signaller
  <2>2. Goto(a, "put") \/ Goto(a, "walk")
    BY <1>9 DEF SignalStart
  <2> QED
    BY <1>1, <2>1, <2>2
<1>10. ASSUME NEW o \in Objs, Pop(o) \/ Fire(o) \/ ObjEnd(o) PROVE Wanted' = Wanted
  <2>1. UNCHANGED <<fence, fd>>
    BY <1>10 DEF Pop, Fire, ObjEnd
  <2>2. pc[o] # "release"
    BY <1>0 DEF IInv, ObjStages, ObjStage
  <2>3. Goto(o, "retire") \/ Goto(o, "idle") \/ pc' = pc
    BY <1>10 DEF Pop, Fire, ObjEnd, PutSig
  <2> QED
    BY <1>0, <1>1, <2>1, <2>2, <2>3, StillWants
<1> QED
  BY <1>3, <1>4, <1>5, <1>6, <1>7, <1>8, <1>9, <1>10

-----------------------------------------------------------------------------
(* Each step is one of the abstract timeline, or invisible                 *)

\* When nothing is left of a timeline, a new one is all that can come.
LEMMA OnlyCreate ==
  ASSUME IInv, Next, ref = 0 PROVE \E s \in Initials : Create(s)
<1>0. TypeOK /\ ThreadStages /\ FenceCounted
  BY DEF IInv
<1>1. ~named /\ \A o \in Objs : ostate[o] = "none" /\ pc[o] = "idle"
  BY AtCreate
<1>2. fd = {}
  <2>1. \A f \in Fences : f \notin fd
    BY <1>0, AtCreate, Referred
  <2> QED
    BY <1>0, <2>1 DEF TypeOK
<1>3. ASSUME NEW t \in Threads PROVE pc[t] = "idle"
  <2>1. ~Holds(t)
    BY <1>0, Alive DEF IInv
  <2>2. pc[t] \notin {"install", "enable", "sleep", "putfence", "release"}
    BY AtFence
  <2>3. pc[t] \in PCs
    BY <1>0 DEF TypeOK, Actors
  <2>4. pc[t] \notin {"found", "put", "walk", "collect", "destroylock", "destroywalk", "retire"}
    BY <1>0, <2>1, AtPut DEF ThreadStages, Holds
  <2> QED
    BY <2>2, <2>3, <2>4 DEF PCs
<1>4. \A a \in Actors : pc[a] = "idle"
  BY <1>1, <1>3 DEF Actors
<1>5. ASSUME NEW a \in Actors, Progress(a) PROVE FALSE
  BY <1>4, <1>5 DEF Progress, SignalStart, Signaller, WalkFence, WalkEnd
<1>6. ASSUME NEW t \in Threads, ThreadProgress(t), ~Progress(t) PROVE FALSE
  BY <1>3, <1>6 DEF ThreadProgress, PutTimeline, Install, EnableSignaling, Wake,
     AllocFence, AllocFails, PutFence, Release, Query, DestroyCollect, DestroyLock,
     DestroyFence
<1>7. ASSUME NEW o \in Objs, ObjProgress(o), ~Progress(o) PROVE FALSE
  BY <1>1, <1>7 DEF ObjProgress, Retire, Pop, Fire, ObjEnd
<1>8. CASE Request
  BY <1>1, <1>2, <1>3, <1>8 DEF Request, Lookup, Close, DestroyName, TimeOut, Poll, AddTimeline
<1> QED
  BY <1>5, <1>6, <1>7, <1>8 DEF Next, Actors

\* The answer depends on the value, the events and what is retired.
LEMMA AnswerKept ==
  ASSUME IInv, IInv', UNCHANGED <<value, events, oseq, retired>>
  PROVE  Answer' = Answer
<1>1. AnswerIsMost /\ AnswerIsMost'
  BY AnswerMost, AnswerMostNext DEF IInv
<1>2. /\ Answer \in Nat /\ value <= Answer
      /\ \A i \in DOMAIN events : events[i] \in retired => oseq[events[i]] <= Answer
      /\ \/ Answer = value
         \/ \E i \in DOMAIN events : events[i] \in retired /\ Answer = oseq[events[i]]
  BY <1>1 DEF AnswerIsMost
<1>3. /\ Answer' \in Nat /\ value <= Answer'
      /\ \A i \in DOMAIN events : events[i] \in retired => oseq[events[i]] <= Answer'
      /\ \/ Answer' = value
         \/ \E i \in DOMAIN events : events[i] \in retired /\ Answer' = oseq[events[i]]
  BY <1>1 DEF AnswerIsMost
<1> HIDE DEF Answer
<1>4. Answer <= Answer'
  BY <1>2, <1>3
<1>5. Answer' <= Answer
  BY <1>2, <1>3
<1> QED
  BY <1>2, <1>3, <1>4, <1>5

\* A step that leaves the fences and the id alone can only get further.
LEMMA Advances ==
  ASSUME IInv, IInv', [Next]_vars, ref > 0, UNCHANGED <<named, fstate, fseq>>,
         Wanted' = Wanted
  PROVE  TimelineStep
<1>1. value' >= value /\ Answer' >= Answer
  BY ValueGrows, AnswerGrows
<1>2. AnswerIsMost /\ AnswerIsMost'
  BY AnswerMost, AnswerMostNext DEF IInv
<1>3. value \in Nat /\ value' \in Nat /\ Answer \in Nat /\ Answer' \in Nat /\ value' <= Answer'
  BY <1>2, BoundAssumption DEF IInv, TypeOK, AnswerIsMost
<1>4. value <= value' /\ Answer <= Answer'
  BY <1>1, <1>3
<1>5. Abstract!Advance
  BY <1>3, <1>4 DEF Abstract!Advance
<1> QED
  BY <1>5 DEF TimelineStep, Abstract!Next

\* A new timeline knows what it starts with.
LEMMA CreateCreates ==
  ASSUME IInv, IInv', NEW s \in Initials, Create(s) PROVE Abstract!Create
<1>1. ~named /\ \A f \in Fences : fstate[f] = "none"
  BY AtCreate DEF Create
<1>2. /\ named' = TRUE /\ value' = s /\ events' = <<>>
      /\ UNCHANGED <<fstate, fseq, fd, pc, fence>>
  BY DEF Create, fenceVars, actorVars
<1>3. AnswerIsMost'
  BY AnswerMostNext DEF IInv
<1>4. Answer' = value'
  BY <1>2, <1>3 DEF AnswerIsMost
<1>5. s \in Nat
  BY BoundAssumption
<1>6. Wanted' = Wanted
  BY <1>2, StillWants
<1> QED
  BY <1>1, <1>2, <1>4, <1>5, <1>6 DEF Abstract!Create

\* The id is removed.
LEMMA NameGoes ==
  ASSUME IInv, IInv', NEW t \in Threads, DestroyName(t) PROVE Abstract!Destroy
<1>1. named /\ named' = FALSE /\ UNCHANGED <<value, events, oseq, retired, fstate, fseq>>
  BY DEF DestroyName, fenceVars, objVars
<1> QED
  BY <1>1, AnswerKept, StepWants DEF Abstract!Destroy

\* kgsl_timeline_fence_alloc hands out a fence that its caller wants.
LEMMA AllocIssues ==
  ASSUME IInv, IInv', NEW t \in Threads, NEW f \in Fences, NEW s \in Seqnos,
         AllocFence(t, f, s)
  PROVE  Abstract!Issue(f)
<1>0. TypeOK /\ ThreadStages
  BY DEF IInv
<1>1. /\ pc[t] = "found" /\ fstate[f] = "none"
      /\ fstate' = [fstate EXCEPT ![f] = IF s <= value THEN "signaled" ELSE "unsignaled"]
      /\ fseq' = [fseq EXCEPT ![f] = s] /\ fence' = [fence EXCEPT ![t] = f]
      /\ UNCHANGED <<named, value, events, fd, oseq, retired>>
  BY DEF AllocFence, objVars
<1>2. \E x \in {"put", "install"} : pc' = [pc EXCEPT ![t] = x]
  BY DEF AllocFence, Goto
<1>3. fseq'[f] = s /\ s \in Nat
  BY <1>0, <1>1 DEF TypeOK, Seqnos
<1>4. /\ pc'[t] # "release" /\ fence'[t] = f
      /\ \A u \in Threads \ {t} : pc'[u] = pc[u] /\ fence'[u] = fence[u]
  BY <1>0, <1>1, <1>2 DEF TypeOK, Actors
<1>5. \A g \in Fences : ~HasFence(t, g)
  BY <1>0, <1>1, ActorAssumption DEF ThreadStages, HasFence
<1>6. \A g \in Fences : HasFence(t, g)' <=> g = f
  BY <1>4 DEF HasFence
<1>7. \A u \in Threads \ {t}, g \in Fences : HasFence(u, g)' <=> HasFence(u, g)
  BY <1>4 DEF HasFence
<1>8. Wanted' = Wanted \cup {f}
  BY <1>1, <1>5, <1>6, <1>7 DEF Wanted
<1>9. Answer' = Answer
  BY <1>1, AnswerKept
<1> QED
  BY <1>1, <1>3, <1>8, <1>9 DEF Abstract!Issue

\* A fence is signalled by a poll, a waiter or a walk, once its number is
\* reached; a second signal changes nothing.
LEMMA FenceSignals ==
  ASSUME IInv, IInv', NEW f \in Fences, Signal(f), Reached(f),
         UNCHANGED <<named, value, events, oseq, retired, fseq>>, Wanted' = Wanted
  PROVE  TimelineStep
<1>0. fstate \in [Fences -> {"none", "unsignaled", "signaled", "error"}]
  BY DEF IInv, TypeOK
<1>1. Answer' = Answer
  BY AnswerKept
<1>2. CASE fstate[f] = "unsignaled"
  <2>1. fstate' = [fstate EXCEPT ![f] = "signaled"]
    BY <1>2 DEF Signal
  <2>2. Abstract!Signal(f)
    BY <1>1, <1>2, <2>1 DEF Abstract!Signal, Reached
  <2> QED
    BY <2>2 DEF TimelineStep, Abstract!Next
<1>3. CASE fstate[f] # "unsignaled"
  <2>1. fstate' = fstate
    BY <1>0, <1>3 DEF Signal
  <2> QED
    BY <1>1, <2>1 DEF TimelineStep, shown
<1> QED
  BY <1>2, <1>3

\* A fence that nobody wants is freed.
LEMMA FenceFreed ==
  ASSUME IInv, IInv', NEW f \in Fences, Free(f), fstate[f] # "none", f \notin Wanted,
         UNCHANGED <<named, value, events, oseq, retired>>, Wanted' = Wanted
  PROVE  TimelineStep
<1>1. Answer' = Answer
  BY AnswerKept
<1>2. Abstract!Free(f)
  BY <1>1 DEF Free, Abstract!Free
<1> QED
  BY <1>2 DEF TimelineStep, Abstract!Next

\* The steps of a walk: signal or free.
LEMMA WalkFenceRefines ==
  ASSUME IInv, IInv', NEW a \in Actors, NEW f \in Fences, WalkFence(a, f)
  PROVE  TimelineStep
<1>1. /\ pc[a] = "walk" /\ f \in temp[a]
      /\ UNCHANGED <<named, value, events, oseq, retired, fd, pc, fence>>
  BY DEF WalkFence, objVars
<1>2. Wanted' = Wanted
  BY <1>1, StillWants
<1>3. CASE frefs[f] = 1
  <2>1. Free(f) /\ fstate[f] # "none"
    BY <1>1, <1>3, OnStackList DEF WalkFence
  <2>2. f \notin Wanted
    BY <1>1, <1>3, Unwanted
  <2> QED
    BY <1>1, <1>2, <2>1, <2>2, FenceFreed
<1>4. CASE frefs[f] # 1
  <2>1. Signal(f) /\ fseq' = fseq
    BY <1>4 DEF WalkFence
  <2>2. Reached(f)
    BY <1>1 DEF IInv, WalkStages, WalkStage
  <2> QED
    BY <1>1, <1>2, <2>1, <2>2, FenceSignals
<1> QED
  BY <1>3, <1>4

\* The steps of a destroy: an error for each fence, or its end.
LEMMA DestroyFenceRefines ==
  ASSUME IInv, IInv', DestroyedUnnamed, NEW t \in Threads, NEW f \in Fences,
         DestroyFence(t, f)
  PROVE  TimelineStep
<1>0. t \in Actors
  BY DEF Actors
<1>1. /\ pc[t] = "destroywalk" /\ f \in temp[t]
      /\ UNCHANGED <<named, value, events, oseq, retired, fd, pc, fence>>
  BY DEF DestroyFence, objVars
<1>2. Wanted' = Wanted /\ fstate[f] # "none"
  BY <1>0, <1>1, StillWants, OnStackList
<1>3. CASE frefs[f] = 1
  <2>1. Free(f)
    BY <1>3 DEF DestroyFence
  <2>2. f \notin Wanted
    BY <1>0, <1>1, <1>3, Unwanted
  <2> QED
    BY <1>1, <1>2, <2>1, <2>2, FenceFreed
<1>4. CASE frefs[f] # 1
  <2>1. fstate' = [fstate EXCEPT ![f] = "error"] /\ fseq' = fseq
    BY <1>4 DEF DestroyFence
  <2>2. ~named
    BY <1>1 DEF IInv, ThreadStages, DestroyedUnnamed
  <2>3. Answer' = Answer
    BY <1>1, AnswerKept
  <2>4. Abstract!Break(f)
    BY <1>1, <1>2, <2>1, <2>2, <2>3 DEF Abstract!Break
  <2> QED
    BY <2>4 DEF TimelineStep, Abstract!Next
<1> QED
  BY <1>3, <1>4

\* A thread that has put its fence has none.
LEMMA AfterFenceNone ==
  ASSUME TypeOK, NEW t \in Threads, AfterFence(t)
  PROVE  /\ \A f \in Fences : ~HasFence(t, f)'
         /\ \A u \in Threads \ {t}, f \in Fences : HasFence(u, f)' <=> HasFence(u, f)
<1>1. fence' = [fence EXCEPT ![t] = NoFence]
  BY DEF AfterFence, Return
<1>2. \E x \in {"put", "idle"} : pc' = [pc EXCEPT ![t] = x]
  BY DEF AfterFence, Return, Goto
<1>3. /\ fence'[t] = NoFence
      /\ \A u \in Threads \ {t} : pc'[u] = pc[u] /\ fence'[u] = fence[u]
  BY <1>1, <1>2 DEF TypeOK, Actors
<1> QED
  BY <1>3, ActorAssumption DEF HasFence

\* Whoever puts a fence last leaves it to its release.
LEMMA PutFenceRefines ==
  ASSUME IInv, IInv', [Next]_vars, NEW t \in Threads, PutFence(t)
  PROVE  TimelineStep
<1>0. TypeOK
  BY DEF IInv
<1>1. pc[t] = "putfence" /\ UNCHANGED <<named, value, events, oseq, retired, fd, fstate, fseq>>
  BY DEF PutFence, timelineVars, objVars
<1>2. PICK f \in Fences : fence[t] = f
  BY <1>1, AtFence
<1>3. ref > 0
  BY <1>1, AtFence
<1>4. /\ \A g \in Fences : ~HasFence(t, g)'
      /\ \A u \in Threads \ {t}, g \in Fences : HasFence(u, g)' <=> HasFence(u, g)
  <2>1. CASE frefs[f] = 1
    <3>1. pc' = [pc EXCEPT ![t] = "release"] /\ fence' = fence
      BY <1>2, <2>1 DEF PutFence, Goto
    <3>2. pc'[t] = "release" /\ \A u \in Threads \ {t} : pc'[u] = pc[u]
      BY <1>0, <3>1 DEF TypeOK, Actors
    <3> QED
      BY <3>1, <3>2 DEF HasFence
  <2>2. CASE frefs[f] # 1
    <3>1. AfterFence(t)
      BY <1>2, <2>2 DEF PutFence
    <3> QED
      BY <1>0, <3>1, AfterFenceNone
  <2> QED
    BY <2>1, <2>2
<1>5. \A g \in Fences : HasFence(t, g) <=> g = f
  BY <1>1, <1>2 DEF HasFence
<1>6. f \in Wanted /\ (Wanted' = Wanted \/ Wanted' = Wanted \ {f})
  <2>1. f \in Wanted
    BY <1>5 DEF Wanted
  <2>2. \A g \in Fences \ {f} : g \in Wanted' <=> g \in Wanted
    BY <1>1, <1>4, <1>5 DEF Wanted
  <2>3. Wanted \subseteq Fences /\ Wanted' \subseteq Fences
    BY DEF Wanted
  <2>4. CASE f \in Wanted'
    BY <2>1, <2>2, <2>3, <2>4
  <2>5. CASE f \notin Wanted'
    BY <2>1, <2>2, <2>3, <2>5
  <2> QED
    BY <2>1, <2>4, <2>5
<1>7. CASE Wanted' = Wanted
  BY <1>1, <1>3, <1>7, Advances
<1>8. CASE Wanted' = Wanted \ {f}
  <2>1. Answer' = Answer
    BY <1>1, AnswerKept
  <2>2. Abstract!Abandon(f)
    BY <1>1, <1>6, <1>8, <2>1 DEF Abstract!Abandon
  <2> QED
    BY <2>2 DEF TimelineStep, Abstract!Next
<1> QED
  BY <1>6, <1>7, <1>8

\* timeline_fence_release comes when the last reference is gone.
LEMMA ReleaseRefines ==
  ASSUME IInv, IInv', NEW t \in Threads, Release(t) PROVE TimelineStep
<1>0. TypeOK
  BY DEF IInv
<1>1. pc[t] = "release" /\ UNCHANGED <<named, value, events, oseq, retired, fd>>
  BY DEF Release, objVars
<1>2. PICK f \in Fences : fence[t] = f /\ fstate[f] # "none"
  BY <1>1, AtFence
<1>3. Free(f) /\ AfterFence(t)
  BY <1>2 DEF Release
<1>4. f \notin Wanted
  <2>1. frefs[f] = 0
    BY <1>1, <1>2 DEF IInv, FenceOwners
  <2> QED
    BY <2>1, Unwanted
<1>5. \A g \in Fences : ~HasFence(t, g)
  BY <1>1 DEF HasFence
<1>6. Wanted' = Wanted
  BY <1>0, <1>1, <1>3, <1>5, AfterFenceNone, WantsKept
<1> QED
  BY <1>1, <1>2, <1>3, <1>4, <1>6, FenceFreed

\* Every step of the driver is one of the abstract timeline, or invisible.
LEMMA NextRefines ==
  ASSUME IInv, IInv', DestroyedUnnamed, [Next]_vars PROVE TimelineStep
<1>0. IInv /\ IInv' /\ Threads \subseteq Actors /\ Objs \subseteq Actors
  BY DEF Actors
<1>1. CASE UNCHANGED vars
  <2>1. UNCHANGED <<named, value, events, oseq, retired, fstate, fseq, fd, pc, fence>>
    BY <1>1 DEF vars
  <2> QED
    BY <2>1, AnswerKept, StillWants DEF TimelineStep, shown
<1>2. ASSUME NEW s \in Initials, Create(s) PROVE TimelineStep
  BY <1>2, CreateCreates DEF TimelineStep, Abstract!Next
<1>3. CASE Next /\ ref = 0
  BY <1>2, <1>3, OnlyCreate
<1>4. ASSUME Next, ref # 0 PROVE TimelineStep
  <2>0. ref > 0
    BY <1>4 DEF IInv, TypeOK
  <2>1. ASSUME UNCHANGED <<named, fstate, fseq>>, Wanted' = Wanted PROVE TimelineStep
    BY <2>0, <2>1, Advances
  <2>2. ASSUME NEW a \in Actors, Progress(a) PROVE TimelineStep
    <3>1. ASSUME NEW s \in Seqnos, SignalStart(a, s) PROVE TimelineStep
      <4>1. UNCHANGED <<named, fstate, fseq>>
        BY <3>1 DEF SignalStart
      <4> QED
        BY <2>1, <3>1, <4>1, StepWants
    <3>2. ASSUME WalkEnd(a) PROVE TimelineStep
      <4>1. UNCHANGED <<named, fstate, fseq>>
        BY <3>2 DEF WalkEnd, fenceVars
      <4> QED
        BY <2>1, <3>2, <4>1, StepWants
    <3>3. ASSUME NEW f \in Fences, WalkFence(a, f) PROVE TimelineStep
      BY <3>3, WalkFenceRefines
    <3> QED
      BY <2>2, <3>1, <3>2, <3>3 DEF Progress
  <2>3. ASSUME NEW t \in Threads,
               \/ PutTimeline(t) \/ Install(t) \/ Wake(t) \/ TimeOut(t) \/ AllocFails(t)
               \/ Query(t) \/ DestroyCollect(t) \/ DestroyLock(t)
        PROVE  TimelineStep
    <3>1. UNCHANGED <<named, fstate, fseq>>
      BY <2>3 DEF PutTimeline, Install, Wake, TimeOut, AllocFails, Query, DestroyCollect,
         DestroyLock, timelineVars, fenceVars
    <3> QED
      BY <2>1, <2>3, <3>1, StepWants
  <2>4. ASSUME NEW t \in Threads, EnableSignaling(t) PROVE TimelineStep
    <3>1. /\ pc[t] = "enable"
          /\ UNCHANGED <<named, value, events, oseq, retired, fseq>>
      BY <2>4 DEF EnableSignaling, timelineVars, objVars
    <3>2. PICK f \in Fences : fence[t] = f
      BY <3>1, AtFence
    <3>3. Wanted' = Wanted
      BY <2>4, StepWants
    <3>4. CASE Reached(f)
      <4>1. Signal(f)
        BY <2>4, <3>2, <3>4 DEF EnableSignaling
      <4> QED
        BY <3>1, <3>3, <3>4, <4>1, FenceSignals
    <3>5. CASE ~Reached(f)
      <4>1. fstate' = fstate
        BY <2>4, <3>2, <3>5 DEF EnableSignaling
      <4> QED
        BY <2>1, <3>1, <3>3, <4>1
    <3> QED
      BY <3>4, <3>5
  <2>5. ASSUME NEW t \in Threads, NEW f \in Fences, NEW s \in Seqnos, AllocFence(t, f, s)
        PROVE  TimelineStep
    BY <2>5, AllocIssues DEF TimelineStep, Abstract!Next
  <2>6. ASSUME NEW t \in Threads, ThreadProgress(t) PROVE TimelineStep
    BY <1>0, <2>2, <2>3, <2>4, <2>5, <2>6, PutFenceRefines, ReleaseRefines,
       DestroyFenceRefines DEF ThreadProgress
  <2>7. ASSUME NEW o \in Objs, Retire(o) \/ Pop(o) \/ Fire(o) \/ ObjEnd(o) PROVE TimelineStep
    <3>1. UNCHANGED <<named, fstate, fseq>>
      BY <2>7 DEF Retire, Pop, Fire, ObjEnd, timelineVars, fenceVars
    <3>2. CASE Retire(o)
      <4>1. UNCHANGED <<fd, pc, fence>>
        BY <3>2 DEF Retire, fenceVars, actorVars
      <4> QED
        BY <2>1, <3>1, <4>1, StillWants
    <3>3. CASE Pop(o) \/ Fire(o) \/ ObjEnd(o)
      BY <2>1, <3>1, <3>3, StepWants
    <3> QED
      BY <2>7, <3>2, <3>3
  <2>8. ASSUME NEW o \in Objs, ObjProgress(o) PROVE TimelineStep
    BY <1>0, <2>2, <2>7, <2>8 DEF ObjProgress
  <2>9. ASSUME NEW t \in Threads, DestroyName(t) PROVE TimelineStep
    BY <2>9, NameGoes DEF TimelineStep, Abstract!Next
  <2>10. ASSUME NEW t \in Threads, NEW i \in IoctlNames, Lookup(t, i) PROVE TimelineStep
    <3>1. UNCHANGED <<named, fstate, fseq>>
      BY <2>10 DEF Lookup, fenceVars
    <3> QED
      BY <2>1, <2>10, <3>1, StepWants
  <2>11. ASSUME NEW t \in Threads, NEW f \in Fences, Close(t, f) PROVE TimelineStep
    <3>1. UNCHANGED <<named, fstate, fseq>>
      BY <2>11 DEF Close, timelineVars
    <3> QED
      BY <2>1, <2>11, <3>1, StepWants
  <2>12. ASSUME NEW f \in Fences, Poll(f) PROVE TimelineStep
    <3>1. /\ Signal(f) /\ Reached(f)
          /\ UNCHANGED <<named, value, events, oseq, retired, fseq, fd, pc, fence>>
      BY <2>12 DEF Poll, timelineVars, objVars, actorVars
    <3> QED
      BY <3>1, FenceSignals, StillWants
  <2>13. ASSUME NEW o \in Objs, NEW s \in Targets[o], AddTimeline(o, s) PROVE TimelineStep
    <3>1. UNCHANGED <<named, fstate, fseq, fd, pc, fence>>
      BY <2>13 DEF AddTimeline, fenceVars, actorVars
    <3> QED
      BY <2>1, <3>1, StillWants
  <2>14. CASE Request
    BY <1>2, <2>3, <2>9, <2>10, <2>11, <2>12, <2>13, <2>14 DEF Request
  <2> QED
    BY <1>4, <2>6, <2>8, <2>14 DEF Next
<1> QED
  BY <1>1, <1>3, <1>4

\* A timeline of the driver keeps what timelines promise, whatever order waits,
\* signals, polls, releases, destroys and the GPU come in: the value and what
\* queries know only grow, a fence is signalled when its number is reached and
\* exists as long as somebody refers to it, and an error means that the
\* timeline was destroyed.
THEOREM Refinement == Spec => ImplementsTimeline
<1>1. Init => Abstract!Init
  <2> SUFFICES ASSUME Init PROVE Abstract!Init
    OBVIOUS
  <2>1. /\ named = FALSE /\ value = 0 /\ events = <<>> /\ fd = {}
        /\ fstate = [f \in Fences |-> "none"] /\ fseq = [f \in Fences |-> 0]
        /\ fence = [t \in Threads |-> NoFence]
    BY DEF Init
  <2>2. Wanted = {}
    BY <2>1, ActorAssumption DEF Wanted, HasFence
  <2>3. Answer = 0
    BY <2>1 DEF Answer
  <2> QED
    BY <2>1, <2>2, <2>3 DEF Abstract!Init
<1>2. IInv /\ IInv' /\ DestroyedUnnamed /\ [Next]_vars
        => [Abstract!Next]_<<named, value, Answer, fstate, fseq, Wanted>>
  BY NextRefines DEF TimelineStep, shown
<1> QED
  BY <1>1, <1>2, Invariance, NamelessUnderDestroy, PTL
     DEF Spec, ImplementsTimeline, Abstract!Spec, Abstract!timelineVars

\* Whoever refers to a fence can rely on it, with a file descriptor or in an
\* ioctl: it is not freed under them and keeps its number, what has ended stays
\* ended, success means that the number was reached, and an error that the
\* timeline was destroyed.
THEOREM FencesReliable == Spec => FenceKept
<1> DEFINE Kept(f) ==
      /\ fstate'[f] # "none" /\ fseq'[f] = fseq[f]
      /\ fstate[f] # "unsignaled" => fstate'[f] # "unsignaled"
      /\ fstate'[f] = "signaled" /\ fstate[f] = "unsignaled" => fseq[f] <= value
      /\ fstate'[f] = "error" => fstate[f] = "error" \/ ~named
    AllKept == \A f \in Wanted : Kept(f)
<1>1. ASSUME IInv, TimelineStep, NEW f \in Wanted PROVE Kept(f)
  <2>0. /\ f \in Fences /\ fstate[f] # "none" /\ DOMAIN fstate = Fences /\ DOMAIN fseq = Fences
        /\ fstate[f] \in {"none", "unsignaled", "signaled", "error"}
    <3>1. f \in Fences
      BY DEF Wanted
    <3>2. frefs[f] # 0
      BY <1>1, <3>1, Unwanted
    <3> QED
      BY <1>1, <3>1, <3>2 DEF IInv, TypeOK, FenceOwners
  <2>1. ASSUME fstate'[f] = fstate[f], fseq'[f] = fseq[f] PROVE Kept(f)
    BY <2>0, <2>1
  <2>2. CASE UNCHANGED shown \/ Abstract!Create \/ Abstract!Advance \/ Abstract!Destroy
    <3>1. UNCHANGED <<fstate, fseq>>
      BY <2>2 DEF shown, Abstract!Create, Abstract!Advance, Abstract!Destroy
    <3> QED
      BY <2>1, <3>1
  <2>3. ASSUME NEW g \in Fences, Abstract!Issue(g) PROVE Kept(f)
    <3>1. g # f
      BY <2>0, <2>3 DEF Abstract!Issue
    <3>2. fstate'[f] = fstate[f] /\ fseq'[f] = fseq[f]
      BY <2>0, <2>3, <3>1 DEF Abstract!Issue
    <3> QED
      BY <2>1, <3>2
  <2>4. ASSUME NEW g \in Fences, Abstract!Signal(g) PROVE Kept(f)
    <3>1. fseq' = fseq /\ fstate' = [fstate EXCEPT ![g] = "signaled"] /\ fseq[g] <= value
      BY <2>4 DEF Abstract!Signal
    <3>2. CASE g = f
      BY <2>0, <3>1, <3>2
    <3>3. CASE g # f
      BY <2>0, <2>1, <3>1, <3>3
    <3> QED
      BY <3>2, <3>3
  <2>5. ASSUME NEW g \in Fences, Abstract!Break(g) PROVE Kept(f)
    <3>1. fseq' = fseq /\ fstate' = [fstate EXCEPT ![g] = "error"] /\ ~named
      BY <2>5 DEF Abstract!Break
    <3>2. CASE g = f
      BY <2>0, <3>1, <3>2
    <3>3. CASE g # f
      BY <2>0, <2>1, <3>1, <3>3
    <3> QED
      BY <3>2, <3>3
  <2>6. ASSUME NEW g \in Fences, Abstract!Abandon(g) PROVE Kept(f)
    BY <2>1, <2>6 DEF Abstract!Abandon
  <2>7. ASSUME NEW g \in Fences, Abstract!Free(g) PROVE Kept(f)
    <3>1. g # f
      BY <1>1, <2>7 DEF Abstract!Free
    <3>2. fstate'[f] = fstate[f] /\ fseq'[f] = fseq[f]
      BY <2>0, <2>7, <3>1 DEF Abstract!Free
    <3> QED
      BY <2>1, <3>2
  <2> HIDE DEF Kept
  <2> QED
    BY <1>1, <2>2, <2>3, <2>4, <2>5, <2>6, <2>7 DEF TimelineStep, Abstract!Next
<1>2. IInv /\ IInv' /\ DestroyedUnnamed /\ [Next]_vars => AllKept
  <2> HIDE DEF Kept
  <2> QED
    BY <1>1, NextRefines
<1> HIDE DEF AllKept
<1>3. Spec => [][AllKept]_vars
  BY <1>2, Invariance, NamelessUnderDestroy, PTL DEF Spec
<1> QED
  BY <1>3 DEF FenceKept, AllKept
=============================================================================
