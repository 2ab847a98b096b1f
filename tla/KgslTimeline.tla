---------------------------- MODULE KgslTimeline ----------------------------
(***************************************************************************)
(* Timelines of the graphics driver (graphics-kernel/kgsl_timeline.c and   *)
(* the timeline objects of kgsl_drawobj.c).                                *)
(*                                                                         *)
(* A timeline is a counter that only grows.  A fence on it is signalled    *)
(* when the counter reaches its sequence number: by the CPU (the signal    *)
(* ioctl) or when the GPU has retired the commands before a timeline       *)
(* object.  Everything is counted: the id, every fence, every timeline     *)
(* object and every call in progress hold a reference on the timeline,     *)
(* file descriptors, waiters and walks of the fence list hold one on a     *)
(* fence.  timeline->lock guards the counter and is held over a whole walk;*)
(* timeline->fence_lock guards the list of fences and is held for one      *)
(* access, so that a release or a destroy can come between a signaller's   *)
(* steps.                                                                  *)
(*                                                                         *)
(* One timeline at a time is modelled: different timelines share nothing   *)
(* but the table of ids.  The list of fences is a set, since every walk    *)
(* goes over the whole of it; the list of events is a sequence.            *)
(***************************************************************************)
EXTENDS Naturals, Sequences, FiniteSets

CONSTANTS
  Threads,   \* the threads in an ioctl
  Fences,    \* bound: the struct kgsl_timeline_fence in existence at once
  Objs,      \* bound: the timeline objects in existence at once
  NoFence,   \* a thread that has no fence
  NoActor,   \* timeline->lock is free
  MaxSeqno,  \* bound: the largest sequence number used
  Initials,  \* the values timelines are created with
  Ioctls,    \* the ioctls each thread issues
  Targets    \* the numbers each timeline object may be submitted with

IoctlNames == {"wait", "fence_get", "signal", "query", "destroy"}

ASSUME ActorAssumption ==
  /\ Threads \cap Objs = {}
  /\ NoActor \notin Threads \cup Objs
  /\ NoFence \notin Fences
  /\ IsFiniteSet(Threads) /\ IsFiniteSet(Objs) /\ IsFiniteSet(Fences)

ASSUME BoundAssumption ==
  /\ MaxSeqno \in Nat /\ Initials \subseteq 0 .. MaxSeqno
  /\ Ioctls \in [Threads -> SUBSET IoctlNames]
  /\ Targets \in [Objs -> SUBSET (1 .. MaxSeqno)]

\* The numbers fences and signals are about.
Seqnos == 1 .. MaxSeqno

\* Who walks the fences: a thread, or whoever drops the last signal reference
\* of a timeline object (the scheduler or the event worker).
Actors == Threads \cup Objs

VARIABLES
  named,    \* the id is in device->timelines
  ref,      \* timeline->ref
  value,    \* timeline->value
  fences,   \* timeline->fences
  events,   \* timeline->events
  lock,     \* who holds timeline->lock over several steps
  fstate,   \* of each fence: not allocated, unsignaled, signaled, error
  frefs,    \* fence->base.refcount
  fseq,     \* fence->base.seqno
  fd,       \* the fences a file descriptor refers to
  ostate,   \* of each timeline object: not allocated, queued, popped
  oseq,     \* event->seqno
  sigref,   \* timelineobj->sig_refcount
  fired,    \* its event callback has run
  retired,  \* the GPU has retired its timestamp
  pc,       \* where each actor is
  ioctl,    \* the ioctl each thread is in
  fence,    \* the fence it is about
  temp      \* the fences on each actor's stack list

timelineVars == <<named, ref, value, fences, events, lock>>
fenceVars == <<fstate, frefs, fseq, fd>>
objVars == <<ostate, oseq, sigref, fired, retired>>
actorVars == <<pc, ioctl, fence, temp>>
vars == <<named, ref, value, fences, events, lock, fstate, frefs, fseq, fd,
          ostate, oseq, sigref, fired, retired, pc, ioctl, fence, temp>>

-----------------------------------------------------------------------------

Goto(a, at) == pc' = [pc EXCEPT ![a] = at]

Return(t) ==
  /\ Goto(t, "idle")
  /\ ioctl' = [ioctl EXCEPT ![t] = "none"]
  /\ fence' = [fence EXCEPT ![t] = NoFence]

LockFree == lock = NoActor

Reached(f) == fseq[f] <= value

\* dma_fence_signal_locked: a second signal changes nothing.
Signal(f) == fstate' = [fstate EXCEPT ![f] = IF @ = "unsignaled" THEN "signaled" ELSE @]

Init ==
  /\ named = FALSE /\ ref = 0 /\ value = 0
  /\ fences = {} /\ events = <<>> /\ lock = NoActor
  /\ fstate = [f \in Fences |-> "none"]
  /\ frefs = [f \in Fences |-> 0]
  /\ fseq = [f \in Fences |-> 0]
  /\ fd = {}
  /\ ostate = [o \in Objs |-> "none"]
  /\ oseq = [o \in Objs |-> 0]
  /\ sigref = [o \in Objs |-> 0]
  /\ fired = {} /\ retired = {}
  /\ pc = [a \in Actors |-> "idle"]
  /\ ioctl = [t \in Threads |-> "none"]
  /\ fence = [t \in Threads |-> NoFence]
  /\ temp = [a \in Actors |-> {}]

-----------------------------------------------------------------------------
(* The timeline: create, look up, drop                                     *)

\* kgsl_ioctl_timeline_create: a fresh timeline under an id.
Create(initial) ==
  /\ ref = 0
  /\ named' = TRUE /\ ref' = 1 /\ value' = initial
  /\ fences' = {} /\ events' = <<>>
  /\ UNCHANGED <<lock, fenceVars, objVars, actorVars>>

\* kgsl_timeline_by_id, at the start of every ioctl but create and destroy.
Lookup(t, i) ==
  /\ pc[t] = "idle" /\ named /\ i \in Ioctls[t] \ {"destroy"}
  /\ ref' = ref + 1
  /\ Goto(t, "found")
  /\ ioctl' = [ioctl EXCEPT ![t] = i]
  /\ UNCHANGED <<named, value, fences, events, lock, fenceVars, objVars,
                 fence, temp>>

\* kgsl_timeline_put of a thread; a waiter goes on to wait.
PutTimeline(t) ==
  /\ pc[t] = "put"
  /\ ref' = ref - 1
  /\ IF ioctl[t] = "wait" THEN Goto(t, "enable") /\ UNCHANGED <<ioctl, fence>>
     ELSE Return(t)
  /\ UNCHANGED <<named, value, fences, events, lock, fenceVars, objVars, temp>>

-----------------------------------------------------------------------------
(* Fences                                                                  *)

\* Mutant: the fence takes no reference on the timeline.
AllocFenceNoGet(t, f, s) ==
  /\ pc[t] = "found" /\ ioctl[t] \in {"wait", "fence_get"}
  /\ fstate[f] = "none" /\ LockFree
  /\ fstate' = [fstate EXCEPT ![f] = IF s <= value THEN "signaled" ELSE "unsignaled"]
  /\ frefs' = [frefs EXCEPT ![f] = 1]
  /\ fseq' = [fseq EXCEPT ![f] = s]
  /\ fences' = IF s <= value THEN fences ELSE fences \cup {f}
  /\ fence' = [fence EXCEPT ![t] = f]
  /\ Goto(t, IF ioctl[t] = "wait" THEN "put" ELSE "install")
  /\ UNCHANGED <<named, ref, value, events, lock, fd, objVars, ioctl, temp>>

\* kgsl_timeline_fence_alloc: a reference on the timeline, and under its lock
\* the fence is found signalled already or put on the list.
AllocFence(t, f, s) ==
  /\ pc[t] = "found" /\ ioctl[t] \in {"wait", "fence_get"}
  /\ fstate[f] = "none" /\ LockFree
  /\ ref' = ref + 1
  /\ fstate' = [fstate EXCEPT ![f] = IF s <= value THEN "signaled" ELSE "unsignaled"]
  /\ frefs' = [frefs EXCEPT ![f] = 1]
  /\ fseq' = [fseq EXCEPT ![f] = s]
  /\ fences' = IF s <= value THEN fences ELSE fences \cup {f}
  /\ fence' = [fence EXCEPT ![t] = f]
  /\ Goto(t, IF ioctl[t] = "wait" THEN "put" ELSE "install")
  /\ UNCHANGED <<named, value, events, lock, fd, objVars, ioctl, temp>>

\* ... or there is no memory for it, and the ioctl fails.
AllocFails(t) ==
  /\ pc[t] = "found" /\ ioctl[t] \in {"wait", "fence_get"}
  /\ ioctl' = [ioctl EXCEPT ![t] = "failed"]
  /\ Goto(t, "put")
  /\ UNCHANGED <<timelineVars, fenceVars, objVars, fence, temp>>

\* The rest of kgsl_ioctl_timeline_fence_get: a file descriptor takes a
\* reference of its own, unless there is none to be had.
Install(t) ==
  /\ pc[t] = "install"
  /\ \/ /\ fd' = fd \cup {fence[t]}
        /\ frefs' = [frefs EXCEPT ![fence[t]] = @ + 1]
     \/ UNCHANGED <<fd, frefs>>
  /\ Goto(t, "putfence")
  /\ UNCHANGED <<timelineVars, fstate, fseq, objVars, ioctl, fence, temp>>

\* The file is closed.
Close(t, f) ==
  /\ pc[t] = "idle" /\ f \in fd
  /\ fd' = fd \ {f}
  /\ Goto(t, "putfence")
  /\ fence' = [fence EXCEPT ![t] = f]
  /\ UNCHANGED <<timelineVars, fstate, frefs, fseq, objVars, ioctl, temp>>

\* dma_fence_is_signaled, from a poll of the file: timeline_fence_signaled
\* reads the counter, and the fence is signalled by whoever finds it reached.
Poll(f) ==
  /\ f \in fd /\ fstate[f] = "unsignaled"
  /\ Reached(f) /\ LockFree
  /\ Signal(f)
  /\ UNCHANGED <<timelineVars, frefs, fseq, fd, objVars, actorVars>>

\* Mutant: the sense of timeline_fence_enable_signaling is inverted.
EnableSignalingInverted(t) ==
  /\ pc[t] = "enable" /\ LockFree
  /\ IF Reached(fence[t]) THEN UNCHANGED fstate ELSE Signal(fence[t])
  /\ Goto(t, "sleep")
  /\ UNCHANGED <<timelineVars, frefs, fseq, fd, objVars, ioctl, fence, temp>>

\* dma_fence_wait_timeout starts: timeline_fence_enable_signaling under the lock.
EnableSignaling(t) ==
  /\ pc[t] = "enable" /\ LockFree
  /\ IF Reached(fence[t]) THEN Signal(fence[t]) ELSE UNCHANGED fstate
  /\ Goto(t, "sleep")
  /\ UNCHANGED <<timelineVars, frefs, fseq, fd, objVars, ioctl, fence, temp>>

\* The wait ends because the fence is signalled...
Wake(t) ==
  /\ pc[t] = "sleep" /\ fstate[fence[t]] # "unsignaled"
  /\ Goto(t, "putfence")
  /\ UNCHANGED <<timelineVars, fenceVars, objVars, ioctl, fence, temp>>

\* ... or on its timeout or a signal of the process.
TimeOut(t) ==
  /\ pc[t] = "sleep" /\ fstate[fence[t]] = "unsignaled"
  /\ Goto(t, "putfence")
  /\ UNCHANGED <<timelineVars, fenceVars, objVars, ioctl, fence, temp>>

\* What follows the last use of a fence in an ioctl.
AfterFence(t) ==
  IF ioctl[t] = "fence_get"
  THEN Goto(t, "put") /\ ioctl' = ioctl /\ fence' = [fence EXCEPT ![t] = NoFence]
  ELSE Return(t)

\* dma_fence_put: at zero the fence will be released.
PutFence(t) ==
  /\ pc[t] = "putfence"
  /\ frefs' = [frefs EXCEPT ![fence[t]] = @ - 1]
  /\ IF frefs[fence[t]] = 1 THEN Goto(t, "release") /\ UNCHANGED <<ioctl, fence>>
     ELSE AfterFence(t)
  /\ UNCHANGED <<timelineVars, fstate, fseq, fd, objVars, temp>>

\* The fence is freed and gives its reference on the timeline back.
Free(f) ==
  /\ fstate' = [fstate EXCEPT ![f] = "none"]
  /\ fseq' = [fseq EXCEPT ![f] = 0]
  /\ ref' = ref - 1

\* Mutant: the fence is left on the list.
ReleaseStaysListed(t) ==
  /\ pc[t] = "release"
  /\ Free(fence[t])
  /\ AfterFence(t)
  /\ UNCHANGED <<named, value, fences, events, lock, frefs, fd, objVars, temp>>

\* timeline_fence_release.
Release(t) ==
  /\ pc[t] = "release"
  /\ fences' = fences \ {fence[t]}
  /\ Free(fence[t])
  /\ AfterFence(t)
  /\ UNCHANGED <<named, value, events, lock, frefs, fd, objVars, temp>>

-----------------------------------------------------------------------------
(* Signalling                                                              *)

\* Who is about to call kgsl_timeline_signal, and with which number.
Signaller(a, s) ==
  \/ a \in Threads /\ pc[a] = "found" /\ ioctl[a] = "signal"
  \/ a \in Objs /\ pc[a] = "retire" /\ s = oseq[a]

\* The fences a walk takes a reference on; one whose last reference is gone is
\* left to its release.
Held(S) == {f \in S : frefs[f] > 0}

TakeAll(S) == frefs' = [f \in Fences |-> IF f \in S THEN frefs[f] + 1 ELSE frefs[f]]

\* Mutant: fences at exactly the new value are left for the next signal.
SignalStartOffByOne(a, s) ==
  /\ Signaller(a, s) /\ LockFree
  /\ IF s < value THEN Goto(a, "put") /\ UNCHANGED <<value, events, lock, fences, frefs, temp>>
     ELSE LET S == Held({f \in fences : fseq[f] < s}) IN
          /\ value' = s
          /\ events' = SelectSeq(events, LAMBDA o : oseq[o] > s)
          /\ fences' = fences \ S
          /\ TakeAll(S)
          /\ temp' = [temp EXCEPT ![a] = S]
          /\ lock' = a
          /\ Goto(a, "walk")
  /\ UNCHANGED <<named, ref, fstate, fseq, fd, objVars, ioctl, fence>>

\* kgsl_timeline_signal: an old number does nothing; a new one becomes the
\* value, the events up to it leave their list (a prefix: it is sorted) and
\* the fences up to it are moved to the caller's own list.
SignalStart(a, s) ==
  /\ Signaller(a, s) /\ LockFree
  /\ IF s < value THEN Goto(a, "put") /\ UNCHANGED <<value, events, lock, fences, frefs, temp>>
     ELSE LET S == Held({f \in fences : fseq[f] <= s})
              Late == {i \in DOMAIN events : oseq[events[i]] > s}
              first == CHOOSE i \in Late : \A j \in Late : i <= j
          IN
          /\ value' = s
          /\ events' = IF Late = {} THEN <<>> ELSE SubSeq(events, first, Len(events))
          /\ fences' = fences \ S
          /\ TakeAll(S)
          /\ temp' = [temp EXCEPT ![a] = S]
          /\ lock' = a
          /\ Goto(a, "walk")
  /\ UNCHANGED <<named, ref, fstate, fseq, fd, objVars, ioctl, fence>>

\* One fence of the walk is signalled, then put: if the walk's reference is
\* the last it is released here, under the lock.
WalkFence(a, f) ==
  /\ pc[a] = "walk" /\ f \in temp[a]
  /\ frefs' = [frefs EXCEPT ![f] = @ - 1]
  /\ IF frefs[f] = 1 THEN Free(f) /\ fences' = fences \ {f}
     ELSE Signal(f) /\ UNCHANGED <<fseq, ref, fences>>
  /\ temp' = [temp EXCEPT ![a] = @ \ {f}]
  /\ UNCHANGED <<named, value, events, lock, fd, objVars, pc, ioctl, fence>>

\* The end of a walk, signal's or destroy's: the lock is dropped.
WalkEnd(a) ==
  /\ pc[a] \in {"walk", "destroywalk"} /\ temp[a] = {}
  /\ lock' = NoActor
  /\ Goto(a, "put")
  /\ UNCHANGED <<named, ref, value, fences, events, fenceVars, objVars, ioctl,
                 fence, temp>>

-----------------------------------------------------------------------------
(* Query                                                                   *)

\* Mutant: the list is searched from its front.
AnswerFromFront ==
  LET R == {i \in DOMAIN events : events[i] \in retired}
  IN IF R = {} THEN value
     ELSE oseq[events[CHOOSE i \in R : \A j \in R : i <= j]]

\* What a query returns: the number of the last event in the list whose
\* timestamp the GPU has retired, if any, else the value.
Answer ==
  LET R == {i \in DOMAIN events : events[i] \in retired}
  IN IF R = {} THEN value
     ELSE oseq[events[CHOOSE i \in R : \A j \in R : j <= i]]

\* kgsl_ioctl_timeline_query: Answer is read under the lock, and nothing
\* changes.
Query(t) ==
  /\ pc[t] = "found" /\ ioctl[t] = "query" /\ LockFree
  /\ Goto(t, "put")
  /\ UNCHANGED <<timelineVars, fenceVars, objVars, ioctl, fence, temp>>

-----------------------------------------------------------------------------
(* Destroy                                                                 *)

\* kgsl_ioctl_timeline_destroy takes the id away, and its reference with it.
DestroyName(t) ==
  /\ pc[t] = "idle" /\ named /\ "destroy" \in Ioctls[t]
  /\ named' = FALSE
  /\ Goto(t, "collect")
  /\ ioctl' = [ioctl EXCEPT ![t] = "destroy"]
  /\ UNCHANGED <<ref, value, fences, events, lock, fenceVars, objVars, fence, temp>>

\* Mutant: no reference is taken on the fences.
DestroyCollectNoGet(t) ==
  /\ pc[t] = "collect"
  /\ temp' = [temp EXCEPT ![t] = fences]
  /\ fences' = {}
  /\ Goto(t, "destroylock")
  /\ UNCHANGED <<named, ref, value, events, lock, fenceVars, objVars, ioctl, fence>>

\* The whole list, under fence_lock only.
DestroyCollect(t) ==
  /\ pc[t] = "collect"
  /\ temp' = [temp EXCEPT ![t] = Held(fences)]
  /\ TakeAll(Held(fences))
  /\ fences' = {}
  /\ Goto(t, "destroylock")
  /\ UNCHANGED <<named, ref, value, events, lock, fstate, fseq, fd, objVars,
                 ioctl, fence>>

DestroyLock(t) ==
  /\ pc[t] = "destroylock" /\ LockFree
  /\ lock' = t
  /\ Goto(t, "destroywalk")
  /\ UNCHANGED <<named, ref, value, fences, events, fenceVars, objVars, ioctl,
                 fence, temp>>

\* dma_fence_set_error, dma_fence_signal_locked, dma_fence_put.
DestroyFence(t, f) ==
  /\ pc[t] = "destroywalk" /\ f \in temp[t]
  /\ frefs' = [frefs EXCEPT ![f] = @ - 1]
  /\ IF frefs[f] = 1 THEN Free(f) /\ fences' = fences \ {f}
     ELSE /\ fstate' = [fstate EXCEPT ![f] = "error"]
          /\ UNCHANGED <<fseq, ref, fences>>
  /\ temp' = [temp EXCEPT ![t] = @ \ {f}]
  /\ UNCHANGED <<named, value, events, lock, fd, objVars, pc, ioctl, fence>>

-----------------------------------------------------------------------------
(* Timeline objects: signals that wait for the GPU                         *)

\* kgsl_drawobj_timeline_create and kgsl_drawobj_add_timeline: one reference
\* on the timeline, two to signal (the scheduler's and the event's).
AddTimeline(o, s) ==
  /\ ostate[o] = "none" /\ named
  /\ ref' = ref + 1
  /\ ostate' = [ostate EXCEPT ![o] = "queued"]
  /\ oseq' = [oseq EXCEPT ![o] = s]
  /\ sigref' = [sigref EXCEPT ![o] = 2]
  /\ UNCHANGED <<named, value, fences, events, lock, fenceVars, fired, retired,
                 actorVars>>

\* The GPU retires the timestamp.
Retire(o) ==
  /\ ostate[o] # "none" /\ o \notin retired
  /\ retired' = retired \cup {o}
  /\ UNCHANGED <<timelineVars, fenceVars, ostate, oseq, sigref, fired, actorVars>>

\* kgsl_timeline_add_signal's place: behind everything that is not later.
Insert(o) ==
  LET k == Cardinality({i \in DOMAIN events : oseq[events[i]] <= oseq[o]})
  IN SubSeq(events, 1, k) \o <<o>> \o SubSeq(events, k + 1, Len(events))

\* kgsl_timelineobj_signal: the last reference starts the signalling.
PutSig(o) ==
  /\ sigref' = [sigref EXCEPT ![o] = @ - 1]
  /\ IF sigref[o] = 1 THEN Goto(o, "retire") ELSE UNCHANGED pc

\* Mutant: a number that was signalled already is put on the list as well.
PopAlwaysAdds(o) ==
  /\ ostate[o] = "queued" /\ LockFree
  /\ events' = Insert(o)
  /\ ostate' = [ostate EXCEPT ![o] = "popped"]
  /\ PutSig(o)
  /\ UNCHANGED <<named, ref, value, fences, lock, fenceVars, oseq, fired, retired,
                 ioctl, fence, temp>>

\* Mutant: the scheduler keeps its signal reference.
PopNoPut(o) ==
  /\ ostate[o] = "queued" /\ LockFree
  /\ events' = IF value >= oseq[o] THEN events ELSE Insert(o)
  /\ ostate' = [ostate EXCEPT ![o] = "popped"]
  /\ UNCHANGED <<named, ref, value, fences, lock, fenceVars, oseq, sigref, fired,
                 retired, actorVars>>

\* timelineobj_destroy, when the object leaves its context's queue:
\* kgsl_timeline_add_signal, and the scheduler's signal reference is put.
Pop(o) ==
  /\ ostate[o] = "queued" /\ LockFree
  /\ events' = IF value >= oseq[o] THEN events ELSE Insert(o)
  /\ ostate' = [ostate EXCEPT ![o] = "popped"]
  /\ PutSig(o)
  /\ UNCHANGED <<named, ref, value, fences, lock, fenceVars, oseq, fired, retired,
                 ioctl, fence, temp>>

\* Mutant: the callback may run twice, retired and cancelled.
FireTwice(o) ==
  /\ ostate[o] # "none"
  /\ fired' = fired \cup {o}
  /\ PutSig(o)
  /\ UNCHANGED <<timelineVars, fenceVars, ostate, oseq, retired, ioctl, fence, temp>>

\* _timeline_signaled: the timestamp is retired, or the event is cancelled
\* with its context.
Fire(o) ==
  /\ ostate[o] # "none" /\ o \notin fired
  /\ fired' = fired \cup {o}
  /\ PutSig(o)
  /\ UNCHANGED <<timelineVars, fenceVars, ostate, oseq, retired, ioctl, fence, temp>>

\* The end of _drawobj_timelineobj_retire: the reference on the timeline is
\* put and the array, which holds the event's list node, is freed.
ObjEnd(o) ==
  /\ pc[o] = "put"
  /\ ref' = ref - 1
  /\ ostate' = [ostate EXCEPT ![o] = "none"]
  /\ oseq' = [oseq EXCEPT ![o] = 0]
  /\ fired' = fired \ {o}
  /\ retired' = retired \ {o}
  /\ Goto(o, "idle")
  /\ UNCHANGED <<named, value, fences, events, lock, fenceVars, sigref, ioctl,
                 fence, temp>>

-----------------------------------------------------------------------------

\* What user space and the scheduler decide to do.
Request ==
  \/ \E s \in Initials : Create(s)
  \/ \E t \in Threads :
       \/ \E i \in IoctlNames : Lookup(t, i)
       \/ \E f \in Fences : Close(t, f)
       \/ DestroyName(t) \/ TimeOut(t)
  \/ \E f \in Fences : Poll(f)
  \/ \E o \in Objs : \E s \in Targets[o] : AddTimeline(o, s)

\* How an actor goes on.
Progress(a) ==
  \/ \E s \in Seqnos : SignalStart(a, s)
  \/ \E f \in Fences : WalkFence(a, f)
  \/ WalkEnd(a)

ThreadProgress(t) ==
  \/ Progress(t)
  \/ PutTimeline(t) \/ Install(t) \/ EnableSignaling(t) \/ Wake(t)
  \/ \E f \in Fences, s \in Seqnos : AllocFence(t, f, s)
  \/ AllocFails(t)
  \/ PutFence(t) \/ Release(t) \/ Query(t)
  \/ DestroyCollect(t) \/ DestroyLock(t)
  \/ \E f \in Fences : DestroyFence(t, f)

ObjProgress(o) ==
  \/ Progress(o)
  \/ Retire(o) \/ Pop(o) \/ Fire(o) \/ ObjEnd(o)

Next ==
  \/ Request
  \/ \E t \in Threads : ThreadProgress(t)
  \/ \E o \in Objs : ObjProgress(o)

Spec == Init /\ [][Next]_vars

\* The GPU retires, the scheduler, the event worker and threads in the kernel
\* run on, and a spinlock that is free again and again is taken in the end.
FairSpec ==
  /\ Spec
  /\ \A t \in Threads : SF_vars(ThreadProgress(t))
  /\ \A o \in Objs : SF_vars(ObjProgress(o))

-----------------------------------------------------------------------------
(* Properties                                                              *)

PCs == {"idle", "found", "put", "install", "enable", "sleep", "putfence", "release",
        "walk", "collect", "destroylock", "destroywalk", "retire"}

\* Every variable keeps its type; no reference count goes below zero.
TypeOK ==
  /\ named \in BOOLEAN /\ ref \in Nat /\ value \in 0 .. MaxSeqno
  /\ fences \subseteq Fences
  /\ events \in Seq(Objs)
  /\ lock \in Actors \cup {NoActor}
  /\ fstate \in [Fences -> {"none", "unsignaled", "signaled", "error"}]
  /\ frefs \in [Fences -> Nat]
  /\ fseq \in [Fences -> 0 .. MaxSeqno]
  /\ fd \subseteq Fences
  /\ ostate \in [Objs -> {"none", "queued", "popped"}]
  /\ oseq \in [Objs -> 0 .. MaxSeqno]
  /\ sigref \in [Objs -> 0 .. 2]
  /\ fired \subseteq Objs /\ retired \subseteq Objs
  /\ pc \in [Actors -> PCs]
  /\ ioctl \in [Threads -> IoctlNames \cup {"none", "failed"}]
  /\ fence \in [Threads -> Fences \cup {NoFence}]
  /\ temp \in [Actors -> SUBSET Fences]

\* A thread that holds a reference on the timeline: kgsl_timeline_by_id's, or
\* the id's when it is destroying the timeline.
Holds(t) ==
  \/ ioctl[t] \in {"fence_get", "signal", "query", "destroy", "failed"}
  \/ ioctl[t] = "wait" /\ pc[t] \in {"found", "put"}

\* timeline->ref counts the id, the fences, the timeline objects and the calls
\* in progress, no more and no less: nobody uses a freed timeline, whatever
\* order destroy, release and the GPU come in, and none is leaked.
TimelineCounted ==
  ref = (IF named THEN 1 ELSE 0)
        + Cardinality({f \in Fences : fstate[f] # "none"})
        + Cardinality({o \in Objs : ostate[o] # "none"})
        + Cardinality({t \in Threads : Holds(t)})

\* t has a reference on f to give back.
HasFence(t, f) == fence[t] = f /\ pc[t] # "release"

\* A fence's refcount is the number of files, callers and walks that refer to
\* it, so that a fence on a walk's stack list is never freed under the walk,
\* and one that nobody refers to is on its way to be released.
FenceCounted ==
  \A f \in Fences :
    /\ frefs[f] = (IF f \in fd THEN 1 ELSE 0)
                  + Cardinality({t \in Threads : HasFence(t, f)})
                  + Cardinality({a \in Actors : f \in temp[a]})
    /\ frefs[f] = 0 /\ fstate[f] # "none" =>
         \E t \in Threads : fence[t] = f /\ pc[t] = "release"

\* The WARN_ONs of kgsl_timeline_destroy: a timeline is freed with empty
\* lists, and only then; what is on its lists exists.
FreedClean ==
  /\ ref = 0 => fences = {} /\ events = <<>> /\ LockFree
  /\ \A f \in fences : fstate[f] # "none"
  /\ \A i \in DOMAIN events : ostate[events[i]] # "none"

\* A fence is signalled without an error only when the timeline has reached
\* its sequence number.
SignalTruthful ==
  \A f \in Fences : fstate[f] = "signaled" => Reached(f)

\* A fence that is referred to and whose number is reached is signalled, or on
\* the stack list of a walk that will signal it: the check of the value and
\* the insertion in kgsl_timeline_fence_alloc leave no gap for a signal, and a
\* fence that a walk could not take a reference on is wanted by nobody.
NoMissedFence ==
  \A f \in Fences :
    fstate[f] = "unsignaled" /\ Reached(f) =>
      \/ \E a \in Actors : f \in temp[a]
      \/ frefs[f] = 0

\* timeline->events is sorted, holds each object once, and only what the
\* timeline has not reached: the walk that stops at the first later event
\* leaves nothing behind, and no freed event stays on the list.
EventsPending ==
  /\ \A i, j \in DOMAIN events :
       /\ i < j => oseq[events[i]] <= oseq[events[j]]
       /\ events[i] = events[j] => i = j
  /\ \A i \in DOMAIN events : oseq[events[i]] > value

\* While a timeline lives, what its queries return never goes back, though
\* they run ahead of the value by looking at what the GPU has retired.
QueryMonotonic == [][ref > 0 /\ ref' > 0 => Answer' >= Answer]_vars

-----------------------------------------------------------------------------
(* What else is true of every state, and makes the invariants inductive    *)

\* Which ioctl a thread can be in at each place, and where it has a fence.  A
\* thread that closes a file is in no ioctl.
ThreadStages ==
  \A t \in Threads :
    /\ pc[t] = "idle" => ioctl[t] = "none"
    /\ pc[t] = "found" => ioctl[t] \in {"wait", "fence_get", "signal", "query"}
    /\ pc[t] = "put" => ioctl[t] # "none"
    /\ pc[t] = "install" => ioctl[t] = "fence_get"
    /\ pc[t] \in {"enable", "sleep"} => ioctl[t] = "wait"
    /\ pc[t] \in {"putfence", "release"} => ioctl[t] \in {"wait", "fence_get", "none"}
    /\ pc[t] = "walk" => ioctl[t] = "signal"
    /\ pc[t] \in {"collect", "destroylock", "destroywalk"} => ioctl[t] = "destroy"
    /\ pc[t] # "retire"
    /\ fence[t] # NoFence <=>
         \/ pc[t] \in {"install", "enable", "sleep", "putfence", "release"}
         \/ pc[t] = "put" /\ ioctl[t] = "wait"

\* A timeline object waits for as long as it has signal references: the
\* scheduler's while it is queued and the event's until its callback has run.
ObjStage(o) ==
  /\ pc[o] \in {"idle", "retire", "walk", "put"}
  /\ sigref[o] = (IF ostate[o] = "queued" THEN 1 ELSE 0)
                 + (IF ostate[o] # "none" /\ o \notin fired THEN 1 ELSE 0)
  /\ pc[o] = "idle" <=> ostate[o] = "none" \/ sigref[o] > 0
  /\ ostate[o] = "none" => o \notin fired
  /\ pc[o] \in {"walk", "put"} => oseq[o] <= value

ObjStages == \A o \in Objs : ObjStage(o)

\* timeline->lock is held over a walk and nowhere else, a stack list is used
\* where it is filled, and the value stays where the walk has put it.
WalkStage(a) ==
  /\ lock = a <=> pc[a] \in {"walk", "destroywalk"}
  /\ temp[a] # {} => pc[a] \in {"walk", "destroylock", "destroywalk"}
  /\ pc[a] = "walk" => \A f \in temp[a] : Reached(f)

WalkStages == \A a \in Actors : WalkStage(a)

\* Whoever took the last reference of a fence is alone with it; others meet a
\* thread at a fence only at its last use, when a file descriptor handed it on.
FenceOwners ==
  /\ \A f \in Fences : fstate[f] = "none" => frefs[f] = 0
  /\ \A t \in Threads :
       /\ pc[t] = "release" => frefs[fence[t]] = 0 /\ fstate[fence[t]] # "none"
       /\ fence[t] \in fd => pc[t] \in {"putfence", "release"}
       /\ \A u \in Threads :
            u # t /\ fence[u] = fence[t] /\ fence[t] # NoFence =>
              /\ pc[t] \in {"putfence", "release"}
              /\ pc[t] = "release" => pc[u] # "release"

\* Where a fence that is not signalled is to be found, and what the list holds:
\* fences to come, and fences whose release has not got the lock yet.
ListedFences ==
  /\ \A f \in Fences : fstate[f] = "unsignaled" =>
       f \in fences \/ (\E a \in Actors : f \in temp[a]) \/ frefs[f] = 0
  /\ \A f \in fences : fstate[f] # "none" /\ (frefs[f] > 0 => ~Reached(f))

\* timeline->events holds objects that have left their queue.
ListedEvents == \A i \in DOMAIN events : ostate[events[i]] = "popped"

\* The inductive invariant.
IInv ==
  /\ TypeOK
  /\ ThreadStages
  /\ ObjStages
  /\ WalkStages
  /\ FenceOwners
  /\ FenceCounted
  /\ TimelineCounted
  /\ ListedFences
  /\ SignalTruthful
  /\ EventsPending
  /\ ListedEvents

-----------------------------------------------------------------------------
\* A thread asleep on a fence is woken once the number is reached, or a signal
\* or destroy has taken the fence off the list, or a timeline object that
\* reaches the number is submitted, whatever order its pop, its retirement and
\* its callback come in.
WaitEnds ==
  \A t \in {u \in Threads : "wait" \in Ioctls[u]} :
    (/\ pc[t] = "sleep"
     /\ \/ Reached(fence[t])
        \/ \E a \in Actors : fence[t] \in temp[a]
        \/ \E o \in Objs : ostate[o] # "none" /\ oseq[o] >= fseq[fence[t]])
    ~> (pc[t] # "sleep")
=============================================================================
