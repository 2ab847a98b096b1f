----------------------- MODULE KgslTimelineRefinement -----------------------
(* KgslTimeline implements Timeline: known is what a query would answer,   *)
(* and a fence is wanted as long as a file descriptor or a call in         *)
(* progress refers to it; the references of walks do not count.            *)
EXTENDS KgslTimeline

Wanted == {f \in Fences : f \in fd \/ \E t \in Threads : HasFence(t, f)}

Abstract == INSTANCE Timeline WITH known <- Answer, fate <- fstate, number <- fseq,
                                   wanted <- Wanted

\* Every step of the driver is one of the timeline it promises, or is
\* invisible: counting references, moving fences to a walk's list, keeping
\* events, giving a timeline object back.
ImplementsTimeline == Abstract!Spec

\* Whoever refers to a fence can rely on it: it is not freed and keeps its
\* number, what has ended stays ended, and it ends with an error only when the
\* timeline has lost its id.
FenceKept ==
  [][\A f \in Wanted :
       /\ fstate'[f] # "none" /\ fseq'[f] = fseq[f]
       /\ fstate[f] # "unsignaled" => fstate'[f] # "unsignaled"
       /\ fstate'[f] = "signaled" /\ fstate[f] = "unsignaled" => fseq[f] <= value
       /\ fstate'[f] = "error" => fstate[f] = "error" \/ ~named]_vars

\* Between the removal of the id and the end of its destroy no new timeline
\* takes the place of the one that is being destroyed.
DestroyedUnnamed == \A t \in Threads : ioctl[t] = "destroy" => ~named
=============================================================================
