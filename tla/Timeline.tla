------------------------------ MODULE Timeline ------------------------------
(***************************************************************************)
(* What a timeline of the graphics driver promises user space, without     *)
(* references, locks, walks and events.                                    *)
(*                                                                         *)
(* A timeline has a value that only grows, and a query may know of more    *)
(* than the value, never of less than an earlier query.  A fence on the    *)
(* timeline has a number.  It is signalled when the value has reached that *)
(* number, it ends with an error only when the timeline has lost its name, *)
(* and it exists for as long as somebody wants it.                         *)
(***************************************************************************)
EXTENDS Naturals

CONSTANT Fences

VARIABLES
  named,   \* user space has an id for the timeline
  value,   \* what it has reached
  known,   \* what a query answers
  fate,    \* of each fence: none, unsignaled, signaled, error
  number,  \* of each fence
  wanted   \* the fences that a file or a caller refers to

timelineVars == <<named, value, known, fate, number, wanted>>

Init ==
  /\ named = FALSE /\ value = 0 /\ known = 0
  /\ fate = [f \in Fences |-> "none"]
  /\ number = [f \in Fences |-> 0]
  /\ wanted = {}

\* A new timeline takes the place of one of which nothing is left.
Create ==
  /\ ~named /\ \A f \in Fences : fate[f] = "none"
  /\ named' = TRUE /\ value' \in Nat /\ known' = value'
  /\ UNCHANGED <<fate, number, wanted>>

\* The CPU or the GPU gets further; queries may know of it before the value.
Advance ==
  /\ value' \in Nat /\ value <= value'
  /\ known' \in Nat /\ known <= known' /\ value' <= known'
  /\ UNCHANGED <<named, fate, number, wanted>>

Destroy ==
  /\ named /\ named' = FALSE
  /\ UNCHANGED <<value, known, fate, number, wanted>>

\* A fence for a number that is reached is signalled from the start.
Issue(f) ==
  /\ fate[f] = "none"
  /\ number'[f] \in Nat /\ number' = [number EXCEPT ![f] = number'[f]]
  /\ fate' = [fate EXCEPT ![f] = IF number'[f] <= value THEN "signaled" ELSE "unsignaled"]
  /\ wanted' = wanted \cup {f}
  /\ UNCHANGED <<named, value, known>>

Signal(f) ==
  /\ fate[f] = "unsignaled" /\ number[f] <= value
  /\ fate' = [fate EXCEPT ![f] = "signaled"]
  /\ UNCHANGED <<named, value, known, number, wanted>>

Break(f) ==
  /\ fate[f] # "none" /\ ~named
  /\ fate' = [fate EXCEPT ![f] = "error"]
  /\ UNCHANGED <<named, value, known, number, wanted>>

\* The last who wanted a fence goes, and nobody can want it again.
Abandon(f) ==
  /\ f \in wanted /\ wanted' = wanted \ {f}
  /\ UNCHANGED <<named, value, known, fate, number>>

Free(f) ==
  /\ fate[f] # "none" /\ f \notin wanted
  /\ fate' = [fate EXCEPT ![f] = "none"]
  /\ number' = [number EXCEPT ![f] = 0]
  /\ UNCHANGED <<named, value, known, wanted>>

Next ==
  \/ Create \/ Advance \/ Destroy
  \/ \E f \in Fences : Issue(f) \/ Signal(f) \/ Break(f) \/ Abandon(f) \/ Free(f)

Spec == Init /\ [][Next]_timelineVars
=============================================================================
