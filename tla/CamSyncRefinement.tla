------------------------- MODULE CamSyncRefinement -------------------------
(* CamSync implements Fences: a row is a fence when it is valid and no     *)
(* merge has its lock, and it has its outcome when cam_sync_register_      *)
(* callback would queue a callback at once.                                *)
EXTENDS CamSync

Visible(r) == Valid(r) /\ Unlocked(r)

Final(r) == Signaled(r) /\ row[r].remaining = 0

IsMerged(r) == row[r].type = "GROUP" /\ Visible(r)

Fate ==
  [r \in Rows |-> IF ~Visible(r) THEN "none"
                  ELSE IF Final(r) THEN row[r].state ELSE "active"]

Merged == {r \in Rows : IsMerged(r)}

Awaits == [g \in Rows |-> IF IsMerged(g) THEN pending[g] ELSE {}]

Groups == [r \in Rows |-> {g \in row[r].parents : IsMerged(g)}]

Bad == {g \in failed : IsMerged(g)}

Fence == INSTANCE Fences WITH fate <- Fate, merged <- Merged, awaits <- Awaits,
                              groups <- Groups, bad <- Bad

\* Every step of the driver is one of the fences it promises, or is invisible:
\* counting a group down, linking members under a merge, giving references
\* back, taking a destroyed object off its groups and its members.
ImplementsFences == Fence!Spec

\* A waiter, a callback and a payload are told the same: an object that has its
\* outcome keeps it until it is destroyed.
OutcomeFinal ==
  [][\A r \in Rows : Fate[r] \in SignaledStates => Fate'[r] \in {Fate[r], "none"}]_vars
=============================================================================
