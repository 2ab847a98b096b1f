--------------------------- MODULE DscRefinement ---------------------------
(* Dsc implements HierLock: active_desc is the holder, an operation is in  *)
(* flight for the thread that is in one, and a context is quiet for the    *)
(* thread whose wait for operations has passed it.                         *)
EXTENDS Dsc

InFlight == [t \in Threads |-> IF pc[t] = "op" THEN node[t] ELSE NoNode]

Lock == INSTANCE HierLock WITH holder <- active, op <- InFlight, quiet <- drained

\* Every step of DSC is one of the lock it promises to be, or is invisible:
\* queueing, triggering several contexts at once, counting operations, waking
\* from an operations event, creating and destroying contexts.
ImplementsHierLock == Lock!Spec
=============================================================================
