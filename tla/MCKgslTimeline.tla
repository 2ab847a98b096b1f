--------------------------- MODULE MCKgslTimeline ---------------------------
(* An instance of KgslTimeline for TLC: t1, f1, o1... are model values.    *)
EXTENDS KgslTimelineRefinement, TLC

CONSTANTS t1, o1

\* t1 waits and hands out fences, the other thread signals, queries and
\* destroys.
Roles == [t \in Threads |-> IF t = t1 THEN {"wait", "fence_get"}
                            ELSE {"signal", "query", "destroy"}]

\* o1 reaches the last number, the other object the one before it.
Submissions == [o \in Objs |-> IF o = o1 THEN {MaxSeqno} ELSE {MaxSeqno - 1}]
=============================================================================
