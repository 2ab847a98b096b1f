----------------------------- MODULE MCCamSync -----------------------------
(* An instance of CamSync for TLC: t1, r1... are model values.             *)
EXTENDS CamSyncRefinement, TLC

CONSTANT t1

\* t1 is the hardware, the other thread is the process that uses it.
Roles == [t \in Threads |->
            IF t = t1 THEN {"signal"}
            ELSE {"create", "user_signal", "merge", "destroy", "close"}]

\* Rows are interchangeable.
AnyRow == Permutations(Rows)
=============================================================================
