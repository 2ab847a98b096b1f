------------------------------- MODULE MCDsc -------------------------------
(* Instances of Dsc for TLC: d, p1, v1, t1... are model values.            *)
EXTENDS DscRefinement, TLC

CONSTANT p1

\* Every vdev below p1.
OnePsoc == [v \in Vdevs |-> p1]

\* Threads are interchangeable.
AnyThread == Permutations(Threads)
=============================================================================
