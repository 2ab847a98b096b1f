------------------------------ MODULE MCIpaPm ------------------------------
(* Instances of IpaPm for TLC: c1, t1... are model values.                 *)
EXTENDS IpaPm, TLC

\* Threads are interchangeable.
AnyThread == Permutations(Threads)

\* What no guard reads and no other variable depends on is left out: the
\* bitmask, the clock plan and what it is computed from.
NoPlan ==
  <<registered, skip, state, done, awake, timer, wq, cancelling, votes,
    pc, client, call, todo, rescale, wanted>>
=============================================================================
