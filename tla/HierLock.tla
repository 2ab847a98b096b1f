------------------------------ MODULE HierLock ------------------------------
(***************************************************************************)
(* What the driver synchronization core promises its callers, without      *)
(* queues, counters and events: a lock on a tree with two modes.           *)
(*                                                                         *)
(* A holder has a context to itself: nobody else holds one on the same     *)
(* path, and no operation begins on it or on what is above and below it.   *)
(* Operations that were in flight may go on; once the holder has been told *)
(* that a context is quiet, none is left there until it lets go.           *)
(***************************************************************************)
CONSTANTS
  Nodes,         \* the contexts of the tree
  Threads,       \* the callers
  NoThread,      \* nobody
  NoNode,        \* no context
  Related(_, _)  \* two contexts are on one root-to-leaf path

VARIABLES
  holder,  \* who holds each context
  op,      \* the context each caller has an operation in flight on
  quiet    \* the contexts each holder was told are quiet

Held(n) == holder[n] # NoThread

Init ==
  /\ holder = [n \in Nodes |-> NoThread]
  /\ op = [t \in Threads |-> NoNode]
  /\ quiet = [t \in Threads |-> {}]

\* A caller is given a context on whose path nobody holds one.
Acquire(t, n) ==
  /\ \A m \in Nodes : Related(m, n) => ~Held(m)
  /\ holder' = [holder EXCEPT ![n] = t]
  /\ UNCHANGED <<op, quiet>>

\* A holder lets go, and with that others may be given theirs: nobody who
\* still holds a context loses it, and no two of one path are held.
Release(t, n) ==
  /\ holder[n] = t
  /\ holder' \in [Nodes -> Threads \cup {NoThread}]
  /\ \A m \in Nodes \ {n} : Held(m) => holder'[m] = holder[m]
  /\ \A m, k \in Nodes :
       Related(m, k) /\ holder'[m] # NoThread /\ holder'[k] # NoThread => m = k
  /\ quiet' = [quiet EXCEPT ![t] = {}]
  /\ UNCHANGED op

\* An operation begins where nobody holds a context of the path.
Begin(t, n) ==
  /\ op[t] = NoNode
  /\ \A m \in Nodes : Related(m, n) => ~Held(m)
  /\ op' = [op EXCEPT ![t] = n]
  /\ UNCHANGED <<holder, quiet>>

End(t) ==
  /\ op[t] # NoNode
  /\ op' = [op EXCEPT ![t] = NoNode]
  /\ UNCHANGED <<holder, quiet>>

\* A holder learns that a context of its path has no operation in flight.
Quiet(t, n) ==
  /\ \E m \in Nodes : holder[m] = t /\ Related(m, n)
  /\ \A u \in Threads : op[u] # n
  /\ quiet' = [quiet EXCEPT ![t] = @ \cup {n}]
  /\ UNCHANGED <<holder, op>>

Next ==
  \E t \in Threads :
    \/ \E n \in Nodes : Acquire(t, n) \/ Release(t, n) \/ Begin(t, n) \/ Quiet(t, n)
    \/ End(t)

Spec == Init /\ [][Next]_<<holder, op, quiet>>
=============================================================================
