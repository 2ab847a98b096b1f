------------------------------- MODULE Fences -------------------------------
(***************************************************************************)
(* What the fences of the camera driver promise their users, without       *)
(* locks, counts, callbacks and calls in progress.                         *)
(*                                                                         *)
(* A fence is active until it is signalled, and its outcome stands until   *)
(* it is destroyed.  A merged fence waits for its members: each of them    *)
(* reports to it when it is signalled, and once none is awaited the merged *)
(* fence gets its outcome, SUCCESS exactly when no member has failed.  A   *)
(* member that is destroyed before it is signalled never reports: what is  *)
(* merged with it stays active.                                            *)
(***************************************************************************)
CONSTANTS
  Rows,           \* the names of fences
  SignaledStates  \* the outcomes, "SUCCESS" among them

VARIABLES
  fate,    \* "none", "active" or the outcome of each name
  merged,  \* the fences made of others
  awaits,  \* the members each merged fence waits for
  groups,  \* the merged fences each fence reports to
  bad      \* the merged fences with a member that failed

fenceVars == <<fate, merged, awaits, groups, bad>>

Init ==
  /\ fate = [r \in Rows |-> "none"]
  /\ merged = {} /\ bad = {}
  /\ awaits = [r \in Rows |-> {}]
  /\ groups = [r \in Rows |-> {}]

\* The fence r gets one of the fates S.
Turns(r, S) == fate'[r] \in S /\ fate' = [fate EXCEPT ![r] = fate'[r]]

Create(r) ==
  /\ fate[r] = "none" /\ Turns(r, {"active"})
  /\ UNCHANGED <<merged, awaits, groups, bad>>

\* A fence is signalled, and every merged fence it reports to knows.
Signal(r) ==
  /\ fate[r] = "active" /\ r \notin merged /\ Turns(r, SignaledStates)
  /\ awaits' = [g \in Rows |-> IF g \in groups[r] THEN awaits[g] \ {r} ELSE awaits[g]]
  /\ bad' = IF fate'[r] = "SUCCESS" THEN bad ELSE bad \cup groups[r]
  /\ groups' = [groups EXCEPT ![r] = {}]
  /\ UNCHANGED merged

\* A fence is made of others, and has its outcome at once when it has nobody
\* to wait for.  Of the members it waits for those that report to it are
\* active; the rest were destroyed under the merge.
Merge(g) ==
  /\ fate[g] = "none" /\ Turns(g, SignaledStates \cup {"active"})
  /\ merged' = merged \cup {g}
  /\ bad' = bad \/ bad' = bad \cup {g}
  /\ awaits' = [awaits EXCEPT ![g] = awaits'[g]]
  /\ fate'[g] # "active" => awaits'[g] = {} /\ (fate'[g] = "SUCCESS" <=> g \notin bad')
  /\ \E reporters \in SUBSET {r \in awaits'[g] : fate[r] = "active" /\ r \notin merged} :
       groups' = [r \in Rows |-> IF r \in reporters THEN groups[r] \cup {g} ELSE groups[r]]

\* A merged fence that waits for nobody gets its outcome.
Complete(g) ==
  /\ fate[g] = "active" /\ g \in merged /\ Turns(g, SignaledStates)
  /\ awaits[g] = {} /\ (fate'[g] = "SUCCESS" <=> g \notin bad)
  /\ UNCHANGED <<merged, awaits, groups, bad>>

\* A fence is destroyed, signalled or not: nobody reports to it any more, and
\* it reports to nobody.
Destroy(r) ==
  /\ fate[r] # "none" /\ Turns(r, {"none"})
  /\ merged' = merged \ {r} /\ bad' = bad \ {r}
  /\ awaits' = [awaits EXCEPT ![r] = {}]
  /\ groups' = [x \in Rows |-> IF x = r THEN {} ELSE groups[x] \ {r}]

Next ==
  \E r \in Rows : Create(r) \/ Signal(r) \/ Merge(r) \/ Complete(r) \/ Destroy(r)

Spec == Init /\ [][Next]_fenceVars
=============================================================================
