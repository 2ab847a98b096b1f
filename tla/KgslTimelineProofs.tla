------------------------- MODULE KgslTimelineProofs -------------------------
(***************************************************************************)
(* The safety properties of KgslTimeline, for any number of threads,       *)
(* fences and timeline objects and any bound on the sequence numbers.      *)
(*                                                                         *)
(* The two reference counts are sums of cardinalities: a step that moves a *)
(* reference adds an element to one of the sets counted and removes one    *)
(* from another.  The lemmas about those sets come first, then one lemma   *)
(* for each part of the inductive invariant IInv, then the theorems.       *)
(***************************************************************************)
EXTENDS KgslTimeline, FiniteSetTheorems, SequenceTheorems,
        WellFoundedInduction, TLAPS

-----------------------------------------------------------------------------
(* Numbers                                                                 *)

\* A set of numbers has a smallest element; within a bound, a largest one.
LEMMA NatMin ==
  ASSUME NEW S \in SUBSET Nat, S # {}
  PROVE  \E i \in S : \A j \in S : i <= j
<1>1. PICK i \in S : \A j \in S : ~(<<j, i>> \in OpToRel(<, Nat))
  BY NatLessThanWellFounded, WFMin, Zenon
<1>2. \A j \in S : ~(j < i)
  BY <1>1 DEF OpToRel
<1> QED
  BY <1>2

\* A set of indices that is not empty has a largest one.
LEMMA NatMax ==
  ASSUME NEW n \in Nat, NEW S \in SUBSET (1 .. n), S # {}
  PROVE  \E i \in S : \A j \in S : j <= i
<1> DEFINE T == {k \in Nat : n - k \in S}
<1>1. \A i \in S : n - i \in T
  <2> SUFFICES ASSUME NEW i \in S PROVE n - i \in T
    OBVIOUS
  <2>1. i \in 1 .. n /\ n - i \in Nat /\ n - (n - i) = i
    OBVIOUS
  <2> QED
    BY <2>1
<1>2. T \in SUBSET Nat /\ T # {}
  BY <1>1
<1>3. PICK k \in T : \A l \in T : k <= l
  BY <1>2, NatMin
<1>4. n - k \in S /\ \A j \in S : j <= n - k
  BY <1>1, <1>3
<1> QED
  BY <1>4

-----------------------------------------------------------------------------
(* The sets that are counted                                               *)

LiveFences == {f \in Fences : fstate[f] # "none"}
LiveObjs == {o \in Objs : ostate[o] # "none"}
Holders == {t \in Threads : Holds(t)}
Users(f) == {t \in Threads : HasFence(t, f)}
Walkers(f) == {a \in Actors : f \in temp[a]}

\* The sets of holders that the reference counts count are finite.
LEMMA CountedFinite ==
  /\ IsFiniteSet(LiveFences) /\ IsFiniteSet(LiveObjs) /\ IsFiniteSet(Holders)
  /\ \A f : IsFiniteSet(Users(f)) /\ IsFiniteSet(Walkers(f))
<1>1. IsFiniteSet(Actors)
  BY ActorAssumption, FS_Union DEF Actors
<1>2. LiveFences \subseteq Fences /\ LiveObjs \subseteq Objs /\ Holders \subseteq Threads
  BY DEF LiveFences, LiveObjs, Holders
<1>3. \A f : Users(f) \subseteq Threads /\ Walkers(f) \subseteq Actors
  BY DEF Users, Walkers
<1> QED
  BY <1>1, <1>2, <1>3, ActorAssumption, FS_Subset

\* Their cardinalities are natural numbers.
LEMMA CardinalTypes ==
  /\ Cardinality(LiveFences) \in Nat /\ Cardinality(LiveObjs) \in Nat
  /\ Cardinality(Holders) \in Nat
  /\ \A f : Cardinality(Users(f)) \in Nat /\ Cardinality(Walkers(f)) \in Nat
BY CountedFinite, FS_CardinalityType

\* An element of a finite set counts.
LEMMA Counts ==
  ASSUME NEW S, IsFiniteSet(S), NEW x \in S
  PROVE  Cardinality(S) \in Nat /\ Cardinality(S) > 0
<1>1. Cardinality(S) \in Nat /\ (Cardinality(S) = 0 <=> S = {})
  BY FS_CardinalityType, FS_EmptySet
<1> QED
  BY <1>1

\* Two elements count twice.
LEMMA CountsTwice ==
  ASSUME NEW S, IsFiniteSet(S), NEW x \in S, NEW y \in S, x # y
  PROVE  Cardinality(S) > 1
<1>1. IsFiniteSet(S \ {x}) /\ Cardinality(S \ {x}) = Cardinality(S) - 1
  BY FS_RemoveElement
<1>2. Cardinality(S \ {x}) \in Nat /\ Cardinality(S \ {x}) > 0
  BY <1>1, Counts, y \in S \ {x}
<1>3. Cardinality(S) \in Nat
  BY FS_CardinalityType
<1> QED
  BY <1>1, <1>2, <1>3

\* One element more.
LEMMA CardAdd ==
  ASSUME NEW S, IsFiniteSet(S), NEW x, x \notin S
  PROVE  Cardinality(S \cup {x}) = Cardinality(S) + 1
BY FS_AddElement

\* One element less.
LEMMA CardRemove ==
  ASSUME NEW S, IsFiniteSet(S), NEW x \in S
  PROVE  Cardinality(S \ {x}) = Cardinality(S) - 1
BY FS_RemoveElement

\* The two counts in terms of the named sets.
LEMMA TimelineCount ==
  TimelineCounted <=>
    ref = (IF named THEN 1 ELSE 0) + Cardinality(LiveFences)
          + Cardinality(LiveObjs) + Cardinality(Holders)
BY DEF TimelineCounted, LiveFences, LiveObjs, Holders

\* FenceCounted with the sets it counts named.
LEMMA FenceCount ==
  FenceCounted <=>
    \A f \in Fences :
      /\ frefs[f] = (IF f \in fd THEN 1 ELSE 0) + Cardinality(Users(f))
                    + Cardinality(Walkers(f))
      /\ frefs[f] = 0 /\ fstate[f] # "none" =>
           \E t \in Threads : fence[t] = f /\ pc[t] = "release"
BY DEF FenceCounted, Users, Walkers

\* Whoever holds a reference on the timeline keeps it alive.
LEMMA Alive ==
  ASSUME TypeOK, TimelineCounted
  PROVE  /\ named => ref > 0
         /\ \A f \in Fences : fstate[f] # "none" => ref > 0
         /\ \A o \in Objs : ostate[o] # "none" => ref > 0
         /\ \A t \in Threads : Holds(t) => ref > 0
<1>1. ref = (IF named THEN 1 ELSE 0) + Cardinality(LiveFences)
            + Cardinality(LiveObjs) + Cardinality(Holders)
  BY TimelineCount
<1>2. \A f \in Fences : fstate[f] # "none" => Cardinality(LiveFences) > 0
  <2> SUFFICES ASSUME NEW f \in Fences, fstate[f] # "none"
               PROVE  Cardinality(LiveFences) > 0
    OBVIOUS
  <2>1. f \in LiveFences
    BY DEF LiveFences
  <2> QED
    BY <2>1, CountedFinite, Counts
<1>3. \A o \in Objs : ostate[o] # "none" => Cardinality(LiveObjs) > 0
  <2> SUFFICES ASSUME NEW o \in Objs, ostate[o] # "none"
               PROVE  Cardinality(LiveObjs) > 0
    OBVIOUS
  <2>1. o \in LiveObjs
    BY DEF LiveObjs
  <2> QED
    BY <2>1, CountedFinite, Counts
<1>4. \A t \in Threads : Holds(t) => Cardinality(Holders) > 0
  <2> SUFFICES ASSUME NEW t \in Threads, Holds(t)
               PROVE  Cardinality(Holders) > 0
    OBVIOUS
  <2>1. t \in Holders
    BY DEF Holders
  <2> QED
    BY <2>1, CountedFinite, Counts
<1> QED
  BY <1>1, <1>2, <1>3, <1>4, CardinalTypes

\* Whoever refers to a fence keeps it, and is alone with it when its refcount
\* is one.
LEMMA Referred ==
  ASSUME TypeOK, FenceCounted, NEW f \in Fences
  PROVE  /\ f \in fd => frefs[f] > 0
         /\ \A t \in Threads : HasFence(t, f) =>
              /\ frefs[f] > 0
              /\ frefs[f] = 1 => /\ f \notin fd
                                 /\ \A u \in Threads : HasFence(u, f) => u = t
                                 /\ \A a \in Actors : f \notin temp[a]
         /\ \A a \in Actors : f \in temp[a] =>
              /\ frefs[f] > 0
              /\ frefs[f] = 1 => /\ f \notin fd
                                 /\ \A u \in Threads : ~HasFence(u, f)
                                 /\ \A b \in Actors : f \in temp[b] => b = a
<1> DEFINE n == IF f \in fd THEN 1 ELSE 0
           m == Cardinality(Users(f))
           k == Cardinality(Walkers(f))
<1>1. frefs[f] = n + m + k
  BY FenceCount
<1>2. n \in {0, 1} /\ (f \in fd <=> n = 1) /\ m \in Nat /\ k \in Nat
  BY CardinalTypes
<1>3. \A t \in Threads : HasFence(t, f) =>
        m > 0 /\ \A u \in Threads : HasFence(u, f) /\ u # t => m > 1
  <2> SUFFICES ASSUME NEW t \in Threads, HasFence(t, f)
               PROVE  m > 0 /\ \A u \in Threads : HasFence(u, f) /\ u # t => m > 1
    OBVIOUS
  <2>1. t \in Users(f) /\ IsFiniteSet(Users(f))
    BY CountedFinite DEF Users
  <2>2. \A u \in Threads : HasFence(u, f) => u \in Users(f)
    BY DEF Users
  <2> QED
    BY <2>1, <2>2, Counts, CountsTwice
<1>4. \A a \in Actors : f \in temp[a] =>
        k > 0 /\ \A b \in Actors : f \in temp[b] /\ b # a => k > 1
  <2> SUFFICES ASSUME NEW a \in Actors, f \in temp[a]
               PROVE  k > 0 /\ \A b \in Actors : f \in temp[b] /\ b # a => k > 1
    OBVIOUS
  <2>1. a \in Walkers(f) /\ IsFiniteSet(Walkers(f))
    BY CountedFinite DEF Walkers
  <2>2. \A b \in Actors : f \in temp[b] => b \in Walkers(f)
    BY DEF Walkers
  <2> QED
    BY <2>1, <2>2, Counts, CountsTwice
<1> HIDE DEF n, m, k
<1> QED
  BY <1>1, <1>2, <1>3, <1>4

\* What a thread's place says of its fence and of the references behind it.
LEMMA AtFence ==
  ASSUME IInv, NEW t \in Threads,
         \/ pc[t] \in {"install", "enable", "sleep", "putfence", "release"}
         \/ pc[t] = "put" /\ ioctl[t] = "wait"
  PROVE  /\ fence[t] \in Fences /\ fstate[fence[t]] # "none" /\ ref > 0
         /\ pc[t] # "release" => frefs[fence[t]] > 0
<1>1. fence[t] \in Fences
  BY DEF IInv, TypeOK, ThreadStages
<1>2. fstate[fence[t]] # "none" /\ (pc[t] # "release" => frefs[fence[t]] > 0)
  BY <1>1, Referred DEF IInv, FenceOwners, HasFence
<1> QED
  BY <1>1, <1>2, Alive DEF IInv

\* A fence on a stack list exists.
LEMMA OnStackList ==
  ASSUME IInv, NEW a \in Actors, NEW f \in temp[a]
  PROVE  f \in Fences /\ frefs[f] > 0 /\ fstate[f] # "none" /\ ref > 0
<1>1. f \in Fences
  BY DEF IInv, TypeOK
<1>2. frefs[f] > 0 /\ fstate[f] # "none"
  BY <1>1, Referred DEF IInv, FenceOwners
<1> QED
  BY <1>1, <1>2, Alive DEF IInv

\* A call about to put its reference on the timeline has one.
LEMMA AtPut ==
  ASSUME IInv
  PROVE  /\ \A t \in Threads : pc[t] = "put" => Holds(t) /\ ref > 0
         /\ \A o \in Objs : pc[o] # "idle" => /\ ostate[o] = "popped" /\ o \in fired
                                              /\ sigref[o] = 0 /\ ref > 0
<1>1. \A t \in Threads : pc[t] = "put" => Holds(t)
  BY DEF IInv, TypeOK, ThreadStages, Holds, IoctlNames
<1>2. \A o \in Objs : pc[o] # "idle" => ostate[o] = "popped" /\ o \in fired /\ sigref[o] = 0
  <2> SUFFICES ASSUME NEW o \in Objs, pc[o] # "idle"
               PROVE  ostate[o] = "popped" /\ o \in fired /\ sigref[o] = 0
    OBVIOUS
  <2>1. /\ ostate[o] # "none" /\ ~(sigref[o] > 0) /\ sigref[o] \in 0 .. 2
        /\ ostate[o] \in {"none", "queued", "popped"}
    BY DEF IInv, TypeOK, ObjStages, ObjStage
  <2>2. sigref[o] = (IF ostate[o] = "queued" THEN 1 ELSE 0)
                    + (IF ostate[o] # "none" /\ o \notin fired THEN 1 ELSE 0)
    BY DEF IInv, ObjStages, ObjStage
  <2> QED
    BY <2>1, <2>2
<1> QED
  BY <1>1, <1>2, Alive DEF IInv

-----------------------------------------------------------------------------
(* The parts of the invariant                                              *)

\* The invariant holds when the timeline has been created.
LEMMA InitIInv == Init => IInv
<1> SUFFICES ASSUME Init PROVE IInv
  OBVIOUS
<1>1. TypeOK
  <2>1. MaxSeqno \in Nat
    BY BoundAssumption
  <2>2. /\ pc \in [Actors -> PCs] /\ temp \in [Actors -> SUBSET Fences]
        /\ lock \in Actors \cup {NoActor} /\ events \in Seq(Objs)
    BY DEF Init, PCs
  <2>3. /\ fstate \in [Fences -> {"none", "unsignaled", "signaled", "error"}]
        /\ frefs \in [Fences -> Nat] /\ fseq \in [Fences -> 0 .. MaxSeqno]
        /\ fence \in [Threads -> Fences \cup {NoFence}]
    BY <2>1 DEF Init
  <2>4. /\ ostate \in [Objs -> {"none", "queued", "popped"}]
        /\ oseq \in [Objs -> 0 .. MaxSeqno] /\ sigref \in [Objs -> 0 .. 2]
        /\ ioctl \in [Threads -> IoctlNames \cup {"none", "failed"}]
    BY <2>1 DEF Init
  <2>5. /\ ref \in Nat /\ value \in 0 .. MaxSeqno
        /\ fences \subseteq Fences /\ fd \subseteq Fences
        /\ fired \subseteq Objs /\ retired \subseteq Objs
    BY <2>1 DEF Init
  <2>6. named \in BOOLEAN
    BY DEF Init
  <2> QED
    BY <2>2, <2>3, <2>4, <2>5, <2>6 DEF TypeOK
<1>2. ThreadStages /\ ObjStages /\ WalkStages /\ FenceOwners
  BY ActorAssumption
  DEF Init, ThreadStages, ObjStages, ObjStage, WalkStages, WalkStage, FenceOwners, Actors
<1>3. FenceCounted
  <2>1. \A f \in Fences : Users(f) = {} /\ Walkers(f) = {}
    BY ActorAssumption DEF Init, Users, Walkers, HasFence
  <2>2. \A f \in Fences : Cardinality(Users(f)) = 0 /\ Cardinality(Walkers(f)) = 0
    BY <2>1, FS_EmptySet
  <2> QED
    BY <2>2, FenceCount DEF Init
<1>4. TimelineCounted
  <2>1. LiveFences = {} /\ LiveObjs = {} /\ Holders = {}
    BY DEF Init, LiveFences, LiveObjs, Holders, Holds
  <2> QED
    BY <2>1, TimelineCount, FS_EmptySet DEF Init
<1>5. ListedFences /\ SignalTruthful /\ EventsPending /\ ListedEvents
  BY DEF Init, ListedFences, SignalTruthful, EventsPending, ListedEvents
<1> QED
  BY <1>1, <1>2, <1>3, <1>4, <1>5 DEF IInv

\* The rest of a sequence behind its first k elements.
LEMMA SeqRest ==
  ASSUME NEW S, NEW s \in Seq(S), NEW k \in 0 .. Len(s)
  PROVE  LET r == SubSeq(s, k + 1, Len(s)) IN
           /\ r \in Seq(S) /\ Len(r) = Len(s) - k
           /\ \A i \in 1 .. Len(s) - k : r[i] = s[k + i]
  BY SubSeqProperties

\* Where Insert puts an object: behind a prefix of the list that is not later,
\* before a rest that is.
LEMMA InsertShape ==
  ASSUME TypeOK, EventsPending, NEW o \in Objs
  PROVE  \E k \in 0 .. Len(events) :
           /\ \A i \in 1 .. k : oseq[events[i]] <= oseq[o]
           /\ \A i \in (k + 1) .. Len(events) : oseq[events[i]] > oseq[o]
           /\ Insert(o) \in Seq(Objs) /\ Len(Insert(o)) = Len(events) + 1
           /\ \A i \in 1 .. k : Insert(o)[i] = events[i]
           /\ Insert(o)[k + 1] = o
           /\ \A i \in (k + 1) .. Len(events) : Insert(o)[i + 1] = events[i]
<1> DEFINE n == Len(events)
           P == {i \in DOMAIN events : oseq[events[i]] <= oseq[o]}
           L == {i \in Nat : i \in 1 .. n + 1 /\ i \notin P}
           k == Cardinality(P)
<1>1. /\ events \in Seq(Objs) /\ n \in Nat /\ DOMAIN events = 1 .. n
      /\ oseq[o] \in Nat /\ \A i \in 1 .. n : oseq[events[i]] \in Nat
  BY DEF TypeOK
<1>2. n + 1 \in L
  BY <1>1
<1>3. PICK m \in L : \A j \in L : m <= j
  BY <1>2, NatMin
<1>4. P = 1 .. (m - 1)
  <2>1. ASSUME NEW i \in 1 .. (m - 1) PROVE i \in P
    BY <1>1, <1>3
  <2>2. ASSUME NEW i \in P PROVE i \in 1 .. (m - 1)
    <3>1. CASE m = n + 1
      BY <1>1, <3>1
    <3>2. CASE m # n + 1
      <4>1. m \in 1 .. n /\ ~(oseq[events[m]] <= oseq[o])
        BY <1>1, <1>3, <3>2
      <4>2. i \in 1 .. n /\ oseq[events[i]] <= oseq[o]
        BY <1>1
      <4>3. m < i => oseq[events[m]] <= oseq[events[i]]
        BY <1>1, <4>1, <4>2 DEF EventsPending
      <4> QED
        BY <1>1, <4>1, <4>2, <4>3
    <3> QED
      BY <3>1, <3>2
  <2> QED
    BY <2>1, <2>2
<1>5. k = m - 1 /\ k \in 0 .. n
  <2>1. m \in 1 .. n + 1
    BY <1>3
  <2>2. Cardinality(1 .. (m - 1)) = IF 1 > m - 1 THEN 0 ELSE (m - 1) - 1 + 1
    BY <1>1, <2>1, FS_Interval
  <2>3. k = Cardinality(1 .. (m - 1))
    BY <1>4, Zenon
  <2> HIDE DEF k, P, L
  <2> QED
    BY <1>1, <2>1, <2>2, <2>3
<1>6. P = 1 .. k
  BY <1>4, <1>5
<1> HIDE DEF k
<1>11. /\ \A i \in 1 .. k : oseq[events[i]] <= oseq[o]
       /\ \A i \in (k + 1) .. n : oseq[events[i]] > oseq[o]
  <2>1. ASSUME NEW i \in 1 .. k PROVE oseq[events[i]] <= oseq[o]
    BY <1>6
  <2>2. ASSUME NEW i \in (k + 1) .. n PROVE oseq[events[i]] > oseq[o]
    <3>1. i \in 1 .. n /\ i \notin P
      BY <1>1, <1>5, <1>6
    <3> QED
      BY <1>1, <3>1
  <2> QED
    BY <2>1, <2>2
<1>7. Insert(o) = SubSeq(events, 1, k) \o <<o>> \o SubSeq(events, k + 1, n)
  BY DEF Insert, k
<1> HIDE DEF P, L
<1>8. /\ SubSeq(events, 1, k) \in Seq(Objs) /\ Len(SubSeq(events, 1, k)) = k
      /\ \A i \in 1 .. k : SubSeq(events, 1, k)[i] = events[i]
  BY <1>1, <1>5, SubSeqProperties
<1>9. /\ SubSeq(events, k + 1, n) \in Seq(Objs) /\ Len(SubSeq(events, k + 1, n)) = n - k
      /\ \A i \in 1 .. n - k : SubSeq(events, k + 1, n)[i] = events[k + i]
  BY <1>1, <1>5, SeqRest
<1>10. /\ Insert(o) \in Seq(Objs) /\ Len(Insert(o)) = n + 1
       /\ \A i \in 1 .. k : Insert(o)[i] = events[i]
       /\ Insert(o)[k + 1] = o
       /\ \A i \in (k + 1) .. n : Insert(o)[i + 1] = events[i]
  <2> DEFINE A == SubSeq(events, 1, k)
             B == A \o <<o>>
             C == SubSeq(events, k + 1, n)
  <2>1. /\ B \in Seq(Objs) /\ Len(B) = k + 1 /\ B[k + 1] = o
        /\ \A i \in 1 .. k : B[i] = events[i]
    BY <1>5, <1>8
  <2> HIDE DEF A, B
  <2>2. Insert(o) = B \o C
    BY <1>7 DEF A, B
  <2>3. C \in Seq(Objs) /\ Len(C) = n - k /\ \A i \in 1 .. n - k : C[i] = events[k + i]
    BY <1>9
  <2> HIDE DEF C
  <2>4. Insert(o) \in Seq(Objs) /\ Len(Insert(o)) = n + 1
    BY <1>1, <1>5, <2>1, <2>2, <2>3
  <2>5. \A i \in 1 .. k + 1 : Insert(o)[i] = B[i]
    BY <1>1, <1>5, <2>1, <2>2, <2>3
  <2>6. ASSUME NEW i \in (k + 1) .. n PROVE Insert(o)[i + 1] = events[i]
    <3>1. i - k \in 1 .. n - k /\ i + 1 \in (k + 2) .. (n + 1) /\ k + (i - k) = i
          /\ (i + 1) - (k + 1) = i - k
      BY <1>1, <1>5
    <3>2. Insert(o)[i + 1] = C[(i + 1) - (k + 1)]
      <4>1. \A j \in 1 .. Len(B) + Len(C) :
              (B \o C)[j] = IF j <= Len(B) THEN B[j] ELSE C[j - Len(B)]
        BY <2>1, <2>3, ConcatProperties
      <4>2. i + 1 \in 1 .. Len(B) + Len(C) /\ ~(i + 1 <= Len(B)) /\ Len(B) = k + 1
        <5>1. Len(B) = k + 1 /\ Len(C) = n - k
          BY <2>1, <2>3
        <5>2. n \in Nat /\ k \in Nat /\ i \in Nat /\ k + 1 <= i /\ i <= n
          BY <1>1, <1>5
        <5> HIDE DEF n
        <5> QED
          BY <5>1, <5>2
      <4> QED
        BY <2>2, <4>1, <4>2
    <3> QED
      BY <2>3, <3>1, <3>2
  <2> QED
    BY <1>5, <2>1, <2>4, <2>5, <2>6
<1> QED
  BY <1>5, <1>10, <1>11

\* The start of a signal, which trims the event list, keeps TypeOK.
LEMMA SignalStartTypeOK ==
  ASSUME IInv, NEW a \in Actors, NEW s \in Seqnos, SignalStart(a, s)
  PROVE  TypeOK'
<1>1. CASE s < value
  BY <1>1 DEF IInv, TypeOK, SignalStart, Goto, PCs, fenceVars, objVars
<1>2. CASE ~(s < value)
  <2> DEFINE Late == {i \in DOMAIN events : oseq[events[i]] > s}
             first == CHOOSE i \in Late : \A j \in Late : i <= j
             S == Held({f \in fences : fseq[f] <= s})
  <2>1. /\ value' = s /\ lock' = a
        /\ events' = IF Late = {} THEN <<>> ELSE SubSeq(events, first, Len(events))
        /\ fences' = fences \ S /\ TakeAll(S) /\ temp' = [temp EXCEPT ![a] = S]
        /\ Goto(a, "walk")
        /\ UNCHANGED <<named, ref, fstate, fseq, fd, objVars, ioctl, fence>>
    BY <1>2 DEF SignalStart
  <2>2. S \subseteq Fences
    BY DEF Held, IInv, TypeOK
  <2>3. events' \in Seq(Objs)
    <3>1. events \in Seq(Objs)
      BY DEF IInv, TypeOK
    <3>2. CASE Late # {}
      <4>1. first \in 1 .. Len(events)
        <5>1. Late \subseteq 1 .. Len(events)
          BY <3>1
        <5>2. Late \subseteq Nat
          BY <3>1, <5>1
        <5>3. \E i \in Late : \A j \in Late : i <= j
          BY <3>2, <5>2, NatMin
        <5> HIDE DEF Late
        <5> QED
          BY <5>1, <5>3
      <4> HIDE DEF first, Late
      <4> QED
        BY <2>1, <3>1, <3>2, <4>1, SubSeqProperties
    <3> HIDE DEF Late
    <3> QED
      BY <2>1, <3>1, <3>2
  <2> HIDE DEF Late, first, S
  <2>4. frefs' \in [Fences -> Nat]
    BY <2>1 DEF TakeAll, IInv, TypeOK
  <2> QED
    BY <2>1, <2>2, <2>3, <2>4, s \in 0 .. MaxSeqno
    DEF IInv, TypeOK, Goto, PCs, objVars, Seqnos
<1> QED
  BY <1>1, <1>2

\* Where a thread can be after the last use of a fence.
LEMMA AfterFenceTypes ==
  ASSUME TypeOK, NEW t \in Threads, AfterFence(t)
  PROVE  /\ pc' \in [Actors -> PCs] /\ fence' \in [Threads -> Fences \cup {NoFence}]
         /\ ioctl' \in [Threads -> IoctlNames \cup {"none", "failed"}]
<1>1. /\ fence' = [fence EXCEPT ![t] = NoFence]
      /\ ioctl' = ioctl \/ ioctl' = [ioctl EXCEPT ![t] = "none"]
  BY DEF AfterFence, Return
<1>2. \E x \in {"put", "idle"} : pc' = [pc EXCEPT ![t] = x]
  BY DEF AfterFence, Return, Goto
<1>3. pc' \in [Actors -> PCs]
  BY <1>2 DEF TypeOK, PCs
<1>4. fence' \in [Threads -> Fences \cup {NoFence}]
  BY <1>1 DEF TypeOK
<1>5. ioctl' \in [Threads -> IoctlNames \cup {"none", "failed"}]
  BY <1>1 DEF TypeOK
<1> QED
  BY <1>3, <1>4, <1>5

\* Every step keeps TypeOK.
LEMMA NextTypeOK == IInv /\ [Next]_vars => TypeOK'
<1> SUFFICES ASSUME IInv, [Next]_vars PROVE TypeOK'
  OBVIOUS
<1> USE ActorAssumption DEF PCs, IoctlNames, Goto, Return, timelineVars, fenceVars,
                            objVars, actorVars
<1>0. TypeOK
  BY DEF IInv
<1>1. ASSUME NEW s \in Initials, Create(s) PROVE TypeOK'
  <2>1. named' \in BOOLEAN
    BY <1>1 DEF Create
  <2> QED
    BY <1>0, <1>1, <2>1, BoundAssumption DEF Create, TypeOK
<1>2. ASSUME NEW t \in Threads, NEW i \in IoctlNames, Lookup(t, i) PROVE TypeOK'
  BY <1>0, <1>2 DEF Lookup, TypeOK, Actors
<1>3. ASSUME NEW t \in Threads, NEW f \in Fences, Close(t, f) PROVE TypeOK'
  BY <1>0, <1>3 DEF Close, TypeOK, Actors
<1>4. ASSUME NEW t \in Threads, DestroyName(t) PROVE TypeOK'
  <2>1. named' \in BOOLEAN
    BY <1>4 DEF DestroyName
  <2> QED
    BY <1>0, <1>4, <2>1 DEF DestroyName, TypeOK, Actors
<1>5. ASSUME NEW t \in Threads, TimeOut(t) \/ Wake(t) PROVE TypeOK'
  BY <1>0, <1>5 DEF TimeOut, Wake, TypeOK, Actors
<1>6. ASSUME NEW f \in Fences, Poll(f) PROVE TypeOK'
  BY <1>0, <1>6 DEF Poll, Signal, TypeOK
<1>7. ASSUME NEW o \in Objs, NEW s \in Targets[o], AddTimeline(o, s) PROVE TypeOK'
  <2>1. s \in 0 .. MaxSeqno
    BY BoundAssumption
  <2> QED
    BY <1>0, <1>7, <2>1 DEF AddTimeline, TypeOK
<1>8. ASSUME NEW a \in Actors, NEW s \in Seqnos, SignalStart(a, s) PROVE TypeOK'
  BY <1>8, SignalStartTypeOK
<1>9. ASSUME NEW a \in Actors, NEW f \in Fences, WalkFence(a, f) PROVE TypeOK'
  <2>1. frefs[f] > 0 /\ ref > 0
    BY <1>9, OnStackList DEF WalkFence
  <2>2. frefs' \in [Fences -> Nat] /\ ref' \in Nat /\ fences' \subseteq Fences
    BY <1>0, <1>9, <2>1 DEF WalkFence, Free, TypeOK
  <2>3. /\ fstate' \in [Fences -> {"none", "unsignaled", "signaled", "error"}]
        /\ fseq' \in [Fences -> 0 .. MaxSeqno]
        /\ temp' \in [Actors -> SUBSET Fences]
    <3>1. 0 \in 0 .. MaxSeqno
      BY BoundAssumption
    <3>2. \/ Free(f)
          \/ Signal(f) /\ UNCHANGED fseq
      BY <1>9 DEF WalkFence
    <3>3. temp' \in [Actors -> SUBSET Fences]
      BY <1>0, <1>9 DEF WalkFence, TypeOK
    <3>4. CASE Free(f)
      BY <1>0, <3>1, <3>3, <3>4 DEF Free, TypeOK
    <3>5. CASE Signal(f) /\ UNCHANGED fseq
      BY <1>0, <3>3, <3>5 DEF Signal, TypeOK
    <3> QED
      BY <3>2, <3>4, <3>5
  <2> QED
    BY <1>0, <1>9, <2>2, <2>3 DEF WalkFence, TypeOK
<1>10. ASSUME NEW a \in Actors, WalkEnd(a) PROVE TypeOK'
  BY <1>0, <1>10 DEF WalkEnd, TypeOK
<1>11. ASSUME NEW t \in Threads, PutTimeline(t) PROVE TypeOK'
  <2>1. ref > 0
    BY <1>11, AtPut DEF PutTimeline
  <2> QED
    <3>1. ref' \in Nat
      BY <1>0, <1>11, <2>1 DEF PutTimeline, TypeOK
    <3>2. CASE ioctl[t] = "wait"
      BY <1>0, <1>11, <3>1, <3>2 DEF PutTimeline, TypeOK, Actors
    <3>3. CASE ioctl[t] # "wait"
      BY <1>0, <1>11, <3>1, <3>3 DEF PutTimeline, TypeOK, Actors
    <3> QED
      BY <3>2, <3>3
<1>12. ASSUME NEW t \in Threads, Install(t) PROVE TypeOK'
  <2>1. fence[t] \in Fences
    BY <1>12, AtFence DEF Install
  <2>2. frefs' \in [Fences -> Nat] /\ fd' \subseteq Fences
    BY <1>0, <1>12, <2>1 DEF Install, TypeOK
  <2> QED
    BY <1>0, <1>12, <2>2 DEF Install, TypeOK, Actors
<1>13. ASSUME NEW t \in Threads, EnableSignaling(t) PROVE TypeOK'
  <2>1. fstate' \in [Fences -> {"none", "unsignaled", "signaled", "error"}]
    <3>1. Signal(fence[t]) \/ UNCHANGED fstate
      BY <1>13 DEF EnableSignaling
    <3> QED
      BY <1>0, <3>1 DEF Signal, TypeOK
  <2> QED
    BY <1>0, <1>13, <2>1 DEF EnableSignaling, TypeOK, Actors
<1>14. ASSUME NEW t \in Threads, NEW f \in Fences, NEW s \in Seqnos, AllocFence(t, f, s)
       PROVE  TypeOK'
  BY <1>0, <1>14 DEF AllocFence, TypeOK, Actors, Seqnos
<1>15. ASSUME NEW t \in Threads, AllocFails(t) PROVE TypeOK'
  BY <1>0, <1>15 DEF AllocFails, TypeOK, Actors
<1>16. ASSUME NEW t \in Threads, PutFence(t) PROVE TypeOK'
  <2>1. fence[t] \in Fences /\ frefs[fence[t]] > 0
    BY <1>16, AtFence DEF PutFence
  <2>2. frefs' \in [Fences -> Nat]
    BY <1>0, <1>16, <2>1 DEF PutFence, TypeOK
  <2>3. /\ pc' \in [Actors -> PCs] /\ fence' \in [Threads -> Fences \cup {NoFence}]
        /\ ioctl' \in [Threads -> IoctlNames \cup {"none", "failed"}]
    <3>1. CASE AfterFence(t)
      BY <1>0, <3>1, AfterFenceTypes
    <3>2. CASE Goto(t, "release") /\ UNCHANGED <<ioctl, fence>>
      BY <1>0, <3>2 DEF TypeOK, Actors
    <3> QED
      BY <1>16, <3>1, <3>2 DEF PutFence
  <2> QED
    BY <1>0, <1>16, <2>2, <2>3 DEF PutFence, TypeOK
<1>17. ASSUME NEW t \in Threads, Release(t) PROVE TypeOK'
  <2>1. fence[t] \in Fences /\ ref > 0
    BY <1>17, AtFence DEF Release
  <2> QED
    <3>1. /\ fstate' \in [Fences -> {"none", "unsignaled", "signaled", "error"}]
          /\ fseq' \in [Fences -> 0 .. MaxSeqno] /\ ref' \in Nat
          /\ fences' \subseteq Fences
      BY <1>0, <1>17, <2>1, BoundAssumption DEF Release, Free, TypeOK
    <3>2. /\ pc' \in [Actors -> PCs] /\ fence' \in [Threads -> Fences \cup {NoFence}]
          /\ ioctl' \in [Threads -> IoctlNames \cup {"none", "failed"}]
      BY <1>0, <1>17, AfterFenceTypes DEF Release
    <3> QED
      BY <1>0, <1>17, <3>1, <3>2 DEF Release, TypeOK
<1>18. ASSUME NEW t \in Threads, Query(t) \/ DestroyLock(t) PROVE TypeOK'
  <2>1. CASE Query(t)
    BY <1>0, <2>1 DEF Query, TypeOK, Actors
  <2>2. CASE DestroyLock(t)
    BY <1>0, <2>2 DEF DestroyLock, TypeOK, Actors
  <2> QED
    BY <1>18, <2>1, <2>2
<1>19. ASSUME NEW t \in Threads, DestroyCollect(t) PROVE TypeOK'
  BY <1>0, <1>19 DEF DestroyCollect, Held, TakeAll, TypeOK, Actors
<1>20. ASSUME NEW t \in Threads, NEW f \in Fences, DestroyFence(t, f) PROVE TypeOK'
  <2>1. frefs[f] > 0 /\ ref > 0
    BY <1>20, OnStackList DEF DestroyFence, Actors
  <2>2. frefs' \in [Fences -> Nat] /\ ref' \in Nat /\ fences' \subseteq Fences
    BY <1>0, <1>20, <2>1 DEF DestroyFence, Free, TypeOK
  <2>3. /\ fstate' \in [Fences -> {"none", "unsignaled", "signaled", "error"}]
        /\ fseq' \in [Fences -> 0 .. MaxSeqno]
        /\ temp' \in [Actors -> SUBSET Fences]
    <3>1. 0 \in 0 .. MaxSeqno
      BY BoundAssumption
    <3>2. \/ Free(f)
          \/ fstate' = [fstate EXCEPT ![f] = "error"] /\ UNCHANGED fseq
      BY <1>20 DEF DestroyFence
    <3>3. temp' \in [Actors -> SUBSET Fences]
      BY <1>0, <1>20 DEF DestroyFence, TypeOK
    <3>4. CASE Free(f)
      BY <1>0, <3>1, <3>3, <3>4 DEF Free, TypeOK
    <3>5. CASE fstate' = [fstate EXCEPT ![f] = "error"] /\ UNCHANGED fseq
      BY <1>0, <3>3, <3>5 DEF TypeOK
    <3> QED
      BY <3>2, <3>4, <3>5
  <2> QED
    BY <1>0, <1>20, <2>2, <2>3 DEF DestroyFence, TypeOK
<1>21. ASSUME NEW o \in Objs, Retire(o) PROVE TypeOK'
  BY <1>0, <1>21 DEF Retire, TypeOK
<1>22. ASSUME NEW o \in Objs, Pop(o) \/ Fire(o) PROVE TypeOK'
  <2>1. sigref[o] \in 1 .. 2
    BY <1>0, <1>22 DEF Pop, Fire, IInv, ObjStages, ObjStage, TypeOK
  <2>2. sigref' \in [Objs -> 0 .. 2] /\ pc' \in [Actors -> PCs]
    <3>1. PutSig(o)
      BY <1>22 DEF Pop, Fire
    <3>2. sigref' \in [Objs -> 0 .. 2]
      BY <1>0, <2>1, <3>1 DEF PutSig, TypeOK
    <3>3. pc' = [pc EXCEPT ![o] = "retire"] \/ pc' = pc
      BY <3>1 DEF PutSig
    <3> QED
      BY <1>0, <3>2, <3>3 DEF TypeOK
  <2>3. CASE Pop(o)
    <3>1. events' \in Seq(Objs)
      <4>1. Insert(o) \in Seq(Objs)
        BY <1>0, InsertShape DEF IInv
      <4> QED
        BY <1>0, <2>3, <4>1 DEF Pop, TypeOK
    <3> QED
      BY <1>0, <2>2, <2>3, <3>1 DEF Pop, TypeOK
  <2>4. CASE Fire(o)
    BY <1>0, <2>2, <2>4 DEF Fire, TypeOK
  <2> QED
    BY <1>22, <2>3, <2>4
<1>23. ASSUME NEW o \in Objs, ObjEnd(o) PROVE TypeOK'
  <2>1. ref > 0
    BY <1>23, AtPut DEF ObjEnd
  <2> QED
    BY <1>0, <1>23, <2>1, BoundAssumption DEF ObjEnd, TypeOK, Actors
<1>24. CASE UNCHANGED vars
  BY <1>0, <1>24 DEF vars, TypeOK
<1>25. ASSUME NEW a \in Actors, Progress(a) PROVE TypeOK'
  BY <1>8, <1>9, <1>10, <1>25 DEF Progress
<1>26. ASSUME NEW t \in Threads, ThreadProgress(t) PROVE TypeOK'
  BY <1>5, <1>11, <1>12, <1>13, <1>14, <1>15, <1>16, <1>17, <1>18, <1>19, <1>20,
     <1>25, <1>26 DEF ThreadProgress, Actors
<1>27. ASSUME NEW o \in Objs, ObjProgress(o) PROVE TypeOK'
  BY <1>21, <1>22, <1>23, <1>25, <1>27 DEF ObjProgress, Actors
<1>28. CASE Request
  BY <1>1, <1>2, <1>3, <1>4, <1>5, <1>6, <1>7, <1>28 DEF Request
<1> QED
  BY <1>24, <1>26, <1>27, <1>28 DEF Next

\* Every step leaves every thread in a legal stage.
LEMMA NextThreadStages == IInv /\ [Next]_vars => ThreadStages'
<1> SUFFICES ASSUME IInv, [Next]_vars PROVE ThreadStages'
  OBVIOUS
<1> USE ActorAssumption DEF Goto, Return, IoctlNames, timelineVars, fenceVars, objVars,
                            actorVars
<1>0. TypeOK /\ ThreadStages
  BY DEF IInv
<1>1. ASSUME pc' = pc, ioctl' = ioctl, fence' = fence PROVE ThreadStages'
  BY <1>0, <1>1 DEF ThreadStages
<1>2. ASSUME NEW o \in Objs, NEW p, pc' = [pc EXCEPT ![o] = p], ioctl' = ioctl,
             fence' = fence
      PROVE  ThreadStages'
  <2>1. \A t \in Threads : pc'[t] = pc[t]
    BY <1>0, <1>2 DEF TypeOK, Actors
  <2> QED
    BY <1>0, <1>2, <2>1 DEF ThreadStages
<1>3. ASSUME NEW t \in Threads, NEW i \in IoctlNames, Lookup(t, i) PROVE ThreadStages'
  BY <1>0, <1>3, BoundAssumption DEF Lookup, TypeOK, ThreadStages, Actors
<1>4. ASSUME NEW t \in Threads, NEW f \in Fences, Close(t, f) PROVE ThreadStages'
  BY <1>0, <1>4 DEF Close, TypeOK, ThreadStages, Actors
<1>5. ASSUME NEW t \in Threads, DestroyName(t) PROVE ThreadStages'
  BY <1>0, <1>5 DEF DestroyName, TypeOK, ThreadStages, Actors
<1>6. ASSUME NEW t \in Threads, TimeOut(t) \/ Wake(t) PROVE ThreadStages'
  BY <1>0, <1>6 DEF TimeOut, Wake, TypeOK, ThreadStages, Actors
<1>7. ASSUME NEW a \in Actors, Progress(a) PROVE ThreadStages'
  <2>1. ASSUME NEW s \in Seqnos, SignalStart(a, s), a \in Threads PROVE ThreadStages'
    <3>1. pc[a] = "found" /\ ioctl[a] = "signal"
      BY <2>1 DEF SignalStart, Signaller
    <3>2. \E p \in {"put", "walk"} : pc' = [pc EXCEPT ![a] = p]
      BY <2>1 DEF SignalStart
    <3>3. ioctl' = ioctl /\ fence' = fence
      BY <2>1 DEF SignalStart
    <3> QED
      BY <1>0, <2>1, <3>1, <3>2, <3>3 DEF TypeOK, ThreadStages, Actors
  <2>2. ASSUME NEW s \in Seqnos, SignalStart(a, s), a \in Objs PROVE ThreadStages'
    BY <1>2, <2>2 DEF SignalStart
  <2>3. ASSUME WalkEnd(a), a \in Threads PROVE ThreadStages'
    BY <1>0, <2>3 DEF WalkEnd, TypeOK, ThreadStages, Actors
  <2>4. ASSUME WalkEnd(a), a \in Objs PROVE ThreadStages'
    BY <1>2, <2>4 DEF WalkEnd
  <2>5. ASSUME NEW f \in Fences, WalkFence(a, f) PROVE ThreadStages'
    BY <1>1, <2>5 DEF WalkFence
  <2> QED
    BY <1>7, <2>1, <2>2, <2>3, <2>4, <2>5 DEF Progress, Actors
<1>8. ASSUME NEW t \in Threads, PutTimeline(t) PROVE ThreadStages'
  <2>1. CASE ioctl[t] = "wait"
    BY <1>0, <1>8, <2>1 DEF PutTimeline, TypeOK, ThreadStages, Actors
  <2>2. CASE ioctl[t] # "wait"
    BY <1>0, <1>8, <2>2 DEF PutTimeline, TypeOK, ThreadStages, Actors
  <2> QED
    BY <2>1, <2>2
<1>9. ASSUME NEW t \in Threads, Install(t) PROVE ThreadStages'
  BY <1>0, <1>9 DEF Install, TypeOK, ThreadStages, Actors
<1>10. ASSUME NEW t \in Threads, EnableSignaling(t) PROVE ThreadStages'
  BY <1>0, <1>10 DEF EnableSignaling, TypeOK, ThreadStages, Actors
<1>11. ASSUME NEW t \in Threads, NEW f \in Fences, NEW s \in Seqnos, AllocFence(t, f, s)
       PROVE  ThreadStages'
  <2>1. CASE ioctl[t] = "wait"
    BY <1>0, <1>11, <2>1 DEF AllocFence, TypeOK, ThreadStages, Actors
  <2>2. CASE ioctl[t] = "fence_get"
    BY <1>0, <1>11, <2>2 DEF AllocFence, TypeOK, ThreadStages, Actors
  <2> QED
    BY <1>11, <2>1, <2>2 DEF AllocFence
<1>12. ASSUME NEW t \in Threads, AllocFails(t) PROVE ThreadStages'
  BY <1>0, <1>12 DEF AllocFails, TypeOK, ThreadStages, Actors
<1>13. ASSUME NEW t \in Threads, PutFence(t) \/ Release(t) PROVE ThreadStages'
  <2>1. pc[t] \in {"putfence", "release"}
    BY <1>13 DEF PutFence, Release
  <2>2. \/ pc' = [pc EXCEPT ![t] = "release"] /\ ioctl' = ioctl /\ fence' = fence
        \/ AfterFence(t)
    BY <1>13 DEF PutFence, Release
  <2>3. CASE pc' = [pc EXCEPT ![t] = "release"] /\ ioctl' = ioctl /\ fence' = fence
    BY <1>0, <2>1, <2>3 DEF TypeOK, ThreadStages, Actors
  <2>4. CASE AfterFence(t) /\ ioctl[t] = "fence_get"
    BY <1>0, <2>1, <2>4 DEF AfterFence, TypeOK, ThreadStages, Actors
  <2>5. CASE AfterFence(t) /\ ioctl[t] # "fence_get"
    BY <1>0, <2>1, <2>5 DEF AfterFence, TypeOK, ThreadStages, Actors
  <2> QED
    BY <2>2, <2>3, <2>4, <2>5
<1>14. ASSUME NEW t \in Threads, Query(t) \/ DestroyCollect(t) \/ DestroyLock(t)
       PROVE  ThreadStages'
  <2>1. CASE Query(t)
    BY <1>0, <2>1 DEF Query, TypeOK, ThreadStages, Actors
  <2>2. CASE DestroyCollect(t)
    BY <1>0, <2>2 DEF DestroyCollect, TypeOK, ThreadStages, Actors
  <2>3. CASE DestroyLock(t)
    BY <1>0, <2>3 DEF DestroyLock, TypeOK, ThreadStages, Actors
  <2> QED
    BY <1>14, <2>1, <2>2, <2>3
<1>15. ASSUME NEW o \in Objs, Pop(o) \/ Fire(o) PROVE ThreadStages'
  BY <1>1, <1>2, <1>15 DEF Pop, Fire, PutSig
<1>16. ASSUME NEW o \in Objs, ObjEnd(o) PROVE ThreadStages'
  BY <1>2, <1>16 DEF ObjEnd
<1>17. CASE UNCHANGED vars
  BY <1>1, <1>17 DEF vars
<1>18. ASSUME NEW t \in Threads, ThreadProgress(t) PROVE ThreadStages'
  <2>1. ASSUME NEW f \in Fences, DestroyFence(t, f) PROVE ThreadStages'
    BY <1>1, <2>1 DEF DestroyFence
  <2> QED
    BY <1>6, <1>7, <1>8, <1>9, <1>10, <1>11, <1>12, <1>13, <1>14, <1>18, <2>1
    DEF ThreadProgress, Actors
<1>19. ASSUME NEW o \in Objs, ObjProgress(o) PROVE ThreadStages'
  BY <1>1, <1>7, <1>15, <1>16, <1>19 DEF ObjProgress, Retire, Actors
<1>20. CASE Request
  BY <1>1, <1>3, <1>4, <1>5, <1>6, <1>20 DEF Request, Create, Poll, AddTimeline
<1> QED
  BY <1>17, <1>18, <1>19, <1>20 DEF Next

\* A timeline is created when nothing is left of the one before.
LEMMA AtCreate ==
  ASSUME IInv, ref = 0
  PROVE  /\ ~named /\ LockFree /\ fences = {} /\ events = <<>>
         /\ \A f \in Fences : fstate[f] = "none" /\ frefs[f] = 0
         /\ \A o \in Objs : ostate[o] = "none" /\ pc[o] = "idle"
         /\ \A a \in Actors : temp[a] = {}
<1>1. ~named
  BY Alive DEF IInv
<1>2. \A f \in Fences : fstate[f] = "none" /\ frefs[f] = 0
  BY Alive DEF IInv, TypeOK, FenceOwners
<1>3. \A o \in Objs : ostate[o] = "none" /\ pc[o] = "idle"
  BY Alive DEF IInv, TypeOK, ObjStages, ObjStage
<1>4. \A a \in Actors : temp[a] = {}
  BY OnStackList
<1>5. LockFree
  <2>1. ASSUME NEW t \in Threads PROVE lock # t
    <3>1. ~Holds(t)
      BY Alive DEF IInv
    <3>2. t \in Actors
      BY DEF Actors
    <3> QED
      BY <3>1, <3>2 DEF IInv, ThreadStages, WalkStages, WalkStage, Holds
  <2>2. ASSUME NEW o \in Objs PROVE lock # o
    BY <1>3 DEF IInv, WalkStages, WalkStage, Actors
  <2> QED
    BY <2>1, <2>2 DEF IInv, TypeOK, LockFree, Actors
<1>6. fences = {}
  BY <1>2 DEF IInv, TypeOK, ListedFences
<1>7. events = <<>>
  <2>1. \A i \in DOMAIN events : events[i] \in Objs /\ ostate[events[i]] = "popped"
    BY DEF IInv, TypeOK, ListedEvents
  <2>2. \A i \in DOMAIN events : FALSE
    BY <1>3, <2>1
  <2>3. events \in Seq(Objs) /\ Len(events) \in Nat /\ DOMAIN events = 1 .. Len(events)
    BY DEF IInv, TypeOK
  <2>4. Len(events) = 0
    BY <2>2, <2>3
  <2> QED
    BY <2>3, <2>4, EmptySeq
<1> QED
  BY <1>1, <1>2, <1>3, <1>4, <1>5, <1>6, <1>7

\* While a timeline lives its value does not go back.
LEMMA ValueGrows ==
  ASSUME IInv, [Next]_vars, ref > 0
  PROVE  value' >= value
<1> USE DEF timelineVars
<1>0. value \in Nat
  BY BoundAssumption DEF IInv, TypeOK
<1>1. ASSUME NEW s \in Initials, Create(s) PROVE FALSE
  BY <1>1 DEF Create
<1>2. ASSUME NEW a \in Actors, NEW s \in Seqnos, SignalStart(a, s) PROVE value' >= value
  BY <1>0, <1>2 DEF SignalStart, Seqnos
<1>3. \/ value' = value
      \/ \E s \in Initials : Create(s)
      \/ \E a \in Actors, s \in Seqnos : SignalStart(a, s)
  <2>1. ASSUME NEW a \in Actors, Progress(a)
        PROVE  value' = value \/ \E s \in Seqnos : SignalStart(a, s)
    BY <2>1 DEF Progress, WalkFence, WalkEnd
  <2>2. ASSUME NEW t \in Threads, ThreadProgress(t), ~Progress(t) PROVE value' = value
    BY <2>2 DEF ThreadProgress, PutTimeline, Install, EnableSignaling, Wake, AllocFence,
      AllocFails, PutFence, Release, Query, DestroyCollect, DestroyLock, DestroyFence
  <2>3. ASSUME NEW o \in Objs, ObjProgress(o), ~Progress(o) PROVE value' = value
    BY <2>3 DEF ObjProgress, Retire, Pop, Fire, ObjEnd
  <2>4. CASE Request
    BY <2>4 DEF Request, Lookup, Close, DestroyName, TimeOut, Poll, AddTimeline
  <2>5. CASE UNCHANGED vars
    BY <2>5 DEF vars
  <2> QED
    BY <2>1, <2>2, <2>3, <2>4, <2>5 DEF Next, Actors
<1> QED
  BY <1>0, <1>1, <1>2, <1>3

\* Every step leaves every drawobj in a legal stage.
LEMMA NextObjStages == IInv /\ [Next]_vars => ObjStages'
<1> SUFFICES ASSUME IInv, [Next]_vars, NEW o \in Objs PROVE ObjStage(o)'
  BY DEF ObjStages
<1> USE ActorAssumption DEF ObjStage, Goto, Return, timelineVars, fenceVars, objVars,
                            actorVars
<1>0. TypeOK /\ ObjStage(o) /\ oseq[o] \in Nat /\ value \in Nat /\ sigref[o] \in 0 .. 2
      /\ TypeOK' /\ value' \in Nat
  <2>1. TypeOK /\ TypeOK' /\ ObjStage(o) /\ MaxSeqno \in Nat
    BY NextTypeOK, BoundAssumption DEF IInv, ObjStages
  <2>2. oseq[o] \in Nat /\ value \in Nat /\ sigref[o] \in 0 .. 2 /\ value' \in Nat
    BY <2>1 DEF TypeOK
  <2> QED
    BY <2>1, <2>2
<1>1. ASSUME pc'[o] = pc[o], ostate'[o] = ostate[o], oseq'[o] = oseq[o],
             sigref'[o] = sigref[o], o \in fired' <=> o \in fired
      PROVE  ObjStage(o)'
  <2>1. pc[o] \in {"walk", "put"} => value' >= value
    BY ValueGrows, AtPut
  <2> QED
    BY <1>0, <1>1, <2>1
<1>2. ASSUME NEW t \in Threads, pc' = pc \/ \E p : pc' = [pc EXCEPT ![t] = p],
             UNCHANGED objVars
      PROVE  ObjStage(o)'
  BY <1>0, <1>1, <1>2 DEF TypeOK, Actors
<1>3. ASSUME NEW a \in Objs, Progress(a) PROVE ObjStage(o)'
  <2>1. CASE a # o
    BY <1>0, <1>1, <1>3, <2>1
    DEF Progress, SignalStart, WalkFence, WalkEnd, TypeOK, Actors
  <2>2. ASSUME a = o, NEW s \in Seqnos, SignalStart(a, s) PROVE ObjStage(o)'
    <3>1. pc[o] = "retire" /\ s = oseq[o]
      BY <2>2 DEF SignalStart, Signaller
    <3>2. \/ pc' = [pc EXCEPT ![o] = "put"] /\ s < value /\ value' = value
          \/ pc' = [pc EXCEPT ![o] = "walk"] /\ value' = s
      BY <2>2 DEF SignalStart
    <3>3. UNCHANGED objVars
      BY <2>2 DEF SignalStart
    <3>4. pc'[o] \in {"put", "walk"} /\ oseq'[o] <= value'
      BY <1>0, <3>1, <3>2, <3>3 DEF TypeOK, Actors
    <3> QED
      BY <1>0, <3>1, <3>3, <3>4
  <2>3. ASSUME a = o, WalkEnd(a) PROVE ObjStage(o)'
    BY <1>0, <2>3 DEF WalkEnd, TypeOK, Actors
  <2>4. ASSUME NEW f \in Fences, WalkFence(a, f) PROVE ObjStage(o)'
    BY <1>1, <2>4 DEF WalkFence
  <2> QED
    BY <1>3, <2>1, <2>2, <2>3, <2>4 DEF Progress
<1>4. ASSUME NEW t \in Threads, Progress(t) PROVE ObjStage(o)'
  BY <1>2, <1>4 DEF Progress, SignalStart, WalkFence, WalkEnd
<1>5. ASSUME NEW t \in Threads, ThreadProgress(t) PROVE ObjStage(o)'
  BY <1>2, <1>4, <1>5 DEF ThreadProgress, PutTimeline, Install, EnableSignaling, Wake,
     AllocFence, AllocFails, PutFence, AfterFence, Release, Query, DestroyCollect,
     DestroyLock, DestroyFence
<1>6. ASSUME NEW q \in Objs, Pop(q) PROVE ObjStage(o)'
  <2>1. CASE q # o
    BY <1>0, <1>1, <1>6, <2>1 DEF Pop, PutSig, TypeOK, Actors
  <2>2. CASE q = o
    <3>1. ostate[o] = "queued" /\ ostate'[o] = "popped" /\ fired' = fired
          /\ sigref'[o] = sigref[o] - 1 /\ oseq' = oseq
      BY <1>0, <1>6, <2>2 DEF Pop, PutSig, TypeOK
    <3>2. pc[o] = "idle"
      BY <1>0, <3>1
    <3>3. pc'[o] = IF sigref[o] = 1 THEN "retire" ELSE "idle"
      BY <1>0, <1>6, <2>2, <3>2 DEF Pop, PutSig, TypeOK, Actors
    <3> QED
      BY <1>0, <3>1, <3>3
  <2> QED
    BY <2>1, <2>2
<1>7. ASSUME NEW q \in Objs, Fire(q) PROVE ObjStage(o)'
  <2>1. CASE q # o
    BY <1>0, <1>1, <1>7, <2>1 DEF Fire, PutSig, TypeOK, Actors
  <2>2. CASE q = o
    <3>1. ostate[o] # "none" /\ o \notin fired /\ o \in fired' /\ ostate' = ostate
          /\ sigref'[o] = sigref[o] - 1 /\ oseq' = oseq
      BY <1>0, <1>7, <2>2 DEF Fire, PutSig, TypeOK
    <3>2. pc[o] = "idle"
      BY <1>0, <3>1
    <3>3. pc'[o] = IF sigref[o] = 1 THEN "retire" ELSE "idle"
      BY <1>0, <1>7, <2>2, <3>2 DEF Fire, PutSig, TypeOK, Actors
    <3> QED
      BY <1>0, <3>1, <3>3
  <2> QED
    BY <2>1, <2>2
<1>8. ASSUME NEW q \in Objs, ObjEnd(q) PROVE ObjStage(o)'
  <2>1. CASE q # o
    BY <1>0, <1>1, <1>8, <2>1 DEF ObjEnd, TypeOK, Actors
  <2>2. CASE q = o
    <3>1. pc'[o] = "idle" /\ ostate'[o] = "none" /\ o \notin fired' /\ sigref' = sigref
          /\ pc[o] = "put"
      BY <1>0, <1>8, <2>2 DEF ObjEnd, TypeOK, Actors
    <3>2. sigref[o] = 0
      BY <3>1, AtPut
    <3> QED
      BY <1>0, <3>1, <3>2
  <2> QED
    BY <2>1, <2>2
<1>9. ASSUME NEW q \in Objs, NEW s \in Targets[q], AddTimeline(q, s) PROVE ObjStage(o)'
  <2>1. CASE q # o
    BY <1>0, <1>1, <1>9, <2>1 DEF AddTimeline, TypeOK
  <2>2. CASE q = o
    <3>1. ostate[o] = "none" /\ ostate'[o] = "queued" /\ sigref'[o] = 2 /\ fired' = fired
          /\ pc' = pc
      BY <1>0, <1>9, <2>2 DEF AddTimeline, TypeOK
    <3> QED
      BY <1>0, <3>1
  <2> QED
    BY <2>1, <2>2
<1>10. CASE Request
  <2>1. ASSUME NEW t \in Threads, NEW i \in IoctlNames, Lookup(t, i) PROVE ObjStage(o)'
    BY <1>2, <2>1 DEF Lookup
  <2>2. ASSUME NEW t \in Threads, NEW f \in Fences, Close(t, f) PROVE ObjStage(o)'
    BY <1>2, <2>2 DEF Close
  <2>3. ASSUME NEW t \in Threads, DestroyName(t) \/ TimeOut(t) PROVE ObjStage(o)'
    BY <1>2, <2>3 DEF DestroyName, TimeOut
  <2>4. ASSUME \/ \E s \in Initials : Create(s)
               \/ \E f \in Fences : Poll(f)
        PROVE  ObjStage(o)'
    BY <1>1, <2>4 DEF Create, Poll
  <2> QED
    BY <1>9, <1>10, <2>1, <2>2, <2>3, <2>4 DEF Request
<1>11. ASSUME NEW q \in Objs, Retire(q) PROVE ObjStage(o)'
  BY <1>1, <1>11 DEF Retire
<1>12. CASE UNCHANGED vars
  BY <1>1, <1>12 DEF vars
<1> QED
  BY <1>3, <1>5, <1>6, <1>7, <1>8, <1>10, <1>11, <1>12 DEF Next, ObjProgress

\* Every step leaves the walk, and the lock it holds, in a legal stage.
LEMMA NextWalkStages == IInv /\ [Next]_vars => WalkStages'
<1> SUFFICES ASSUME IInv, [Next]_vars, NEW b \in Actors PROVE WalkStage(b)'
  BY DEF WalkStages
<1> USE DEF WalkStage, Reached, Goto, timelineVars, fenceVars, objVars, actorVars
<1>0. /\ TypeOK /\ WalkStage(b) /\ NoActor \notin Actors
      /\ value \in Nat /\ value' \in Nat /\ fseq \in [Fences -> Nat]
      /\ \A c \in Actors : lock = c <=> pc[c] \in {"walk", "destroywalk"}
  <2>1. TypeOK /\ TypeOK' /\ WalkStages /\ MaxSeqno \in Nat
    BY NextTypeOK, BoundAssumption DEF IInv
  <2>2. value \in Nat /\ value' \in Nat /\ fseq \in [Fences -> Nat]
    BY <2>1 DEF TypeOK
  <2>3. NoActor \notin Actors
    BY ActorAssumption DEF Actors
  <2> QED
    BY <2>1, <2>2, <2>3 DEF WalkStages
\* What the walk of b needs when b stays where it is.
<1>1. ASSUME pc'[b] = pc[b], temp'[b] \subseteq temp[b], lock' = lock,
             \A f \in temp[b] : fseq'[f] = fseq[f] \/ fseq'[f] = 0
      PROVE  WalkStage(b)'
  <2>1. ASSUME NEW f \in temp[b], pc[b] = "walk" PROVE fseq'[f] <= value'
    <3>1. value' >= value /\ f \in Fences
      BY ValueGrows, OnStackList
    <3> QED
      BY <1>0, <1>1, <2>1, <3>1
  <2> QED
    BY <1>0, <1>1, <2>1
<1>2. ASSUME NEW a \in Actors, NEW p, pc[a] \notin {"walk", "destroywalk"},
             p \notin {"walk", "destroywalk"}, pc' = [pc EXCEPT ![a] = p],
             pc[a] # "destroylock", temp' = temp, lock' = lock,
             \A f \in temp[b] : fseq'[f] = fseq[f] \/ fseq'[f] = 0
      PROVE  WalkStage(b)'
  <2>1. CASE a # b
    BY <1>0, <1>1, <1>2, <2>1 DEF TypeOK
  <2>2. CASE a = b
    BY <1>0, <1>2, <2>2 DEF TypeOK
  <2> QED
    BY <2>1, <2>2
<1>3. ASSUME NEW a \in Actors, NEW s \in Seqnos, SignalStart(a, s) PROVE WalkStage(b)'
  <2>1. pc[a] \in {"found", "retire"} /\ lock = NoActor /\ temp[a] = {}
    BY <1>3 DEF SignalStart, Signaller, LockFree, IInv, WalkStages
  <2>2. CASE s < value
    BY <1>2, <1>3, <2>1, <2>2 DEF SignalStart
  <2>3. CASE ~(s < value) /\ a # b
    <3>1. lock' = a /\ pc'[b] = pc[b] /\ temp'[b] = temp[b]
      BY <1>0, <1>3, <2>3 DEF SignalStart, TypeOK
    <3> QED
      BY <1>0, <2>1, <2>3, <3>1
  <2>4. CASE ~(s < value) /\ a = b
    <3>1. /\ lock' = a /\ pc'[b] = "walk" /\ value' = s /\ fseq' = fseq
          /\ temp'[b] = Held({f \in fences : fseq[f] <= s})
      BY <1>0, <1>3, <2>4 DEF SignalStart, TypeOK
    <3> QED
      BY <2>4, <3>1 DEF Held
  <2> QED
    BY <2>2, <2>3, <2>4
<1>4. ASSUME NEW a \in Actors, WalkEnd(a) PROVE WalkStage(b)'
  <2>1. lock = a /\ lock' = NoActor /\ temp' = temp /\ temp[a] = {} /\ pc' = [pc EXCEPT ![a] = "put"]
    BY <1>0, <1>4 DEF WalkEnd
  <2>2. CASE a # b
    BY <1>0, <2>1, <2>2 DEF TypeOK
  <2>3. CASE a = b
    BY <1>0, <2>1, <2>3 DEF TypeOK
  <2> QED
    BY <2>2, <2>3
<1>5. ASSUME NEW a \in Actors, NEW f \in Fences, WalkFence(a, f) \/ DestroyFence(a, f)
      PROVE  WalkStage(b)'
  <2>1. /\ pc' = pc /\ lock' = lock /\ temp' = [temp EXCEPT ![a] = @ \ {f}]
        /\ fseq' = fseq \/ fseq' = [fseq EXCEPT ![f] = 0]
    BY <1>5 DEF WalkFence, DestroyFence, Free
  <2>2. temp'[b] \subseteq temp[b] /\ \A g \in temp[b] : fseq'[g] = fseq[g] \/ fseq'[g] = 0
    BY <1>0, <2>1 DEF TypeOK
  <2> QED
    BY <1>1, <2>1, <2>2
<1>6. ASSUME NEW t \in Threads, DestroyCollect(t) PROVE WalkStage(b)'
  <2>1. pc' = [pc EXCEPT ![t] = "destroylock"] /\ lock' = lock /\ t \in Actors
        /\ temp' = [temp EXCEPT ![t] = Held(fences)] /\ pc[t] = "collect" /\ fseq' = fseq
    BY <1>6 DEF DestroyCollect, Actors
  <2>2. CASE t # b
    BY <1>0, <1>1, <2>1, <2>2 DEF TypeOK
  <2>3. CASE t = b
    BY <1>0, <2>1, <2>3 DEF TypeOK
  <2> QED
    BY <2>2, <2>3
<1>7. ASSUME NEW t \in Threads, DestroyLock(t) PROVE WalkStage(b)'
  <2>1. pc' = [pc EXCEPT ![t] = "destroywalk"] /\ lock' = t /\ t \in Actors
        /\ temp' = temp /\ pc[t] = "destroylock" /\ lock = NoActor
    BY <1>7 DEF DestroyLock, LockFree, Actors
  <2>2. CASE t # b
    BY <1>0, <2>1, <2>2 DEF TypeOK
  <2>3. CASE t = b
    BY <1>0, <2>1, <2>3 DEF TypeOK
  <2> QED
    BY <2>2, <2>3
<1>8. ASSUME NEW t \in Threads, NEW f \in Fences, NEW s \in Seqnos, AllocFence(t, f, s)
      PROVE  WalkStage(b)'
  <2>1. f \notin temp[b]
    BY <1>8, OnStackList DEF AllocFence
  <2>2. \A g \in temp[b] : fseq'[g] = fseq[g]
    BY <1>0, <1>8, <2>1 DEF AllocFence, TypeOK
  <2>3. \E p \in {"put", "install"} : pc' = [pc EXCEPT ![t] = p]
    BY <1>8 DEF AllocFence
  <2> QED
    BY <1>2, <1>8, <2>2, <2>3 DEF AllocFence, Actors
<1>9. ASSUME NEW t \in Threads, PutFence(t) \/ Release(t) PROVE WalkStage(b)'
  <2>1. \E p \in {"release", "put", "idle"} : pc' = [pc EXCEPT ![t] = p]
    BY <1>9 DEF PutFence, Release, AfterFence, Return
  <2>2. /\ temp' = temp /\ lock' = lock /\ pc[t] \in {"putfence", "release"}
        /\ fseq' = fseq \/ fseq' = [fseq EXCEPT ![fence[t]] = 0]
    BY <1>9 DEF PutFence, Release, Free
  <2>3. \A g \in temp[b] : fseq'[g] = fseq[g] \/ fseq'[g] = 0
    BY <1>0, <2>2 DEF TypeOK
  <2> QED
    BY <1>2, <2>1, <2>2, <2>3 DEF Actors
<1>10. ASSUME NEW t \in Threads,
              \/ PutTimeline(t) \/ Install(t) \/ EnableSignaling(t) \/ Wake(t) \/ TimeOut(t)
              \/ AllocFails(t) \/ Query(t) \/ DestroyName(t)
              \/ \E i \in IoctlNames : Lookup(t, i)
              \/ \E f \in Fences : Close(t, f)
       PROVE  WalkStage(b)'
  <2>1. \E p \in {"enable", "idle", "putfence", "sleep", "put", "found", "collect"} :
          pc' = [pc EXCEPT ![t] = p]
    BY <1>10 DEF PutTimeline, Install, EnableSignaling, Wake, TimeOut, AllocFails, Query,
       Lookup, Close, DestroyName, Return
  <2>2. /\ temp' = temp /\ lock' = lock /\ fseq' = fseq
        /\ pc[t] \in {"put", "install", "enable", "sleep", "found", "idle"}
    BY <1>10 DEF PutTimeline, Install, EnableSignaling, Wake, TimeOut, AllocFails, Query,
       Lookup, Close, DestroyName
  <2> QED
    BY <1>2, <2>1, <2>2 DEF Actors
<1>11. ASSUME NEW o \in Objs, Pop(o) \/ Fire(o) \/ ObjEnd(o) PROVE WalkStage(b)'
  <2>1. pc' = pc \/ \E p \in {"retire", "idle"} : pc' = [pc EXCEPT ![o] = p]
    BY <1>11 DEF Pop, Fire, PutSig, ObjEnd
  <2>2. temp' = temp /\ lock' = lock /\ fseq' = fseq
    BY <1>11 DEF Pop, Fire, ObjEnd
  <2>3. pc[o] \in {"idle", "put"}
    <3>1. CASE ObjEnd(o)
      BY <3>1 DEF ObjEnd
    <3>2. CASE Pop(o) \/ Fire(o)
      BY <3>2, AtPut DEF Pop, Fire
    <3> QED
      BY <1>11, <3>1, <3>2
  <2> QED
    BY <1>1, <1>2, <2>1, <2>2, <2>3 DEF Actors
<1>12. ASSUME \/ \E s \in Initials : Create(s)
              \/ \E f \in Fences : Poll(f)
              \/ \E o \in Objs : Retire(o) \/ \E s \in Targets[o] : AddTimeline(o, s)
              \/ UNCHANGED vars
       PROVE  WalkStage(b)'
  BY <1>1, <1>12 DEF Create, Poll, Retire, AddTimeline, vars
<1>13. ASSUME NEW t \in Threads, ThreadProgress(t) PROVE WalkStage(b)'
  BY <1>3, <1>4, <1>5, <1>6, <1>7, <1>8, <1>9, <1>10, <1>13
  DEF ThreadProgress, Progress, Actors
<1>14. ASSUME NEW o \in Objs, ObjProgress(o) PROVE WalkStage(b)'
  BY <1>3, <1>4, <1>5, <1>11, <1>12, <1>14 DEF ObjProgress, Progress, Actors
<1>15. CASE Request
  BY <1>10, <1>12, <1>15 DEF Request
<1> QED
  BY <1>12, <1>13, <1>14, <1>15 DEF Next

\* The actions that leave alone who is at which fence's last use.
LEMMA OwnersFrame ==
  ASSUME IInv, TypeOK', fence' = fence, fd' = fd,
         \A f \in Fences : /\ fstate'[f] = "none" <=> fstate[f] = "none"
                           /\ frefs'[f] = 0 <=> frefs[f] = 0,
         \A t \in Threads : \/ pc'[t] = pc[t]
                            \/ pc[t] \notin {"putfence", "release"} /\ pc'[t] # "release"
  PROVE  FenceOwners'
<1>1. FenceOwners /\ ThreadStages /\ TypeOK
  BY DEF IInv
<1>2. \A f \in Fences : fstate'[f] = "none" => frefs'[f] = 0
  BY <1>1 DEF FenceOwners
<1>3. ASSUME NEW t \in Threads, pc'[t] = "release"
      PROVE  frefs'[fence'[t]] = 0 /\ fstate'[fence'[t]] # "none"
  BY <1>1, <1>3, AtFence DEF FenceOwners
<1>4. \A t \in Threads : fence'[t] \in fd' => pc'[t] \in {"putfence", "release"}
  BY <1>1 DEF FenceOwners
<1>5. ASSUME NEW t \in Threads, NEW u \in Threads,
             u # t, fence'[u] = fence'[t], fence'[t] # NoFence
      PROVE  pc'[t] = pc[t] /\ pc'[u] = pc[u]
             /\ pc[t] \in {"putfence", "release"} /\ (pc[t] = "release" => pc[u] # "release")
  BY <1>1, <1>5 DEF FenceOwners
<1> QED
  BY <1>2, <1>3, <1>4, <1>5 DEF FenceOwners

\* Closing a file descriptor, for FenceOwners.
LEMMA CloseOwners ==
  ASSUME IInv, NEW t \in Threads, NEW f \in Fences, Close(t, f)
  PROVE  FenceOwners'
<1>1. /\ TypeOK /\ FenceOwners /\ f \in fd /\ fd' = fd \ {f} /\ frefs[f] > 0
      /\ frefs' = frefs /\ fstate' = fstate /\ pc[t] = "idle"
  BY Referred DEF IInv, Close
<1>2. /\ pc'[t] = "putfence" /\ fence'[t] = f
      /\ \A u \in Threads \ {t} : pc'[u] = pc[u] /\ fence'[u] = fence[u]
  BY <1>1 DEF Close, Goto, TypeOK, Actors
<1>3. \A u \in Threads : fence[u] = f => pc[u] \in {"putfence", "release"}
  BY <1>1 DEF FenceOwners
<1> QED
  BY <1>1, <1>2, <1>3 DEF FenceOwners

\* Allocating a fence, for FenceOwners.
LEMMA AllocOwners ==
  ASSUME IInv, NEW t \in Threads, NEW f \in Fences, NEW s \in Seqnos, AllocFence(t, f, s)
  PROVE  FenceOwners'
<1>1. TypeOK /\ FenceOwners /\ fstate[f] = "none" /\ fd' = fd
  BY DEF IInv, AllocFence
<1>2. f \notin fd /\ \A u \in Threads : fence[u] # f
  <2>1. frefs[f] = 0
    BY <1>1 DEF FenceOwners
  <2>2. f \notin fd /\ \A u \in Threads : ~HasFence(u, f)
    BY <2>1, Referred DEF IInv
  <2> QED
    BY <1>1, <2>2 DEF HasFence, FenceOwners
<1>3. /\ pc'[t] \in {"put", "install"} /\ fence'[t] = f
      /\ \A u \in Threads \ {t} : pc'[u] = pc[u] /\ fence'[u] = fence[u]
  BY <1>1 DEF AllocFence, Goto, TypeOK, Actors
<1>4. /\ fstate'[f] # "none" /\ frefs'[f] = 1
      /\ \A g \in Fences \ {f} : fstate'[g] = fstate[g] /\ frefs'[g] = frefs[g]
  BY <1>1 DEF AllocFence, TypeOK
<1>5. \A g \in Fences : fstate'[g] = "none" => frefs'[g] = 0
  BY <1>1, <1>4 DEF FenceOwners
<1>6. ASSUME NEW u \in Threads, pc'[u] = "release"
      PROVE  frefs'[fence'[u]] = 0 /\ fstate'[fence'[u]] # "none"
  <2>1. u # t /\ pc[u] = "release"
    BY <1>3, <1>6
  <2>2. fence[u] \in Fences \ {f}
    BY <1>2, <2>1, AtFence
  <2> QED
    BY <1>1, <1>3, <1>4, <2>1, <2>2 DEF FenceOwners
<1> QED
  BY <1>1, <1>2, <1>3, <1>5, <1>6 DEF FenceOwners

\* Installing a file descriptor, for FenceOwners.
LEMMA InstallOwners ==
  ASSUME IInv, NEW t \in Threads, Install(t)
  PROVE  FenceOwners'
<1>1. /\ TypeOK /\ FenceOwners /\ fence' = fence /\ fstate' = fstate /\ pc[t] = "install"
      /\ fence[t] \in Fences /\ frefs[fence[t]] > 0
  BY AtFence DEF IInv, Install
<1>2. pc'[t] = "putfence" /\ \A u \in Threads \ {t} : pc'[u] = pc[u]
  BY <1>1 DEF Install, Goto, TypeOK, Actors
<1>3. fd' \subseteq fd \cup {fence[t]} /\ \A f \in Fences : frefs'[f] = 0 <=> frefs[f] = 0
  BY <1>1 DEF Install, TypeOK
<1>4. \A u \in Threads \ {t} : fence[u] # fence[t]
  BY <1>1, ActorAssumption DEF FenceOwners
<1>5. ASSUME NEW u \in Threads, pc'[u] = "release"
      PROVE  frefs'[fence'[u]] = 0 /\ fstate'[fence'[u]] # "none"
  BY <1>1, <1>2, <1>3, <1>5, AtFence DEF FenceOwners
<1> QED
  BY <1>1, <1>2, <1>3, <1>4, <1>5 DEF FenceOwners

\* Dropping a reference, for FenceOwners.
LEMMA PutOwners ==
  ASSUME IInv, NEW t \in Threads, PutFence(t)
  PROVE  FenceOwners'
<1> DEFINE f == fence[t]
<1>1. /\ TypeOK /\ FenceOwners /\ fstate' = fstate /\ fd' = fd /\ pc[t] = "putfence"
      /\ f \in Fences /\ frefs[f] > 0 /\ fstate[f] # "none" /\ NoFence \notin Fences
      /\ fd \subseteq Fences
  BY AtFence, ActorAssumption DEF IInv, PutFence, TypeOK
<1>2. frefs'[f] = frefs[f] - 1 /\ \A g \in Fences \ {f} : frefs'[g] = frefs[g]
  BY <1>1 DEF PutFence, TypeOK
<1>3. \A u \in Threads : fence[u] = f => pc[u] # "release"
  BY <1>1 DEF FenceOwners
<1>4. \A u \in Threads : pc[u] = "release" => fence[u] \in Fences
  BY AtFence
<1>5. CASE frefs[f] = 1
  <2>1. /\ fence' = fence /\ pc'[t] = "release"
        /\ \A u \in Threads \ {t} : pc'[u] = pc[u]
    BY <1>1, <1>5 DEF PutFence, Goto, TypeOK, Actors
  <2>2. f \notin fd /\ \A u \in Threads \ {t} : fence[u] # f
    <3>1. HasFence(t, f)
      BY <1>1 DEF HasFence
    <3>2. f \notin fd /\ \A u \in Threads : HasFence(u, f) => u = t
      BY <1>1, <1>5, <3>1, Referred DEF IInv
    <3> QED
      BY <1>3, <3>2 DEF HasFence
  <2> HIDE DEF f
  <2>3. frefs'[f] = 0
    BY <1>2, <1>5
  <2> QED
    BY <1>1, <1>2, <1>4, <2>1, <2>2, <2>3 DEF FenceOwners, f
<1>6. CASE frefs[f] # 1
  <2>1. /\ fence'[t] = NoFence /\ pc'[t] \in {"put", "idle"}
        /\ \A u \in Threads \ {t} : pc'[u] = pc[u] /\ fence'[u] = fence[u]
    BY <1>1, <1>6 DEF PutFence, AfterFence, Return, Goto, TypeOK, Actors
  <2> HIDE DEF f
  <2>2. \A g \in Fences : frefs'[g] = 0 <=> frefs[g] = 0
    BY <1>1, <1>2, <1>6 DEF TypeOK
  <2> QED
    BY <1>1, <1>4, <2>1, <2>2 DEF FenceOwners
<1> QED
  BY <1>5, <1>6

\* Releasing a fence, for FenceOwners.
LEMMA ReleaseOwners ==
  ASSUME IInv, NEW t \in Threads, Release(t)
  PROVE  FenceOwners'
<1> DEFINE f == fence[t]
<1>1. /\ TypeOK /\ FenceOwners /\ frefs' = frefs /\ fd' = fd /\ pc[t] = "release"
      /\ f \in Fences /\ frefs[f] = 0 /\ NoFence \notin Fences /\ fd \subseteq Fences
  BY AtFence, ActorAssumption DEF IInv, Release, TypeOK, FenceOwners
<1>2. fstate'[f] = "none" /\ \A g \in Fences \ {f} : fstate'[g] = fstate[g]
  BY <1>1 DEF Release, Free, TypeOK
<1>3. /\ fence'[t] = NoFence /\ pc'[t] \in {"put", "idle"}
      /\ \A u \in Threads \ {t} : pc'[u] = pc[u] /\ fence'[u] = fence[u]
  BY <1>1 DEF Release, AfterFence, Return, Goto, TypeOK, Actors
<1>4. \A u \in Threads \ {t} : pc[u] = "release" => fence[u] \in Fences \ {f}
  BY <1>1, AtFence DEF FenceOwners
<1> HIDE DEF f
<1>5. \A g \in Fences : fstate'[g] = "none" => frefs'[g] = 0
  BY <1>1, <1>2 DEF FenceOwners
<1>6. ASSUME NEW u \in Threads, pc'[u] = "release"
      PROVE  frefs'[fence'[u]] = 0 /\ fstate'[fence'[u]] # "none"
  BY <1>1, <1>2, <1>3, <1>4, <1>6 DEF FenceOwners
<1> QED
  BY <1>1, <1>3, <1>5, <1>6 DEF FenceOwners

\* A signal or a destruction that passes a fence, for FenceOwners.
LEMMA WalkOwners ==
  ASSUME IInv, NEW a \in Actors, NEW f \in Fences, WalkFence(a, f) \/ DestroyFence(a, f)
  PROVE  FenceOwners'
<1>1. /\ TypeOK /\ FenceOwners /\ fence' = fence /\ fd' = fd /\ pc' = pc
      /\ frefs[f] > 0 /\ fstate[f] # "none"
  BY OnStackList DEF IInv, WalkFence, DestroyFence
<1>2. frefs'[f] = frefs[f] - 1 /\ \A g \in Fences \ {f} : frefs'[g] = frefs[g]
  BY <1>1 DEF WalkFence, DestroyFence, TypeOK
<1>3. \A g \in Fences \ {f} : fstate'[g] = fstate[g]
  BY <1>1 DEF WalkFence, DestroyFence, Free, Signal, TypeOK
<1>4. fstate'[f] = "none" => frefs[f] = 1
  BY <1>1 DEF WalkFence, DestroyFence, Signal, TypeOK
<1>5. \A g \in Fences : fstate'[g] = "none" => frefs'[g] = 0
  BY <1>1, <1>2, <1>3, <1>4 DEF FenceOwners
<1>6. ASSUME NEW u \in Threads, pc'[u] = "release"
      PROVE  frefs'[fence'[u]] = 0 /\ fstate'[fence'[u]] # "none"
  <2>1. fence[u] \in Fences \ {f}
    BY <1>1, <1>6, AtFence DEF FenceOwners
  <2> QED
    BY <1>1, <1>2, <1>3, <1>6, <2>1 DEF FenceOwners
<1> QED
  BY <1>1, <1>5, <1>6 DEF FenceOwners

\* Only a waiter has a fence when it puts the timeline, and it keeps it.
LEMMA PutKeepsFence ==
  ASSUME IInv, NEW t \in Threads, PutTimeline(t)
  PROVE  fence' = fence
<1>1. CASE ioctl[t] = "wait"
  BY <1>1 DEF PutTimeline
<1>2. CASE ioctl[t] # "wait"
  <2>1. fence[t] = NoFence /\ fence' = [fence EXCEPT ![t] = NoFence]
    BY <1>2 DEF PutTimeline, Return, IInv, ThreadStages
  <2>2. fence \in [Threads -> Fences \cup {NoFence}]
    BY DEF IInv, TypeOK
  <2> QED
    BY <2>1, <2>2
<1> QED
  BY <1>1, <1>2

\* Every step leaves a fence with one releaser at most.
LEMMA NextFenceOwners == IInv /\ [Next]_vars => FenceOwners'
<1> SUFFICES ASSUME IInv, [Next]_vars PROVE FenceOwners'
  OBVIOUS
<1> USE DEF Goto, timelineVars, fenceVars, objVars, actorVars
<1>0. TypeOK /\ TypeOK' /\ ThreadStages
  BY NextTypeOK DEF IInv
\* A step that moves one thread and no fence.
<1>1. ASSUME NEW t \in Actors, NEW p, pc' = [pc EXCEPT ![t] = p],
             t \in Threads => pc[t] \notin {"putfence", "release"} /\ p # "release",
             UNCHANGED <<fence, fd>>,
             \A f \in Fences : /\ fstate'[f] = "none" <=> fstate[f] = "none"
                               /\ frefs'[f] = 0 <=> frefs[f] = 0
      PROVE  FenceOwners'
  BY <1>0, <1>1, OwnersFrame DEF TypeOK, Actors
<1>2. ASSUME pc' = pc, UNCHANGED <<fence, fd>>,
             \A f \in Fences : /\ fstate'[f] = "none" <=> fstate[f] = "none"
                               /\ frefs'[f] = 0 <=> frefs[f] = 0
      PROVE  FenceOwners'
  BY <1>0, <1>2, OwnersFrame
<1>3. ASSUME NEW S, TakeAll(S), S \subseteq Held(Fences)
      PROVE  \A f \in Fences : frefs'[f] = 0 <=> frefs[f] = 0
  BY <1>0, <1>3 DEF TakeAll, Held, TypeOK
<1>4. ASSUME NEW f, Signal(f)
      PROVE  \A g \in Fences : fstate'[g] = "none" <=> fstate[g] = "none"
  BY <1>0, <1>4 DEF Signal, TypeOK
<1>5. ASSUME NEW a \in Actors, NEW s \in Seqnos, SignalStart(a, s) PROVE FenceOwners'
  <2>1. a \in Threads => pc[a] = "found"
    BY <1>5, ActorAssumption DEF SignalStart, Signaller
  <2>2. CASE s < value
    BY <1>1, <1>5, <2>1, <2>2 DEF SignalStart
  <2>3. CASE ~(s < value)
    <3>1. Held({f \in fences : fseq[f] <= s}) \subseteq Held(Fences)
      BY <1>0 DEF Held, TypeOK
    <3>2. \A f \in Fences : frefs'[f] = 0 <=> frefs[f] = 0
      BY <1>3, <1>5, <2>3, <3>1 DEF SignalStart
    <3> QED
      BY <1>1, <1>5, <2>1, <2>3, <3>2 DEF SignalStart
  <2> QED
    BY <2>2, <2>3
<1>6. ASSUME NEW a \in Actors, WalkEnd(a) PROVE FenceOwners'
  BY <1>1, <1>6 DEF WalkEnd
<1>7. ASSUME NEW t \in Threads, PutTimeline(t) PROVE FenceOwners'
  <2>1. fence' = fence
    BY <1>7, PutKeepsFence
  <2>2. \E p \in {"enable", "idle"} : pc' = [pc EXCEPT ![t] = p]
    BY <1>7 DEF PutTimeline, Return
  <2> QED
    BY <1>1, <1>7, <2>1, <2>2 DEF PutTimeline, Actors
<1>8. ASSUME NEW t \in Threads, EnableSignaling(t) PROVE FenceOwners'
  <2>1. \A g \in Fences : fstate'[g] = "none" <=> fstate[g] = "none"
    BY <1>4, <1>8 DEF EnableSignaling
  <2> QED
    BY <1>1, <1>8, <2>1 DEF EnableSignaling, Actors
<1>9. ASSUME NEW t \in Threads, DestroyCollect(t) PROVE FenceOwners'
  <2>1. Held(fences) \subseteq Held(Fences)
    BY <1>0 DEF Held, TypeOK
  <2>2. \A f \in Fences : frefs'[f] = 0 <=> frefs[f] = 0
    BY <1>3, <1>9, <2>1 DEF DestroyCollect
  <2> QED
    BY <1>1, <1>9, <2>2 DEF DestroyCollect, Actors
<1>10. ASSUME NEW t \in Threads,
              \/ Wake(t) \/ TimeOut(t) \/ AllocFails(t) \/ Query(t) \/ DestroyLock(t)
              \/ DestroyName(t) \/ \E i \in IoctlNames : Lookup(t, i)
       PROVE  FenceOwners'
  BY <1>1, <1>10
  DEF Wake, TimeOut, AllocFails, Query, DestroyLock, DestroyName, Lookup, Actors
<1>11. ASSUME NEW o \in Objs, Pop(o) \/ Fire(o) \/ ObjEnd(o) \/ Retire(o) PROVE FenceOwners'
  <2>1. o \in Actors /\ o \notin Threads
    BY ActorAssumption DEF Actors
  <2>2. pc' = pc \/ \E p : pc' = [pc EXCEPT ![o] = p]
    BY <1>11 DEF Pop, Fire, PutSig, ObjEnd, Retire
  <2>3. UNCHANGED <<fence, fd, fstate, frefs>>
    BY <1>11 DEF Pop, Fire, ObjEnd, Retire
  <2> QED
    BY <1>1, <1>2, <2>1, <2>2, <2>3
<1>12. ASSUME \/ \E s \in Initials : Create(s)
              \/ \E o \in Objs : \E s \in Targets[o] : AddTimeline(o, s)
              \/ UNCHANGED vars
       PROVE  FenceOwners'
  BY <1>2, <1>12 DEF Create, AddTimeline, vars
<1>13. ASSUME NEW f \in Fences, Poll(f) PROVE FenceOwners'
  BY <1>2, <1>4, <1>13 DEF Poll
<1>14. ASSUME NEW t \in Threads, ThreadProgress(t) PROVE FenceOwners'
  BY <1>5, <1>6, <1>7, <1>8, <1>9, <1>10, <1>14, AllocOwners, InstallOwners, PutOwners,
     ReleaseOwners, WalkOwners
  DEF ThreadProgress, Progress, Actors
<1>15. ASSUME NEW o \in Objs, ObjProgress(o) PROVE FenceOwners'
  BY <1>5, <1>6, <1>11, <1>15, WalkOwners DEF ObjProgress, Progress, Actors
<1>16. CASE Request
  BY <1>10, <1>12, <1>13, <1>16, CloseOwners DEF Request
<1> QED
  BY <1>12, <1>14, <1>15, <1>16 DEF Next

-----------------------------------------------------------------------------
(* The references on a fence                                               *)

FenceCountedAt(f) ==
  /\ frefs[f] = (IF f \in fd THEN 1 ELSE 0) + Cardinality(Users(f))
                + Cardinality(Walkers(f))
  /\ frefs[f] = 0 /\ fstate[f] # "none" =>
       \E t \in Threads : fence[t] = f /\ pc[t] = "release"

\* FenceCounted, fence by fence.
LEMMA FenceCountAt == FenceCounted <=> \A f \in Fences : FenceCountedAt(f)
BY FenceCount DEF FenceCountedAt

\* A fence whose references do not move.
LEMMA CountFrame ==
  ASSUME NEW g \in Fences, FenceCountedAt(g),
         frefs'[g] = frefs[g], g \in fd' <=> g \in fd,
         Users(g)' = Users(g), Walkers(g)' = Walkers(g),
         fstate[g] = "none" => fstate'[g] = "none",
         \A t \in Threads : fence[t] = g /\ pc[t] = "release"
                              => fence'[t] = g /\ pc'[t] = "release"
  PROVE  FenceCountedAt(g)'
<1>1. /\ frefs'[g] = (IF g \in fd' THEN 1 ELSE 0) + Cardinality(Users(g)')
                     + Cardinality(Walkers(g)')
  BY DEF FenceCountedAt
<1>2. frefs'[g] = 0 /\ fstate'[g] # "none" =>
        \E t \in Threads : fence'[t] = g /\ pc'[t] = "release"
  BY DEF FenceCountedAt
<1> QED
  BY <1>1, <1>2 DEF FenceCountedAt

\* A step of one actor that is at no fence's last use.
LEMMA CountMove ==
  ASSUME IInv, fence' = fence, fd' = fd, temp' = temp, frefs' = frefs,
         \A f \in Fences : fstate[f] = "none" => fstate'[f] = "none",
         \A t \in Threads : pc'[t] = "release" <=> pc[t] = "release"
  PROVE  FenceCounted'
<1> SUFFICES ASSUME NEW g \in Fences PROVE FenceCountedAt(g)'
  BY DEF FenceCounted, FenceCountedAt, Users, Walkers
<1>1. FenceCountedAt(g)
  BY FenceCountAt DEF IInv
<1>2. Users(g)' = Users(g)
  BY DEF Users, HasFence
<1>3. Walkers(g)' = Walkers(g)
  BY DEF Walkers
<1> QED
  BY <1>1, <1>2, <1>3, CountFrame

\* A walk takes its references.
LEMMA TakeCounted ==
  ASSUME IInv, TypeOK', NEW a \in Actors, NEW S \in SUBSET Held(Fences), TakeAll(S),
         temp[a] = {}, temp' = [temp EXCEPT ![a] = S],
         fence' = fence, fd' = fd, fstate' = fstate,
         \A t \in Threads : pc'[t] = "release" <=> pc[t] = "release"
  PROVE  FenceCounted'
<1> SUFFICES ASSUME NEW g \in Fences PROVE FenceCountedAt(g)'
  BY DEF FenceCounted, FenceCountedAt, Users, Walkers
<1>1. FenceCountedAt(g) /\ TypeOK
  BY FenceCountAt DEF IInv
<1>2. Users(g)' = Users(g)
  BY DEF Users, HasFence
<1>3. CASE g \notin S
  <2>1. Walkers(g)' = Walkers(g)
    BY <1>1, <1>3 DEF Walkers, TypeOK
  <2>2. frefs'[g] = frefs[g]
    BY <1>3 DEF TakeAll
  <2> QED
    BY <1>1, <1>2, <2>1, <2>2, CountFrame
<1>4. CASE g \in S
  <2>1. Walkers(g)' = Walkers(g) \cup {a} /\ a \notin Walkers(g)
    BY <1>1, <1>4 DEF Walkers, TypeOK
  <2>2. frefs'[g] = frefs[g] + 1 /\ frefs[g] \in Nat
    BY <1>1, <1>4 DEF TakeAll, TypeOK
  <2>3. Cardinality(Walkers(g)') = Cardinality(Walkers(g)) + 1
    BY <2>1, CountedFinite, CardAdd
  <2>4. Cardinality(Users(g)) \in Nat /\ Cardinality(Walkers(g)) \in Nat
    BY CardinalTypes
  <2> QED
    BY <1>1, <1>2, <2>2, <2>3, <2>4 DEF FenceCountedAt
<1> QED
  BY <1>3, <1>4

\* A walk gives one back.
LEMMA WalkCounted ==
  ASSUME IInv, NEW a \in Actors, NEW f \in Fences, WalkFence(a, f) \/ DestroyFence(a, f)
  PROVE  FenceCounted'
<1> SUFFICES ASSUME NEW g \in Fences PROVE FenceCountedAt(g)'
  BY DEF FenceCounted, FenceCountedAt, Users, Walkers
<1>1. FenceCountedAt(g) /\ TypeOK
  BY FenceCountAt DEF IInv
<1>2. /\ f \in temp[a] /\ temp' = [temp EXCEPT ![a] = temp[a] \ {f}]
      /\ fence' = fence /\ fd' = fd /\ pc' = pc
      /\ frefs' = [frefs EXCEPT ![f] = frefs[f] - 1]
      /\ frefs[f] = 1 => fstate' = [fstate EXCEPT ![f] = "none"]
  BY DEF WalkFence, DestroyFence, Free
<1>3. Users(g)' = Users(g)
  BY <1>2 DEF Users, HasFence
<1>4. CASE g # f
  <2>1. Walkers(g)' = Walkers(g)
    BY <1>1, <1>2, <1>4 DEF Walkers, TypeOK
  <2>2. frefs'[g] = frefs[g]
    BY <1>1, <1>2, <1>4 DEF TypeOK
  <2>3. fstate'[g] = fstate[g]
    BY <1>1, <1>4 DEF WalkFence, DestroyFence, Free, Signal, TypeOK
  <2> QED
    BY <1>1, <1>2, <1>3, <2>1, <2>2, <2>3, CountFrame
<1>5. CASE g = f
  <2>1. Walkers(g)' = Walkers(g) \ {a} /\ a \in Walkers(g)
    BY <1>1, <1>2, <1>5 DEF Walkers, TypeOK
  <2>2. Cardinality(Walkers(g)') = Cardinality(Walkers(g)) - 1
    BY <2>1, CountedFinite, CardRemove
  <2>3. frefs'[g] = frefs[g] - 1 /\ frefs[g] \in Nat
    BY <1>1, <1>2, <1>5 DEF TypeOK
  <2>4. frefs'[g] = 0 => fstate'[g] = "none"
    BY <1>1, <1>2, <1>5, <2>3 DEF TypeOK
  <2>5. Cardinality(Users(g)) \in Nat /\ Cardinality(Walkers(g)) \in Nat
    BY CardinalTypes
  <2> QED
    BY <1>1, <1>2, <1>3, <2>2, <2>3, <2>4, <2>5 DEF FenceCountedAt
<1> QED
  BY <1>4, <1>5

\* A caller takes a file's reference over.
LEMMA CloseCounted ==
  ASSUME IInv, NEW t \in Threads, NEW f \in Fences, Close(t, f)
  PROVE  FenceCounted'
<1> SUFFICES ASSUME NEW g \in Fences PROVE FenceCountedAt(g)'
  BY DEF FenceCounted, FenceCountedAt, Users, Walkers
<1>1. FenceCountedAt(g) /\ TypeOK
  BY FenceCountAt DEF IInv
<1>2. /\ pc[t] = "idle" /\ fence[t] = NoFence /\ f \in fd /\ fd' = fd \ {f}
      /\ temp' = temp /\ frefs' = frefs /\ fstate' = fstate /\ NoFence \notin Fences
  BY ActorAssumption DEF Close, IInv, ThreadStages
<1>3. /\ pc'[t] = "putfence" /\ fence'[t] = f
      /\ \A u \in Threads \ {t} : pc'[u] = pc[u] /\ fence'[u] = fence[u]
  BY <1>1 DEF Close, Goto, TypeOK, Actors
<1>4. Walkers(g)' = Walkers(g)
  BY <1>2 DEF Walkers
<1>5. CASE g # f
  <2>1. Users(g)' = Users(g)
    BY <1>2, <1>3, <1>5 DEF Users, HasFence
  <2> QED
    BY <1>1, <1>2, <1>3, <1>4, <1>5, <2>1, CountFrame
<1>6. CASE g = f
  <2>1. Users(g)' = Users(g) \cup {t} /\ t \notin Users(g)
    BY <1>2, <1>3, <1>6 DEF Users, HasFence
  <2>2. Cardinality(Users(g)') = Cardinality(Users(g)) + 1
    BY <2>1, CountedFinite, CardAdd
  <2>3. Cardinality(Users(g)) \in Nat /\ Cardinality(Walkers(g)) \in Nat
    BY CardinalTypes
  <2>4. g \in fd /\ g \notin fd'
    BY <1>2, <1>6
  <2> QED
    BY <1>1, <1>2, <1>4, <2>2, <2>3, <2>4 DEF FenceCountedAt
<1> QED
  BY <1>5, <1>6

\* A new fence is its caller's.
LEMMA AllocCounted ==
  ASSUME IInv, NEW t \in Threads, NEW f \in Fences, NEW s \in Seqnos, AllocFence(t, f, s)
  PROVE  FenceCounted'
<1> SUFFICES ASSUME NEW g \in Fences PROVE FenceCountedAt(g)'
  BY DEF FenceCounted, FenceCountedAt, Users, Walkers
<1>1. FenceCountedAt(g) /\ TypeOK
  BY FenceCountAt DEF IInv
<1>2. /\ pc[t] = "found" /\ fence[t] = NoFence /\ fd' = fd /\ fstate[f] = "none"
      /\ temp' = temp /\ NoFence \notin Fences /\ frefs[f] = 0
  BY ActorAssumption DEF AllocFence, IInv, ThreadStages, FenceOwners
<1>3. /\ pc'[t] # "release" /\ fence'[t] = f
      /\ \A u \in Threads \ {t} : pc'[u] = pc[u] /\ fence'[u] = fence[u]
  BY <1>1 DEF AllocFence, Goto, TypeOK, Actors
<1>4. /\ frefs'[f] = 1
      /\ \A h \in Fences \ {f} : fstate'[h] = fstate[h] /\ frefs'[h] = frefs[h]
  BY <1>1 DEF AllocFence, TypeOK
<1>5. Walkers(g)' = Walkers(g)
  BY <1>2 DEF Walkers
<1>6. CASE g # f
  <2>1. Users(g)' = Users(g)
    BY <1>2, <1>3, <1>6 DEF Users, HasFence
  <2> QED
    BY <1>1, <1>2, <1>3, <1>4, <1>5, <1>6, <2>1, CountFrame
<1>7. CASE g = f
  <2>1. Users(g)' = Users(g) \cup {t} /\ t \notin Users(g)
    BY <1>2, <1>3, <1>7 DEF Users, HasFence
  <2>2. Cardinality(Users(g)') = Cardinality(Users(g)) + 1
    BY <2>1, CountedFinite, CardAdd
  <2>3. Cardinality(Users(g)) \in Nat /\ Cardinality(Walkers(g)) \in Nat
    BY CardinalTypes
  <2>4. frefs[g] = 0 /\ frefs'[g] = 1
    BY <1>2, <1>4, <1>7
  <2> QED
    BY <1>1, <1>2, <1>5, <2>2, <2>3, <2>4 DEF FenceCountedAt
<1> QED
  BY <1>6, <1>7

\* A file takes a reference.
LEMMA InstallCounted ==
  ASSUME IInv, NEW t \in Threads, Install(t)
  PROVE  FenceCounted'
<1> SUFFICES ASSUME NEW g \in Fences PROVE FenceCountedAt(g)'
  BY DEF FenceCounted, FenceCountedAt, Users, Walkers
<1>1. FenceCountedAt(g) /\ TypeOK
  BY FenceCountAt DEF IInv
<1>2. /\ pc[t] = "install" /\ fence[t] \in Fences /\ fence[t] \notin fd
      /\ temp' = temp /\ fence' = fence /\ fstate' = fstate
  BY AtFence DEF Install, IInv, FenceOwners
<1>3. pc'[t] = "putfence" /\ \A u \in Threads \ {t} : pc'[u] = pc[u]
  BY <1>1 DEF Install, Goto, TypeOK, Actors
<1>4. Walkers(g)' = Walkers(g) /\ Users(g)' = Users(g)
  BY <1>2, <1>3 DEF Walkers, Users, HasFence
<1>5. \/ UNCHANGED <<fd, frefs>>
      \/ /\ fd' = fd \cup {fence[t]}
         /\ frefs' = [frefs EXCEPT ![fence[t]] = frefs[fence[t]] + 1]
  BY DEF Install
<1>6. CASE UNCHANGED <<fd, frefs>> \/ g # fence[t]
  <2>1. frefs'[g] = frefs[g] /\ (g \in fd' <=> g \in fd)
    BY <1>1, <1>2, <1>5, <1>6 DEF TypeOK
  <2> QED
    BY <1>1, <1>2, <1>3, <1>4, <2>1, CountFrame
<1>7. CASE g = fence[t] /\ ~UNCHANGED <<fd, frefs>>
  <2>1. frefs'[g] = frefs[g] + 1 /\ g \in fd' /\ g \notin fd /\ frefs[g] \in Nat
    BY <1>1, <1>2, <1>5, <1>7 DEF TypeOK
  <2>2. Cardinality(Users(g)) \in Nat /\ Cardinality(Walkers(g)) \in Nat
    BY CardinalTypes
  <2> QED
    BY <1>1, <1>4, <2>1, <2>2 DEF FenceCountedAt
<1> QED
  BY <1>6, <1>7

\* A caller gives its reference back.
LEMMA PutCounted ==
  ASSUME IInv, NEW t \in Threads, PutFence(t)
  PROVE  FenceCounted'
<1> SUFFICES ASSUME NEW g \in Fences PROVE FenceCountedAt(g)'
  BY DEF FenceCounted, FenceCountedAt, Users, Walkers
<1>1. FenceCountedAt(g) /\ TypeOK
  BY FenceCountAt DEF IInv
<1>2. /\ pc[t] = "putfence" /\ fence[t] \in Fences /\ fd' = fd /\ NoFence \notin Fences
      /\ temp' = temp /\ fstate' = fstate
      /\ frefs' = [frefs EXCEPT ![fence[t]] = frefs[fence[t]] - 1]
  BY AtFence, ActorAssumption DEF PutFence
<1>3. /\ \A u \in Threads \ {t} : pc'[u] = pc[u] /\ fence'[u] = fence[u]
      /\ IF frefs[fence[t]] = 1 THEN pc'[t] = "release" /\ fence'[t] = fence[t]
         ELSE pc'[t] # "release" /\ fence'[t] = NoFence
  BY <1>1 DEF PutFence, AfterFence, Return, Goto, TypeOK, Actors
<1>4. Walkers(g)' = Walkers(g)
  BY <1>2 DEF Walkers
<1>5. CASE g # fence[t]
  <2>1. Users(g)' = Users(g)
    <3>1. \A u \in Threads : HasFence(u, g)' <=> HasFence(u, g)
      BY <1>3, <1>5, <1>2 DEF HasFence
    <3> QED
      BY <3>1 DEF Users
  <2>2. frefs'[g] = frefs[g]
    BY <1>1, <1>2, <1>5 DEF TypeOK
  <2> QED
    BY <1>1, <1>2, <1>3, <1>4, <1>5, <2>1, <2>2, CountFrame
<1>6. CASE g = fence[t]
  <2>1. Users(g)' = Users(g) \ {t} /\ t \in Users(g)
    BY <1>2, <1>3, <1>6 DEF Users, HasFence
  <2>2. Cardinality(Users(g)') = Cardinality(Users(g)) - 1
    BY <2>1, CountedFinite, CardRemove
  <2>3. Cardinality(Users(g)) \in Nat /\ Cardinality(Walkers(g)) \in Nat
    BY CardinalTypes
  <2>4. frefs'[g] = frefs[g] - 1 /\ frefs[g] \in Nat
    BY <1>1, <1>2, <1>6 DEF TypeOK
  <2>5. frefs'[g] = 0 => pc'[t] = "release" /\ fence'[t] = g
    BY <1>3, <1>6, <2>4
  <2> QED
    BY <1>1, <1>2, <1>4, <2>2, <2>3, <2>4, <2>5 DEF FenceCountedAt
<1> QED
  BY <1>5, <1>6

\* The fence that is released has no reference left.
LEMMA ReleaseCounted ==
  ASSUME IInv, NEW t \in Threads, Release(t)
  PROVE  FenceCounted'
<1> SUFFICES ASSUME NEW g \in Fences PROVE FenceCountedAt(g)'
  BY DEF FenceCounted, FenceCountedAt, Users, Walkers
<1>1. FenceCountedAt(g) /\ TypeOK
  BY FenceCountAt DEF IInv
<1>2. /\ pc[t] = "release" /\ fence[t] \in Fences /\ fd' = fd /\ NoFence \notin Fences
      /\ temp' = temp /\ frefs' = frefs /\ fstate' = [fstate EXCEPT ![fence[t]] = "none"]
  BY AtFence, ActorAssumption DEF Release, Free
<1>3. /\ \A u \in Threads \ {t} : pc'[u] = pc[u] /\ fence'[u] = fence[u]
      /\ pc'[t] # "release" /\ fence'[t] = NoFence
  BY <1>1 DEF Release, AfterFence, Return, Goto, TypeOK, Actors
<1>4. Walkers(g)' = Walkers(g) /\ Users(g)' = Users(g)
  BY <1>2, <1>3 DEF Walkers, Users, HasFence
<1>5. CASE g # fence[t]
  <2>1. fstate'[g] = fstate[g]
    BY <1>1, <1>2, <1>5 DEF TypeOK
  <2> QED
    BY <1>1, <1>2, <1>3, <1>4, <1>5, <2>1, CountFrame
<1>6. CASE g = fence[t]
  <2>1. fstate'[g] = "none"
    BY <1>1, <1>2, <1>6 DEF TypeOK
  <2> QED
    BY <1>1, <1>2, <1>4, <2>1 DEF FenceCountedAt
<1> QED
  BY <1>5, <1>6

\* Every step keeps the reference count of a fence equal to its holders.
LEMMA NextFenceCounted == IInv /\ [Next]_vars => FenceCounted'
<1> SUFFICES ASSUME IInv, [Next]_vars PROVE FenceCounted'
  OBVIOUS
<1> USE DEF Goto, timelineVars, fenceVars, objVars, actorVars
<1>0. TypeOK /\ TypeOK' /\ ThreadStages
  BY NextTypeOK DEF IInv
\* A step that moves one actor and no reference.
<1>1. ASSUME NEW a \in Actors, NEW p, pc' = [pc EXCEPT ![a] = p],
             a \in Threads => pc[a] # "release" /\ p # "release",
             UNCHANGED <<fence, fd, temp, frefs>>,
             \A f \in Fences : fstate[f] = "none" => fstate'[f] = "none"
      PROVE  FenceCounted'
  <2>1. \A t \in Threads : pc'[t] = "release" <=> pc[t] = "release"
    BY <1>0, <1>1 DEF TypeOK, Actors
  <2> QED
    BY <1>1, <2>1, CountMove
<1>2. ASSUME pc' = pc, UNCHANGED <<fence, fd, temp, frefs>>,
             \A f \in Fences : fstate[f] = "none" => fstate'[f] = "none"
      PROVE  FenceCounted'
  BY <1>2, CountMove
<1>3. ASSUME NEW f, Signal(f)
      PROVE  \A g \in Fences : fstate[g] = "none" => fstate'[g] = "none"
  BY <1>0, <1>3 DEF Signal, TypeOK
<1>4. ASSUME NEW a \in Actors, NEW s \in Seqnos, SignalStart(a, s) PROVE FenceCounted'
  <2>1. pc[a] \in {"found", "retire"} /\ temp[a] = {}
    BY <1>4 DEF SignalStart, Signaller, IInv, WalkStages, WalkStage
  <2>2. CASE s < value
    BY <1>1, <1>4, <2>1, <2>2 DEF SignalStart
  <2>3. CASE ~(s < value)
    <3> DEFINE S == Held({f \in fences : fseq[f] <= s})
    <3>1. S \in SUBSET Held(Fences)
      BY <1>0 DEF Held, TypeOK
    <3>2. /\ TakeAll(S) /\ temp' = [temp EXCEPT ![a] = S] /\ pc' = [pc EXCEPT ![a] = "walk"]
          /\ UNCHANGED <<fence, fd, fstate>>
      BY <1>4, <2>3 DEF SignalStart
    <3>3. \A t \in Threads : pc'[t] = "release" <=> pc[t] = "release"
      BY <1>0, <2>1, <3>2 DEF TypeOK, Actors
    <3> HIDE DEF S
    <3> QED
      BY <1>0, <2>1, <3>1, <3>2, <3>3, TakeCounted
  <2> QED
    BY <2>2, <2>3
<1>5. ASSUME NEW t \in Threads, DestroyCollect(t) PROVE FenceCounted'
  <2>1. t \in Actors /\ pc[t] = "collect"
    BY <1>5 DEF DestroyCollect, Actors
  <2>2. temp[t] = {}
    BY <2>1 DEF IInv, WalkStages, WalkStage
  <2> DEFINE S == Held(fences)
  <2>3. S \in SUBSET Held(Fences)
    BY <1>0 DEF Held, TypeOK
  <2>4. /\ TakeAll(S) /\ temp' = [temp EXCEPT ![t] = S]
        /\ pc' = [pc EXCEPT ![t] = "destroylock"]
        /\ UNCHANGED <<fence, fd, fstate>>
    BY <1>5 DEF DestroyCollect
  <2>5. \A u \in Threads : pc'[u] = "release" <=> pc[u] = "release"
    BY <1>0, <2>1, <2>4 DEF TypeOK, Actors
  <2> HIDE DEF S
  <2> QED
    BY <1>0, <2>1, <2>2, <2>3, <2>4, <2>5, TakeCounted
<1>6. ASSUME NEW a \in Actors, WalkEnd(a) PROVE FenceCounted'
  BY <1>1, <1>6 DEF WalkEnd
<1>7. ASSUME NEW t \in Threads, PutTimeline(t) PROVE FenceCounted'
  <2>1. fence' = fence
    BY <1>7, PutKeepsFence
  <2>2. \E p \in {"enable", "idle"} : pc' = [pc EXCEPT ![t] = p]
    BY <1>7 DEF PutTimeline, Return
  <2> QED
    BY <1>1, <1>7, <2>1, <2>2 DEF PutTimeline, Actors
<1>8. ASSUME NEW t \in Threads, EnableSignaling(t) PROVE FenceCounted'
  <2>1. \A g \in Fences : fstate[g] = "none" => fstate'[g] = "none"
    BY <1>3, <1>8 DEF EnableSignaling
  <2> QED
    BY <1>1, <1>8, <2>1 DEF EnableSignaling, Actors
<1>9. ASSUME NEW t \in Threads,
             \/ Wake(t) \/ TimeOut(t) \/ AllocFails(t) \/ Query(t) \/ DestroyLock(t)
             \/ DestroyName(t) \/ \E i \in IoctlNames : Lookup(t, i)
      PROVE  FenceCounted'
  BY <1>1, <1>9
  DEF Wake, TimeOut, AllocFails, Query, DestroyLock, DestroyName, Lookup, Actors
<1>10. ASSUME NEW o \in Objs, Pop(o) \/ Fire(o) \/ ObjEnd(o) \/ Retire(o)
       PROVE  FenceCounted'
  <2>1. o \in Actors /\ o \notin Threads
    BY ActorAssumption DEF Actors
  <2>2. pc' = pc \/ \E p : pc' = [pc EXCEPT ![o] = p]
    BY <1>10 DEF Pop, Fire, PutSig, ObjEnd, Retire
  <2>3. UNCHANGED <<fence, fd, temp, fstate, frefs>>
    BY <1>10 DEF Pop, Fire, ObjEnd, Retire
  <2> QED
    BY <1>1, <1>2, <2>1, <2>2, <2>3
<1>11. ASSUME \/ \E s \in Initials : Create(s)
              \/ \E o \in Objs : \E s \in Targets[o] : AddTimeline(o, s)
              \/ UNCHANGED vars
       PROVE  FenceCounted'
  BY <1>2, <1>11 DEF Create, AddTimeline, vars
<1>12. ASSUME NEW f \in Fences, Poll(f) PROVE FenceCounted'
  BY <1>2, <1>3, <1>12 DEF Poll
<1>13. ASSUME NEW t \in Threads, ThreadProgress(t) PROVE FenceCounted'
  BY <1>4, <1>5, <1>6, <1>7, <1>8, <1>9, <1>13, AllocCounted, InstallCounted, PutCounted,
     ReleaseCounted, WalkCounted
  DEF ThreadProgress, Progress, Actors
<1>14. ASSUME NEW o \in Objs, ObjProgress(o) PROVE FenceCounted'
  BY <1>4, <1>6, <1>10, <1>14, WalkCounted DEF ObjProgress, Progress, Actors
<1>15. CASE Request
  BY <1>9, <1>11, <1>12, <1>15, CloseCounted DEF Request
<1> QED
  BY <1>11, <1>13, <1>14, <1>15 DEF Next

-----------------------------------------------------------------------------
(* The references on the timeline                                          *)

\* How many more a counted set has when one element's membership changes.
LEMMA CardMove ==
  ASSUME NEW S, IsFiniteSet(S), NEW T, NEW x, S \ {x} = T \ {x}
  PROVE  /\ x \in S <=> x \in T => Cardinality(T) = Cardinality(S)
         /\ x \in T /\ x \notin S => Cardinality(T) = Cardinality(S) + 1
         /\ x \notin T /\ x \in S => Cardinality(T) = Cardinality(S) - 1
<1>1. CASE x \in S <=> x \in T
  <2>1. S = T
    BY <1>1
  <2> QED
    BY <1>1, <2>1
<1>2. CASE x \in T /\ x \notin S
  <2>1. T = S \cup {x}
    BY <1>2
  <2> QED
    BY <1>2, <2>1, CardAdd
<1>3. CASE x \notin T /\ x \in S
  <2>1. T = S \ {x}
    BY <1>3
  <2> QED
    BY <1>3, <2>1, CardRemove
<1> QED
  BY <1>1, <1>2, <1>3

\* One thread moves.
LEMMA HoldersMove ==
  ASSUME NEW t \in Threads,
         \A u \in Threads \ {t} : pc'[u] = pc[u] /\ ioctl'[u] = ioctl[u]
  PROVE  /\ Holds(t)' <=> Holds(t) => Cardinality(Holders') = Cardinality(Holders)
         /\ Holds(t)' /\ ~Holds(t) => Cardinality(Holders') = Cardinality(Holders) + 1
         /\ ~Holds(t)' /\ Holds(t) => Cardinality(Holders') = Cardinality(Holders) - 1
<1>1. Holders \ {t} = Holders' \ {t}
  BY DEF Holders, Holds
<1>2. (t \in Holders <=> Holds(t)) /\ (t \in Holders' <=> Holds(t)')
  BY DEF Holders
<1> QED
  BY <1>1, <1>2, CountedFinite, CardMove

\* One fence is allocated or freed.
LEMMA LiveFencesMove ==
  ASSUME NEW f \in Fences, \A g \in Fences \ {f} : fstate'[g] = fstate[g]
  PROVE  /\ fstate'[f] = "none" <=> fstate[f] = "none" =>
              Cardinality(LiveFences') = Cardinality(LiveFences)
         /\ fstate'[f] # "none" /\ fstate[f] = "none" =>
              Cardinality(LiveFences') = Cardinality(LiveFences) + 1
         /\ fstate'[f] = "none" /\ fstate[f] # "none" =>
              Cardinality(LiveFences') = Cardinality(LiveFences) - 1
<1>1. LiveFences \ {f} = LiveFences' \ {f}
  BY DEF LiveFences
<1>2. (f \in LiveFences <=> fstate[f] # "none") /\ (f \in LiveFences' <=> fstate'[f] # "none")
  BY DEF LiveFences
<1> QED
  BY <1>1, <1>2, CountedFinite, CardMove

\* One timeline object is allocated or freed.
LEMMA LiveObjsMove ==
  ASSUME NEW o \in Objs, \A q \in Objs \ {o} : ostate'[q] = ostate[q]
  PROVE  /\ ostate'[o] = "none" <=> ostate[o] = "none" =>
              Cardinality(LiveObjs') = Cardinality(LiveObjs)
         /\ ostate'[o] # "none" /\ ostate[o] = "none" =>
              Cardinality(LiveObjs') = Cardinality(LiveObjs) + 1
         /\ ostate'[o] = "none" /\ ostate[o] # "none" =>
              Cardinality(LiveObjs') = Cardinality(LiveObjs) - 1
<1>1. LiveObjs \ {o} = LiveObjs' \ {o}
  BY DEF LiveObjs
<1>2. (o \in LiveObjs <=> ostate[o] # "none") /\ (o \in LiveObjs' <=> ostate'[o] # "none")
  BY DEF LiveObjs
<1> QED
  BY <1>1, <1>2, CountedFinite, CardMove

\* The sum after a step.
LEMMA SumMoves ==
  ASSUME IInv, NEW n \in Int, NEW i \in Int, NEW j \in Int, NEW k \in Int,
         ref' = ref + n + i + j + k,
         (IF named' THEN 1 ELSE 0) = (IF named THEN 1 ELSE 0) + n,
         Cardinality(LiveFences') = Cardinality(LiveFences) + i,
         Cardinality(LiveObjs') = Cardinality(LiveObjs) + j,
         Cardinality(Holders') = Cardinality(Holders) + k
  PROVE  TimelineCounted'
<1>1. ref = (IF named THEN 1 ELSE 0) + Cardinality(LiveFences)
            + Cardinality(LiveObjs) + Cardinality(Holders)
  BY TimelineCount DEF IInv
<1>2. ref' = (IF named' THEN 1 ELSE 0) + Cardinality(LiveFences')
             + Cardinality(LiveObjs') + Cardinality(Holders')
  BY <1>1, CardinalTypes
<1> QED
  BY <1>2 DEF TimelineCounted, LiveFences, LiveObjs, Holders

\* Every step keeps the timeline's count equal to its holders.
LEMMA NextTimelineCounted == IInv /\ [Next]_vars => TimelineCounted'
<1> SUFFICES ASSUME IInv, [Next]_vars PROVE TimelineCounted'
  OBVIOUS
<1> USE DEF Goto, timelineVars, fenceVars, objVars, actorVars
<1>0. /\ TypeOK /\ ThreadStages /\ ref \in Nat
      /\ \A t \in Threads : t \in Actors /\ t \notin Objs
  BY ActorAssumption DEF IInv, TypeOK, Actors
\* Which parts of the sum a step leaves alone.
<1>1. /\ fstate' = fstate => Cardinality(LiveFences') = Cardinality(LiveFences) + 0
      /\ ostate' = ostate => Cardinality(LiveObjs') = Cardinality(LiveObjs) + 0
      /\ ioctl' = ioctl /\ (\A t \in Threads : pc'[t] = pc[t]) =>
           Cardinality(Holders') = Cardinality(Holders) + 0
  <2>1. fstate' = fstate => LiveFences' = LiveFences
    BY DEF LiveFences
  <2>2. ostate' = ostate => LiveObjs' = LiveObjs
    BY DEF LiveObjs
  <2>3. ioctl' = ioctl /\ (\A t \in Threads : pc'[t] = pc[t]) => Holders' = Holders
    BY DEF Holders, Holds
  <2> QED
    BY <2>1, <2>2, <2>3, CardinalTypes
<1>2. ASSUME NEW f \in Fences,
             \A g \in Fences : g # f => fstate'[g] = fstate[g],
             fstate'[f] = "none" <=> fstate[f] = "none"
      PROVE  Cardinality(LiveFences') = Cardinality(LiveFences) + 0
  BY <1>2, LiveFencesMove, CardinalTypes
\* The moves of one thread.
<1>4. ASSUME NEW t \in Threads, Holds(t)' <=> Holds(t),
             \A u \in Threads \ {t} : pc'[u] = pc[u] /\ ioctl'[u] = ioctl[u]
      PROVE  Cardinality(Holders') = Cardinality(Holders) + 0
  BY <1>4, HoldersMove, CardinalTypes
<1>5. ASSUME NEW s \in Initials, Create(s) PROVE TimelineCounted'
  <2>1. ~named /\ named' /\ ref' = ref + 1 + 0 + 0 + 0
    BY <1>0, <1>5, AtCreate DEF Create
  <2> QED
    BY <1>1, <1>5, <2>1, SumMoves DEF Create
<1>6. ASSUME NEW t \in Threads, NEW i \in IoctlNames, Lookup(t, i) PROVE TimelineCounted'
  <2>1. ~Holds(t) /\ i \in {"wait", "fence_get", "signal", "query"}
    BY <1>0, <1>6 DEF Lookup, Holds, ThreadStages, IoctlNames
  <2>2. Cardinality(Holders') = Cardinality(Holders) + 1
    <3>1. /\ pc'[t] = "found" /\ ioctl'[t] = i
          /\ \A u \in Threads \ {t} : pc'[u] = pc[u] /\ ioctl'[u] = ioctl[u]
      BY <1>0, <1>6 DEF Lookup, TypeOK
    <3>2. Holds(t)'
      BY <2>1, <3>1 DEF Holds
    <3> QED
      BY <2>1, <3>1, <3>2, HoldersMove
  <2>3. ref' = ref + 0 + 0 + 0 + 1
    BY <1>0, <1>6 DEF Lookup
  <2> QED
    BY <1>1, <1>6, <2>2, <2>3, SumMoves DEF Lookup
<1>7. ASSUME NEW t \in Threads, DestroyName(t) PROVE TimelineCounted'
  <2>1. ~Holds(t) /\ named /\ ~named'
    BY <1>0, <1>7 DEF DestroyName, Holds, ThreadStages
  <2>2. Cardinality(Holders') = Cardinality(Holders) + 1
    <3>1. /\ ioctl'[t] = "destroy"
          /\ \A u \in Threads \ {t} : pc'[u] = pc[u] /\ ioctl'[u] = ioctl[u]
      BY <1>0, <1>7 DEF DestroyName, TypeOK
    <3>2. Holds(t)'
      BY <3>1 DEF Holds
    <3> QED
      BY <2>1, <3>1, <3>2, HoldersMove
  <2>3. ref' = ref + (-1) + 0 + 0 + 1
    BY <1>0, <1>7 DEF DestroyName
  <2> QED
    BY <1>1, <1>7, <2>1, <2>2, <2>3, SumMoves DEF DestroyName
<1>8. ASSUME NEW t \in Threads, PutTimeline(t) PROVE TimelineCounted'
  <2>1. Holds(t)
    BY <1>8, AtPut DEF PutTimeline
  <2>2. /\ \A u \in Threads \ {t} : pc'[u] = pc[u] /\ ioctl'[u] = ioctl[u]
        /\ (pc'[t] = "enable" /\ ioctl'[t] = "wait") \/ ioctl'[t] = "none"
    <3>1. CASE ioctl[t] = "wait"
      BY <1>0, <1>8, <3>1 DEF PutTimeline, TypeOK
    <3>2. CASE ioctl[t] # "wait"
      BY <1>0, <1>8, <3>2 DEF PutTimeline, Return, TypeOK
    <3> QED
      BY <3>1, <3>2
  <2>3. ~Holds(t)'
    BY <2>2 DEF Holds
  <2>4. Cardinality(Holders') = Cardinality(Holders) + (-1)
    BY <2>1, <2>2, <2>3, HoldersMove, CardinalTypes
  <2>5. ref' = ref + 0 + 0 + 0 + (-1)
    BY <1>0, <1>8 DEF PutTimeline
  <2> QED
    BY <1>1, <1>8, <2>4, <2>5, SumMoves DEF PutTimeline
<1>9. ASSUME NEW t \in Threads, NEW f \in Fences, NEW s \in Seqnos, AllocFence(t, f, s)
      PROVE  TimelineCounted'
  <2>1. Cardinality(LiveFences') = Cardinality(LiveFences) + 1
    <3>1. /\ fstate[f] = "none" /\ fstate'[f] # "none"
          /\ \A g \in Fences \ {f} : fstate'[g] = fstate[g]
      BY <1>0, <1>9 DEF AllocFence, TypeOK
    <3> QED
      BY <3>1, LiveFencesMove
  <2>2. Cardinality(Holders') = Cardinality(Holders) + 0
    <3>1. /\ ioctl' = ioctl /\ pc[t] = "found" /\ ioctl[t] \in {"wait", "fence_get"}
          /\ pc'[t] = IF ioctl[t] = "wait" THEN "put" ELSE "install"
          /\ \A u \in Threads \ {t} : pc'[u] = pc[u]
      BY <1>0, <1>9 DEF AllocFence, TypeOK
    <3>2. Holds(t)' <=> Holds(t)
      BY <3>1 DEF Holds
    <3> QED
      BY <1>4, <3>1, <3>2
  <2>3. ref' = ref + 0 + 1 + 0 + 0
    BY <1>0, <1>9 DEF AllocFence
  <2> QED
    BY <1>1, <1>9, <2>1, <2>2, <2>3, SumMoves DEF AllocFence
<1>10. ASSUME NEW f \in Fences, Free(f), fstate[f] # "none", UNCHANGED <<named, ostate>>,
              Cardinality(Holders') = Cardinality(Holders) + 0
       PROVE  TimelineCounted'
  <2>1. Cardinality(LiveFences') = Cardinality(LiveFences) + (-1)
    <3>1. fstate'[f] = "none" /\ \A g \in Fences \ {f} : fstate'[g] = fstate[g]
      BY <1>0, <1>10 DEF Free, TypeOK
    <3> QED
      BY <1>10, <3>1, LiveFencesMove, CardinalTypes
  <2>2. ref' = ref + 0 + (-1) + 0 + 0
    BY <1>0, <1>10 DEF Free
  <2> QED
    BY <1>1, <1>10, <2>1, <2>2, SumMoves
<1>11. ASSUME NEW t \in Threads, PutFence(t) \/ Release(t)
       PROVE  Cardinality(Holders') = Cardinality(Holders) + 0
  <2>1. pc[t] \in {"putfence", "release"} /\ ioctl[t] \in {"wait", "fence_get", "none"}
    BY <1>0, <1>11 DEF PutFence, Release, ThreadStages
  <2>2. \/ pc' = [pc EXCEPT ![t] = "release"] /\ ioctl' = ioctl
        \/ AfterFence(t)
    BY <1>11 DEF PutFence, Release
  <2>3. /\ \A u \in Threads \ {t} : pc'[u] = pc[u] /\ ioctl'[u] = ioctl[u]
        /\ \/ pc'[t] = "release" /\ ioctl'[t] = ioctl[t]
           \/ ioctl'[t] = "fence_get" /\ ioctl[t] = "fence_get"
           \/ ioctl'[t] = "none" /\ ioctl[t] # "fence_get"
    <3>1. CASE pc' = [pc EXCEPT ![t] = "release"] /\ ioctl' = ioctl
      BY <1>0, <3>1 DEF TypeOK
    <3>2. CASE AfterFence(t)
      BY <1>0, <3>2 DEF AfterFence, Return, TypeOK
    <3> QED
      BY <2>2, <3>1, <3>2
  <2>4. Holds(t)' <=> Holds(t)
    BY <2>1, <2>3 DEF Holds
  <2> QED
    BY <1>4, <2>3, <2>4
<1>12. ASSUME NEW t \in Threads, Release(t) PROVE TimelineCounted'
  <2>1. fence[t] \in Fences /\ fstate[fence[t]] # "none"
    BY <1>12, AtFence DEF Release
  <2> QED
    BY <1>10, <1>11, <1>12, <2>1 DEF Release
\* The steps that leave ref alone.
<1>13. ASSUME UNCHANGED <<ref, named, ostate>>,
              Cardinality(LiveFences') = Cardinality(LiveFences) + 0,
              Cardinality(Holders') = Cardinality(Holders) + 0
       PROVE  TimelineCounted'
  <2>1. ref' = ref + 0 + 0 + 0 + 0
    BY <1>0, <1>13
  <2> QED
    BY <1>1, <1>13, <2>1, SumMoves
<1>14. ASSUME NEW a \in Actors, NEW f \in Fences, WalkFence(a, f) \/ DestroyFence(a, f)
       PROVE  TimelineCounted'
  <2>1. Cardinality(Holders') = Cardinality(Holders) + 0
    BY <1>1, <1>14 DEF WalkFence, DestroyFence
  <2>2. fstate[f] # "none"
    BY <1>14, OnStackList DEF WalkFence, DestroyFence
  <2>3. CASE Free(f)
    BY <1>10, <1>14, <2>1, <2>2, <2>3 DEF WalkFence, DestroyFence
  <2>4. CASE /\ UNCHANGED ref
             /\ Signal(f) \/ fstate' = [fstate EXCEPT ![f] = "error"]
    <3>1. /\ \A g \in Fences : g # f => fstate'[g] = fstate[g]
          /\ fstate'[f] = "none" <=> fstate[f] = "none"
      BY <1>0, <2>2, <2>4 DEF Signal, TypeOK
    <3> QED
      BY <1>2, <1>13, <1>14, <2>1, <2>4, <3>1 DEF WalkFence, DestroyFence
  <2> QED
    BY <1>14, <2>3, <2>4 DEF WalkFence, DestroyFence
<1>15. ASSUME NEW a \in Actors,
              WalkEnd(a) \/ \E s \in Seqnos : SignalStart(a, s)
       PROVE  TimelineCounted'
  <2>1. Cardinality(Holders') = Cardinality(Holders) + 0
    <3>1. PICK p : pc' = [pc EXCEPT ![a] = p] /\ ioctl' = ioctl
      BY <1>15 DEF WalkEnd, SignalStart
    <3>2. CASE a \in Threads
      <4>1. ioctl[a] \in {"signal", "destroy"}
        BY <1>0, <1>15, <3>2 DEF WalkEnd, SignalStart, Signaller, ThreadStages
      <4>2. (Holds(a)' <=> Holds(a)) /\ \A u \in Threads \ {a} : pc'[u] = pc[u]
        BY <1>0, <3>1, <4>1 DEF Holds, TypeOK
      <4> QED
        BY <1>4, <3>1, <3>2, <4>2
    <3>3. CASE a \notin Threads
      BY <1>0, <1>1, <3>1, <3>3 DEF TypeOK
    <3> QED
      BY <3>2, <3>3
  <2> QED
    BY <1>1, <1>13, <1>15, <2>1 DEF WalkEnd, SignalStart
<1>16. ASSUME NEW t \in Threads, PutFence(t) PROVE TimelineCounted'
  BY <1>1, <1>11, <1>13, <1>16 DEF PutFence
<1>17. ASSUME NEW t \in Threads, EnableSignaling(t) PROVE TimelineCounted'
  <2>1. fence[t] \in Fences
    BY <1>17, AtFence DEF EnableSignaling
  <2>2. /\ \A g \in Fences : g # fence[t] => fstate'[g] = fstate[g]
        /\ fstate'[fence[t]] = "none" <=> fstate[fence[t]] = "none"
    BY <1>0, <1>17, <2>1 DEF EnableSignaling, Signal, TypeOK
  <2>3. Cardinality(Holders') = Cardinality(Holders) + 0
    <3>1. /\ pc[t] = "enable" /\ pc'[t] = "sleep" /\ ioctl' = ioctl
          /\ \A u \in Threads \ {t} : pc'[u] = pc[u]
      BY <1>0, <1>17 DEF EnableSignaling, TypeOK
    <3>2. Holds(t)' <=> Holds(t)
      BY <3>1 DEF Holds
    <3> QED
      BY <1>4, <3>1, <3>2
  <2> QED
    BY <1>2, <1>13, <1>17, <2>1, <2>2, <2>3 DEF EnableSignaling
<1>18. ASSUME NEW f \in Fences, Poll(f) PROVE TimelineCounted'
  <2>1. /\ \A g \in Fences : g # f => fstate'[g] = fstate[g]
        /\ fstate'[f] = "none" <=> fstate[f] = "none"
    BY <1>0, <1>18 DEF Poll, Signal, TypeOK
  <2> QED
    BY <1>1, <1>2, <1>13, <1>18, <2>1 DEF Poll
<1>19. ASSUME NEW t \in Threads,
              \/ Install(t) \/ Wake(t) \/ TimeOut(t) \/ AllocFails(t) \/ Query(t)
              \/ DestroyCollect(t) \/ DestroyLock(t) \/ \E f \in Fences : Close(t, f)
       PROVE  TimelineCounted'
  <2>1. CASE AllocFails(t)
    <3>1. Cardinality(Holders') = Cardinality(Holders) + 0
      <4>1. /\ pc[t] = "found" /\ ioctl[t] \in {"wait", "fence_get"} /\ ioctl'[t] = "failed"
            /\ \A u \in Threads \ {t} : pc'[u] = pc[u] /\ ioctl'[u] = ioctl[u]
        BY <1>0, <2>1 DEF AllocFails, TypeOK
      <4>2. Holds(t)' <=> Holds(t)
        BY <4>1 DEF Holds
      <4> QED
        BY <1>4, <4>1, <4>2
    <3> QED
      BY <1>1, <1>13, <2>1, <3>1 DEF AllocFails
  <2>2. CASE ~AllocFails(t)
    <3>1. /\ \E p \in {"putfence", "put", "destroylock", "destroywalk"} :
               /\ pc' = [pc EXCEPT ![t] = p]
               /\ p = "put" => ioctl[t] # "wait"
          /\ pc[t] \notin {"found", "put"} \/ ioctl[t] # "wait"
          /\ UNCHANGED <<ref, named, ostate, fstate, ioctl>>
      BY <1>0, <1>19, <2>2
      DEF Install, Wake, TimeOut, Query, DestroyCollect, DestroyLock, Close, ThreadStages
    <3>2. Cardinality(Holders') = Cardinality(Holders) + 0
      <4>1. /\ \A u \in Threads \ {t} : pc'[u] = pc[u]
            /\ pc'[t] \notin {"found", "put"} \/ ioctl[t] # "wait"
        BY <1>0, <3>1 DEF TypeOK
      <4>2. Holds(t)' <=> Holds(t)
        BY <3>1, <4>1 DEF Holds
      <4> QED
        BY <1>4, <3>1, <4>1, <4>2
    <3> QED
      BY <1>1, <1>13, <3>1, <3>2
  <2> QED
    BY <2>1, <2>2
<1>20. ASSUME NEW o \in Objs, NEW s \in Targets[o], AddTimeline(o, s) PROVE TimelineCounted'
  <2>1. Cardinality(LiveObjs') = Cardinality(LiveObjs) + 1
    <3>1. /\ ostate[o] = "none" /\ ostate'[o] # "none"
          /\ \A q \in Objs \ {o} : ostate'[q] = ostate[q]
      BY <1>0, <1>20 DEF AddTimeline, TypeOK
    <3> QED
      BY <3>1, LiveObjsMove
  <2>2. ref' = ref + 0 + 0 + 1 + 0
    BY <1>0, <1>20 DEF AddTimeline
  <2> QED
    BY <1>1, <1>20, <2>1, <2>2, SumMoves DEF AddTimeline
<1>21. ASSUME NEW o \in Objs, Pop(o) \/ Fire(o) \/ Retire(o) \/ ObjEnd(o) PROVE TimelineCounted'
  <2>1. Cardinality(Holders') = Cardinality(Holders) + 0
    <3>1. (pc' = pc \/ \E p : pc' = [pc EXCEPT ![o] = p]) /\ ioctl' = ioctl
      BY <1>21 DEF Pop, Fire, Retire, ObjEnd, PutSig
    <3>2. \A t \in Threads : pc'[t] = pc[t]
      BY <1>0, <3>1 DEF TypeOK
    <3> QED
      BY <1>1, <3>1, <3>2
  <2>2. CASE ObjEnd(o)
    <3>1. Cardinality(LiveObjs') = Cardinality(LiveObjs) + (-1)
      <4>1. /\ ostate[o] # "none" /\ ostate'[o] = "none"
            /\ \A q \in Objs \ {o} : ostate'[q] = ostate[q]
        BY <1>0, <2>2, AtPut DEF ObjEnd, TypeOK
      <4> QED
        BY <4>1, LiveObjsMove, CardinalTypes
    <3>2. ref' = ref + 0 + 0 + (-1) + 0
      BY <1>0, <2>2 DEF ObjEnd
    <3> QED
      BY <1>1, <2>1, <2>2, <3>1, <3>2, SumMoves DEF ObjEnd
  <2>3. CASE Pop(o) \/ Fire(o) \/ Retire(o)
    <3>1. Cardinality(LiveObjs') = Cardinality(LiveObjs) + 0
      <4>1. /\ ostate'[o] = "none" <=> ostate[o] = "none"
            /\ \A q \in Objs \ {o} : ostate'[q] = ostate[q]
        BY <1>0, <2>3 DEF Pop, Fire, Retire, TypeOK
      <4> QED
        BY <4>1, LiveObjsMove, CardinalTypes
    <3>2. ref' = ref + 0 + 0 + 0 + 0 /\ named' = named /\ fstate' = fstate
      BY <1>0, <2>3 DEF Pop, Fire, Retire
    <3> QED
      BY <1>1, <2>1, <3>1, <3>2, SumMoves
  <2> QED
    BY <1>21, <2>2, <2>3
<1>22. CASE UNCHANGED vars
  BY <1>1, <1>13, <1>22 DEF vars
<1>23. ASSUME NEW t \in Threads, ThreadProgress(t) PROVE TimelineCounted'
  BY <1>0, <1>8, <1>9, <1>12, <1>14, <1>15, <1>16, <1>17, <1>19, <1>23
  DEF ThreadProgress, Progress
<1>24. ASSUME NEW o \in Objs, ObjProgress(o) PROVE TimelineCounted'
  BY <1>14, <1>15, <1>21, <1>24 DEF ObjProgress, Progress, Actors
<1>25. CASE Request
  BY <1>5, <1>6, <1>7, <1>18, <1>19, <1>20, <1>25 DEF Request
<1> QED
  BY <1>22, <1>23, <1>24, <1>25 DEF Next

-----------------------------------------------------------------------------
(* The list of fences                                                      *)

\* Every step keeps the fence list to fences that wait for their number.
LEMMA NextListedFences == IInv /\ [Next]_vars => ListedFences'
<1> SUFFICES ASSUME IInv, [Next]_vars PROVE ListedFences'
  OBVIOUS
<1> USE DEF Goto, Reached, timelineVars, fenceVars, objVars, actorVars
<1>0. /\ TypeOK /\ TypeOK' /\ ListedFences /\ value \in Nat /\ value' \in Nat
      /\ fseq \in [Fences -> Nat] /\ frefs \in [Fences -> Nat] /\ fences \subseteq Fences
  <2>1. TypeOK /\ TypeOK' /\ ListedFences /\ MaxSeqno \in Nat
    BY NextTypeOK, BoundAssumption DEF IInv
  <2> QED
    BY <2>1 DEF TypeOK
\* The steps that change no list, value or sequence number.
<1>1. ASSUME UNCHANGED <<fences, temp, fseq, value>>,
             \A f \in Fences : /\ fstate'[f] = "unsignaled" => fstate[f] = "unsignaled"
                               /\ fstate'[f] = "none" => fstate[f] = "none"
                               /\ frefs[f] = 0 => frefs'[f] = 0
                               /\ frefs'[f] > 0 => frefs[f] > 0
      PROVE  ListedFences'
  BY <1>0, <1>1 DEF ListedFences
<1>2. ASSUME NEW f, Signal(f)
      PROVE  \A g \in Fences : /\ fstate'[g] = "unsignaled" => fstate[g] = "unsignaled"
                               /\ fstate'[g] = "none" => fstate[g] = "none"
  BY <1>0, <1>2 DEF Signal, TypeOK
<1>3. ASSUME NEW s \in Initials, Create(s) PROVE ListedFences'
  <2>1. fences' = {} /\ fstate' = fstate /\ \A f \in Fences : fstate[f] = "none"
    BY <1>3, AtCreate DEF Create
  <2> QED
    BY <2>1 DEF ListedFences
<1>4. ASSUME NEW t \in Threads, NEW f \in Fences, NEW s \in Seqnos, AllocFence(t, f, s)
      PROVE  ListedFences'
  <2>1. /\ temp' = temp /\ value' = value
        /\ fstate'[f] = IF s <= value THEN "signaled" ELSE "unsignaled"
        /\ fences' = IF s <= value THEN fences ELSE fences \cup {f}
        /\ fseq'[f] = s /\ fstate[f] = "none"
        /\ \A g \in Fences \ {f} : fstate'[g] = fstate[g] /\ frefs'[g] = frefs[g]
                                   /\ fseq'[g] = fseq[g]
    BY <1>0, <1>4 DEF AllocFence, TypeOK
  <2>2. f \notin fences
    BY <1>0, <2>1 DEF ListedFences
  <2>3. s \in Nat
    BY DEF Seqnos
  <2>4. ASSUME NEW g \in Fences, fstate'[g] = "unsignaled"
        PROVE  g \in fences' \/ (\E a \in Actors : g \in temp'[a]) \/ frefs'[g] = 0
    BY <1>0, <2>1, <2>4 DEF ListedFences
  <2>5. ASSUME NEW g \in fences'
        PROVE  fstate'[g] # "none" /\ (frefs'[g] > 0 => ~(fseq'[g] <= value'))
    <3>1. CASE g = f
      BY <2>1, <2>2, <2>3, <3>1
    <3>2. CASE g # f
      BY <1>0, <2>1, <3>2 DEF ListedFences
    <3> QED
      BY <3>1, <3>2
  <2> QED
    BY <2>4, <2>5 DEF ListedFences
<1>5. ASSUME NEW t \in Threads, Install(t) PROVE ListedFences'
  <2>1. fence[t] \in Fences /\ frefs[fence[t]] > 0
    BY <1>5, AtFence DEF Install
  <2>2. \A f \in Fences : frefs'[f] = 0 <=> frefs[f] = 0
    BY <1>0, <1>5, <2>1 DEF Install
  <2>3. \A f \in Fences : frefs'[f] \in Nat
    BY <1>0 DEF TypeOK
  <2>4. \A f \in Fences : frefs'[f] > 0 => frefs[f] > 0
    BY <1>0, <2>2, <2>3
  <2> QED
    BY <1>1, <1>5, <2>2, <2>4 DEF Install
<1>6. ASSUME NEW t \in Threads, PutFence(t) PROVE ListedFences'
  <2>1. fence[t] \in Fences /\ frefs[fence[t]] > 0
    BY <1>6, AtFence DEF PutFence
  <2>2. frefs' = [frefs EXCEPT ![fence[t]] = frefs[fence[t]] - 1]
    BY <1>6 DEF PutFence
  <2>3. \A f \in Fences : /\ frefs[f] = 0 => frefs'[f] = 0
                          /\ frefs'[f] > 0 => frefs[f] > 0
    BY <1>0, <2>1, <2>2
  <2> QED
    BY <1>1, <1>6, <2>3 DEF PutFence
\* The steps that free a fence.
<1>7. ASSUME NEW f \in Fences, Free(f), fences' = fences \ {f}, value' = value,
             \A g \in Fences \ {f} : /\ frefs'[g] = frefs[g]
                                     /\ \A a \in Actors : g \in temp[a] => g \in temp'[a]
      PROVE  ListedFences'
  <2>1. /\ fstate'[f] = "none"
        /\ \A g \in Fences \ {f} : fstate'[g] = fstate[g] /\ fseq'[g] = fseq[g]
    BY <1>0, <1>7 DEF Free, TypeOK
  <2>2. ASSUME NEW g \in Fences, fstate'[g] = "unsignaled"
        PROVE  g \in fences' \/ (\E a \in Actors : g \in temp'[a]) \/ frefs'[g] = 0
    <3>1. g # f
      BY <2>1, <2>2
    <3> QED
      BY <1>0, <1>7, <2>1, <2>2, <3>1 DEF ListedFences
  <2>3. ASSUME NEW g \in fences'
        PROVE  fstate'[g] # "none" /\ (frefs'[g] > 0 => ~(fseq'[g] <= value'))
    <3>1. g # f /\ g \in fences
      BY <1>7
    <3> QED
      BY <1>0, <1>7, <2>1, <3>1 DEF ListedFences
  <2> QED
    BY <2>2, <2>3 DEF ListedFences
<1>8. ASSUME NEW t \in Threads, Release(t) PROVE ListedFences'
  <2>1. fence[t] \in Fences
    BY <1>8, AtFence DEF Release
  <2> QED
    BY <1>7, <1>8, <2>1 DEF Release
<1>9. ASSUME NEW a \in Actors, NEW f \in Fences, WalkFence(a, f) \/ DestroyFence(a, f)
      PROVE  ListedFences'
  <2>1. frefs[f] > 0 /\ fstate[f] # "none"
    BY <1>9, OnStackList DEF WalkFence, DestroyFence
  <2>2. /\ frefs' = [frefs EXCEPT ![f] = frefs[f] - 1] /\ value' = value
        /\ temp' = [temp EXCEPT ![a] = temp[a] \ {f}]
    BY <1>9 DEF WalkFence, DestroyFence
  <2>3. \A g \in Fences \ {f} : /\ frefs'[g] = frefs[g]
                                /\ \A b \in Actors : g \in temp[b] => g \in temp'[b]
    BY <1>0, <2>2 DEF TypeOK
  <2>4. CASE Free(f) /\ fences' = fences \ {f}
    BY <1>7, <2>2, <2>3, <2>4
  <2>5. CASE /\ UNCHANGED <<fseq, fences>>
             /\ Signal(f) \/ fstate' = [fstate EXCEPT ![f] = "error"]
    <3>1. /\ fstate'[f] \notin {"none", "unsignaled"}
          /\ \A g \in Fences \ {f} : fstate'[g] = fstate[g]
      BY <1>0, <2>1, <2>5 DEF Signal, TypeOK
    <3>2. ASSUME NEW g \in Fences, fstate'[g] = "unsignaled"
          PROVE  g \in fences' \/ (\E b \in Actors : g \in temp'[b]) \/ frefs'[g] = 0
      <4>1. g # f
        BY <3>1, <3>2
      <4> QED
        BY <1>0, <2>3, <2>5, <3>1, <3>2, <4>1 DEF ListedFences
    <3>3. ASSUME NEW g \in fences'
          PROVE  fstate'[g] # "none" /\ (frefs'[g] > 0 => ~(fseq'[g] <= value'))
      BY <1>0, <2>1, <2>2, <2>3, <2>5, <3>1 DEF ListedFences
    <3> QED
      BY <3>2, <3>3 DEF ListedFences
  <2> QED
    BY <1>9, <2>4, <2>5 DEF WalkFence, DestroyFence
<1>10. ASSUME NEW a \in Actors, NEW s \in Seqnos, SignalStart(a, s) PROVE ListedFences'
  <2>1. CASE s < value
    BY <1>1, <1>10, <2>1 DEF SignalStart
  <2>2. CASE ~(s < value)
    <3> DEFINE S == Held({f \in fences : fseq[f] <= s})
    <3>1. /\ value' = s /\ fences' = fences \ S /\ TakeAll(S)
          /\ temp' = [temp EXCEPT ![a] = S] /\ UNCHANGED <<fstate, fseq>>
      BY <1>10, <2>2 DEF SignalStart
    <3>2. temp[a] = {}
      BY <1>10 DEF SignalStart, Signaller, IInv, WalkStages, WalkStage
    <3>3. S \subseteq Fences /\ \A f \in S : frefs[f] > 0
      BY <1>0 DEF Held
    <3>4. \A f \in fences \ S : frefs[f] > 0 => ~(fseq[f] <= s)
      BY DEF Held
    <3> HIDE DEF S
    <3>5. /\ \A f \in Fences \ S : frefs'[f] = frefs[f]
          /\ temp'[a] = S /\ \A b \in Actors : temp[b] \subseteq temp'[b]
      BY <1>0, <3>1, <3>2 DEF TakeAll, TypeOK
    <3>6. ASSUME NEW g \in Fences, fstate'[g] = "unsignaled"
          PROVE  g \in fences' \/ (\E b \in Actors : g \in temp'[b]) \/ frefs'[g] = 0
      <4>1. g \in fences \/ (\E b \in Actors : g \in temp[b]) \/ frefs[g] = 0
        BY <1>0, <3>1, <3>6 DEF ListedFences
      <4> QED
        BY <3>1, <3>5, <4>1
    <3>7. ASSUME NEW g \in fences'
          PROVE  fstate'[g] # "none" /\ (frefs'[g] > 0 => ~(fseq'[g] <= value'))
      BY <1>0, <3>1, <3>4, <3>5 DEF ListedFences
    <3> QED
      BY <3>6, <3>7 DEF ListedFences
  <2> QED
    BY <2>1, <2>2
<1>11. ASSUME NEW t \in Threads, DestroyCollect(t) PROVE ListedFences'
  <2> DEFINE S == Held(fences)
  <2>1. /\ fences' = {} /\ TakeAll(S) /\ t \in Actors
        /\ temp' = [temp EXCEPT ![t] = S] /\ fstate' = fstate /\ pc[t] = "collect"
    BY <1>11 DEF DestroyCollect, Actors
  <2>2. temp[t] = {}
    BY <2>1 DEF IInv, WalkStages, WalkStage
  <2>3. \A f \in fences \ S : frefs[f] = 0
    BY <1>0 DEF Held
  <2> HIDE DEF S
  <2>4. /\ \A f \in Fences \ S : frefs'[f] = frefs[f]
        /\ temp'[t] = S /\ \A b \in Actors : temp[b] \subseteq temp'[b]
    BY <1>0, <2>1, <2>2 DEF TakeAll, TypeOK
  <2>5. ASSUME NEW g \in Fences, fstate'[g] = "unsignaled"
        PROVE  g \in fences' \/ (\E b \in Actors : g \in temp'[b]) \/ frefs'[g] = 0
    <3>1. g \in fences \/ (\E b \in Actors : g \in temp[b]) \/ frefs[g] = 0
      BY <1>0, <2>1, <2>5 DEF ListedFences
    <3> QED
      BY <2>1, <2>3, <2>4, <3>1
  <2> QED
    BY <2>1, <2>5 DEF ListedFences
<1>12. ASSUME NEW t \in Threads, EnableSignaling(t) PROVE ListedFences'
  <2>1. \A g \in Fences : /\ fstate'[g] = "unsignaled" => fstate[g] = "unsignaled"
                          /\ fstate'[g] = "none" => fstate[g] = "none"
    BY <1>2, <1>12 DEF EnableSignaling
  <2> QED
    BY <1>1, <1>12, <2>1 DEF EnableSignaling
<1>13. ASSUME NEW f \in Fences, Poll(f) PROVE ListedFences'
  BY <1>1, <1>2, <1>13 DEF Poll
<1>14. ASSUME NEW t \in Threads,
              \/ Wake(t) \/ TimeOut(t) \/ AllocFails(t) \/ Query(t) \/ DestroyLock(t)
              \/ DestroyName(t) \/ PutTimeline(t)
              \/ (\E i \in IoctlNames : Lookup(t, i)) \/ (\E f \in Fences : Close(t, f))
       PROVE  ListedFences'
  BY <1>1, <1>14 DEF Wake, TimeOut, AllocFails, Query, DestroyLock, DestroyName,
     PutTimeline, Lookup, Close
<1>15. ASSUME NEW a \in Actors, WalkEnd(a) PROVE ListedFences'
  BY <1>1, <1>15 DEF WalkEnd
<1>16. ASSUME NEW o \in Objs,
              \/ Pop(o) \/ Fire(o) \/ Retire(o) \/ ObjEnd(o)
              \/ \E s \in Targets[o] : AddTimeline(o, s)
       PROVE  ListedFences'
  BY <1>1, <1>16 DEF Pop, Fire, Retire, ObjEnd, AddTimeline
<1>17. CASE UNCHANGED vars
  BY <1>1, <1>17 DEF vars
<1>18. ASSUME NEW t \in Threads, ThreadProgress(t) PROVE ListedFences'
  BY <1>4, <1>5, <1>6, <1>8, <1>9, <1>10, <1>11, <1>12, <1>14, <1>15, <1>18
  DEF ThreadProgress, Progress, Actors
<1>19. ASSUME NEW o \in Objs, ObjProgress(o) PROVE ListedFences'
  BY <1>9, <1>10, <1>15, <1>16, <1>19 DEF ObjProgress, Progress, Actors
<1>20. CASE Request
  BY <1>3, <1>13, <1>14, <1>16, <1>20 DEF Request
<1> QED
  BY <1>17, <1>18, <1>19, <1>20 DEF Next

\* Every step signals only fences whose number the value has reached.
LEMMA NextSignalTruthful == IInv /\ [Next]_vars => SignalTruthful'
<1> SUFFICES ASSUME IInv, [Next]_vars, NEW g \in Fences, fstate'[g] = "signaled"
             PROVE  fseq'[g] <= value'
  BY DEF SignalTruthful, Reached
<1> USE DEF Goto, timelineVars, fenceVars, objVars, actorVars
<1>0. /\ TypeOK /\ value \in Nat /\ value' \in Nat
      /\ fseq[g] \in Nat /\ fseq'[g] \in Nat
  <2>1. TypeOK /\ TypeOK' /\ MaxSeqno \in Nat
    BY NextTypeOK, BoundAssumption DEF IInv
  <2> QED
    BY <2>1 DEF TypeOK
\* What is signalled stays reached.
<1>1. ASSUME fstate[g] # "none", fseq[g] <= value, fseq'[g] = fseq[g] PROVE fseq'[g] <= value'
  <2>1. ref > 0
    BY <1>1, Alive DEF IInv
  <2> QED
    BY <1>0, <1>1, <2>1, ValueGrows
<1>2. ASSUME fstate' = fstate, fseq' = fseq PROVE fseq'[g] <= value'
  BY <1>1, <1>2 DEF IInv, SignalTruthful, Reached
<1>3. ASSUME NEW f \in Fences, Free(f) PROVE fseq'[g] <= value'
  BY <1>0, <1>1, <1>3 DEF Free, TypeOK, IInv, SignalTruthful, Reached
<1>4. ASSUME NEW f \in Fences, Signal(f), fseq' = fseq, fstate[f] # "none", Reached(f)
      PROVE  fseq'[g] <= value'
  <2>1. CASE g = f
    BY <1>1, <1>4, <2>1 DEF Reached
  <2>2. CASE g # f
    <3>1. fstate'[g] = fstate[g]
      BY <1>0, <1>4, <2>2 DEF Signal, TypeOK
    <3> QED
      BY <1>1, <1>4, <3>1 DEF IInv, SignalTruthful, Reached
  <2> QED
    BY <2>1, <2>2
<1>5. ASSUME NEW t \in Threads, NEW f \in Fences, NEW s \in Seqnos, AllocFence(t, f, s)
      PROVE  fseq'[g] <= value'
  <2>1. CASE g = f
    BY <1>0, <1>5, <2>1 DEF AllocFence, TypeOK
  <2>2. CASE g # f
    <3>1. fstate'[g] = fstate[g] /\ fseq'[g] = fseq[g]
      BY <1>0, <1>5, <2>2 DEF AllocFence, TypeOK
    <3> QED
      BY <1>1, <3>1 DEF IInv, SignalTruthful, Reached
  <2> QED
    BY <2>1, <2>2
<1>6. ASSUME NEW t \in Threads, EnableSignaling(t) PROVE fseq'[g] <= value'
  <2>1. fence[t] \in Fences /\ fstate[fence[t]] # "none"
    BY <1>6, AtFence DEF EnableSignaling
  <2> QED
    BY <1>2, <1>4, <1>6, <2>1 DEF EnableSignaling
<1>7. ASSUME NEW f \in Fences, Poll(f) PROVE fseq'[g] <= value'
  BY <1>4, <1>7 DEF Poll
<1>8. ASSUME NEW t \in Threads, Release(t) PROVE fseq'[g] <= value'
  <2>1. fence[t] \in Fences
    BY <1>8, AtFence DEF Release
  <2> QED
    BY <1>3, <1>8, <2>1 DEF Release
<1>9. ASSUME NEW a \in Actors, NEW f \in Fences, WalkFence(a, f) PROVE fseq'[g] <= value'
  <2>1. fstate[f] # "none" /\ Reached(f)
    BY <1>9, OnStackList DEF WalkFence, IInv, WalkStages, WalkStage
  <2> QED
    BY <1>3, <1>4, <1>9, <2>1 DEF WalkFence
<1>10. ASSUME NEW t \in Threads, NEW f \in Fences, DestroyFence(t, f) PROVE fseq'[g] <= value'
  <2>1. CASE Free(f)
    BY <1>3, <2>1
  <2>2. CASE fstate' = [fstate EXCEPT ![f] = "error"] /\ fseq' = fseq
    <3>1. fstate'[g] = fstate[g]
      BY <1>0, <2>2 DEF TypeOK
    <3> QED
      BY <1>1, <2>2, <3>1 DEF IInv, SignalTruthful, Reached
  <2> QED
    BY <1>10, <2>1, <2>2 DEF DestroyFence
<1>11. ASSUME NEW t \in Threads, ThreadProgress(t), ~Progress(t) PROVE fseq'[g] <= value'
  BY <1>2, <1>5, <1>6, <1>8, <1>10, <1>11 DEF ThreadProgress, PutTimeline, Install, Wake,
     AllocFails, PutFence, Query, DestroyCollect, DestroyLock
<1>12. ASSUME NEW a \in Actors, Progress(a) PROVE fseq'[g] <= value'
  BY <1>2, <1>9, <1>12 DEF Progress, SignalStart, WalkEnd
<1>13. ASSUME NEW o \in Objs, ObjProgress(o), ~Progress(o) PROVE fseq'[g] <= value'
  BY <1>2, <1>13 DEF ObjProgress, Retire, Pop, Fire, ObjEnd
<1>14. CASE Request
  BY <1>2, <1>7, <1>14 DEF Request, Create, Lookup, Close, DestroyName, TimeOut, AddTimeline
<1>15. CASE UNCHANGED vars
  BY <1>2, <1>15 DEF vars
<1> QED
  BY <1>11, <1>12, <1>13, <1>14, <1>15 DEF Next, Actors

-----------------------------------------------------------------------------
(* The list of events                                                      *)

\* The types of the event list.
LEMMA EventTypes ==
  ASSUME TypeOK
  PROVE  /\ events \in Seq(Objs) /\ Len(events) \in Nat /\ DOMAIN events = 1 .. Len(events)
         /\ value \in Nat /\ oseq \in [Objs -> Nat]
         /\ \A i \in 1 .. Len(events) : events[i] \in Objs /\ oseq[events[i]] \in Nat
<1>1. events \in Seq(Objs) /\ value \in Nat /\ oseq \in [Objs -> Nat]
  BY BoundAssumption DEF TypeOK
<1> QED
  BY <1>1

\* What a signal leaves on the list: the events behind the last it reaches.
LEMMA SignalTrims ==
  ASSUME IInv, NEW a \in Actors, NEW s \in Seqnos, SignalStart(a, s), ~(s < value)
  PROVE  \E k \in 0 .. Len(events) :
           /\ Len(events') = Len(events) - k
           /\ \A i \in 1 .. Len(events) - k : events'[i] = events[i + k]
           /\ \A i \in 1 .. k : oseq[events[i]] <= s
           /\ \A i \in (k + 1) .. Len(events) : oseq[events[i]] > s
<1> DEFINE n == Len(events)
           Late == {i \in DOMAIN events : oseq[events[i]] > s}
           first == CHOOSE i \in Late : \A j \in Late : i <= j
<1>1. /\ events \in Seq(Objs) /\ n \in Nat /\ DOMAIN events = 1 .. n /\ s \in Nat
      /\ \A i \in 1 .. n : oseq[events[i]] \in Nat
  BY EventTypes DEF IInv, Seqnos
<1>2. events' = IF Late = {} THEN <<>> ELSE SubSeq(events, first, n)
  BY DEF SignalStart
<1>3. /\ Late \subseteq 1 .. n
      /\ \A i \in 1 .. n : i \notin Late => oseq[events[i]] <= s
      /\ \A i \in Late : oseq[events[i]] > s
  BY <1>1
<1>4. CASE Late = {}
  <2>1. Len(events') = 0
    BY <1>2, <1>4
  <2>2. \A i \in 1 .. n : oseq[events[i]] <= s
    BY <1>3, <1>4
  <2> HIDE DEF n
  <2>3. /\ n \in 0 .. n /\ Len(events') = n - n
        /\ \A i \in 1 .. n - n : events'[i] = events[i + n]
        /\ \A i \in (n + 1) .. n : oseq[events[i]] > s
    BY <1>1, <2>1
  <2> QED
    BY <2>2, <2>3 DEF n
<1>5. CASE Late # {}
  <2>1. Late \in SUBSET Nat
    BY <1>1, <1>3
  <2>2. \E i \in Late : \A j \in Late : i <= j
    BY <1>5, <2>1, NatMin
  <2> HIDE DEF Late
  <2>3. first \in Late /\ \A j \in Late : first <= j
    BY <2>2
  <2> HIDE DEF first, n
  <2> DEFINE k == first - 1
  <2>4. first \in 1 .. n /\ k \in 0 .. n /\ k + 1 = first
    BY <1>1, <1>3, <2>3
  <2>5. events' = SubSeq(events, first, n)
    BY <1>2, <1>5
  <2>6. /\ Len(events') = n - k
        /\ \A i \in 1 .. n - k : events'[i] = events[i + k]
    <3>1. Len(SubSeq(events, first, n)) = n - first + 1
      BY <1>1, <2>4 DEF n
    <3>2. ASSUME NEW i \in 1 .. n - k PROVE SubSeq(events, first, n)[i] = events[i + k]
      <4>1. i \in 1 .. (n - first + 1) /\ first + i - 1 = i + k
        BY <1>1, <2>4
      <4>2. SubSeq(events, first, n)[i] = events[first + i - 1]
        BY <1>1, <2>4, <4>1, SubSeqProperties DEF n
      <4> QED
        BY <4>1, <4>2
    <3> QED
      BY <1>1, <2>4, <2>5, <3>1, <3>2
  <2>7. \A i \in 1 .. k : oseq[events[i]] <= s
    <3>1. ASSUME NEW i \in 1 .. k PROVE i \in 1 .. n /\ i \notin Late
      BY <1>1, <2>3, <2>4
    <3> QED
      BY <1>3, <3>1
  <2>8. \A i \in first .. n : oseq[events[i]] > s
    <3> SUFFICES ASSUME NEW i \in first .. n PROVE oseq[events[i]] > s
      OBVIOUS
    <3>1. i \in 1 .. n /\ first <= i /\ oseq[events[first]] > s
      BY <1>1, <1>3, <2>3, <2>4
    <3>2. first < i => oseq[events[first]] <= oseq[events[i]]
      BY <1>1, <2>4, <3>1 DEF IInv, EventsPending
    <3> QED
      BY <1>1, <2>4, <3>1, <3>2
  <2> HIDE DEF k
  <2> QED
    BY <2>4, <2>6, <2>7, <2>8 DEF n
<1> QED
  BY <1>4, <1>5

\* An object with no event on the list: one that is not allocated or still in
\* its queue, and one that has been signalled.
LEMMA NotListed ==
  ASSUME IInv, NEW o \in Objs, ostate[o] # "popped" \/ pc[o] = "put"
  PROVE  \A i \in DOMAIN events : events[i] # o
<1>1. ASSUME pc[o] = "put" PROVE oseq[o] <= value
  BY <1>1 DEF IInv, ObjStages, ObjStage
<1>2. \A i \in DOMAIN events : ostate[events[i]] = "popped" /\ oseq[events[i]] > value
  BY DEF IInv, ListedEvents, EventsPending
<1>3. oseq[o] \in Nat /\ value \in Nat
  BY EventTypes DEF IInv
<1> QED
  BY <1>1, <1>2, <1>3

\* A signal takes the events off that it has reached.
LEMMA TrimEvents ==
  ASSUME IInv, TypeOK', NEW a \in Actors, NEW s \in Seqnos, SignalStart(a, s), ~(s < value)
  PROVE  EventsPending' /\ ListedEvents'
<1>1. PICK k \in 0 .. Len(events) :
        /\ Len(events') = Len(events) - k
        /\ \A i \in 1 .. Len(events) - k : events'[i] = events[i + k]
        /\ \A i \in 1 .. k : oseq[events[i]] <= s
        /\ \A i \in (k + 1) .. Len(events) : oseq[events[i]] > s
  BY SignalTrims
<1> DEFINE n == Len(events)
<1>2. n \in Nat /\ DOMAIN events = 1 .. n /\ EventsPending /\ ListedEvents
  BY EventTypes DEF IInv
<1>3. DOMAIN events' = 1 .. (n - k)
  <2>1. events' \in Seq(Objs)
    BY DEF TypeOK
  <2> QED
    BY <1>1, <2>1
<1>4. value' = s /\ oseq' = oseq /\ ostate' = ostate
  BY DEF SignalStart, objVars
<1> HIDE DEF n
<1>5. \A i \in 1 .. (n - k) : i + k \in (k + 1) .. n /\ i + k \in 1 .. n
                              /\ events'[i] = events[i + k]
  BY <1>1, <1>2 DEF n
<1>6. \A i \in DOMAIN events' : oseq'[events'[i]] > value' /\ ostate'[events'[i]] = "popped"
  BY <1>1, <1>2, <1>3, <1>4, <1>5 DEF ListedEvents, n
<1>7. ASSUME NEW i \in DOMAIN events', NEW j \in DOMAIN events'
      PROVE  /\ i < j => oseq'[events'[i]] <= oseq'[events'[j]]
             /\ events'[i] = events'[j] => i = j
  <2>1. i \in 1 .. (n - k) /\ j \in 1 .. (n - k)
    BY <1>3
  <2>2. /\ i + k < j + k => oseq[events[i + k]] <= oseq[events[j + k]]
        /\ events[i + k] = events[j + k] => i + k = j + k
    BY <1>2, <1>5, <2>1 DEF EventsPending
  <2> QED
    <3>1. events'[i] = events[i + k] /\ events'[j] = events[j + k] /\ oseq' = oseq
      BY <1>4, <1>5, <2>1
    <3>2. (i < j => i + k < j + k) /\ (i + k = j + k => i = j)
      BY <2>1
    <3> QED
      BY <2>2, <3>1, <3>2
<1> QED
  BY <1>6, <1>7 DEF EventsPending, ListedEvents

\* An event that is taken off leaves the others in order.
LEMMA PopEvents ==
  ASSUME IInv, TypeOK', NEW o \in Objs, Pop(o)
  PROVE  EventsPending' /\ ListedEvents'
<1>1. /\ TypeOK /\ EventsPending /\ ListedEvents
      /\ value' = value /\ oseq' = oseq /\ ostate[o] = "queued"
  BY DEF IInv, Pop
<1>2. /\ \A i \in DOMAIN events : events[i] # o
      /\ ostate'[o] = "popped" /\ \A q \in Objs : q # o => ostate'[q] = ostate[q]
  BY <1>1, NotListed DEF Pop, TypeOK
<1> DEFINE n == Len(events)
<1>3. /\ n \in Nat /\ DOMAIN events = 1 .. n /\ value \in Nat /\ oseq[o] \in Nat
      /\ \A i \in 1 .. n : events[i] \in Objs /\ oseq[events[i]] \in Nat
  BY <1>1, EventTypes
<1>4. CASE value >= oseq[o]
  <2>1. events' = events
    BY <1>4 DEF Pop
  <2>2. \A i \in 1 .. n : ostate'[events[i]] = "popped"
    BY <1>1, <1>2, <1>3 DEF ListedEvents
  <2> QED
    BY <1>1, <1>3, <2>1, <2>2 DEF EventsPending, ListedEvents
<1>5. CASE ~(value >= oseq[o])
  <2>1. events' = Insert(o)
    BY <1>5 DEF Pop
  <2>2. PICK k \in 0 .. Len(events) :
          /\ \A i \in 1 .. k : oseq[events[i]] <= oseq[o]
          /\ \A i \in (k + 1) .. Len(events) : oseq[events[i]] > oseq[o]
          /\ Insert(o) \in Seq(Objs) /\ Len(Insert(o)) = Len(events) + 1
          /\ \A i \in 1 .. k : Insert(o)[i] = events[i]
          /\ Insert(o)[k + 1] = o
          /\ \A i \in (k + 1) .. Len(events) : Insert(o)[i + 1] = events[i]
    BY <1>1, InsertShape
  <2>3. DOMAIN events' = 1 .. (n + 1)
    BY <2>1, <2>2
  <2> HIDE DEF n
  <2>4. k \in 0 .. n
    BY DEF n
  \* Where an element of the new list comes from.
  <2>5. ASSUME NEW i \in 1 .. (n + 1)
        PROVE  \/ i <= k /\ i \in 1 .. n /\ events'[i] = events[i]
                  /\ oseq[events[i]] <= oseq[o]
               \/ i = k + 1 /\ events'[i] = o
               \/ i > k + 1 /\ i - 1 \in 1 .. n /\ events'[i] = events[i - 1]
                  /\ oseq[events[i - 1]] > oseq[o]
    <3>1. CASE i <= k
      <4>1. i \in 1 .. k /\ i \in 1 .. n
        BY <1>3, <2>4, <3>1
      <4> QED
        BY <2>1, <2>2, <3>1, <4>1
    <3>2. CASE i = k + 1
      BY <2>1, <2>2, <3>2
    <3>3. CASE i > k + 1
      <4>1. i - 1 \in (k + 1) .. n /\ i - 1 \in 1 .. n /\ (i - 1) + 1 = i
        BY <1>3, <2>4, <3>3
      <4>2. oseq[events[i - 1]] > oseq[o] /\ Insert(o)[(i - 1) + 1] = events[i - 1]
        BY <2>2, <4>1 DEF n
      <4> QED
        BY <2>1, <3>3, <4>1, <4>2
    <3> QED
      BY <2>4, <1>3, <3>1, <3>2, <3>3
  <2>6. \A i \in 1 .. (n + 1) : oseq'[events'[i]] > value' /\ ostate'[events'[i]] = "popped"
    <3> SUFFICES ASSUME NEW i \in 1 .. (n + 1)
                 PROVE  oseq'[events'[i]] > value' /\ ostate'[events'[i]] = "popped"
      OBVIOUS
    <3>1. CASE events'[i] = o
      BY <1>1, <1>2, <1>3, <1>5, <3>1
    <3>2. ASSUME NEW j \in 1 .. n, events'[i] = events[j]
          PROVE  oseq'[events'[i]] > value' /\ ostate'[events'[i]] = "popped"
      BY <1>1, <1>2, <1>3, <3>2 DEF EventsPending, ListedEvents
    <3> QED
      BY <2>5, <3>1, <3>2
  <2>7. ASSUME NEW i \in 1 .. (n + 1), NEW j \in 1 .. (n + 1)
        PROVE  /\ i < j => oseq'[events'[i]] <= oseq'[events'[j]]
               /\ events'[i] = events'[j] => i = j
    <3>1. \A x, y \in 1 .. n : /\ x < y => oseq[events[x]] <= oseq[events[y]]
                               /\ events[x] = events[y] => x = y
      BY <1>1, <1>3 DEF EventsPending
    <3>2. \A x \in 1 .. n : events[x] # o
      BY <1>2, <1>3
    <3>3. CASE i <= k
      <4>1. i \in 1 .. n /\ events'[i] = events[i] /\ oseq[events[i]] <= oseq[o]
        BY <2>4, <2>5, <3>3
      <4>2. CASE j <= k
        BY <1>1, <2>4, <2>5, <3>1, <4>1, <4>2
      <4>3. CASE j = k + 1
        BY <1>1, <2>4, <2>5, <3>2, <3>3, <4>1, <4>3
      <4>4. CASE j > k + 1
        <5>1. j - 1 \in 1 .. n /\ events'[j] = events[j - 1] /\ oseq[events[j - 1]] > oseq[o]
          BY <2>4, <2>5, <4>4
        <5>2. events[i] # events[j - 1]
          BY <2>4, <3>1, <3>3, <4>1, <4>4, <5>1
        <5> QED
          BY <1>1, <1>3, <4>1, <5>1, <5>2
      <4> QED
        BY <2>4, <4>2, <4>3, <4>4
    <3>4. CASE i = k + 1
      BY <1>1, <1>3, <2>4, <2>5, <3>1, <3>2, <3>4
    <3>5. CASE i > k + 1
      BY <1>1, <1>3, <2>4, <2>5, <3>1, <3>2, <3>5
    <3> QED
      BY <1>3, <2>4, <3>3, <3>4, <3>5
  <2> QED
    BY <2>3, <2>6, <2>7 DEF EventsPending, ListedEvents
<1> QED
  BY <1>4, <1>5

\* Every step keeps the event list sorted, pending and owned.
LEMMA NextEvents == IInv /\ [Next]_vars => EventsPending' /\ ListedEvents'
<1> SUFFICES ASSUME IInv, [Next]_vars PROVE EventsPending' /\ ListedEvents'
  OBVIOUS
<1> USE DEF timelineVars, objVars
<1>0. TypeOK /\ TypeOK' /\ EventsPending /\ ListedEvents
  BY NextTypeOK DEF IInv
<1>1. ASSUME UNCHANGED <<events, value>>,
             \A i \in DOMAIN events : /\ oseq'[events[i]] = oseq[events[i]]
                                      /\ ostate'[events[i]] = ostate[events[i]]
      PROVE  EventsPending' /\ ListedEvents'
  BY <1>0, <1>1 DEF EventsPending, ListedEvents
<1>2. ASSUME NEW s \in Initials, Create(s) PROVE EventsPending' /\ ListedEvents'
  BY <1>2 DEF Create, EventsPending, ListedEvents
<1>3. ASSUME NEW o \in Objs, ostate[o] = "none" \/ pc[o] = "put",
             UNCHANGED <<events, value>>,
             \A q \in Objs : q # o => oseq'[q] = oseq[q] /\ ostate'[q] = ostate[q]
      PROVE  EventsPending' /\ ListedEvents'
  <2>1. \A i \in DOMAIN events : events[i] # o /\ events[i] \in Objs
    BY <1>0, <1>3, NotListed, EventTypes
  <2> QED
    BY <1>1, <1>3, <2>1
<1>4. ASSUME NEW o \in Objs, ObjEnd(o) \/ \E s \in Targets[o] : AddTimeline(o, s)
      PROVE  EventsPending' /\ ListedEvents'
  <2>1. \A q \in Objs : q # o => oseq'[q] = oseq[q] /\ ostate'[q] = ostate[q]
    BY <1>0, <1>4 DEF ObjEnd, AddTimeline, TypeOK
  <2> QED
    BY <1>3, <1>4, <2>1 DEF ObjEnd, AddTimeline
<1>5. ASSUME NEW a \in Actors, Progress(a) PROVE EventsPending' /\ ListedEvents'
  <2>1. ASSUME NEW s \in Seqnos, SignalStart(a, s), s < value
        PROVE  EventsPending' /\ ListedEvents'
    BY <1>1, <2>1 DEF SignalStart
  <2>2. ASSUME \/ \E f \in Fences : WalkFence(a, f)
               \/ WalkEnd(a)
        PROVE  EventsPending' /\ ListedEvents'
    BY <1>1, <2>2 DEF WalkFence, WalkEnd
  <2> QED
    BY <1>0, <1>5, <2>1, <2>2, TrimEvents DEF Progress
<1>6. ASSUME NEW t \in Threads, ThreadProgress(t), ~Progress(t)
      PROVE  EventsPending' /\ ListedEvents'
  <2>1. UNCHANGED <<events, value, oseq, ostate>>
    BY <1>6 DEF ThreadProgress, PutTimeline, Install, EnableSignaling, Wake, AllocFence,
       AllocFails, PutFence, Release, Query, DestroyCollect, DestroyLock, DestroyFence
  <2> QED
    BY <1>1, <2>1
<1>7. ASSUME NEW o \in Objs, ObjProgress(o), ~Progress(o)
      PROVE  EventsPending' /\ ListedEvents'
  <2>1. ASSUME Retire(o) \/ Fire(o) PROVE EventsPending' /\ ListedEvents'
    BY <1>1, <2>1 DEF Retire, Fire
  <2> QED
    BY <1>0, <1>4, <1>7, <2>1, PopEvents DEF ObjProgress
<1>8. CASE Request
  <2>1. ASSUME NEW t \in Threads,
               \/ \E i \in IoctlNames : Lookup(t, i)
               \/ \E f \in Fences : Close(t, f)
               \/ DestroyName(t) \/ TimeOut(t)
        PROVE  EventsPending' /\ ListedEvents'
    BY <1>1, <2>1 DEF Lookup, Close, DestroyName, TimeOut
  <2>2. ASSUME NEW f \in Fences, Poll(f) PROVE EventsPending' /\ ListedEvents'
    BY <1>1, <2>2 DEF Poll
  <2> QED
    BY <1>2, <1>4, <1>8, <2>1, <2>2 DEF Request
<1>9. CASE UNCHANGED vars
  BY <1>1, <1>9 DEF vars
<1> QED
  BY <1>5, <1>6, <1>7, <1>8, <1>9 DEF Next, Actors

-----------------------------------------------------------------------------
(* The theorems                                                            *)

\* IInv is inductive, so it holds in every state of every behaviour: the
\* properties of kgsl_timeline.c and of the timeline objects follow from it.
THEOREM Invariance == Spec => []IInv
<1>1. IInv /\ [Next]_vars => IInv'
  BY NextTypeOK, NextThreadStages, NextObjStages, NextWalkStages, NextFenceOwners,
     NextFenceCounted, NextTimelineCounted, NextListedFences, NextSignalTruthful,
     NextEvents
  DEF IInv
<1> QED
  BY <1>1, InitIInv, PTL DEF Spec

\* The variables keep their types; no reference count, kref or fence refcount,
\* goes below zero.
THEOREM TypeCorrectness == Spec => []TypeOK
<1>1. IInv => TypeOK
  BY DEF IInv
<1> QED
  BY <1>1, Invariance, PTL

\* timeline->ref is the number of those who hold the timeline: it is freed when
\* the last of them puts it, not earlier and not never.
THEOREM NoTimelineLeak == Spec => []TimelineCounted
<1>1. IInv => TimelineCounted
  BY DEF IInv
<1> QED
  BY <1>1, Invariance, PTL

\* A fence's refcount is the number of its users: no walk of the list touches a
\* freed fence, however releases, closes and walks overlap.
THEOREM NoFenceLeak == Spec => []FenceCounted
<1>1. IInv => FenceCounted
  BY DEF IInv
<1> QED
  BY <1>1, Invariance, PTL

\* The WARN_ONs of kgsl_timeline_destroy never fire, and nothing on the lists
\* has been freed.
THEOREM FreedWithEmptyLists == Spec => []FreedClean
<1>1. IInv => FreedClean
  <2> SUFFICES ASSUME IInv PROVE FreedClean
    OBVIOUS
  <2>1. ref = 0 => fences = {} /\ events = <<>> /\ LockFree
    BY AtCreate
  <2>2. /\ \A f \in fences : fstate[f] # "none"
        /\ \A i \in DOMAIN events : ostate[events[i]] # "none"
    BY DEF IInv, ListedFences, ListedEvents
  <2> QED
    BY <2>1, <2>2 DEF FreedClean
<1> QED
  BY <1>1, Invariance, PTL

\* No fence is signalled, by a signal, a poll or a waiter, before its number.
THEOREM NeverEarly == Spec => []SignalTruthful
<1>1. IInv => SignalTruthful
  BY DEF IInv
<1> QED
  BY <1>1, Invariance, PTL

\* No fence is left behind by the signal that reaches its number.
THEOREM NeverMissed == Spec => []NoMissedFence
<1>1. IInv => NoMissedFence
  <2> SUFFICES ASSUME IInv, NEW f \in Fences, fstate[f] = "unsignaled", Reached(f),
                      frefs[f] # 0
               PROVE  \E a \in Actors : f \in temp[a]
    BY DEF NoMissedFence
  <2>1. frefs[f] > 0
    BY DEF IInv, TypeOK
  <2> QED
    BY <2>1 DEF IInv, ListedFences
<1> QED
  BY <1>1, Invariance, PTL

\* timeline->events stays sorted and holds what the timeline has yet to reach,
\* each object once, so that no freed event is ever on it.
THEOREM EventsSorted == Spec => []EventsPending
<1>1. IInv => EventsPending
  BY DEF IInv
<1> QED
  BY <1>1, Invariance, PTL

-----------------------------------------------------------------------------
(* Queries                                                                 *)

\* What a query answers in a sorted list: the most that the value or a retired
\* event has to offer.
AnswerIsMost ==
  /\ Answer \in Nat /\ value <= Answer
  /\ \A i \in DOMAIN events : events[i] \in retired => oseq[events[i]] <= Answer
  /\ \/ Answer = value
     \/ \E i \in DOMAIN events : events[i] \in retired /\ Answer = oseq[events[i]]

\* With the invariant a query answers the most that has been reached.
LEMMA AnswerMost == TypeOK /\ EventsPending => AnswerIsMost
<1> SUFFICES ASSUME TypeOK, EventsPending PROVE AnswerIsMost
  OBVIOUS
<1> DEFINE n == Len(events)
           R == {i \in DOMAIN events : events[i] \in retired}
           last == CHOOSE i \in R : \A j \in R : j <= i
<1>1. /\ n \in Nat /\ DOMAIN events = 1 .. n /\ value \in Nat
      /\ \A i \in 1 .. n : oseq[events[i]] \in Nat
  BY EventTypes
<1>2. Answer = IF R = {} THEN value ELSE oseq[events[last]]
  BY DEF Answer
<1>3. CASE R = {}
  BY <1>1, <1>2, <1>3 DEF AnswerIsMost
<1>4. CASE R # {}
  <2>1. R \in SUBSET (1 .. n)
    BY <1>1
  <2>2. \E i \in R : \A j \in R : j <= i
    BY <1>1, <1>4, <2>1, NatMax
  <2> HIDE DEF R
  <2>3. last \in R /\ \A j \in R : j <= last
    BY <2>2
  <2> HIDE DEF last
  <2>4. Answer = oseq[events[last]] /\ last \in 1 .. n /\ events[last] \in retired
    BY <1>2, <1>4, <2>1, <2>3 DEF R
  <2>5. value <= Answer /\ Answer \in Nat
    BY <1>1, <2>4 DEF EventsPending
  <2>6. ASSUME NEW i \in DOMAIN events, events[i] \in retired
        PROVE  oseq[events[i]] <= Answer
    <3>1. i \in R /\ i \in 1 .. n
      BY <1>1, <2>6 DEF R
    <3>2. i = last \/ i < last
      BY <1>1, <2>3, <2>4, <3>1
    <3>3. i < last => oseq[events[i]] <= oseq[events[last]]
      BY <1>1, <2>4, <3>1 DEF EventsPending
    <3> QED
      BY <2>4, <2>5, <3>2, <3>3
  <2> QED
    BY <1>1, <2>4, <2>5, <2>6 DEF AnswerIsMost
<1> QED
  BY <1>3, <1>4

\* The same after a step.
LEMMA AnswerMostNext == (TypeOK /\ EventsPending => AnswerIsMost)'
BY AnswerMost, PTL

\* A retired event stays on the list until the timeline has reached it.
LEMMA EventStays ==
  ASSUME IInv, [Next]_vars, ref > 0, NEW i \in DOMAIN events, events[i] \in retired
  PROVE  \/ oseq[events[i]] <= value'
         \/ \E j \in DOMAIN events' : /\ events'[j] = events[i] /\ events[i] \in retired'
                                      /\ oseq'[events[i]] = oseq[events[i]]
<1> DEFINE e == events[i]
           Stays == \/ oseq[e] <= value'
                    \/ \E j \in DOMAIN events' : /\ events'[j] = e /\ e \in retired'
                                                 /\ oseq'[e] = oseq[e]
<1> USE DEF timelineVars, objVars
<1>0. TypeOK /\ TypeOK' /\ EventsPending /\ e \in Objs /\ i \in 1 .. Len(events)
      /\ Len(events) \in Nat
  BY NextTypeOK, EventTypes DEF IInv
<1>1. ASSUME events' = events, oseq'[e] = oseq[e], e \in retired' PROVE Stays
  BY <1>1
<1>2. ASSUME NEW a \in Actors, NEW s \in Seqnos, SignalStart(a, s) PROVE Stays
  <2>1. CASE s < value
    BY <1>1, <1>2, <2>1 DEF SignalStart
  <2>2. CASE ~(s < value)
    <3>1. PICK k \in 0 .. Len(events) :
            /\ Len(events') = Len(events) - k
            /\ \A j \in 1 .. Len(events) - k : events'[j] = events[j + k]
            /\ \A j \in 1 .. k : oseq[events[j]] <= s
      BY <1>2, <2>2, SignalTrims
    <3>2. value' = s /\ oseq' = oseq /\ retired' = retired
      BY <1>2, <2>2 DEF SignalStart
    <3>3. CASE i <= k
      BY <1>0, <3>1, <3>2, <3>3
    <3>4. CASE i > k
      <4>1. i - k \in 1 .. Len(events) - k /\ (i - k) + k = i
        BY <1>0, <3>1, <3>4
      <4>2. events'[i - k] = e
        BY <3>1, <4>1
      <4>3. events' \in Seq(Objs)
        BY <1>0 DEF TypeOK
      <4>4. i - k \in DOMAIN events'
        BY <3>1, <4>1, <4>3
      <4> QED
        BY <3>2, <4>2, <4>4
    <3> QED
      BY <1>0, <3>1, <3>3, <3>4
  <2> QED
    BY <2>1, <2>2
<1>3. ASSUME NEW o \in Objs, Pop(o) PROVE Stays
  <2>1. oseq' = oseq /\ retired' = retired
    BY <1>3 DEF Pop
  <2>2. CASE events' = events
    BY <1>1, <2>1, <2>2
  <2>3. CASE events' = Insert(o)
    <3>1. PICK k \in 0 .. Len(events) :
            /\ Insert(o) \in Seq(Objs) /\ Len(Insert(o)) = Len(events) + 1
            /\ \A j \in 1 .. k : Insert(o)[j] = events[j]
            /\ \A j \in (k + 1) .. Len(events) : Insert(o)[j + 1] = events[j]
      BY <1>0, InsertShape
    <3>2. DOMAIN events' = 1 .. (Len(events) + 1)
      BY <2>3, <3>1
    <3>3. i \in 1 .. k \/ i \in (k + 1) .. Len(events)
      BY <1>0
    <3>4. \E j \in {i, i + 1} : events'[j] = e
      BY <2>3, <3>1, <3>3
    <3>5. i \in DOMAIN events' /\ i + 1 \in DOMAIN events'
      BY <1>0, <3>2
    <3> HIDE DEF e
    <3> QED
      BY <2>1, <3>4, <3>5 DEF e
  <2> QED
    BY <1>3, <2>2, <2>3 DEF Pop
<1>4. ASSUME NEW o \in Objs, ObjEnd(o) PROVE Stays
  <2>1. e # o
    BY <1>4, NotListed DEF ObjEnd
  <2>2. oseq'[e] = oseq[e] /\ e \in retired'
    BY <1>0, <1>4, <2>1 DEF ObjEnd, TypeOK
  <2> QED
    BY <1>1, <1>4, <2>2 DEF ObjEnd
<1>5. ASSUME NEW o \in Objs, NEW s \in Targets[o], AddTimeline(o, s) PROVE Stays
  <2>1. e # o
    BY <1>5, NotListed DEF AddTimeline
  <2>2. oseq'[e] = oseq[e]
    BY <1>0, <1>5, <2>1 DEF AddTimeline, TypeOK
  <2> QED
    BY <1>1, <1>5, <2>2 DEF AddTimeline
<1>6. ASSUME NEW s \in Initials, Create(s) PROVE FALSE
  BY <1>6 DEF Create
<1>7. ASSUME NEW a \in Actors, Progress(a) PROVE Stays
  BY <1>1, <1>2, <1>7 DEF Progress, WalkFence, WalkEnd
<1>8. ASSUME NEW t \in Threads, ThreadProgress(t), ~Progress(t) PROVE Stays
  BY <1>1, <1>8 DEF ThreadProgress, PutTimeline, Install, EnableSignaling, Wake,
     AllocFence, AllocFails, PutFence, Release, Query, DestroyCollect, DestroyLock,
     DestroyFence
<1>9. ASSUME NEW o \in Objs, ObjProgress(o), ~Progress(o) PROVE Stays
  BY <1>1, <1>3, <1>4, <1>9 DEF ObjProgress, Retire, Fire
<1>10. ASSUME Request PROVE Stays
  BY <1>1, <1>5, <1>6, <1>10 DEF Request, Lookup, Close, DestroyName, TimeOut, Poll
<1>11. ASSUME UNCHANGED vars PROVE Stays
  BY <1>1, <1>11 DEF vars
<1> HIDE DEF Stays
<1>12. ASSUME NEW t \in Threads, ThreadProgress(t) PROVE Stays
  BY <1>7, <1>8, <1>12 DEF Actors
<1>13. ASSUME NEW o \in Objs, ObjProgress(o) PROVE Stays
  BY <1>7, <1>9, <1>13 DEF Actors
<1>14. Stays
  BY <1>10, <1>11, <1>12, <1>13 DEF Next
<1> QED
  BY <1>14 DEF Stays

\* A step of a timeline that lives does not take back what a query answers.
LEMMA AnswerGrows ==
  ASSUME IInv, IInv', [Next]_vars, ref > 0 PROVE Answer' >= Answer
<1>1. AnswerIsMost /\ AnswerIsMost'
  BY AnswerMost, AnswerMostNext DEF IInv
<1>2. value' >= value
  BY ValueGrows
<1>3. value \in Nat /\ value' \in Nat /\ Answer \in Nat /\ Answer' \in Nat
  BY <1>1, BoundAssumption DEF IInv, TypeOK, AnswerIsMost
<1>4. value' <= Answer'
  BY <1>1 DEF AnswerIsMost
<1>5. CASE Answer = value
  BY <1>2, <1>3, <1>4, <1>5
<1>6. ASSUME NEW i \in DOMAIN events, events[i] \in retired, Answer = oseq[events[i]]
      PROVE  Answer' >= Answer
  <2>1. CASE oseq[events[i]] <= value'
    BY <1>3, <1>4, <1>6, <2>1
  <2>2. ASSUME NEW j \in DOMAIN events', events'[j] = events[i], events[i] \in retired',
               oseq'[events[i]] = oseq[events[i]]
        PROVE  Answer' >= Answer
    <3>1. oseq'[events'[j]] <= Answer'
      BY <1>1, <2>2 DEF AnswerIsMost
    <3> QED
      BY <1>3, <1>6, <2>2, <3>1
  <2> QED
    BY <1>6, <2>1, <2>2, EventStays
<1> QED
  BY <1>1, <1>5, <1>6 DEF AnswerIsMost

\* What queries answer never goes back while the timeline lives, though they
\* look ahead of the value at what the GPU has retired.
THEOREM QueriesNeverGoBack == Spec => QueryMonotonic
<1>1. IInv /\ IInv' /\ [Next]_vars => (ref > 0 /\ ref' > 0 => Answer' >= Answer)
  BY AnswerGrows
<1> QED
  BY <1>1, Invariance, PTL DEF Spec, QueryMonotonic
=============================================================================
