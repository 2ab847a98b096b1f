--------------------------- MODULE CamSyncProofs ---------------------------
(***************************************************************************)
(* Theorems about CamSync.                                                 *)
(*                                                                         *)
(* StructInv is inductive for every value of the constants.  CountInv is   *)
(* inductive together with it as long as no row is reused while a call     *)
(* holds its number.                                                       *)
(***************************************************************************)
EXTENDS CamSync, FiniteSetTheorems, TLAPS

-----------------------------------------------------------------------------
(* What becomes of a row                                                   *)

\* The fields of a row, one by one.
Fields(rw, state, type, remaining, ref, signaled, children, groups, callbacks,
       payloads) ==
  /\ rw.state = state /\ rw.type = type /\ rw.remaining = remaining
  /\ rw.ref = ref /\ rw.signaled = signaled /\ rw.children = children
  /\ rw.parents = groups /\ rw.callbacks = callbacks /\ rw.payloads = payloads

\* A step that changes at most the row r.
OnlyRow(r) ==
  row' \in [Rows -> RowType] /\ \A x \in Rows \ {r} : row'[x] = row[x]

\* What a row of the table consists of.
LEMMA RowFields ==
  ASSUME NEW rw \in RowType
  PROVE  /\ rw.remaining \in Int /\ rw.ref \in Int /\ rw.signaled \in BOOLEAN
         /\ rw.children \in SUBSET Rows /\ rw.parents \in SUBSET Rows
         /\ rw.callbacks \in SUBSET Callbacks /\ rw.payloads \in SUBSET Payloads
         /\ rw.type \in {"INDV", "GROUP"}
         /\ rw.state \in SignaledStates \cup {"INVALID", "ACTIVE"}
  BY DEF RowType

\* Replacing one row leaves the others alone.
LEMMA RowReplaced ==
  ASSUME row \in [Rows -> RowType], NEW r \in Rows, NEW rw \in RowType,
         row' = [row EXCEPT ![r] = rw]
  PROVE  OnlyRow(r) /\ row'[r] = rw
  BY DEF OnlyRow

\* The row that memset leaves behind.
LEMMA ZeroRowFields ==
  ZeroRow \in RowType /\ Fields(ZeroRow, "INVALID", "INDV", 0, 0, FALSE, {}, {}, {}, {})
  BY DEF ZeroRow, RowType, Fields

\* The row that cam_sync_init_row leaves behind.
LEMMA InitRowFields ==
  ASSUME NEW type \in {"INDV", "GROUP"}
  PROVE  /\ InitRow(type) \in RowType
         /\ Fields(InitRow(type), "ACTIVE", type, 0, 0, FALSE, {}, {}, {}, {})
<1>1. InitRow(type) \in RowType
  BY ZeroRowFields DEF InitRow, RowType
<1>2. Fields(InitRow(type), "ACTIVE", type, 0, 0, FALSE, {}, {}, {}, {})
  BY DEF InitRow, ZeroRow, Fields
<1> QED
  BY <1>1, <1>2

\* cam_sync_util_dispatch_signaled_cb on the row.
LEMMA DispatchedFields ==
  ASSUME NEW rw \in RowType
  PROVE  /\ Dispatched(rw) \in RowType
         /\ Fields(Dispatched(rw), rw.state, rw.type, rw.remaining, rw.ref, TRUE,
                   rw.children, rw.parents, {}, IF eventq THEN {} ELSE rw.payloads)
  BY DEF Dispatched, RowType, Fields

\* A change of the reference count changes nothing else of the row.
LEMMA RefSet ==
  ASSUME row \in [Rows -> RowType], NEW r \in Rows, NEW n \in Int,
         row' = [row EXCEPT ![r].ref = n]
  PROVE  /\ OnlyRow(r)
         /\ Fields(row'[r], row[r].state, row[r].type, row[r].remaining, n,
                   row[r].signaled, row[r].children, row[r].parents,
                   row[r].callbacks, row[r].payloads)
  BY DEF OnlyRow, Fields, RowType

\* A change of the callback list changes nothing else of the row.
LEMMA CallbacksSet ==
  ASSUME row \in [Rows -> RowType], NEW r \in Rows, NEW C \in SUBSET Callbacks,
         row' = [row EXCEPT ![r].callbacks = C]
  PROVE  /\ OnlyRow(r)
         /\ Fields(row'[r], row[r].state, row[r].type, row[r].remaining, row[r].ref,
                   row[r].signaled, row[r].children, row[r].parents, C,
                   row[r].payloads)
  BY DEF OnlyRow, Fields, RowType

\* A change of the user payloads changes nothing else of the row.
LEMMA PayloadsSet ==
  ASSUME row \in [Rows -> RowType], NEW r \in Rows, NEW P \in SUBSET Payloads,
         row' = [row EXCEPT ![r].payloads = P]
  PROVE  /\ OnlyRow(r)
         /\ Fields(row'[r], row[r].state, row[r].type, row[r].remaining, row[r].ref,
                   row[r].signaled, row[r].children, row[r].parents,
                   row[r].callbacks, P)
  BY DEF OnlyRow, Fields, RowType

\* A change of the state changes nothing else of the row.
LEMMA StateSet ==
  ASSUME row \in [Rows -> RowType], NEW r \in Rows,
         NEW s \in SignaledStates \cup {"INVALID", "ACTIVE"},
         row' = [row EXCEPT ![r].state = s]
  PROVE  /\ OnlyRow(r)
         /\ Fields(row'[r], s, row[r].type, row[r].remaining, row[r].ref,
                   row[r].signaled, row[r].children, row[r].parents,
                   row[r].callbacks, row[r].payloads)
  BY DEF OnlyRow, Fields, RowType

\* A change of the parent list changes nothing else of the row.
LEMMA ParentsSet ==
  ASSUME row \in [Rows -> RowType], NEW r \in Rows, NEW P \in SUBSET Rows,
         row' = [row EXCEPT ![r].parents = P]
  PROVE  /\ OnlyRow(r)
         /\ Fields(row'[r], row[r].state, row[r].type, row[r].remaining, row[r].ref,
                   row[r].signaled, row[r].children, P, row[r].callbacks,
                   row[r].payloads)
  BY DEF OnlyRow, Fields, RowType

\* A change of the child list changes nothing else of the row.
LEMMA ChildrenSet ==
  ASSUME row \in [Rows -> RowType], NEW r \in Rows, NEW C \in SUBSET Rows,
         row' = [row EXCEPT ![r].children = C]
  PROVE  /\ OnlyRow(r)
         /\ Fields(row'[r], row[r].state, row[r].type, row[r].remaining, row[r].ref,
                   row[r].signaled, C, row[r].parents, row[r].callbacks,
                   row[r].payloads)
  BY DEF OnlyRow, Fields, RowType

\* A row that is signalled for the last time is still a row.
LEMMA StateRefParents ==
  ASSUME NEW rw \in RowType, NEW s \in SignaledStates
  PROVE  [rw EXCEPT !.state = s, !.ref = 0, !.parents = {}] \in RowType
<1>1. [rw EXCEPT !.state = s] \in RowType
  BY DEF RowType
<1>2. ASSUME NEW a \in RowType PROVE [a EXCEPT !.ref = 0] \in RowType
  BY DEF RowType
<1>3. ASSUME NEW a \in RowType PROVE [a EXCEPT !.parents = {}] \in RowType
  BY DEF RowType
<1> QED
  BY <1>1, <1>2, <1>3

\* A group that is notified changes in its count and state only.
LEMMA RemainingState ==
  ASSUME NEW rw \in RowType, NEW n \in Int,
         NEW s \in SignaledStates \cup {"INVALID", "ACTIVE"}
  PROVE  /\ [rw EXCEPT !.remaining = n, !.state = s] \in RowType
         /\ Fields([rw EXCEPT !.remaining = n, !.state = s], s, rw.type, n, rw.ref,
                   rw.signaled, rw.children, rw.parents, rw.callbacks, rw.payloads)
  BY DEF RowType, Fields

\* The last reference is given back.
LEMMA SignaledRow ==
  ASSUME row \in [Rows -> RowType], NEW r \in Rows, NEW s \in SignaledStates,
         row' = [row EXCEPT ![r] = [Dispatched(@) EXCEPT !.state = s, !.ref = 0,
                                                         !.parents = {}]]
  PROVE  /\ OnlyRow(r)
         /\ Fields(row'[r], s, row[r].type, row[r].remaining, 0, TRUE,
                   row[r].children, {}, {}, IF eventq THEN {} ELSE row[r].payloads)
<1> DEFINE D == Dispatched(row[r])
           rw == [D EXCEPT !.state = s, !.ref = 0, !.parents = {}]
<1>1. D \in RowType /\ Fields(D, row[r].state, row[r].type, row[r].remaining, row[r].ref,
                              TRUE, row[r].children, row[r].parents, {},
                              IF eventq THEN {} ELSE row[r].payloads)
  BY DispatchedFields
<1>2. row' = [row EXCEPT ![r] = rw]
  OBVIOUS
<1> HIDE DEF D
<1>3. rw \in RowType
  BY <1>1, StateRefParents
<1>4. Fields(rw, s, row[r].type, row[r].remaining, 0, TRUE,
             row[r].children, {}, {}, IF eventq THEN {} ELSE row[r].payloads)
  BY <1>1 DEF RowType, Fields
<1> HIDE DEF rw
<1> QED
  BY <1>2, <1>3, <1>4, RowReplaced

\* A group is counted down, and completed by the last member.
LEMMA NotifiedRow ==
  ASSUME TypeOK, NEW t \in Threads, NEW g \in Rows, NotifyParent(t, g),
         status[t] \in SignaledStates
  PROVE  LET last == Valid(g) /\ row[g].remaining = 1 IN
         /\ OnlyRow(g)
         /\ Fields(row'[g], ParentState(row[g].state, status[t]), row[g].type,
                   row[g].remaining - 1, row[g].ref, IF last THEN TRUE ELSE row[g].signaled,
                   row[g].children, row[g].parents,
                   IF last THEN {} ELSE row[g].callbacks,
                   IF last /\ eventq THEN {} ELSE row[g].payloads)
         /\ cb' = IF last THEN Queued(row[g], ParentState(row[g].state, status[t])) ELSE cb
<1> DEFINE counted == [row[g] EXCEPT !.remaining = @ - 1,
                                     !.state = ParentState(@, status[t])]
           last == Valid(g) /\ row[g].remaining = 1
<1>1. row \in [Rows -> RowType] /\ row[g] \in RowType
  BY DEF TypeOK
<1>2. /\ counted \in RowType
      /\ Fields(counted, ParentState(row[g].state, status[t]), row[g].type,
                row[g].remaining - 1, row[g].ref, row[g].signaled, row[g].children,
                row[g].parents, row[g].callbacks, row[g].payloads)
  <2>1. ParentState(row[g].state, status[t]) \in SignaledStates \cup {"INVALID", "ACTIVE"}
    BY <1>1, RowFields DEF ParentState
  <2>2. row[g].remaining - 1 \in Int
    BY <1>1, RowFields
  <2> QED
    BY <1>1, <2>1, <2>2, RemainingState
<1>3. /\ row' = [row EXCEPT ![g] = IF last THEN Dispatched(counted) ELSE counted]
      /\ cb' = IF last THEN Queued(counted, counted.state) ELSE cb
  <2>1. (counted.remaining = 0) <=> (row[g].remaining = 1)
    BY <1>1, <1>2, RowFields DEF Fields
  <2> HIDE DEF counted
  <2> QED
    BY <2>1 DEF NotifyParent, counted
<1> HIDE DEF counted
<1>4. Queued(counted, counted.state) = Queued(row[g], ParentState(row[g].state, status[t]))
  BY <1>2 DEF Fields, Queued
<1>5. CASE last
  BY <1>1, <1>2, <1>3, <1>4, <1>5, RowReplaced, DispatchedFields DEF Fields
<1>6. CASE ~last
  BY <1>1, <1>2, <1>3, <1>4, <1>6, RowReplaced DEF Fields
<1> QED
  BY <1>5, <1>6

\* Destruction invalidates the row and takes its two lists.
LEMMA DestroyedRow ==
  ASSUME row \in [Rows -> RowType], NEW r \in Rows,
         row' = [row EXCEPT ![r].state = "INVALID", ![r].children = {},
                            ![r].parents = {}]
  PROVE  /\ OnlyRow(r)
         /\ Fields(row'[r], "INVALID", row[r].type, row[r].remaining, row[r].ref,
                   row[r].signaled, {}, {}, row[r].callbacks, row[r].payloads)
<1> DEFINE rw == [row[r] EXCEPT !.state = "INVALID", !.children = {}, !.parents = {}]
<1>1. row' = [row EXCEPT ![r] = rw]
  OBVIOUS
<1>2. rw \in RowType
  <2>1. ASSUME NEW a \in RowType PROVE [a EXCEPT !.state = "INVALID"] \in RowType
    BY DEF RowType
  <2>2. ASSUME NEW a \in RowType PROVE [a EXCEPT !.children = {}] \in RowType
    BY DEF RowType
  <2>3. ASSUME NEW a \in RowType PROVE [a EXCEPT !.parents = {}] \in RowType
    BY DEF RowType
  <2> QED
    BY <2>1, <2>2, <2>3
<1>3. Fields(rw, "INVALID", row[r].type, row[r].remaining, row[r].ref,
             row[r].signaled, {}, {}, row[r].callbacks, row[r].payloads)
  BY DEF Fields, RowType
<1> HIDE DEF rw
<1> QED
  BY <1>1, <1>2, <1>3, RowReplaced

\* A merge without a member to come is complete from the start.
LEMMA MergedRow ==
  ASSUME TypeOK, NEW t \in Threads, obj[t] \in Rows, MergeEnd(t)
  PROVE  LET g == obj[t]
             none == ~(row[g].remaining > 0) IN
         /\ OnlyRow(g)
         /\ Fields(row'[g], IF none THEN ParentState(row[g].state, "SUCCESS")
                            ELSE row[g].state,
                   row[g].type, row[g].remaining, row[g].ref,
                   IF none THEN TRUE ELSE row[g].signaled, row[g].children,
                   row[g].parents, row[g].callbacks, row[g].payloads)
<1> DEFINE g == obj[t]
           none == ~(row[g].remaining > 0)
           rw == [row[g] EXCEPT !.state = ParentState(@, "SUCCESS"), !.signaled = TRUE]
<1>1. row \in [Rows -> RowType] /\ row[g] \in RowType
  BY DEF TypeOK
<1>2. row' = [row EXCEPT ![g] = IF none THEN rw ELSE row[g]]
  BY DEF MergeEnd
<1>3. ParentState(row[g].state, "SUCCESS") \in SignaledStates \cup {"INVALID", "ACTIVE"}
  BY <1>1, RowFields DEF ParentState, SignaledStates
<1>4. ASSUME NEW s \in SignaledStates \cup {"INVALID", "ACTIVE"}
      PROVE  /\ [row[g] EXCEPT !.state = s, !.signaled = TRUE] \in RowType
             /\ Fields([row[g] EXCEPT !.state = s, !.signaled = TRUE], s, row[g].type,
                       row[g].remaining, row[g].ref, TRUE, row[g].children,
                       row[g].parents, row[g].callbacks, row[g].payloads)
  BY <1>1 DEF RowType, Fields
<1>5. rw \in RowType /\ Fields(rw, ParentState(row[g].state, "SUCCESS"), row[g].type,
                       row[g].remaining, row[g].ref, TRUE, row[g].children,
                       row[g].parents, row[g].callbacks, row[g].payloads)
  BY <1>3, <1>4
<1> HIDE DEF rw
<1>6. CASE none
  BY <1>1, <1>2, <1>5, <1>6, RowReplaced
<1>7. CASE ~none
  BY <1>1, <1>2, <1>7, RowReplaced DEF Fields
<1> QED
  BY <1>6, <1>7

\* An active member and its group are linked.
LEMMA LinkedRows ==
  ASSUME row \in [Rows -> RowType], NEW g \in Rows, NEW c \in Rows, c # g,
         row' = [row EXCEPT ![g].remaining = @ + 1, ![g].children = @ \cup {c},
                            ![c].parents = @ \cup {g}]
  PROVE  /\ row' \in [Rows -> RowType]
         /\ \A x \in Rows \ {g, c} : row'[x] = row[x]
         /\ Fields(row'[g], row[g].state, row[g].type, row[g].remaining + 1, row[g].ref,
                   row[g].signaled, row[g].children \cup {c}, row[g].parents,
                   row[g].callbacks, row[g].payloads)
         /\ Fields(row'[c], row[c].state, row[c].type, row[c].remaining, row[c].ref,
                   row[c].signaled, row[c].children, row[c].parents \cup {g},
                   row[c].callbacks, row[c].payloads)
<1> DEFINE G == [row[g] EXCEPT !.remaining = row[g].remaining + 1,
                               !.children = row[g].children \cup {c}]
           C == [row[c] EXCEPT !.parents = row[c].parents \cup {g}]
<1>1. row[g] \in RowType /\ row[c] \in RowType
  OBVIOUS
<1>2. row' = [row EXCEPT ![g] = G, ![c] = C]
  OBVIOUS
<1>3. /\ G \in RowType
      /\ Fields(G, row[g].state, row[g].type, row[g].remaining + 1, row[g].ref,
                row[g].signaled, row[g].children \cup {c}, row[g].parents,
                row[g].callbacks, row[g].payloads)
  <2>1. row[g].remaining + 1 \in Int /\ row[g].children \cup {c} \in SUBSET Rows
    BY <1>1, RowFields
  <2>2. ASSUME NEW n \in Int, NEW S \in SUBSET Rows
        PROVE  /\ [row[g] EXCEPT !.remaining = n, !.children = S] \in RowType
               /\ Fields([row[g] EXCEPT !.remaining = n, !.children = S], row[g].state,
                         row[g].type, n, row[g].ref, row[g].signaled, S,
                         row[g].parents, row[g].callbacks, row[g].payloads)
    BY <1>1 DEF RowType, Fields
  <2> QED
    BY <2>1, <2>2
<1>4. /\ C \in RowType
      /\ Fields(C, row[c].state, row[c].type, row[c].remaining, row[c].ref,
                row[c].signaled, row[c].children, row[c].parents \cup {g},
                row[c].callbacks, row[c].payloads)
  <2>1. row[c].parents \cup {g} \in SUBSET Rows
    BY <1>1, RowFields
  <2>2. ASSUME NEW S \in SUBSET Rows
        PROVE  /\ [row[c] EXCEPT !.parents = S] \in RowType
               /\ Fields([row[c] EXCEPT !.parents = S], row[c].state,
                         row[c].type, row[c].remaining, row[c].ref, row[c].signaled,
                         row[c].children, S, row[c].callbacks, row[c].payloads)
    BY <1>1 DEF RowType, Fields
  <2> QED
    BY <2>1, <2>2
<1> HIDE DEF G, C
<1>5. row'[g] = G /\ row'[c] = C /\ \A x \in Rows \ {g, c} : row'[x] = row[x]
  BY <1>2
<1>6. row' \in [Rows -> RowType]
  BY <1>2, <1>3, <1>4
<1> QED
  BY <1>3, <1>4, <1>5, <1>6

-----------------------------------------------------------------------------
(* The steps, by what they change                                          *)

\* Fields that only signalling, merging and destroying change.
Kept(r) ==
  /\ row'[r].state = row[r].state /\ row'[r].type = row[r].type
  /\ row'[r].remaining = row[r].remaining /\ row'[r].signaled = row[r].signaled
  /\ row'[r].children = row[r].children /\ row'[r].parents = row[r].parents

\* The steps of no call: references, callbacks, payloads and cam_sync_open.
Aside ==
  \/ \E r \in Rows : RowStep(r)
  \/ \E k \in Callbacks : RunCallback(k)
  \/ OpenDevice

\* cam_sync_close between the objects it visits.
CloseMove(t) ==
  \/ CloseBegin(t) \/ CloseFlush(t) \/ CloseFlushed(t) \/ CloseEnd(t)
  \/ \E r \in Rows :
       /\ pc[t] \in {"sweep", "reap"}
       /\ pc[t] = "reap" => ~Valid(r)
       /\ sweep' = sweep \ {r}
       /\ UNCHANGED <<rowVars, cb, threadVars, history, closer, phase, waitfor, eventq>>

\* A merge before it has a row: the members are checked one by one.
MergeLook(t) ==
  \/ MergeNoRow(t)
  \/ \E c \in Rows :
       MergeCheck(t, c) \/ \E members \in SUBSET Rows : MergeBegin(t, members, c)

\* An object is signalled by hardware, by user space or by cam_sync_close.
SignalCall(t, r, s) ==
  /\ pc[t] \in {"idle", "signal", "sweep"} /\ s \in SignaledStates
  /\ SignalBody(t, r, s)
  /\ sweep' = sweep \/ (pc[t] = "sweep" /\ sweep' = sweep \ {r})
  /\ UNCHANGED <<closer, phase, waitfor, eventq>>

\* An object is destroyed by its owner or by cam_sync_close.
DestroyCall(t, r) ==
  /\ pc[t] \in {"idle", "reap"}
  /\ DestroyBody(t, r)
  /\ sweep' = sweep \/ (pc[t] = "reap" /\ sweep' = sweep \ {r})
  /\ UNCHANGED <<closer, phase, waitfor, eventq>>

\* Every step leaves the rows alone (Aside) or is one of the steps listed.
LEMMA StepCases ==
  ASSUME TypeOK, ThreadStages, Next
  PROVE  \/ Aside
         \/ \E t \in Threads :
              \/ CloseMove(t) \/ MergeLook(t)
              \/ CreateInit(t) \/ MergeInit(t) \/ MergeAbort(t) \/ MergeEnd(t)
              \/ DestroyEnd(t)
              \/ \E r \in Rows :
                   \/ CreateReserve(t, r) \/ MergeReserve(t, r) \/ NotifyParent(t, r)
                   \/ MergeLink(t, r) \/ MergeFail(t, r) \/ MergeUnlink(t, r)
                   \/ DestroyChild(t, r) \/ DestroyParent(t, r)
                   \/ DestroyCall(t, r)
                   \/ \E s \in SignaledStates : SignalCall(t, r, s) \/ UserSignal(t, r, s)
<1>1. Statuses \subseteq SignaledStates /\ "ERROR" \in SignaledStates
  BY BoundAssumption DEF SignaledStates
<1>2. ASSUME NEW t \in Threads, NEW r \in Rows, NEW s \in Statuses, Signal(t, r, s)
      PROVE  SignalCall(t, r, s)
  BY <1>1, <1>2 DEF Signal, SignalCall, Enter, closeVars
<1>3. ASSUME NEW t \in Threads, UserSignalEnd(t)
      PROVE  \E r \in Rows, s \in SignaledStates : SignalCall(t, r, s)
  <2>1. obj[t] \in Rows /\ status[t] \in SignaledStates
    BY <1>3 DEF UserSignalEnd, ThreadStages
  <2>2. SignalCall(t, obj[t], status[t])
    BY <1>3, <2>1 DEF UserSignalEnd, SignalCall, closeVars
  <2> QED
    BY <2>1, <2>2
<1>4. ASSUME NEW t \in Threads, NEW r \in Rows, CloseSignal(t, r)
      PROVE  CloseMove(t) \/ SignalCall(t, r, "ERROR")
  <2>1. CASE row[r].state = "ACTIVE"
    BY <1>1, <1>4, <2>1 DEF CloseSignal, SignalCall
  <2>2. CASE row[r].state # "ACTIVE"
    BY <1>4, <2>2 DEF CloseSignal, CloseMove
  <2> QED
    BY <2>1, <2>2
<1>5. ASSUME NEW t \in Threads, NEW r \in Rows, Destroy(t, r)
      PROVE  DestroyCall(t, r)
  BY <1>5 DEF Destroy, DestroyCall, Enter, closeVars
<1>6. ASSUME NEW t \in Threads, NEW r \in Rows, CloseDestroy(t, r)
      PROVE  CloseMove(t) \/ DestroyCall(t, r)
  <2>1. CASE Valid(r)
    BY <1>6, <2>1 DEF CloseDestroy, DestroyCall
  <2>2. CASE ~Valid(r)
    BY <1>6, <2>2 DEF CloseDestroy, CloseMove
  <2> QED
    BY <2>1, <2>2
<1>7. ASSUME NEW t \in Threads,
             CloseBegin(t) \/ CloseFlush(t) \/ CloseFlushed(t) \/ CloseEnd(t)
      PROVE  CloseMove(t)
  BY <1>7 DEF CloseMove
<1>8. CASE Aside
  BY <1>8
<1>9. ASSUME NEW t \in Threads, ThreadStep(t)
      PROVE  \/ CloseMove(t) \/ MergeLook(t)
             \/ CreateInit(t) \/ MergeInit(t) \/ MergeAbort(t) \/ MergeEnd(t)
             \/ DestroyEnd(t)
             \/ \E r \in Rows :
                  \/ CreateReserve(t, r) \/ MergeReserve(t, r) \/ NotifyParent(t, r)
                  \/ MergeLink(t, r) \/ MergeFail(t, r) \/ MergeUnlink(t, r)
                  \/ DestroyChild(t, r) \/ DestroyParent(t, r)
                  \/ DestroyCall(t, r)
                  \/ \E s \in SignaledStates : SignalCall(t, r, s) \/ UserSignal(t, r, s)
  BY <1>1, <1>2, <1>3, <1>4, <1>5, <1>6, <1>7, <1>9 DEF ThreadStep, MergeLook
<1> QED
  BY <1>8, <1>9 DEF Next, Aside

\* The thread t is somewhere else, and the other threads where they were.
Moves(t, at, o, l, p) ==
  /\ pc' = [pc EXCEPT ![t] = at]
  /\ obj' = [obj EXCEPT ![t] = o]
  /\ list' = [list EXCEPT ![t] = l]
  /\ parents' = [parents EXCEPT ![t] = p]

\* A call that returns is done, or goes on in the loop of cam_sync_close.
LEMMA Returns ==
  ASSUME TypeOK, CloseStages, NEW t \in Threads, Return(t)
  PROVE  /\ \E at \in {"idle", "sweep", "reap"} : Moves(t, at, NoRow, {}, {})
         /\ status' = [status EXCEPT ![t] = "none"]
<1>1. (IF closer = t THEN phase ELSE "idle") \in {"idle", "sweep", "reap"}
  BY ThreadAssumption DEF TypeOK, CloseStages
<1> QED
  BY <1>1 DEF Return, Goto, Moves

\* The checks of a merge change where the thread is and what it has to visit.
LEMMA Looks ==
  ASSUME TypeOK, CloseStages, NEW t \in Threads, MergeLook(t)
  PROVE  /\ pc[t] \in {"idle", "check"}
         /\ UNCHANGED <<rowVars, cb, closeVars, history>>
         /\ \/ \E at \in {"idle", "sweep", "reap"} :
                 Moves(t, at, NoRow, {}, {}) /\ status' = [status EXCEPT ![t] = "none"]
            \/ \E l \in SUBSET Rows, p \in SUBSET Rows :
                 Moves(t, "check", obj[t], l, p) /\ status' = status
<1>1. obj' = obj => obj' = [obj EXCEPT ![t] = obj[t]]
  BY DEF TypeOK
<1>2. ASSUME NEW c \in Rows, NEW members \in SUBSET Rows, MergeBegin(t, members, c)
      PROVE  /\ pc[t] = "idle"
             /\ Moves(t, "check", obj[t], members \ {c}, {c}) /\ status' = status
  BY <1>1, <1>2 DEF MergeBegin, Enter, Goto, Moves
<1>3. ASSUME NEW c \in Rows, MergeCheck(t, c), Checked(c)
      PROVE  Moves(t, "check", obj[t], list[t] \ {c}, parents[t] \cup {c}) /\ status' = status
  <2>1. pc' = [pc EXCEPT ![t] = "check"]
    BY <1>3 DEF MergeCheck, TypeOK
  <2> QED
    BY <1>1, <1>3, <2>1 DEF MergeCheck, Moves
<1>4. ASSUME NEW c \in Rows, MergeCheck(t, c), ~Checked(c) PROVE Return(t)
  BY <1>4 DEF MergeCheck
<1>5. ASSUME MergeNoRow(t) PROVE Return(t)
  BY <1>5 DEF MergeNoRow
<1>6. list[t] \in SUBSET Rows /\ parents[t] \in SUBSET Rows
  BY DEF TypeOK
<1>7. pc[t] \in {"idle", "check"} /\ UNCHANGED <<rowVars, cb, closeVars, history>>
  BY <1>2 DEF MergeLook, MergeNoRow, MergeCheck, MergeBegin
<1> DEFINE Back == \E at \in {"idle", "sweep", "reap"} :
                     Moves(t, at, NoRow, {}, {}) /\ status' = [status EXCEPT ![t] = "none"]
           On == \E l \in SUBSET Rows, p \in SUBSET Rows :
                   Moves(t, "check", obj[t], l, p) /\ status' = status
<1>8. ASSUME Return(t) PROVE Back
  BY <1>8, Returns
<1>9. ASSUME NEW c \in Rows, NEW members \in SUBSET Rows, MergeBegin(t, members, c)
      PROVE  On
  <2>1. members \ {c} \in SUBSET Rows /\ {c} \in SUBSET Rows
    BY <1>9 DEF MergeBegin
  <2> QED
    BY <1>2, <1>9, <2>1
<1>10. ASSUME NEW c \in Rows, MergeCheck(t, c), Checked(c) PROVE On
  <2>1. list[t] \ {c} \in SUBSET Rows /\ parents[t] \cup {c} \in SUBSET Rows
    BY <1>6
  <2> QED
    BY <1>3, <1>10, <2>1
<1> HIDE DEF Back, On
<1>11. Back \/ On
  BY <1>4, <1>5, <1>8, <1>9, <1>10 DEF MergeLook
<1> QED
  BY <1>7, <1>11 DEF Back, On

\* References, callbacks and payloads leave all else alone.
LEMMA Besides ==
  ASSUME TypeOK, Aside
  PROVE  /\ row' \in [Rows -> RowType] /\ \A r \in Rows : Kept(r)
         /\ UNCHANGED <<bitmap, lock, threadVars, closer, phase, sweep, waitfor, history>>
<1>1. row \in [Rows -> RowType] /\ \A r \in Rows : row[r] \in RowType
  BY DEF TypeOK
<1>2. ASSUME NEW r \in Rows, OnlyRow(r), Kept(r)
      PROVE  row' \in [Rows -> RowType] /\ \A x \in Rows : Kept(x)
  BY <1>2 DEF OnlyRow, Kept
<1>3. ASSUME NEW r \in Rows, GetObjRef(r) \/ PutObjRef(r)
      PROVE  OnlyRow(r) /\ Kept(r)
  <2>1. row[r].ref + 1 \in Int /\ row[r].ref - 1 \in Int
    BY <1>1, RowFields
  <2> QED
    BY <1>1, <1>3, <2>1, RefSet DEF GetObjRef, PutObjRef, Fields, Kept
<1>4. ASSUME NEW r \in Rows, NEW k \in Callbacks, RegisterCallback(k, r)
      PROVE  row' = row \/ (OnlyRow(r) /\ Kept(r))
  <2>1. row[r].callbacks \cup {k} \in SUBSET Callbacks
    BY <1>1, RowFields
  <2> QED
    BY <1>1, <1>4, <2>1, CallbacksSet DEF RegisterCallback, Fields, Kept
<1>5. ASSUME NEW r \in Rows, NEW k \in Callbacks, DeregisterCallback(k, r)
      PROVE  OnlyRow(r) /\ Kept(r)
  <2>1. row[r].callbacks \ {k} \in SUBSET Callbacks
    BY <1>1, RowFields
  <2> QED
    BY <1>1, <1>5, <2>1, CallbacksSet DEF DeregisterCallback, Fields, Kept
<1>6. ASSUME NEW r \in Rows, NEW p \in Payloads,
             RegisterPayload(p, r) \/ DeregisterPayload(p, r)
      PROVE  OnlyRow(r) /\ Kept(r)
  <2>1. row[r].payloads \cup {p} \in SUBSET Payloads
        /\ row[r].payloads \ {p} \in SUBSET Payloads
    BY <1>1, RowFields
  <2> QED
    BY <1>1, <1>6, <2>1, PayloadsSet DEF RegisterPayload, DeregisterPayload, Fields, Kept
<1>7. ASSUME row' = row
      PROVE  row' \in [Rows -> RowType] /\ \A r \in Rows : Kept(r)
  BY <1>1, <1>7 DEF Kept
<1>8. row' \in [Rows -> RowType] /\ \A r \in Rows : Kept(r)
  BY <1>2, <1>3, <1>4, <1>5, <1>6, <1>7 DEF Aside, RowStep, RunCallback, OpenDevice, rowVars
<1>9. UNCHANGED <<bitmap, lock, threadVars, closer, phase, sweep, waitfor, history>>
  BY DEF Aside, RowStep, RunCallback, OpenDevice, GetObjRef, PutObjRef,
     RegisterCallback, DeregisterCallback, RegisterPayload, DeregisterPayload, rowVars, closeVars
<1> QED
  BY <1>8, <1>9

\* cam_sync_signal gives a reference back ...
SignalLess(t, r) ==
  /\ OnlyRow(r) /\ Kept(r)
  /\ row'[r].callbacks = row[r].callbacks /\ row'[r].payloads = row[r].payloads
  /\ UNCHANGED <<bitmap, lock, cb, history>>
  /\ \E at \in {"idle", "sweep", "reap"} : Moves(t, at, NoRow, {}, {})
  /\ status' = [status EXCEPT ![t] = "none"]

\* ... or signals, and has the groups of the object to notify, if any.
SignalLast(t, r, s) ==
  /\ row[r].type = "INDV" /\ row[r].state = "ACTIVE" /\ Unlocked(r)
  /\ OnlyRow(r)
  /\ Fields(row'[r], s, row[r].type, row[r].remaining, 0, TRUE,
            row[r].children, {}, {}, IF eventq THEN {} ELSE row[r].payloads)
  /\ cb' = Queued(row[r], s)
  /\ MemberSignaled(r, s)
  /\ UNCHANGED <<bitmap, lock>>
  /\ \/ /\ row[r].parents = {}
        /\ \E at \in {"idle", "sweep", "reap"} : Moves(t, at, NoRow, {}, {})
        /\ status' = [status EXCEPT ![t] = "none"]
     \/ /\ row[r].parents # {}
        /\ Moves(t, "notify", NoRow, row[r].parents, parents[t])
        /\ status' = [status EXCEPT ![t] = s]

\* cam_sync_signal gives a reference back or, with the last one, signals.
LEMMA SignalSteps ==
  ASSUME TypeOK, CloseStages, NEW t \in Threads, NEW r \in Rows,
         NEW s \in SignaledStates, SignalCall(t, r, s)
  PROVE  SignalLess(t, r) \/ SignalLast(t, r, s)
<1>1. row \in [Rows -> RowType] /\ row[r] \in RowType
  BY DEF TypeOK
<1>2. CASE Signalable(r) /\ row[r].ref = 1
  <2>1. /\ row' = [row EXCEPT ![r] = [Dispatched(@) EXCEPT !.state = s, !.ref = 0,
                                                           !.parents = {}]]
        /\ cb' = Queued(row[r], s) /\ MemberSignaled(r, s)
        /\ UNCHANGED <<bitmap, lock>> /\ Unlocked(r)
        /\ IF row[r].parents = {} THEN Return(t)
           ELSE /\ Goto(t, "notify")
                /\ obj' = [obj EXCEPT ![t] = NoRow]
                /\ status' = [status EXCEPT ![t] = s]
                /\ list' = [list EXCEPT ![t] = row[r].parents]
                /\ UNCHANGED parents
    BY <1>2 DEF SignalCall, SignalBody
  <2>2. /\ OnlyRow(r)
        /\ Fields(row'[r], s, row[r].type, row[r].remaining, 0, TRUE,
                  row[r].children, {}, {}, IF eventq THEN {} ELSE row[r].payloads)
    BY <1>1, <2>1, SignaledRow
  <2>3. row[r].parents # {} => parents' = [parents EXCEPT ![t] = parents[t]]
    BY <2>1 DEF TypeOK
  <2> QED
    BY <1>2, <2>1, <2>2, <2>3, Returns DEF SignalLast, Signalable, Moves, Goto
<1>3. CASE ~(Signalable(r) /\ row[r].ref = 1)
  <2>1. /\ row' = IF Signalable(r) THEN [row EXCEPT ![r].ref = @ - 1] ELSE row
        /\ Return(t) /\ UNCHANGED <<cb, history, bitmap, lock>>
    BY <1>3 DEF SignalCall, SignalBody
  <2>2. row[r].ref - 1 \in Int
    BY <1>1, RowFields
  <2>3. OnlyRow(r) /\ Kept(r) /\ row'[r].callbacks = row[r].callbacks
        /\ row'[r].payloads = row[r].payloads
    <3>1. CASE Signalable(r)
      BY <1>1, <2>1, <2>2, <3>1, RefSet DEF Fields, Kept
    <3>2. CASE ~Signalable(r)
      BY <1>1, <2>1, <3>2 DEF OnlyRow, Kept
    <3> QED
      BY <3>1, <3>2
  <2> QED
    BY <2>1, <2>3, Returns DEF SignalLess
<1> QED
  BY <1>2, <1>3

\* The rows that the other steps of a call change.
LEMMA CreateInitRow ==
  ASSUME TypeOK, ThreadStages, NEW t \in Threads, CreateInit(t)
  PROVE  /\ OnlyRow(obj[t])
         /\ Fields(row'[obj[t]], "ACTIVE", "INDV", 0, 0, FALSE, {}, {}, {}, {})
         /\ obj[t] \in Rows
<1>1. row \in [Rows -> RowType] /\ obj[t] \in Rows
  BY DEF TypeOK, ThreadStages, CreateInit
<1> QED
  BY <1>1, RowReplaced, InitRowFields DEF CreateInit

\* What cam_sync_init_group_object makes of its row before it links members.
LEMMA MergeInitRow ==
  ASSUME TypeOK, ThreadStages, NEW t \in Threads, MergeInit(t)
  PROVE  /\ OnlyRow(obj[t])
         /\ Fields(row'[obj[t]], "ACTIVE", "GROUP", 0, 0, FALSE, {}, {}, {}, {})
         /\ obj[t] \in Rows
<1>1. row \in [Rows -> RowType] /\ obj[t] \in Rows
  BY DEF TypeOK, ThreadStages, MergeInit
<1> QED
  BY <1>1, RowReplaced, InitRowFields DEF MergeInit

\* What cam_sync_deinit_object makes of its row at its end.
LEMMA DestroyEndRow ==
  ASSUME TypeOK, ThreadStages, NEW t \in Threads, DestroyEnd(t)
  PROVE  /\ OnlyRow(obj[t])
         /\ Fields(row'[obj[t]], "INVALID", "INDV", 0, 0, FALSE, {}, {}, {}, {})
         /\ obj[t] \in Rows
<1>1. row \in [Rows -> RowType] /\ obj[t] \in Rows
  BY DEF TypeOK, ThreadStages, DestroyEnd
<1> QED
  BY <1>1, RowReplaced, ZeroRowFields DEF DestroyEnd

\* A merge that fails empties the child list of its row.
LEMMA MergeAbortRow ==
  ASSUME TypeOK, ThreadStages, NEW t \in Threads, MergeAbort(t)
  PROVE  /\ OnlyRow(obj[t])
         /\ Fields(row'[obj[t]], row[obj[t]].state, row[obj[t]].type,
                   row[obj[t]].remaining, row[obj[t]].ref, row[obj[t]].signaled,
                   {}, row[obj[t]].parents, row[obj[t]].callbacks,
                   row[obj[t]].payloads)
         /\ obj[t] \in Rows
<1>1. row \in [Rows -> RowType] /\ obj[t] \in Rows
  BY DEF TypeOK, ThreadStages, MergeAbort
<1> QED
  BY <1>1, ChildrenSet DEF MergeAbort

\* The ioctl takes a reference before it signals.
LEMMA UserSignalRow ==
  ASSUME TypeOK, ThreadStages, NEW t \in Threads, NEW r \in Rows,
         NEW s \in SignaledStates, UserSignal(t, r, s)
  PROVE  /\ OnlyRow(r)
         /\ Fields(row'[r], row[r].state, row[r].type, row[r].remaining,
                   row[r].ref + 1, row[r].signaled, row[r].children,
                   row[r].parents, row[r].callbacks, row[r].payloads)
<1>1. row \in [Rows -> RowType] /\ row[r].ref + 1 \in Int
  BY RowFields DEF TypeOK
<1> QED
  BY <1>1, RefSet DEF UserSignal

\* A merge that meets an invalid member invalidates its own row.
LEMMA MergeFailRow ==
  ASSUME TypeOK, ThreadStages, NEW t \in Threads, NEW c \in Rows, MergeFail(t, c)
  PROVE  /\ OnlyRow(obj[t])
         /\ Fields(row'[obj[t]], "INVALID", row[obj[t]].type,
                   row[obj[t]].remaining, row[obj[t]].ref, row[obj[t]].signaled,
                   row[obj[t]].children, row[obj[t]].parents,
                   row[obj[t]].callbacks, row[obj[t]].payloads)
         /\ obj[t] \in Rows
<1>1. row \in [Rows -> RowType] /\ obj[t] \in Rows
  BY DEF TypeOK, ThreadStages, MergeFail
<1> QED
  BY <1>1, StateSet DEF MergeFail

\* A merge that fails takes itself off the parent list of a member.
LEMMA MergeUnlinkRow ==
  ASSUME TypeOK, ThreadStages, NEW t \in Threads, NEW c \in Rows, MergeUnlink(t, c)
  PROVE  /\ OnlyRow(c)
         /\ Fields(row'[c], row[c].state, row[c].type, row[c].remaining,
                   row[c].ref, row[c].signaled, row[c].children,
                   row[c].parents \ {obj[t]}, row[c].callbacks, row[c].payloads)
<1>1. row \in [Rows -> RowType] /\ row[c].parents \ {obj[t]} \in SUBSET Rows
  BY RowFields DEF TypeOK
<1> QED
  BY <1>1, ParentsSet DEF MergeUnlink

\* Destruction takes the row off the parent list of a child that is valid.
LEMMA DestroyChildRow ==
  ASSUME TypeOK, ThreadStages, NEW t \in Threads, NEW c \in Rows, DestroyChild(t, c)
  PROVE  /\ OnlyRow(c)
         /\ Fields(row'[c], row[c].state, row[c].type, row[c].remaining,
                   row[c].ref, row[c].signaled, row[c].children,
                   IF Valid(c) THEN row[c].parents \ {obj[t]} ELSE row[c].parents,
                   row[c].callbacks, row[c].payloads)
<1>1. row \in [Rows -> RowType] /\ row[c].parents \ {obj[t]} \in SUBSET Rows
  BY RowFields DEF TypeOK
<1>2. CASE Valid(c)
  BY <1>1, <1>2, ParentsSet DEF DestroyChild
<1>3. CASE ~Valid(c)
  BY <1>1, <1>3 DEF DestroyChild, OnlyRow, Fields
<1> QED
  BY <1>2, <1>3

\* Destruction takes the row off the child list of a parent that is valid.
LEMMA DestroyParentRow ==
  ASSUME TypeOK, ThreadStages, NEW t \in Threads, NEW g \in Rows, DestroyParent(t, g)
  PROVE  /\ OnlyRow(g)
         /\ Fields(row'[g], row[g].state, row[g].type, row[g].remaining,
                   row[g].ref, row[g].signaled,
                   IF Valid(g) THEN row[g].children \ {obj[t]} ELSE row[g].children,
                   row[g].parents, row[g].callbacks, row[g].payloads)
<1>1. row \in [Rows -> RowType] /\ row[g].children \ {obj[t]} \in SUBSET Rows
  BY RowFields DEF TypeOK
<1>2. CASE Valid(g)
  BY <1>1, <1>2, ChildrenSet DEF DestroyParent
<1>3. CASE ~Valid(g)
  BY <1>1, <1>3 DEF DestroyParent, OnlyRow, Fields
<1> QED
  BY <1>2, <1>3

\* Destruction begins by invalidating the row.
LEMMA DestroyCallRow ==
  ASSUME TypeOK, ThreadStages, NEW t \in Threads, NEW r \in Rows, DestroyCall(t, r)
  PROVE  /\ OnlyRow(r)
         /\ Fields(row'[r], "INVALID", row[r].type, row[r].remaining, row[r].ref,
                   row[r].signaled, {}, {}, row[r].callbacks, row[r].payloads)
  BY DestroyedRow DEF TypeOK, DestroyCall, DestroyBody

\* A member that is active is linked; one that has failed leaves its error.
Links(t, c) ==
  LET g == obj[t] IN
  /\ row[c].state = "ACTIVE"
  /\ row' \in [Rows -> RowType]
  /\ \A x \in Rows \ {g, c} : row'[x] = row[x]
  /\ Fields(row'[g], row[g].state, row[g].type, row[g].remaining + 1, row[g].ref,
            row[g].signaled, row[g].children \cup {c}, row[g].parents,
            row[g].callbacks, row[g].payloads)
  /\ Fields(row'[c], row[c].state, row[c].type, row[c].remaining, row[c].ref,
            row[c].signaled, row[c].children, row[c].parents \cup {g},
            row[c].callbacks, row[c].payloads)
  /\ pending' = [pending EXCEPT ![g] = @ \cup {c}]
  /\ UNCHANGED failed

Inherits(t, c) ==
  LET g == obj[t] IN
  /\ Signaled(c)
  /\ OnlyRow(g)
  /\ Fields(row'[g], IF row[c].state = "SUCCESS" THEN row[g].state ELSE row[c].state,
            row[g].type, row[g].remaining, row[g].ref, row[g].signaled,
            row[g].children, row[g].parents, row[g].callbacks, row[g].payloads)
  /\ failed' = IF row[c].state = "SUCCESS" THEN failed ELSE failed \cup {g}
  /\ UNCHANGED pending

\* A merge links a member that is to come, or inherits one that was signalled.
LEMMA MergeLinkRows ==
  ASSUME TypeOK, ThreadStages, OwnedRows, NEW t \in Threads, NEW c \in Rows,
         MergeLink(t, c)
  PROVE  /\ obj[t] \in Rows /\ c # obj[t]
         /\ Links(t, c) \/ Inherits(t, c)
<1>1. /\ row \in [Rows -> RowType] /\ row[c] \in RowType /\ obj[t] \in Rows
      /\ lock[obj[t]] = t
  BY DEF TypeOK, ThreadStages, OwnedRows, MergeLink
<1>2. c # obj[t]
  BY <1>1, ThreadAssumption DEF MergeLink, Unlocked
<1>3. CASE row[c].state = "ACTIVE"
  <2>1. row' = [row EXCEPT ![obj[t]].remaining = @ + 1,
                           ![obj[t]].children = @ \cup {c},
                           ![c].parents = @ \cup {obj[t]}]
        /\ pending' = [pending EXCEPT ![obj[t]] = @ \cup {c}] /\ UNCHANGED failed
    BY <1>3 DEF MergeLink
  <2>2. Links(t, c)
    BY <1>1, <1>2, <1>3, <2>1, LinkedRows DEF Links
  <2> QED
    BY <1>1, <1>2, <2>2
<1>4. CASE row[c].state # "ACTIVE"
  <2>1. Signaled(c)
    BY <1>1, <1>4, RowFields DEF MergeLink, Valid, Signaled
  <2>2. /\ row' = IF row[c].state = "SUCCESS" THEN row
                  ELSE [row EXCEPT ![obj[t]].state = row[c].state]
        /\ failed' = IF row[c].state = "SUCCESS" THEN failed ELSE failed \cup {obj[t]}
        /\ UNCHANGED pending
    BY <1>4 DEF MergeLink
  <2>3. CASE row[c].state = "SUCCESS"
    BY <1>1, <1>2, <2>1, <2>2, <2>3 DEF Inherits, OnlyRow, Fields
  <2>4. CASE row[c].state # "SUCCESS"
    BY <1>1, <1>2, <2>1, <2>2, <2>4, StateSet, RowFields DEF Inherits
  <2> QED
    BY <2>3, <2>4
<1> QED
  BY <1>3, <1>4

-----------------------------------------------------------------------------
(* Types                                                                   *)

CallbackType == [at: {"none", "list", "work"}, obj: Rows \cup {NoRow},
                 status: SignaledStates \cup {"none"}]

Listed(k, r) == cb[k].at = "list" /\ cb[k].obj = r

\* Dispatch sends the callbacks of the row, and only them, with its status.
LEMMA QueuedFields ==
  ASSUME TypeOK, NEW rw \in RowType, NEW s \in SignaledStates, cb' = Queued(rw, s)
  PROVE  /\ cb' \in [Callbacks -> CallbackType]
         /\ \A k \in Callbacks :
              /\ cb'[k].obj = cb[k].obj
              /\ k \in rw.callbacks => cb'[k].at = "work" /\ cb'[k].status = s
              /\ k \notin rw.callbacks => cb'[k] = cb[k]
<1>1. \A k \in Callbacks : cb[k] \in CallbackType
  BY DEF TypeOK, CallbackType
<1>2. ASSUME NEW k \in Callbacks
      PROVE  /\ [cb[k] EXCEPT !.at = "work", !.status = s] \in CallbackType
             /\ [cb[k] EXCEPT !.at = "work", !.status = s].obj = cb[k].obj
             /\ [cb[k] EXCEPT !.at = "work", !.status = s].at = "work"
             /\ [cb[k] EXCEPT !.at = "work", !.status = s].status = s
  BY <1>1 DEF CallbackType
<1> QED
  BY <1>1, <1>2 DEF Queued

\* The callback nobody has registered.
LEMMA NoCallbackType ==
  /\ NoCallback \in CallbackType
  /\ NoCallback.at = "none" /\ NoCallback.obj = NoRow /\ NoCallback.status = "none"
  BY DEF NoCallback, CallbackType

\* DestroyEnd takes the callbacks of the row along.
LEMMA DestroyEndCallbacks ==
  ASSUME TypeOK, NEW t \in Threads, DestroyEnd(t)
  PROVE  /\ cb' \in [Callbacks -> CallbackType]
         /\ \A k \in Callbacks :
              IF k \in row[obj[t]].callbacks THEN cb'[k] = NoCallback
              ELSE IF cb[k].obj = obj[t]
              THEN cb'[k].at = cb[k].at /\ cb'[k].obj = NoRow
              ELSE cb'[k] = cb[k]
<1>1. \A k \in Callbacks : cb[k] \in CallbackType
  BY DEF TypeOK, CallbackType
<1>2. ASSUME NEW k \in Callbacks
      PROVE  /\ [cb[k] EXCEPT !.obj = NoRow, !.status = "none"] \in CallbackType
             /\ [cb[k] EXCEPT !.obj = NoRow, !.status = "none"].obj = NoRow
             /\ [cb[k] EXCEPT !.obj = NoRow, !.status = "none"].at = cb[k].at
  BY <1>1 DEF CallbackType
<1> QED
  BY <1>1, <1>2, NoCallbackType DEF DestroyEnd

\* Rows keep their type, and a callback is on the list of one row at most.
Callbacked ==
  /\ row' \in [Rows -> RowType] /\ cb' \in [Callbacks -> CallbackType]
  /\ \A k \in Callbacks, r \in Rows :
       k \in row'[r].callbacks <=> (cb'[k].at = "list" /\ cb'[k].obj = r)

\* The steps that leave the rows alone, for Callbacked.
LEMMA AsideCallbacked ==
  ASSUME StructInv, Aside PROVE Callbacked
<1>1. /\ row \in [Rows -> RowType] /\ \A r \in Rows : row[r] \in RowType
      /\ cb \in [Callbacks -> CallbackType] /\ row' \in [Rows -> RowType]
      /\ \A k \in Callbacks, r \in Rows : k \in row[r].callbacks <=> Listed(k, r)
  BY Besides DEF StructInv, TypeOK, CallbackType, Listed
<1>2. ASSUME NEW r \in Rows, GetObjRef(r) \/ PutObjRef(r) PROVE Callbacked
  <2>1. row[r].ref + 1 \in Int /\ row[r].ref - 1 \in Int
    BY <1>1, RowFields
  <2>2. cb' = cb /\ \A x \in Rows : row'[x].callbacks = row[x].callbacks
    BY <1>1, <1>2, <2>1, RefSet DEF GetObjRef, PutObjRef, OnlyRow, Fields
  <2> QED
    BY <1>1, <2>2 DEF Callbacked, Listed
<1>3. ASSUME NEW r \in Rows, NEW p \in Payloads,
             RegisterPayload(p, r) \/ DeregisterPayload(p, r) PROVE Callbacked
  <2>1. row[r].payloads \cup {p} \in SUBSET Payloads
        /\ row[r].payloads \ {p} \in SUBSET Payloads
    BY <1>1, RowFields
  <2>2. cb' = cb /\ \A x \in Rows : row'[x].callbacks = row[x].callbacks
    BY <1>1, <1>3, <2>1, PayloadsSet DEF RegisterPayload, DeregisterPayload, OnlyRow, Fields
  <2> QED
    BY <1>1, <2>2 DEF Callbacked, Listed
<1>4. ASSUME NEW r \in Rows, NEW k \in Callbacks, RegisterCallback(k, r) PROVE Callbacked
  <2>1. row[r].callbacks \cup {k} \in SUBSET Callbacks
    BY <1>1, RowFields
  <2>2. CASE Signaled(r) /\ row[r].remaining = 0
    <3>1. /\ row' = row
          /\ cb' = [cb EXCEPT ![k] = [at |-> "work", obj |-> r, status |-> row[r].state]]
          /\ row[r].state \in SignaledStates /\ cb[k].at = "none"
      BY <1>4, <2>2 DEF RegisterCallback, Signaled
    <3>2. [at |-> "work", obj |-> r, status |-> row[r].state] \in CallbackType
      BY <3>1 DEF CallbackType
    <3> QED
      BY <1>1, <3>1, <3>2 DEF Callbacked, Listed
  <2>3. CASE ~(Signaled(r) /\ row[r].remaining = 0)
    <3>1. /\ row' = [row EXCEPT ![r].callbacks = @ \cup {k}]
          /\ cb' = [cb EXCEPT ![k] = [at |-> "list", obj |-> r, status |-> "none"]]
          /\ cb[k].at = "none"
      BY <1>4, <2>3 DEF RegisterCallback
    <3>2. [at |-> "list", obj |-> r, status |-> "none"] \in CallbackType
      BY DEF CallbackType
    <3>3. /\ row'[r].callbacks = row[r].callbacks \cup {k}
          /\ \A x \in Rows \ {r} : row'[x].callbacks = row[x].callbacks
      BY <1>1, <2>1, <3>1, CallbacksSet DEF OnlyRow, Fields
    <3> QED
      BY <1>1, <3>1, <3>2, <3>3 DEF Callbacked, Listed
  <2> QED
    BY <2>2, <2>3
<1>5. ASSUME NEW r \in Rows, NEW k \in Callbacks, DeregisterCallback(k, r) PROVE Callbacked
  <2>1. row[r].callbacks \ {k} \in SUBSET Callbacks
    BY <1>1, RowFields
  <2>2. /\ row'[r].callbacks = row[r].callbacks \ {k}
        /\ \A x \in Rows \ {r} : row'[x].callbacks = row[x].callbacks
    BY <1>1, <1>5, <2>1, CallbacksSet DEF DeregisterCallback, OnlyRow, Fields
  <2> QED
    BY <1>1, <1>5, <2>2, NoCallbackType DEF DeregisterCallback, Callbacked, Listed
<1>6. ASSUME NEW k \in Callbacks, RunCallback(k) PROVE Callbacked
  BY <1>1, <1>6, NoCallbackType DEF RunCallback, rowVars, Callbacked, Listed
<1>7. CASE OpenDevice
  BY <1>1, <1>7 DEF OpenDevice, rowVars, Callbacked, Listed
<1> QED
  BY <1>2, <1>3, <1>4, <1>5, <1>6, <1>7 DEF Aside, RowStep

\* Every step moves callbacks from a row's list to the work queue and on.
LEMMA NextCallbacked ==
  ASSUME StructInv, [Next]_vars PROVE Callbacked
<1>1. /\ row \in [Rows -> RowType] /\ \A r \in Rows : row[r] \in RowType
      /\ cb \in [Callbacks -> CallbackType]
      /\ \A k \in Callbacks, r \in Rows : k \in row[r].callbacks <=> Listed(k, r)
  BY DEF StructInv, TypeOK, CallbackType, Listed
<1>2. ASSUME row' \in [Rows -> RowType], cb' = cb,
             \A r \in Rows : row'[r].callbacks = row[r].callbacks
      PROVE  Callbacked
  BY <1>1, <1>2 DEF Callbacked, Listed
<1>3. CASE UNCHANGED vars
  BY <1>1, <1>2, <1>3 DEF vars
<1>4. ASSUME NEW t \in Threads, CreateInit(t) PROVE Callbacked
  <2>1. row[obj[t]].callbacks = {}
    <3>1. obj[t] \in Rows
      BY <1>4, CreateInitRow DEF StructInv
    <3>2. \A k \in Callbacks : cb[k].obj # obj[t]
      BY <1>4 DEF StructInv, FreshCallbacks, CreateInit
    <3>3. row[obj[t]].callbacks \in SUBSET Callbacks
      BY <1>1, <3>1, RowFields
    <3> QED
      BY <1>1, <3>1, <3>2, <3>3 DEF Listed
  <2> QED
    BY <1>2, <1>4, <2>1, CreateInitRow DEF StructInv, OnlyRow, Fields, CreateInit
<1>5. ASSUME NEW t \in Threads, MergeInit(t) PROVE Callbacked
  <2>1. row[obj[t]].callbacks = {}
    <3>1. obj[t] \in Rows
      BY <1>5, MergeInitRow DEF StructInv
    <3>2. \A k \in Callbacks : cb[k].obj # obj[t]
      BY <1>5 DEF StructInv, FreshCallbacks, MergeInit
    <3>3. row[obj[t]].callbacks \in SUBSET Callbacks
      BY <1>1, <3>1, RowFields
    <3> QED
      BY <1>1, <3>1, <3>2, <3>3 DEF Listed
  <2> QED
    BY <1>2, <1>5, <2>1, MergeInitRow DEF StructInv, OnlyRow, Fields, MergeInit
<1>6. ASSUME NEW t \in Threads, MergeAbort(t) PROVE Callbacked
  BY <1>2, <1>6, MergeAbortRow DEF StructInv, OnlyRow, Fields, MergeAbort
<1>7. ASSUME NEW t \in Threads, MergeEnd(t) PROVE Callbacked
  BY <1>2, <1>7, MergedRow DEF StructInv, ThreadStages, OnlyRow, Fields, MergeEnd
<1>8. ASSUME NEW t \in Threads, DestroyEnd(t) PROVE Callbacked
  <2>1. obj[t] \in Rows
    BY <1>8, DestroyEndRow DEF StructInv
  <2>2. row'[obj[t]].callbacks = {} /\ OnlyRow(obj[t])
    BY <1>8, DestroyEndRow DEF StructInv, Fields
  <2> QED
    BY <1>1, <1>8, <2>1, <2>2, DestroyEndCallbacks, NoCallbackType, ThreadAssumption
       DEF StructInv, Callbacked, Listed, OnlyRow
<1>9. ASSUME NEW t \in Threads, CloseMove(t) PROVE Callbacked
  BY <1>1, <1>2, <1>9 DEF CloseMove, CloseBegin, CloseFlush, CloseFlushed, CloseEnd, rowVars
<1>22. ASSUME NEW t \in Threads, MergeLook(t) PROVE Callbacked
  BY <1>1, <1>2, <1>22, Looks DEF StructInv, rowVars
<1>10. ASSUME NEW t \in Threads, NEW r \in Rows, CreateReserve(t, r) PROVE Callbacked
  BY <1>1, <1>2, <1>10 DEF CreateReserve
<1>11. ASSUME NEW t \in Threads, NEW g \in Rows, NotifyParent(t, g) PROVE Callbacked
  <2>1. status[t] \in SignaledStates
    BY <1>11 DEF NotifyParent, StructInv, ThreadStages
  <2>2. CASE Valid(g) /\ row[g].remaining = 1
    <3>1. OnlyRow(g) /\ row'[g].callbacks = {}
          /\ cb' = Queued(row[g], ParentState(row[g].state, status[t]))
      BY <1>11, <2>1, <2>2, NotifiedRow DEF StructInv, Fields
    <3>2. ParentState(row[g].state, status[t]) \in SignaledStates
      BY <1>1, <2>1, <2>2, RowFields DEF ParentState, Valid
    <3> QED
      BY <1>1, <3>1, <3>2, QueuedFields DEF StructInv, Callbacked, Listed, OnlyRow
  <2>3. CASE ~(Valid(g) /\ row[g].remaining = 1)
    BY <1>2, <1>11, <2>1, <2>3, NotifiedRow DEF StructInv, Fields, OnlyRow
  <2> QED
    BY <2>2, <2>3
<1>12. ASSUME NEW t \in Threads, NEW c \in Rows, MergeLink(t, c) PROVE Callbacked
  <2>1. cb' = cb /\ obj[t] \in Rows
    BY <1>12, MergeLinkRows DEF StructInv, MergeLink
  <2>2. CASE Links(t, c)
    BY <1>2, <2>1, <2>2 DEF Links, Fields
  <2>3. CASE Inherits(t, c)
    BY <1>2, <2>1, <2>3 DEF Inherits, Fields, OnlyRow
  <2> QED
    BY <1>12, <2>2, <2>3, MergeLinkRows DEF StructInv
<1>13. ASSUME NEW t \in Threads, NEW c \in Rows, MergeFail(t, c) PROVE Callbacked
  BY <1>2, <1>13, MergeFailRow DEF StructInv, Fields, OnlyRow, MergeFail
<1>14. ASSUME NEW t \in Threads, NEW c \in Rows, MergeUnlink(t, c) PROVE Callbacked
  BY <1>2, <1>14, MergeUnlinkRow DEF StructInv, Fields, OnlyRow, MergeUnlink
<1>15. ASSUME NEW t \in Threads, NEW c \in Rows, DestroyChild(t, c) PROVE Callbacked
  BY <1>2, <1>15, DestroyChildRow DEF StructInv, Fields, OnlyRow, DestroyChild
<1>16. ASSUME NEW t \in Threads, NEW g \in Rows, DestroyParent(t, g) PROVE Callbacked
  BY <1>2, <1>16, DestroyParentRow DEF StructInv, Fields, OnlyRow, DestroyParent
<1>17. ASSUME NEW t \in Threads, NEW r \in Rows, DestroyCall(t, r) PROVE Callbacked
  BY <1>2, <1>17, DestroyCallRow DEF StructInv, Fields, OnlyRow, DestroyCall, DestroyBody
<1>18. ASSUME NEW t \in Threads, NEW r \in Rows, NEW s \in SignaledStates,
              SignalCall(t, r, s) PROVE Callbacked
  <2>1. CASE SignalLess(t, r)
    BY <1>2, <2>1 DEF SignalLess, OnlyRow
  <2>2. CASE SignalLast(t, r, s)
    <3>1. OnlyRow(r) /\ row'[r].callbacks = {} /\ cb' = Queued(row[r], s)
      BY <2>2 DEF SignalLast, Fields
    <3> QED
      BY <1>1, <3>1, QueuedFields DEF StructInv, Callbacked, Listed, OnlyRow
  <2> QED
    BY <1>18, <2>1, <2>2, SignalSteps DEF StructInv
<1>19. ASSUME NEW t \in Threads, NEW r \in Rows, NEW s \in SignaledStates,
              UserSignal(t, r, s) PROVE Callbacked
  BY <1>2, <1>19, UserSignalRow DEF StructInv, Fields, OnlyRow, UserSignal
<1>20. ASSUME NEW t \in Threads, NEW r \in Rows,
              MergeReserve(t, r) PROVE Callbacked
  BY <1>1, <1>2, <1>20 DEF MergeReserve
<1> HIDE DEF Callbacked
<1>21. CASE Next
  BY <1>4, <1>5, <1>6, <1>7, <1>8, <1>9, <1>10, <1>11, <1>12, <1>13, <1>14, <1>15, <1>16,
     <1>17, <1>18, <1>19, <1>20, <1>21, <1>22, StepCases, AsideCallbacked DEF StructInv
<1> QED
  BY <1>3, <1>21

Places == {"idle", "create", "signal", "notify", "check", "merge", "link", "unlink", "destroy",
           "sweep", "flush", "reap"}

ThreadTypes ==
  /\ pc \in [Threads -> Places]
  /\ obj \in [Threads -> Rows \cup {NoRow}]
  /\ status \in [Threads -> SignaledStates \cup {"none"}]
  /\ list \in [Threads -> SUBSET Rows]
  /\ parents \in [Threads -> SUBSET Rows]

OtherTypes ==
  /\ bitmap \subseteq Rows
  /\ lock \in [Rows -> Threads \cup {NoThread}]
  /\ eventq \in BOOLEAN
  /\ closer \in Threads \cup {NoThread}
  /\ phase \in {"none", "sweep", "reap"}
  /\ sweep \subseteq Rows /\ waitfor \subseteq Callbacks
  /\ pending \in [Rows -> SUBSET Rows] /\ failed \subseteq Rows

\* TypeOK in the parts the lemmas below deal with.
LEMMA TypeParts ==
  TypeOK <=> /\ ThreadTypes /\ OtherTypes
             /\ row \in [Rows -> RowType] /\ cb \in [Callbacks -> CallbackType]
             /\ \A k \in Callbacks, r \in Rows :
                  k \in row[r].callbacks <=> (cb[k].at = "list" /\ cb[k].obj = r)
  BY DEF TypeOK, ThreadTypes, OtherTypes, Places, CallbackType

\* A thread that moves on keeps its types.
LEMMA MovesTypes ==
  ASSUME ThreadTypes, NEW t \in Threads, NEW at \in Places, NEW o \in Rows \cup {NoRow},
         NEW l \in SUBSET Rows, NEW p \in SUBSET Rows, Moves(t, at, o, l, p),
         NEW s \in SignaledStates \cup {"none"}, status' = [status EXCEPT ![t] = s]
  PROVE  ThreadTypes'
  BY DEF ThreadTypes, Moves

\* A thread that is done with a row keeps its types.
LEMMA DoneTypes ==
  ASSUME ThreadTypes, NEW t \in Threads, NEW at \in {"idle", "sweep", "reap"},
         Moves(t, at, NoRow, {}, {}), status' = [status EXCEPT ![t] = "none"]
  PROVE  ThreadTypes'
  BY DEF ThreadTypes, Moves, Places

\* A thread that returns, into cam_sync_close or out of it, keeps its types.
LEMMA ReturnTypes ==
  ASSUME TypeOK, CloseStages, NEW t \in Threads, Return(t)
  PROVE  ThreadTypes'
  BY Returns, DoneTypes, TypeParts

\* Every step keeps the types of the threads' variables.
LEMMA NextThreadTypes ==
  ASSUME StructInv, Next PROVE ThreadTypes'
<1>1. /\ ThreadTypes /\ TypeOK /\ CloseStages /\ ThreadStages
      /\ row \in [Rows -> RowType] /\ \A r \in Rows : row[r] \in RowType
  BY TypeParts DEF StructInv
<1>2. \A r \in Rows : row[r].children \in SUBSET Rows /\ row[r].parents \in SUBSET Rows
  BY <1>1, RowFields
<1>3. CASE Aside
  BY <1>1, <1>3, Besides DEF ThreadTypes, threadVars
<1>4. ASSUME NEW t \in Threads,
             CreateInit(t) \/ MergeAbort(t) \/ MergeEnd(t) \/ DestroyEnd(t)
      PROVE  ThreadTypes'
  BY <1>1, <1>4, ReturnTypes DEF CreateInit, MergeAbort, MergeEnd, DestroyEnd
<1>5. ASSUME NEW t \in Threads, MergeInit(t) PROVE ThreadTypes'
  BY <1>1, <1>5 DEF MergeInit, ThreadTypes, Places, Goto
<1>6. ASSUME NEW t \in Threads, CloseMove(t) PROVE ThreadTypes'
  BY <1>1, <1>6 DEF CloseMove, CloseBegin, CloseFlush, CloseFlushed, CloseEnd, ThreadTypes,
     Places, Goto, threadVars
<1>16. ASSUME NEW t \in Threads, MergeLook(t) PROVE ThreadTypes'
  <2>1. ASSUME NEW l \in SUBSET Rows, NEW p \in SUBSET Rows,
               Moves(t, "check", obj[t], l, p), status' = status
        PROVE  ThreadTypes'
    BY <1>1, <2>1 DEF ThreadTypes, Moves, Places
  <2> QED
    BY <1>1, <1>16, <2>1, Looks, DoneTypes
<1>7. ASSUME NEW t \in Threads, NEW r \in Rows, CreateReserve(t, r) PROVE ThreadTypes'
  BY <1>1, <1>7 DEF CreateReserve, ThreadTypes, Places, Goto
<1>8. ASSUME NEW t \in Threads, NEW g \in Rows, NotifyParent(t, g) PROVE ThreadTypes'
  <2>1. CASE list[t] = {g}
    BY <1>1, <1>8, <2>1, ReturnTypes DEF NotifyParent
  <2>2. CASE list[t] # {g}
    BY <1>1, <1>8, <2>2 DEF NotifyParent, ThreadTypes
  <2> QED
    BY <2>1, <2>2
<1>9. ASSUME NEW t \in Threads, NEW c \in Rows, MergeLink(t, c) PROVE ThreadTypes'
  BY <1>1, <1>9 DEF MergeLink, ThreadTypes
<1>10. ASSUME NEW t \in Threads, NEW c \in Rows, MergeFail(t, c) PROVE ThreadTypes'
  BY <1>1, <1>2, <1>10 DEF MergeFail, ThreadTypes, Places, Goto, ThreadStages
<1>11. ASSUME NEW t \in Threads, NEW c \in Rows,
              MergeUnlink(t, c) \/ DestroyChild(t, c) \/ DestroyParent(t, c)
       PROVE ThreadTypes'
  BY <1>1, <1>11 DEF MergeUnlink, DestroyChild, DestroyParent, ThreadTypes
<1>12. ASSUME NEW t \in Threads, NEW r \in Rows, DestroyCall(t, r) PROVE ThreadTypes'
  BY <1>1, <1>2, <1>12 DEF DestroyCall, DestroyBody, ThreadTypes, Places, Goto
<1>13. ASSUME NEW t \in Threads, NEW r \in Rows, NEW s \in SignaledStates,
              SignalCall(t, r, s) PROVE ThreadTypes'
  <2>1. CASE SignalLess(t, r)
    BY <1>1, <2>1, DoneTypes DEF SignalLess
  <2>2. CASE SignalLast(t, r, s)
    <3>1. parents[t] \in SUBSET Rows /\ row[r].parents \in SUBSET Rows
      BY <1>1, <1>2 DEF ThreadTypes
    <3>2. CASE row[r].parents = {}
      BY <1>1, <2>2, <3>2, DoneTypes DEF SignalLast
    <3>3. CASE row[r].parents # {}
      BY <1>1, <2>2, <3>1, <3>3, MovesTypes DEF SignalLast, Places
    <3> QED
      BY <3>2, <3>3
  <2> QED
    BY <1>1, <1>13, <2>1, <2>2, SignalSteps
<1>14. ASSUME NEW t \in Threads, NEW r \in Rows, NEW s \in SignaledStates,
              UserSignal(t, r, s) PROVE ThreadTypes'
  BY <1>1, <1>14 DEF UserSignal, ThreadTypes, Places, Goto
<1>15. ASSUME NEW t \in Threads, NEW r \in Rows,
              MergeReserve(t, r) PROVE ThreadTypes'
  BY <1>1, <1>15 DEF MergeReserve, ThreadTypes, Places, Goto
<1> QED
  BY <1>1, <1>3, <1>4, <1>5, <1>6, <1>7, <1>8, <1>9, <1>10, <1>11, <1>12, <1>13, <1>14,
     <1>15, <1>16, StepCases

\* Every step keeps the types of the other variables.
LEMMA NextOtherTypes ==
  ASSUME StructInv, Next PROVE OtherTypes'
<1>1. /\ OtherTypes /\ TypeOK /\ CloseStages /\ ThreadStages
      /\ \A r \in Rows : row[r].parents \in SUBSET Rows
  BY TypeParts, RowFields DEF StructInv
<1>2. CASE Aside
  <2>1. eventq' = eventq \/ eventq' = TRUE
    BY <1>2 DEF Aside, RowStep, RunCallback, OpenDevice, GetObjRef, PutObjRef,
       RegisterCallback, DeregisterCallback, RegisterPayload, DeregisterPayload, closeVars
  <2> QED
    BY <1>1, <1>2, <2>1, Besides DEF OtherTypes, history
<1>3. ASSUME NEW t \in Threads, CreateInit(t) \/ MergeAbort(t) PROVE OtherTypes'
  BY <1>1, <1>3 DEF CreateInit, MergeAbort, OtherTypes, closeVars, history
<1>4. ASSUME NEW t \in Threads, MergeEnd(t) \/ DestroyEnd(t) \/ MergeInit(t)
      PROVE OtherTypes'
  <2>1. CASE MergeEnd(t)
    BY <1>1, <2>1 DEF MergeEnd, OtherTypes, closeVars, history
  <2>2. CASE DestroyEnd(t)
    BY <1>1, <2>2 DEF DestroyEnd, OtherTypes, closeVars
  <2>3. CASE MergeInit(t)
    BY <1>1, <2>3 DEF MergeInit, OtherTypes, closeVars
  <2> QED
    BY <1>4, <2>1, <2>2, <2>3
<1>5. ASSUME NEW t \in Threads, CloseMove(t) PROVE OtherTypes'
  BY <1>1, <1>5 DEF CloseMove, CloseBegin, CloseFlush, CloseFlushed, CloseEnd, OtherTypes,
     rowVars, history
<1>13. ASSUME NEW t \in Threads, MergeLook(t) PROVE OtherTypes'
  BY <1>1, <1>13, Looks DEF OtherTypes, rowVars, closeVars, history
<1>6. ASSUME NEW t \in Threads, NEW r \in Rows, CreateReserve(t, r) PROVE OtherTypes'
  BY <1>1, <1>6 DEF CreateReserve, Reserve, OtherTypes, closeVars, history
<1>7. ASSUME NEW t \in Threads, NEW r \in Rows,
             MergeReserve(t, r) PROVE OtherTypes'
  BY <1>1, <1>7 DEF MergeReserve, Reserve, OtherTypes, closeVars, history
<1>8. ASSUME NEW t \in Threads, NEW c \in Rows,
             NotifyParent(t, c) \/ MergeFail(t, c) \/ MergeUnlink(t, c)
             \/ DestroyChild(t, c) \/ DestroyParent(t, c)
      PROVE OtherTypes'
  BY <1>1, <1>8 DEF NotifyParent, MergeFail, MergeUnlink, DestroyChild, DestroyParent,
     OtherTypes, closeVars, history
<1>9. ASSUME NEW t \in Threads, NEW c \in Rows, MergeLink(t, c) PROVE OtherTypes'
  <2>1. obj[t] \in Rows
    BY <1>1, <1>9 DEF MergeLink, ThreadStages
  <2> QED
    BY <1>1, <1>9, <2>1 DEF MergeLink, OtherTypes, closeVars
<1>10. ASSUME NEW t \in Threads, NEW r \in Rows, DestroyCall(t, r) PROVE OtherTypes'
  BY <1>1, <1>10 DEF DestroyCall, DestroyBody, OtherTypes, history
<1>11. ASSUME NEW t \in Threads, NEW r \in Rows, NEW s \in SignaledStates,
              SignalCall(t, r, s) PROVE OtherTypes'
  <2>1. UNCHANGED <<bitmap, lock>> /\ (MemberSignaled(r, s) \/ UNCHANGED history)
    BY <1>1, <1>11, SignalSteps DEF SignalLess, SignalLast
  <2>2. pending' \in [Rows -> SUBSET Rows] /\ failed' \subseteq Rows
    BY <1>1, <2>1 DEF MemberSignaled, history, OtherTypes
  <2> QED
    BY <1>1, <1>11, <2>1, <2>2 DEF SignalCall, OtherTypes
<1>12. ASSUME NEW t \in Threads, NEW r \in Rows, NEW s \in SignaledStates,
              UserSignal(t, r, s) PROVE OtherTypes'
  BY <1>1, <1>12 DEF UserSignal, OtherTypes, closeVars, history
<1> QED
  BY <1>1, <1>2, <1>3, <1>4, <1>5, <1>6, <1>7, <1>8, <1>9, <1>10, <1>11, <1>12, <1>13, StepCases

\* Every step keeps TypeOK.
LEMMA NextTypeOK ==
  ASSUME StructInv, [Next]_vars PROVE TypeOK'
<1>1. CASE Next
  <2>1. TypeOK' <=> /\ ThreadTypes' /\ OtherTypes'
                    /\ row' \in [Rows -> RowType] /\ cb' \in [Callbacks -> CallbackType]
                    /\ \A k \in Callbacks, r \in Rows :
                         k \in row'[r].callbacks <=> (cb'[k].at = "list" /\ cb'[k].obj = r)
    BY DEF TypeOK, ThreadTypes, OtherTypes, Places, CallbackType
  <2> QED
    BY <1>1, <2>1, NextThreadTypes, NextOtherTypes, NextCallbacked DEF Callbacked
<1>2. CASE UNCHANGED vars
  BY <1>2 DEF vars, StructInv, TypeOK
<1> QED
  BY <1>1, <1>2

-----------------------------------------------------------------------------
(* Where the calls are                                                     *)

\* A thread that is done with a row is in a legal stage.
LEMMA DoneStages ==
  ASSUME TypeOK, ThreadStages, NEW t \in Threads, NEW at \in {"idle", "sweep", "reap"},
         Moves(t, at, NoRow, {}, {}), status' = [status EXCEPT ![t] = "none"]
  PROVE  ThreadStages'
  BY DEF TypeOK, ThreadStages, Moves

\* Every step leaves every thread in a legal stage.
LEMMA NextThreadStages ==
  ASSUME StructInv, [Next]_vars PROVE ThreadStages'
<1>1. TypeOK /\ CloseStages /\ ThreadStages
  BY DEF StructInv
<1>2. ASSUME UNCHANGED <<pc, obj, status, list>> PROVE ThreadStages'
  BY <1>1, <1>2 DEF ThreadStages
<1>3. ASSUME NEW t \in Threads, Return(t) PROVE ThreadStages'
  BY <1>1, <1>3, Returns, DoneStages
<1>4. ASSUME NEW t \in Threads,
             CreateInit(t) \/ MergeAbort(t) \/ MergeEnd(t) \/ DestroyEnd(t)
      PROVE  ThreadStages'
  BY <1>3, <1>4 DEF CreateInit, MergeAbort, MergeEnd, DestroyEnd
<1>5. ASSUME NEW t \in Threads, MergeInit(t) PROVE ThreadStages'
  BY <1>1, <1>5 DEF MergeInit, ThreadStages, TypeOK, Goto
<1>6. ASSUME NEW t \in Threads, CloseMove(t) PROVE ThreadStages'
  BY <1>1, <1>6 DEF CloseMove, CloseBegin, CloseFlush, CloseFlushed, CloseEnd, ThreadStages,
     TypeOK, Goto, Enter, threadVars
<1>19. ASSUME NEW t \in Threads, MergeLook(t) PROVE ThreadStages'
  <2>1. ASSUME NEW l, NEW p, Moves(t, "check", obj[t], l, p), status' = status
        PROVE  ThreadStages'
    BY <1>1, <2>1 DEF TypeOK, ThreadStages, Moves
  <2> QED
    BY <1>1, <1>19, <2>1, Looks, DoneStages
<1>7. ASSUME NEW t \in Threads, NEW r \in Rows, CreateReserve(t, r) PROVE ThreadStages'
  BY <1>1, <1>7 DEF CreateReserve, ThreadStages, TypeOK, Goto, Enter
<1>8. ASSUME NEW t \in Threads, NEW g \in Rows, NotifyParent(t, g) PROVE ThreadStages'
  <2>1. CASE list[t] = {g}
    BY <1>3, <1>8, <2>1 DEF NotifyParent
  <2>2. CASE list[t] # {g}
    BY <1>1, <1>8, <2>2 DEF NotifyParent, ThreadStages, TypeOK
  <2> QED
    BY <2>1, <2>2
<1>9. ASSUME NEW t \in Threads, NEW c \in Rows,
             MergeLink(t, c) \/ MergeUnlink(t, c) \/ DestroyChild(t, c)
      PROVE ThreadStages'
  BY <1>1, <1>9 DEF MergeLink, MergeUnlink, DestroyChild, ThreadStages, TypeOK
<1>10. ASSUME NEW t \in Threads, NEW c \in Rows, MergeFail(t, c) PROVE ThreadStages'
  BY <1>1, <1>10 DEF MergeFail, ThreadStages, TypeOK, Goto
<1>11. ASSUME NEW t \in Threads, NEW c \in Rows, DestroyParent(t, c) PROVE ThreadStages'
  BY <1>2, <1>11 DEF DestroyParent
<1>12. ASSUME NEW t \in Threads, NEW r \in Rows, DestroyCall(t, r) PROVE ThreadStages'
  BY <1>1, <1>12 DEF DestroyCall, DestroyBody, ThreadStages, TypeOK, Goto
<1>13. ASSUME NEW t \in Threads, NEW r \in Rows, NEW s \in SignaledStates,
              SignalCall(t, r, s) PROVE ThreadStages'
  <2>1. CASE SignalLess(t, r)
    BY <1>1, <2>1, DoneStages DEF SignalLess
  <2>2. CASE SignalLast(t, r, s) /\ row[r].parents = {}
    BY <1>1, <2>2, DoneStages DEF SignalLast
  <2>3. CASE SignalLast(t, r, s) /\ row[r].parents # {}
    BY <1>1, <2>3 DEF SignalLast, Moves, ThreadStages, TypeOK
  <2> QED
    BY <1>1, <1>13, <2>1, <2>2, <2>3, SignalSteps
<1>14. ASSUME NEW t \in Threads, NEW r \in Rows, NEW s \in SignaledStates,
              UserSignal(t, r, s) PROVE ThreadStages'
  BY <1>1, <1>14 DEF UserSignal, ThreadStages, TypeOK, Goto, Enter
<1>15. ASSUME NEW t \in Threads, NEW r \in Rows,
              MergeReserve(t, r) PROVE ThreadStages'
  BY <1>1, <1>15 DEF MergeReserve, ThreadStages, TypeOK, Goto
<1>16. CASE Aside
  BY <1>1, <1>2, <1>16, Besides DEF threadVars
<1>17. CASE UNCHANGED vars
  BY <1>2, <1>17 DEF vars
<1>18. CASE Next
  BY <1>1, <1>4, <1>5, <1>6, <1>7, <1>8, <1>9, <1>10, <1>11, <1>12, <1>13, <1>14, <1>15,
     <1>16, <1>18, <1>19, StepCases
<1> QED
  BY <1>17, <1>18

\* Every step leaves cam_sync_close in a legal stage.
LEMMA NextCloseStages ==
  ASSUME StructInv, [Next]_vars PROVE CloseStages'
<1>1. TypeOK /\ CloseStages /\ ThreadStages
  BY DEF StructInv
<1>2. ASSUME UNCHANGED <<closer, phase, eventq>>,
             NEW t \in Threads, NEW at \in {"idle", "create", "signal", "notify", "check", "merge",
                                            "link", "unlink", "destroy"},
             pc' = pc \/ pc' = [pc EXCEPT ![t] = at]
      PROVE  CloseStages'
  BY <1>1, <1>2 DEF CloseStages, TypeOK
<1>3. ASSUME UNCHANGED <<closer, phase, eventq>>, NEW t \in Threads, Return(t)
      PROVE  CloseStages'
  BY <1>1, <1>3, ThreadAssumption DEF CloseStages, TypeOK, Return, Goto
<1>4. ASSUME NEW t \in Threads,
             CreateInit(t) \/ MergeAbort(t) \/ MergeEnd(t) \/ DestroyEnd(t)
      PROVE  CloseStages'
  BY <1>3, <1>4 DEF CreateInit, MergeAbort, MergeEnd, DestroyEnd, closeVars
<1>5. ASSUME NEW t \in Threads, MergeInit(t) PROVE CloseStages'
  BY <1>2, <1>5 DEF MergeInit, Goto, closeVars
<1>6. ASSUME NEW t \in Threads, CloseMove(t) PROVE CloseStages'
  BY <1>1, <1>6, ThreadAssumption DEF CloseMove, CloseBegin, CloseFlush, CloseFlushed, CloseEnd,
     CloseStages, TypeOK, Goto, Enter, Open, threadVars
<1>19. ASSUME NEW t \in Threads, MergeLook(t) PROVE CloseStages'
  BY <1>2, <1>3, <1>19 DEF MergeLook, MergeNoRow, MergeCheck, MergeBegin, Goto, closeVars
<1>7. ASSUME NEW t \in Threads, NEW r \in Rows, CreateReserve(t, r) PROVE CloseStages'
  BY <1>2, <1>7 DEF CreateReserve, Goto, closeVars
<1>8. ASSUME NEW t \in Threads, NEW g \in Rows, NotifyParent(t, g) PROVE CloseStages'
  BY <1>2, <1>3, <1>8 DEF NotifyParent, closeVars
<1>9. ASSUME NEW t \in Threads, NEW c \in Rows,
             MergeLink(t, c) \/ MergeUnlink(t, c) \/ DestroyChild(t, c) \/ DestroyParent(t, c)
      PROVE CloseStages'
  BY <1>2, <1>9 DEF MergeLink, MergeUnlink, DestroyChild, DestroyParent, closeVars
<1>10. ASSUME NEW t \in Threads, NEW c \in Rows, MergeFail(t, c) PROVE CloseStages'
  BY <1>2, <1>10 DEF MergeFail, Goto, closeVars
<1>12. ASSUME NEW t \in Threads, NEW r \in Rows, DestroyCall(t, r) PROVE CloseStages'
  BY <1>2, <1>12 DEF DestroyCall, DestroyBody, Goto
<1>13. ASSUME NEW t \in Threads, NEW r \in Rows, NEW s \in SignaledStates,
              SignalCall(t, r, s) PROVE CloseStages'
  BY <1>2, <1>3, <1>13 DEF SignalCall, SignalBody, Goto
<1>14. ASSUME NEW t \in Threads, NEW r \in Rows, NEW s \in SignaledStates,
              UserSignal(t, r, s) PROVE CloseStages'
  BY <1>2, <1>14 DEF UserSignal, Goto, closeVars
<1>15. ASSUME NEW t \in Threads, NEW r \in Rows,
              MergeReserve(t, r) PROVE CloseStages'
  BY <1>2, <1>15 DEF MergeReserve, Goto, closeVars
<1>16. CASE Aside
  <2>1. UNCHANGED <<pc, closer, phase>>
    BY <1>1, <1>16, Besides DEF threadVars
  <2>2. eventq' = eventq \/ (eventq' = TRUE)
    BY <1>16 DEF Aside, RowStep, RunCallback, OpenDevice, GetObjRef, PutObjRef,
       RegisterCallback, DeregisterCallback, RegisterPayload, DeregisterPayload, closeVars
  <2> QED
    BY <1>1, <2>1, <2>2 DEF CloseStages
<1>17. CASE UNCHANGED vars
  BY <1>1, <1>17 DEF vars, CloseStages
<1>18. CASE Next
  BY <1>1, <1>4, <1>5, <1>6, <1>7, <1>8, <1>9, <1>10, <1>12, <1>13, <1>14, <1>15,
     <1>16, <1>18, <1>19, StepCases
<1> QED
  BY <1>17, <1>18

-----------------------------------------------------------------------------
(* Who makes and unmakes a row                                             *)

\* A thread that stops owning, or goes on owning the same row.
LEMMA OwnersKept ==
  ASSUME TypeOK, Owners, NEW t \in Threads, NEW at \in Places,
         NEW o \in Rows \cup {NoRow}, pc' = [pc EXCEPT ![t] = at],
         obj' = [obj EXCEPT ![t] = o], bitmap' = bitmap,
         at \in {"create", "merge", "link", "unlink", "destroy"} => Owns(t, o)
  PROVE  Owners'
<1>1. \A u \in Threads, r \in Rows : Owns(u, r)' => Owns(u, r)
  BY DEF Owns, TypeOK
<1> QED
  BY <1>1 DEF Owners

\* A row nobody owns gets an owner.
LEMMA OwnersNew ==
  ASSUME TypeOK, Owners, NEW t \in Threads, NEW at \in Places, NEW r \in Rows,
         pc' = [pc EXCEPT ![t] = at], obj' = [obj EXCEPT ![t] = r],
         bitmap' = bitmap \cup {r}, \A u \in Threads : ~Owns(u, r)
  PROVE  Owners'
<1>1. \A u \in Threads, x \in Rows : Owns(u, x)' => Owns(u, x) \/ (u = t /\ x = r)
  BY DEF Owns, TypeOK
<1> QED
  BY <1>1 DEF Owners

\* A row is given back by its owner.
LEMMA OwnersGone ==
  ASSUME TypeOK, Owners, NEW t \in Threads, NEW at \in {"idle", "sweep", "reap"},
         NEW r \in Rows, Owns(t, r), pc' = [pc EXCEPT ![t] = at],
         obj' = [obj EXCEPT ![t] = NoRow], bitmap' = bitmap \ {r}
  PROVE  Owners'
<1>1. \A u \in Threads, x \in Rows : Owns(u, x)' => Owns(u, x) /\ u # t
  BY DEF Owns, TypeOK
<1> QED
  BY <1>1 DEF Owners

\* Nobody owns a row that is valid and not locked, or not in use.
LEMMA NoOwner ==
  ASSUME TypeOK, Owners, OwnedRows, NEW r \in Rows,
         (Valid(r) /\ Unlocked(r)) \/ r \notin bitmap, NEW u \in Threads
  PROVE  ~Owns(u, r)
  BY ThreadAssumption DEF Owns, Owners, OwnedRows, Unlocked

\* Every step leaves a row with at most one thread that makes or destroys it.
LEMMA NextOwners ==
  ASSUME StructInv, [Next]_vars PROVE Owners'
<1>1. /\ TypeOK /\ CloseStages /\ ThreadStages /\ Owners /\ OwnedRows
      /\ pc \in [Threads -> Places] /\ obj \in [Threads -> Rows \cup {NoRow}]
      /\ NoRow \in Rows \cup {NoRow}
  BY TypeParts DEF StructInv, ThreadTypes
<1>2. ASSUME UNCHANGED <<pc, obj, bitmap>> PROVE Owners'
  BY <1>1, <1>2 DEF Owners, Owns
<1>3. ASSUME NEW t \in Threads, NEW at \in {"idle", "sweep", "reap"}, bitmap' = bitmap,
             Moves(t, at, NoRow, {}, {}) PROVE Owners'
  BY <1>1, <1>3, OwnersKept DEF Moves, Places
<1>4. ASSUME NEW t \in Threads, CreateInit(t) \/ MergeEnd(t) PROVE Owners'
  BY <1>1, <1>3, <1>4, Returns DEF CreateInit, MergeEnd
<1>5. ASSUME NEW t \in Threads, MergeAbort(t) \/ DestroyEnd(t) PROVE Owners'
  <2>1. obj[t] \in Rows /\ Owns(t, obj[t]) /\ bitmap' = bitmap \ {obj[t]} /\ Return(t)
    BY <1>1, <1>5 DEF ThreadStages, Owns, MergeAbort, DestroyEnd
  <2> QED
    BY <1>1, <2>1, Returns, OwnersGone DEF Moves
<1>6. ASSUME NEW t \in Threads, MergeInit(t) PROVE Owners'
  <2>1. /\ Owns(t, obj[t]) /\ pc' = [pc EXCEPT ![t] = "link"] /\ bitmap' = bitmap
        /\ obj' = [obj EXCEPT ![t] = obj[t]]
    BY <1>1, <1>6 DEF MergeInit, Owns, Goto
  <2> QED
    BY <1>1, <2>1, OwnersKept DEF Places
<1>7. ASSUME NEW t \in Threads, NEW c \in Rows, MergeFail(t, c) PROVE Owners'
  <2>1. /\ Owns(t, obj[t]) /\ pc' = [pc EXCEPT ![t] = "unlink"] /\ bitmap' = bitmap
        /\ obj' = [obj EXCEPT ![t] = obj[t]]
    BY <1>1, <1>7 DEF MergeFail, Owns, Goto
  <2> QED
    BY <1>1, <2>1, OwnersKept DEF Places
<1>8. ASSUME NEW t \in Threads, CloseMove(t) PROVE Owners'
  <2>1. /\ \E at \in {"idle", "sweep", "flush", "reap"} : pc' = [pc EXCEPT ![t] = at]
        /\ bitmap' = bitmap /\ obj' = [obj EXCEPT ![t] = obj[t]]
    BY <1>1, <1>8 DEF CloseMove, CloseBegin, CloseFlush, CloseFlushed, CloseEnd, Goto, rowVars,
       threadVars
  <2> QED
    BY <1>1, <2>1, OwnersKept DEF Places
<1>18. ASSUME NEW t \in Threads, MergeLook(t) PROVE Owners'
  <2>1. bitmap' = bitmap /\ pc[t] \in {"idle", "check"}
    BY <1>1, <1>18, Looks DEF rowVars
  <2>2. ASSUME NEW l, NEW p, Moves(t, "check", obj[t], l, p) PROVE Owners'
    BY <1>1, <2>1, <2>2, OwnersKept DEF Moves, Places
  <2> QED
    BY <1>1, <1>3, <1>18, <2>1, <2>2, Looks
<1>9. ASSUME NEW t \in Threads, NEW r \in Rows,
             CreateReserve(t, r) \/ MergeReserve(t, r) PROVE Owners'
  <2>1. /\ r \notin bitmap /\ bitmap' = bitmap \cup {r} /\ obj' = [obj EXCEPT ![t] = r]
        /\ \E at \in {"create", "merge"} : pc' = [pc EXCEPT ![t] = at]
    BY <1>9 DEF CreateReserve, MergeReserve, Reserve, Goto
  <2> QED
    BY <1>1, <2>1, OwnersNew, NoOwner DEF Places
<1>10. ASSUME NEW t \in Threads, NEW r \in Rows, DestroyCall(t, r) PROVE Owners'
  <2>1. /\ Unlocked(r) /\ Valid(r) /\ bitmap' = bitmap /\ obj' = [obj EXCEPT ![t] = r]
        /\ pc' = [pc EXCEPT ![t] = "destroy"]
    BY <1>10 DEF DestroyCall, DestroyBody, Goto
  <2>2. r \in bitmap
    BY <2>1 DEF StructInv, ValidRows
  <2>3. bitmap' = bitmap \cup {r}
    BY <2>1, <2>2
  <2> QED
    BY <1>1, <2>1, <2>3, OwnersNew, NoOwner DEF Places
<1>11. ASSUME NEW t \in Threads, NEW g \in Rows, NotifyParent(t, g) PROVE Owners'
  BY <1>1, <1>2, <1>3, <1>11, Returns DEF NotifyParent
<1>12. ASSUME NEW t \in Threads, NEW c \in Rows,
             MergeLink(t, c) \/ MergeUnlink(t, c) \/ DestroyChild(t, c) \/ DestroyParent(t, c)
       PROVE Owners'
  BY <1>2, <1>12 DEF MergeLink, MergeUnlink, DestroyChild, DestroyParent
<1>13. ASSUME NEW t \in Threads, NEW r \in Rows, NEW s \in SignaledStates,
              SignalCall(t, r, s) PROVE Owners'
  <2>1. CASE SignalLess(t, r)
    BY <1>3, <2>1 DEF SignalLess
  <2>2. CASE SignalLast(t, r, s) /\ row[r].parents = {}
    BY <1>3, <2>2 DEF SignalLast
  <2>3. CASE SignalLast(t, r, s) /\ row[r].parents # {}
    BY <1>1, <2>3, OwnersKept DEF SignalLast, Moves, Places
  <2> QED
    BY <1>1, <1>13, <2>1, <2>2, <2>3, SignalSteps
<1>14. ASSUME NEW t \in Threads, NEW r \in Rows, NEW s \in SignaledStates,
              UserSignal(t, r, s) PROVE Owners'
  BY <1>1, <1>14, OwnersKept DEF UserSignal, Goto, Places
<1>15. CASE Aside
  BY <1>1, <1>2, <1>15, Besides DEF threadVars
<1>16. CASE UNCHANGED vars
  BY <1>2, <1>16 DEF vars
<1>17. CASE Next
  BY <1>1, <1>4, <1>5, <1>6, <1>7, <1>8, <1>9, <1>10, <1>11, <1>12, <1>13, <1>14, <1>15,
     <1>17, <1>18, StepCases
<1> QED
  BY <1>16, <1>17

OwnedRow(u) ==
  /\ pc[u] \in {"create", "merge", "unlink", "destroy"} => ~Valid(obj[u])
  /\ pc[u] = "link" =>
       /\ Valid(obj[u]) /\ row[obj[u]].type = "GROUP" /\ lock[obj[u]] = u
       /\ ~row[obj[u]].signaled
       /\ row[obj[u]].callbacks = {} /\ row[obj[u]].payloads = {}
       /\ list[u] \cap pending[obj[u]] = {}

\* What an owner relies on is as it was: of its row, and of itself.
Spared(r) ==
  /\ row'[r].state = row[r].state /\ row'[r].type = row[r].type
  /\ row'[r].signaled = row[r].signaled /\ row'[r].callbacks = row[r].callbacks
  /\ row'[r].payloads = row[r].payloads
  /\ lock'[r] = lock[r] /\ pending'[r] \subseteq pending[r]

Rests(u) == pc'[u] = pc[u] /\ obj'[u] = obj[u] /\ list'[u] \subseteq list[u]

\* An owned row stays as its owner needs it if nobody touches it.
LEMMA OwnedRowKept ==
  ASSUME ThreadStages, NEW u \in Threads, OwnedRow(u), Rests(u),
         obj[u] \in Rows => Spared(obj[u])
  PROVE  OwnedRow(u)'
<1>1. CASE pc[u] \in {"create", "merge", "link", "unlink", "destroy"}
  BY <1>1 DEF ThreadStages, OwnedRow, Rests, Spared, Valid
<1>2. CASE pc[u] \notin {"create", "merge", "link", "unlink", "destroy"}
  BY <1>2 DEF OwnedRow, Rests
<1> QED
  BY <1>1, <1>2

\* A step of t on the row r, which no other call owns.
LEMMA OwnedRowsKept ==
  ASSUME ThreadStages, OwnedRows, NEW t \in Threads, NEW r,
         \A u \in Threads \ {t} : Rests(u) /\ ~Owns(u, r),
         \A x \in Rows \ {r} : Spared(x),
         OwnedRow(t)'
  PROVE  OwnedRows'
<1>1. ASSUME NEW u \in Threads \ {t} PROVE OwnedRow(u)'
  <2>1. OwnedRow(u) /\ Rests(u)
    BY DEF OwnedRows, OwnedRow
  <2>2. CASE obj[u] # r
    BY <2>1, <2>2, OwnedRowKept
  <2>3. CASE obj[u] = r
    BY <2>1, <2>3 DEF Owns, OwnedRow, Rests
  <2> QED
    BY <2>2, <2>3
<1>2. \A u \in Threads : OwnedRow(u)'
  BY <1>1
<1> QED
  BY <1>2 DEF OwnedRows, OwnedRow

\* A call that has come to its end owns nothing.
LEMMA DoneRests ==
  ASSUME TypeOK, NEW t \in Threads, NEW at \in {"idle", "sweep", "reap"},
         Moves(t, at, NoRow, {}, {})
  PROVE  OwnedRow(t)' /\ \A u \in Threads \ {t} : Rests(u)
  BY DEF TypeOK, Moves, OwnedRow, Rests

\* A row with an owner has no second one.
LEMMA OwnedAlone ==
  ASSUME Owners, NEW t \in Threads, NEW r \in Rows, Owns(t, r)
  PROVE  \A u \in Threads \ {t} : ~Owns(u, r)
  BY DEF Owners

\* An owner that returns leaves the other owners' rows alone.
LEMMA OwnerReturns ==
  ASSUME TypeOK, CloseStages, ThreadStages, Owners, OwnedRows, NEW t \in Threads,
         obj[t] \in Rows, Owns(t, obj[t]), Return(t),
         \A x \in Rows \ {obj[t]} : Spared(x)
  PROVE  OwnedRows'
<1>1. \A u \in Threads \ {t} : ~Owns(u, obj[t])
  BY OwnedAlone
<1>2. OwnedRow(t)' /\ \A u \in Threads \ {t} : Rests(u)
  BY Returns, DoneRests
<1> QED
  BY <1>1, <1>2, OwnedRowsKept

\* The steps that leave the rows alone, for OwnedRows.
LEMMA AsideOwnedRows ==
  ASSUME StructInv, Aside PROVE OwnedRows'
<1>1. /\ TypeOK /\ ThreadStages /\ OwnedRows
      /\ row \in [Rows -> RowType] /\ \A r \in Rows : row[r] \in RowType
  BY DEF StructInv, TypeOK
<1>2. /\ \A u \in Threads : Rests(u)
      /\ \A r \in Rows : Kept(r) /\ lock'[r] = lock[r] /\ pending'[r] = pending[r]
  BY <1>1, Besides DEF Rests, threadVars, history
<1>3. ASSUME NEW r \in Rows, ~(Valid(r) /\ ~Unlocked(r)) \/ Spared(r),
             \A x \in Rows \ {r} : Spared(x)
      PROVE  OwnedRows'
  <2>1. ASSUME NEW u \in Threads PROVE OwnedRow(u)'
    <3>1. OwnedRow(u) /\ Rests(u)
      BY <1>1, <1>2 DEF OwnedRows, OwnedRow
    <3>2. CASE pc[u] = "link"
      <4>1. obj[u] \in Rows /\ Valid(obj[u]) /\ ~Unlocked(obj[u])
        BY <1>1, <3>1, <3>2, ThreadAssumption DEF ThreadStages, OwnedRow, Unlocked
      <4> QED
        BY <1>1, <1>3, <3>1, <4>1, OwnedRowKept
    <3>3. CASE pc[u] # "link"
      BY <1>1, <1>2, <3>1, <3>3 DEF OwnedRow, Rests, Kept, Valid, ThreadStages
    <3> QED
      BY <3>2, <3>3
  <2> QED
    BY <2>1 DEF OwnedRows, OwnedRow
<1>4. ASSUME NEW r \in Rows, OnlyRow(r), ~(Valid(r) /\ ~Unlocked(r)) \/ Spared(r)
      PROVE  OwnedRows'
  <2>1. \A x \in Rows \ {r} : Spared(x)
    BY <1>2, <1>4 DEF OnlyRow, Spared
  <2> QED
    BY <1>3, <1>4, <2>1
<1>5. ASSUME row' = row PROVE OwnedRows'
  <2>1. \A x \in Rows : Spared(x)
    BY <1>2, <1>5 DEF Spared
  <2> QED
    BY <1>1, <1>2, <2>1, OwnedRowKept DEF OwnedRows, OwnedRow
<1>6. ASSUME NEW r \in Rows, GetObjRef(r) \/ PutObjRef(r) PROVE OwnedRows'
  <2>1. row[r].ref + 1 \in Int /\ row[r].ref - 1 \in Int
    BY <1>1, RowFields
  <2>2. OnlyRow(r) /\ row'[r].callbacks = row[r].callbacks
        /\ row'[r].payloads = row[r].payloads
    BY <1>1, <1>6, <2>1, RefSet DEF GetObjRef, PutObjRef, Fields
  <2> QED
    BY <1>2, <1>4, <2>2 DEF Spared, Kept
<1>7. ASSUME NEW r \in Rows, NEW k \in Callbacks,
             RegisterCallback(k, r) \/ DeregisterCallback(k, r) PROVE OwnedRows'
  <2>1. row[r].callbacks \cup {k} \in SUBSET Callbacks
        /\ row[r].callbacks \ {k} \in SUBSET Callbacks
    BY <1>1, RowFields
  <2>2. Unlocked(r) /\ (row' = row \/ OnlyRow(r))
    BY <1>1, <1>7, <2>1, CallbacksSet DEF RegisterCallback, DeregisterCallback
  <2> QED
    BY <1>4, <1>5, <2>2
<1>8. ASSUME NEW r \in Rows, NEW p \in Payloads,
             RegisterPayload(p, r) \/ DeregisterPayload(p, r) PROVE OwnedRows'
  <2>1. row[r].payloads \cup {p} \in SUBSET Payloads
        /\ row[r].payloads \ {p} \in SUBSET Payloads
    BY <1>1, RowFields
  <2>2. Unlocked(r) /\ OnlyRow(r)
    BY <1>1, <1>8, <2>1, PayloadsSet DEF RegisterPayload, DeregisterPayload
  <2> QED
    BY <1>4, <2>2
<1>9. ASSUME NEW k \in Callbacks, RunCallback(k) PROVE OwnedRows'
  BY <1>5, <1>9 DEF RunCallback, rowVars
<1>10. CASE OpenDevice
  BY <1>5, <1>10 DEF OpenDevice, rowVars
<1> QED
  BY <1>6, <1>7, <1>8, <1>9, <1>10 DEF Aside, RowStep

\* Every step leaves the row of an owner invalid or locked, as its stage says.
LEMMA NextOwnedRows ==
  ASSUME StructInv, [Next]_vars PROVE OwnedRows'
<1>1. /\ TypeOK /\ CloseStages /\ ThreadStages /\ Owners /\ OwnedRows /\ ValidRows
      /\ row \in [Rows -> RowType] /\ \A r \in Rows : row[r] \in RowType
      /\ pc \in [Threads -> Places] /\ obj \in [Threads -> Rows \cup {NoRow}]
      /\ list \in [Threads -> SUBSET Rows] /\ pending \in [Rows -> SUBSET Rows]
      /\ lock \in [Rows -> Threads \cup {NoThread}]
  BY TypeParts DEF StructInv, ThreadTypes, OtherTypes
<1>2. ASSUME NEW u \in Threads PROVE OwnedRow(u)
  BY <1>1 DEF OwnedRows, OwnedRow
<1>3. ASSUME NEW r \in Rows, OnlyRow(r), UNCHANGED <<lock, pending>>
      PROVE  \A x \in Rows \ {r} : Spared(x)
  BY <1>3 DEF OnlyRow, Spared
<1>4. ASSUME UNCHANGED row, UNCHANGED <<lock, pending>>
      PROVE  \A x \in Rows : Spared(x)
  BY <1>4 DEF Spared
<1>5. ASSUME NEW t \in Threads, CreateInit(t) PROVE OwnedRows'
  <2>1. obj[t] \in Rows /\ Owns(t, obj[t]) /\ OnlyRow(obj[t]) /\ Return(t)
        /\ UNCHANGED <<lock, pending>>
    BY <1>1, <1>5, CreateInitRow DEF CreateInit, Owns, history
  <2> QED
    BY <1>1, <1>3, <2>1, OwnerReturns
<1>6. ASSUME NEW t \in Threads, MergeAbort(t) PROVE OwnedRows'
  <2>1. obj[t] \in Rows /\ Owns(t, obj[t]) /\ OnlyRow(obj[t]) /\ Return(t)
        /\ UNCHANGED <<lock, pending>>
    BY <1>1, <1>6, MergeAbortRow DEF MergeAbort, Owns, history
  <2> QED
    BY <1>1, <1>3, <2>1, OwnerReturns
<1>7. ASSUME NEW t \in Threads, MergeEnd(t) PROVE OwnedRows'
  <2>1. obj[t] \in Rows /\ Owns(t, obj[t]) /\ OnlyRow(obj[t]) /\ Return(t)
    BY <1>1, <1>7, MergedRow DEF MergeEnd, Owns, ThreadStages
  <2>2. \A x \in Rows \ {obj[t]} : Spared(x)
    BY <1>1, <1>7, <2>1 DEF MergeEnd, OnlyRow, Spared, history
  <2> QED
    BY <1>1, <2>1, <2>2, OwnerReturns
<1>8. ASSUME NEW t \in Threads, DestroyEnd(t) PROVE OwnedRows'
  <2>1. obj[t] \in Rows /\ Owns(t, obj[t]) /\ OnlyRow(obj[t]) /\ Return(t)
    BY <1>1, <1>8, DestroyEndRow DEF DestroyEnd, Owns
  <2>2. \A x \in Rows \ {obj[t]} : Spared(x)
    BY <1>1, <1>8, <2>1 DEF DestroyEnd, OnlyRow, Spared
  <2> QED
    BY <1>1, <2>1, <2>2, OwnerReturns
<1>9. ASSUME NEW t \in Threads, MergeInit(t) PROVE OwnedRows'
  <2>1. obj[t] \in Rows /\ Owns(t, obj[t]) /\ OnlyRow(obj[t])
        /\ Fields(row'[obj[t]], "ACTIVE", "GROUP", 0, 0, FALSE, {}, {}, {}, {})
    BY <1>1, <1>9, MergeInitRow DEF MergeInit, Owns
  <2>2. \A x \in Rows \ {obj[t]} : Spared(x)
    BY <1>1, <1>9, <2>1 DEF MergeInit, OnlyRow, Spared
  <2>3. \A u \in Threads \ {t} : Rests(u)
    BY <1>1, <1>9 DEF MergeInit, Goto, Rests
  <2>4. pc'[t] = "link" /\ obj'[t] = obj[t] /\ lock'[obj[t]] = t /\ pending'[obj[t]] = {}
    BY <1>1, <1>9, <2>1 DEF MergeInit, Goto
  <2>5. OwnedRow(t)'
    BY <2>1, <2>4 DEF OwnedRow, Fields, Valid
  <2> QED
    BY <1>1, <2>1, <2>2, <2>3, <2>5, OwnedAlone, OwnedRowsKept
<1>10. ASSUME NEW t \in Threads, CloseMove(t) PROVE OwnedRows'
  <2>1. /\ \E at \in {"idle", "sweep", "flush", "reap"} : pc' = [pc EXCEPT ![t] = at]
        /\ UNCHANGED <<row, lock, pending, obj, list>>
    BY <1>1, <1>10 DEF CloseMove, CloseBegin, CloseFlush, CloseFlushed, CloseEnd, Goto, rowVars,
       threadVars, history
  <2>2. OwnedRow(t)' /\ \A u \in Threads \ {t} : Rests(u)
    BY <1>1, <2>1 DEF OwnedRow, Rests
  <2>3. \A u \in Threads : ~Owns(u, NoRow)
    BY <1>1, ThreadAssumption DEF Owns, ThreadStages
  <2> QED
    BY <1>1, <1>4, <2>1, <2>2, <2>3, OwnedRowsKept
<1>21. ASSUME NEW t \in Threads, MergeLook(t) PROVE OwnedRows'
  <2>1. UNCHANGED <<row, lock, pending>>
    BY <1>1, <1>21, Looks DEF rowVars, history
  <2>2. OwnedRow(t)' /\ \A u \in Threads \ {t} : Rests(u)
    <3>1. ASSUME NEW l, NEW p, Moves(t, "check", obj[t], l, p)
          PROVE  OwnedRow(t)' /\ \A u \in Threads \ {t} : Rests(u)
      BY <1>1, <3>1 DEF Moves, OwnedRow, Rests
    <3> QED
      BY <1>1, <1>21, <3>1, Looks, DoneRests
  <2>3. \A u \in Threads : ~Owns(u, NoRow)
    BY <1>1, ThreadAssumption DEF Owns, ThreadStages
  <2> QED
    BY <1>1, <1>4, <2>1, <2>2, <2>3, OwnedRowsKept
<1>11. ASSUME NEW t \in Threads, NEW r \in Rows,
              CreateReserve(t, r) \/ MergeReserve(t, r) PROVE OwnedRows'
  <2>1. /\ r \notin bitmap /\ obj' = [obj EXCEPT ![t] = r]
        /\ \E at \in {"create", "merge"} : pc' = [pc EXCEPT ![t] = at]
        /\ UNCHANGED <<row, lock, pending>>
        /\ list' = list \/ list' = [list EXCEPT ![t] = parents[t]]
    BY <1>11 DEF CreateReserve, MergeReserve, Reserve, Goto, history
  <2>2. ~Valid(r)
    BY <1>1, <2>1 DEF ValidRows
  <2>3. OwnedRow(t)' /\ \A u \in Threads \ {t} : Rests(u)
    BY <1>1, <2>1, <2>2 DEF OwnedRow, Rests, Valid
  <2> QED
    BY <1>1, <1>4, <2>1, <2>3, NoOwner, OwnedRowsKept
<1>12. ASSUME NEW t \in Threads, NEW g \in Rows, NotifyParent(t, g) PROVE OwnedRows'
  <2>1. status[t] \in SignaledStates /\ Unlocked(g) /\ UNCHANGED <<lock, pending>>
    BY <1>1, <1>12 DEF NotifyParent, ThreadStages, history
  <2>2. OnlyRow(g) /\ (~Valid(g) => row'[g].state = "INVALID")
    BY <1>1, <1>12, <2>1, NotifiedRow DEF Fields, ParentState, Valid
  <2>3. /\ \A u \in Threads \ {t} : Rests(u)
        /\ OwnedRow(t)'
    <3>1. CASE list[t] = {g}
      BY <1>1, <1>12, <3>1, Returns, DoneRests DEF NotifyParent
    <3>2. CASE list[t] # {g}
      BY <1>1, <1>12, <3>2 DEF NotifyParent, OwnedRow, Rests
    <3> QED
      BY <3>1, <3>2
  <2>4. CASE Valid(g)
    BY <1>1, <1>3, <2>1, <2>2, <2>3, <2>4, NoOwner, OwnedRowsKept
  <2>5. CASE ~Valid(g)
    <3>1. ASSUME NEW u \in Threads \ {t} PROVE OwnedRow(u)'
      <4>1. CASE obj[u] # g
        BY <1>1, <1>2, <1>3, <2>1, <2>2, <2>3, <4>1, OwnedRowKept
      <4>2. CASE obj[u] = g
        BY <1>2, <2>2, <2>3, <2>5, <4>2 DEF OwnedRow, Rests, Valid
      <4> QED
        BY <4>1, <4>2
    <3> QED
      BY <2>3, <3>1 DEF OwnedRows, OwnedRow
  <2> QED
    BY <2>4, <2>5
<1>13. ASSUME NEW t \in Threads, NEW c \in Rows, MergeLink(t, c) PROVE OwnedRows'
  <2>1. /\ pc[t] = "link" /\ c \in list[t] /\ Unlocked(c) /\ Valid(c)
        /\ UNCHANGED <<lock, pc, obj>> /\ list' = [list EXCEPT ![t] = @ \ {c}]
        /\ obj[t] \in Rows /\ c # obj[t] /\ Owns(t, obj[t]) /\ OwnedRow(t)
    BY <1>1, <1>2, <1>13, MergeLinkRows DEF MergeLink, Owns
  <2>2. \A u \in Threads \ {t} : Rests(u) /\ ~Owns(u, obj[t]) /\ ~Owns(u, c)
    BY <1>1, <2>1, NoOwner, OwnedAlone DEF Rests
  <2>3. /\ row'[obj[t]].type = row[obj[t]].type
        /\ row'[obj[t]].signaled = row[obj[t]].signaled
        /\ row'[obj[t]].callbacks = row[obj[t]].callbacks
        /\ row'[obj[t]].payloads = row[obj[t]].payloads
        /\ row'[obj[t]].state # "INVALID"
        /\ pending'[obj[t]] \subseteq pending[obj[t]] \cup {c}
        /\ \A x \in Rows \ {obj[t]} : Spared(x)
    <3>1. CASE Links(t, c)
      BY <1>1, <2>1, <3>1 DEF Links, Fields, Spared, OwnedRow, Valid
    <3>2. CASE Inherits(t, c)
      BY <1>1, <2>1, <3>2 DEF Inherits, Fields, Spared, OnlyRow, OwnedRow, Valid
    <3> QED
      BY <1>1, <1>13, <3>1, <3>2, MergeLinkRows
  <2>4. OwnedRow(t)'
    BY <1>1, <2>1, <2>3 DEF OwnedRow, Valid
  <2> QED
    BY <1>1, <2>2, <2>3, <2>4, OwnedRowsKept
<1>14. ASSUME NEW t \in Threads, NEW c \in Rows, MergeFail(t, c) PROVE OwnedRows'
  <2>1. /\ obj[t] \in Rows /\ Owns(t, obj[t]) /\ OnlyRow(obj[t])
        /\ row'[obj[t]].state = "INVALID" /\ UNCHANGED <<lock, pending>>
    BY <1>1, <1>14, MergeFailRow DEF MergeFail, Owns, Fields, history
  <2>2. \A u \in Threads \ {t} : Rests(u)
    BY <1>1, <1>14 DEF MergeFail, Goto, Rests
  <2>3. OwnedRow(t)'
    BY <1>1, <1>14, <2>1 DEF MergeFail, Goto, OwnedRow, Valid
  <2> QED
    BY <1>1, <1>3, <2>1, <2>2, <2>3, OwnedAlone, OwnedRowsKept
<1>15. ASSUME NEW t \in Threads, NEW c \in Rows,
              MergeUnlink(t, c) \/ DestroyChild(t, c) \/ DestroyParent(t, c)
       PROVE OwnedRows'
  <2>1. Spared(c) /\ OnlyRow(c) /\ UNCHANGED <<lock, pending>>
    <3>1. UNCHANGED <<lock, pending>>
      BY <1>15 DEF MergeUnlink, DestroyChild, DestroyParent, history
    <3>2. CASE MergeUnlink(t, c)
      BY <1>1, <3>1, <3>2, MergeUnlinkRow DEF Fields, Spared
    <3>3. CASE DestroyChild(t, c)
      BY <1>1, <3>1, <3>3, DestroyChildRow DEF Fields, Spared
    <3>4. CASE DestroyParent(t, c)
      BY <1>1, <3>1, <3>4, DestroyParentRow DEF Fields, Spared
    <3> QED
      BY <1>15, <3>1, <3>2, <3>3, <3>4
  <2>2. \A u \in Threads : Rests(u)
    BY <1>1, <1>15 DEF MergeUnlink, DestroyChild, DestroyParent, Rests
  <2>3. \A x \in Rows : Spared(x)
    BY <1>3, <2>1
  <2> QED
    BY <1>1, <1>2, <2>2, <2>3, OwnedRowKept DEF OwnedRows, OwnedRow
<1>16. ASSUME NEW t \in Threads, NEW r \in Rows, DestroyCall(t, r) PROVE OwnedRows'
  <2>1. /\ OnlyRow(r) /\ row'[r].state = "INVALID"
    BY <1>1, <1>16, DestroyCallRow DEF Fields
  <2>2. /\ UNCHANGED <<lock, pending>> /\ Unlocked(r) /\ Valid(r)
        /\ pc' = [pc EXCEPT ![t] = "destroy"] /\ obj' = [obj EXCEPT ![t] = r]
        /\ list' = [list EXCEPT ![t] = row[r].children]
    BY <1>16 DEF DestroyCall, DestroyBody, Goto, history
  <2>3. OwnedRow(t)' /\ \A u \in Threads \ {t} : Rests(u)
    BY <1>1, <2>1, <2>2 DEF OwnedRow, Rests, Valid
  <2> QED
    BY <1>1, <1>3, <2>1, <2>2, <2>3, NoOwner, OwnedRowsKept
<1>17. ASSUME NEW t \in Threads, NEW r \in Rows, NEW s \in SignaledStates,
              SignalCall(t, r, s) PROVE OwnedRows'
  <2>1. CASE SignalLess(t, r)
    <3>1. OnlyRow(r) /\ Spared(r) /\ UNCHANGED <<lock, pending>>
      BY <2>1 DEF SignalLess, Spared, Kept, history
    <3>2. \A x \in Rows : Spared(x)
      BY <1>3, <3>1
    <3>3. OwnedRow(t)' /\ \A u \in Threads \ {t} : Rests(u)
      BY <1>1, <2>1, DoneRests DEF SignalLess
    <3>4. \A u \in Threads \ {t} : OwnedRow(u)'
      BY <1>1, <1>2, <3>2, <3>3, OwnedRowKept
    <3> QED
      BY <3>3, <3>4 DEF OwnedRows, OwnedRow
  <2>2. CASE SignalLast(t, r, s)
    <3>1. OnlyRow(r) /\ UNCHANGED lock /\ Unlocked(r) /\ Valid(r)
      BY <2>2 DEF SignalLast, Valid
    <3>2. \A x \in Rows \ {r} : Spared(x)
      BY <1>1, <2>2, <3>1 DEF OnlyRow, Spared, SignalLast, MemberSignaled
    <3>3. OwnedRow(t)' /\ \A u \in Threads \ {t} : Rests(u)
      <4>1. CASE row[r].parents = {}
        BY <1>1, <2>2, <4>1, DoneRests DEF SignalLast
      <4>2. CASE row[r].parents # {}
        BY <1>1, <2>2, <4>2 DEF SignalLast, Moves, OwnedRow, Rests
      <4> QED
        BY <4>1, <4>2
    <3> QED
      BY <1>1, <3>1, <3>2, <3>3, NoOwner, OwnedRowsKept
  <2> QED
    BY <1>1, <1>17, <2>1, <2>2, SignalSteps
<1>18. ASSUME NEW t \in Threads, NEW r \in Rows, NEW s \in SignaledStates,
              UserSignal(t, r, s) PROVE OwnedRows'
  <2>1. OnlyRow(r) /\ UNCHANGED <<lock, pending>> /\ Unlocked(r) /\ Valid(r)
    BY <1>1, <1>18, UserSignalRow DEF UserSignal, Valid, history
  <2>2. OwnedRow(t)' /\ \A u \in Threads \ {t} : Rests(u)
    BY <1>1, <1>18 DEF UserSignal, Goto, OwnedRow, Rests
  <2> QED
    BY <1>1, <1>3, <2>1, <2>2, NoOwner, OwnedRowsKept
<1>19. CASE UNCHANGED vars
  BY <1>1, <1>19 DEF vars, OwnedRows, Valid
<1>20. CASE Next
  BY <1>1, <1>5, <1>6, <1>7, <1>8, <1>9, <1>10, <1>11, <1>12, <1>13, <1>14, <1>15, <1>16,
     <1>17, <1>18, <1>20, <1>21, StepCases, AsideOwnedRows
<1> QED
  BY <1>19, <1>20

-----------------------------------------------------------------------------
(* Rows that are objects                                                   *)

ValidRow(r) ==
  Valid(r) => /\ r \in bitmap
              /\ ~Unlocked(r) => pc[lock[r]] = "link" /\ obj[lock[r]] = r

\* A step of t on the row r: a merge that holds the lock of another row is in
\* another thread.
LEMMA ValidRowsKept ==
  ASSUME TypeOK, ValidRows, NEW t \in Threads, NEW r,
         \A x \in Rows \ {r} : /\ row'[x].state = row[x].state /\ lock'[x] = lock[x]
                               /\ x \in bitmap => x \in bitmap',
         \A u \in Threads \ {t} : pc'[u] = pc[u] /\ obj'[u] = obj[u],
         \/ pc[t] # "link" \/ obj[t] = r \/ (pc'[t] = pc[t] /\ obj'[t] = obj[t]),
         r \in Rows => ValidRow(r)'
  PROVE  ValidRows'
<1>1. ASSUME NEW x \in Rows \ {r}, Valid(x)' PROVE ValidRow(x)'
  <2>1. Valid(x) /\ x \in bitmap'
    BY <1>1 DEF Valid, ValidRows
  <2>2. ASSUME ~Unlocked(x)' PROVE pc'[lock'[x]] = "link" /\ obj'[lock'[x]] = x
    <3>1. lock[x] \in Threads /\ lock'[x] = lock[x]
      BY <2>2 DEF TypeOK, Unlocked
    <3>2. pc[lock[x]] = "link" /\ obj[lock[x]] = x
      BY <2>1, <2>2 DEF ValidRows, Unlocked
    <3> QED
      BY <3>1, <3>2
  <2> QED
    BY <2>1, <2>2 DEF ValidRow
<1> QED
  BY <1>1 DEF ValidRows, ValidRow

\* Every step keeps ValidRows.
LEMMA NextValidRows ==
  ASSUME StructInv, [Next]_vars PROVE ValidRows'
<1>1. /\ TypeOK /\ CloseStages /\ ThreadStages /\ Owners /\ OwnedRows /\ ValidRows
      /\ row \in [Rows -> RowType] /\ \A r \in Rows : row[r] \in RowType
      /\ pc \in [Threads -> Places] /\ obj \in [Threads -> Rows \cup {NoRow}]
      /\ lock \in [Rows -> Threads \cup {NoThread}]
  BY TypeParts DEF StructInv, ThreadTypes, OtherTypes
<1>2. ASSUME NEW t \in Threads, Return(t)
      PROVE  \A u \in Threads \ {t} : pc'[u] = pc[u] /\ obj'[u] = obj[u]
  BY <1>1, <1>2 DEF Return, Goto
<1>3. ASSUME NEW u \in Threads, NEW r \in Rows, Owns(u, r) PROVE r \in bitmap
  BY <1>1, <1>3 DEF Owners
<1>4. ASSUME NEW t \in Threads, CreateInit(t) PROVE ValidRows'
  <2>1. obj[t] \in Rows /\ Owns(t, obj[t]) /\ OnlyRow(obj[t]) /\ Return(t)
        /\ UNCHANGED <<lock, bitmap>> /\ Unlocked(obj[t]) /\ pc[t] = "create"
    BY <1>1, <1>4, CreateInitRow DEF CreateInit, Owns
  <2>0. PICK r \in Rows : r = obj[t]
    BY <2>1
  <2>2. ValidRow(r)'
    BY <1>3, <2>0, <2>1 DEF ValidRow, Unlocked
  <2> QED
    BY <1>1, <1>2, <2>0, <2>1, <2>2, ValidRowsKept DEF OnlyRow
<1>5. ASSUME NEW t \in Threads, MergeAbort(t) PROVE ValidRows'
  <2>1. obj[t] \in Rows /\ OnlyRow(obj[t]) /\ Return(t) /\ UNCHANGED lock
        /\ pc[t] = "unlink" /\ bitmap' = bitmap \ {obj[t]}
        /\ row'[obj[t]].state = row[obj[t]].state
    BY <1>1, <1>5, MergeAbortRow DEF MergeAbort, Fields
  <2>0. PICK r \in Rows : r = obj[t]
    BY <2>1
  <2>2. ValidRow(r)'
    BY <1>1, <2>0, <2>1 DEF ValidRow, OwnedRows, Valid
  <2> QED
    BY <1>1, <1>2, <2>0, <2>1, <2>2, ValidRowsKept DEF OnlyRow
<1>6. ASSUME NEW t \in Threads, MergeEnd(t) PROVE ValidRows'
  <2>1. obj[t] \in Rows /\ Owns(t, obj[t]) /\ OnlyRow(obj[t]) /\ Return(t)
        /\ UNCHANGED bitmap /\ lock' = [lock EXCEPT ![obj[t]] = NoThread]
    BY <1>1, <1>6, MergedRow DEF MergeEnd, Owns, ThreadStages
  <2>0. PICK r \in Rows : r = obj[t]
    BY <2>1
  <2>2. ValidRow(r)'
    BY <1>1, <1>3, <2>0, <2>1 DEF ValidRow, Unlocked
  <2>3. \A x \in Rows \ {r} : lock'[x] = lock[x]
    BY <1>1, <2>0, <2>1
  <2> QED
    BY <1>1, <1>2, <2>0, <2>1, <2>2, <2>3, ValidRowsKept DEF OnlyRow
<1>7. ASSUME NEW t \in Threads, DestroyEnd(t) PROVE ValidRows'
  <2>1. obj[t] \in Rows /\ OnlyRow(obj[t]) /\ Return(t) /\ UNCHANGED lock
        /\ pc[t] = "destroy" /\ bitmap' = bitmap \ {obj[t]}
        /\ row'[obj[t]].state = "INVALID"
    BY <1>1, <1>7, DestroyEndRow DEF DestroyEnd, Fields
  <2>0. PICK r \in Rows : r = obj[t]
    BY <2>1
  <2>2. ValidRow(r)'
    BY <2>0, <2>1 DEF ValidRow, Valid
  <2> QED
    BY <1>1, <1>2, <2>0, <2>1, <2>2, ValidRowsKept DEF OnlyRow
<1>8. ASSUME NEW t \in Threads, MergeInit(t) PROVE ValidRows'
  <2>1. obj[t] \in Rows /\ Owns(t, obj[t]) /\ OnlyRow(obj[t]) /\ pc[t] = "merge"
        /\ UNCHANGED <<bitmap, obj>> /\ lock' = [lock EXCEPT ![obj[t]] = t]
        /\ pc' = [pc EXCEPT ![t] = "link"]
    BY <1>1, <1>8, MergeInitRow DEF MergeInit, Owns, Goto
  <2>2. ValidRow(obj[t])'
    BY <1>1, <1>3, <2>1 DEF ValidRow
  <2>3. /\ \A x \in Rows \ {obj[t]} : lock'[x] = lock[x]
        /\ \A u \in Threads \ {t} : pc'[u] = pc[u] /\ obj'[u] = obj[u]
    BY <1>1, <2>1
  <2> QED
    BY <1>1, <2>1, <2>2, <2>3, ValidRowsKept DEF OnlyRow
<1>9. ASSUME UNCHANGED <<row, lock, bitmap>>, NEW t \in Threads, pc[t] # "link",
             \A u \in Threads \ {t} : pc'[u] = pc[u] /\ obj'[u] = obj[u]
      PROVE  ValidRows'
  BY <1>1, <1>9, ThreadAssumption, ValidRowsKept
<1>10. ASSUME NEW t \in Threads, CloseMove(t) PROVE ValidRows'
  <2>1. /\ \E at \in {"idle", "sweep", "flush", "reap"} : pc' = [pc EXCEPT ![t] = at]
        /\ UNCHANGED <<row, lock, bitmap, obj>> /\ pc[t] # "link"
    BY <1>1, <1>10 DEF CloseMove, CloseBegin, CloseFlush, CloseFlushed, CloseEnd, Goto, rowVars,
       threadVars, Enter
  <2> QED
    BY <1>1, <1>9, <2>1
<1>23. ASSUME NEW t \in Threads, MergeLook(t) PROVE ValidRows'
  <2>1. UNCHANGED <<row, lock, bitmap>> /\ pc[t] # "link"
    BY <1>1, <1>23, Looks DEF rowVars
  <2>2. \A u \in Threads \ {t} : pc'[u] = pc[u] /\ obj'[u] = obj[u]
    BY <1>1, <1>23, Looks DEF Moves
  <2> QED
    BY <1>9, <2>1, <2>2
<1>11. ASSUME NEW t \in Threads, NEW r \in Rows,
              CreateReserve(t, r) \/ MergeReserve(t, r) PROVE ValidRows'
  <2>1. /\ bitmap' = bitmap \cup {r} /\ obj' = [obj EXCEPT ![t] = r]
        /\ \E at \in {"create", "merge"} : pc' = [pc EXCEPT ![t] = at]
        /\ UNCHANGED <<row, lock>> /\ pc[t] # "link"
    BY <1>11 DEF CreateReserve, MergeReserve, Reserve, Goto, Enter
  <2>2. \A u \in Threads \ {t} : pc'[u] = pc[u] /\ obj'[u] = obj[u]
    BY <1>1, <2>1
  <2> QED
    BY <1>1, <2>1, <2>2, ThreadAssumption, ValidRowsKept
<1>12. ASSUME NEW t \in Threads, NEW g \in Rows, NotifyParent(t, g) PROVE ValidRows'
  <2>1. /\ status[t] \in SignaledStates /\ Unlocked(g) /\ UNCHANGED <<lock, bitmap>>
        /\ pc[t] # "link"
    BY <1>1, <1>12 DEF NotifyParent, ThreadStages
  <2>2. OnlyRow(g) /\ (~Valid(g) => row'[g].state = "INVALID")
    BY <1>1, <1>12, <2>1, NotifiedRow DEF Fields, ParentState, Valid
  <2>3. \A u \in Threads \ {t} : pc'[u] = pc[u] /\ obj'[u] = obj[u]
    BY <1>1, <1>2, <1>12 DEF NotifyParent
  <2>4. ValidRow(g)'
    BY <1>1, <2>1, <2>2 DEF ValidRow, ValidRows, Valid, Unlocked
  <2> QED
    BY <1>1, <2>1, <2>2, <2>3, <2>4, ValidRowsKept DEF OnlyRow
<1>13. ASSUME NEW t \in Threads, NEW c \in Rows, MergeLink(t, c) PROVE ValidRows'
  <2>1. /\ pc[t] = "link" /\ UNCHANGED <<lock, pc, obj, bitmap>>
        /\ obj[t] \in Rows /\ Owns(t, obj[t]) /\ lock[obj[t]] = t
    BY <1>1, <1>13, MergeLinkRows DEF MergeLink, Owns, OwnedRows
  <2>2. \A x \in Rows \ {obj[t]} : row'[x].state = row[x].state
    <3>1. CASE Links(t, c)
      BY <1>1, <1>13, <3>1 DEF Links, Fields
    <3>2. CASE Inherits(t, c)
      BY <3>2 DEF Inherits, OnlyRow
    <3> QED
      BY <1>1, <1>13, <3>1, <3>2, MergeLinkRows
  <2>3. ValidRow(obj[t])'
    BY <1>3, <2>1 DEF ValidRow
  <2> QED
    BY <1>1, <2>1, <2>2, <2>3, ValidRowsKept
<1>14. ASSUME NEW t \in Threads, NEW c \in Rows, MergeFail(t, c) PROVE ValidRows'
  <2>1. /\ obj[t] \in Rows /\ OnlyRow(obj[t])
        /\ row'[obj[t]].state = "INVALID" /\ UNCHANGED <<lock, bitmap>>
    BY <1>1, <1>14, MergeFailRow DEF MergeFail, Fields
  <2>0. PICK r \in Rows : r = obj[t]
    BY <2>1
  <2>2. \A u \in Threads \ {t} : pc'[u] = pc[u] /\ obj'[u] = obj[u]
    BY <1>1, <1>14 DEF MergeFail, Goto
  <2>3. ValidRow(r)'
    BY <2>0, <2>1 DEF ValidRow, Valid
  <2> QED
    BY <1>1, <2>0, <2>1, <2>2, <2>3, ValidRowsKept DEF OnlyRow
<1>15. ASSUME \A x \in Rows : row'[x].state = row[x].state, UNCHANGED <<lock, bitmap, pc, obj>>
       PROVE ValidRows'
  BY <1>1, <1>15 DEF ValidRows, Valid, Unlocked
<1>16. ASSUME NEW t \in Threads, NEW c \in Rows,
              MergeUnlink(t, c) \/ DestroyChild(t, c) \/ DestroyParent(t, c)
       PROVE ValidRows'
  <2>1. UNCHANGED <<lock, bitmap, pc, obj>>
    BY <1>16 DEF MergeUnlink, DestroyChild, DestroyParent
  <2>2. OnlyRow(c) /\ row'[c].state = row[c].state
    BY <1>1, <1>16, MergeUnlinkRow, DestroyChildRow, DestroyParentRow DEF Fields
  <2> QED
    BY <1>15, <2>1, <2>2 DEF OnlyRow
<1>17. ASSUME NEW t \in Threads, NEW r \in Rows, DestroyCall(t, r) PROVE ValidRows'
  <2>1. /\ OnlyRow(r) /\ row'[r].state = "INVALID"
    BY <1>1, <1>17, DestroyCallRow DEF Fields
  <2>2. /\ UNCHANGED <<lock, bitmap>> /\ pc[t] # "link"
        /\ pc' = [pc EXCEPT ![t] = "destroy"] /\ obj' = [obj EXCEPT ![t] = r]
    BY <1>17 DEF DestroyCall, DestroyBody, Goto
  <2>3. ValidRow(r)' /\ \A u \in Threads \ {t} : pc'[u] = pc[u] /\ obj'[u] = obj[u]
    BY <1>1, <2>1, <2>2 DEF ValidRow, Valid
  <2> QED
    BY <1>1, <2>1, <2>2, <2>3, ValidRowsKept DEF OnlyRow
<1>18. ASSUME NEW t \in Threads, NEW r \in Rows, NEW s \in SignaledStates,
              SignalCall(t, r, s) PROVE ValidRows'
  <2>1. /\ OnlyRow(r) /\ UNCHANGED <<lock, bitmap>> /\ pc[t] # "link" /\ Unlocked(r)
        /\ row'[r].state # "INVALID" => Valid(r)
    <3>1. pc[t] # "link" /\ Unlocked(r)
      BY <1>18 DEF SignalCall, SignalBody
    <3>2. CASE SignalLess(t, r)
      BY <3>1, <3>2 DEF SignalLess, Kept, Valid
    <3>3. CASE SignalLast(t, r, s)
      BY <3>1, <3>3 DEF SignalLast, Valid
    <3> QED
      BY <1>1, <1>18, <3>2, <3>3, SignalSteps
  <2>2. \A u \in Threads \ {t} : pc'[u] = pc[u] /\ obj'[u] = obj[u]
    <3>1. \E at, l, p : Moves(t, at, NoRow, l, p)
      BY <1>1, <1>18, SignalSteps DEF SignalLess, SignalLast
    <3> QED
      BY <1>1, <3>1 DEF Moves
  <2>3. ValidRow(r)'
    BY <1>1, <2>1 DEF ValidRow, ValidRows, Valid, Unlocked
  <2> QED
    BY <1>1, <2>1, <2>2, <2>3, ValidRowsKept DEF OnlyRow
<1>19. ASSUME NEW t \in Threads, NEW r \in Rows, NEW s \in SignaledStates,
              UserSignal(t, r, s) PROVE ValidRows'
  <2>1. /\ OnlyRow(r) /\ UNCHANGED <<lock, bitmap>> /\ pc[t] # "link" /\ Unlocked(r)
        /\ row'[r].state = row[r].state
    BY <1>1, <1>19, UserSignalRow DEF UserSignal, Fields, Enter
  <2>2. \A u \in Threads \ {t} : pc'[u] = pc[u] /\ obj'[u] = obj[u]
    BY <1>1, <1>19 DEF UserSignal, Goto
  <2>3. ValidRow(r)'
    BY <1>1, <2>1 DEF ValidRow, ValidRows, Valid, Unlocked
  <2> QED
    BY <1>1, <2>1, <2>2, <2>3, ValidRowsKept DEF OnlyRow
<1>20. CASE Aside
  BY <1>1, <1>15, <1>20, Besides DEF Kept, threadVars
<1>21. CASE UNCHANGED vars
  BY <1>15, <1>21 DEF vars
<1>22. CASE Next
  BY <1>1, <1>4, <1>5, <1>6, <1>7, <1>8, <1>10, <1>11, <1>12, <1>13, <1>14, <1>16,
     <1>17, <1>18, <1>19, <1>20, <1>22, <1>23, StepCases
<1> QED
  BY <1>21, <1>22

\* Every step keeps LeafRows.
LEMMA NextLeafRows ==
  ASSUME StructInv, [Next]_vars PROVE LeafRows'
<1>1. TypeOK /\ ThreadStages /\ CloseStages /\ OwnedRows /\ LeafRows
  BY DEF StructInv
<1>2. ASSUME NEW r \in Rows, OnlyRow(r),
             row'[r].state = "INVALID" \/ row'[r].type = "GROUP" => row'[r].parents = {}
      PROVE  LeafRows'
  BY <1>1, <1>2 DEF LeafRows, OnlyRow, Valid
<1>3. ASSUME \A r \in Rows : Kept(r) PROVE LeafRows'
  BY <1>1, <1>3 DEF LeafRows, Kept, Valid
<1>4. ASSUME NEW r \in Rows, OnlyRow(r), row'[r].state = row[r].state,
             row'[r].type = row[r].type, row'[r].parents \subseteq row[r].parents
      PROVE  LeafRows'
  BY <1>1, <1>2, <1>4 DEF LeafRows, Valid
<1>5. ASSUME NEW t \in Threads, CreateInit(t) \/ MergeInit(t) \/ DestroyEnd(t)
      PROVE LeafRows'
  BY <1>1, <1>2, <1>5, CreateInitRow, MergeInitRow, DestroyEndRow DEF Fields
<1>6. ASSUME NEW t \in Threads, MergeAbort(t) PROVE LeafRows'
  BY <1>1, <1>4, <1>6, MergeAbortRow DEF Fields
<1>7. ASSUME NEW t \in Threads, MergeEnd(t) PROVE LeafRows'
  <2>1. /\ obj[t] \in Rows /\ OnlyRow(obj[t]) /\ row[obj[t]].type = "GROUP"
        /\ row'[obj[t]].parents = row[obj[t]].parents
    BY <1>1, <1>7, MergedRow DEF MergeEnd, ThreadStages, OwnedRows, Fields
  <2> QED
    BY <1>1, <1>2, <2>1 DEF LeafRows
<1>8. ASSUME NEW t \in Threads, NEW g \in Rows, NotifyParent(t, g) PROVE LeafRows'
  <2>1. status[t] \in SignaledStates
    BY <1>1, <1>8 DEF NotifyParent, ThreadStages
  <2>2. /\ OnlyRow(g) /\ row'[g].type = row[g].type /\ row'[g].parents = row[g].parents
        /\ row'[g].state = "INVALID" => ~Valid(g)
    BY <1>1, <1>8, <2>1, NotifiedRow DEF Fields, ParentState, Valid, SignaledStates
  <2> QED
    BY <1>1, <1>2, <2>2 DEF LeafRows
<1>9. ASSUME NEW t \in Threads, NEW c \in Rows, MergeLink(t, c) PROVE LeafRows'
  <2>1. /\ obj[t] \in Rows /\ c # obj[t] /\ row[c].type = "INDV" /\ Valid(c)
        /\ row[obj[t]].type = "GROUP"
    BY <1>1, <1>9, MergeLinkRows DEF MergeLink, OwnedRows
  <2>2. CASE Links(t, c)
    BY <1>1, <2>1, <2>2 DEF Links, Fields, LeafRows, Valid
  <2>3. CASE Inherits(t, c)
    BY <1>1, <1>2, <2>1, <2>3 DEF Inherits, Fields, LeafRows
  <2> QED
    BY <1>1, <1>9, <2>2, <2>3, MergeLinkRows
<1>10. ASSUME NEW t \in Threads, NEW c \in Rows, MergeFail(t, c) PROVE LeafRows'
  <2>1. /\ obj[t] \in Rows /\ OnlyRow(obj[t]) /\ row[obj[t]].type = "GROUP"
        /\ row'[obj[t]].parents = row[obj[t]].parents
    BY <1>1, <1>10, MergeFailRow DEF MergeFail, OwnedRows, Fields
  <2> QED
    BY <1>1, <1>2, <2>1 DEF LeafRows
<1>11. ASSUME NEW t \in Threads, NEW c \in Rows,
              MergeUnlink(t, c) \/ DestroyChild(t, c) \/ DestroyParent(t, c)
       PROVE LeafRows'
  BY <1>1, <1>4, <1>11, MergeUnlinkRow, DestroyChildRow, DestroyParentRow DEF Fields
<1>12. ASSUME NEW t \in Threads, NEW r \in Rows, DestroyCall(t, r) PROVE LeafRows'
  BY <1>1, <1>2, <1>12, DestroyCallRow DEF Fields
<1>13. ASSUME NEW t \in Threads, NEW r \in Rows, NEW s \in SignaledStates,
              SignalCall(t, r, s) PROVE LeafRows'
  BY <1>1, <1>2, <1>4, <1>13, SignalSteps DEF SignalLess, SignalLast, Kept, Fields
<1>14. ASSUME NEW t \in Threads, NEW r \in Rows, NEW s \in SignaledStates,
              UserSignal(t, r, s) PROVE LeafRows'
  BY <1>1, <1>4, <1>14, UserSignalRow DEF Fields
<1>15. CASE UNCHANGED row
  BY <1>3, <1>15 DEF Kept
<1>16. ASSUME NEW t \in Threads, NEW r \in Rows,
              CreateReserve(t, r) \/ MergeReserve(t, r) PROVE LeafRows'
  BY <1>15, <1>16 DEF CreateReserve, MergeReserve
<1>17. ASSUME NEW t \in Threads, CloseMove(t) PROVE LeafRows'
  BY <1>15, <1>17 DEF CloseMove, CloseBegin, CloseFlush, CloseFlushed, CloseEnd, rowVars
<1>21. ASSUME NEW t \in Threads, MergeLook(t) PROVE LeafRows'
  BY <1>1, <1>15, <1>21, Looks DEF rowVars
<1>18. CASE Aside
  BY <1>1, <1>3, <1>18, Besides
<1>19. CASE UNCHANGED vars
  BY <1>15, <1>19 DEF vars
<1>20. CASE Next
  BY <1>1, <1>5, <1>6, <1>7, <1>8, <1>9, <1>10, <1>11, <1>12, <1>13, <1>14, <1>16,
     <1>17, <1>18, <1>20, <1>21, StepCases
<1> QED
  BY <1>19, <1>20

-----------------------------------------------------------------------------
(* Members and groups                                                      *)

Linked(c, g) ==
  /\ row[g].type = "GROUP" /\ Valid(g)
  /\ c \in row[g].children /\ c \in pending[g]

Leaves(u, c, g) == pc[u] \in {"unlink", "destroy"} /\ obj[u] = g /\ c \in list[u]

Link(c, g) == g \in bitmap /\ (Linked(c, g) \/ \E u \in Threads : Leaves(u, c, g))

\* ParentLinks for one child and one parent.
LEMMA LinkOf ==
  ASSUME ParentLinks, NEW c \in Rows, NEW g \in Rows, g \in row[c].parents
  PROVE  Link(c, g)
  BY DEF ParentLinks, Link, Linked, Leaves

\* ParentLinks from one child and one parent.
LEMMA LinksAll ==
  ASSUME \A c, g \in Rows : g \in row'[c].parents => Link(c, g)'
  PROVE  ParentLinks'
  BY DEF ParentLinks, Link, Linked, Leaves

\* Only the owner of a row takes members off it.
LEMMA LeavesOwns ==
  ASSUME NEW u, NEW c, NEW g, Leaves(u, c, g) PROVE Owns(u, g)
  BY DEF Leaves, Owns

\* A group nobody may name: its links are all gone.
LEMMA NoLink ==
  ASSUME Owners, ParentLinks, NEW t \in Threads, NEW g \in Rows, Owns(t, g), ~Valid(g),
         pc[t] \in {"create", "merge"} \/ list[t] = {}, NEW c \in Rows
  PROVE  g \notin row[c].parents
<1> SUFFICES ASSUME g \in row[c].parents PROVE FALSE
  OBVIOUS
<1>1. PICK u \in Threads : Leaves(u, c, g)
  BY LinkOf DEF Link, Linked
<1>2. u = t
  BY <1>1, LeavesOwns DEF Owners
<1> QED
  BY <1>1, <1>2 DEF Leaves

\* The steps of t that take no member off change the links of g only where they
\* change the row g.
LEMMA LinkKept ==
  ASSUME NEW t \in Threads, NEW c \in Rows, NEW g \in Rows, Link(c, g),
         \A u \in Threads \ {t} : pc'[u] = pc[u] /\ obj'[u] = obj[u] /\ list'[u] = list[u],
         Leaves(t, c, g) => Leaves(t, c, g)',
         g \in bitmap', Linked(c, g) => Linked(c, g)'
  PROVE  Link(c, g)'
<1>1. CASE Linked(c, g)
  BY <1>1 DEF Link
<1>2. ASSUME NEW u \in Threads, Leaves(u, c, g) PROVE Leaves(u, c, g)'
  <2>1. CASE u = t
    BY <1>2, <2>1
  <2>2. CASE u # t
    BY <1>2, <2>2 DEF Leaves
  <2> QED
    BY <2>1, <2>2
<1> QED
  BY <1>1, <1>2 DEF Link

\* A step of one thread leaves the places of the others alone.
LEMMA OthersStay ==
  ASSUME TypeOK, NEW t \in Threads, NEW at, NEW o, NEW l, NEW p, Moves(t, at, o, l, p)
  PROVE  \A u \in Threads \ {t} : pc'[u] = pc[u] /\ obj'[u] = obj[u] /\ list'[u] = list[u]
  BY DEF TypeOK, Moves

\* Every step keeps a parent link of a row backed by the group or its owner.
LEMMA NextParentLinks ==
  ASSUME StructInv, [Next]_vars PROVE ParentLinks'
<1>1. /\ TypeOK /\ CloseStages /\ ThreadStages /\ Owners /\ OwnedRows /\ ValidRows
      /\ LeafRows /\ ParentLinks
      /\ row \in [Rows -> RowType] /\ \A r \in Rows : row[r] \in RowType
      /\ pc \in [Threads -> Places] /\ obj \in [Threads -> Rows \cup {NoRow}]
      /\ list \in [Threads -> SUBSET Rows] /\ pending \in [Rows -> SUBSET Rows]
  BY TypeParts DEF StructInv, ThreadTypes, OtherTypes
<1> DEFINE Stay(t) == \A u \in Threads \ {t} :
                        pc'[u] = pc[u] /\ obj'[u] = obj[u] /\ list'[u] = list[u]
<1>2. ASSUME NEW t \in Threads, Return(t) PROVE Stay(t)
  BY <1>1, <1>2, Returns, OthersStay
\* Only the row r is replaced, and no group on a list is r.
<1>3. ASSUME NEW t \in Threads, Stay(t), NEW r \in Rows, OnlyRow(r),
             row'[r].parents \subseteq row[r].parents,
             \A c \in Rows : r \notin row[c].parents,
             \A x \in Rows \ {r} : pending'[x] = pending[x] /\ (x \in bitmap => x \in bitmap'),
             Owns(t, r)
      PROVE  ParentLinks'
  <2>1. ASSUME NEW c \in Rows, NEW g \in Rows, g \in row'[c].parents PROVE Link(c, g)'
    <3>1. g \in row[c].parents /\ g # r
      BY <1>3, <2>1 DEF OnlyRow
    <3>2. Link(c, g) /\ g \in bitmap'
      BY <1>1, <1>3, <3>1, LinkOf DEF Link
    <3>3. Linked(c, g) => Linked(c, g)'
      BY <1>3, <3>1 DEF Linked, OnlyRow, Valid
    <3>4. ~Leaves(t, c, g)
      BY <1>3, <3>1 DEF Leaves, Owns
    <3> QED
      BY <1>3, <3>2, <3>3, <3>4, LinkKept
  <2> QED
    BY <2>1, LinksAll
\* Rows keep their links, and t is not the one that takes members off.
<1>4. ASSUME NEW t \in Threads, Stay(t), pc[t] \notin {"unlink", "destroy"},
             UNCHANGED pending, bitmap \subseteq bitmap',
             \A x \in Rows : /\ row'[x].type = row[x].type
                             /\ Valid(x) => row'[x].state # "INVALID"
                             /\ row'[x].children = row[x].children
                             /\ row'[x].parents \subseteq row[x].parents
      PROVE  ParentLinks'
  <2>1. ASSUME NEW c \in Rows, NEW g \in Rows, g \in row'[c].parents PROVE Link(c, g)'
    <3>1. g \in row[c].parents
      BY <1>4, <2>1
    <3>2. Link(c, g) /\ g \in bitmap'
      BY <1>1, <1>4, <3>1, LinkOf DEF Link
    <3>3. Linked(c, g) => Linked(c, g)'
      BY <1>4, <3>1 DEF Linked, Valid
    <3>4. ~Leaves(t, c, g)
      BY <1>4 DEF Leaves
    <3> QED
      BY <1>4, <3>2, <3>3, <3>4, LinkKept
  <2> QED
    BY <2>1, LinksAll
<1>5. ASSUME NEW t \in Threads, CreateInit(t) PROVE ParentLinks'
  <2>1. PICK r \in Rows : r = obj[t]
    BY <1>1, <1>5, CreateInitRow
  <2>2. /\ Owns(t, r) /\ ~Valid(r) /\ OnlyRow(r) /\ row'[r].parents = {}
        /\ Return(t) /\ UNCHANGED <<pending, bitmap>> /\ pc[t] = "create"
    BY <1>1, <1>5, <2>1, CreateInitRow DEF CreateInit, Owns, OwnedRows, Fields, history
  <2>3. \A c \in Rows : r \notin row[c].parents
    BY <1>1, <2>2, NoLink
  <2> HIDE DEF Stay
  <2> QED
    BY <1>2, <1>3, <2>2, <2>3
<1>6. ASSUME NEW t \in Threads, MergeInit(t) PROVE ParentLinks'
  <2>1. PICK r \in Rows : r = obj[t]
    BY <1>1, <1>6, MergeInitRow
  <2>2. /\ Owns(t, r) /\ ~Valid(r) /\ OnlyRow(r) /\ row'[r].parents = {}
        /\ UNCHANGED bitmap /\ pc[t] = "merge"
    BY <1>1, <1>6, <2>1, MergeInitRow DEF MergeInit, Owns, OwnedRows, Fields
  <2>3. \A x \in Rows \ {r} : pending'[x] = pending[x]
    BY <1>1, <1>6, <2>1 DEF MergeInit
  <2>4. \A c \in Rows : r \notin row[c].parents
    BY <1>1, <2>2, NoLink
  <2>5. Stay(t)
    BY <1>1, <1>6 DEF MergeInit, Goto
  <2> HIDE DEF Stay
  <2> QED
    BY <1>3, <2>2, <2>3, <2>4, <2>5
<1>7. ASSUME NEW t \in Threads, DestroyEnd(t) PROVE ParentLinks'
  <2>1. PICK r \in Rows : r = obj[t]
    BY <1>1, <1>7, DestroyEndRow
  <2>2. /\ Owns(t, r) /\ ~Valid(r) /\ OnlyRow(r) /\ row'[r].parents = {}
        /\ bitmap' = bitmap \ {r} /\ Return(t) /\ list[t] = {}
    BY <1>1, <1>7, <2>1, DestroyEndRow DEF DestroyEnd, Owns, OwnedRows, Fields
  <2>3. \A x \in Rows \ {r} : pending'[x] = pending[x]
    BY <1>1, <1>7, <2>1 DEF DestroyEnd
  <2>4. \A c \in Rows : r \notin row[c].parents
    BY <1>1, <2>2, NoLink
  <2> HIDE DEF Stay
  <2> QED
    BY <1>2, <1>3, <2>2, <2>3, <2>4
<1>8. ASSUME NEW t \in Threads, MergeAbort(t) PROVE ParentLinks'
  <2>1. PICK r \in Rows : r = obj[t]
    BY <1>1, <1>8, MergeAbortRow
  <2>2. /\ Owns(t, r) /\ ~Valid(r) /\ OnlyRow(r) /\ row'[r].parents = row[r].parents
        /\ bitmap' = bitmap \ {r} /\ Return(t) /\ list[t] = {} /\ UNCHANGED pending
    <3>1. OnlyRow(r) /\ row'[r].parents = row[r].parents
      BY <1>1, <1>8, <2>1, MergeAbortRow DEF Fields
    <3>2. /\ bitmap' = bitmap \ {r} /\ Return(t) /\ list[t] = {} /\ UNCHANGED pending
          /\ Owns(t, r)
      BY <1>8, <2>1 DEF MergeAbort, Owns, history
    <3>3. ~Valid(r)
      BY <1>1, <1>8, <2>1 DEF MergeAbort, OwnedRows
    <3> QED
      BY <3>1, <3>2, <3>3
  <2>3. \A c \in Rows : r \notin row[c].parents
    BY <1>1, <2>2, NoLink
  <2> HIDE DEF Stay
  <2> QED
    BY <1>2, <1>3, <2>2, <2>3
<1>9. ASSUME NEW t \in Threads, MergeEnd(t) PROVE ParentLinks'
  <2>1. PICK r \in Rows : r = obj[t]
    BY <1>1, <1>9 DEF MergeEnd, ThreadStages
  <2>2. /\ OnlyRow(r) /\ row'[r].parents = row[r].parents /\ row'[r].type = row[r].type
        /\ row'[r].children = row[r].children
        /\ Valid(r) => row'[r].state # "INVALID"
    BY <1>1, <1>9, <2>1, MergedRow DEF Fields, ParentState, Valid
  <2>3. pc[t] = "link" /\ UNCHANGED <<pending, bitmap>> /\ Return(t)
    BY <1>9 DEF MergeEnd, history
  <2>4. Stay(t)
    BY <1>2, <2>3
  <2> HIDE DEF Stay
  <2> QED
    BY <1>4, <2>2, <2>3, <2>4 DEF OnlyRow, Valid
<1>10. ASSUME NEW t \in Threads, NEW g \in Rows, NotifyParent(t, g) PROVE ParentLinks'
  <2>1. /\ status[t] \in SignaledStates /\ UNCHANGED <<pending, bitmap>> /\ pc[t] = "notify"
    BY <1>1, <1>10 DEF NotifyParent, ThreadStages, history
  <2>2. /\ OnlyRow(g) /\ row'[g].parents = row[g].parents /\ row'[g].type = row[g].type
        /\ row'[g].children = row[g].children
        /\ Valid(g) => row'[g].state # "INVALID"
    BY <1>1, <1>10, <2>1, NotifiedRow DEF Fields, ParentState, Valid, SignaledStates
  <2>3. Stay(t)
    <3>1. CASE list[t] = {g}
      BY <1>2, <1>10, <3>1 DEF NotifyParent
    <3>2. CASE list[t] # {g}
      BY <1>1, <1>10, <3>2 DEF NotifyParent
    <3> QED
      BY <3>1, <3>2
  <2> HIDE DEF Stay
  <2> QED
    BY <1>4, <2>1, <2>2, <2>3 DEF OnlyRow, Valid
<1>11. ASSUME NEW t \in Threads, NEW r \in Rows, NEW s \in SignaledStates,
              UserSignal(t, r, s) PROVE ParentLinks'
  <2>1. pc[t] = "idle" /\ UNCHANGED <<pending, bitmap>> /\ Stay(t)
    BY <1>1, <1>11 DEF UserSignal, Enter, Goto, history
  <2>2. /\ OnlyRow(r) /\ row'[r].parents = row[r].parents /\ row'[r].type = row[r].type
        /\ row'[r].children = row[r].children /\ row'[r].state = row[r].state
    BY <1>1, <1>11, UserSignalRow DEF Fields
  <2> HIDE DEF Stay
  <2> QED
    BY <1>4, <2>1, <2>2 DEF OnlyRow, Valid
<1>12. ASSUME NEW t \in Threads, NEW r \in Rows,
              CreateReserve(t, r) \/ MergeReserve(t, r) PROVE ParentLinks'
  <2>1. pc[t] \in {"idle", "check"} /\ UNCHANGED <<pending, row>> /\ Stay(t)
        /\ bitmap \subseteq bitmap'
    BY <1>1, <1>12 DEF CreateReserve, MergeReserve, Reserve, Enter, Goto, history
  <2> HIDE DEF Stay
  <2> QED
    BY <1>4, <2>1 DEF Valid
<1>24. ASSUME NEW t \in Threads, MergeLook(t) PROVE ParentLinks'
  <2>1. pc[t] \in {"idle", "check"} /\ UNCHANGED <<pending, row, bitmap>>
    BY <1>1, <1>24, Looks DEF rowVars, history
  <2>2. Stay(t)
    BY <1>1, <1>24, Looks, OthersStay
  <2> HIDE DEF Stay
  <2> QED
    BY <1>4, <2>1, <2>2 DEF Valid
<1>13. ASSUME NEW t \in Threads, CloseMove(t) PROVE ParentLinks'
  <2>1. pc[t] \in {"idle", "sweep", "flush", "reap"} /\ UNCHANGED <<pending, row, bitmap>>
        /\ Stay(t)
    BY <1>1, <1>13 DEF CloseMove, CloseBegin, CloseFlush, CloseFlushed, CloseEnd, Enter, Goto,
       rowVars, threadVars, history
  <2> HIDE DEF Stay
  <2> QED
    BY <1>4, <2>1 DEF Valid
<1>14. ASSUME UNCHANGED <<pc, obj, list, pending, bitmap>>, \A r \in Rows : Kept(r)
       PROVE ParentLinks'
  BY <1>1, <1>14 DEF ParentLinks, Kept, Valid
<1>15. CASE Aside
  BY <1>1, <1>14, <1>15, Besides DEF threadVars, history
<1>16. CASE UNCHANGED vars
  BY <1>14, <1>16 DEF vars, Kept
<1>17. ASSUME NEW t \in Threads, NEW r \in Rows, NEW s \in SignaledStates,
              SignalCall(t, r, s) PROVE ParentLinks'
  <2>1. pc[t] \notin {"unlink", "destroy"} /\ Stay(t)
    <3>1. \E at, l, p : Moves(t, at, NoRow, l, p)
      BY <1>1, <1>17, SignalSteps DEF SignalLess, SignalLast
    <3> QED
      BY <1>1, <1>17, <3>1, OthersStay DEF SignalCall
  <2>2. CASE SignalLess(t, r)
    <3> HIDE DEF Stay
    <3> QED
      BY <1>4, <2>1, <2>2 DEF SignalLess, OnlyRow, Kept, Valid, history
  <2>3. CASE SignalLast(t, r, s)
    <3>1. ASSUME NEW c \in Rows, NEW g \in Rows, g \in row'[c].parents PROVE Link(c, g)'
      <4>1. c # r /\ g \in row[c].parents
        BY <2>3, <3>1 DEF SignalLast, OnlyRow, Fields
      <4>2. Link(c, g) /\ g \in bitmap'
        BY <1>1, <2>3, <4>1, LinkOf DEF Link, SignalLast
      <4>3. Linked(c, g) => Linked(c, g)'
        <5>1. c \in pending[g] => c \in pending'[g]
          BY <2>3, <4>1 DEF SignalLast, MemberSignaled
        <5>2. /\ row'[g].type = row[g].type /\ row'[g].children = row[g].children
              /\ Valid(g) => row'[g].state # "INVALID"
          BY <2>3 DEF SignalLast, Fields, OnlyRow, Valid, SignaledStates
        <5> QED
          BY <5>1, <5>2 DEF Linked, Valid
      <4>4. ~Leaves(t, c, g)
        BY <2>1 DEF Leaves
      <4> QED
        BY <2>1, <4>2, <4>3, <4>4, LinkKept
    <3> QED
      BY <3>1, LinksAll
  <2> QED
    BY <1>1, <1>17, <2>2, <2>3, SignalSteps
<1>18. ASSUME NEW t \in Threads, NEW x \in Rows, MergeLink(t, x) PROVE ParentLinks'
  <2>1. PICK r \in Rows : r = obj[t]
    BY <1>1, <1>18, MergeLinkRows
  <2>2. /\ pc[t] = "link" /\ Stay(t) /\ UNCHANGED bitmap /\ r \in bitmap
        /\ row[r].type = "GROUP" /\ Valid(r) /\ x # r
    BY <1>1, <1>18, <2>1, MergeLinkRows DEF MergeLink, OwnedRows, ValidRows
  <2>3. CASE Inherits(t, x)
    <3> HIDE DEF Stay
    <3> QED
      BY <1>4, <2>1, <2>2, <2>3 DEF Inherits, OnlyRow, Fields, Valid, Signaled, SignaledStates
  <2>4. CASE Links(t, x)
    <3>1. ASSUME NEW c \in Rows, NEW g \in Rows, g \in row'[c].parents PROVE Link(c, g)'
      <4>1. g \in row[c].parents \/ (c = x /\ g = r)
        BY <2>1, <2>2, <2>4, <3>1 DEF Links, Fields
      <4>2. CASE c = x /\ g = r
        <5>1. Linked(c, g)'
          BY <1>1, <2>1, <2>2, <2>4, <4>2 DEF Links, Fields, Linked, Valid
        <5> QED
          BY <2>2, <4>2, <5>1 DEF Link
      <4>3. CASE g \in row[c].parents
        <5>1. Link(c, g) /\ g \in bitmap'
          BY <1>1, <2>2, <4>3, LinkOf DEF Link
        <5>2. c \in pending[g] => c \in pending'[g]
          BY <1>1, <2>1, <2>4 DEF Links
        <5>3. /\ row'[g].type = row[g].type /\ row[g].children \subseteq row'[g].children
              /\ row'[g].state = row[g].state
          BY <2>1, <2>4 DEF Links, Fields
        <5>4. Linked(c, g) => Linked(c, g)'
          BY <5>2, <5>3 DEF Linked, Valid
        <5>5. ~Leaves(t, c, g)
          BY <2>2 DEF Leaves
        <5> QED
          BY <2>2, <5>1, <5>4, <5>5, LinkKept
      <4> QED
        BY <4>1, <4>2, <4>3
    <3> QED
      BY <3>1, LinksAll
  <2> QED
    BY <1>1, <1>18, <2>3, <2>4, MergeLinkRows
<1>19. ASSUME NEW t \in Threads, NEW x \in Rows, MergeFail(t, x) PROVE ParentLinks'
  <2>1. PICK r \in Rows : r = obj[t]
    BY <1>1, <1>19, MergeFailRow
  <2>2. /\ Owns(t, r) /\ OnlyRow(r) /\ row'[r].parents = row[r].parents
        /\ UNCHANGED <<bitmap, pending>> /\ pc[t] = "link"
        /\ pc'[t] = "unlink" /\ obj'[t] = r /\ list'[t] = row[r].children /\ Stay(t)
    <3>1. OnlyRow(r) /\ row'[r].parents = row[r].parents
      BY <1>1, <1>19, <2>1, MergeFailRow DEF Fields
    <3>2. /\ Owns(t, r) /\ UNCHANGED <<bitmap, pending>> /\ pc[t] = "link"
      BY <1>19, <2>1 DEF MergeFail, Owns, history
    <3>3. /\ pc'[t] = "unlink" /\ obj'[t] = r /\ list'[t] = row[r].children /\ Stay(t)
      BY <1>1, <1>19, <2>1 DEF MergeFail, Goto
    <3> QED
      BY <3>1, <3>2, <3>3
  <2>3. ASSUME NEW c \in Rows, NEW g \in Rows, g \in row'[c].parents PROVE Link(c, g)'
    <3>1. g \in row[c].parents
      BY <2>2, <2>3 DEF OnlyRow
    <3>2. Link(c, g) /\ g \in bitmap'
      BY <1>1, <2>2, <3>1, LinkOf DEF Link
    <3>3. ~Leaves(t, c, g)
      BY <2>2 DEF Leaves
    <3>4. CASE g # r
      <4>1. Linked(c, g) => Linked(c, g)'
        BY <2>2, <3>4 DEF Linked, Valid, OnlyRow
      <4> QED
        BY <2>2, <3>2, <3>3, <4>1, LinkKept
    <3>5. CASE g = r
      <4>1. \A u \in Threads : ~Leaves(u, c, g)
        BY <1>1, <2>2, <3>3, <3>5, LeavesOwns, OwnedAlone
      <4>2. c \in row[r].children
        BY <3>2, <3>5, <4>1 DEF Link, Linked
      <4>3. Leaves(t, c, g)'
        BY <2>2, <3>5, <4>2 DEF Leaves
      <4> QED
        BY <3>2, <4>3 DEF Link
    <3> QED
      BY <3>4, <3>5
  <2> QED
    BY <2>3, LinksAll
<1>20. ASSUME NEW t \in Threads, NEW x \in Rows, MergeUnlink(t, x) \/ DestroyChild(t, x)
       PROVE ParentLinks'
  <2>1. PICK r \in Rows : r = obj[t]
    BY <1>1, <1>20 DEF MergeUnlink, DestroyChild, ThreadStages
  <2>2. /\ OnlyRow(x) /\ row'[x].state = row[x].state /\ row'[x].type = row[x].type
        /\ row'[x].children = row[x].children
        /\ row'[x].parents = row[x].parents \ {r}
    <3>1. ~Valid(x) => row[x].parents = row[x].parents \ {r}
      BY <1>1 DEF LeafRows
    <3> QED
      <4>1. CASE MergeUnlink(t, x)
        BY <1>1, <2>1, <4>1, MergeUnlinkRow DEF Fields
      <4>2. CASE DestroyChild(t, x)
        BY <1>1, <2>1, <3>1, <4>2, DestroyChildRow DEF Fields
      <4> QED
        BY <1>20, <4>1, <4>2
  <2>3. /\ UNCHANGED <<bitmap, pending, pc, obj>> /\ list' = [list EXCEPT ![t] = @ \ {x}]
        /\ Stay(t)
    BY <1>1, <1>20 DEF MergeUnlink, DestroyChild, history
  <2>4. ASSUME NEW c \in Rows, NEW g \in Rows, g \in row'[c].parents PROVE Link(c, g)'
    <3>1. g \in row[c].parents /\ ~(c = x /\ g = r)
      BY <2>2, <2>4 DEF OnlyRow
    <3>2. Link(c, g) /\ g \in bitmap'
      BY <1>1, <2>3, <3>1, LinkOf DEF Link
    <3>3. Linked(c, g) => Linked(c, g)'
      BY <2>2, <2>3 DEF Linked, Valid, OnlyRow
    <3>4. Leaves(t, c, g) => Leaves(t, c, g)'
      BY <1>1, <2>1, <2>3, <3>1 DEF Leaves
    <3> QED
      BY <2>3, <3>2, <3>3, <3>4, LinkKept
  <2> QED
    BY <2>4, LinksAll
<1>21. ASSUME NEW t \in Threads, NEW x \in Rows, DestroyParent(t, x) PROVE ParentLinks'
  <2>1. PICK r \in Rows : r = obj[t]
    BY <1>1, <1>21 DEF DestroyParent, ThreadStages
  <2>2. /\ OnlyRow(x) /\ row'[x].state = row[x].state /\ row'[x].type = row[x].type
        /\ row[x].children \ {r} \subseteq row'[x].children
        /\ row'[x].parents = row[x].parents
    BY <1>1, <1>21, <2>1, DestroyParentRow DEF Fields
  <2>3. /\ UNCHANGED <<bitmap, pending, pc, obj, list>> /\ pc[t] = "destroy"
    BY <1>1, <1>21 DEF DestroyParent, history
  <2>4. row[r].parents = {}
    BY <1>1, <2>1, <2>3 DEF OwnedRows, LeafRows
  <2>5. ASSUME NEW c \in Rows, NEW g \in Rows, g \in row'[c].parents PROVE Link(c, g)'
    <3>1. g \in row[c].parents /\ c # r
      BY <2>2, <2>4, <2>5 DEF OnlyRow
    <3>2. Link(c, g) /\ g \in bitmap'
      BY <1>1, <2>3, <3>1, LinkOf DEF Link
    <3>3. Linked(c, g) => Linked(c, g)'
      BY <2>2, <2>3, <3>1 DEF Linked, Valid, OnlyRow
    <3>4. Leaves(t, c, g) => Leaves(t, c, g)'
      BY <2>3 DEF Leaves
    <3> QED
      BY <2>3, <3>2, <3>3, <3>4, LinkKept
  <2> QED
    BY <2>5, LinksAll
<1>22. ASSUME NEW t \in Threads, NEW r \in Rows, DestroyCall(t, r) PROVE ParentLinks'
  <2>1. /\ OnlyRow(r) /\ row'[r].parents = {}
    BY <1>1, <1>22, DestroyCallRow DEF Fields
  <2>2. /\ UNCHANGED <<bitmap, pending>> /\ Unlocked(r) /\ Valid(r)
        /\ pc[t] \in {"idle", "reap"} /\ pc'[t] = "destroy" /\ obj'[t] = r
        /\ list'[t] = row[r].children /\ Stay(t)
    BY <1>1, <1>22 DEF DestroyCall, DestroyBody, Goto, history
  <2>3. ASSUME NEW c \in Rows, NEW g \in Rows, g \in row'[c].parents PROVE Link(c, g)'
    <3>1. g \in row[c].parents
      BY <2>1, <2>3 DEF OnlyRow
    <3>2. Link(c, g) /\ g \in bitmap'
      BY <1>1, <2>2, <3>1, LinkOf DEF Link
    <3>3. ~Leaves(t, c, g)
      BY <2>2 DEF Leaves
    <3>4. CASE g # r
      <4>1. Linked(c, g) => Linked(c, g)'
        BY <2>1, <2>2, <3>4 DEF Linked, Valid, OnlyRow
      <4> QED
        BY <2>2, <3>2, <3>3, <4>1, LinkKept
    <3>5. CASE g = r
      <4>1. \A u \in Threads : ~Leaves(u, c, g)
        BY <1>1, <2>2, <3>5, LeavesOwns, NoOwner
      <4>2. c \in row[r].children
        BY <3>2, <3>5, <4>1 DEF Link, Linked
      <4>3. Leaves(t, c, g)'
        BY <2>2, <3>5, <4>2 DEF Leaves
      <4> QED
        BY <3>2, <4>3 DEF Link
    <3> QED
      BY <3>4, <3>5
  <2> QED
    BY <2>3, LinksAll
<1>23. CASE Next
  BY <1>1, <1>5, <1>6, <1>7, <1>8, <1>9, <1>10, <1>11, <1>12, <1>13, <1>15, <1>17, <1>18,
     <1>19, <1>20, <1>21, <1>22, <1>23, <1>24, StepCases
<1> QED
  BY <1>16, <1>23

-----------------------------------------------------------------------------
(* Callbacks of former objects                                             *)

Making == {"create", "merge", "link", "unlink"}

\* Callbacks get no new object, rows are given back without callbacks, and rows
\* to be made are taken from the free ones.
LEMMA FreshKept ==
  ASSUME TypeOK, ThreadStages, FreshCallbacks,
         \A k \in Callbacks : cb'[k].obj = cb[k].obj \/ cb'[k].obj = NoRow,
         \A r \in bitmap \ bitmap' : \A k \in Callbacks : cb'[k].obj # r,
         \A u \in Threads : pc'[u] \in Making =>
           \/ pc[u] \in Making /\ obj'[u] = obj[u]
           \/ obj'[u] \in Rows \ bitmap
  PROVE  FreshCallbacks'
<1>1. ASSUME NEW k \in Callbacks, NEW r \in Rows \ bitmap' PROVE cb'[k].obj # r
  BY <1>1, ThreadAssumption DEF FreshCallbacks
<1>2. ASSUME NEW k \in Callbacks, NEW u \in Threads, pc'[u] \in Making
      PROVE  cb'[k].obj # obj'[u]
  <2>1. CASE pc[u] \in Making /\ obj'[u] = obj[u]
    <3>1. obj[u] \in Rows /\ cb[k].obj # obj[u]
      BY <2>1 DEF ThreadStages, FreshCallbacks, Making
    <3> QED
      BY <2>1, <3>1, ThreadAssumption
  <2>2. CASE obj'[u] \in Rows \ bitmap
    BY <2>2, ThreadAssumption DEF FreshCallbacks
  <2> QED
    BY <1>2, <2>1, <2>2
<1> QED
  BY <1>1, <1>2 DEF FreshCallbacks, Making

\* The steps that leave the rows alone, for FreshCallbacks.
LEMMA AsideFreshCallbacks ==
  ASSUME StructInv, Aside PROVE FreshCallbacks'
<1>1. /\ TypeOK /\ ThreadStages /\ Owners /\ OwnedRows /\ ValidRows /\ FreshCallbacks
      /\ UNCHANGED <<bitmap, pc, obj>>
      /\ cb \in [Callbacks -> CallbackType]
  BY Besides, TypeParts DEF StructInv, threadVars
<1>2. ASSUME NEW k \in Callbacks, NEW r \in Rows, RegisterCallback(k, r)
      PROVE  FreshCallbacks'
  <2>1. /\ cb'[k].obj = r /\ \A j \in Callbacks \ {k} : cb'[j] = cb[j]
    BY <1>1, <1>2 DEF RegisterCallback
  <2>2. Valid(r) /\ Unlocked(r) /\ r \in bitmap
    BY <1>1, <1>2 DEF RegisterCallback, ValidRows
  <2>3. \A u \in Threads : pc[u] \in Making => obj[u] # r
    BY <1>1, <2>2, NoOwner DEF Owns, Making
  <2>4. ASSUME NEW j \in Callbacks
        PROVE  /\ \A x \in Rows \ bitmap' : cb'[j].obj # x
               /\ \A u \in Threads : pc'[u] \in Making => cb'[j].obj # obj'[u]
    <3>1. CASE j = k
      BY <1>1, <2>1, <2>2, <2>3, <3>1
    <3>2. CASE j # k
      BY <1>1, <2>1, <3>2 DEF FreshCallbacks, Making
    <3> QED
      BY <3>1, <3>2
  <2> QED
    BY <2>4 DEF FreshCallbacks, Making
<1>3. ASSUME \A k \in Callbacks : cb'[k].obj = cb[k].obj \/ cb'[k].obj = NoRow
      PROVE  FreshCallbacks'
  BY <1>1, <1>3, FreshKept
<1>4. ASSUME UNCHANGED cb PROVE FreshCallbacks'
  BY <1>3, <1>4
<1>5. ASSUME NEW k \in Callbacks, cb' = [cb EXCEPT ![k] = NoCallback] PROVE FreshCallbacks'
  BY <1>1, <1>3, <1>5, NoCallbackType
<1> QED
  BY <1>2, <1>4, <1>5 DEF Aside, RowStep, RunCallback, OpenDevice, GetObjRef, PutObjRef,
     DeregisterCallback, RegisterPayload, DeregisterPayload

\* Every step keeps FreshCallbacks.
LEMMA NextFreshCallbacks ==
  ASSUME StructInv, [Next]_vars PROVE FreshCallbacks'
<1>1. /\ TypeOK /\ CloseStages /\ ThreadStages /\ Owners /\ OwnedRows /\ FreshCallbacks
      /\ row \in [Rows -> RowType] /\ \A r \in Rows : row[r] \in RowType
      /\ pc \in [Threads -> Places] /\ obj \in [Threads -> Rows \cup {NoRow}]
  BY TypeParts DEF StructInv, ThreadTypes
<1> DEFINE Same == \A k \in Callbacks : cb'[k].obj = cb[k].obj
           Rest(t) == \A u \in Threads \ {t} : pc'[u] = pc[u] /\ obj'[u] = obj[u]
\* A thread stops, or has never been, making a row.
<1>2. ASSUME Same, UNCHANGED bitmap, NEW t \in Threads, Rest(t),
             pc'[t] \in Making => pc[t] \in Making /\ obj'[t] = obj[t]
      PROVE  FreshCallbacks'
  BY <1>1, <1>2, FreshKept
<1>3. ASSUME NEW t \in Threads, Return(t)
      PROVE  Rest(t) /\ pc'[t] \notin Making
  BY <1>1, <1>3, Returns DEF Moves, Making
<1>4. ASSUME NEW t \in Threads, CreateInit(t) \/ MergeEnd(t) PROVE FreshCallbacks'
  <2>1. Same /\ UNCHANGED bitmap /\ Return(t)
    BY <1>4 DEF CreateInit, MergeEnd
  <2> HIDE DEF Same, Rest
  <2> QED
    BY <1>2, <1>3, <2>1
<1>5. ASSUME NEW t \in Threads, NEW c \in Rows,
             \/ MergeFail(t, c) \/ MergeLink(t, c) \/ MergeUnlink(t, c)
             \/ DestroyChild(t, c) \/ DestroyParent(t, c)
      PROVE  FreshCallbacks'
  <2>1. /\ Same /\ UNCHANGED bitmap /\ obj' = obj
        /\ pc' = pc \/ (pc[t] \in Making /\ \E at : pc' = [pc EXCEPT ![t] = at])
    BY <1>5 DEF MergeFail, MergeLink, MergeUnlink, DestroyChild, DestroyParent, Goto, Making
  <2>2. Rest(t) /\ (pc'[t] \in Making => pc[t] \in Making /\ obj'[t] = obj[t])
    BY <1>1, <2>1
  <2> HIDE DEF Same, Rest
  <2> QED
    BY <1>2, <2>1, <2>2
<1>6. ASSUME NEW t \in Threads, MergeAbort(t) PROVE FreshCallbacks'
  <2>1. /\ Same /\ bitmap' = bitmap \ {obj[t]} /\ Return(t) /\ pc[t] \in Making
    BY <1>6 DEF MergeAbort, Making
  <2>2. \A k \in Callbacks : cb[k].obj # obj[t]
    BY <1>1, <2>1 DEF FreshCallbacks, Making
  <2>3. Rest(t) /\ pc'[t] \notin Making
    BY <1>3, <2>1
  <2> QED
    BY <1>1, <2>1, <2>2, <2>3, FreshKept
<1>7. ASSUME NEW t \in Threads, DestroyEnd(t) PROVE FreshCallbacks'
  <2>1. bitmap' = bitmap \ {obj[t]} /\ Return(t) /\ obj[t] \in Rows
    BY <1>1, <1>7, DestroyEndRow DEF DestroyEnd
  <2>2. \A k \in Callbacks : /\ cb'[k].obj = cb[k].obj \/ cb'[k].obj = NoRow
                             /\ cb'[k].obj # obj[t]
    BY <1>1, <1>7, <2>1, DestroyEndCallbacks, NoCallbackType, ThreadAssumption
  <2>3. Rest(t) /\ pc'[t] \notin Making
    BY <1>3, <2>1
  <2> QED
    BY <1>1, <2>1, <2>2, <2>3, FreshKept
<1>8. ASSUME NEW t \in Threads, NEW r \in Rows,
             CreateReserve(t, r) \/ MergeReserve(t, r) PROVE FreshCallbacks'
  <2>1. /\ Same /\ bitmap' = bitmap \cup {r} /\ r \notin bitmap
        /\ obj' = [obj EXCEPT ![t] = r] /\ \E at : pc' = [pc EXCEPT ![t] = at]
    BY <1>8 DEF CreateReserve, MergeReserve, Reserve, Goto
  <2>2. Rest(t) /\ obj'[t] \in Rows \ bitmap
    BY <1>1, <2>1
  <2> QED
    BY <1>1, <2>1, <2>2, FreshKept
<1>9. ASSUME NEW t \in Threads, CloseMove(t) PROVE FreshCallbacks'
  <2>1. /\ \E at \in {"idle", "sweep", "flush", "reap"} : pc' = [pc EXCEPT ![t] = at]
        /\ Same /\ UNCHANGED <<bitmap, obj>>
    BY <1>1, <1>9 DEF CloseMove, CloseBegin, CloseFlush, CloseFlushed, CloseEnd, Goto, rowVars,
       threadVars, Enter
  <2>2. Rest(t) /\ pc'[t] \notin Making
    BY <1>1, <2>1 DEF Making
  <2> HIDE DEF Same, Rest
  <2> QED
    BY <1>2, <2>1, <2>2
<1>17. ASSUME NEW t \in Threads, MergeLook(t) PROVE FreshCallbacks'
  <2>1. Same /\ UNCHANGED bitmap
    BY <1>1, <1>17, Looks DEF rowVars
  <2>2. Rest(t) /\ pc'[t] \notin Making
    BY <1>1, <1>17, Looks DEF Moves, Making
  <2> HIDE DEF Same, Rest
  <2> QED
    BY <1>2, <2>1, <2>2
<1>10. ASSUME NEW t \in Threads, NEW g \in Rows, NotifyParent(t, g) PROVE FreshCallbacks'
  <2>1. /\ status[t] \in SignaledStates /\ UNCHANGED bitmap /\ pc[t] \notin Making
        /\ Return(t) \/ UNCHANGED <<pc, obj>>
    BY <1>1, <1>10 DEF NotifyParent, ThreadStages, Making
  <2>2. Rest(t) /\ pc'[t] \notin Making
    BY <1>1, <1>3, <2>1
  <2>3. Same
    <3>1. CASE Valid(g) /\ row[g].remaining = 1
      <4>1. cb' = Queued(row[g], ParentState(row[g].state, status[t]))
        BY <1>1, <1>10, <2>1, <3>1, NotifiedRow
      <4>2. ParentState(row[g].state, status[t]) \in SignaledStates
        BY <1>1, <2>1, <3>1, RowFields DEF ParentState, Valid
      <4> QED
        BY <1>1, <4>1, <4>2, QueuedFields
    <3>2. CASE ~(Valid(g) /\ row[g].remaining = 1)
      BY <1>1, <1>10, <2>1, <3>2, NotifiedRow
    <3> QED
      BY <3>1, <3>2
  <2> HIDE DEF Same, Rest
  <2> QED
    BY <1>2, <2>1, <2>2, <2>3
<1>11. ASSUME NEW t \in Threads, NEW r \in Rows, DestroyCall(t, r) PROVE FreshCallbacks'
  <2>1. Same /\ UNCHANGED bitmap /\ Rest(t) /\ pc'[t] \notin Making
    BY <1>1, <1>11 DEF DestroyCall, DestroyBody, Goto, Making
  <2> HIDE DEF Same, Rest
  <2> QED
    BY <1>2, <2>1
<1>12. ASSUME NEW t \in Threads, NEW r \in Rows, NEW s \in SignaledStates,
              SignalCall(t, r, s) PROVE FreshCallbacks'
  <2>1. ASSUME NEW at \in {"idle", "sweep", "reap", "notify"}, NEW l, NEW p,
               Moves(t, at, NoRow, l, p)
        PROVE  Rest(t) /\ pc'[t] \notin Making
    BY <1>1, <2>1 DEF Moves, Making
  <2>2. ASSUME SignalLess(t, r) PROVE Same /\ UNCHANGED bitmap /\ Rest(t) /\ pc'[t] \notin Making
    <3>1. PICK at \in {"idle", "sweep", "reap"} : Moves(t, at, NoRow, {}, {})
      BY <2>2 DEF SignalLess
    <3> QED
      BY <2>1, <2>2, <3>1 DEF SignalLess
  <2>3. ASSUME SignalLast(t, r, s) PROVE Same /\ UNCHANGED bitmap /\ Rest(t) /\ pc'[t] \notin Making
    <3>1. PICK at \in {"idle", "sweep", "reap", "notify"} : \E l, p : Moves(t, at, NoRow, l, p)
      BY <2>3 DEF SignalLast
    <3>2. cb' = Queued(row[r], s) /\ UNCHANGED bitmap
      BY <2>3 DEF SignalLast
    <3>3. Same
      BY <1>1, <3>2, QueuedFields
    <3> QED
      BY <2>1, <3>1, <3>2, <3>3
  <2> HIDE DEF Same, Rest
  <2> QED
    BY <1>1, <1>2, <1>12, <2>2, <2>3, SignalSteps
<1>13. ASSUME NEW t \in Threads, NEW r \in Rows, NEW s \in SignaledStates,
              UserSignal(t, r, s) PROVE FreshCallbacks'
  <2>1. Same /\ UNCHANGED bitmap /\ Rest(t) /\ pc'[t] \notin Making
    BY <1>1, <1>13 DEF UserSignal, Goto, Making
  <2> HIDE DEF Same, Rest
  <2> QED
    BY <1>2, <2>1
<1>14. CASE UNCHANGED vars
  BY <1>1, <1>14 DEF vars, FreshCallbacks
<1>16. ASSUME NEW t \in Threads, MergeInit(t) PROVE FreshCallbacks'
  <2>1. Same /\ UNCHANGED bitmap /\ Rest(t) /\ pc[t] \in Making /\ obj'[t] = obj[t]
    BY <1>1, <1>16 DEF MergeInit, Goto, Making
  <2> HIDE DEF Same, Rest
  <2> QED
    BY <1>2, <2>1
<1>15. CASE Next
  BY <1>1, <1>16, <1>4, <1>5, <1>6, <1>7, <1>8, <1>9, <1>10, <1>11, <1>12, <1>13, <1>15,
     AsideFreshCallbacks, <1>17, StepCases
<1> QED
  BY <1>14, <1>15

-----------------------------------------------------------------------------
(* Payloads that nobody would get                                          *)

Unsent(r) == ~eventq \/ (phase = "reap" /\ r \notin sweep)

\* A row gets no payload, or there is somebody to get it.
LEMMA PayloadsKept ==
  ASSUME PayloadsSent,
         \A r \in Rows :
           \/ ~Unsent(r)' \/ row'[r].state = "INVALID" \/ row'[r].payloads = {}
           \/ Unsent(r) /\ Valid(r) /\ row'[r].payloads \subseteq row[r].payloads
  PROVE  PayloadsSent'
  BY DEF PayloadsSent, Unsent, Valid

\* The steps that leave the rows alone, for PayloadsSent.
LEMMA AsidePayloadsSent ==
  ASSUME StructInv, Aside PROVE PayloadsSent'
<1>1. /\ TypeOK /\ CloseStages /\ PayloadsSent /\ UNCHANGED <<closer, phase, sweep>>
      /\ row \in [Rows -> RowType] /\ \A r \in Rows : row[r] \in RowType
  BY Besides DEF StructInv, TypeOK
<1>2. ASSUME eventq', closer = NoThread PROVE PayloadsSent'
  <2>1. phase' # "reap"
    BY <1>1, <1>2 DEF CloseStages
  <2> QED
    BY <1>1, <1>2, <2>1, PayloadsKept DEF Unsent
<1>3. ASSUME UNCHANGED eventq,
             \A r \in Rows : /\ row'[r].state = row[r].state
                             /\ row'[r].payloads \subseteq row[r].payloads
      PROVE  PayloadsSent'
  BY <1>1, <1>3, PayloadsKept DEF Unsent, Valid
<1>4. ASSUME NEW r \in Rows, GetObjRef(r) \/ PutObjRef(r) PROVE PayloadsSent'
  <2>1. row[r].ref + 1 \in Int /\ row[r].ref - 1 \in Int
    BY <1>1, RowFields
  <2>2. OnlyRow(r) /\ row'[r].state = row[r].state /\ row'[r].payloads = row[r].payloads
    BY <1>1, <1>4, <2>1, RefSet DEF GetObjRef, PutObjRef, Fields
  <2> QED
    BY <1>3, <1>4, <2>2 DEF GetObjRef, PutObjRef, OnlyRow, closeVars
<1>5. ASSUME NEW r \in Rows, NEW k \in Callbacks,
             RegisterCallback(k, r) \/ DeregisterCallback(k, r) PROVE PayloadsSent'
  <2>1. row[r].callbacks \cup {k} \in SUBSET Callbacks
        /\ row[r].callbacks \ {k} \in SUBSET Callbacks
    BY <1>1, RowFields
  <2>2. row' = row \/ (OnlyRow(r) /\ row'[r].state = row[r].state
                       /\ row'[r].payloads = row[r].payloads)
    BY <1>1, <1>5, <2>1, CallbacksSet DEF RegisterCallback, DeregisterCallback, Fields
  <2> QED
    BY <1>3, <1>5, <2>2 DEF RegisterCallback, DeregisterCallback, OnlyRow, closeVars
<1>6. ASSUME NEW r \in Rows, NEW p \in Payloads,
             RegisterPayload(p, r) \/ DeregisterPayload(p, r) PROVE PayloadsSent'
  BY <1>2, <1>6 DEF RegisterPayload, DeregisterPayload, Open, closeVars
<1>7. ASSUME NEW k \in Callbacks, RunCallback(k) PROVE PayloadsSent'
  BY <1>3, <1>7 DEF RunCallback, rowVars, closeVars
<1>8. CASE OpenDevice
  BY <1>2, <1>8 DEF OpenDevice
<1> QED
  BY <1>4, <1>5, <1>6, <1>7, <1>8 DEF Aside, RowStep

\* Every step keeps PayloadsSent.
LEMMA NextPayloadsSent ==
  ASSUME StructInv, [Next]_vars PROVE PayloadsSent'
<1>1. /\ TypeOK /\ CloseStages /\ ThreadStages /\ OwnedRows /\ PayloadsSent
      /\ row \in [Rows -> RowType] /\ \A r \in Rows : row[r] \in RowType
  BY DEF StructInv, TypeOK
\* While the device is open and is not swept, payloads are sent.
<1>2. ASSUME eventq', phase' # "reap" PROVE PayloadsSent'
  BY <1>1, <1>2, PayloadsKept DEF Unsent
\* One row changes.
<1>3. ASSUME UNCHANGED <<eventq, phase, sweep>>, NEW r \in Rows, OnlyRow(r),
             \/ row'[r].state = "INVALID" \/ row'[r].payloads = {}
             \/ Valid(r) /\ row'[r].payloads \subseteq row[r].payloads
      PROVE  PayloadsSent'
  <2>1. \A x \in Rows \ {r} : row'[x] = row[x]
    BY <1>3 DEF OnlyRow
  <2> QED
    BY <1>1, <1>3, <2>1, PayloadsKept DEF Unsent, Valid
<1>4. ASSUME UNCHANGED <<eventq, phase, sweep, row>> PROVE PayloadsSent'
  BY <1>1, <1>4 DEF PayloadsSent, Valid
<1>5. ASSUME NEW t \in Threads, CreateInit(t) \/ MergeInit(t) \/ DestroyEnd(t)
      PROVE PayloadsSent'
  <2>1. UNCHANGED <<eventq, phase, sweep>>
    BY <1>5 DEF CreateInit, MergeInit, DestroyEnd, closeVars
  <2>2. obj[t] \in Rows /\ OnlyRow(obj[t]) /\ row'[obj[t]].payloads = {}
    BY <1>1, <1>5, CreateInitRow, MergeInitRow, DestroyEndRow DEF Fields
  <2> QED
    BY <1>3, <2>1, <2>2
<1>6. ASSUME NEW t \in Threads, MergeAbort(t) PROVE PayloadsSent'
  <2>1. UNCHANGED <<eventq, phase, sweep>> /\ pc[t] = "unlink"
    BY <1>6 DEF MergeAbort, closeVars
  <2>2. obj[t] \in Rows /\ OnlyRow(obj[t]) /\ row'[obj[t]].state = row[obj[t]].state
    BY <1>1, <1>6, MergeAbortRow DEF Fields
  <2> QED
    BY <1>1, <1>3, <2>1, <2>2 DEF OwnedRows, Valid
<1>7. ASSUME NEW t \in Threads, MergeEnd(t) PROVE PayloadsSent'
  <2>1. UNCHANGED <<eventq, phase, sweep>> /\ obj[t] \in Rows /\ pc[t] = "link"
    BY <1>1, <1>7 DEF MergeEnd, closeVars, ThreadStages
  <2>2. OnlyRow(obj[t]) /\ row'[obj[t]].payloads = row[obj[t]].payloads
    BY <1>1, <1>7, <2>1, MergedRow DEF Fields
  <2> QED
    BY <1>1, <1>3, <2>1, <2>2 DEF OwnedRows
<1>8. ASSUME NEW t \in Threads, NEW g \in Rows, NotifyParent(t, g) PROVE PayloadsSent'
  <2>1. UNCHANGED <<eventq, phase, sweep>> /\ status[t] \in SignaledStates
    BY <1>1, <1>8 DEF NotifyParent, closeVars, ThreadStages
  <2>2. /\ OnlyRow(g) /\ row'[g].payloads \subseteq row[g].payloads
        /\ ~Valid(g) => row'[g].state = "INVALID"
    BY <1>1, <1>8, <2>1, NotifiedRow DEF Fields, ParentState, Valid
  <2> QED
    BY <1>3, <2>1, <2>2
<1>9. ASSUME NEW t \in Threads, NEW c \in Rows, MergeLink(t, c) PROVE PayloadsSent'
  <2>1. UNCHANGED <<eventq, phase, sweep>> /\ Valid(c) /\ pc[t] = "link"
        /\ obj[t] \in Rows /\ c # obj[t]
    BY <1>1, <1>9, MergeLinkRows DEF MergeLink, closeVars
  <2>2. row[obj[t]].payloads = {}
    BY <1>1, <2>1 DEF OwnedRows
  <2>3. CASE Links(t, c)
    <3>1. /\ \A x \in Rows \ {obj[t], c} : row'[x] = row[x]
          /\ row'[obj[t]].payloads = {} /\ row'[c].payloads = row[c].payloads
      BY <2>2, <2>3 DEF Links, Fields
    <3> QED
      BY <1>1, <2>1, <3>1, PayloadsKept DEF Unsent, Valid
  <2>4. CASE Inherits(t, c)
    BY <1>3, <2>1, <2>2, <2>4 DEF Inherits, Fields
  <2> QED
    BY <1>1, <1>9, <2>3, <2>4, MergeLinkRows
<1>10. ASSUME NEW t \in Threads, NEW c \in Rows, MergeFail(t, c) PROVE PayloadsSent'
  BY <1>1, <1>3, <1>10, MergeFailRow DEF MergeFail, closeVars, Fields
<1>11. ASSUME NEW t \in Threads, NEW c \in Rows,
              MergeUnlink(t, c) \/ DestroyChild(t, c) \/ DestroyParent(t, c)
       PROVE PayloadsSent'
  <2>1. UNCHANGED <<eventq, phase, sweep>>
    BY <1>11 DEF MergeUnlink, DestroyChild, DestroyParent, closeVars
  <2>2. /\ OnlyRow(c) /\ row'[c].payloads = row[c].payloads
        /\ row'[c].state = row[c].state
    BY <1>1, <1>11, MergeUnlinkRow, DestroyChildRow, DestroyParentRow DEF Fields
  <2> QED
    BY <1>3, <2>1, <2>2 DEF Valid
<1>12. ASSUME NEW t \in Threads, NEW r \in Rows, DestroyCall(t, r) PROVE PayloadsSent'
  <2>1. OnlyRow(r) /\ row'[r].state = "INVALID"
    BY <1>1, <1>12, DestroyCallRow DEF Fields
  <2>2. UNCHANGED <<eventq, phase>> /\ (sweep' = sweep \/ sweep' = sweep \ {r})
    BY <1>12 DEF DestroyCall
  <2>3. \A x \in Rows \ {r} : row'[x] = row[x] /\ (Unsent(x)' => Unsent(x))
    BY <2>1, <2>2 DEF OnlyRow, Unsent
  <2> QED
    BY <1>1, <2>1, <2>3, PayloadsKept DEF PayloadsSent, Unsent, Valid
<1>13. ASSUME NEW t \in Threads, NEW r \in Rows, NEW s \in SignaledStates,
              SignalCall(t, r, s) PROVE PayloadsSent'
  <2>1. UNCHANGED <<eventq, phase>>
        /\ (sweep' = sweep \/ pc[t] = "sweep")
    BY <1>13 DEF SignalCall
  <2>2. CASE pc[t] = "sweep"
    <3>1. eventq /\ phase = "sweep"
      BY <1>1, <2>2, ThreadAssumption DEF CloseStages
    <3> QED
      BY <1>2, <2>1, <3>1
  <2>3. CASE sweep' = sweep
    <3>1. OnlyRow(r) /\ row'[r].payloads \subseteq row[r].payloads
          /\ (~Valid(r) => row'[r].state = "INVALID")
      BY <1>1, <1>13, SignalSteps DEF SignalLess, SignalLast, Fields, Kept, Valid
    <3> QED
      BY <1>3, <2>1, <2>3, <3>1
  <2> QED
    BY <2>1, <2>2, <2>3
<1>14. ASSUME NEW t \in Threads, NEW r \in Rows, NEW s \in SignaledStates,
              UserSignal(t, r, s) PROVE PayloadsSent'
  <2>1. UNCHANGED <<eventq, phase, sweep>>
    BY <1>14 DEF UserSignal, closeVars
  <2>2. OnlyRow(r) /\ row'[r].payloads = row[r].payloads /\ row'[r].state = row[r].state
    BY <1>1, <1>14, UserSignalRow DEF Fields
  <2> QED
    BY <1>3, <2>1, <2>2 DEF Valid
<1>15. ASSUME NEW t \in Threads, NEW r \in Rows,
              CreateReserve(t, r) \/ MergeReserve(t, r) PROVE PayloadsSent'
  BY <1>4, <1>15 DEF CreateReserve, MergeReserve, closeVars
<1>19. ASSUME NEW t \in Threads, MergeLook(t) PROVE PayloadsSent'
  BY <1>1, <1>4, <1>19, Looks DEF rowVars, closeVars
<1>16. ASSUME NEW t \in Threads, CloseMove(t) PROVE PayloadsSent'
  <2>1. CASE CloseBegin(t)
    BY <1>2, <2>1 DEF CloseBegin, Open
  <2>2. CASE CloseFlush(t)
    BY <1>4, <2>2 DEF CloseFlush, rowVars
  <2>3. CASE CloseFlushed(t)
    <3>1. eventq'
      BY <1>1, <2>3, ThreadAssumption DEF CloseFlushed, CloseStages
    <3> QED
      BY <1>1, <2>3, <3>1, PayloadsKept DEF CloseFlushed, Unsent
  <2>4. CASE CloseEnd(t)
    <3>1. \A r \in Rows : Unsent(r) /\ row'[r] = row[r]
      BY <1>1, <2>4 DEF CloseEnd, CloseStages, Unsent, rowVars
    <3> QED
      BY <1>1, <3>1 DEF PayloadsSent, Unsent, Valid
  <2>5. ASSUME NEW r \in Rows, pc[t] \in {"sweep", "reap"}, pc[t] = "reap" => ~Valid(r),
               sweep' = sweep \ {r}, UNCHANGED <<row, phase, eventq>>
        PROVE  PayloadsSent'
    <3>1. CASE pc[t] = "sweep"
      <4>1. eventq /\ phase = "sweep"
        BY <1>1, <3>1, ThreadAssumption DEF CloseStages
      <4> QED
        BY <1>2, <2>5, <4>1
    <3>2. CASE pc[t] = "reap"
      BY <1>1, <2>5, <3>2 DEF PayloadsSent, Valid
    <3> QED
      BY <2>5, <3>1, <3>2
  <2> QED
    BY <1>16, <2>1, <2>2, <2>3, <2>4, <2>5 DEF CloseMove, rowVars
<1>17. CASE UNCHANGED vars
  BY <1>4, <1>17 DEF vars
<1>18. CASE Next
  BY <1>1, <1>5, <1>6, <1>7, <1>8, <1>9, <1>10, <1>11, <1>12, <1>13, <1>14, <1>15, <1>16,
     <1>18, AsidePayloadsSent, <1>19, StepCases
<1> QED
  BY <1>17, <1>18

-----------------------------------------------------------------------------
(* The structure of every state                                            *)

\* The structural invariant holds when the driver is probed.
LEMMA InitStruct ==
  Init => StructInv
<1> SUFFICES ASSUME Init PROVE StructInv
  OBVIOUS
<1>1. \A r \in Rows : row[r] = ZeroRow
  BY DEF Init
<1>2. \A r \in Rows : ~Valid(r) /\ row[r].parents = {} /\ row[r].callbacks = {}
  BY <1>1, ZeroRowFields DEF Fields, Valid
<1>3. TypeOK
  <2>1. ThreadTypes
    BY DEF Init, ThreadTypes, Places
  <2>2. OtherTypes
    BY DEF Init, OtherTypes
  <2>3. row \in [Rows -> RowType] /\ cb \in [Callbacks -> CallbackType]
    BY ZeroRowFields, NoCallbackType DEF Init
  <2>4. \A k \in Callbacks : cb[k].at = "none"
    BY NoCallbackType DEF Init
  <2> QED
    BY <1>2, <2>1, <2>2, <2>3, <2>4, TypeParts
<1>4. ThreadStages /\ CloseStages
  BY DEF Init, ThreadStages, CloseStages
<1>5. Owners /\ OwnedRows
  BY DEF Init, Owners, OwnedRows, Owns
<1>6. ValidRows /\ LeafRows /\ ParentLinks /\ PayloadsSent
  BY <1>2 DEF ValidRows, LeafRows, ParentLinks, PayloadsSent
<1>7. FreshCallbacks
  BY NoCallbackType, ThreadAssumption DEF Init, FreshCallbacks
<1> QED
  BY <1>3, <1>4, <1>5, <1>6, <1>7 DEF StructInv

\* Every step keeps the structural invariant, rows reused or not.
LEMMA NextStruct ==
  ASSUME StructInv, [Next]_vars PROVE StructInv'
  BY NextTypeOK, NextThreadStages, NextCloseStages, NextOwners, NextOwnedRows, NextValidRows,
     NextLeafRows, NextParentLinks, NextFreshCallbacks, NextPayloadsSent DEF StructInv

\* Rows, calls, links and callbacks hang together in every state, however many
\* threads and rows there are and whether or not rows are reused under a call.
THEOREM Structure == Spec => []StructInv
<1>1. Init => StructInv
  BY InitStruct
<1>2. StructInv /\ [Next]_vars => StructInv'
  BY NextStruct
<1> QED
  BY <1>1, <1>2, PTL DEF Spec

\* The type of the state is kept, and with it that a callback is on the list of
\* one object at most.
THEOREM TypeCorrectness == Spec => []TypeOK
<1>1. StructInv => TypeOK
  BY DEF StructInv
<1> QED
  BY <1>1, Structure, PTL

\* An object never names a group that is gone: cam_sync_deinit_object and the
\* error path of cam_sync_merge come past every member before the group's row is
\* given back, also when a row is reused under a call.
THEOREM NoDanglingGroup == Spec => []NoDanglingParent
<1>1. StructInv => NoDanglingParent
  BY DEF StructInv, ParentLinks, NoDanglingParent
<1> QED
  BY <1>1, Structure, PTL

-----------------------------------------------------------------------------
(* Counts.  A step leaves the counts of most rows alone ...                *)

SameNotifiers(g) ==
  Notifiers(g)' = Notifiers(g) /\ \A u \in Notifiers(g) : status'[u] = status[u]

SameRow(g) ==
  /\ row'[g].state = row[g].state /\ row'[g].type = row[g].type
  /\ row'[g].remaining = row[g].remaining /\ row'[g].signaled = row[g].signaled

SameHistory(g) == pending'[g] = pending[g] /\ (g \in failed' <=> g \in failed)

\* The row g is no object any more, or what is counted of it is as it was.
Quiet(g) ==
  /\ SameNotifiers(g)
  /\ row'[g].state = "INVALID" \/ (SameRow(g) /\ SameHistory(g))

\* A thread that notifies nobody leaves the notifiers alone.
LEMMA NotifiersStay ==
  ASSUME NEW t \in Threads, pc[t] # "notify", pc'[t] # "notify",
         \A u \in Threads \ {t} : pc'[u] = pc[u] /\ list'[u] = list[u] /\ status'[u] = status[u]
  PROVE  \A g \in Rows : SameNotifiers(g)
  BY DEF SameNotifiers, Notifiers

\* Without a move nobody begins or ends to notify.
LEMMA NotifiersSame ==
  ASSUME UNCHANGED <<pc, list, status>>
  PROVE  \A g \in Rows : SameNotifiers(g)
  BY DEF SameNotifiers, Notifiers

\* A thread that returns notifies nobody, and the others stay.
LEMMA ReturnStays ==
  ASSUME TypeOK, CloseStages, NEW t \in Threads, Return(t)
  PROVE  /\ pc'[t] # "notify"
         /\ \A u \in Threads \ {t} : pc'[u] = pc[u] /\ list'[u] = list[u] /\ status'[u] = status[u]
<1>1. pc \in [Threads -> Places] /\ list \in [Threads -> SUBSET Rows]
      /\ status \in [Threads -> SignaledStates \cup {"none"}]
  BY TypeParts DEF ThreadTypes
<1> QED
  BY <1>1, Returns DEF Moves

\* The rows that are made are the subject of their maker's step ...
Makes(t, r) ==
  /\ r = obj[t]
  /\ CreateInit(t) \/ MergeInit(t) \/ MergeEnd(t) \/ \E c \in Rows : MergeLink(t, c)
  /\ \A g \in Rows : SameNotifiers(g)
  /\ \A g \in Rows \ {r} : SameRow(g) /\ SameHistory(g)

\* ... those that are counted down of the notifier's ...
Counts(t, g) ==
  /\ NotifyParent(t, g)
  /\ \A h \in Rows \ {g} : SameRow(h) /\ SameHistory(h) /\ SameNotifiers(h)

\* ... and those that are signalled of the signaller's, with their groups.
Signals(t, r, s) ==
  /\ pc[t] \in {"idle", "signal", "sweep"}
  /\ SignalLast(t, r, s)

\* The steps that create an object or build a group make their own row.
LEMMA MakesRow ==
  ASSUME StructInv, NEW t \in Threads,
         CreateInit(t) \/ MergeInit(t) \/ MergeEnd(t) \/ \E c \in Rows : MergeLink(t, c)
  PROVE  \E r \in Rows : Makes(t, r)
<1>1. /\ TypeOK /\ CloseStages /\ ThreadStages /\ OwnedRows
      /\ pc \in [Threads -> Places] /\ list \in [Threads -> SUBSET Rows]
      /\ status \in [Threads -> SignaledStates \cup {"none"}]
      /\ pending \in [Rows -> SUBSET Rows]
  BY TypeParts DEF StructInv, ThreadTypes, OtherTypes
<1>2. PICK r \in Rows : r = obj[t]
  BY <1>1 DEF CreateInit, MergeInit, MergeEnd, MergeLink, ThreadStages
<1>3. ASSUME OnlyRow(r) PROVE \A g \in Rows \ {r} : SameRow(g)
  BY <1>3 DEF OnlyRow, SameRow
<1>4. CASE CreateInit(t)
  <2>1. /\ pc[t] # "notify" /\ Return(t) /\ UNCHANGED <<pending, failed>> /\ OnlyRow(r)
    BY <1>1, <1>2, <1>4, CreateInitRow DEF CreateInit, history
  <2>2. \A g \in Rows : SameNotifiers(g)
    BY <1>1, <2>1, ReturnStays, NotifiersStay
  <2> QED
    BY <1>2, <1>3, <1>4, <2>1, <2>2 DEF Makes, SameHistory
<1>5. CASE MergeInit(t)
  <2>1. /\ pc[t] = "merge" /\ pc' = [pc EXCEPT ![t] = "link"] /\ UNCHANGED <<list, status>>
        /\ pending' = [pending EXCEPT ![r] = {}] /\ failed' = failed \ {r} /\ OnlyRow(r)
    BY <1>1, <1>2, <1>5, MergeInitRow DEF MergeInit, Goto
  <2>2. \A g \in Rows : SameNotifiers(g)
    BY <1>1, <2>1, NotifiersStay
  <2>3. \A g \in Rows \ {r} : SameHistory(g)
    BY <1>1, <2>1 DEF SameHistory
  <2> QED
    BY <1>2, <1>3, <1>5, <2>1, <2>2, <2>3 DEF Makes
<1>6. CASE MergeEnd(t)
  <2>1. /\ pc[t] # "notify" /\ Return(t) /\ UNCHANGED <<pending, failed>> /\ OnlyRow(r)
    BY <1>1, <1>2, <1>6, MergedRow DEF MergeEnd, history
  <2>2. \A g \in Rows : SameNotifiers(g)
    BY <1>1, <2>1, ReturnStays, NotifiersStay
  <2> QED
    BY <1>2, <1>3, <1>6, <2>1, <2>2 DEF Makes, SameHistory
<1>7. ASSUME NEW c \in Rows, MergeLink(t, c) PROVE \E x \in Rows : Makes(t, x)
  <2>1. /\ pc[t] = "link" /\ UNCHANGED <<pc, status>> /\ list' = [list EXCEPT ![t] = @ \ {c}]
    BY <1>7 DEF MergeLink
  <2>2. \A g \in Rows : SameNotifiers(g)
    BY <1>1, <2>1, NotifiersStay
  <2>3. \A g \in Rows \ {r} : SameRow(g) /\ SameHistory(g)
    <3>1. CASE Links(t, c)
      <4>1. \A g \in Rows \ {r} : SameHistory(g)
        BY <1>1, <1>2, <3>1 DEF Links, SameHistory
      <4>2. SameRow(c) /\ \A g \in Rows \ {r, c} : SameRow(g)
        BY <1>1, <1>2, <3>1 DEF Links, Fields, SameRow
      <4> QED
        BY <4>1, <4>2
    <3>2. CASE Inherits(t, c)
      BY <1>1, <1>2, <3>2 DEF Inherits, OnlyRow, SameRow, SameHistory
    <3> QED
      BY <1>1, <1>7, <3>1, <3>2, MergeLinkRows
  <2> QED
    BY <1>2, <1>7, <2>2, <2>3 DEF Makes
<1> QED
  BY <1>4, <1>5, <1>6, <1>7

\* Notifying a parent counts it down by one.
LEMMA CountsRow ==
  ASSUME StructInv, NEW t \in Threads, NEW g \in Rows, NotifyParent(t, g)
  PROVE  Counts(t, g)
<1>1. /\ TypeOK /\ CloseStages /\ ThreadStages
      /\ pc \in [Threads -> Places] /\ list \in [Threads -> SUBSET Rows]
      /\ status[t] \in SignaledStates
  <2>1. TypeOK /\ CloseStages /\ ThreadStages
    BY DEF StructInv
  <2>2. pc \in [Threads -> Places] /\ list \in [Threads -> SUBSET Rows]
    BY <2>1, TypeParts DEF ThreadTypes
  <2>3. status[t] \in SignaledStates
    BY <2>1 DEF ThreadStages, NotifyParent
  <2> QED
    BY <2>1, <2>2, <2>3
<1>2. OnlyRow(g) /\ UNCHANGED <<pending, failed>>
  BY <1>1, NotifiedRow DEF NotifyParent, history
<1>3. CASE list[t] = {g}
  <2>1. /\ pc'[t] # "notify"
        /\ \A u \in Threads \ {t} : pc'[u] = pc[u] /\ list'[u] = list[u] /\ status'[u] = status[u]
    BY <1>1, <1>3, ReturnStays DEF NotifyParent
  <2>2. \A h \in Rows \ {g} : SameNotifiers(h)
    BY <1>3, <2>1 DEF SameNotifiers, Notifiers
  <2> QED
    BY <1>2, <2>2 DEF Counts, OnlyRow, SameRow, SameHistory
<1>4. CASE list[t] # {g}
  <2>1. UNCHANGED <<pc, status>> /\ list' = [list EXCEPT ![t] = @ \ {g}]
    BY <1>4 DEF NotifyParent
  <2>2. \A h \in Rows \ {g} : SameNotifiers(h)
    BY <1>1, <2>1 DEF SameNotifiers, Notifiers
  <2> QED
    BY <1>2, <2>2 DEF Counts, OnlyRow, SameRow, SameHistory
<1> QED
  BY <1>3, <1>4

\* Every step is quiet for the counts, makes a row, counts or signals.
LEMMA CountCases ==
  ASSUME StructInv, [Next]_vars
  PROVE  \/ \A g \in Rows : Quiet(g)
         \/ \E t \in Threads, r \in Rows :
              \/ Makes(t, r) \/ Counts(t, r)
              \/ \E s \in SignaledStates : Signals(t, r, s)
<1>1. /\ TypeOK /\ CloseStages /\ ThreadStages
      /\ pc \in [Threads -> Places] /\ list \in [Threads -> SUBSET Rows]
      /\ status \in [Threads -> SignaledStates \cup {"none"}]
      /\ pending \in [Rows -> SUBSET Rows]
  BY TypeParts DEF StructInv, ThreadTypes, OtherTypes
<1> DEFINE Silent == \A g \in Rows : Quiet(g)
           Rest(t) == \A u \in Threads \ {t} :
                        pc'[u] = pc[u] /\ list'[u] = list[u] /\ status'[u] = status[u]
\* One row changes, in what is not counted or for good.
<1>2. ASSUME NEW r \in Rows, OnlyRow(r), row'[r].state = "INVALID" \/ SameRow(r),
             \A g \in Rows \ {r} : SameHistory(g), row'[r].state = "INVALID" \/ SameHistory(r),
             \A g \in Rows : SameNotifiers(g)
      PROVE  Silent
  <2>1. \A g \in Rows \ {r} : SameRow(g)
    BY <1>2 DEF OnlyRow, SameRow
  <2> QED
    BY <1>2, <2>1 DEF Quiet
<1>3. ASSUME UNCHANGED <<row, pending, failed>>, \A g \in Rows : SameNotifiers(g) PROVE Silent
  BY <1>3 DEF Quiet, SameRow, SameHistory
<1>4. ASSUME UNCHANGED <<pending, failed>> PROVE \A g \in Rows : SameHistory(g)
  BY <1>4 DEF SameHistory
<1>5. ASSUME NEW t \in Threads, DestroyEnd(t) PROVE Silent
  <2>1. PICK r \in Rows : r = obj[t]
    BY <1>1, <1>5, DestroyEndRow
  <2>2. /\ pc[t] # "notify" /\ Return(t) /\ OnlyRow(r) /\ row'[r].state = "INVALID"
    BY <1>1, <1>5, <2>1, DestroyEndRow DEF DestroyEnd, Fields
  <2>3. \A g \in Rows \ {r} : SameHistory(g)
    BY <1>1, <1>5, <2>1 DEF DestroyEnd, SameHistory
  <2>4. \A g \in Rows : SameNotifiers(g)
    BY <1>1, <2>2, ReturnStays, NotifiersStay
  <2> HIDE DEF Silent
  <2> QED
    BY <1>2, <2>2, <2>3, <2>4
<1>6. ASSUME NEW t \in Threads, MergeAbort(t) PROVE Silent
  <2>1. PICK r \in Rows : r = obj[t]
    BY <1>1, <1>6, MergeAbortRow
  <2>2. /\ pc[t] # "notify" /\ Return(t) /\ OnlyRow(r) /\ SameRow(r)
        /\ UNCHANGED <<pending, failed>>
    <3>1. OnlyRow(r) /\ SameRow(r)
      BY <1>1, <1>6, <2>1, MergeAbortRow DEF Fields, SameRow
    <3>2. pc[t] # "notify" /\ Return(t) /\ UNCHANGED <<pending, failed>>
      BY <1>6 DEF MergeAbort, history
    <3> QED
      BY <3>1, <3>2
  <2>3. \A g \in Rows : SameNotifiers(g)
    BY <1>1, <2>2, ReturnStays, NotifiersStay
  <2> HIDE DEF Silent
  <2> QED
    BY <1>2, <1>4, <2>2, <2>3
<1>7. ASSUME NEW t \in Threads, NEW c \in Rows, MergeFail(t, c) PROVE Silent
  <2>1. PICK r \in Rows : r = obj[t]
    BY <1>1, <1>7, MergeFailRow
  <2>2. /\ pc[t] # "notify" /\ OnlyRow(r) /\ row'[r].state = "INVALID"
        /\ UNCHANGED <<pending, failed>>
    <3>1. OnlyRow(r) /\ row'[r].state = "INVALID"
      BY <1>1, <1>7, <2>1, MergeFailRow DEF Fields
    <3>2. pc[t] # "notify" /\ UNCHANGED <<pending, failed>>
      BY <1>7 DEF MergeFail, history
    <3> QED
      BY <3>1, <3>2
  <2>3. pc'[t] # "notify" /\ Rest(t)
    BY <1>1, <1>7 DEF MergeFail, Goto
  <2>4. \A g \in Rows : SameNotifiers(g)
    BY <2>2, <2>3, NotifiersStay
  <2> HIDE DEF Silent
  <2> QED
    BY <1>2, <1>4, <2>2, <2>4
<1>8. ASSUME NEW t \in Threads, NEW c \in Rows,
             MergeUnlink(t, c) \/ DestroyChild(t, c) \/ DestroyParent(t, c) PROVE Silent
  <2>1. /\ pc[t] # "notify" /\ UNCHANGED <<pending, failed, pc, status>>
        /\ OnlyRow(c) /\ SameRow(c)
    <3>1. pc[t] # "notify" /\ UNCHANGED <<pending, failed, pc, status>>
      BY <1>8 DEF MergeUnlink, DestroyChild, DestroyParent, history
    <3>2. CASE MergeUnlink(t, c)
      BY <1>1, <3>1, <3>2, MergeUnlinkRow DEF Fields, SameRow
    <3>3. CASE DestroyChild(t, c)
      BY <1>1, <3>1, <3>3, DestroyChildRow DEF Fields, SameRow
    <3>4. CASE DestroyParent(t, c)
      BY <1>1, <3>1, <3>4, DestroyParentRow DEF Fields, SameRow
    <3> QED
      BY <1>8, <3>2, <3>3, <3>4
  <2>2. pc'[t] # "notify" /\ Rest(t)
    BY <1>1, <1>8, <2>1 DEF MergeUnlink, DestroyChild, DestroyParent
  <2>3. \A g \in Rows : SameNotifiers(g)
    BY <2>1, <2>2, NotifiersStay
  <2> HIDE DEF Silent
  <2> QED
    BY <1>2, <1>4, <2>1, <2>3
<1>9. ASSUME NEW t \in Threads, NEW r \in Rows, DestroyCall(t, r) PROVE Silent
  <2>1. /\ pc[t] # "notify" /\ UNCHANGED <<pending, failed>>
        /\ OnlyRow(r) /\ row'[r].state = "INVALID"
    BY <1>1, <1>9, DestroyCallRow DEF DestroyCall, DestroyBody, Fields, history
  <2>2. pc'[t] # "notify" /\ Rest(t)
    BY <1>1, <1>9 DEF DestroyCall, DestroyBody, Goto
  <2>3. \A g \in Rows : SameNotifiers(g)
    BY <2>1, <2>2, NotifiersStay
  <2> HIDE DEF Silent
  <2> QED
    BY <1>2, <1>4, <2>1, <2>3
<1>10. ASSUME NEW t \in Threads, NEW r \in Rows, NEW s \in SignaledStates,
              UserSignal(t, r, s) PROVE Silent
  <2>1. /\ pc[t] # "notify" /\ UNCHANGED <<pending, failed>> /\ OnlyRow(r) /\ SameRow(r)
    BY <1>1, <1>10, UserSignalRow DEF UserSignal, Enter, Fields, SameRow, history
  <2>2. pc'[t] # "notify" /\ Rest(t)
    BY <1>1, <1>10 DEF UserSignal, Goto
  <2>3. \A g \in Rows : SameNotifiers(g)
    BY <2>1, <2>2, NotifiersStay
  <2> HIDE DEF Silent
  <2> QED
    BY <1>2, <1>4, <2>1, <2>3
<1>11. ASSUME NEW t \in Threads, NEW r \in Rows, SignalLess(t, r), pc[t] # "notify" PROVE Silent
  <2>1. UNCHANGED <<pending, failed>> /\ OnlyRow(r) /\ SameRow(r)
    BY <1>11 DEF SignalLess, Kept, SameRow, history
  <2>2. pc'[t] # "notify" /\ Rest(t)
    BY <1>1, <1>11 DEF SignalLess, Moves
  <2>3. \A g \in Rows : SameNotifiers(g)
    BY <1>11, <2>2, NotifiersStay
  <2> HIDE DEF Silent
  <2> QED
    BY <1>2, <1>4, <2>1, <2>3
<1>12. ASSUME NEW t \in Threads, NEW r \in Rows, NEW s \in SignaledStates,
              SignalCall(t, r, s) PROVE Silent \/ Signals(t, r, s)
  <2>1. pc[t] \in {"idle", "signal", "sweep"}
    BY <1>12 DEF SignalCall
  <2> HIDE DEF Silent
  <2> QED
    BY <1>1, <1>11, <1>12, <2>1, SignalSteps DEF Signals
<1>13. ASSUME NEW t \in Threads, NEW r \in Rows,
              CreateReserve(t, r) \/ MergeReserve(t, r) PROVE Silent
  <2>1. pc[t] # "notify" /\ UNCHANGED <<row, pending, failed>>
    BY <1>13 DEF CreateReserve, MergeReserve, Enter, history
  <2>2. pc'[t] # "notify" /\ Rest(t)
    BY <1>1, <1>13 DEF CreateReserve, MergeReserve, Goto
  <2>3. \A g \in Rows : SameNotifiers(g)
    BY <2>1, <2>2, NotifiersStay
  <2> HIDE DEF Silent
  <2> QED
    BY <1>3, <2>1, <2>3
<1>14. ASSUME NEW t \in Threads, CloseMove(t) PROVE Silent
  <2>1. /\ \E at \in {"idle", "sweep", "flush", "reap"} : pc' = [pc EXCEPT ![t] = at]
        /\ pc[t] # "notify" /\ UNCHANGED <<row, pending, failed, list, status>>
    BY <1>1, <1>14 DEF CloseMove, CloseBegin, CloseFlush, CloseFlushed, CloseEnd, Goto, rowVars,
       threadVars, history, Enter
  <2>2. pc'[t] # "notify" /\ Rest(t)
    BY <1>1, <2>1
  <2>3. \A g \in Rows : SameNotifiers(g)
    BY <2>1, <2>2, NotifiersStay
  <2> HIDE DEF Silent
  <2> QED
    BY <1>3, <2>1, <2>3
<1>18. ASSUME NEW t \in Threads, MergeLook(t) PROVE Silent
  <2>1. pc[t] # "notify" /\ UNCHANGED <<row, pending, failed>>
    BY <1>1, <1>18, Looks DEF rowVars, history
  <2>2. pc'[t] # "notify" /\ Rest(t)
    BY <1>1, <1>18, Looks DEF Moves
  <2>3. \A g \in Rows : SameNotifiers(g)
    BY <2>1, <2>2, NotifiersStay
  <2> HIDE DEF Silent
  <2> QED
    BY <1>3, <2>1, <2>3
<1>15. ASSUME Aside PROVE Silent
  <2>1. UNCHANGED <<pc, list, status, pending, failed>> /\ \A g \in Rows : SameRow(g)
    BY <1>1, <1>15, Besides DEF threadVars, history, Kept, SameRow
  <2> QED
    BY <1>4, <2>1, NotifiersSame DEF Quiet
<1>16. ASSUME UNCHANGED vars PROVE Silent
  <2> HIDE DEF Silent
  <2> QED
    BY <1>3, <1>16, NotifiersSame DEF vars
<1>17. CASE Next
  <2> DEFINE Subject == \E t \in Threads, r \in Rows :
                          \/ Makes(t, r) \/ Counts(t, r)
                          \/ \E s \in SignaledStates : Signals(t, r, s)
  <2>1. ASSUME NEW t \in Threads,
               CreateInit(t) \/ MergeInit(t) \/ MergeEnd(t) \/ \E c \in Rows : MergeLink(t, c)
        PROVE  Subject
    BY <2>1, MakesRow
  <2>2. ASSUME NEW t \in Threads, NEW r \in Rows, NotifyParent(t, r) PROVE Subject
    BY <2>2, CountsRow
  <2>3. ASSUME NEW t \in Threads, NEW r \in Rows, NEW s \in SignaledStates,
               SignalCall(t, r, s) PROVE Silent \/ Subject
    <3> HIDE DEF Silent
    <3> QED
      BY <1>12, <2>3
  <2> HIDE DEF Silent, Subject
  <2>4. Silent \/ Subject
    BY <1>1, <1>5, <1>6, <1>7, <1>8, <1>9, <1>10, <1>13, <1>14, <1>15, <1>17,
       <1>18, <2>1, <2>2, <2>3, StepCases
  <2> QED
    BY <2>4 DEF Silent, Subject
<1> QED
  BY <1>16, <1>17

-----------------------------------------------------------------------------
(* ... and the counts, the status and the completion of the others go       *)
(* together                                                                 *)

Counted(g) == row[g].remaining = Cardinality(pending[g]) + Cardinality(Notifiers(g))

Down(g) == row[g].type = "INDV" \/ row[g].signaled => row[g].remaining = 0

Traced(g) ==
  /\ row[g].state \in Errors => g \in failed
  /\ \A t \in Notifiers(g) : status[t] \in Errors => g \in failed
  /\ g \in failed => \/ row[g].state \in Errors
                    \/ \E t \in Notifiers(g) : status[t] \in Errors
  /\ row[g].signaled => row[g].state # "ACTIVE"

CountRow(g) ==
  Valid(g) => Counted(g) /\ Down(g) /\ (row[g].type = "GROUP" => Traced(g))

\* The three counting invariants, row by row.
LEMMA CountRows ==
  RemainingCounted /\ CountedDown /\ StatusTraced <=> \A g \in Rows : CountRow(g)
  BY DEF RemainingCounted, CountedDown, StatusTraced, CountRow, Counted, Down, Traced

\* The sets that are counted are finite.
LEMMA FiniteParts ==
  ASSUME TypeOK, NEW g \in Rows
  PROVE  /\ IsFiniteSet(pending[g]) /\ Cardinality(pending[g]) \in Nat
         /\ IsFiniteSet(Notifiers(g)) /\ Cardinality(Notifiers(g)) \in Nat
<1>1. pending[g] \in SUBSET Rows /\ Notifiers(g) \in SUBSET Threads
  BY DEF TypeOK, Notifiers
<1>2. IsFiniteSet(pending[g]) /\ IsFiniteSet(Notifiers(g))
  BY <1>1, ThreadAssumption, FS_Subset
<1> QED
  BY <1>2, FS_CardinalityType

\* A quiet step keeps the count of a row.
LEMMA QuietCount ==
  ASSUME NEW g \in Rows, CountRow(g), Quiet(g) PROVE CountRow(g)'
<1>1. CASE row'[g].state = "INVALID"
  BY <1>1 DEF CountRow, Valid
<1>2. CASE SameRow(g) /\ SameHistory(g) /\ SameNotifiers(g)
  <2> USE <1>2 DEF SameRow, SameHistory, SameNotifiers
  <2>1. Valid(g)' => Valid(g)
    BY DEF Valid
  <2>2. Counted(g) => Counted(g)'
    BY DEF Counted
  <2>3. Down(g) => Down(g)'
    BY DEF Down
  <2>4. Traced(g) => Traced(g)'
    BY DEF Traced
  <2> QED
    BY <2>1, <2>2, <2>3, <2>4 DEF CountRow
<1> QED
  BY <1>1, <1>2 DEF Quiet

\* A new object has no member and no notifier, and no status but its own.
LEMMA NewCount ==
  ASSUME NEW r \in Rows, pending'[r] = {}, Notifiers(r)' = {}, row'[r].remaining = 0,
         row'[r].state = "ACTIVE", row'[r].type = "GROUP" => r \notin failed',
         row'[r].signaled = FALSE
  PROVE  CountRow(r)'
<1>1. Cardinality({}) = 0
  BY FS_EmptySet
<1>2. Counted(r)'
  BY <1>1 DEF Counted
<1>3. Down(r)'
  BY DEF Down
<1>4. row'[r].type = "GROUP" => Traced(r)'
  BY DEF Traced, Errors
<1> QED
  BY <1>2, <1>3, <1>4 DEF CountRow

\* A row that is made starts with the right count.
LEMMA MakesCount ==
  ASSUME StructInv, FreshCounts, NEW t \in Threads, NEW r \in Rows, Makes(t, r),
         CountRow(r)
  PROVE  CountRow(r)'
<1>1. /\ TypeOK /\ CloseStages /\ ThreadStages /\ OwnedRows /\ r = obj[t] /\ SameNotifiers(r)
      /\ pending \in [Rows -> SUBSET Rows] /\ row \in [Rows -> RowType] /\ row[r] \in RowType
  BY TypeParts DEF StructInv, OtherTypes, Makes
<1>2. CASE CreateInit(t)
  <2>1. pc[t] = "create" /\ Unlocked(r) /\ UNCHANGED pending
    BY <1>1, <1>2 DEF CreateInit, history
  <2>2. pending'[r] = {} /\ Notifiers(r)' = {}
    BY <1>1, <2>1 DEF FreshCounts, SameNotifiers
  <2>3. Fields(row'[r], "ACTIVE", "INDV", 0, 0, FALSE, {}, {}, {}, {})
    BY <1>1, <1>2, CreateInitRow
  <2> QED
    BY <2>2, <2>3, NewCount DEF Fields
<1>3. CASE MergeInit(t)
  <2>1. pc[t] = "merge" /\ pending' = [pending EXCEPT ![r] = {}] /\ failed' = failed \ {r}
    BY <1>1, <1>3 DEF MergeInit
  <2>2. pending'[r] = {} /\ Notifiers(r)' = {} /\ r \notin failed'
    BY <1>1, <2>1 DEF FreshCounts, SameNotifiers
  <2>3. Fields(row'[r], "ACTIVE", "GROUP", 0, 0, FALSE, {}, {}, {}, {})
    BY <1>1, <1>3, MergeInitRow
  <2> QED
    BY <2>2, <2>3, NewCount DEF Fields
<1> DEFINE n == row[r].remaining
           m == Cardinality(pending[r]) + Cardinality(Notifiers(r))
<1>4. ASSUME pc[t] = "link"
      PROVE  /\ Valid(r) /\ row[r].type = "GROUP" /\ ~row[r].signaled /\ Traced(r)
             /\ n = m /\ n \in Nat /\ list[t] \cap pending[r] = {}
  <2>1. Valid(r) /\ row[r].type = "GROUP" /\ ~row[r].signaled /\ list[t] \cap pending[r] = {}
    BY <1>1, <1>4 DEF OwnedRows
  <2>2. n = m /\ Traced(r)
    BY <2>1 DEF CountRow, Counted
  <2>3. m \in Nat
    BY <1>1, FiniteParts
  <2> QED
    BY <2>1, <2>2, <2>3
<1>5. CASE MergeEnd(t)
  <2>1. pc[t] = "link" /\ UNCHANGED <<pending, failed>>
    BY <1>5 DEF MergeEnd, history
  <2>2. /\ row'[r].remaining = n /\ row'[r].type = row[r].type
        /\ n = 0 => row'[r].state = ParentState(row[r].state, "SUCCESS") /\ row'[r].signaled
        /\ n # 0 => row'[r].state = row[r].state /\ row'[r].signaled = row[r].signaled
    <3>1. n \in Nat
      BY <1>4, <2>1
    <3>2. row'[r].remaining = n /\ row'[r].type = row[r].type
      BY <1>1, <1>5, MergedRow DEF Fields
    <3>3. CASE n = 0
      <4>1. ~(row[obj[t]].remaining > 0)
        BY <1>1, <3>3
      <4>2. row'[r].state = ParentState(row[r].state, "SUCCESS") /\ row'[r].signaled = TRUE
        BY <1>1, <1>5, <4>1, MergedRow DEF Fields
      <4> QED
        BY <3>2, <3>3, <4>2
    <3>4. CASE n # 0
      <4>1. row[obj[t]].remaining > 0
        BY <1>1, <3>1, <3>4
      <4> QED
        BY <1>1, <1>5, <3>2, <3>4, <4>1, MergedRow DEF Fields
    <3> QED
      BY <3>3, <3>4
  <2>3. Counted(r)' /\ Down(r)'
    BY <1>1, <1>4, <2>1, <2>2 DEF Counted, Down, SameNotifiers
  <2>4. /\ (row'[r].state \in Errors) <=> (row[r].state \in Errors)
        /\ row'[r].signaled => row'[r].state # "ACTIVE"
    BY <1>4, <2>1, <2>2 DEF ParentState, Errors
  <2>5. Traced(r)'
    BY <1>1, <1>4, <2>1, <2>4 DEF Traced, SameNotifiers
  <2> QED
    BY <2>3, <2>5 DEF CountRow
<1>6. ASSUME NEW c \in Rows, MergeLink(t, c) PROVE CountRow(r)'
  <2>1. pc[t] = "link" /\ c \in list[t]
    BY <1>6 DEF MergeLink
  <2>2. CASE Links(t, c)
    <3>1. /\ row'[r].remaining = n + 1 /\ row'[r].type = row[r].type
          /\ row'[r].state = row[r].state /\ row'[r].signaled = row[r].signaled
          /\ pending' = [pending EXCEPT ![r] = @ \cup {c}] /\ UNCHANGED failed
      BY <1>1, <2>2 DEF Links, Fields
    <3>2. c \notin pending[r]
      BY <1>4, <2>1
    <3>3. Cardinality(pending'[r]) = Cardinality(pending[r]) + 1
      BY <1>1, <3>1, <3>2, FiniteParts, FS_AddElement
    <3>4. Counted(r)'
      BY <1>1, <1>4, <2>1, <3>1, <3>3, FiniteParts DEF Counted, SameNotifiers
    <3>5. Down(r)'
      BY <1>4, <2>1, <3>1 DEF Down
    <3>6. Traced(r)'
      BY <1>1, <1>4, <2>1, <3>1 DEF Traced, SameNotifiers
    <3> QED
      BY <3>4, <3>5, <3>6 DEF CountRow
  <2>3. CASE Inherits(t, c)
    <3>1. /\ row'[r].remaining = n /\ row'[r].type = row[r].type
          /\ row'[r].signaled = row[r].signaled /\ UNCHANGED pending
          /\ row'[r].state = IF row[c].state = "SUCCESS" THEN row[r].state ELSE row[c].state
          /\ failed' = IF row[c].state = "SUCCESS" THEN failed ELSE failed \cup {r}
          /\ row[c].state \in SignaledStates
      BY <1>1, <2>3 DEF Inherits, Fields, Signaled
    <3>2. Counted(r)' /\ Down(r)'
      BY <1>1, <1>4, <2>1, <3>1 DEF Counted, Down, SameNotifiers
    <3>3. CASE row[c].state = "SUCCESS"
      BY <1>1, <1>4, <2>1, <3>1, <3>2, <3>3 DEF CountRow, Traced, SameNotifiers
    <3>4. CASE row[c].state # "SUCCESS"
      <4>1. r \in failed' /\ row'[r].state \in Errors /\ ~row'[r].signaled
        BY <1>4, <2>1, <3>1, <3>4 DEF Errors, SignaledStates
      <4>2. Traced(r)'
        BY <4>1 DEF Traced
      <4> QED
        BY <3>2, <4>2 DEF CountRow
    <3> QED
      BY <3>3, <3>4
  <2> QED
    BY <1>1, <1>6, <2>2, <2>3, MergeLinkRows
<1> QED
  BY <1>2, <1>3, <1>5, <1>6 DEF Makes

\* A group that is notified is not complete, and has a member to count.
LEMMA Awaited ==
  ASSUME TypeOK, NEW g \in Rows, Valid(g), CountRow(g), NEW t \in Notifiers(g)
  PROVE  /\ row[g].type = "GROUP" /\ ~row[g].signaled /\ Traced(g)
         /\ row[g].remaining \in Nat /\ row[g].remaining # 0
<1>1. row[g] \in RowType
  BY DEF TypeOK
<1>2. Cardinality(Notifiers(g)) # 0
  BY FiniteParts, FS_EmptySet
<1>3. row[g].remaining = Cardinality(pending[g]) + Cardinality(Notifiers(g))
  BY DEF CountRow, Counted
<1>4. row[g].remaining \in Nat /\ row[g].remaining # 0
  BY <1>2, <1>3, FiniteParts
<1>5. row[g].type = "GROUP" /\ ~row[g].signaled
  BY <1>1, <1>4, RowFields DEF CountRow, Down
<1> QED
  BY <1>4, <1>5 DEF CountRow

\* A notified group has one member and one notifier less.
LEMMA CountsCount ==
  ASSUME StructInv, NEW t \in Threads, NEW g \in Rows, Counts(t, g), CountRow(g)
  PROVE  CountRow(g)'
<1>1. /\ TypeOK /\ CloseStages /\ ThreadStages
      /\ pc \in [Threads -> Places] /\ list \in [Threads -> SUBSET Rows]
      /\ NotifyParent(t, g)
  BY TypeParts DEF StructInv, ThreadTypes, Counts
<1>2. status[t] \in SignaledStates /\ t \in Notifiers(g) /\ UNCHANGED <<pending, failed>>
  BY <1>1 DEF NotifyParent, ThreadStages, Notifiers, history
<1> DEFINE s == ParentState(row[g].state, status[t])
           last == Valid(g) /\ row[g].remaining = 1
<1>3. /\ row'[g].state = s /\ row'[g].type = row[g].type
      /\ row'[g].remaining = row[g].remaining - 1
      /\ last => row'[g].signaled = TRUE
      /\ ~last => row'[g].signaled = row[g].signaled
  BY <1>1, <1>2, NotifiedRow DEF Fields
<1>4. CASE ~Valid(g)
  BY <1>2, <1>3, <1>4 DEF CountRow, Valid, ParentState
<1>5. CASE Valid(g)
  <2>1. /\ row[g].type = "GROUP" /\ ~row[g].signaled /\ Traced(g)
        /\ row[g].remaining \in Nat /\ row[g].remaining # 0 /\ Counted(g)
    BY <1>1, <1>2, <1>5, Awaited DEF CountRow
  <2>2. /\ Notifiers(g)' = Notifiers(g) \ {t}
        /\ \A u \in Notifiers(g)' : status'[u] = status[u]
    <3>1. CASE list[t] = {g}
      BY <1>1, <1>2, <3>1, ReturnStays DEF NotifyParent, Notifiers
    <3>2. CASE list[t] # {g}
      BY <1>1, <1>2, <3>2 DEF NotifyParent, Notifiers
    <3> QED
      BY <3>1, <3>2
  <2>3. Cardinality(Notifiers(g)') = Cardinality(Notifiers(g)) - 1
    BY <1>1, <1>2, <2>2, FiniteParts, FS_RemoveElement
  <2>4. Counted(g)'
    <3>1. row'[g].remaining = Cardinality(pending[g]) + (Cardinality(Notifiers(g)) - 1)
      BY <1>1, <1>3, <2>1, FiniteParts DEF Counted
    <3> QED
      BY <1>2, <2>3, <3>1 DEF Counted
  <2>5. Down(g)'
    BY <1>3, <1>5, <2>1 DEF Down
  <2>6. row[g].state \in SignaledStates \cup {"ACTIVE"}
    BY <1>1, <1>5, RowFields DEF TypeOK, Valid
  <2>7. /\ (s \in Errors) <=> (row[g].state \in Errors \/ status[t] \in Errors)
        /\ s # "ACTIVE"
    BY <1>2, <2>6 DEF ParentState, Errors, SignaledStates
  <2>8. Traced(g)'
    <3>1. s \in Errors => g \in failed
      BY <1>2, <2>1, <2>7 DEF Traced
    <3>2. \A u \in Notifiers(g)' : status'[u] \in Errors => g \in failed
      BY <2>1, <2>2 DEF Traced
    <3>3. ASSUME g \in failed, s \notin Errors
          PROVE  \E u \in Notifiers(g)' : status'[u] \in Errors
      <4>1. PICK u \in Notifiers(g) : status[u] \in Errors
        BY <2>1, <2>7, <3>3 DEF Traced
      <4>2. u # t
        BY <2>7, <3>3, <4>1
      <4> QED
        BY <2>2, <4>1, <4>2
    <3> HIDE DEF s
    <3> QED
      BY <1>2, <1>3, <2>7, <3>1, <3>2, <3>3 DEF Traced
  <2> QED
    BY <2>4, <2>5, <2>8 DEF CountRow
<1> QED
  BY <1>4, <1>5

\* A member that is signalled moves from the members to come to the notifiers.
LEMMA SignalsCount ==
  ASSUME StructInv, NEW t \in Threads, NEW r \in Rows, NEW s \in SignaledStates,
         Signals(t, r, s), \A g \in Rows : CountRow(g), NEW g \in Rows
  PROVE  CountRow(g)'
<1>1. /\ TypeOK /\ CloseStages /\ ThreadStages /\ OwnedRows /\ ParentLinks
      /\ pc \in [Threads -> Places] /\ list \in [Threads -> SUBSET Rows]
      /\ status \in [Threads -> SignaledStates \cup {"none"}]
      /\ pending \in [Rows -> SUBSET Rows] /\ row \in [Rows -> RowType]
      /\ SignalLast(t, r, s) /\ pc[t] # "notify"
  BY TypeParts DEF StructInv, ThreadTypes, OtherTypes, Signals
<1>2. /\ row[r].type = "INDV" /\ row[r].state = "ACTIVE" /\ OnlyRow(r)
      /\ row'[r].state = s /\ row'[r].type = "INDV" /\ row'[r].remaining = row[r].remaining
      /\ pending'[g] = IF g \in row[r].parents THEN pending[g] \ {r} ELSE pending[g]
      /\ failed' = IF s = "SUCCESS" THEN failed ELSE failed \cup row[r].parents
  BY <1>1 DEF SignalLast, Fields, MemberSignaled
<1>3. ASSUME g \in row[r].parents, Valid(g)
      PROVE  row[g].type = "GROUP" /\ r \in pending[g] /\ g # r
  <2>1. \A u \in Threads : ~Leaves(u, r, g)
    BY <1>1, <1>3 DEF Leaves, OwnedRows
  <2> QED
    BY <1>1, <1>2, <1>3, <2>1, LinkOf DEF Link, Linked
<1>4. \A u \in Threads \ {t} : pc'[u] = pc[u] /\ list'[u] = list[u] /\ status'[u] = status[u]
  <2>1. \/ \E at \in {"idle", "sweep", "reap"} : Moves(t, at, NoRow, {}, {})
        \/ Moves(t, "notify", NoRow, row[r].parents, parents[t])
    BY <1>1 DEF SignalLast
  <2>2. status' = [status EXCEPT ![t] = "none"] \/ status' = [status EXCEPT ![t] = s]
    BY <1>1 DEF SignalLast
  <2> QED
    BY <1>1, <2>1, <2>2 DEF Moves
<1>5. CASE g \notin row[r].parents
  <2>1. SameNotifiers(g)
    <3>1. ~(pc'[t] = "notify" /\ g \in list'[t])
      BY <1>1, <1>5 DEF SignalLast, Moves
    <3> QED
      BY <1>1, <1>4, <3>1 DEF SameNotifiers, Notifiers
  <2>2. SameHistory(g)
    BY <1>2, <1>5 DEF SameHistory
  <2>3. CASE g # r
    <3>1. SameRow(g)
      BY <1>2, <2>3 DEF OnlyRow, SameRow
    <3> QED
      BY <2>1, <2>2, <3>1, QuietCount DEF Quiet
  <2>4. CASE g = r
    <3>1. Valid(g) /\ Counted(g) /\ row[g].remaining = 0
      BY <1>2, <2>4 DEF CountRow, Valid, Down
    <3>2. Counted(g)' /\ Down(g)'
      BY <1>2, <2>1, <2>2, <2>4, <3>1 DEF Counted, Down, SameNotifiers, SameHistory
    <3> QED
      BY <1>2, <2>4, <3>2 DEF CountRow
  <2> QED
    BY <2>3, <2>4
<1>6. CASE g \in row[r].parents
  <2>1. /\ pc'[t] = "notify" /\ list'[t] = row[r].parents /\ status'[t] = s
    BY <1>1, <1>6 DEF SignalLast, Moves
  <2>2. Notifiers(g)' = Notifiers(g) \cup {t} /\ t \notin Notifiers(g)
    BY <1>1, <1>4, <1>6, <2>1 DEF Notifiers
  <2>3. CASE ~Valid(g)
    <3>1. g # r
      BY <1>2, <2>3 DEF Valid
    <3> QED
      BY <1>2, <2>3, <3>1 DEF CountRow, Valid, OnlyRow
  <2>4. CASE Valid(g)
    <3>1. row[g].type = "GROUP" /\ r \in pending[g] /\ g # r
      BY <1>3, <1>6, <2>4
    <3>2. row'[g] = row[g] /\ Counted(g) /\ Down(g) /\ Traced(g)
      BY <1>2, <2>4, <3>1 DEF OnlyRow, CountRow
    <3>3. Cardinality(pending'[g]) = Cardinality(pending[g]) - 1
      BY <1>1, <1>2, <1>6, <3>1, FiniteParts, FS_RemoveElement
    <3>4. Cardinality(Notifiers(g)') = Cardinality(Notifiers(g)) + 1
      BY <1>1, <2>2, FiniteParts, FS_AddElement
    <3>5. Counted(g)'
      BY <1>1, <3>2, <3>3, <3>4, FiniteParts DEF Counted
    <3>6. Down(g)'
      BY <3>2 DEF Down
    <3>7. /\ g \in failed' <=> (g \in failed \/ s \in Errors)
      BY <1>2, <1>6 DEF Errors, SignaledStates
    <3>8. \A u \in Notifiers(g) : status'[u] = status[u]
      BY <1>4, <2>2 DEF Notifiers
    <3>9. Traced(g)'
      BY <2>1, <2>2, <3>2, <3>7, <3>8 DEF Traced
    <3> QED
      BY <3>5, <3>6, <3>9 DEF CountRow
  <2> QED
    BY <2>3, <2>4
<1> QED
  BY <1>5, <1>6

\* Every step keeps the counts.
LEMMA NextCounts ==
  ASSUME IInv, [Next]_vars PROVE RemainingCounted' /\ CountedDown' /\ StatusTraced'
<1>1. StructInv /\ FreshCounts /\ \A g \in Rows : CountRow(g)
  BY CountRows DEF IInv, CountInv
<1>2. ASSUME \A g \in Rows : CountRow(g)'
      PROVE  RemainingCounted' /\ CountedDown' /\ StatusTraced'
  <2>1. (\A g \in Rows : CountRow(g))'
    BY <1>2
  <2> QED
    BY <2>1, CountRows, PTL
<1>3. ASSUME NEW t \in Threads, NEW r \in Rows, Makes(t, r) \/ Counts(t, r), NEW g \in Rows
      PROVE  CountRow(g)'
  <2>1. CASE g # r
    <3>1. Quiet(g)
      BY <1>3, <2>1 DEF Makes, Counts, Quiet
    <3> QED
      BY <1>1, <3>1, QuietCount
  <2>2. CASE g = r
    BY <1>1, <1>3, <2>2, MakesCount, CountsCount
  <2> QED
    BY <2>1, <2>2
<1>4. ASSUME NEW t \in Threads, NEW r \in Rows, NEW s \in SignaledStates, Signals(t, r, s),
             NEW g \in Rows
      PROVE  CountRow(g)'
  BY <1>1, <1>4, SignalsCount
<1>5. ASSUME \A g \in Rows : Quiet(g), NEW g \in Rows PROVE CountRow(g)'
  BY <1>1, <1>5, QuietCount
<1>6. \A g \in Rows : CountRow(g)'
  BY <1>1, <1>3, <1>4, <1>5, CountCases
<1> QED
  BY <1>2, <1>6

-----------------------------------------------------------------------------
(* Rows to be made have no count left                                      *)

\* A group that is nobody's parent gets no new notifier.
LEMMA NotifiersFew ==
  ASSUME StructInv, [Next]_vars, NEW g \in Rows, \A x \in Rows : g \notin row[x].parents
  PROVE  Notifiers(g)' \subseteq Notifiers(g)
<1>1. CASE \A h \in Rows : Quiet(h)
  BY <1>1 DEF Quiet, SameNotifiers
<1>2. ASSUME NEW t \in Threads, NEW r \in Rows, Makes(t, r)
      PROVE  Notifiers(g)' \subseteq Notifiers(g)
  BY <1>2 DEF Makes, SameNotifiers
<1>3. ASSUME NEW t \in Threads, NEW r \in Rows, Counts(t, r)
      PROVE  Notifiers(g)' \subseteq Notifiers(g)
  <2>1. CASE g # r
    BY <1>3, <2>1 DEF Counts, SameNotifiers
  <2>2. CASE g = r
    <3>1. TypeOK /\ CloseStages /\ NotifyParent(t, g)
          /\ pc \in [Threads -> Places] /\ list \in [Threads -> SUBSET Rows]
      BY <1>3, <2>2, TypeParts DEF StructInv, Counts, ThreadTypes
    <3>2. CASE list[t] = {g}
      BY <3>1, <3>2, ReturnStays DEF NotifyParent, Notifiers
    <3>3. CASE list[t] # {g}
      BY <3>1, <3>3 DEF NotifyParent, Notifiers
    <3> QED
      BY <3>2, <3>3
  <2> QED
    BY <2>1, <2>2
<1>4. ASSUME NEW t \in Threads, NEW r \in Rows, NEW s \in SignaledStates, Signals(t, r, s)
      PROVE  Notifiers(g)' \subseteq Notifiers(g)
  <2>1. TypeOK /\ SignalLast(t, r, s)
        /\ pc \in [Threads -> Places] /\ list \in [Threads -> SUBSET Rows]
    BY <1>4, TypeParts DEF StructInv, Signals, ThreadTypes
  <2>2. ~(pc'[t] = "notify" /\ g \in list'[t])
    BY <2>1 DEF SignalLast, Moves
  <2>3. \A u \in Threads \ {t} : pc'[u] = pc[u] /\ list'[u] = list[u]
    BY <2>1 DEF SignalLast, Moves
  <2> QED
    BY <2>2, <2>3 DEF Notifiers
<1> QED
  BY <1>1, <1>2, <1>3, <1>4, CountCases

Bare(r) == Notifiers(r) = {} /\ (Unlocked(r) => pending[r] = {})

FreshThread(t) ==
  /\ pc[t] \in {"create", "merge"} => Bare(obj[t])
  /\ pc[t] = "unlink" => ~Unlocked(obj[t])

\* A step of t changes the locks and the members of the rows that t makes only.
LEMMA FreshCountsKept ==
  ASSUME StructInv, FreshCounts, [Next]_vars, NEW t \in Threads,
         \A u \in Threads \ {t} : pc'[u] = pc[u] /\ obj'[u] = obj[u],
         \A r \in Rows : \/ Owns(t, r)
                         \/ lock'[r] = lock[r] /\ pending'[r] \subseteq pending[r],
         FreshThread(t)',
         \A r \in bitmap \ bitmap' : Unlocked(r)' => pending'[r] = {}
  PROVE  FreshCounts'
<1>1. TypeOK /\ ThreadStages /\ Owners /\ OwnedRows /\ ParentLinks
  BY DEF StructInv
<1>2. ASSUME NEW u \in Threads \ {t} PROVE FreshThread(u)'
  <2>1. CASE pc[u] \in {"create", "merge"}
    <3>1. PICK r \in Rows : r = obj[u]
      BY <1>1, <2>1 DEF ThreadStages
    <3>2. Owns(u, r) /\ ~Valid(r) /\ Bare(r)
      BY <1>1, <2>1, <3>1 DEF Owns, OwnedRows, FreshCounts, Bare
    <3>3. ~Owns(t, r)
      BY <1>1, <3>2, OwnedAlone
    <3>4. \A x \in Rows : r \notin row[x].parents
      BY <1>1, <2>1, <3>2, NoLink
    <3>5. Notifiers(r)' = {}
      BY <3>2, <3>4, NotifiersFew DEF Bare
    <3>6. lock'[r] = lock[r] /\ pending'[r] \subseteq pending[r]
      BY <3>3
    <3>7. Bare(r)'
      BY <3>2, <3>5, <3>6 DEF Bare, Unlocked
    <3> QED
      BY <2>1, <3>1, <3>7 DEF FreshThread
  <2>2. CASE pc[u] = "unlink"
    <3>1. PICK r \in Rows : r = obj[u]
      BY <1>1, <2>2 DEF ThreadStages
    <3>2. Owns(u, r) /\ ~Unlocked(r)
      BY <2>2, <3>1 DEF Owns, FreshCounts
    <3>3. ~Owns(t, r)
      BY <1>1, <3>2, OwnedAlone
    <3> QED
      BY <2>2, <3>1, <3>2, <3>3 DEF FreshThread, Unlocked
  <2>3. CASE pc[u] \notin {"create", "merge", "unlink"}
    BY <2>3 DEF FreshThread
  <2> QED
    BY <2>1, <2>2, <2>3
<1>3. ASSUME NEW r \in Rows \ bitmap', Unlocked(r)' PROVE pending'[r] = {}
  <2>1. CASE r \in bitmap
    BY <1>3, <2>1
  <2>2. CASE r \notin bitmap
    <3>1. ~Owns(t, r)
      BY <1>1, <2>2, NoOwner
    <3> QED
      BY <1>3, <2>2, <3>1 DEF FreshCounts, Unlocked
  <2> QED
    BY <2>1, <2>2
<1>4. \A u \in Threads : FreshThread(u)'
  BY <1>2
<1> QED
  BY <1>3, <1>4 DEF FreshCounts, FreshThread, Bare

\* Every step keeps FreshCounts if no row is used again.
LEMMA NextFreshCounts ==
  ASSUME Reuse = FALSE, StructInv, FreshCounts, [Next]_vars PROVE FreshCounts'
<1>1. /\ TypeOK /\ CloseStages /\ ThreadStages /\ OwnedRows
      /\ pc \in [Threads -> Places] /\ obj \in [Threads -> Rows \cup {NoRow}]
      /\ lock \in [Rows -> Threads \cup {NoThread}] /\ pending \in [Rows -> SUBSET Rows]
      /\ list \in [Threads -> SUBSET Rows]
  BY TypeParts DEF StructInv, ThreadTypes, OtherTypes
<1> DEFINE Rest(t) == \A u \in Threads \ {t} : pc'[u] = pc[u] /\ obj'[u] = obj[u]
           Done(t) == FreshThread(t)'
<1>2. ASSUME NEW t \in Threads, pc'[t] \notin {"create", "merge", "unlink"} PROVE Done(t)
  BY <1>2 DEF FreshThread
<1>3. ASSUME NEW t \in Threads, Return(t) PROVE Rest(t) /\ Done(t)
  <2>1. Rest(t) /\ pc'[t] \notin {"create", "merge", "unlink"}
    BY <1>1, <1>3, Returns DEF Moves
  <2> QED
    BY <1>2, <2>1
\* A step that changes no lock, gives no row back and gives no group a member.
<1>4. ASSUME NEW t \in Threads, Rest(t), Done(t), UNCHANGED lock, bitmap \subseteq bitmap',
             \A r \in Rows : pending'[r] \subseteq pending[r]
      PROVE  FreshCounts'
  BY <1>4, FreshCountsKept
<1>5. ASSUME NEW t \in Threads, CreateInit(t) PROVE FreshCounts'
  <2>1. Return(t) /\ UNCHANGED <<lock, bitmap, pending>>
    BY <1>5 DEF CreateInit, history
  <2> HIDE DEF Rest, Done
  <2> QED
    BY <1>3, <1>4, <2>1
<1>6. ASSUME NEW t \in Threads, MergeInit(t) \/ MergeEnd(t) PROVE FreshCounts'
  <2>1. Owns(t, obj[t]) /\ UNCHANGED bitmap
    BY <1>6 DEF MergeInit, MergeEnd, Owns
  <2>2. \A r \in Rows \ {obj[t]} : lock'[r] = lock[r] /\ pending'[r] = pending[r]
    BY <1>1, <1>6 DEF MergeInit, MergeEnd, history
  <2>3. Rest(t) /\ Done(t)
    <3>1. CASE MergeInit(t)
      <4>1. Rest(t) /\ pc'[t] = "link"
        BY <1>1, <3>1 DEF MergeInit, Goto
      <4> QED
        BY <1>2, <4>1
    <3>2. CASE MergeEnd(t)
      BY <1>3, <3>2 DEF MergeEnd
    <3> QED
      BY <1>6, <3>1, <3>2
  <2> HIDE DEF Done
  <2> QED
    BY <2>1, <2>2, <2>3, FreshCountsKept DEF Done
<1>7. ASSUME NEW t \in Threads, MergeAbort(t) PROVE FreshCounts'
  <2>1. /\ bitmap' = bitmap \ {obj[t]} /\ UNCHANGED <<lock, pending>> /\ Return(t)
        /\ ~Unlocked(obj[t])
    BY <1>7 DEF MergeAbort, history, FreshCounts
  <2>2. Rest(t) /\ Done(t)
    BY <1>3, <2>1
  <2>3. \A r \in bitmap \ bitmap' : ~Unlocked(r)'
    BY <2>1 DEF Unlocked
  <2> QED
    BY <2>1, <2>2, <2>3, FreshCountsKept
<1>8. ASSUME NEW t \in Threads, DestroyEnd(t) PROVE FreshCounts'
  <2>1. /\ bitmap' = bitmap \ {obj[t]} /\ UNCHANGED lock /\ Return(t) /\ obj[t] \in Rows
        /\ pending' = [pending EXCEPT ![obj[t]] = {}] /\ Owns(t, obj[t])
    BY <1>1, <1>8, DestroyEndRow DEF DestroyEnd, Owns
  <2>2. Rest(t) /\ Done(t)
    BY <1>3, <2>1
  <2>3. pending'[obj[t]] = {} /\ \A r \in Rows \ {obj[t]} : pending'[r] = pending[r]
    BY <1>1, <2>1
  <2> QED
    BY <2>1, <2>2, <2>3, FreshCountsKept
<1>9. ASSUME NEW t \in Threads, CloseMove(t) PROVE FreshCounts'
  <2>1. /\ \E at \in {"idle", "sweep", "flush", "reap"} : pc' = [pc EXCEPT ![t] = at]
        /\ UNCHANGED <<lock, bitmap, obj, pending>>
    BY <1>1, <1>9 DEF CloseMove, CloseBegin, CloseFlush, CloseFlushed, CloseEnd, Goto, rowVars,
       threadVars, history, Enter
  <2>2. Rest(t) /\ pc'[t] \notin {"create", "merge", "unlink"}
    BY <1>1, <2>1
  <2> HIDE DEF Rest, Done
  <2> QED
    BY <1>2, <1>4, <2>1, <2>2
<1>22. ASSUME NEW t \in Threads, MergeLook(t) PROVE FreshCounts'
  <2>1. UNCHANGED <<lock, bitmap, pending>>
    BY <1>1, <1>22, Looks DEF rowVars, history
  <2>2. Rest(t) /\ pc'[t] \notin {"create", "merge", "unlink"}
    BY <1>1, <1>22, Looks DEF Moves
  <2> HIDE DEF Rest, Done
  <2> QED
    BY <1>2, <1>4, <2>1, <2>2
\* A row that is taken is free, and no call holds its number.
<1>10. ASSUME NEW t \in Threads, NEW r \in Rows,
              CreateReserve(t, r) \/ MergeReserve(t, r) PROVE FreshCounts'
  <2>1. /\ bitmap' = bitmap \cup {r} /\ r \notin bitmap /\ ~Named(r)
        /\ obj' = [obj EXCEPT ![t] = r] /\ UNCHANGED <<lock, pending>>
        /\ \E at \in {"create", "merge"} : pc' = [pc EXCEPT ![t] = at]
    BY <1>10 DEF CreateReserve, MergeReserve, Reserve, Goto, history
  <2>2. Rest(t) /\ obj'[t] = r /\ pc'[t] \in {"create", "merge"}
    BY <1>1, <2>1
  <2>3. \A u \in Threads \ {t} : pc'[u] = pc[u] /\ list'[u] = list[u]
    BY <1>1, <1>10, <2>1 DEF CreateReserve, MergeReserve
  <2>4. Notifiers(r)' = {}
    BY <2>1, <2>2, <2>3 DEF Named, Notifiers
  <2>5. Unlocked(r)' => pending'[r] = {}
    BY <2>1 DEF FreshCounts, Unlocked
  <2>6. Done(t)
    BY <2>2, <2>4, <2>5 DEF FreshThread, Bare
  <2> HIDE DEF Rest, Done
  <2> QED
    BY <1>1, <1>4, <2>1, <2>2, <2>6
<1>11. ASSUME NEW t \in Threads, NEW g \in Rows, NotifyParent(t, g) PROVE FreshCounts'
  <2>1. UNCHANGED <<lock, bitmap, pending>> /\ pc[t] = "notify"
        /\ (Return(t) \/ UNCHANGED <<pc, obj>>)
    BY <1>11 DEF NotifyParent, history
  <2>2. Rest(t) /\ Done(t)
    BY <1>2, <1>3, <2>1
  <2> HIDE DEF Rest, Done
  <2> QED
    BY <1>4, <2>1, <2>2
<1>12. ASSUME NEW t \in Threads, NEW c \in Rows, MergeLink(t, c) PROVE FreshCounts'
  <2>1. /\ UNCHANGED <<lock, bitmap, pc, obj>> /\ pc[t] = "link" /\ Owns(t, obj[t])
        /\ \A r \in Rows \ {obj[t]} : pending'[r] = pending[r]
    BY <1>1, <1>12 DEF MergeLink, Owns
  <2>2. Rest(t) /\ Done(t)
    BY <1>2, <2>1
  <2> QED
    BY <2>1, <2>2, FreshCountsKept
<1>13. ASSUME NEW t \in Threads, NEW c \in Rows, MergeFail(t, c) PROVE FreshCounts'
  <2>1. /\ UNCHANGED <<lock, bitmap, obj, pending>> /\ lock[obj[t]] = t
        /\ pc' = [pc EXCEPT ![t] = "unlink"]
    BY <1>1, <1>13 DEF MergeFail, OwnedRows, Goto, history
  <2>2. Rest(t) /\ pc'[t] = "unlink"
    BY <1>1, <2>1
  <2>3. Done(t)
    BY <2>1, <2>2, ThreadAssumption DEF FreshThread, Unlocked
  <2> HIDE DEF Rest, Done
  <2> QED
    BY <1>4, <2>1, <2>2, <2>3
<1>14. ASSUME NEW t \in Threads, NEW c \in Rows,
              MergeUnlink(t, c) \/ DestroyChild(t, c) \/ DestroyParent(t, c)
       PROVE  FreshCounts'
  <2>1. UNCHANGED <<lock, bitmap, pc, obj, pending>> /\ pc[t] \in {"unlink", "destroy"}
    BY <1>14 DEF MergeUnlink, DestroyChild, DestroyParent, history
  <2>2. Rest(t) /\ Done(t)
    BY <2>1 DEF FreshCounts, FreshThread, Unlocked
  <2> HIDE DEF Rest, Done
  <2> QED
    BY <1>4, <2>1, <2>2
<1>15. ASSUME NEW t \in Threads, NEW r \in Rows, DestroyCall(t, r) PROVE FreshCounts'
  <2>1. UNCHANGED <<lock, bitmap, pending>> /\ Rest(t) /\ pc'[t] = "destroy"
    BY <1>1, <1>15 DEF DestroyCall, DestroyBody, Goto, history
  <2> HIDE DEF Rest, Done
  <2> QED
    BY <1>2, <1>4, <2>1
<1>16. ASSUME NEW t \in Threads, NEW r \in Rows, NEW s \in SignaledStates,
              SignalCall(t, r, s) PROVE FreshCounts'
  <2>1. UNCHANGED <<lock, bitmap>> /\ \A x \in Rows : pending'[x] \subseteq pending[x]
    <3>1. CASE SignalLess(t, r)
      BY <3>1 DEF SignalLess, history
    <3>2. CASE SignalLast(t, r, s)
      <4>1. UNCHANGED <<lock, bitmap>> /\ MemberSignaled(r, s)
        BY <3>2 DEF SignalLast
      <4> QED
        BY <1>1, <4>1 DEF MemberSignaled
    <3> QED
      BY <1>1, <1>16, <3>1, <3>2, SignalSteps
  <2>2. Rest(t) /\ pc'[t] \in {"idle", "sweep", "reap", "notify"}
    <3>1. \E at \in {"idle", "sweep", "reap", "notify"} : \E l, p : Moves(t, at, NoRow, l, p)
      <4>1. CASE SignalLess(t, r)
        BY <4>1 DEF SignalLess
      <4>2. CASE SignalLast(t, r, s)
        BY <4>2 DEF SignalLast
      <4> QED
        BY <1>1, <1>16, <4>1, <4>2, SignalSteps
    <3> QED
      BY <1>1, <3>1 DEF Moves
  <2> HIDE DEF Rest, Done
  <2> QED
    BY <1>2, <1>4, <2>1, <2>2
<1>17. ASSUME NEW t \in Threads, NEW r \in Rows, NEW s \in SignaledStates,
              UserSignal(t, r, s) PROVE FreshCounts'
  <2>1. UNCHANGED <<lock, bitmap, pending>> /\ Rest(t) /\ pc'[t] = "signal"
    BY <1>1, <1>17 DEF UserSignal, Goto, history
  <2> HIDE DEF Rest, Done
  <2> QED
    BY <1>2, <1>4, <2>1
<1>18. ASSUME UNCHANGED <<pc, obj, list, lock, bitmap, pending>> PROVE FreshCounts'
  BY <1>18 DEF FreshCounts, Notifiers, Unlocked
<1>19. CASE Aside
  BY <1>1, <1>18, <1>19, Besides DEF threadVars, history
<1>20. CASE UNCHANGED vars
  BY <1>18, <1>20 DEF vars
<1>21. CASE Next
  BY <1>1, <1>5, <1>6, <1>7, <1>8, <1>9, <1>10, <1>11, <1>12, <1>13, <1>14, <1>15, <1>16,
     <1>17, <1>19, <1>21, <1>22, StepCases
<1> QED
  BY <1>20, <1>21

-----------------------------------------------------------------------------
(* Callbacks, payloads and waiters                                         *)

\* The callback k is as it was, or is not queued for an object, or is queued by
\* its registration.
Calm(k) ==
  \/ cb'[k] = cb[k] \/ cb'[k].at # "work" \/ cb'[k].obj = NoRow
  \/ \E r \in Rows : /\ cb'[k].obj = r /\ Signaled(r) /\ row[r].remaining = 0
                     /\ cb'[k].status = row[r].state

\* An object that is signalled gets no callback and no payload.
Tidy(r) ==
  /\ lock'[r] = lock[r]
  /\ \/ row'[r].callbacks \subseteq row[r].callbacks /\ row'[r].payloads \subseteq row[r].payloads
     \/ ~(Signaled(r) /\ row[r].remaining = 0)

Tame == (\A k \in Callbacks : Calm(k)) /\ (\A r \in Rows : Tidy(r))

\* A step that takes entries off one row's lists is tame.
LEMMA RowTame ==
  ASSUME UNCHANGED <<lock, cb>>, NEW r \in Rows, OnlyRow(r),
         row'[r].callbacks \subseteq row[r].callbacks, row'[r].payloads \subseteq row[r].payloads
  PROVE  Tame
  BY DEF Tame, Calm, Tidy, OnlyRow

\* A step that leaves the rows alone is tame.
LEMMA SameTame ==
  ASSUME UNCHANGED <<row, lock, cb>> PROVE Tame
  BY DEF Tame, Calm, Tidy

\* The steps that are aside are tame.
LEMMA AsideTame ==
  ASSUME StructInv, Aside PROVE Tame
<1>1. /\ row \in [Rows -> RowType] /\ \A r \in Rows : row[r] \in RowType
      /\ cb \in [Callbacks -> CallbackType] /\ UNCHANGED lock
  BY Besides, TypeParts DEF StructInv
<1>2. ASSUME NEW r \in Rows, GetObjRef(r) \/ PutObjRef(r) PROVE Tame
  <2>1. row[r].ref + 1 \in Int /\ row[r].ref - 1 \in Int
    BY <1>1, RowFields
  <2>2. /\ OnlyRow(r) /\ row'[r].callbacks = row[r].callbacks
        /\ row'[r].payloads = row[r].payloads /\ cb' = cb
    BY <1>1, <1>2, <2>1, RefSet DEF GetObjRef, PutObjRef, Fields
  <2> QED
    BY <1>1, <2>2, RowTame
<1>3. ASSUME NEW r \in Rows, NEW p \in Payloads, RegisterPayload(p, r) PROVE Tame
  <2>1. row[r].payloads \cup {p} \in SUBSET Payloads
    BY <1>1, RowFields
  <2>2. OnlyRow(r) /\ ~Signaled(r) /\ cb' = cb
    BY <1>1, <1>3, <2>1, PayloadsSet DEF RegisterPayload
  <2>3. UNCHANGED lock
    BY <1>3 DEF RegisterPayload
  <2>4. \A x \in Rows : Tidy(x)
    BY <2>2, <2>3 DEF Tidy, OnlyRow
  <2> QED
    BY <2>2, <2>4 DEF Tame, Calm
<1>4. ASSUME NEW r \in Rows, NEW p \in Payloads, DeregisterPayload(p, r) PROVE Tame
  <2>1. row[r].payloads \ {p} \in SUBSET Payloads
    BY <1>1, RowFields
  <2>2. /\ OnlyRow(r) /\ row'[r].callbacks = row[r].callbacks
        /\ row'[r].payloads \subseteq row[r].payloads /\ cb' = cb
    <3>1. row' = [row EXCEPT ![r].payloads = row[r].payloads \ {p}] /\ cb' = cb
      BY <1>4 DEF DeregisterPayload
    <3>2. OnlyRow(r) /\ row'[r].callbacks = row[r].callbacks
          /\ row'[r].payloads = row[r].payloads \ {p}
      BY <1>1, <2>1, <3>1, PayloadsSet DEF Fields
    <3> QED
      BY <3>1, <3>2
  <2> QED
    BY <1>1, <2>2, RowTame
<1>5. ASSUME NEW r \in Rows, NEW k \in Callbacks, RegisterCallback(k, r) PROVE Tame
  <2>1. row[r].callbacks \cup {k} \in SUBSET Callbacks
    BY <1>1, RowFields
  <2>2. CASE Signaled(r) /\ row[r].remaining = 0
    <3>1. /\ row' = row /\ cb'[k].obj = r /\ cb'[k].status = row[r].state
          /\ \A j \in Callbacks \ {k} : cb'[j] = cb[j]
      BY <1>1, <1>5, <2>2 DEF RegisterCallback
    <3> QED
      BY <1>1, <2>2, <3>1 DEF Tame, Calm, Tidy
  <2>3. CASE ~(Signaled(r) /\ row[r].remaining = 0)
    <3>1. OnlyRow(r)
      BY <1>1, <1>5, <2>1, <2>3, CallbacksSet DEF RegisterCallback
    <3>2. cb'[k].at = "list" /\ \A j \in Callbacks \ {k} : cb'[j] = cb[j]
      BY <1>1, <1>5, <2>3 DEF RegisterCallback
    <3>3. UNCHANGED lock
      BY <1>5 DEF RegisterCallback
    <3>4. \A x \in Rows : Tidy(x)
      BY <2>3, <3>1, <3>3 DEF Tidy, OnlyRow
    <3> QED
      BY <3>2, <3>4 DEF Tame, Calm
  <2> QED
    BY <2>2, <2>3
<1>6. ASSUME NEW r \in Rows, NEW k \in Callbacks, DeregisterCallback(k, r) PROVE Tame
  <2>1. row[r].callbacks \ {k} \in SUBSET Callbacks
    BY <1>1, RowFields
  <2>2. /\ OnlyRow(r) /\ row'[r].callbacks \subseteq row[r].callbacks
        /\ row'[r].payloads = row[r].payloads
    <3>1. row' = [row EXCEPT ![r].callbacks = row[r].callbacks \ {k}]
      BY <1>6 DEF DeregisterCallback
    <3>2. OnlyRow(r) /\ row'[r].payloads = row[r].payloads
          /\ row'[r].callbacks = row[r].callbacks \ {k}
      BY <1>1, <2>1, <3>1, CallbacksSet DEF Fields
    <3> QED
      BY <3>2
  <2>3. cb'[k].at = "none" /\ \A j \in Callbacks \ {k} : cb'[j] = cb[j]
    BY <1>1, <1>6, NoCallbackType DEF DeregisterCallback
  <2> QED
    BY <1>1, <2>2, <2>3 DEF Tame, Calm, Tidy, OnlyRow
<1>7. ASSUME NEW k \in Callbacks, RunCallback(k) PROVE Tame
  <2>1. row' = row /\ cb'[k].at = "none" /\ \A j \in Callbacks \ {k} : cb'[j] = cb[j]
    BY <1>1, <1>7, NoCallbackType DEF RunCallback, rowVars
  <2> QED
    BY <1>1, <2>1 DEF Tame, Calm, Tidy
<1>8. CASE OpenDevice
  BY <1>8, SameTame DEF OpenDevice, rowVars
<1> QED
  BY <1>2, <1>3, <1>4, <1>5, <1>6, <1>7, <1>8 DEF Aside, RowStep

\* Every step is tame, makes a row, counts or signals.
LEMMA TameCases ==
  ASSUME StructInv, [Next]_vars
  PROVE  \/ Tame
         \/ \E t \in Threads, r \in Rows :
              \/ Makes(t, r) \/ Counts(t, r)
              \/ \E s \in SignaledStates : Signals(t, r, s)
<1>1. /\ TypeOK /\ CloseStages /\ ThreadStages
  BY DEF StructInv
<1>2. ASSUME NEW t \in Threads, DestroyEnd(t) PROVE Tame
  <2>1. PICK r \in Rows : r = obj[t]
    BY <1>1, <1>2, DestroyEndRow
  <2>2. /\ OnlyRow(r) /\ row'[r].callbacks = {} /\ row'[r].payloads = {} /\ UNCHANGED lock
    BY <1>1, <1>2, <2>1, DestroyEndRow DEF Fields, DestroyEnd
  <2>3. \A k \in Callbacks : cb'[k] = cb[k] \/ cb'[k].at = "none" \/ cb'[k].obj = NoRow
    BY <1>1, <1>2, DestroyEndCallbacks, NoCallbackType
  <2> QED
    BY <2>2, <2>3 DEF Tame, Calm, Tidy, OnlyRow
<1>3. ASSUME NEW t \in Threads, MergeAbort(t) PROVE Tame
  BY <1>1, <1>3, MergeAbortRow, RowTame DEF MergeAbort, Fields
<1>4. ASSUME NEW t \in Threads, NEW c \in Rows, MergeFail(t, c) PROVE Tame
  BY <1>1, <1>4, MergeFailRow, RowTame DEF MergeFail, Fields
<1>5. ASSUME NEW t \in Threads, NEW c \in Rows,
             MergeUnlink(t, c) \/ DestroyChild(t, c) \/ DestroyParent(t, c) PROVE Tame
  <2>1. UNCHANGED <<lock, cb>>
    BY <1>5 DEF MergeUnlink, DestroyChild, DestroyParent
  <2>2. /\ OnlyRow(c) /\ row'[c].callbacks = row[c].callbacks
        /\ row'[c].payloads = row[c].payloads
    BY <1>1, <1>5, MergeUnlinkRow, DestroyChildRow, DestroyParentRow DEF Fields
  <2> QED
    BY <2>1, <2>2, RowTame
<1>6. ASSUME NEW t \in Threads, NEW r \in Rows, DestroyCall(t, r) PROVE Tame
  BY <1>1, <1>6, DestroyCallRow, RowTame DEF DestroyCall, DestroyBody, Fields
<1>7. ASSUME NEW t \in Threads, NEW r \in Rows, NEW s \in SignaledStates,
             UserSignal(t, r, s) PROVE Tame
  BY <1>1, <1>7, UserSignalRow, RowTame DEF UserSignal, Fields
<1>8. ASSUME NEW t \in Threads, NEW r \in Rows, NEW s \in SignaledStates,
             SignalCall(t, r, s) PROVE Tame \/ Signals(t, r, s)
  <2>1. CASE SignalLess(t, r)
    BY <2>1, RowTame DEF SignalLess
  <2>2. CASE SignalLast(t, r, s)
    BY <1>8, <2>2 DEF Signals, SignalCall
  <2> QED
    BY <1>1, <1>8, <2>1, <2>2, SignalSteps
<1>9. ASSUME NEW t \in Threads, NEW r \in Rows,
             CreateReserve(t, r) \/ MergeReserve(t, r) PROVE Tame
  BY <1>9, SameTame DEF CreateReserve, MergeReserve
<1>10. ASSUME NEW t \in Threads, CloseMove(t) PROVE Tame
  BY <1>10, SameTame DEF CloseMove, CloseBegin, CloseFlush, CloseFlushed, CloseEnd, rowVars
<1>13. ASSUME NEW t \in Threads, MergeLook(t) PROVE Tame
  BY <1>1, <1>13, SameTame, Looks DEF rowVars
<1>11. CASE UNCHANGED vars
  BY <1>11, SameTame DEF vars
<1>12. CASE Next
  <2> DEFINE Subject == \E t \in Threads, r \in Rows :
                          \/ Makes(t, r) \/ Counts(t, r)
                          \/ \E s \in SignaledStates : Signals(t, r, s)
  <2>1. ASSUME NEW t \in Threads,
               CreateInit(t) \/ MergeInit(t) \/ MergeEnd(t) \/ \E c \in Rows : MergeLink(t, c)
        PROVE  Subject
    BY <2>1, MakesRow
  <2>2. ASSUME NEW t \in Threads, NEW r \in Rows, NotifyParent(t, r) PROVE Subject
    BY <2>2, CountsRow
  <2>3. ASSUME NEW t \in Threads, NEW r \in Rows, NEW s \in SignaledStates,
               SignalCall(t, r, s) PROVE Tame \/ Subject
    BY <1>8, <2>3
  <2> HIDE DEF Subject
  <2>4. Tame \/ Subject
    BY <1>1, <1>2, <1>3, <1>4, <1>5, <1>6, <1>7, <1>9, <1>10, <1>12, <1>13,
       <2>1, <2>2, <2>3, AsideTame, StepCases
  <2> QED
    BY <2>4 DEF Subject
<1> QED
  BY <1>11, <1>12

Left(r) ==
  Unlocked(r) /\ Signaled(r) /\ row[r].remaining = 0 =>
    row[r].signaled /\ row[r].callbacks = {} /\ row[r].payloads = {}

Carries(k, r) ==
  cb[k].at = "work" /\ cb[k].obj = r /\ Valid(r) =>
    /\ Signaled(r) /\ row[r].remaining = 0
    /\ cb[k].status = row[r].state

\* A signalled row is valid.
LEMMA SignaledValid ==
  ASSUME NEW r \in Rows, Signaled(r) PROVE Valid(r)
  BY DEF Signaled, Valid, SignaledStates

\* A row that stays and gets no entries leaves nothing behind.
LEMMA TameLeft ==
  ASSUME NEW r \in Rows, SameRow(r), Left(r), Tidy(r) PROVE Left(r)'
<1>1. (Signaled(r)' <=> Signaled(r)) /\ (Unlocked(r)' <=> Unlocked(r))
  BY DEF SameRow, Signaled, Tidy, Unlocked
<1>2. SUFFICES ASSUME Unlocked(r), Signaled(r), row'[r].remaining = 0
               PROVE  row'[r].signaled /\ row'[r].callbacks = {} /\ row'[r].payloads = {}
  BY <1>1 DEF Left
<1>3. row[r].remaining = 0 /\ row[r].signaled /\ row[r].callbacks = {} /\ row[r].payloads = {}
  BY <1>2 DEF SameRow, Left
<1> QED
  BY <1>2, <1>3 DEF Tidy, SameRow

\* A callback that stays carries the status of a row that stays.
LEMMA SameCarries ==
  ASSUME NEW k \in Callbacks, NEW r \in Rows, SameRow(r), Carries(k, r), Calm(k)
  PROVE  Carries(k, r)'
<1>1. (Valid(r)' <=> Valid(r)) /\ (Signaled(r)' <=> Signaled(r))
  BY DEF SameRow, Valid, Signaled
<1>2. CASE cb'[k] = cb[k]
  BY <1>1, <1>2 DEF Carries, SameRow
<1>3. CASE cb'[k].at # "work" \/ cb'[k].obj = NoRow
  BY <1>3, ThreadAssumption DEF Carries
<1>4. ASSUME NEW x \in Rows, cb'[k].obj = x, Signaled(x), row[x].remaining = 0,
             cb'[k].status = row[x].state
      PROVE  Carries(k, r)'
  <2>1. CASE x = r
    BY <1>1, <1>4, <2>1 DEF Carries, SameRow
  <2>2. CASE x # r
    BY <1>4, <2>2 DEF Carries
  <2> QED
    BY <2>1, <2>2
<1> QED
  BY <1>2, <1>3, <1>4 DEF Calm

\* No callback is queued for the objects that are being made.
LEMMA MakesLeft ==
  ASSUME IInv, NEW t \in Threads, NEW r \in Rows, Makes(t, r), NEW x \in Rows
  PROVE  Left(x)' /\ \A k \in Callbacks : Carries(k, x)'
<1>1. /\ TypeOK /\ CloseStages /\ ThreadStages /\ OwnedRows /\ FreshCallbacks /\ r = obj[t]
      /\ row \in [Rows -> RowType] /\ lock \in [Rows -> Threads \cup {NoThread}]
      /\ Left(x) /\ \A k \in Callbacks : Carries(k, x)
  <2>1. /\ TypeOK /\ CloseStages /\ ThreadStages /\ OwnedRows /\ FreshCallbacks /\ r = obj[t]
    BY DEF IInv, StructInv, CountInv, Makes
  <2>2. row \in [Rows -> RowType] /\ lock \in [Rows -> Threads \cup {NoThread}]
    BY <2>1, TypeParts DEF OtherTypes
  <2>3. Left(x) /\ \A k \in Callbacks : Carries(k, x)
    BY DEF IInv, CountInv, NothingLeftBehind, CallbackTraced, Left, Carries
  <2> QED
    BY <2>1, <2>2, <2>3
<1>2. UNCHANGED cb /\ pc[t] \in {"create", "merge", "link"}
  BY DEF Makes, CreateInit, MergeInit, MergeEnd, MergeLink
<1>3. \A k \in Callbacks : cb'[k].obj # r
  BY <1>1, <1>2 DEF FreshCallbacks
<1>4. CASE x # r
  <2>1. SameRow(x)
    BY <1>4 DEF Makes
  <2>2. \A k \in Callbacks : Carries(k, x)'
    BY <1>1, <1>2, <2>1, SameCarries DEF Calm
  <2>3. lock'[x] = lock[x]
    BY <1>1, <1>4 DEF Makes, CreateInit, MergeInit, MergeEnd, MergeLink
  <2>4. row'[x].callbacks = row[x].callbacks /\ row'[x].payloads = row[x].payloads
    <3>1. CASE CreateInit(t) \/ MergeInit(t) \/ MergeEnd(t)
      BY <1>1, <1>4, <3>1, CreateInitRow, MergeInitRow, MergedRow DEF OnlyRow
    <3>2. ASSUME NEW c \in Rows, MergeLink(t, c)
          PROVE  row'[x].callbacks = row[x].callbacks /\ row'[x].payloads = row[x].payloads
      <4>1. CASE Links(t, c)
        BY <1>1, <1>4, <4>1 DEF Links, Fields
      <4>2. CASE Inherits(t, c)
        BY <1>1, <1>4, <4>2 DEF Inherits, OnlyRow
      <4> QED
        BY <1>1, <3>2, <4>1, <4>2, MergeLinkRows
    <3> QED
      BY <3>1, <3>2 DEF Makes
  <2>5. Left(x)'
    BY <1>1, <2>1, <2>3, <2>4, TameLeft DEF Tidy
  <2> QED
    BY <2>2, <2>5
<1>5. CASE x = r
  <2>1. \A k \in Callbacks : Carries(k, x)'
    BY <1>3, <1>5 DEF Carries
  <2>2. CASE CreateInit(t)
    <3>1. row'[x].state = "ACTIVE"
      BY <1>1, <1>5, <2>2, CreateInitRow DEF Fields
    <3> QED
      BY <2>1, <3>1 DEF Left, Signaled, SignaledStates
  <2>3. ASSUME lock'[x] = t PROVE Left(x)'
    BY <2>3, ThreadAssumption DEF Left, Unlocked
  <2>4. CASE MergeInit(t)
    BY <1>1, <1>5, <2>1, <2>3, <2>4 DEF MergeInit
  <2>5. CASE \E c \in Rows : MergeLink(t, c)
    BY <1>1, <1>5, <2>1, <2>3, <2>5 DEF MergeLink, OwnedRows
  <2>6. CASE MergeEnd(t)
    <3>1. row[r].callbacks = {} /\ row[r].payloads = {} /\ row[r] \in RowType
      BY <1>1, <2>6 DEF MergeEnd, OwnedRows
    <3>2. /\ row'[r].callbacks = {} /\ row'[r].payloads = {}
          /\ row'[r].remaining = row[r].remaining
          /\ ~(row[r].remaining > 0) => row'[r].signaled = TRUE
      BY <1>1, <2>6, <3>1, MergedRow DEF Fields
    <3>3. Left(r)'
      BY <3>2 DEF Left
    <3> QED
      BY <1>5, <2>1, <3>3
  <2> QED
    BY <2>1, <2>2, <2>4, <2>5, <2>6 DEF Makes
<1> QED
  BY <1>4, <1>5

\* Notifying a group leaves nothing behind on any row.
LEMMA CountsLeft ==
  ASSUME IInv, NEW t \in Threads, NEW g \in Rows, Counts(t, g), NEW x \in Rows
  PROVE  Left(x)' /\ \A k \in Callbacks : Carries(k, x)'
<1>1. /\ TypeOK /\ ThreadStages /\ PayloadsSent /\ NotifyParent(t, g)
      /\ row \in [Rows -> RowType] /\ row[g] \in RowType
      /\ Left(x) /\ \A k \in Callbacks, r \in Rows : Carries(k, r)
      /\ \A k \in Callbacks, r \in Rows : k \in row[r].callbacks <=> Listed(k, r)
      /\ CountRow(g)
  BY CountRows DEF IInv, StructInv, TypeOK, CountInv, NothingLeftBehind, CallbackTraced, Left,
     Carries, Counts, Listed
<1>2. status[t] \in SignaledStates /\ t \in Notifiers(g) /\ UNCHANGED lock
  BY <1>1 DEF NotifyParent, ThreadStages, Notifiers
<1> DEFINE s == ParentState(row[g].state, status[t])
           last == Valid(g) /\ row[g].remaining = 1
<1>3. /\ OnlyRow(g) /\ row'[g].state = s /\ row'[g].remaining = row[g].remaining - 1
      /\ cb' = IF last THEN Queued(row[g], s) ELSE cb
      /\ last => /\ row'[g].signaled = TRUE /\ row'[g].callbacks = {}
                 /\ row'[g].payloads = IF eventq THEN {} ELSE row[g].payloads
  BY <1>1, <1>2, NotifiedRow DEF Fields
\* A group that is notified has nothing queued yet.
<1>4. ASSUME Valid(g)
      PROVE  /\ row[g].remaining \in Nat /\ row[g].remaining # 0 /\ s \in SignaledStates
             /\ \A k \in Callbacks : ~(cb[k].at = "work" /\ cb[k].obj = g)
  <2>1. row[g].remaining \in Nat /\ row[g].remaining # 0
    BY <1>1, <1>2, <1>4, Awaited
  <2>2. s \in SignaledStates
    BY <1>1, <1>2, <1>4, RowFields DEF ParentState, Valid
  <2> QED
    BY <1>1, <1>4, <2>1, <2>2 DEF Carries
<1>5. ASSUME ~Valid(g) PROVE row'[g].state = "INVALID" /\ cb' = cb
  BY <1>3, <1>5 DEF ParentState, Valid
<1>6. ASSUME last, NEW k \in Callbacks
      PROVE  /\ cb'[k].obj = cb[k].obj
             /\ k \in row[g].callbacks => cb'[k].at = "work" /\ cb'[k].status = s
             /\ k \notin row[g].callbacks => cb'[k] = cb[k]
  <2>1. s \in SignaledStates /\ cb' = Queued(row[g], s)
    BY <1>3, <1>4, <1>6
  <2> HIDE DEF s
  <2> QED
    BY <1>1, <2>1, QueuedFields
<1> HIDE DEF s
<1>7. CASE x # g
  <2>1. row'[x] = row[x]
    BY <1>3, <1>7 DEF OnlyRow
  <2>2. Left(x)'
    BY <1>1, <1>2, <2>1 DEF Left, Unlocked, Signaled
  <2>3. ASSUME NEW k \in Callbacks PROVE Carries(k, x)'
    <3>1. CASE last /\ k \in row[g].callbacks
      <4>1. cb'[k].obj = g
        BY <1>1, <1>6, <3>1 DEF Listed
      <4> QED
        BY <1>7, <4>1 DEF Carries
    <3>2. CASE ~(last /\ k \in row[g].callbacks)
      <4>1. cb'[k] = cb[k]
        BY <1>3, <1>6, <3>2
      <4> QED
        BY <1>1, <2>1, <4>1 DEF Carries, Valid, Signaled
    <3> QED
      BY <3>1, <3>2
  <2> QED
    BY <2>2, <2>3
<1>8. CASE x = g /\ ~Valid(g)
  BY <1>5, <1>8 DEF Left, Carries, Valid, Signaled, SignaledStates
<1>9. CASE x = g /\ Valid(g)
  <2>1. CASE ~last
    <3>1. row'[g].remaining # 0 /\ cb' = cb
      BY <1>3, <1>4, <1>9, <2>1
    <3> QED
      BY <1>4, <1>9, <3>1 DEF Left, Carries
  <2>2. CASE last
    <3>1. row'[g].payloads = {}
      BY <1>3, <1>9, <2>2, <1>1 DEF PayloadsSent
    <3>2. Left(g)'
      BY <1>3, <2>2, <3>1 DEF Left
    <3>3. Signaled(g)' /\ row'[g].remaining = 0
      BY <1>3, <1>4, <1>9, <2>2 DEF Signaled
    <3>4. ASSUME NEW k \in Callbacks PROVE Carries(k, g)'
      <4>1. CASE k \in row[g].callbacks
        BY <1>3, <1>6, <2>2, <3>3, <4>1 DEF Carries
      <4>2. CASE k \notin row[g].callbacks
        BY <1>4, <1>6, <1>9, <2>2, <4>2 DEF Carries
      <4> QED
        BY <4>1, <4>2
    <3> QED
      BY <1>9, <3>2, <3>4
  <2> QED
    BY <2>1, <2>2
<1> QED
  BY <1>7, <1>8, <1>9

\* Signalling a row leaves nothing behind on any row.
LEMMA SignalsLeft ==
  ASSUME IInv, NEW t \in Threads, NEW r \in Rows, NEW s \in SignaledStates, Signals(t, r, s),
         NEW x \in Rows
  PROVE  Left(x)' /\ \A k \in Callbacks : Carries(k, x)'
<1>1. /\ TypeOK /\ PayloadsSent /\ SignalLast(t, r, s)
      /\ row \in [Rows -> RowType] /\ row[r] \in RowType
      /\ Left(x) /\ \A k \in Callbacks, y \in Rows : Carries(k, y)
      /\ \A k \in Callbacks, y \in Rows : k \in row[y].callbacks <=> Listed(k, y)
      /\ CountRow(r)
  BY CountRows DEF IInv, StructInv, TypeOK, CountInv, NothingLeftBehind, CallbackTraced, Left,
     Carries, Signals, Listed
<1>2. /\ OnlyRow(r) /\ row'[r].state = s /\ row'[r].remaining = row[r].remaining
      /\ row'[r].signaled = TRUE /\ row'[r].callbacks = {} /\ UNCHANGED lock
      /\ row'[r].payloads = IF eventq THEN {} ELSE row[r].payloads
      /\ cb' = Queued(row[r], s) /\ row[r].type = "INDV" /\ row[r].state = "ACTIVE"
  BY <1>1 DEF SignalLast, Fields
<1>3. Valid(r) /\ row[r].remaining = 0
  BY <1>1, <1>2 DEF Valid, CountRow, Down
<1>4. \A k \in Callbacks : ~(cb[k].at = "work" /\ cb[k].obj = r)
  BY <1>1, <1>2, <1>3 DEF Carries, Signaled, SignaledStates
<1>5. ASSUME NEW k \in Callbacks
      PROVE  /\ cb'[k].obj = cb[k].obj
             /\ k \in row[r].callbacks => cb'[k].at = "work" /\ cb'[k].status = s
             /\ k \notin row[r].callbacks => cb'[k] = cb[k]
  BY <1>1, <1>2, QueuedFields
<1>6. CASE x # r
  <2>1. row'[x] = row[x]
    BY <1>2, <1>6 DEF OnlyRow
  <2>2. Left(x)'
    BY <1>1, <1>2, <2>1 DEF Left, Unlocked, Signaled
  <2>3. ASSUME NEW k \in Callbacks PROVE Carries(k, x)'
    <3>1. CASE k \in row[r].callbacks
      <4>1. cb'[k].obj = r
        BY <1>1, <1>5, <3>1 DEF Listed
      <4> QED
        BY <1>6, <4>1 DEF Carries
    <3>2. CASE k \notin row[r].callbacks
      BY <1>1, <1>5, <2>1, <3>2 DEF Carries, Valid, Signaled
    <3> QED
      BY <3>1, <3>2
  <2> QED
    BY <2>2, <2>3
<1>7. CASE x = r
  <2>1. row'[r].payloads = {}
    BY <1>1, <1>2, <1>3 DEF PayloadsSent
  <2>2. Left(r)'
    BY <1>2, <2>1 DEF Left
  <2>3. Signaled(r)' /\ row'[r].remaining = 0
    BY <1>2, <1>3 DEF Signaled
  <2>4. ASSUME NEW k \in Callbacks PROVE Carries(k, r)'
    BY <1>2, <1>4, <1>5, <2>3 DEF Carries
  <2> QED
    BY <1>7, <2>2, <2>4
<1> QED
  BY <1>6, <1>7

\* Every step keeps NothingLeftBehind and CallbackTraced.
LEMMA NextLeft ==
  ASSUME IInv, [Next]_vars PROVE NothingLeftBehind' /\ CallbackTraced'
<1>1. /\ StructInv /\ \A r \in Rows : Left(r)
      /\ \A k \in Callbacks, r \in Rows : Carries(k, r)
  BY DEF IInv, CountInv, NothingLeftBehind, CallbackTraced, Left, Carries
<1>2. ASSUME \A r \in Rows : Quiet(r), Tame, NEW r \in Rows
      PROVE  Left(r)' /\ \A k \in Callbacks : Carries(k, r)'
  <2>1. CASE row'[r].state = "INVALID"
    BY <2>1 DEF Left, Carries, Valid, Signaled, SignaledStates
  <2>2. CASE SameRow(r)
    BY <1>1, <1>2, <2>2, TameLeft, SameCarries DEF Tame
  <2> QED
    BY <1>2, <2>1, <2>2 DEF Quiet
<1>3. ASSUME NEW t \in Threads, NEW r \in Rows,
             \/ Makes(t, r) \/ Counts(t, r) \/ \E s \in SignaledStates : Signals(t, r, s),
             NEW x \in Rows
      PROVE  Left(x)' /\ \A k \in Callbacks : Carries(k, x)'
  BY <1>3, MakesLeft, CountsLeft, SignalsLeft
<1>4. \A x \in Rows : Left(x)' /\ \A k \in Callbacks : Carries(k, x)'
  BY <1>1, <1>2, <1>3, CountCases, TameCases
<1> QED
  BY <1>4 DEF NothingLeftBehind, CallbackTraced, Left, Carries

-----------------------------------------------------------------------------
(* The counts of every state                                               *)

\* The counting invariant holds when the driver is probed.
LEMMA InitCount ==
  Init => CountInv
<1> SUFFICES ASSUME Init PROVE CountInv
  OBVIOUS
<1>1. \A r \in Rows : row[r].state = "INVALID"
  BY ZeroRowFields DEF Init, Fields
<1>2. \A r \in Rows : ~Valid(r) /\ ~Signaled(r)
  BY <1>1 DEF Valid, Signaled, SignaledStates
<1>3. RemainingCounted /\ CountedDown /\ StatusTraced /\ CallbackTraced /\ NothingLeftBehind
  BY <1>2 DEF RemainingCounted, CountedDown, StatusTraced, CallbackTraced, NothingLeftBehind
<1>4. FreshCounts
  BY DEF Init, FreshCounts
<1> QED
  BY <1>3, <1>4 DEF CountInv

\* Every step keeps the invariant if no row is used again.
LEMMA NextInvariant ==
  ASSUME Reuse = FALSE, IInv, [Next]_vars PROVE IInv'
<1>1. StructInv /\ FreshCounts
  BY DEF IInv, CountInv
<1> QED
  BY <1>1, NextStruct, NextCounts, NextFreshCounts, NextLeft DEF IInv, CountInv

\* As long as no row is reused while a call still holds its number, the counts of
\* every group are right, whoever calls what and in whatever order.
THEOREM Invariance ==
  ASSUME Reuse = FALSE PROVE Spec => []IInv
<1>1. Init => IInv
  BY InitStruct, InitCount DEF IInv
<1>2. IInv /\ [Next]_vars => IInv'
  BY NextInvariant
<1> QED
  BY <1>1, <1>2, PTL DEF Spec

\* remaining counts exactly the members of a group that were not signalled and
\* the signallers on their way to it.
THEOREM CountExact ==
  ASSUME Reuse = FALSE PROVE Spec => []RemainingCounted
<1>1. IInv => RemainingCounted
  BY DEF IInv, CountInv
<1> QED
  BY <1>1, Invariance, PTL

\* Nobody is released too early: a merged object is completed only when every
\* member of it was signalled.
THEOREM NeverTooEarly ==
  ASSUME Reuse = FALSE PROVE Spec => []GroupWaitsForAll
<1>1. IInv => GroupWaitsForAll
  <2> SUFFICES ASSUME IInv, NEW r \in Rows, Valid(r), row[r].signaled
               PROVE  pending[r] = {}
    BY DEF GroupWaitsForAll
  <2>1. TypeOK /\ CountRow(r)
    BY CountRows DEF IInv, StructInv, CountInv
  <2>2. Cardinality(pending[r]) + Cardinality(Notifiers(r)) = 0
    BY <2>1 DEF CountRow, Counted, Down
  <2>3. Cardinality(pending[r]) = 0
    BY <2>1, <2>2, FiniteParts
  <2> QED
    BY <2>1, <2>3, FiniteParts, FS_EmptySet
<1> QED
  BY <1>1, Invariance, PTL

\* No error is lost and none is invented: a group that is complete is in SUCCESS
\* exactly when no member of it failed.
THEOREM StatusExact ==
  ASSUME Reuse = FALSE PROVE Spec => []GroupStatus
<1>1. IInv => GroupStatus
  <2> SUFFICES ASSUME IInv, NEW g \in Rows, Valid(g), row[g].type = "GROUP", row[g].signaled
               PROVE  row[g].state = "SUCCESS" <=> g \notin failed
    BY DEF GroupStatus
  <2>1. TypeOK /\ CountRow(g) /\ row[g] \in RowType
    BY CountRows DEF IInv, StructInv, CountInv, TypeOK
  <2>2. \A t \in Threads : t \notin Notifiers(g)
    <3>1. ~(row[g].signaled = FALSE)
      BY <2>1, RowFields
    <3> QED
      BY <2>1, <3>1, Awaited
  <2>3. Notifiers(g) = {}
    BY <2>2 DEF Notifiers
  <2>4. Traced(g)
    BY <2>1 DEF CountRow
  <2>5. g \in failed <=> row[g].state \in Errors
    BY <2>3, <2>4 DEF Traced
  <2>6. row[g].state \in {"SUCCESS", "ERROR", "CANCEL"}
    BY <2>1, <2>4, RowFields DEF Traced, Valid, SignaledStates
  <2> QED
    BY <2>5, <2>6 DEF Errors
<1> QED
  BY <1>1, Invariance, PTL

\* Nothing is left waiting: an object that is signalled with no member to come
\* has released its waiters, and has no callback and no payload left.
THEOREM NothingWaits ==
  ASSUME Reuse = FALSE PROVE Spec => []NothingLeftBehind
<1>1. IInv => NothingLeftBehind
  BY DEF IInv, CountInv
<1> QED
  BY <1>1, Invariance, PTL

\* A queued callback carries the state its object ended in.
THEOREM CallbacksTold ==
  ASSUME Reuse = FALSE PROVE Spec => []CallbackStatus
<1>1. IInv => CallbackStatus
  <2> SUFFICES ASSUME IInv, NEW k \in Callbacks, cb[k].at = "work", cb[k].obj # NoRow,
                      Valid(cb[k].obj)
               PROVE  cb[k].status = row[cb[k].obj].state
    BY DEF CallbackStatus
  <2>1. cb[k].obj \in Rows
    BY TypeParts DEF IInv, StructInv, CallbackType
  <2> QED
    BY <2>1 DEF IInv, CountInv, CallbackTraced
<1> QED
  BY <1>1, Invariance, PTL
=============================================================================
