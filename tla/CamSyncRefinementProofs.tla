---------------------- MODULE CamSyncRefinementProofs ----------------------
(***************************************************************************)
(* CamSync implements Fences, for every table of rows and every finite set *)
(* of threads, as long as no row is reused while a call holds its number.  *)
(* Five steps are visible: the end of a creation, the last signal of an    *)
(* object, the end of a merge, the last member that reaches a group, and   *)
(* the first part of a destruction.                                        *)
(***************************************************************************)
EXTENDS CamSyncRefinement, CamSyncProofs

\* What is seen of the table.
seen == <<Fate, Merged, Awaits, Groups, Bad>>

\* A step of Fences, or none.
FenceStep == [Fence!Next]_seen

-----------------------------------------------------------------------------
(* What is linked is active                                                *)

\* An object reports to its groups only while it is active: cam_sync_signal
\* takes the groups off the row in the section that sets its state.
LinkedActive == \A r \in Rows : row[r].parents # {} => row[r].state = "ACTIVE"

\* The row r gets no new groups, and keeps its state as long as it has some.
Loosens(r) ==
  row'[r].parents = {} \/ (row'[r].state = row[r].state /\ row'[r].parents \subseteq row[r].parents)

\* Every step loosens a row or links an active one.
LEMMA NextLoosens ==
  ASSUME IInv, Next, NEW x \in Rows
  PROVE  Loosens(x) \/ (row'[x].state = "ACTIVE" /\ row[x].state = "ACTIVE")
<1>1. /\ TypeOK /\ ThreadStages /\ CloseStages /\ OwnedRows /\ LeafRows
      /\ row \in [Rows -> RowType] /\ \A g \in Rows : CountRow(g)
  BY CountRows DEF IInv, StructInv, CountInv, TypeOK
<1>2. ASSUME row'[x] = row[x] PROVE Loosens(x)
  BY <1>2 DEF Loosens
<1>3. CASE Aside
  BY <1>1, <1>3, Besides DEF Kept, Loosens
<1>4. ASSUME NEW t \in Threads, CloseMove(t) PROVE Loosens(x)
  BY <1>2, <1>4 DEF CloseMove, CloseBegin, CloseFlush, CloseFlushed, CloseEnd, rowVars
<1>5. ASSUME NEW t \in Threads,
             CreateInit(t) \/ MergeInit(t) \/ DestroyEnd(t) \/ MergeAbort(t)
      PROVE  Loosens(x)
  <2>1. obj[t] \in Rows /\ OnlyRow(obj[t])
        /\ (row'[obj[t]].parents = {} \/ (/\ row'[obj[t]].parents = row[obj[t]].parents
                                          /\ row'[obj[t]].state = row[obj[t]].state))
    BY <1>1, <1>5, CreateInitRow, MergeInitRow, DestroyEndRow, MergeAbortRow DEF Fields
  <2> QED
    BY <2>1 DEF OnlyRow, Loosens
<1>6. ASSUME NEW t \in Threads, NEW g \in Rows, OnlyRow(g), row'[g].parents = row[g].parents,
             ~Valid(g) \/ row[g].type = "GROUP"
      PROVE  Loosens(x)
  BY <1>1, <1>6 DEF OnlyRow, Loosens, LeafRows
<1>7. ASSUME NEW t \in Threads, MergeEnd(t) PROVE Loosens(x)
  <2>1. obj[t] \in Rows /\ row[obj[t]].type = "GROUP"
    BY <1>1, <1>7 DEF MergeEnd, ThreadStages, OwnedRows
  <2>2. OnlyRow(obj[t]) /\ row'[obj[t]].parents = row[obj[t]].parents
    BY <1>1, <1>7, <2>1, MergedRow DEF Fields
  <2> QED
    BY <1>6, <2>1, <2>2
<1>8. ASSUME NEW t \in Threads, NEW c \in Rows, MergeFail(t, c) PROVE Loosens(x)
  <2>1. obj[t] \in Rows /\ row[obj[t]].type = "GROUP"
    BY <1>1, <1>8 DEF MergeFail, ThreadStages, OwnedRows
  <2>2. OnlyRow(obj[t]) /\ row'[obj[t]].parents = row[obj[t]].parents
    BY <1>1, <1>8, MergeFailRow DEF Fields
  <2> QED
    BY <1>6, <2>1, <2>2
<1>9. ASSUME NEW t \in Threads, NEW g \in Rows, NotifyParent(t, g) PROVE Loosens(x)
  <2>1. status[t] \in SignaledStates /\ t \in Notifiers(g)
    BY <1>1, <1>9 DEF NotifyParent, ThreadStages, Notifiers
  <2>2. OnlyRow(g) /\ row'[g].parents = row[g].parents
    BY <1>1, <1>9, <2>1, NotifiedRow DEF Fields
  <2>3. Valid(g) => row[g].type = "GROUP"
    BY <1>1, <2>1, Awaited
  <2> QED
    BY <1>6, <2>2, <2>3
<1>10. ASSUME NEW t \in Threads, NEW c \in Rows, MergeLink(t, c)
       PROVE  Loosens(x) \/ (row'[x].state = "ACTIVE" /\ row[x].state = "ACTIVE")
  <2>1. obj[t] \in Rows /\ row[obj[t]].type = "GROUP"
    BY <1>1, <1>10 DEF MergeLink, ThreadStages, OwnedRows
  <2>2. CASE Links(t, c)
    BY <1>1, <2>1, <2>2 DEF Links, Fields, Loosens
  <2>3. CASE Inherits(t, c)
    BY <1>6, <2>1, <2>3 DEF Inherits, Fields
  <2> QED
    BY <1>1, <1>10, <2>2, <2>3, MergeLinkRows
<1>14. ASSUME NEW t \in Threads, MergeLook(t) PROVE Loosens(x)
  BY <1>1, <1>2, <1>14, Looks DEF rowVars
<1>11. ASSUME NEW t \in Threads, NEW r \in Rows, CreateReserve(t, r) \/ MergeReserve(t, r)
       PROVE  Loosens(x)
  BY <1>2, <1>11 DEF CreateReserve, MergeReserve
<1>12. ASSUME NEW t \in Threads, NEW r \in Rows,
              \/ MergeUnlink(t, r) \/ DestroyChild(t, r) \/ DestroyParent(t, r)
              \/ DestroyCall(t, r)
       PROVE  Loosens(x)
  <2>1. CASE MergeUnlink(t, r)
    BY <1>1, <2>1, MergeUnlinkRow DEF Fields, OnlyRow, Loosens
  <2>2. CASE DestroyChild(t, r)
    BY <1>1, <2>2, DestroyChildRow DEF Fields, OnlyRow, Loosens
  <2>3. CASE DestroyParent(t, r)
    BY <1>1, <2>3, DestroyParentRow DEF Fields, OnlyRow, Loosens
  <2>4. CASE DestroyCall(t, r)
    BY <1>1, <2>4, DestroyCallRow DEF Fields, OnlyRow, Loosens
  <2> QED
    BY <1>12, <2>1, <2>2, <2>3, <2>4
<1>13. ASSUME NEW t \in Threads, NEW r \in Rows, NEW s \in SignaledStates,
              SignalCall(t, r, s) \/ UserSignal(t, r, s)
       PROVE  Loosens(x)
  <2>1. CASE SignalLess(t, r)
    BY <2>1 DEF SignalLess, Kept, OnlyRow, Loosens
  <2>2. CASE SignalLast(t, r, s)
    BY <2>2 DEF SignalLast, Fields, OnlyRow, Loosens
  <2>3. CASE UserSignal(t, r, s)
    BY <1>1, <2>3, UserSignalRow DEF Fields, OnlyRow, Loosens
  <2> QED
    BY <1>1, <1>13, <2>1, <2>2, <2>3, SignalSteps
<1> QED
  BY <1>1, <1>3, <1>4, <1>5, <1>7, <1>8, <1>9, <1>10, <1>11, <1>12, <1>13, <1>14,
     StepCases

\* What is linked to a group stays active.
LEMMA NextLinkedActive ==
  ASSUME IInv, LinkedActive, [Next]_vars PROVE LinkedActive'
<1>1. CASE UNCHANGED vars
  BY <1>1 DEF vars, LinkedActive
<1>2. CASE Next
  BY <1>2, NextLoosens DEF LinkedActive, Loosens
<1> QED
  BY <1>1, <1>2

-----------------------------------------------------------------------------
(* What a step leaves alone                                                *)

\* The fence x is as it was ...
Alike(x) ==
  /\ Fate'[x] = Fate[x]
  /\ IsMerged(x)' <=> IsMerged(x)
  /\ IsMerged(x) => SameHistory(x)

\* ... and reports to the same merged fences.
LinksAlike(x) ==
  \A g \in Rows : IsMerged(g) => (g \in row'[x].parents <=> g \in row[x].parents)

\* A step that leaves every row alike is not seen.
LEMMA Unseen ==
  ASSUME TypeOK, TypeOK', \A x \in Rows : Alike(x) /\ LinksAlike(x)
  PROVE  UNCHANGED seen
<1>1. \A x \in Rows : row[x].parents \subseteq Rows /\ row'[x].parents \subseteq Rows
  BY RowFields DEF TypeOK
<1>2. Fate' = Fate
  BY DEF Alike, Fate
<1>3. Merged' = Merged
  BY DEF Alike, Merged
<1>4. Awaits' = Awaits
  BY DEF Alike, Awaits, SameHistory
<1>5. Bad' = Bad
  BY DEF Alike, Bad, SameHistory, TypeOK
<1>6. ASSUME NEW x \in Rows
      PROVE  {g \in row'[x].parents : IsMerged(g)'} = {g \in row[x].parents : IsMerged(g)}
  BY <1>1 DEF Alike, LinksAlike
<1>7. Groups' = Groups
  BY <1>6 DEF Groups
<1> QED
  BY <1>2, <1>3, <1>4, <1>5, <1>7 DEF seen

\* A row is alike if what decides about it is the same ...
LEMMA RowAlike ==
  ASSUME NEW x \in Rows, row'[x].state = row[x].state, row'[x].type = row[x].type,
         row'[x].remaining = row[x].remaining, lock'[x] = lock[x], SameHistory(x)
  PROVE  Alike(x)
<1>1. /\ Visible(x)' <=> Visible(x)
      /\ Final(x)' <=> Final(x)
  BY DEF Visible, Valid, Unlocked, Final, Signaled
<1> QED
  BY <1>1 DEF Alike, Fate, IsMerged

\* ... or if it is no fence before the step and none after.
LEMMA HiddenAlike ==
  ASSUME NEW x \in Rows, ~Visible(x), ~Visible(x)'
  PROVE  Alike(x)
  BY DEF Alike, Fate, IsMerged

\* Where the other rows are alike only one fence turns.
LEMMA OneTurns ==
  ASSUME NEW r \in Rows, \A x \in Rows \ {r} : Alike(x)
  PROVE  Fate' = [Fate EXCEPT ![r] = Fate'[r]]
  BY DEF Alike, Fate

-----------------------------------------------------------------------------
(* The steps that are not seen                                             *)

\* References, callbacks, payloads, reservations, close between the objects it
\* visits and the child lists have no part in what is seen.
LEMMA KeptUnseen ==
  ASSUME TypeOK, TypeOK', UNCHANGED <<lock, history>>,
         \A x \in Rows : /\ row'[x].state = row[x].state /\ row'[x].type = row[x].type
                         /\ row'[x].remaining = row[x].remaining
                         /\ row'[x].parents = row[x].parents
  PROVE  UNCHANGED seen
<1>1. \A x \in Rows : Alike(x)
  BY RowAlike DEF SameHistory, history
<1>2. \A x \in Rows : LinksAlike(x)
  BY DEF LinksAlike
<1> QED
  BY <1>1, <1>2, Unseen

\* A row that forgets a group which is no object any more is not seen.
LEMMA ForgetUnseen ==
  ASSUME TypeOK, TypeOK', UNCHANGED <<lock, history>>, NEW c \in Rows, NEW g \in Rows,
         ~Valid(g), OnlyRow(c), row'[c].state = row[c].state, row'[c].type = row[c].type,
         row'[c].remaining = row[c].remaining,
         row'[c].parents \in {row[c].parents, row[c].parents \ {g}}
  PROVE  UNCHANGED seen
<1>1. \A x \in Rows : Alike(x)
  BY RowAlike DEF SameHistory, history, OnlyRow
<1>2. ~IsMerged(g)
  BY DEF IsMerged, Visible
<1>3. \A x \in Rows : LinksAlike(x)
  BY <1>2 DEF LinksAlike, OnlyRow
<1> QED
  BY <1>1, <1>3, Unseen

\* What happens to a row before and after it is a fence is not seen.
LEMMA HiddenUnseen ==
  ASSUME TypeOK, TypeOK', NEW g \in Rows, ~Visible(g), ~Visible(g)',
         \A x \in Rows \ {g} : /\ row'[x].state = row[x].state /\ row'[x].type = row[x].type
                               /\ row'[x].remaining = row[x].remaining
                               /\ lock'[x] = lock[x] /\ SameHistory(x),
         \A x, h \in Rows : h # g => (h \in row'[x].parents <=> h \in row[x].parents)
  PROVE  UNCHANGED seen
<1>1. \A x \in Rows : Alike(x)
  BY RowAlike, HiddenAlike
<1>2. ~IsMerged(g)
  BY DEF IsMerged
<1>3. \A x \in Rows : LinksAlike(x)
  BY <1>2 DEF LinksAlike
<1> QED
  BY <1>1, <1>3, Unseen

\* The steps that change nothing that is seen, one by one.
LEMMA KeptSteps ==
  ASSUME IInv, TypeOK'
  PROVE  /\ Aside => UNCHANGED seen
         /\ \A t \in Threads :
              /\ CloseMove(t) \/ MergeLook(t) \/ MergeAbort(t) => UNCHANGED seen
              /\ \A r \in Rows :
                   /\ CreateReserve(t, r) \/ MergeReserve(t, r) \/ DestroyParent(t, r)
                        => UNCHANGED seen
                   /\ SignalLess(t, r) => UNCHANGED seen
                   /\ \A s \in SignaledStates : UserSignal(t, r, s) => UNCHANGED seen
<1>1. TypeOK /\ ThreadStages /\ CloseStages
  BY DEF IInv, StructInv
<1>2. ASSUME UNCHANGED <<row, lock, history>> PROVE UNCHANGED seen
  BY <1>1, <1>2, KeptUnseen
<1>3. ASSUME NEW r \in Rows, OnlyRow(r), UNCHANGED <<lock, history>>,
             row'[r].state = row[r].state, row'[r].type = row[r].type,
             row'[r].remaining = row[r].remaining, row'[r].parents = row[r].parents
      PROVE  UNCHANGED seen
  <2>1. \A x \in Rows : /\ row'[x].state = row[x].state /\ row'[x].type = row[x].type
                        /\ row'[x].remaining = row[x].remaining
                        /\ row'[x].parents = row[x].parents
    BY <1>3 DEF OnlyRow
  <2> QED
    BY <1>1, <1>3, <2>1, KeptUnseen
<1>4. CASE Aside
  BY <1>1, <1>4, Besides, KeptUnseen DEF Kept
<1>5. ASSUME NEW t \in Threads, CloseMove(t) PROVE UNCHANGED seen
  <2>1. UNCHANGED <<row, lock, history>>
    BY <1>5 DEF CloseMove, CloseBegin, CloseFlush, CloseFlushed, CloseEnd, rowVars
  <2> QED
    BY <1>2, <2>1
<1>12. ASSUME NEW t \in Threads, MergeLook(t) PROVE UNCHANGED seen
  BY <1>1, <1>2, <1>12, Looks DEF rowVars
<1>6. ASSUME NEW t \in Threads, MergeAbort(t) PROVE UNCHANGED seen
  <2>1. UNCHANGED <<lock, history>>
    BY <1>6 DEF MergeAbort
  <2> QED
    BY <1>1, <1>3, <1>6, <2>1, MergeAbortRow DEF Fields
<1>7. ASSUME NEW t \in Threads, NEW r \in Rows, CreateReserve(t, r) PROVE UNCHANGED seen
  BY <1>2, <1>7 DEF CreateReserve
<1>8. ASSUME NEW t \in Threads, NEW r \in Rows, MergeReserve(t, r) PROVE UNCHANGED seen
  BY <1>2, <1>8 DEF MergeReserve
<1>9. ASSUME NEW t \in Threads, NEW r \in Rows, DestroyParent(t, r) PROVE UNCHANGED seen
  <2>1. UNCHANGED <<lock, history>>
    BY <1>9 DEF DestroyParent
  <2> QED
    BY <1>1, <1>3, <1>9, <2>1, DestroyParentRow DEF Fields
<1>10. ASSUME NEW t \in Threads, NEW r \in Rows, SignalLess(t, r) PROVE UNCHANGED seen
  BY <1>3, <1>10 DEF SignalLess, Kept
<1>11. ASSUME NEW t \in Threads, NEW r \in Rows, NEW s \in SignaledStates, UserSignal(t, r, s)
       PROVE  UNCHANGED seen
  <2>1. UNCHANGED <<lock, history>>
    BY <1>11 DEF UserSignal
  <2> QED
    BY <1>1, <1>3, <1>11, <2>1, UserSignalRow DEF Fields
<1> QED
  BY <1>4, <1>5, <1>6, <1>7, <1>8, <1>9, <1>10, <1>11, <1>12

\* Members that let go of a group that is destroyed or was never made.
LEMMA ForgetSteps ==
  ASSUME IInv, TypeOK', NEW t \in Threads, NEW c \in Rows,
         MergeUnlink(t, c) \/ DestroyChild(t, c)
  PROVE  UNCHANGED seen
<1>1. TypeOK /\ ThreadStages /\ OwnedRows
  BY DEF IInv, StructInv
<1>0. pc[t] \in {"unlink", "destroy"} /\ UNCHANGED <<lock, history>>
  BY DEF MergeUnlink, DestroyChild
<1>2. obj[t] \in Rows /\ ~Valid(obj[t]) /\ UNCHANGED <<lock, history>>
  BY <1>0, <1>1 DEF ThreadStages, OwnedRows
<1>3. CASE MergeUnlink(t, c)
  <2>1. /\ OnlyRow(c) /\ row'[c].state = row[c].state /\ row'[c].type = row[c].type
        /\ row'[c].remaining = row[c].remaining
        /\ row'[c].parents \in {row[c].parents, row[c].parents \ {obj[t]}}
    BY <1>1, <1>3, MergeUnlinkRow DEF Fields
  <2> QED
    BY <1>1, <1>2, <2>1, ForgetUnseen
<1>4. CASE DestroyChild(t, c)
  <2>1. /\ OnlyRow(c) /\ row'[c].state = row[c].state /\ row'[c].type = row[c].type
        /\ row'[c].remaining = row[c].remaining
        /\ row'[c].parents \in {row[c].parents, row[c].parents \ {obj[t]}}
    <3> DEFINE P == IF Valid(c) THEN row[c].parents \ {obj[t]} ELSE row[c].parents
    <3>1. /\ OnlyRow(c)
          /\ Fields(row'[c], row[c].state, row[c].type, row[c].remaining, row[c].ref,
                    row[c].signaled, row[c].children, P, row[c].callbacks, row[c].payloads)
      BY <1>1, <1>4, DestroyChildRow
    <3>2. P \in {row[c].parents, row[c].parents \ {obj[t]}}
      OBVIOUS
    <3> HIDE DEF P
    <3> QED
      BY <3>1, <3>2 DEF Fields
  <2> QED
    BY <1>1, <1>2, <2>1, ForgetUnseen
<1> QED
  BY <1>3, <1>4

\* While a merge links its members it has the lock of the group.
LEMMA LinkHidden ==
  ASSUME OwnedRows, NEW t \in Threads, NEW g \in Rows, g = obj[t],
         NEW c \in Rows, MergeFail(t, c) \/ MergeLink(t, c)
  PROVE  lock' = lock /\ ~Visible(g) /\ ~Visible(g)'
<1>1. pc[t] = "link" /\ lock' = lock
  BY DEF MergeFail, MergeLink
<1> SUFFICES ASSUME lock' = lock, lock[g] = t
             PROVE  lock' = lock /\ ~Visible(g) /\ ~Visible(g)'
  BY <1>1 DEF OwnedRows
<1>2. ~Unlocked(g)
  BY ThreadAssumption DEF Unlocked
<1>3. ~Unlocked(g)'
  BY ThreadAssumption DEF Unlocked
<1> QED
  BY <1>2, <1>3, Zenon DEF Visible

\* A row that is made or unmade is invalid or locked, and a merge builds its
\* group where nobody sees it.
LEMMA HiddenSteps ==
  ASSUME IInv, TypeOK', NEW t \in Threads,
         \/ MergeInit(t) \/ DestroyEnd(t)
         \/ \E c \in Rows : MergeFail(t, c) \/ MergeLink(t, c)
  PROVE  UNCHANGED seen
<1>1. TypeOK /\ ThreadStages /\ OwnedRows /\ LeafRows
  BY DEF IInv, StructInv
<1>0. pc[t] \in {"merge", "link", "destroy"}
  <2>1. CASE MergeInit(t)
    BY <2>1, Zenon DEF MergeInit
  <2>2. CASE DestroyEnd(t)
    BY <2>2, Zenon DEF DestroyEnd
  <2>3. ASSUME NEW c \in Rows, MergeFail(t, c) \/ MergeLink(t, c) PROVE pc[t] = "link"
    BY <2>3, Zenon DEF MergeFail, MergeLink
  <2> QED
    BY <2>1, <2>2, <2>3
<1>2. PICK g \in Rows : g = obj[t]
  BY <1>0, <1>1 DEF ThreadStages
<1>3. ASSUME OnlyRow(g), ~Visible(g), ~Visible(g)', row'[g].parents = row[g].parents,
             \A x \in Rows \ {g} : lock'[x] = lock[x] /\ SameHistory(x)
      PROVE  UNCHANGED seen
  <2>1. \A x \in Rows \ {g} : /\ row'[x].state = row[x].state /\ row'[x].type = row[x].type
                              /\ row'[x].remaining = row[x].remaining
    BY <1>3 DEF OnlyRow
  <2>2. \A x, h \in Rows : h \in row'[x].parents <=> h \in row[x].parents
    BY <1>3 DEF OnlyRow
  <2> QED
    BY <1>1, <1>3, <2>1, <2>2, HiddenUnseen
<1>4. pending \in [Rows -> SUBSET Rows] /\ lock \in [Rows -> Threads \cup {NoThread}]
  BY <1>1 DEF TypeOK
<1>5. CASE MergeInit(t)
  <2>0. OnlyRow(g) /\ row'[g].parents = {}
    BY <1>1, <1>2, <1>5, MergeInitRow DEF Fields
  <2>1. /\ lock' = [lock EXCEPT ![g] = t] /\ pc[t] = "merge"
        /\ pending' = [pending EXCEPT ![g] = {}] /\ failed' = failed \ {g}
    BY <1>2, <1>5 DEF MergeInit
  <2>2. ~Valid(g)
    BY <1>1, <1>2, <2>1 DEF OwnedRows
  <2>3. ~Visible(g) /\ ~Visible(g)' /\ row[g].parents = {}
    BY <1>1, <1>4, <2>1, <2>2, ThreadAssumption DEF Visible, Unlocked, LeafRows
  <2>4. \A x \in Rows \ {g} : lock'[x] = lock[x] /\ SameHistory(x)
    BY <1>4, <2>1 DEF SameHistory
  <2> QED
    BY <1>3, <2>0, <2>3, <2>4
<1>6. CASE DestroyEnd(t)
  <2>0. OnlyRow(g) /\ row'[g].parents = {} /\ row'[g].state = "INVALID"
    BY <1>1, <1>2, <1>6, DestroyEndRow DEF Fields
  <2>1. /\ lock' = lock /\ pc[t] = "destroy"
        /\ pending' = [pending EXCEPT ![g] = {}] /\ failed' = failed \ {g}
    BY <1>2, <1>6 DEF DestroyEnd
  <2>2. ~Valid(g) /\ ~Valid(g)'
    BY <1>1, <1>2, <2>0, <2>1 DEF OwnedRows, Valid
  <2>3. ~Visible(g) /\ ~Visible(g)' /\ row[g].parents = {}
    BY <1>1, <2>2 DEF Visible, LeafRows
  <2>4. \A x \in Rows \ {g} : lock'[x] = lock[x] /\ SameHistory(x)
    BY <1>4, <2>1 DEF SameHistory
  <2> QED
    BY <1>3, <2>0, <2>3, <2>4
<1>7. ASSUME NEW c \in Rows, MergeFail(t, c) \/ MergeLink(t, c)
      PROVE  lock' = lock /\ ~Visible(g) /\ ~Visible(g)'
  BY <1>1, <1>2, <1>7, LinkHidden
<1>8. ASSUME NEW c \in Rows, MergeFail(t, c) PROVE UNCHANGED seen
  <2>1. OnlyRow(g) /\ row'[g].parents = row[g].parents
    BY <1>1, <1>2, <1>8, MergeFailRow DEF Fields
  <2>2. \A x \in Rows : SameHistory(x)
    BY <1>8 DEF MergeFail, SameHistory, history
  <2> QED
    BY <1>3, <1>7, <1>8, <2>1, <2>2
<1>9. ASSUME NEW c \in Rows, MergeLink(t, c) PROVE UNCHANGED seen
  <2>1. CASE Links(t, c)
    <3>1. /\ c # g /\ pending' = [pending EXCEPT ![g] = @ \cup {c}] /\ failed' = failed
          /\ \A x \in Rows \ {g, c} : row'[x] = row[x]
          /\ row'[g].parents = row[g].parents /\ row'[c].parents = row[c].parents \cup {g}
          /\ row'[c].state = row[c].state /\ row'[c].type = row[c].type
          /\ row'[c].remaining = row[c].remaining
      BY <1>1, <1>2, <1>9, <2>1, MergeLinkRows DEF Links, Fields
    <3>2. \A x \in Rows \ {g} : SameHistory(x)
      BY <1>4, <3>1 DEF SameHistory
    <3>3. \A x \in Rows \ {g} : /\ row'[x].state = row[x].state /\ row'[x].type = row[x].type
                                /\ row'[x].remaining = row[x].remaining
      <4> SUFFICES ASSUME NEW x \in Rows \ {g}
                   PROVE  /\ row'[x].state = row[x].state /\ row'[x].type = row[x].type
                          /\ row'[x].remaining = row[x].remaining
        OBVIOUS
      <4>1. CASE x = c
        BY <3>1, <4>1
      <4>2. CASE x # c
        BY <3>1, <4>2
      <4> QED
        BY <4>1, <4>2
    <3>4. \A x, h \in Rows : h # g => (h \in row'[x].parents <=> h \in row[x].parents)
      BY <3>1
    <3>5. lock' = lock /\ ~Visible(g) /\ ~Visible(g)'
      BY <1>7, <1>9, Zenon
    <3>6. \A x \in Rows \ {g} : /\ row'[x].state = row[x].state /\ row'[x].type = row[x].type
                                /\ row'[x].remaining = row[x].remaining
                                /\ lock'[x] = lock[x] /\ SameHistory(x)
      BY <3>2, <3>3, <3>5, Zenon
    <3> QED
      BY <1>1, <3>4, <3>5, <3>6, HiddenUnseen
  <2>2. CASE Inherits(t, c)
    <3>1. OnlyRow(g) /\ row'[g].parents = row[g].parents
          /\ \A x \in Rows \ {g} : SameHistory(x)
      BY <1>2, <2>2 DEF Inherits, Fields, SameHistory
    <3> QED
      BY <1>3, <1>7, <1>9, <3>1
  <2> QED
    BY <1>1, <1>9, <2>1, <2>2, MergeLinkRows
<1> QED
  BY <1>5, <1>6, <1>8, <1>9

-----------------------------------------------------------------------------
(* The steps that are seen                                                 *)

\* The other fences when only the row r and its lock change.
LEMMA OthersAlike ==
  ASSUME NEW r \in Rows, OnlyRow(r),
         \A x \in Rows \ {r} : lock'[x] = lock[x] /\ SameHistory(x)
  PROVE  /\ \A x \in Rows \ {r} : Alike(x)
         /\ Fate' = [Fate EXCEPT ![r] = Fate'[r]]
<1>1. \A x \in Rows \ {r} : Alike(x)
  BY RowAlike DEF OnlyRow
<1> QED
  BY <1>1, OneTurns

\* A creation ends with an active fence.
LEMMA CreateInitCreates ==
  ASSUME IInv, TypeOK', NEW t \in Threads, CreateInit(t)
  PROVE  obj[t] \in Rows /\ Fence!Create(obj[t])
<1>1. TypeOK /\ ThreadStages /\ OwnedRows /\ LeafRows
  BY DEF IInv, StructInv
<1>2. PICK r \in Rows : r = obj[t]
  BY <1>1, CreateInitRow
<1>3. /\ OnlyRow(r) /\ row'[r].state = "ACTIVE" /\ row'[r].type = "INDV" /\ row'[r].parents = {}
  BY <1>1, <1>2, CreateInitRow DEF Fields
<1>4. pc[t] = "create" /\ Unlocked(r) /\ UNCHANGED <<lock, history>>
  BY <1>2 DEF CreateInit
<1>5. ~Valid(r)
  BY <1>1, <1>2, <1>4 DEF OwnedRows
<1>6. \A x \in Rows : lock'[x] = lock[x] /\ SameHistory(x)
  BY <1>4 DEF SameHistory, history
<1>7. (\A x \in Rows \ {r} : Alike(x)) /\ Fate' = [Fate EXCEPT ![r] = Fate'[r]]
  BY <1>3, <1>6, OthersAlike
<1>8. ~IsMerged(r) /\ ~IsMerged(r)'
  BY <1>3, <1>5 DEF IsMerged, Visible
<1>9. Fate[r] = "none"
  BY <1>5 DEF Fate, Visible
<1>10. Fate'[r] = "active"
  BY <1>3, <1>4 DEF Fate, Visible, Valid, Unlocked, Final, Signaled, SignaledStates
<1>11. \A x \in Rows : (IsMerged(x)' <=> IsMerged(x)) /\ (IsMerged(x) => SameHistory(x))
  BY <1>6, <1>7, <1>8 DEF Alike
<1>12. row[r].parents = {}
  BY <1>1, <1>5 DEF LeafRows
<1>13. \A x \in Rows : row'[x].parents = row[x].parents
  BY <1>3, <1>12 DEF OnlyRow
<1>14. Merged' = Merged
  BY <1>11 DEF Merged
<1>15. Awaits' = Awaits
  BY <1>11 DEF Awaits, SameHistory
<1>16. Groups' = Groups
  <2>1. \A x \in Rows : row[x].parents \subseteq Rows
    BY <1>1, RowFields DEF TypeOK
  <2> QED
    BY <1>11, <1>13, <2>1 DEF Groups
<1>17. Bad' = Bad
  BY <1>1, <1>4, <1>11 DEF Bad, TypeOK, history
<1> QED
  BY <1>2, <1>7, <1>9, <1>10, <1>14, <1>15, <1>16, <1>17 DEF Fence!Create, Fence!Turns

\* The last reference given back signals the fence, and every merged fence the
\* object is a member of knows: those that are built now too.
LEMMA SignalLastSignals ==
  ASSUME IInv, TypeOK', NEW t \in Threads, NEW r \in Rows, NEW s \in SignaledStates,
         SignalLast(t, r, s)
  PROVE  Fence!Signal(r)
<1>1. TypeOK /\ CountRow(r)
  BY CountRows DEF IInv, StructInv, CountInv
<1>2. /\ OnlyRow(r) /\ row'[r].state = s /\ row'[r].type = "INDV" /\ row'[r].parents = {}
      /\ row'[r].remaining = row[r].remaining
      /\ row[r].type = "INDV" /\ row[r].state = "ACTIVE" /\ Unlocked(r)
      /\ lock' = lock /\ MemberSignaled(r, s)
  BY DEF SignalLast, Fields
<1>3. Valid(r) /\ Visible(r) /\ Visible(r)' /\ row[r].remaining = 0
  BY <1>1, <1>2 DEF Visible, Valid, Unlocked, CountRow, Down, SignaledStates
<1>4. Fate[r] = "active" /\ Fate'[r] = s /\ ~IsMerged(r) /\ ~IsMerged(r)'
  BY <1>2, <1>3 DEF Fate, Final, Signaled, SignaledStates, IsMerged
<1>5. ASSUME NEW x \in Rows \ {r}
      PROVE  Fate'[x] = Fate[x] /\ (IsMerged(x)' <=> IsMerged(x))
  <2>1. row'[x] = row[x]
    BY <1>2 DEF OnlyRow
  <2> QED
    BY <1>2, <2>1 DEF Fate, IsMerged, Visible, Valid, Unlocked, Final, Signaled
<1>6. \A x \in Rows : IsMerged(x)' <=> IsMerged(x)
  BY <1>4, <1>5
<1>7. Fate' = [Fate EXCEPT ![r] = Fate'[r]]
  BY <1>5 DEF Fate
<1>8. Merged' = Merged /\ r \notin Merged
  BY <1>4, <1>6 DEF Merged
<1>9. row[r].parents \subseteq Rows /\ \A x \in Rows : row[x].parents \subseteq Rows
  BY <1>1, RowFields DEF TypeOK
<1>10. \A g \in Rows : g \in Groups[r] <=> (g \in row[r].parents /\ IsMerged(g))
  BY <1>9 DEF Groups
<1>11. pending' = [g \in Rows |-> IF g \in row[r].parents THEN pending[g] \ {r} ELSE pending[g]]
       /\ failed' = IF s = "SUCCESS" THEN failed ELSE failed \cup row[r].parents
  BY <1>2 DEF MemberSignaled
<1>12. Awaits' = [g \in Rows |-> IF g \in Groups[r] THEN Awaits[g] \ {r} ELSE Awaits[g]]
  BY <1>6, <1>10, <1>11 DEF Awaits
<1>13. Groups' = [Groups EXCEPT ![r] = {}]
  BY <1>2, <1>6, <1>9 DEF Groups, OnlyRow
<1>14. Bad' = IF s = "SUCCESS" THEN Bad ELSE Bad \cup Groups[r]
  <2>1. failed \subseteq Rows /\ Groups[r] \subseteq Rows
    BY <1>1, <1>9 DEF TypeOK, Groups
  <2> QED
    BY <1>6, <1>9, <1>10, <1>11, <2>1 DEF Bad
<1> QED
  BY <1>4, <1>7, <1>8, <1>12, <1>13, <1>14 DEF Fence!Signal, Fence!Turns

\* An object that reports to a group is a fence, active and not merged.
LEMMA ReporterActive ==
  ASSUME IInv, LinkedActive, NEW r \in Rows, row[r].parents # {}
  PROVE  Visible(r) /\ ~IsMerged(r) /\ Fate[r] = "active"
<1>1. LeafRows /\ ValidRows /\ OwnedRows /\ lock \in [Rows -> Threads \cup {NoThread}]
  BY DEF IInv, StructInv, TypeOK
<1>2. row[r].state = "ACTIVE" /\ Valid(r) /\ row[r].type # "GROUP"
  BY <1>1 DEF LinkedActive, LeafRows
<1>3. Unlocked(r)
  <2> SUFFICES ASSUME ~Unlocked(r) PROVE FALSE
    OBVIOUS
  <2>1. lock[r] \in Threads /\ pc[lock[r]] = "link" /\ obj[lock[r]] = r
    BY <1>1, <1>2 DEF ValidRows, Unlocked
  <2> QED
    BY <1>1, <1>2, <2>1 DEF OwnedRows
<1> QED
  BY <1>2, <1>3 DEF Visible, IsMerged, Fate, Final, Signaled, SignaledStates

\* A group that is complete awaits nobody and has the status of its members.
Outcomes ==
  \A g \in Rows : IsMerged(g) /\ Final(g) =>
    pending[g] = {} /\ (row[g].state = "SUCCESS" <=> g \notin failed)

\* The counts make it so: nothing to come means nobody awaited and nobody on
\* the way with a status.
LEMMA OutcomesRight == IInv => Outcomes
<1> SUFFICES ASSUME IInv, NEW g \in Rows, IsMerged(g), Final(g)
             PROVE  pending[g] = {} /\ (row[g].state = "SUCCESS" <=> g \notin failed)
  BY DEF Outcomes
<1>1. TypeOK /\ CountRow(g) /\ Valid(g) /\ row[g].type = "GROUP" /\ row[g].remaining = 0
  BY CountRows DEF IInv, StructInv, CountInv, IsMerged, Visible, Final
<1>2. Counted(g) /\ Traced(g)
  BY <1>1 DEF CountRow
<1>3. Cardinality(pending[g]) = 0 /\ Cardinality(Notifiers(g)) = 0
  BY <1>1, <1>2, FiniteParts DEF Counted
<1>4. pending[g] = {} /\ Notifiers(g) = {}
  BY <1>1, <1>3, FiniteParts, FS_EmptySet
<1>5. row[g].state \in {"SUCCESS", "ERROR", "CANCEL"}
  BY DEF Final, Signaled, SignaledStates
<1>6. g \in failed <=> row[g].state \in Errors
  BY <1>2, <1>4 DEF Traced
<1> QED
  BY <1>4, <1>5, <1>6 DEF Errors

\* A merge ends with a fence that awaits its members, or has its outcome when
\* none is to come.
LEMMA MergeEndMerges ==
  ASSUME IInv, LinkedActive, TypeOK', Outcomes', NEW t \in Threads, MergeEnd(t)
  PROVE  obj[t] \in Rows /\ Fence!Merge(obj[t])
<1>1. TypeOK /\ ThreadStages /\ OwnedRows /\ Owners /\ ParentLinks
  BY DEF IInv, StructInv
<1>2. PICK g \in Rows : g = obj[t]
  BY <1>1 DEF MergeEnd, ThreadStages
<1>3. pc[t] = "link" /\ lock' = [lock EXCEPT ![g] = NoThread] /\ UNCHANGED history
  BY <1>2 DEF MergeEnd
<1>4. Valid(g) /\ row[g].type = "GROUP" /\ lock[g] = t /\ t # NoThread /\ row[g] \in RowType
  BY <1>1, <1>2, <1>3, ThreadAssumption DEF OwnedRows, TypeOK
<1> DEFINE none == ~(row[g].remaining > 0)
           s == IF none THEN ParentState(row[g].state, "SUCCESS") ELSE row[g].state
<1>5. /\ OnlyRow(g) /\ row'[g].state = s /\ row'[g].type = "GROUP"
      /\ row'[g].remaining = row[g].remaining /\ row'[g].parents = row[g].parents
      /\ none => row'[g].signaled = TRUE
  BY <1>1, <1>2, <1>4, MergedRow DEF Fields
<1>6. s # "INVALID" /\ s \in SignaledStates \cup {"ACTIVE"} /\ (none => s \in SignaledStates)
  BY <1>4, RowFields DEF Valid, ParentState, SignaledStates
<1>7. ~Visible(g) /\ Visible(g)' /\ IsMerged(g)' /\ ~IsMerged(g)
  <2>1. lock'[g] = NoThread
    BY <1>1, <1>3 DEF TypeOK
  <2>2. row'[g].state # "INVALID"
    BY <1>5, <1>6
  <2> QED
    BY <1>4, <1>5, <2>1, <2>2 DEF Visible, Valid, Unlocked, IsMerged
<1> HIDE DEF s
<1>8. \A x \in Rows \ {g} : lock'[x] = lock[x] /\ SameHistory(x)
  BY <1>1, <1>3 DEF TypeOK, SameHistory, history
<1>9. (\A x \in Rows \ {g} : Alike(x)) /\ Fate' = [Fate EXCEPT ![g] = Fate'[g]]
  BY <1>5, <1>8, OthersAlike
<1>10. Fate[g] = "none" /\ Fate'[g] \in SignaledStates \cup {"active"}
  BY <1>5, <1>6, <1>7 DEF Fate, Final, Signaled
<1>11. Merged' = Merged \cup {g}
  BY <1>7, <1>9 DEF Merged, Alike
<1>12. Bad' = Bad \/ Bad' = Bad \cup {g}
  <2>1. failed' = failed /\ failed \subseteq Rows
    BY <1>1, <1>3 DEF history, TypeOK
  <2>2. \A x \in Rows \ {g} : IsMerged(x)' <=> IsMerged(x)
    BY <1>9 DEF Alike
  <2>3. CASE g \in failed
    BY <1>7, <2>1, <2>2, <2>3 DEF Bad
  <2>4. CASE g \notin failed
    BY <1>7, <2>1, <2>2, <2>4 DEF Bad
  <2> QED
    BY <2>3, <2>4
<1>13. Awaits' = [Awaits EXCEPT ![g] = Awaits'[g]] /\ Awaits'[g] = pending[g]
  <2>1. pending' = pending
    BY <1>3 DEF history
  <2> QED
    BY <1>7, <1>9, <2>1 DEF Awaits, Alike
<1>14. Fate'[g] # "active" => Awaits'[g] = {} /\ (Fate'[g] = "SUCCESS" <=> g \notin Bad')
  <2> SUFFICES ASSUME Fate'[g] # "active"
               PROVE  Awaits'[g] = {} /\ (Fate'[g] = "SUCCESS" <=> g \notin Bad')
    OBVIOUS
  <2>1. Final(g)' /\ Fate'[g] = row'[g].state
    BY <1>7 DEF Fate
  <2>2. pending'[g] = {} /\ (row'[g].state = "SUCCESS" <=> g \notin failed')
    BY <1>7, <2>1 DEF Outcomes
  <2>3. g \in Bad' <=> g \in failed'
    BY <1>7 DEF Bad
  <2>4. pending' = pending
    BY <1>3 DEF history
  <2> QED
    BY <1>13, <2>1, <2>2, <2>3, <2>4
<1>15. \E reporters \in SUBSET {r \in Awaits'[g] : Fate[r] = "active" /\ r \notin Merged} :
         Groups' = [r \in Rows |-> IF r \in reporters THEN Groups[r] \cup {g} ELSE Groups[r]]
  <2> DEFINE R == {r \in Rows : g \in row[r].parents}
  <2>1. ASSUME NEW r \in Rows, g \in row[r].parents
        PROVE  r \in pending[g] /\ Fate[r] = "active" /\ r \notin Merged
    <3>1. Fate[r] = "active" /\ r \notin Merged
      BY <2>1, ReporterActive DEF Merged
    <3>2. Owns(t, g)
      BY <1>2, <1>3 DEF Owns
    <3>3. \A u \in Threads : ~Leaves(u, r, g)
      BY <1>1, <1>3, <3>2, LeavesOwns DEF Owners, Leaves
    <3>4. r \in pending[g]
      BY <1>1, <2>1, <3>3, LinkOf DEF Link, Linked
    <3> QED
      BY <3>1, <3>4
  <2>2. R \in SUBSET {r \in Awaits'[g] : Fate[r] = "active" /\ r \notin Merged}
    BY <1>13, <2>1
  <2>3. ASSUME NEW x \in Rows
        PROVE  {h \in row'[x].parents : IsMerged(h)'}
                 = IF x \in R THEN {h \in row[x].parents : IsMerged(h)} \cup {g}
                   ELSE {h \in row[x].parents : IsMerged(h)}
    <3>1. row'[x].parents = row[x].parents
      BY <1>5 DEF OnlyRow
    <3>3. row[x].parents \subseteq Rows
      BY <1>1, RowFields DEF TypeOK
    <3>2. \A h \in Rows \ {g} : IsMerged(h)' <=> IsMerged(h)
      BY <1>9 DEF Alike
    <3> QED
      BY <1>7, <3>1, <3>2, <3>3
  <2>4. Groups' = [r \in Rows |-> IF r \in R THEN Groups[r] \cup {g} ELSE Groups[r]]
    BY <2>3 DEF Groups
  <2> QED
    BY <2>2, <2>4
<1> QED
  BY <1>2, <1>9, <1>10, <1>11, <1>12, <1>13, <1>14, <1>15 DEF Fence!Merge, Fence!Turns

\* A signaller that reaches a group completes it, if it is the last, or is not
\* seen.
LEMMA NotifyParentCompletes ==
  ASSUME IInv, TypeOK', Outcomes', NEW t \in Threads, NEW g \in Rows, NotifyParent(t, g)
  PROVE  Fence!Complete(g) \/ UNCHANGED seen
<1>1. TypeOK /\ ThreadStages /\ CountRow(g)
  BY CountRows DEF IInv, StructInv, CountInv
<1>2. /\ status[t] \in SignaledStates /\ t \in Notifiers(g) /\ Unlocked(g)
      /\ UNCHANGED <<lock, history>>
  BY <1>1 DEF NotifyParent, ThreadStages, Notifiers
<1>3. /\ OnlyRow(g) /\ row'[g].state = ParentState(row[g].state, status[t])
      /\ row'[g].type = row[g].type /\ row'[g].remaining = row[g].remaining - 1
      /\ row'[g].parents = row[g].parents
  BY <1>1, <1>2, NotifiedRow DEF Fields
<1>4. \A x \in Rows : lock'[x] = lock[x] /\ SameHistory(x)
  BY <1>2 DEF SameHistory, history
<1>5. (\A x \in Rows \ {g} : Alike(x)) /\ Fate' = [Fate EXCEPT ![g] = Fate'[g]]
  BY <1>3, <1>4, OthersAlike
<1>6. \A x \in Rows : row'[x].parents = row[x].parents
  BY <1>3 DEF OnlyRow
<1>7. \A x \in Rows : LinksAlike(x)
  BY <1>6 DEF LinksAlike
<1>8. CASE ~Valid(g)
  <2>1. ~Visible(g) /\ ~Visible(g)'
    BY <1>3, <1>8 DEF Visible, Valid, ParentState
  <2> QED
    BY <1>1, <1>5, <1>7, <2>1, HiddenAlike, Unseen
<1>9. CASE Valid(g)
  <2>1. row[g].type = "GROUP" /\ row[g].remaining \in Nat /\ row[g].remaining # 0
    BY <1>1, <1>2, <1>9, Awaited
  <2>2. row[g].state \in SignaledStates \cup {"ACTIVE"}
    BY <1>1, <1>9, RowFields DEF TypeOK, Valid
  <2>3. row'[g].state \in SignaledStates
    BY <1>2, <1>3, <2>2 DEF ParentState, SignaledStates
  <2>4. /\ Visible(g) /\ Visible(g)' /\ IsMerged(g) /\ IsMerged(g)'
        /\ Signaled(g)' /\ Fate[g] = "active"
    BY <1>2, <1>3, <1>9, <2>1, <2>3
       DEF Visible, Valid, Unlocked, IsMerged, Signaled, Fate, Final, SignaledStates
  <2>5. \A x \in Rows : (IsMerged(x)' <=> IsMerged(x)) /\ (IsMerged(x) => SameHistory(x))
    BY <1>4, <1>5, <2>4 DEF Alike
  <2>6. CASE ~Final(g)'
    <3>1. Alike(g)
      BY <2>4, <2>5, <2>6 DEF Alike, Fate
    <3> QED
      BY <1>1, <1>5, <1>7, <3>1, Unseen
  <2>7. CASE Final(g)'
    <3>1. /\ pending[g] = {} /\ (row'[g].state = "SUCCESS" <=> g \notin failed)
      BY <1>2, <2>4, <2>7 DEF Outcomes, history
    <3>2. Fate'[g] = row'[g].state
      BY <2>4, <2>7 DEF Fate
    <3>3. g \in Merged /\ Awaits[g] = {} /\ (g \in Bad <=> g \in failed)
      BY <2>4, <3>1 DEF Merged, Awaits, Bad
    <3>4. Merged' = Merged
      BY <2>5 DEF Merged
    <3>5. Awaits' = Awaits
      BY <2>5 DEF Awaits, SameHistory
    <3>6. Bad' = Bad
      BY <1>1, <1>2, <2>5 DEF Bad, TypeOK, history
    <3>7. Groups' = Groups
      <4>1. \A x \in Rows : row[x].parents \subseteq Rows
        BY <1>1, RowFields DEF TypeOK
      <4> QED
        BY <1>6, <2>5, <4>1 DEF Groups
    <3> QED
      BY <1>5, <2>3, <2>4, <3>1, <3>2, <3>3, <3>4, <3>5, <3>6, <3>7
         DEF Fence!Complete, Fence!Turns
  <2> QED
    BY <2>6, <2>7
<1> QED
  BY <1>8, <1>9

\* A destruction is over for everybody else when the row is invalid.
LEMMA DestroyCallDestroys ==
  ASSUME IInv, TypeOK', NEW t \in Threads, NEW r \in Rows, DestroyCall(t, r)
  PROVE  Fence!Destroy(r)
<1>1. TypeOK /\ ThreadStages
  BY DEF IInv, StructInv
<1>2. Unlocked(r) /\ Valid(r) /\ UNCHANGED <<lock, history>>
  BY DEF DestroyCall, DestroyBody
<1>3. OnlyRow(r) /\ row'[r].state = "INVALID" /\ row'[r].parents = {}
  BY <1>1, DestroyCallRow DEF Fields
<1>4. \A x \in Rows : lock'[x] = lock[x] /\ SameHistory(x)
  BY <1>2 DEF SameHistory, history
<1>5. (\A x \in Rows \ {r} : Alike(x)) /\ Fate' = [Fate EXCEPT ![r] = Fate'[r]]
  BY <1>3, <1>4, OthersAlike
<1>6. Visible(r) /\ ~Visible(r)' /\ ~IsMerged(r)'
  BY <1>2, <1>3 DEF Visible, Valid, IsMerged
<1>7. Fate[r] # "none" /\ Fate'[r] = "none"
  BY <1>6 DEF Fate, Final, Signaled, SignaledStates
<1>8. \A x \in Rows \ {r} : IsMerged(x)' <=> IsMerged(x)
  BY <1>5 DEF Alike
<1>9. Merged' = Merged \ {r}
  BY <1>6, <1>8 DEF Merged
<1>10. Bad' = Bad \ {r}
  <2>1. failed' = failed /\ failed \subseteq Rows
    BY <1>1, <1>2 DEF history, TypeOK
  <2> QED
    BY <1>6, <1>8, <2>1 DEF Bad
<1>11. Awaits' = [Awaits EXCEPT ![r] = {}]
  BY <1>4, <1>6, <1>8 DEF Awaits, SameHistory
<1>12. Groups' = [x \in Rows |-> IF x = r THEN {} ELSE Groups[x] \ {r}]
  <2>1. ASSUME NEW x \in Rows \ {r}
        PROVE  {h \in row'[x].parents : IsMerged(h)'}
                 = {h \in row[x].parents : IsMerged(h)} \ {r}
    <3>1. row'[x].parents = row[x].parents
      BY <1>3, <2>1 DEF OnlyRow
    <3>2. row[x].parents \subseteq Rows
      BY <1>1, RowFields DEF TypeOK
    <3> QED
      BY <1>6, <1>8, <3>1, <3>2
  <2> QED
    BY <1>3, <2>1 DEF Groups
<1> QED
  BY <1>5, <1>7, <1>9, <1>10, <1>11, <1>12 DEF Fence!Destroy, Fence!Turns

-----------------------------------------------------------------------------
(* The refinement                                                          *)

\* Every step of cam_sync is a step of the fences, or is not seen.
LEMMA NextRefines ==
  ASSUME IInv, LinkedActive, TypeOK', Outcomes', [Next]_vars
  PROVE  FenceStep
<1>1. UNCHANGED seen => FenceStep
  BY DEF FenceStep
<1>2. \A r \in Rows : (\/ Fence!Create(r) \/ Fence!Signal(r) \/ Fence!Merge(r)
                       \/ Fence!Complete(r) \/ Fence!Destroy(r)) => FenceStep
  BY DEF FenceStep, Fence!Next
<1>3. CASE UNCHANGED vars
  <2>1. UNCHANGED <<row, lock, history>>
    BY <1>3 DEF vars, history
  <2>2. UNCHANGED seen
    BY <2>1, KeptUnseen DEF IInv, StructInv
  <2> QED
    BY <1>1, <2>2
<1>4. CASE Next
  <2>0. TypeOK /\ ThreadStages /\ CloseStages
    BY DEF IInv, StructInv
  <2>1. CASE Aside
    BY <1>1, <2>1, KeptSteps
  <2>2. ASSUME NEW t \in Threads,
               \/ CloseMove(t) \/ MergeLook(t) \/ CreateInit(t) \/ MergeInit(t) \/ MergeAbort(t)
               \/ MergeEnd(t) \/ DestroyEnd(t)
        PROVE  FenceStep
    BY <1>1, <1>2, <2>2, KeptSteps, CreateInitCreates, HiddenSteps, MergeEndMerges
  <2>3. ASSUME NEW t \in Threads, NEW r \in Rows,
               \/ CreateReserve(t, r) \/ MergeReserve(t, r) \/ NotifyParent(t, r)
               \/ MergeLink(t, r) \/ MergeFail(t, r) \/ MergeUnlink(t, r)
               \/ DestroyChild(t, r) \/ DestroyParent(t, r) \/ DestroyCall(t, r)
        PROVE  FenceStep
    BY <1>1, <1>2, <2>3, KeptSteps, HiddenSteps, ForgetSteps, NotifyParentCompletes,
       DestroyCallDestroys
  <2>4. ASSUME NEW t \in Threads, NEW r \in Rows, NEW s \in SignaledStates,
               SignalCall(t, r, s) \/ UserSignal(t, r, s)
        PROVE  FenceStep
    BY <1>1, <1>2, <2>0, <2>4, KeptSteps, SignalSteps, SignalLastSignals
  <2> QED
    BY <1>4, <2>0, <2>1, <2>2, <2>3, <2>4, StepCases
<1> QED
  BY <1>3, <1>4

\* As long as no row is reused while a call holds its number, what is linked to
\* a group is active: an object is taken off its groups in the section of
\* cam_sync_signal that decides about it.
THEOREM LinkedStaysActive ==
  ASSUME Reuse = FALSE PROVE Spec => []LinkedActive
<1>1. Init => LinkedActive
  BY ZeroRowFields DEF Init, LinkedActive, Fields
<1>2. IInv /\ LinkedActive /\ [Next]_vars => LinkedActive'
  BY NextLinkedActive
<1> QED
  BY <1>1, <1>2, Invariance, PTL DEF Spec

\* As long as no row is reused while a call holds its number, cam_sync keeps
\* what fences promise: an outcome is given once, a merged fence gets its own
\* when the last member has reported and with the right status, every signal
\* reaches every group of the object, whatever merges, signals, destructions
\* and closes do meanwhile.
THEOREM Refinement ==
  ASSUME Reuse = FALSE PROVE Spec => ImplementsFences
<1>1. Init => Fence!Init
  <2> SUFFICES ASSUME Init PROVE Fence!Init
    OBVIOUS
  <2>1. \A r \in Rows : row[r].state = "INVALID" /\ row[r].parents = {}
    BY ZeroRowFields DEF Init, Fields
  <2>2. \A r \in Rows : ~Visible(r) /\ ~IsMerged(r)
    BY <2>1 DEF Visible, Valid, IsMerged
  <2>3. failed = {}
    BY DEF Init
  <2> QED
    BY <2>1, <2>2, <2>3 DEF Fence!Init, Fate, Merged, Awaits, Groups, Bad
<1>2. IInv => TypeOK /\ Outcomes
  BY OutcomesRight DEF IInv, StructInv
<1>3. IInv /\ LinkedActive /\ TypeOK' /\ Outcomes' /\ [Next]_vars
        => [Fence!Next]_<<Fate, Merged, Awaits, Groups, Bad>>
  BY NextRefines DEF FenceStep, seen
<1> QED
  BY <1>1, <1>2, <1>3, Invariance, LinkedStaysActive, PTL
     DEF Spec, ImplementsFences, Fence!Spec, Fence!fenceVars

\* The outcome of an object stands until the object is destroyed: no late
\* signaller, merge or close changes what its waiters were told, as long as no
\* row is reused while a call holds its number.
THEOREM OutcomeStands ==
  ASSUME Reuse = FALSE PROVE Spec => OutcomeFinal
<1> DEFINE Stands == \A r \in Rows : Fate[r] \in SignaledStates => Fate'[r] \in {Fate[r], "none"}
<1>1. FenceStep => Stands
  <2> SUFFICES ASSUME FenceStep, NEW r \in Rows, Fate[r] \in SignaledStates
               PROVE  Fate'[r] \in {Fate[r], "none"}
    OBVIOUS
  <2>1. Fate[r] # "none" /\ Fate[r] # "active"
    BY DEF SignaledStates
  <2>2. ASSUME NEW x \in Rows, Fate' = [Fate EXCEPT ![x] = Fate'[x]], x # r
        PROVE  Fate'[r] = Fate[r]
    <3>1. DOMAIN Fate = Rows
      BY DEF Fate
    <3> QED
      BY <2>2, <3>1
  <2>3. CASE UNCHANGED seen
    BY <2>3 DEF seen
  <2>4. ASSUME NEW x \in Rows,
               \/ Fence!Create(x) \/ Fence!Signal(x) \/ Fence!Merge(x) \/ Fence!Complete(x)
               \/ Fence!Destroy(x)
        PROVE  Fate'[r] \in {Fate[r], "none"}
    <3>1. Fate' = [Fate EXCEPT ![x] = Fate'[x]]
      BY <2>4 DEF Fence!Create, Fence!Signal, Fence!Merge, Fence!Complete, Fence!Destroy,
         Fence!Turns
    <3>2. CASE x # r
      BY <2>2, <3>1, <3>2
    <3>3. CASE x = r
      <4>1. ~Fence!Create(r)
        BY <2>1 DEF Fence!Create
      <4>2. ~Fence!Signal(r)
        BY <2>1 DEF Fence!Signal
      <4>3. ~Fence!Merge(r)
        BY <2>1 DEF Fence!Merge
      <4>4. ~Fence!Complete(r)
        BY <2>1 DEF Fence!Complete
      <4>5. Fence!Destroy(r) => Fate'[r] \in {"none"}
        BY DEF Fence!Destroy, Fence!Turns
      <4> QED
        BY <2>4, <3>3, <4>1, <4>2, <4>3, <4>4, <4>5
    <3> QED
      BY <3>2, <3>3
  <2> QED
    BY <2>3, <2>4 DEF FenceStep, Fence!Next
<1>2. IInv => TypeOK /\ Outcomes
  BY OutcomesRight DEF IInv, StructInv
<1>3. IInv /\ LinkedActive /\ TypeOK' /\ Outcomes' /\ [Next]_vars => Stands
  BY <1>1, NextRefines
<1> HIDE DEF Stands
<1>4. Spec => [][Stands]_vars
  BY <1>2, <1>3, Invariance, LinkedStaysActive, PTL DEF Spec
<1> QED
  BY <1>4 DEF OutcomeFinal, Stands
=============================================================================
