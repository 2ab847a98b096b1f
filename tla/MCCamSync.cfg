CONSTANTS
  t1 = t1
  Threads = {t1, t2}
  Rows = {r1, r2, r3}
  Callbacks = {k1}
  Payloads = {p1}
  NoThread = NoThread
  NoRow = NoRow
  Statuses = {"SUCCESS", "ERROR"}
  MaxRef = 1
  MaxLate = 0
  Calls <- Roles
  Reuse = FALSE
SPECIFICATION Spec
SYMMETRY AnyRow
CHECK_DEADLOCK FALSE
INVARIANT TypeOK
INVARIANT GroupWaitsForAll
INVARIANT RemainingCounted
INVARIANT GroupStatus
INVARIANT NothingLeftBehind
INVARIANT CallbackStatus
INVARIANT NoDanglingParent
