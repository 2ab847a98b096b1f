CONSTANTS
  t1 = t1
  Threads = {t1, t2}
  Rows = {r1, r2, r3}
  Callbacks = {k1}
  Payloads = {p1}
  NoThread = NoThread
  NoRow = NoRow
  Statuses = {"SUCCESS", "ERROR"}
  MaxRef = 2
  MaxLate = 1
  Calls <- Roles
  Reuse = TRUE
SPECIFICATION Spec
SYMMETRY AnyRow
CHECK_DEADLOCK FALSE
INVARIANT MembersCovered
