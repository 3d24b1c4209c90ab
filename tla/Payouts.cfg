CONSTANTS
  c1 = c1
  c2 = c2
  t1 = t1
  t2 = t2
  Creators = {c1, c2}
  Transactions = {t1, t2}
  Payee <- MCPayee
  Earning <- MCEarning
  PayoutIds = {p1, p2, p3}
  Amounts = {1, 2}
  MinimumPayout = 2
  Requests = {r1, r2}
  Absent = Absent
  Idle = Idle
SPECIFICATION Spec
SYMMETRY Symmetry
INVARIANTS TypeOK PaidOnlyIfApproved ProcessedIsSettled PendingWithinOverlap
CHECK_DEADLOCK FALSE
