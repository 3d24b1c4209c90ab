CONSTANTS
  c1 = c1
  c2 = c2
  t1 = t1
  t2 = t2
  Creators = {c1}
  Transactions = {t1, t2}
  Payee <- MCPayee1
  Earning <- MCEarning1
  PayoutIds = {p1, p2}
  Amounts = {2}
  MinimumPayout = 2
  Requests = {r1}
  Absent = Absent
  Idle = Idle
SPECIFICATION Spec
INVARIANT NoOverpayment
CHECK_DEADLOCK FALSE
