SPECIFICATION Spec
CONSTANTS
  NumWithdrawals = 1
  User = {u1}
  Wallet = {w1}
  Req = {r1, r2}
  u1 = u1  w1 = w1  r1 = r1  r2 = r2
  None = None
  Other = Other
  Owner <- SameOwner
  Amount <- OwnAmount
  MaxNonce = 1
  ListenerEnabled = TRUE
  Faulty = TRUE
SYMMETRY Requests
CHECK_DEADLOCK FALSE
INVARIANTS TypeOK RedemptionBacked DecisionProposed ToldIsDone
