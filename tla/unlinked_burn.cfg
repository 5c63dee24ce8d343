SPECIFICATION Spec
CONSTANTS
  NumWithdrawals = 1
  User = {u1}
  Wallet = {w1}
  Req = {r1}
  u1 = u1  w1 = w1  r1 = r1  r2 = r2
  None = None
  Other = Other
  Owner <- SameOwner
  Amount <- OwnAmount
  MaxNonce = 1
  ListenerEnabled = TRUE
  Faulty = FALSE
CHECK_DEADLOCK FALSE
INVARIANT BurnIsLinked
