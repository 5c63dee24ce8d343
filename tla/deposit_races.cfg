SPECIFICATION Spec
CONSTANTS
  NumDeposits = 1
  User = {u1}
  Wallet = {w1}
  Req = {r1, r2}
  u1 = u1  w1 = w1  w2 = w2  r1 = r1  r2 = r2
  None = None
  Other = Other
  Owner <- SameOwner
  Amount <- EqualAmount
  Pen <- FirstIsPen
  MaxNonce = 2
  BatchSize = 1
  ListenerEnabled = TRUE
  Faulty = TRUE
SYMMETRY Requests
CHECK_DEADLOCK FALSE
INVARIANTS TypeOK ProofBacksStatus EveryMintBacked ProcessedIsMinted OnlyLateDepositsLapse
