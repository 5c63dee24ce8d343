SPECIFICATION Spec
CONSTANTS
  User = {u1}
  Wallet = {w1, w2}
  Code = {c1, c2}
  Doc = {q1}
  Req = {r1, r2}
  MaxCalls = 4
  None = None
SYMMETRY Symmetries
CHECK_DEADLOCK FALSE
INVARIANTS TypeOK AccountMatchesCode SpentTokenGone VerifiedIsEarned VerifiedLasts
  BlockedIsExplained ClosedByRemoval ServedWasCleared PauseFlagExact
PROPERTY DecisionStands
