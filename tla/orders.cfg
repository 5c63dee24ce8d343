SPECIFICATION Spec
CONSTANTS
  Req = {r1, r2}
  Poll = {p1, p2}
  NumAccounts = 2
  k1 = k1
  k2 = k2
  Key = {k1, k2}
  CountryOf <- Countries
  Amount = {54, 100, 538}
  Rate = {186}
  CacheSeconds = 2
  RateLock = 3
  MinAmount = 100
  MinFee = 1
  PerMille = 5
  MaxTime = 2
  None = None
INVARIANTS TypeOK QuoteIsFresh FeeInBand WithdrawalHasAccount TwinsWereRaced
PROPERTIES RateGoesForward RateCatchesUp
