---------------------------- MODULE OrdersProofs ----------------------------
(***************************************************************************)
(* Proofs about Orders, for any number of requests, polls and accounts,    *)
(* any length of time, any amounts and rates, and any time a quote is kept.*)
(***************************************************************************)
EXTENDS Orders, TLAPS

(* A withdrawal in flight has read an account.                             *)
TypeInv ==
  /\ TypeOK
  /\ \A r \in Req : req[r].pc = "withdrawal" => req[r].account \in Account

(* The fees are numbers, whatever the amount and the rate.                 *)
LEMMA DepositTermsType ==
  ASSUME NEW c \in Currency, NEW amount \in Amount, NEW rate \in RatesOf(c)
  PROVE  DepositTerms(c, amount, rate) \in Terms
<1>1. /\ amount \in Nat \ {0} /\ rate \in Nat \ {0}
      /\ FixedFee(c, rate)[1] \in Nat /\ FixedFee(c, rate)[2] \in Nat \ {0}
  BY OrdersAssumption DEF RatesOf, FixedFee
<1>2. ASSUME NEW a \in Nat, NEW b \in Nat \ {0} PROVE Rounded(a, b) \in Nat
  BY DEF Rounded
<1> DEFINE a == 1000000 * FixedFee(c, rate)[1]
           b == FixedFee(c, rate)[2] * amount
<1>3. a \in Nat /\ b \in Nat \ {0}
  BY <1>1, SMT
<1>4. Rounded(a, b) \in Nat
  <2> HIDE DEF a, b
  <2> QED
    BY <1>2, <1>3
<1> QED
  BY <1>1, <1>4, SMT DEF DepositTerms, Terms

LEMMA WithdrawalTermsType ==
  ASSUME NEW c \in Currency, NEW amount \in Amount, NEW rate \in RatesOf(c)
  PROVE  WithdrawalTerms(amount, rate) \in Terms
<1>1. amount \in Nat /\ rate \in Nat
  BY OrdersAssumption DEF RatesOf
<1>2. amount * PerMille \in Nat /\ 1000 * MinFee \in Nat /\ 1000 * PerMille \in Nat
  BY <1>1, OrdersAssumption
<1> QED
  BY <1>1, <1>2 DEF WithdrawalTerms, Terms

LEMMA TypeInit == Init => TypeInv
<1> SUFFICES ASSUME Init PROVE TypeInv
  OBVIOUS
<1>1. lastRate \in LastRate \cup {None} /\ side \in Side
  BY RatesAssumption DEF Init, FirstRate, LastRate, Time, Side
<1>2. IdleRequest \in Request /\ IdleRequest.pc = "idle" /\ IdlePoll \in PollState
  BY OrdersAssumption, RatesAssumption DEF IdleRequest, Request, NoTerms, Terms, Currency, Time, IdlePoll, PollState
<1>3. [key |-> None, status |-> "ABSENT"] \in AccountRow
  BY DEF AccountRow
<1>4. now \in Time /\ cache = None
  BY RatesAssumption DEF Init, Time
<1>5. /\ req = [r \in Req |-> IdleRequest] /\ poll = [p \in Poll |-> IdlePoll]
      /\ account = [a \in Account |-> [key |-> None, status |-> "ABSENT"]]
      /\ used = {} /\ raced = {}
  BY DEF Init
<1>6. req \in [Req -> Request] /\ \A r \in Req : req[r].pc # "withdrawal"
  BY <1>2, <1>5
<1>7. poll \in [Poll -> PollState] /\ account \in [Account -> AccountRow]
  BY <1>2, <1>3, <1>5
<1> QED
  BY <1>1, <1>4, <1>5, <1>6, <1>7 DEF TypeInv, TypeOK

(* What a request becomes, when it is all that a step writes.              *)
LEMMA RequestType ==
  ASSUME TypeInv, NEW r \in Req, NEW q \in Request, req' = [req EXCEPT ![r] = q],
         q.pc = "withdrawal" => q.account \in Account
  PROVE  /\ req' \in [Req -> Request]
         /\ \A s \in Req : req'[s].pc = "withdrawal" => req'[s].account \in Account
  BY DEF TypeInv, TypeOK

LEMMA TypeStep == TypeInv /\ [Next]_vars => TypeInv'
<1> SUFFICES ASSUME TypeInv, [Next]_vars PROVE TypeInv'
  OBVIOUS
<1>0. IdleRequest \in Request /\ IdleRequest.pc = "idle" /\ IdlePoll \in PollState
  BY OrdersAssumption, RatesAssumption DEF IdleRequest, Request, NoTerms, Terms, Currency, Time, IdlePoll, PollState
<1>8. /\ now \in Time /\ side \in Side /\ cache \in Entry \cup {None}
      /\ lastRate \in LastRate \cup {None}
      /\ poll \in [Poll -> PollState] /\ req \in [Req -> Request]
      /\ account \in [Account -> AccountRow] /\ used \subseteq Account /\ raced \subseteq Key
  BY DEF TypeInv, TypeOK
<1>1. CASE Tick /\ UNCHANGED bankVars
  BY <1>1, RatesAssumption DEF TypeInv, TypeOK, bankVars, Tick, Time
<1>2. ASSUME NEW r \in Req, UNCHANGED bankVars,
             SeePrice(r) \/ FinishFetch(r) \/ FetchFails(r) \/ QuoteEnvironment(r)
      PROVE  TypeInv'
  <2>0. req[r] \in Request /\ now \in Time
    BY <1>8
  <2>1. CASE SeePrice(r)
    <3> DEFINE q == [req[r] EXCEPT !.left = @ - 1, !.seen = IF req[r].left = 2 THEN now ELSE @]
    <3>0. req[r].left > 0 /\ req[r].pc = "prices"
      BY <2>1 DEF SeePrice, AwaitsPrice
    <3>3. [req[r] EXCEPT !.left = @ - 1] \in Request
      BY <2>0, <3>0 DEF Request
    <3>1. q \in Request /\ q.pc = "prices"
      BY <2>0, <3>0, <3>3 DEF Request
    <3>2. req' = [req EXCEPT ![r] = q] /\ UNCHANGED rateVars
      BY <2>1 DEF SeePrice
    <3> QED
      BY <1>2, <3>1, <3>2, RequestType DEF TypeInv, TypeOK, rateVars, bankVars
  <2>2. CASE FinishFetch(r)
    <3> DEFINE q == [req[r] EXCEPT !.pc = "terms", !.updatedAt = now]
    <3>1. q \in Request /\ q.pc = "terms"
      BY <2>0 DEF Request
    <3>2. req' = [req EXCEPT ![r] = q] /\ UNCHANGED <<now, side, poll, lastRate>>
      BY <2>2 DEF FinishFetch
    <3>3. cache' \in Entry
      BY <2>0, <2>2, RatesAssumption DEF FinishFetch, Expiry, Entry, Request, Time
    <3> QED
      BY <1>2, <3>1, <3>2, <3>3, RequestType DEF TypeInv, TypeOK, rateVars, bankVars
  <2>3. ASSUME NEW seen \in Time, NEW updatedAt \in Time, FallsBackOn(r, seen, updatedAt)
        PROVE  TypeInv'
    <3> DEFINE q == [req[r] EXCEPT !.pc = "terms", !.left = 0, !.failed = TRUE,
                                   !.seen = seen, !.updatedAt = updatedAt]
               answered == [req[r] EXCEPT !.left = 0]
    <3>1. answered \in Request
      BY <2>0 DEF Request
    <3>3. q = [answered EXCEPT !.pc = "terms", !.failed = TRUE, !.seen = seen, !.updatedAt = updatedAt]
      BY <2>0 DEF Request
    <3>2. req' = [req EXCEPT ![r] = q] /\ UNCHANGED rateVars
      BY <2>3 DEF FallsBackOn
    <3> HIDE DEF q, answered
    <3>4. q \in Request /\ q.pc = "terms"
      BY <3>1, <3>3 DEF Request
    <3> QED
      BY <1>2, <3>2, <3>4, RequestType DEF TypeInv, TypeOK, rateVars, bankVars
  <2>4. CASE FetchFails(r)
    BY <1>8, <2>3, <2>4 DEF FetchFails, Entry
  <2>5. CASE QuoteEnvironment(r)
    BY <2>0, <2>3, <2>5 DEF QuoteEnvironment
  <2> QED
    BY <1>2, <2>1, <2>2, <2>4, <2>5
<1>3. ASSUME NEW p \in Poll, UNCHANGED bankVars,
             StartPoll(p) \/ SeePollPrice(p) \/ FinishPoll(p) \/ PollFails(p)
      PROVE  TypeInv'
  <2>1. poll' \in [Poll -> PollState]
    <3>0. \A q \in Poll : poll[q] \in PollState
      BY <1>8
    <3>1. CASE StartPoll(p)
      <4> DEFINE others == \E q \in Poll : poll[q].busy
      <4>1. \A b \in BOOLEAN :
              [IdlePoll EXCEPT !.busy = TRUE, !.left = 2, !.overlapped = b] \in PollState
        <5> DEFINE two == [IdlePoll EXCEPT !.left = 2]
        <5>1. two \in PollState
          BY <1>0 DEF PollState
        <5>2. \A b \in BOOLEAN : [IdlePoll EXCEPT !.busy = TRUE, !.left = 2, !.overlapped = b]
                              = [two EXCEPT !.busy = TRUE, !.overlapped = b]
          BY <1>0 DEF PollState
        <5> HIDE DEF two
        <5> QED
          BY <5>1, <5>2 DEF PollState
      <4>2. \A x \in PollState : [x EXCEPT !.overlapped = x.busy] \in PollState
        BY DEF PollState
      <4>3. poll' = [q \in Poll |->
              IF q = p THEN [IdlePoll EXCEPT !.busy = TRUE, !.left = 2, !.overlapped = others]
              ELSE [poll[q] EXCEPT !.overlapped = poll[q].busy]]
        BY <3>1 DEF StartPoll
      <4>4. others \in BOOLEAN
        OBVIOUS
      <4> HIDE DEF others
      <4> QED
        BY <3>0, <4>1, <4>2, <4>3, <4>4
    <3>2. CASE SeePollPrice(p)
      <4>1. ASSUME NEW x \in PollState, NEW t \in Time, x.left > 0
            PROVE  [x EXCEPT !.left = @ - 1, !.last = t,
                             !.first = IF x.left = 2 THEN t ELSE @] \in PollState
        <5> DEFINE answered == [x EXCEPT !.left = @ - 1]
        <5>1. answered \in PollState /\ answered.first = x.first /\ x.first \in Time
          BY <4>1 DEF PollState
        <5>2. [x EXCEPT !.left = @ - 1, !.last = t, !.first = IF x.left = 2 THEN t ELSE @]
                = [answered EXCEPT !.last = t, !.first = IF x.left = 2 THEN t ELSE @]
          BY DEF PollState
        <5> HIDE DEF answered
        <5> QED
          BY <5>1, <5>2 DEF PollState
      <4>2. poll[p].left > 0 /\ poll' = [poll EXCEPT ![p] = [poll[p] EXCEPT
              !.left = @ - 1, !.last = now, !.first = IF poll[p].left = 2 THEN now ELSE @]]
        BY <3>2 DEF SeePollPrice
      <4> QED
        BY <1>8, <3>0, <4>1, <4>2
    <3>3. CASE FinishPoll(p) \/ PollFails(p)
      BY <1>8, <3>3, <1>0 DEF FinishPoll, PollFails
    <3> QED
      BY <1>3, <3>1, <3>2, <3>3
  <2>2. lastRate' \in LastRate \cup {None}
    <3>1. CASE FinishPoll(p)
      BY <1>8, <3>1 DEF FinishPoll, LastRate, PollState
    <3>2. CASE ~FinishPoll(p)
      BY <1>3, <1>8, <3>2 DEF StartPoll, SeePollPrice, PollFails, RateAfterError
    <3> QED
      BY <3>1, <3>2
  <2>3. UNCHANGED <<now, side, cache, req>>
    BY <1>3 DEF StartPoll, SeePollPrice, FinishPoll, PollFails
  <2> QED
    BY <1>3, <2>1, <2>2, <2>3 DEF TypeInv, TypeOK, rateVars, bankVars
<1>4. ASSUME NEW r \in Req, OrdersNext(r) PROVE TypeInv'
  <2>1. ASSUME NEW c \in Currency, StartDeposit(r, c) PROVE TypeInv'
    <3> DEFINE p == [IdleRequest EXCEPT !.currency = c, !.asked = now]
               q == req'[r]
    <3>0. p \in Request
      BY <1>0, <1>8 DEF Request
    <3> HIDE DEF p
    <3>1. /\ [p EXCEPT !.pc = "terms"] \in Request
          /\ [p EXCEPT !.pc = "terms"].pc = "terms"
      BY <3>0 DEF Request
    <3>5. /\ [p EXCEPT !.pc = "prices", !.left = 2] \in Request
          /\ [p EXCEPT !.pc = "prices", !.left = 2].pc = "prices"
      <4> DEFINE asking == [p EXCEPT !.pc = "prices"]
      <4>1. asking \in Request /\ asking.pc = "prices"
        BY <3>0 DEF Request
      <4>2. [p EXCEPT !.pc = "prices", !.left = 2] = [asking EXCEPT !.left = 2]
        BY <3>0 DEF Request
      <4> HIDE DEF asking
      <4> QED
        <5>1. [asking EXCEPT !.left = 2] \in Request
          BY <4>1 DEF Request
        <5>2. [asking EXCEPT !.left = 2].pc = "prices"
          BY <4>1 DEF Request
        <5> QED
          BY <4>2, <5>1, <5>2
    <3>6. \A t, u \in Time :
            /\ [p EXCEPT !.pc = "terms", !.seen = t, !.updatedAt = u] \in Request
            /\ [p EXCEPT !.pc = "terms", !.seen = t, !.updatedAt = u].pc = "terms"
      BY <3>0 DEF Request
    <3>7. \A e \in Entry : e.seen \in Time /\ e.updatedAt \in Time
      BY DEF Entry
    <3>2. UNCHANGED rateVars /\ UNCHANGED bankVars
      BY <2>1 DEF StartDeposit, AskForQuote
    <3>3. \/ req' = [req EXCEPT ![r] = [p EXCEPT !.pc = "terms"]]
          \/ req' = [req EXCEPT ![r] = [p EXCEPT !.pc = "prices", !.left = 2]]
          \/ cache \in Entry /\ req' = [req EXCEPT ![r] =
               [p EXCEPT !.pc = "terms", !.seen = cache.seen, !.updatedAt = cache.updatedAt]]
      BY <1>8, <2>1 DEF StartDeposit, AskForQuote, Hit, p
    <3>4. q \in Request /\ q.pc # "withdrawal" /\ req' = [req EXCEPT ![r] = q]
      <4>1. ASSUME NEW x \in Request, x.pc # "withdrawal", req' = [req EXCEPT ![r] = x]
            PROVE  q \in Request /\ q.pc # "withdrawal" /\ req' = [req EXCEPT ![r] = q]
        BY <1>8, <4>1
      <4> QED
        BY <3>1, <3>3, <3>5, <3>6, <3>7, <4>1
    <3> QED
      BY <3>2, <3>4, RequestType DEF TypeInv, TypeOK, rateVars, bankVars
  <2>2. CASE PriceDeposit(r)
    <3>1. PICK amount \in Amount, rate \in RatesOf(req[r].currency) :
            req' = [req EXCEPT ![r].pc = "deposit",
                               ![r].terms = DepositTerms(req[r].currency, amount, rate)]
      BY <2>2 DEF PriceDeposit
    <3> DEFINE t == DepositTerms(req[r].currency, amount, rate)
               q == [req[r] EXCEPT !.pc = "deposit", !.terms = t]
    <3>2. t \in Terms
      BY <1>8, <3>1, DepositTermsType DEF Request
    <3>3. req' = [req EXCEPT ![r] = q] /\ UNCHANGED rateVars /\ UNCHANGED bankVars
      BY <2>2, <3>1 DEF PriceDeposit
    <3> HIDE DEF t
    <3>4. q \in Request /\ q.pc = "deposit"
      BY <1>8, <3>2 DEF Request
    <3> QED
      BY <3>3, <3>4, RequestType DEF TypeInv, TypeOK, rateVars, bankVars
  <2>3. CASE InsertDeposit(r) \/ Fail(r)
    BY <2>3, <1>0 DEF TypeInv, TypeOK, rateVars, bankVars, InsertDeposit, Fail, Respond
  <2>4. ASSUME NEW k \in Key, StartAccount(r, k) PROVE TypeInv'
    BY <2>4, <1>0 DEF TypeInv, TypeOK, rateVars, bankVars, StartAccount, IdleRequest, Request
  <2>5. CASE InsertAccount(r)
    BY <2>5, <1>0 DEF TypeInv, TypeOK, rateVars, bankVars, InsertAccount, Respond, AccountRow, Request
  <2>6. ASSUME NEW a \in Account, NEW c \in Currency, StartWithdrawal(r, a, c) PROVE TypeInv'
    <3>1. PICK amount \in Amount, rate \in RatesOf(c) :
            req' = [req EXCEPT ![r] = [IdleRequest EXCEPT
                      !.pc = "withdrawal", !.currency = c, !.account = a,
                      !.terms = WithdrawalTerms(amount, rate)]]
      BY <2>6 DEF StartWithdrawal
    <3> DEFINE t == WithdrawalTerms(amount, rate)
               q == [IdleRequest EXCEPT !.pc = "withdrawal", !.currency = c, !.account = a, !.terms = t]
    <3>2. t \in Terms
      BY WithdrawalTermsType
    <3>3. req' = [req EXCEPT ![r] = q] /\ UNCHANGED rateVars /\ UNCHANGED bankVars
      BY <2>6, <3>1 DEF StartWithdrawal
    <3> HIDE DEF t
    <3>5. a \in 0 .. NumAccounts
      BY OrdersAssumption DEF Account
    <3>4. q \in Request /\ q.account = a
      BY <1>0, <3>2, <3>5 DEF Request
    <3> QED
      BY <3>3, <3>4, RequestType DEF TypeInv, TypeOK, rateVars, bankVars
  <2>7. CASE InsertWithdrawal(r)
    BY <2>7, <1>0 DEF TypeInv, TypeOK, rateVars, bankVars, InsertWithdrawal, Respond
  <2> QED
    BY <1>4, <2>1, <2>2, <2>3, <2>4, <2>5, <2>6, <2>7 DEF OrdersNext
<1>5. ASSUME NEW a \in Account, RemoveAccount(a) PROVE TypeInv'
  BY <1>5 DEF TypeInv, TypeOK, rateVars, bankVars, RemoveAccount, AccountRow
<1>6. CASE Restart
  BY <1>6, <1>0 DEF TypeInv, TypeOK, rateVars, bankVars, Restart, FirstRate, LastRate
<1>7. CASE UNCHANGED vars
  BY <1>7 DEF TypeInv, TypeOK, rateVars, bankVars, vars
<1> QED
  BY <1>1, <1>2, <1>3, <1>4, <1>5, <1>6, <1>7 DEF Next, RatesNext

(* Every reachable state has its type.                                     *)
THEOREM TypeCorrect == Spec => []TypeOK
<1>1. TypeInv => TypeOK
  BY DEF TypeInv
<1> QED
  BY <1>1, TypeInit, TypeStep, PTL DEF Spec
-----------------------------------------------------------------------------
(* The steps that write bank_accounts, or what a request of theirs holds.  *)
BankStep ==
  \/ \E r \in Req, k \in Key : StartAccount(r, k)
  \/ \E r \in Req : InsertAccount(r) \/ InsertWithdrawal(r)
  \/ \E a \in Account : RemoveAccount(a)

(* No account changes, and no request comes to create one.                 *)
SameAccounts ==
  /\ UNCHANGED bankVars
  /\ \A r \in Req : req'[r].pc = "account" => req'[r] = req[r]

LEMMA OthersLeaveAccounts ==
  ASSUME TypeInv, [Next]_vars, ~BankStep
  PROVE  SameAccounts
<1>0. req \in [Req -> Request] /\ IdleRequest.pc = "idle"
  BY DEF TypeInv, TypeOK, IdleRequest
<1> USE <1>0 DEF SameAccounts
<1>1. ASSUME UNCHANGED bankVars, RatesNext PROVE SameAccounts
  <2>1. ASSUME NEW r \in Req,
               SeePrice(r) \/ FinishFetch(r) \/ FetchFails(r) \/ QuoteEnvironment(r)
        PROVE  SameAccounts
    <3>1. \A s \in Req : s # r => req'[s] = req[s]
      BY <2>1 DEF SeePrice, FinishFetch, FetchFails, QuoteEnvironment, FallsBackOn
    <3>2. req'[r].pc # "account"
      <4>1. CASE SeePrice(r)
        BY <4>1 DEF SeePrice, AwaitsPrice, Request
      <4>2. CASE FinishFetch(r)
        BY <4>2 DEF FinishFetch, Request
      <4>3. CASE FetchFails(r) \/ QuoteEnvironment(r)
        <5>1. ASSUME NEW seen, NEW updatedAt, FallsBackOn(r, seen, updatedAt)
              PROVE  req'[r].pc = "terms"
          <6> DEFINE answered == [req[r] EXCEPT !.pc = "terms"]
          <6>1. answered.pc = "terms"
            BY DEF Request
          <6>2. req'[r] = [answered EXCEPT !.left = 0, !.failed = TRUE, !.seen = seen, !.updatedAt = updatedAt]
            BY <5>1 DEF FallsBackOn
          <6> HIDE DEF answered
          <6> QED
            BY <6>1, <6>2
        <5> QED
          BY <4>3, <5>1 DEF FetchFails, QuoteEnvironment
      <4> QED
        BY <2>1, <4>1, <4>2, <4>3
    <3> QED
      BY <1>1, <3>1, <3>2
  <2> QED
    BY <1>1, <2>1 DEF RatesNext, Tick, StartPoll, SeePollPrice, FinishPoll, PollFails
<1>2. ASSUME NEW r \in Req, OrdersNext(r) PROVE SameAccounts
  <2>1. ASSUME NEW c \in Currency, StartDeposit(r, c) PROVE SameAccounts
    <3>1. /\ \A s \in Req : s # r => req'[s] = req[s]
          /\ UNCHANGED bankVars
      BY <2>1 DEF StartDeposit, AskForQuote
    <3>2. req'[r].pc # "account"
      BY <2>1 DEF StartDeposit, AskForQuote, IdleRequest
    <3> QED
      BY <3>1, <3>2
  <2>2. CASE PriceDeposit(r)
    BY <2>2 DEF PriceDeposit, Request
  <2>3. CASE InsertDeposit(r) \/ Fail(r)
    BY <2>3 DEF InsertDeposit, Fail, Respond
  <2>4. ASSUME NEW a \in Account, NEW c \in Currency, StartWithdrawal(r, a, c) PROVE SameAccounts
    BY <2>4 DEF StartWithdrawal, IdleRequest
  <2> QED
    BY <1>2, <2>1, <2>2, <2>3, <2>4 DEF OrdersNext, BankStep
<1>3. CASE Restart
  BY <1>3 DEF Restart
<1>4. CASE UNCHANGED vars
  BY <1>4 DEF vars, bankVars
<1> QED
  BY <1>1, <1>2, <1>3, <1>4 DEF Next, BankStep

(* No account is removed under a withdrawal.                               *)
THEOREM AccountsStay == Spec => []WithdrawalHasAccount
<1>1. Init => WithdrawalHasAccount
  BY DEF Init, WithdrawalHasAccount
<1>2. TypeInv /\ WithdrawalHasAccount /\ [Next]_vars => WithdrawalHasAccount'
  <2> SUFFICES ASSUME TypeInv, WithdrawalHasAccount, [Next]_vars PROVE WithdrawalHasAccount'
    OBVIOUS
  <2>0. account \in [Account -> AccountRow] /\ used \subseteq Account
    BY DEF TypeInv, TypeOK
  <2> USE <2>0 DEF WithdrawalHasAccount, AccountRow
  <2>1. ASSUME NEW r \in Req, NEW k \in Key, StartAccount(r, k) PROVE WithdrawalHasAccount'
    BY <2>1 DEF StartAccount
  <2>2. ASSUME NEW r \in Req, InsertAccount(r) PROVE WithdrawalHasAccount'
    BY <2>2 DEF InsertAccount
  <2>3. ASSUME NEW r \in Req, InsertWithdrawal(r) PROVE WithdrawalHasAccount'
    BY <2>3 DEF InsertWithdrawal
  <2>4. ASSUME NEW a \in Account, RemoveAccount(a) PROVE WithdrawalHasAccount'
    BY <2>4 DEF RemoveAccount, Removable
  <2>5. CASE ~BankStep
    BY <2>5, OthersLeaveAccounts DEF SameAccounts, bankVars
  <2> QED
    BY <2>1, <2>2, <2>3, <2>4, <2>5 DEF BankStep
<1> QED
  BY <1>1, <1>2, TypeInit, TypeStep, PTL DEF Spec

(* A request that is creating an account is either the only one of its key *)
(* and alone with it, or known to have been raced.                         *)
CreationInv ==
  \A r \in Req : req[r].pc = "account" =>
    /\ req[r].key \in Key
    /\ \A s \in Req \ {r} :
         req[s].pc = "account" /\ req[s].key = req[r].key => req[r].key \in raced
    /\ \A a \in Account :
         account[a].status = "OPEN" /\ account[a].key = req[r].key => req[r].key \in raced

(* Twins come from overlapping requests only.                              *)
THEOREM TwinsRaced == Spec => []TwinsWereRaced
<1> DEFINE Inv == CreationInv /\ TwinsWereRaced
<1>1. Init => Inv
  BY DEF Init, IdleRequest, CreationInv, TwinsWereRaced
<1>2. TypeInv /\ Inv /\ [Next]_vars => Inv'
  <2> SUFFICES ASSUME TypeInv, CreationInv, TwinsWereRaced, [Next]_vars PROVE Inv'
    OBVIOUS
  <2>0. /\ account \in [Account -> AccountRow] /\ req \in [Req -> Request]
        /\ IdleRequest.pc = "idle" /\ None \notin Key
    BY OrdersAssumption DEF TypeInv, TypeOK, IdleRequest
  <2>1. ASSUME NEW r \in Req, NEW k \in Key, StartAccount(r, k) PROVE Inv'
    <3>1. /\ req'[r].pc = "account" /\ req'[r].key = k
          /\ \A s \in Req : s # r => req'[s] = req[s]
      BY <2>0, <2>1 DEF StartAccount, IdleRequest
    <3>2. /\ account' = account /\ raced \subseteq raced'
          /\ \A s \in Req : s # r /\ req[s].key = k => k \in raced'
      BY <2>0, <2>1 DEF StartAccount
    <3>3. \A a \in Account : ~(account[a].key = k /\ account[a].status = "OPEN")
      BY <2>0, <2>1 DEF StartAccount, NoneAlike, AccountRow
    <3> QED
      BY <3>1, <3>2, <3>3 DEF CreationInv, TwinsWereRaced
  <2>2. ASSUME NEW r \in Req, InsertAccount(r) PROVE Inv'
    <3>1. PICK a \in Account : account' = [account EXCEPT ![a] = [key |-> req[r].key, status |-> "OPEN"]]
      BY <2>2 DEF InsertAccount
    <3>2. /\ req[r].pc = "account" /\ req'[r].pc = "idle" /\ raced' = raced
          /\ \A s \in Req : s # r => req'[s] = req[s]
      BY <2>0, <2>2 DEF InsertAccount, Respond
    <3>3. /\ account'[a].key = req[r].key
          /\ \A b \in Account : b # a => account'[b] = account[b]
      BY <2>0, <3>1
    <3>4. CreationInv'
      BY <3>2, <3>3 DEF CreationInv
    <3>5. TwinsWereRaced'
      BY <3>2, <3>3 DEF CreationInv, TwinsWereRaced
    <3> QED
      BY <3>4, <3>5
  <2>3. ASSUME NEW r \in Req, InsertWithdrawal(r) PROVE Inv'
    <3>1. /\ UNCHANGED <<account, raced>> /\ req'[r].pc = "idle"
          /\ \A s \in Req : s # r => req'[s] = req[s]
      BY <2>0, <2>3 DEF InsertWithdrawal, Respond
    <3> QED
      BY <3>1 DEF CreationInv, TwinsWereRaced
  <2>4. ASSUME NEW a \in Account, RemoveAccount(a) PROVE Inv'
    <3>1. /\ UNCHANGED <<req, raced>> /\ account'[a].status = "GONE"
          /\ \A b \in Account : b # a => account'[b] = account[b]
      BY <2>0, <2>4 DEF RemoveAccount
    <3> QED
      BY <3>1 DEF CreationInv, TwinsWereRaced
  <2>5. CASE ~BankStep
    BY <2>5, OthersLeaveAccounts DEF SameAccounts, bankVars, CreationInv, TwinsWereRaced
  <2> QED
    BY <2>1, <2>2, <2>3, <2>4, <2>5 DEF BankStep
<1>3. Inv => TwinsWereRaced
  OBVIOUS
<1> QED
  BY <1>1, <1>2, <1>3, TypeInit, TypeStep, PTL DEF Spec
-----------------------------------------------------------------------------
(* The cache is never good for longer than its prices; a fetch sees its    *)
(* prices after it began; what a deposit was quoted is young enough.       *)
QuoteInv ==
  /\ cache # None => cache.expires <= cache.seen + CacheSeconds /\ cache.seen <= cache.updatedAt
  /\ \A r \in Req :
       /\ req[r].pc = "prices" =>
            /\ req[r].asked <= now
            /\ req[r].left < 2 => req[r].asked <= req[r].seen /\ req[r].seen <= now
       /\ req[r].pc \in {"terms", "deposit"} /\ req[r].currency = "PEN" /\ ~req[r].failed =>
            req[r].asked < req[r].seen + CacheSeconds /\ req[r].seen <= req[r].updatedAt

(* A deposit in PEN is computed with fresh prices, unless Binance failed.  *)
THEOREM QuotesFresh == Spec => []QuoteIsFresh
<1>1. Init => QuoteInv
  BY DEF Init, IdleRequest, QuoteInv
<1>2. ASSUME TypeInv, QuoteInv, [Next]_vars PROVE QuoteInv'
  <2>0. /\ req \in [Req -> Request] /\ now \in Nat /\ cache \in Entry \cup {None}
        /\ IdleRequest.pc = "idle" /\ CacheSeconds \in Nat \ {0}
    BY <1>2, RatesAssumption DEF TypeInv, TypeOK, Time, IdleRequest
  <2>9. \A r \in Req : /\ req[r].asked \in Nat /\ req[r].seen \in Nat
                       /\ req[r].updatedAt \in Nat /\ req[r].left \in 0 .. 2
    BY <2>0 DEF Request, Time
  <2>10. ASSUME NEW r \in Req, UNCHANGED <<now, cache>>, \A s \in Req : s # r => req'[s] = req[s],
                req'[r].pc \notin {"prices", "terms", "deposit"}
         PROVE  QuoteInv'
    BY <1>2, <2>10 DEF QuoteInv
  <2>1. CASE Tick
    <3>1. now' = now + 1 /\ UNCHANGED <<cache, req>>
      BY <2>1 DEF Tick
    <3> QED
      BY <1>2, <2>0, <2>9, <3>1 DEF QuoteInv
  <2>2. ASSUME NEW r \in Req, SeePrice(r) PROVE QuoteInv'
    <3>1. /\ \A s \in Req : s # r => req'[s] = req[s]
          /\ UNCHANGED <<now, cache>> /\ req[r].pc = "prices" /\ req[r].left > 0
      BY <2>0, <2>2 DEF SeePrice, AwaitsPrice, rateVars
    <3>2. /\ req'[r].pc = "prices" /\ req'[r].asked = req[r].asked
          /\ req'[r].seen = IF req[r].left = 2 THEN now ELSE req[r].seen
      BY <2>0, <2>2, <3>1 DEF SeePrice, Request
    <3> QED
      BY <1>2, <2>0, <2>9, <3>1, <3>2 DEF QuoteInv
  <2>3. ASSUME NEW r \in Req, FinishFetch(r) PROVE QuoteInv'
    <3>1. /\ \A s \in Req : s # r => req'[s] = req[s]
          /\ now' = now /\ req[r].pc = "prices" /\ req[r].left = 0
          /\ cache' = [seen |-> req[r].seen, updatedAt |-> now, expires |-> req[r].asked + CacheSeconds]
      BY <2>0, <2>3 DEF FinishFetch, Expiry
    <3>2. /\ req'[r].pc = "terms" /\ req'[r].asked = req[r].asked
          /\ req'[r].seen = req[r].seen /\ req'[r].updatedAt = now
      BY <2>0, <2>3 DEF FinishFetch, Request
    <3>3. req[r].asked <= req[r].seen /\ req[r].seen <= now
      BY <1>2, <3>1 DEF QuoteInv
    <3>4. cache'.expires <= cache'.seen + CacheSeconds /\ cache'.seen <= cache'.updatedAt
      BY <2>0, <2>9, <3>1, <3>3
    <3>5. req'[r].asked < req'[r].seen + CacheSeconds /\ req'[r].seen <= req'[r].updatedAt
      BY <2>0, <2>9, <3>2, <3>3
    <3> QED
      BY <1>2, <3>1, <3>2, <3>4, <3>5 DEF QuoteInv
  <2>4. ASSUME NEW r \in Req, FetchFails(r) \/ QuoteEnvironment(r) PROVE QuoteInv'
    <3>1. ASSUME NEW seen, NEW updatedAt, FallsBackOn(r, seen, updatedAt) PROVE QuoteInv'
      <4>1. /\ \A s \in Req : s # r => req'[s] = req[s]
            /\ UNCHANGED <<now, cache>>
        BY <3>1 DEF FallsBackOn, rateVars
      <4> DEFINE answered == [req[r] EXCEPT !.pc = "terms", !.failed = TRUE]
      <4>2. answered.pc = "terms" /\ answered.failed
        BY <2>0 DEF Request
      <4>3. req'[r] = [answered EXCEPT !.left = 0, !.seen = seen, !.updatedAt = updatedAt]
        BY <2>0, <3>1 DEF FallsBackOn, Request
      <4> HIDE DEF answered
      <4>4. req'[r].pc = "terms" /\ req'[r].failed
        BY <4>2, <4>3
      <4> QED
        BY <1>2, <4>1, <4>4 DEF QuoteInv
    <3> QED
      BY <2>4, <3>1 DEF FetchFails, QuoteEnvironment
  <2>5. ASSUME NEW r \in Req, NEW c \in Currency, StartDeposit(r, c) PROVE QuoteInv'
    <3> DEFINE p == [IdleRequest EXCEPT !.currency = c, !.asked = now]
    <3>0. p.currency = c /\ p.asked = now /\ DOMAIN p = DOMAIN IdleRequest
      BY DEF IdleRequest
    <3>1. /\ \A s \in Req : s # r => req'[s] = req[s]
          /\ UNCHANGED <<now, cache>>
      BY <2>0, <2>5 DEF StartDeposit, AskForQuote, rateVars
    <3>2. CASE c = "BOB"
      <4>1. req'[r] = [p EXCEPT !.pc = "terms"]
        BY <2>0, <2>5, <3>2 DEF StartDeposit
      <4>2. req'[r].pc = "terms" /\ req'[r].currency = "BOB"
        BY <3>2, <4>1 DEF IdleRequest
      <4> QED
        BY <1>2, <3>1, <4>2 DEF QuoteInv
    <3>3. CASE c = "PEN" /\ Hit
      <4>1. req'[r] = [p EXCEPT !.pc = "terms", !.seen = cache.seen, !.updatedAt = cache.updatedAt]
        BY <2>0, <2>5, <3>3 DEF StartDeposit, AskForQuote
      <4>2. /\ req'[r].pc = "terms" /\ req'[r].asked = now
            /\ req'[r].seen = cache.seen /\ req'[r].updatedAt = cache.updatedAt
        BY <4>1 DEF IdleRequest
      <4>3. cache # None /\ now < cache.expires
        BY <3>3 DEF Hit
      <4>4. cache.seen \in Nat /\ cache.updatedAt \in Nat /\ cache.expires \in Nat
        BY <2>0, <4>3 DEF Entry, Time
      <4>5. now < cache.seen + CacheSeconds /\ cache.seen <= cache.updatedAt
        BY <1>2, <2>0, <4>3, <4>4 DEF QuoteInv
      <4> QED
        BY <1>2, <3>1, <4>2, <4>5 DEF QuoteInv
    <3>4. CASE c = "PEN" /\ ~Hit
      <4>1. req'[r] = [p EXCEPT !.pc = "prices", !.left = 2]
        BY <2>0, <2>5, <3>4 DEF StartDeposit, AskForQuote
      <4>2. req'[r].pc = "prices" /\ req'[r].asked = now /\ req'[r].left = 2
        BY <4>1 DEF IdleRequest
      <4> QED
        BY <1>2, <2>0, <3>1, <4>2 DEF QuoteInv
    <3> QED
      BY <3>2, <3>3, <3>4 DEF Currency
  <2>6. ASSUME NEW r \in Req, PriceDeposit(r) PROVE QuoteInv'
    <3>1. /\ \A s \in Req : s # r => req'[s] = req[s]
          /\ UNCHANGED <<now, cache>> /\ req[r].pc = "terms"
      BY <2>0, <2>6 DEF PriceDeposit, rateVars
    <3>2. /\ req'[r].pc = "deposit" /\ req'[r].currency = req[r].currency
          /\ req'[r].failed = req[r].failed /\ req'[r].asked = req[r].asked
          /\ req'[r].seen = req[r].seen /\ req'[r].updatedAt = req[r].updatedAt
      <4>1. PICK t : req' = [req EXCEPT ![r].pc = "deposit", ![r].terms = t]
        BY <2>6 DEF PriceDeposit
      <4> QED
        BY <2>0, <4>1 DEF Request
    <3> QED
      BY <1>2, <3>1, <3>2 DEF QuoteInv
  <2>7. ASSUME NEW r \in Req, InsertDeposit(r) \/ InsertAccount(r) \/ InsertWithdrawal(r) \/ Fail(r)
        PROVE  QuoteInv'
    BY <2>0, <2>7, <2>10 DEF InsertDeposit, InsertAccount, InsertWithdrawal, Fail, Respond, rateVars
  <2>8. ASSUME NEW r \in Req, NEW k \in Key, StartAccount(r, k) PROVE QuoteInv'
    BY <2>0, <2>8, <2>10 DEF StartAccount, IdleRequest, rateVars
  <2>11. ASSUME NEW r \in Req, NEW a \in Account, NEW c \in Currency, StartWithdrawal(r, a, c)
         PROVE  QuoteInv'
    <3>1. /\ req'[r].pc = "withdrawal" /\ UNCHANGED <<now, cache>>
          /\ \A s \in Req : s # r => req'[s] = req[s]
      BY <2>0, <2>11 DEF StartWithdrawal, IdleRequest, rateVars
    <3> QED
      BY <2>10, <3>1
  <2>12. CASE Restart
    BY <2>0, <2>12 DEF Restart, QuoteInv
  <2>13. ASSUME UNCHANGED <<now, cache, req>> PROVE QuoteInv'
    BY <1>2, <2>13 DEF QuoteInv
  <2>14. ASSUME NEW p \in Poll, StartPoll(p) \/ SeePollPrice(p) \/ FinishPoll(p) \/ PollFails(p)
         PROVE  QuoteInv'
    BY <2>13, <2>14 DEF StartPoll, SeePollPrice, FinishPoll, PollFails
  <2>15. CASE RatesNext
    BY <2>1, <2>2, <2>3, <2>4, <2>14, <2>15 DEF RatesNext
  <2>16. ASSUME NEW r \in Req, OrdersNext(r) PROVE QuoteInv'
    BY <2>5, <2>6, <2>7, <2>8, <2>11, <2>16 DEF OrdersNext
  <2>17. CASE (\E a \in Account : RemoveAccount(a)) \/ UNCHANGED vars
    BY <2>13, <2>17 DEF RemoveAccount, vars, rateVars
  <2> QED
    BY <1>2, <2>12, <2>15, <2>16, <2>17 DEF Next
<1>3. TypeInv /\ QuoteInv => QuoteIsFresh
  <2> SUFFICES ASSUME TypeInv, QuoteInv, NEW r \in Req, req[r].pc = "deposit",
                      req[r].currency = "PEN", ~req[r].failed
               PROVE  /\ req[r].seen + CacheSeconds > req[r].asked
                      /\ RateExpiresAt(r) + CacheSeconds > req[r].asked + RateLock
    BY DEF QuoteIsFresh
  <2>1. /\ req[r].asked \in Nat /\ req[r].seen \in Nat /\ req[r].updatedAt \in Nat
        /\ CacheSeconds \in Nat /\ RateLock \in Nat
    BY RatesAssumption, OrdersAssumption DEF TypeInv, TypeOK, Request, Time
  <2>2. req[r].asked < req[r].seen + CacheSeconds /\ req[r].seen <= req[r].updatedAt
    BY DEF QuoteInv
  <2> QED
    BY <2>1, <2>2 DEF RateExpiresAt
<1> QED
  BY <1>1, <1>2, <1>3, TypeInit, TypeStep, PTL DEF Spec
-----------------------------------------------------------------------------
(* No rate is from the future; a poll that is alone has seen nothing older *)
(* than the rate it will replace; polls in flight together know of it.     *)
PollInv ==
  /\ lastRate # None => lastRate.last <= now
  /\ \A p \in Poll : poll[p].busy =>
       /\ poll[p].left < 2 =>
            /\ poll[p].last <= now
            /\ ~poll[p].overlapped /\ lastRate # None => lastRate.last <= poll[p].first
       /\ \A q \in Poll \ {p} : poll[q].busy => poll[p].overlapped

(* What RateGoesForward says of a step.                                    *)
Forward ==
  lastRate # None =>
    \/ lastRate' = lastRate
    \/ lastRate' # None /\ lastRate'.first >= lastRate.last
    \/ \E p \in Poll : poll[p].overlapped /\ FinishPoll(p)
    \/ Restart

(* The rate of withdrawals goes back only by a poll that overlapped.       *)
THEOREM RateForward == Spec => RateGoesForward
<1>1. Init => PollInv
  <2> SUFFICES ASSUME Init PROVE PollInv
    OBVIOUS
  <2>1. /\ \A p \in Poll : ~poll[p].busy
        /\ now = 0 /\ (lastRate # None => lastRate = [first |-> now, last |-> now])
    BY DEF Init, IdlePoll, FirstRate
  <2>2. lastRate # None => lastRate.last = 0
    BY <2>1
  <2> QED
    BY <2>1, <2>2 DEF PollInv
<1>2. ASSUME TypeInv, PollInv, [Next]_vars PROVE PollInv' /\ (Forward \/ UNCHANGED vars)
  <2>0. /\ now \in Nat /\ poll \in [Poll -> PollState] /\ lastRate \in LastRate \cup {None}
    BY <1>2, RatesAssumption DEF TypeInv, TypeOK, Time
  <2>1. \A p \in Poll : /\ poll[p].left \in 0 .. 2 /\ poll[p].first \in Nat /\ poll[p].last \in Nat
                        /\ poll[p].busy \in BOOLEAN /\ poll[p].overlapped \in BOOLEAN
    BY <2>0 DEF PollState, Time
  <2>2. lastRate # None => lastRate.first \in Nat /\ lastRate.last \in Nat
    BY <2>0 DEF LastRate, Time
  <2>3. CASE Tick
    <3>1. now' = now + 1 /\ UNCHANGED <<poll, lastRate>>
      BY <2>3 DEF Tick
    <3> QED
      BY <1>2, <2>0, <2>1, <2>2, <3>1 DEF PollInv, Forward
  <2>4. ASSUME UNCHANGED <<now, poll, lastRate>> PROVE PollInv' /\ Forward
    BY <1>2, <2>4 DEF PollInv, Forward
  <2>5. ASSUME NEW p \in Poll, StartPoll(p) PROVE PollInv' /\ Forward
    <3> DEFINE others == \E q \in Poll : poll[q].busy
    <3>1. UNCHANGED <<now, lastRate>> /\ ~poll[p].busy
      BY <2>5 DEF StartPoll, MayPoll
    <3>2. poll'[p] = [IdlePoll EXCEPT !.busy = TRUE, !.left = 2, !.overlapped = others]
      BY <2>5 DEF StartPoll
    <3>3. poll'[p].left = 2
      BY <3>2 DEF IdlePoll
    <3>4. others => poll'[p].overlapped
      BY <3>2 DEF IdlePoll
    <3>5. ASSUME NEW q \in Poll, q # p
          PROVE  /\ poll'[q].left = poll[q].left /\ poll'[q].first = poll[q].first
                 /\ poll'[q].last = poll[q].last
                 /\ poll'[q].busy = poll[q].busy
                 /\ poll'[q].overlapped = poll[q].busy
      <4>1. poll'[q] = [poll[q] EXCEPT !.overlapped = poll[q].busy]
        BY <2>5, <3>5 DEF StartPoll
      <4> QED
        BY <2>0, <4>1 DEF PollState
    <3> HIDE DEF others
    <3>6. ASSUME NEW q \in Poll, q # p, poll'[q].busy PROVE others /\ poll'[q].overlapped
      BY <3>5, <3>6 DEF others
    <3>7. \A q \in Poll : poll'[q].busy /\ poll'[q].left < 2 =>
            q # p /\ poll[q].busy /\ poll'[q].overlapped
                  /\ poll'[q].last = poll[q].last /\ poll[q].left < 2
      BY <3>3, <3>5, <3>6
    <3>8. \A q, t \in Poll : q # t /\ poll'[q].busy /\ poll'[t].busy => poll'[q].overlapped
      BY <3>4, <3>6
    <3> QED
      BY <1>2, <3>1, <3>7, <3>8 DEF PollInv, Forward
  <2>6. ASSUME NEW p \in Poll, SeePollPrice(p) PROVE PollInv' /\ Forward
    <3>1. UNCHANGED <<now, lastRate>> /\ \A q \in Poll : q # p => poll'[q] = poll[q]
      BY <2>0, <2>6 DEF SeePollPrice
    <3>2. /\ poll'[p].last = now
          /\ poll'[p].first = IF poll[p].left = 2 THEN now ELSE poll[p].first
      BY <2>0, <2>6 DEF SeePollPrice, PollState
    <3>3. poll'[p].busy = poll[p].busy /\ poll'[p].overlapped = poll[p].overlapped
      BY <2>0, <2>6 DEF SeePollPrice, PollState
    <3> QED
      BY <1>2, <2>0, <2>1, <2>2, <3>1, <3>2, <3>3 DEF PollInv, Forward
  <2>7. ASSUME NEW p \in Poll, FinishPoll(p) PROVE PollInv' /\ Forward
    <3>1. /\ now' = now /\ poll[p].busy /\ poll[p].left = 0
          /\ lastRate' = [first |-> poll[p].first, last |-> poll[p].last]
          /\ ~poll'[p].busy /\ \A q \in Poll : q # p => poll'[q] = poll[q]
      BY <2>0, <2>7 DEF FinishPoll, IdlePoll
    <3>2. /\ lastRate'.last <= now /\ lastRate'.first = poll[p].first
          /\ ~poll[p].overlapped /\ lastRate # None => lastRate.last <= poll[p].first
      BY <1>2, <3>1 DEF PollInv
    <3>3. \A q \in Poll : q # p /\ poll[q].busy => poll[q].overlapped
      BY <1>2, <3>1 DEF PollInv
    <3>4. PollInv'
      BY <1>2, <3>1, <3>2, <3>3 DEF PollInv
    <3>5. lastRate' # None
      BY <2>0, <3>1, NullAssumption DEF PollState, LastRate
    <3> QED
      BY <2>1, <2>2, <2>7, <3>2, <3>4, <3>5 DEF Forward
  <2>8. ASSUME NEW p \in Poll, PollFails(p) PROVE PollInv' /\ Forward
    <3>1. /\ UNCHANGED <<now, lastRate>> /\ ~poll'[p].busy
          /\ \A q \in Poll : q # p => poll'[q] = poll[q]
      BY <2>0, <2>8 DEF PollFails, RateAfterError, IdlePoll
    <3> QED
      BY <1>2, <3>1 DEF PollInv, Forward
  <2>9. CASE Restart
    <3>1. /\ now' = now /\ (lastRate' # None => lastRate' = [first |-> now, last |-> now])
          /\ \A p \in Poll : ~poll'[p].busy
      BY <2>9 DEF Restart, FirstRate, IdlePoll
    <3>2. lastRate' # None => lastRate'.last = now
      BY <3>1
    <3> QED
      BY <2>0, <2>9, <3>1, <3>2 DEF PollInv, Forward
  <2>10. ASSUME NEW r \in Req,
                SeePrice(r) \/ FinishFetch(r) \/ FetchFails(r) \/ QuoteEnvironment(r)
         PROVE  PollInv' /\ Forward
    BY <2>4, <2>10 DEF SeePrice, FinishFetch, FetchFails, QuoteEnvironment, FallsBackOn, rateVars
  <2>11. ASSUME NEW r \in Req, OrdersNext(r) PROVE PollInv' /\ Forward
    <3>1. UNCHANGED <<now, poll, lastRate>>
      BY <2>11 DEF OrdersNext, StartDeposit, AskForQuote, PriceDeposit, InsertDeposit, StartAccount,
                   InsertAccount, StartWithdrawal, InsertWithdrawal, Fail, rateVars
    <3> QED
      BY <2>4, <3>1
  <2>12. ASSUME NEW a \in Account, RemoveAccount(a) PROVE PollInv' /\ Forward
    BY <2>4, <2>12 DEF RemoveAccount, rateVars
  <2>13. CASE UNCHANGED vars
    BY <2>4, <2>13 DEF vars, rateVars
  <2> QED
    BY <1>2, <2>3, <2>5, <2>6, <2>7, <2>8, <2>9, <2>10, <2>11, <2>12, <2>13 DEF Next, RatesNext
<1>3. TypeInv /\ PollInv /\ [Next]_vars => PollInv' /\ [Forward]_vars
  BY <1>2
<1>4. RateGoesForward <=> [][Forward]_vars
  BY PTL DEF RateGoesForward, Forward
<1> QED
  BY <1>1, <1>3, <1>4, TypeInit, TypeStep, PTL DEF Spec
-----------------------------------------------------------------------------
(* The two bounds that rounding half up keeps.                             *)
LEMMA RoundedBounds ==
  ASSUME NEW a \in Nat, NEW b \in Nat \ {0}
  PROVE  /\ Rounded(a, b) \in Nat
         /\ 2 * b * Rounded(a, b) <= 2 * a + b /\ 2 * a < 2 * b * Rounded(a, b) + b
<1> DEFINE n == 2 * a + b
           d == 2 * b
           q == n \div d
<1>1. n \in Nat /\ d \in Nat \ {0}
  OBVIOUS
<1>2. q \in Nat /\ d * q <= n /\ n < d * q + d
  <2> HIDE DEF n, d
  <2> QED
    BY <1>1
<1>3. Rounded(a, b) = q
  BY DEF Rounded
<1> HIDE DEF q
<1> DEFINE p == 2 * b * q
<1>4. p \in Nat /\ p <= 2 * a + b /\ 2 * a + b < p + 2 * b
  BY <1>1, <1>2
<1>5. p <= 2 * a + b /\ 2 * a < p + b
  <2> HIDE DEF p
  <2> QED
    BY <1>4
<1> QED
  BY <1>2, <1>3, <1>5

(* Whatever the currency, the amount and the rate, a deposit that is worth *)
(* the minimum pays a fee in the band.                                     *)
LEMMA DepositFees ==
  ASSUME NEW c \in Currency, NEW amount \in Amount, NEW rate \in RatesOf(c),
         BobEquivalent(amount, rate) >= 100 * FixedFeeMin
  PROVE  DepositBand(DepositTerms(c, amount, rate))
<1> DEFINE t == DepositTerms(c, amount, rate)
           bob == amount * rate
           num == FixedFee(c, rate)[1]
           den == FixedFee(c, rate)[2]
           million == 1000000
           fee == million * num
           base == amount * den
           share == Rounded(fee, base)
<1> SUFFICES DepositBand(t)
  OBVIOUS
<1>1. amount \in Nat \ {0} /\ rate \in Nat \ {0} /\ (c # "PEN" => rate = 100)
  BY OrdersAssumption DEF RatesOf
<1>2. bob \in Nat /\ bob >= 100 * 100
  BY <1>1 DEF BobEquivalent, FixedFeeMin
<1>3. CASE bob < 100 * 1000
  <2>1. /\ t.amount = amount /\ t.num = num /\ t.den = den /\ t.feeRate = share
    BY <1>3, SMT DEF DepositTerms, BobEquivalent, FixedFeeMax
  <2>2. /\ num \in Nat /\ den \in Nat \ {0}
        /\ base <= 1000 * num /\ 100 * num <= base
    <3>1. CASE c = "PEN"
      <4>1. num = 100 /\ den = rate
        BY <3>1 DEF FixedFee
      <4> QED
        BY <1>1, <1>2, <1>3, <4>1
    <3>2. CASE c # "PEN"
      <4>1. num = 1 /\ den = 1
        BY <3>2 DEF FixedFee
      <4>2. amount * 100 >= 100 * 100 /\ amount * 100 < 100 * 1000
        BY <1>1, <1>2, <1>3, <3>2
      <4> QED
        BY <1>1, <4>1, <4>2
    <3> QED
      BY <3>1, <3>2
  <2>3. million \in Nat
    BY SMT
  <2> HIDE DEF t, num, den, million
  <2>4. fee \in Nat /\ base \in Nat \ {0}
    BY <1>1, <2>2, <2>3
  <2>5. 2 * base * share <= 2 * fee + base /\ 2 * fee < 2 * base * share + base
    <3> HIDE DEF fee, base
    <3> QED
      BY <2>4, RoundedBounds
  <2> HIDE DEF share, base
  <2>6. base = t.amount * t.den /\ fee = 1000000 * t.num
    BY <2>1, SMT DEF base, million
  <2> HIDE DEF fee
  <2> QED
    BY <2>1, <2>2, <2>5, <2>6, SMT DEF DepositBand
<1>4. CASE bob >= 100 * 1000
  <2>1. t.amount = amount /\ t.num = amount /\ t.den = 1000 /\ t.feeRate = 1000
    BY <1>1, <1>4, SMT DEF DepositTerms, BobEquivalent, FixedFeeMax
  <2> DEFINE base2 == amount * 1000
             fee2  == 1000000 * amount
  <2>2. /\ base2 <= 1000 * amount /\ 100 * amount <= base2
        /\ 2 * base2 * 1000 <= 2 * fee2 + base2 /\ 2 * fee2 < 2 * base2 * 1000 + base2
    BY <1>1, SMT
  <2> HIDE DEF t
  <2>3. base2 = t.amount * t.den /\ fee2 = 1000000 * t.num
    BY <2>1, SMT
  <2> HIDE DEF base2, fee2
  <2> QED
    BY <2>1, <2>2, <2>3, SMT DEF DepositBand
<1> QED
  BY <1>2, <1>3, <1>4

(* And a withdrawal of the minimum or more does.                           *)
LEMMA WithdrawalFees ==
  ASSUME NEW amount \in Amount, NEW rate, amount >= MinAmount
  PROVE  WithdrawalBand(WithdrawalTerms(amount, rate))
<1> DEFINE t == WithdrawalTerms(amount, rate)
           percent == amount * PerMille
<1> SUFFICES WithdrawalBand(t)
  OBVIOUS
<1>1. amount \in Nat /\ MinAmount \in Nat /\ MinFee \in Nat /\ PerMille \in Nat /\ percent \in Nat
  BY OrdersAssumption
<1>2. /\ t.amount = amount /\ t.den = 1000
      /\ t.num = IF percent > 1000 * MinFee THEN percent ELSE 1000 * MinFee
  BY DEF WithdrawalTerms
<1>3. MinFee * MinAmount <= MinFee * amount
  BY <1>1
<1> HIDE DEF t
<1>4. t.amount * PerMille * t.den = percent * 1000
  BY <1>2
<1>5. CASE percent >= 1000 * MinFee
  <2>1. t.num = percent
    BY <1>1, <1>2, <1>5
  <2>2. t.num * 1000 = t.amount * PerMille * t.den
    BY <1>4, <2>1
  <2> QED
    BY <2>2 DEF WithdrawalBand
<1>6. CASE percent < 1000 * MinFee
  <2>1. t.num * 1000 > percent * 1000
    <3> HIDE DEF percent
    <3> QED
      BY <1>1, <1>2, <1>6
  <2>2. t.num * MinAmount <= MinFee * t.amount * t.den
    <3>1. t.num = 1000 * MinFee
      BY <1>1, <1>2, <1>6
    <3>2. MinFee * t.amount * t.den = (MinFee * amount) * 1000
      BY <1>2
    <3>3. (1000 * MinFee) * MinAmount = 1000 * (MinFee * MinAmount)
      BY <1>1
    <3> QED
      BY <1>1, <1>3, <3>1, <3>2, <3>3
  <2>3. t.num * 1000 > t.amount * PerMille * t.den
    BY <1>4, <2>1
  <2> QED
    BY <2>2, <2>3 DEF WithdrawalBand
<1> QED
  BY <1>1, <1>5, <1>6

(* Whoever pays, pays a fee in its band.                                   *)
THEOREM FeesInBand == Spec => []FeeInBand
<1>1. Init => FeeInBand
  <2>1. IdleRequest.pc = "idle"
    BY DEF IdleRequest
  <2>2. Init => \A r \in Req : req[r].pc = "idle"
    BY <2>1 DEF Init
  <2> QED
    BY <2>2 DEF FeeInBand
<1>2. ASSUME TypeInv, FeeInBand, [Next]_vars PROVE FeeInBand'
  <2>0. req \in [Req -> Request] /\ IdleRequest.pc = "idle"
    BY <1>2 DEF TypeInv, TypeOK, IdleRequest
  <2>1. ASSUME NEW r \in Req, \A s \in Req : s # r => req'[s] = req[s],
               req'[r].pc \notin {"deposit", "withdrawal"}
        PROVE  FeeInBand'
    BY <1>2, <2>1 DEF FeeInBand
  <2>2. ASSUME NEW r \in Req, SeePrice(r) \/ FinishFetch(r) \/ FetchFails(r) \/ QuoteEnvironment(r)
        PROVE  FeeInBand'
    <3>1. \A s \in Req : s # r => req'[s] = req[s]
      BY <2>0, <2>2 DEF SeePrice, FinishFetch, FetchFails, QuoteEnvironment, FallsBackOn
    <3>2. CASE SeePrice(r)
      <4>1. req'[r].pc = "prices"
        BY <2>0, <3>2 DEF SeePrice, AwaitsPrice, Request
      <4> QED
        BY <2>1, <3>1, <4>1
    <3>3. CASE FinishFetch(r)
      <4>1. req'[r].pc = "terms"
        BY <2>0, <3>3 DEF FinishFetch, Request
      <4> QED
        BY <2>1, <3>1, <4>1
    <3>4. ASSUME NEW seen, NEW updatedAt, FallsBackOn(r, seen, updatedAt) PROVE FeeInBand'
      <4> DEFINE answered == [req[r] EXCEPT !.pc = "terms"]
      <4>1. answered.pc = "terms"
        BY <2>0 DEF Request
      <4>2. req'[r] = [answered EXCEPT !.left = 0, !.failed = TRUE, !.seen = seen, !.updatedAt = updatedAt]
        BY <2>0, <3>4 DEF FallsBackOn
      <4> HIDE DEF answered
      <4>3. req'[r].pc = "terms"
        BY <4>1, <4>2
      <4> QED
        BY <2>1, <3>1, <4>3
    <3> QED
      BY <2>2, <3>2, <3>3, <3>4 DEF FetchFails, QuoteEnvironment
  <2>3. ASSUME NEW r \in Req, NEW c \in Currency, StartDeposit(r, c) PROVE FeeInBand'
    <3>1. \A s \in Req : s # r => req'[s] = req[s]
      BY <2>0, <2>3 DEF StartDeposit, AskForQuote
    <3>2. req'[r].pc \in {"terms", "prices"}
      BY <2>0, <2>3 DEF StartDeposit, AskForQuote, IdleRequest
    <3> QED
      BY <2>1, <3>1, <3>2
  <2>4. ASSUME NEW r \in Req, PriceDeposit(r) PROVE FeeInBand'
    <3>1. PICK amount \in Amount, rate \in RatesOf(req[r].currency) :
            /\ BobEquivalent(amount, rate) >= 100 * FixedFeeMin
            /\ req' = [req EXCEPT ![r].pc = "deposit",
                                  ![r].terms = DepositTerms(req[r].currency, amount, rate)]
      BY <2>4 DEF PriceDeposit
    <3> DEFINE t == DepositTerms(req[r].currency, amount, rate)
    <3>2. DepositBand(t)
      BY <2>0, <3>1, DepositFees DEF Request
    <3>3. req' = [req EXCEPT ![r].pc = "deposit", ![r].terms = t]
      BY <3>1
    <3> HIDE DEF t
    <3>4. /\ req'[r].pc = "deposit" /\ req'[r].terms = t
          /\ \A s \in Req : s # r => req'[s] = req[s]
      BY <2>0, <3>3 DEF Request
    <3> QED
      BY <1>2, <3>2, <3>4 DEF FeeInBand
  <2>5. ASSUME NEW r \in Req, NEW a \in Account, NEW c \in Currency, StartWithdrawal(r, a, c)
        PROVE  FeeInBand'
    <3>1. PICK amount \in Amount, rate \in RatesOf(c) :
            /\ amount >= MinAmount
            /\ req' = [req EXCEPT ![r] = [IdleRequest EXCEPT
                 !.pc = "withdrawal", !.currency = c, !.account = a,
                 !.terms = WithdrawalTerms(amount, rate)]]
      BY <2>5 DEF StartWithdrawal
    <3> DEFINE t == WithdrawalTerms(amount, rate)
    <3>2. WithdrawalBand(t)
      BY <3>1, WithdrawalFees
    <3>3. req' = [req EXCEPT ![r] = [IdleRequest EXCEPT
                    !.pc = "withdrawal", !.currency = c, !.account = a, !.terms = t]]
      BY <3>1
    <3> HIDE DEF t
    <3>4. /\ req'[r].pc = "withdrawal" /\ req'[r].terms = t
          /\ \A s \in Req : s # r => req'[s] = req[s]
      BY <2>0, <3>3 DEF IdleRequest
    <3> QED
      BY <1>2, <3>2, <3>4 DEF FeeInBand
  <2>6. ASSUME NEW r \in Req, NEW k \in Key, StartAccount(r, k) PROVE FeeInBand'
    BY <2>0, <2>1, <2>6 DEF StartAccount, IdleRequest
  <2>7. ASSUME NEW r \in Req, InsertDeposit(r) \/ InsertAccount(r) \/ InsertWithdrawal(r) \/ Fail(r)
        PROVE  FeeInBand'
    BY <2>0, <2>1, <2>7 DEF InsertDeposit, InsertAccount, InsertWithdrawal, Fail, Respond
  <2>8. CASE Restart
    BY <2>0, <2>8 DEF Restart, FeeInBand
  <2>9. ASSUME UNCHANGED req PROVE FeeInBand'
    BY <1>2, <2>9 DEF FeeInBand
  <2>10. ASSUME NEW p \in Poll, StartPoll(p) \/ SeePollPrice(p) \/ FinishPoll(p) \/ PollFails(p)
         PROVE  FeeInBand'
    BY <2>9, <2>10 DEF StartPoll, SeePollPrice, FinishPoll, PollFails
  <2>11. CASE RatesNext
    BY <2>2, <2>9, <2>10, <2>11 DEF RatesNext, Tick
  <2>12. ASSUME NEW r \in Req, OrdersNext(r) PROVE FeeInBand'
    BY <2>3, <2>4, <2>5, <2>6, <2>7, <2>12 DEF OrdersNext
  <2>13. CASE (\E a \in Account : RemoveAccount(a)) \/ UNCHANGED vars
    BY <2>9, <2>13 DEF RemoveAccount, vars
  <2> QED
    BY <1>2, <2>8, <2>11, <2>12, <2>13 DEF Next
<1> QED
  BY <1>1, <1>2, TypeInit, TypeStep, PTL DEF Spec
=============================================================================
