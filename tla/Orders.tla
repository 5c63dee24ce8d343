------------------------------ MODULE Orders ------------------------------
(***************************************************************************)
(* What an order is made of: the quote and the fee of a deposit, the rate, *)
(* the fee and the bank account of a withdrawal, and the bank accounts     *)
(* themselves.  What becomes of the rows is the subject of Deposits and    *)
(* Withdrawals.                                                            *)
(*                                                                         *)
(* Amounts are in units of 100 BOB or PEN, rates in hundredths, feeRate in *)
(* millionths; a fee is the fraction num / den.                            *)
(***************************************************************************)
EXTENDS Rates

CONSTANTS
  NumAccounts,\* bound: the bank accounts ever made
  Key,        \* owner, bank and number of an account, together
  CountryOf,  \* CountryOf[k]: the country of the bank of k
  Amount,     \* amounts asked for
  Rate,       \* rates PEN to BOB, and BOB to PEN
  RateLock,   \* RATE_LOCK_MINUTES
  MinAmount,  \* Monto_Minimo
  MinFee,     \* COMISION_MINIMA
  PerMille    \* PORCENTAJE, in thousandths

Account  == 1 .. NumAccounts
Currency == {"BOB", "PEN"}
Country  == {"Bolivia", "PERU"}

ASSUME OrdersAssumption ==
  /\ CountryOf \in [Key -> Country]
  /\ Amount \subseteq Nat \ {0} /\ Rate \subseteq Nat \ {0}
  /\ RateLock \in Nat /\ MinAmount \in Nat \ {0} /\ MinFee \in Nat /\ PerMille \in Nat
  /\ NumAccounts \in Nat /\ None \notin Key

VARIABLES
  account,  \* account[a]: the row of bank_accounts with id a
  used,     \* the accounts that a row of withdrawal_details refers to
  raced     \* history: the keys two requests were creating at once

bankVars == <<account, used, raced>>
vars == <<rateVars, req, bankVars>>

AccountRow == [key : Key \cup {None}, status : {"ABSENT", "OPEN", "GONE"}]

(* The numbers of an order.                                                *)
Terms   == [amount : Nat, rate : Nat, num : Nat, den : Nat, feeRate : Nat]
NoTerms == [amount |-> 0, rate |-> 0, num |-> 0, den |-> 1, feeRate |-> 0]

Request == [pc        : {"idle", "prices", "terms", "deposit", "withdrawal", "account"},
            currency  : Currency,
            asked     : Time,                 \* when it came in
            left      : 0 .. 2,               \* prices it waits for
            seen      : Time,                 \* when Binance had the older of its prices
            updatedAt : Time,                 \* the date of its quote
            failed    : BOOLEAN,              \* Binance failed
            terms     : Terms,
            account   : 0 .. NumAccounts,
            key       : Key \cup {None}]

IdleRequest == [pc |-> "idle", currency |-> "BOB", asked |-> 0, left |-> 0, seen |-> 0,
                updatedAt |-> 0, failed |-> FALSE, terms |-> NoTerms, account |-> 0, key |-> None]

Respond(r) == req' = [req EXCEPT ![r] = IdleRequest]
-----------------------------------------------------------------------------
FixedFeeMin == 100   \* 10 000 BOB
FixedFeeMax == 1000  \* 100 000 BOB

(* BOB is 1:1 (what a withdrawal stores, BOB_TO_BOBH, converts nothing).   *)
RatesOf(currency) == IF currency = "PEN" THEN Rate ELSE {100}

(* The equivalent in BOB, in hundredths of a unit.                         *)
BobEquivalent(amount, rate) == amount * rate

(* Variant: 100 of either currency.                                        *)
SameFee(currency, rate) == <<1, 1>>

(* 100 BOB, in the currency of the deposit.                                *)
FixedFee(currency, rate) == IF currency = "PEN" THEN <<100, rate>> ELSE <<1, 1>>

(* Division, rounded half up.                                              *)
Rounded(a, b) == (2 * a + b) \div (2 * b)

(* calculateDepositFees: 100 BOB, or from 100 000 BOB on a thousandth.     *)
DepositTerms(currency, amount, rate) ==
  LET bob   == BobEquivalent(amount, rate)
      fixed == FixedFee(currency, rate)
  IN
  IF bob < 100 * FixedFeeMax
  THEN [amount |-> amount, rate |-> rate, num |-> fixed[1], den |-> fixed[2],
        feeRate |-> Rounded(1000000 * fixed[1], amount * fixed[2])]
  ELSE [amount |-> amount, rate |-> rate, num |-> amount, den |-> 1000, feeRate |-> 1000]

(* create: the percentage, but no less than the smallest fee.  feeRate is  *)
(* the percentage in either case.                                          *)
WithdrawalTerms(amount, rate) ==
  [amount  |-> amount, rate |-> rate,
   num     |-> IF amount * PerMille > 1000 * MinFee THEN amount * PerMille ELSE 1000 * MinFee,
   den     |-> 1000,
   feeRate |-> 1000 * PerMille]
-----------------------------------------------------------------------------
(* createDeposit: only PEN needs a quote.                                  *)
StartDeposit(r, currency) ==
  /\ side = "deposits" /\ req[r].pc = "idle"
  /\ LET q == [IdleRequest EXCEPT !.currency = currency, !.asked = now] IN
     \/ currency = "PEN" /\ AskForQuote(r, q)
     \/ /\ currency = "BOB"
        /\ req' = [req EXCEPT ![r] = [q EXCEPT !.pc = "terms"]]
        /\ UNCHANGED rateVars
  /\ UNCHANGED bankVars

RateExpiresAt(r) == req[r].updatedAt + RateLock

(* createDeposit: the minimum, the company's account, the fee; the insert  *)
(* follows, with up to five reference codes.                               *)
PriceDeposit(r) ==
  /\ req[r].pc = "terms"
  /\ \E amount \in Amount, rate \in RatesOf(req[r].currency) :
       /\ BobEquivalent(amount, rate) >= 100 * FixedFeeMin
       /\ req' = [req EXCEPT ![r].pc = "deposit",
                             ![r].terms = DepositTerms(req[r].currency, amount, rate)]
  /\ UNCHANGED <<rateVars, bankVars>>

InsertDeposit(r) ==
  /\ req[r].pc = "deposit"
  /\ Respond(r)
  /\ UNCHANGED <<rateVars, bankVars>>
-----------------------------------------------------------------------------
(* Variant: the look-up is left out.                                       *)
Anyway(k) == TRUE

NoneAlike(k) == \A a \in Account : account[a] # [key |-> k, status |-> "OPEN"]

(* BankAccountsService.create: no account is like it ...                   *)
StartAccount(r, k) ==
  /\ side = "withdrawals" /\ req[r].pc = "idle"
  /\ NoneAlike(k)
  /\ req' = [req EXCEPT ![r] = [IdleRequest EXCEPT !.pc = "account", !.key = k]]
  /\ raced' = IF \E s \in Req : req[s].key = k THEN raced \cup {k} ELSE raced
  /\ UNCHANGED <<rateVars, account, used>>

(* ... and the row is inserted, with a new id.                             *)
InsertAccount(r) ==
  /\ req[r].pc = "account"
  /\ \E a \in Account :
       /\ account[a].status = "ABSENT" /\ \A b \in 1 .. a - 1 : account[b].status # "ABSENT"
       /\ account' = [account EXCEPT ![a] = [key |-> req[r].key, status |-> "OPEN"]]
  /\ Respond(r)
  /\ UNCHANGED <<rateVars, used, raced>>

(* Variant: the rows that refer to the account do not stand in the way.    *)
AnyAccount(a) == account[a].status = "OPEN"

(* The foreign key of withdrawal_details restricts the deletion.           *)
Removable(a) == account[a].status = "OPEN" /\ a \notin used

(* BankAccountsService.remove.                                             *)
RemoveAccount(a) ==
  /\ Removable(a)
  /\ account' = [account EXCEPT ![a] = [key |-> None, status |-> "GONE"]]
  /\ UNCHANGED <<rateVars, req, used, raced>>
-----------------------------------------------------------------------------
(* validateCurrencyByCountry.                                              *)
Admits(country, currency) ==
  IF currency = "BOB" THEN country = "Bolivia" ELSE country = "PERU"

(* RetiroService.create: the amount is enough, the account exists and is   *)
(* in the country of the currency, and there is a rate, which PEN is       *)
(* converted at.                                                           *)
StartWithdrawal(r, a, currency) ==
  /\ side = "withdrawals" /\ req[r].pc = "idle"
  /\ account[a].status = "OPEN" /\ Admits(CountryOf[account[a].key], currency)
  /\ lastRate # None
  /\ \E amount \in Amount, rate \in RatesOf(currency) :
       /\ amount >= MinAmount
       /\ req' = [req EXCEPT ![r] = [IdleRequest EXCEPT
            !.pc = "withdrawal", !.currency = currency, !.account = a,
            !.terms = WithdrawalTerms(amount, rate)]]
  /\ UNCHANGED <<rateVars, bankVars>>

(* The transaction; it is rolled back if the account is gone.              *)
InsertWithdrawal(r) ==
  /\ req[r].pc = "withdrawal"
  /\ used' = IF account[req[r].account].status = "OPEN" THEN used \cup {req[r].account} ELSE used
  /\ Respond(r)
  /\ UNCHANGED <<rateVars, account, raced>>
-----------------------------------------------------------------------------
Init ==
  /\ now = 0 /\ side \in Side
  /\ cache = None /\ lastRate \in FirstRate
  /\ poll = [p \in Poll |-> IdlePoll]
  /\ req = [r \in Req |-> IdleRequest]
  /\ account = [a \in Account |-> [key |-> None, status |-> "ABSENT"]]
  /\ used = {} /\ raced = {}

(* An await is rejected, or there is no company account, no user, too      *)
(* small an amount, or neither Binance nor the cache nor PEN_TO_BOB_RATE   *)
(* has a quote.                                                            *)
Fail(r) ==
  /\ req[r].pc # "idle" /\ (req[r].pc = "prices" => cache = None)
  /\ Respond(r)
  /\ UNCHANGED <<rateVars, bankVars>>

(* The process stops and is started again: only the tables are left.       *)
Restart ==
  /\ cache' = None /\ lastRate' \in FirstRate
  /\ poll' = [p \in Poll |-> IdlePoll]
  /\ req' = [r \in Req |-> IdleRequest]
  /\ UNCHANGED <<now, side, bankVars>>

RatesNext ==
  \/ Tick
  \/ \E r \in Req : SeePrice(r) \/ FinishFetch(r) \/ FetchFails(r) \/ QuoteEnvironment(r)
  \/ \E p \in Poll : StartPoll(p) \/ SeePollPrice(p) \/ FinishPoll(p) \/ PollFails(p)

OrdersNext(r) ==
  \/ \E c \in Currency : StartDeposit(r, c)
  \/ PriceDeposit(r) \/ InsertDeposit(r)
  \/ \E k \in Key : StartAccount(r, k)
  \/ InsertAccount(r)
  \/ \E a \in Account, c \in Currency : StartWithdrawal(r, a, c)
  \/ InsertWithdrawal(r)
  \/ Fail(r)

Next ==
  \/ RatesNext /\ UNCHANGED bankVars
  \/ \E r \in Req : OrdersNext(r)
  \/ \E a \in Account : RemoveAccount(a)
  \/ Restart

(* The interval starts poll after poll; Binance answers again and again,   *)
(* also the second request of a poll, and what is answered arrives.        *)
SomePoll(left) == \E p \in Poll : poll[p].left = left /\ SeePollPrice(p) /\ UNCHANGED bankVars
Fairness ==
  /\ WF_vars(\E p \in Poll : StartPoll(p) /\ UNCHANGED bankVars)
  /\ SF_vars(SomePoll(2))
  /\ SF_vars(SomePoll(1))
  /\ SF_vars(\E p \in Poll : FinishPoll(p) /\ UNCHANGED bankVars)

Spec == Init /\ [][Next]_vars /\ Fairness
-----------------------------------------------------------------------------
(* Every variable has its type.                                            *)
TypeOK ==
  /\ now \in Time /\ side \in Side
  /\ cache \in Entry \cup {None} /\ lastRate \in LastRate \cup {None}
  /\ poll \in [Poll -> PollState]
  /\ req \in [Req -> Request]
  /\ account \in [Account -> AccountRow]
  /\ used \subseteq Account /\ raced \subseteq Key

(* The prices a PEN deposit is computed with were seen less than           *)
(* CacheSeconds before it was asked for, and its rate lock runs for the    *)
(* time promised but for less than CacheSeconds, unless Binance failed:    *)
(* however slow the answers are and whichever request filled the cache.    *)
QuoteIsFresh ==
  \A r \in Req :
    LET q == req[r] IN
    q.pc = "deposit" /\ q.currency = "PEN" /\ ~q.failed =>
      /\ q.seen + CacheSeconds > q.asked
      /\ RateExpiresAt(r) + CacheSeconds > q.asked + RateLock

(* What a deposit pays is between 0.1 % and 1 % of it, and feeRate is what *)
(* it pays over the amount, to the last of six decimals.                   *)
DepositBand(t) ==
  LET base == t.amount * t.den IN
  /\ base <= 1000 * t.num /\ 100 * t.num <= base
  /\ 2 * base * t.feeRate <= 2 * (1000000 * t.num) + base
  /\ 2 * (1000000 * t.num) < 2 * base * t.feeRate + base

(* What a withdrawal pays is the percentage, or more than that but no more *)
(* than the smallest withdrawal would pay in proportion.                   *)
WithdrawalBand(t) ==
  \/ t.num * 1000 = t.amount * PerMille * t.den
  \/ /\ t.num * 1000 > t.amount * PerMille * t.den
     /\ t.num * MinAmount <= MinFee * t.amount * t.den

(* The fee of a deposit stays in its band in either currency, at every     *)
(* rate and on both sides of the limits where its formula changes, and so  *)
(* does the fee of a withdrawal.  (calculateDepositFees, create.)          *)
FeeInBand ==
  \A r \in Req :
    /\ req[r].pc = "deposit" => DepositBand(req[r].terms)
    /\ req[r].pc = "withdrawal" => WithdrawalBand(req[r].terms)

(* The account of every withdrawal is still there, although it is looked   *)
(* up long before the withdrawal is inserted and may be removed meanwhile. *)
(* (RetiroService.create, BankAccountsService.remove.)                     *)
WithdrawalHasAccount ==
  \A a \in used : account[a].status = "OPEN"

(* Two accounts with the same owner, bank and number are there only if two *)
(* requests were creating one at once.                                     *)
TwinsWereRaced ==
  \A a, b \in Account :
    a # b /\ account[a] = account[b] /\ account[a].status = "OPEN" => account[a].key \in raced

(* While the program runs, the rate of withdrawals is never lost, and goes *)
(* back to older prices only when the poll that sets it overlapped another.*)
RateGoesForward ==
  [][lastRate # None =>
       \/ lastRate' = lastRate
       \/ lastRate' # None /\ lastRate'.first >= lastRate.last
       \/ \E p \in Poll : poll[p].overlapped /\ FinishPoll(p)
       \/ Restart]_vars

(* Whatever time it is, the rate of withdrawals comes to be made of prices *)
(* seen then or later, whichever polls fail, hang or overlap.              *)
RateCatchesUp ==
  \A t \in Time :
    side = "poll" /\ now >= t ~> lastRate # None /\ lastRate.first >= t
=============================================================================
