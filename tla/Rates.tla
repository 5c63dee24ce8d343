------------------------------- MODULE Rates -------------------------------
(***************************************************************************)
(* The two services that quote PEN against BOB, both from Binance P2P.     *)
(* Deposits ask RatesService, which keeps the last quote for some seconds  *)
(* and falls back on it, or on PEN_TO_BOB_RATE, when Binance fails.        *)
(* Withdrawals take the last rate of RateService, which polls every five   *)
(* seconds, whether or not the poll before has ended.                      *)
(*                                                                         *)
(* A quote is known by when Binance had its two prices.  Deposits do not   *)
(* see the polls, and withdrawals see no more of them than whether there   *)
(* is a rate, so a behaviour follows one of the three only.                *)
(***************************************************************************)
EXTENDS Naturals

CONSTANTS
  Req,          \* identities for requests in flight
  Poll,         \* identities for polls in flight
  CacheSeconds, \* RATE_CACHE_SECONDS
  MaxTime,      \* bound: the clock
  None          \* null

ASSUME RatesAssumption == CacheSeconds \in Nat \ {0} /\ MaxTime \in Nat

Time == 0 .. MaxTime

VARIABLES
  now,     \* the clock
  side,    \* what this behaviour follows
  cache,   \* BinanceP2PRatesProvider.cache
  poll,    \* poll[p]: an actualizarTipoCambio in flight
  lastRate,\* RateService.lastRate
  req      \* req[r]: the order r is working on, and what it has read

Side == {"deposits", "withdrawals", "poll"}

rateVars == <<now, side, cache, poll, lastRate>>

(* When the older of the two prices was seen; the cached quote's date and  *)
(* when it expires.                                                        *)
Entry == [seen : Time, updatedAt : Time, expires : Nat]

(* A poll: how many prices it waits for, when it saw the first and last.   *)
PollState == [busy : BOOLEAN, left : 0 .. 2, first : Time, last : Time,
              overlapped : BOOLEAN]  \* history: another poll was in flight with it
IdlePoll  == [busy |-> FALSE, left |-> 0, first |-> 0, last |-> 0, overlapped |-> FALSE]

LastRate == [first : Time, last : Time]

ASSUME NullAssumption == None \notin LastRate

Tick ==
  /\ now < MaxTime /\ now' = now + 1
  /\ UNCHANGED <<side, cache, poll, lastRate, req>>
-----------------------------------------------------------------------------
Hit == cache # None /\ now < cache.expires

(* getPenToBobRateCached: the cached quote, or two requests to Binance.    *)
AskForQuote(r, q) ==
  /\ req' = [req EXCEPT ![r] =
       IF Hit THEN [q EXCEPT !.pc = "terms", !.seen = cache.seen, !.updatedAt = cache.updatedAt]
       ELSE [q EXCEPT !.pc = "prices", !.left = 2]]
  /\ UNCHANGED rateVars

(* Variant: an answer more than there were requests.                       *)
AwaitsAny(r) == req[r].pc = "prices"

AwaitsPrice(r) == req[r].pc = "prices" /\ req[r].left > 0

(* fetchP2PPrice: one of the two prices, as Binance has it now.            *)
SeePrice(r) ==
  /\ AwaitsPrice(r)
  /\ req' = [req EXCEPT ![r].left = @ - 1, ![r].seen = IF req[r].left = 2 THEN now ELSE @]
  /\ UNCHANGED rateVars

(* Variant: the seconds are counted from the answer.                       *)
FromAnswer(r) == now + CacheSeconds

Expiry(r) == req[r].asked + CacheSeconds

(* Both prices are there: the quote goes to the cache, over whatever a     *)
(* request that overlapped has put there.                                  *)
FinishFetch(r) ==
  /\ req[r].pc = "prices" /\ req[r].left = 0
  /\ cache' = [seen |-> req[r].seen, updatedAt |-> now, expires |-> Expiry(r)]
  /\ req' = [req EXCEPT ![r].pc = "terms", ![r].updatedAt = now]
  /\ UNCHANGED <<now, side, poll, lastRate>>

(* A quote that is not Binance's answer to this request.                   *)
FallsBackOn(r, seen, updatedAt) ==
  /\ req[r].pc = "prices"
  /\ req' = [req EXCEPT ![r] =
       [@ EXCEPT !.pc = "terms", !.left = 0, !.failed = TRUE, !.seen = seen, !.updatedAt = updatedAt]]
  /\ UNCHANGED rateVars

(* Binance fails, or its answer makes no sense: getPenToBobRateCached      *)
(* returns the cached quote whatever its age ...                           *)
FetchFails(r) == cache # None /\ FallsBackOn(r, cache.seen, cache.updatedAt)

(* ... or, if there is none, getPenToBobRate takes PEN_TO_BOB_RATE as of   *)
(* now.                                                                    *)
QuoteEnvironment(r) == cache = None /\ FallsBackOn(r, now, now)
-----------------------------------------------------------------------------
(* onModuleInit: the first poll is awaited before anything is served.      *)
FirstRate == {None, [first |-> now, last |-> now]}

(* Variant: there is no need to poll when there is a rate.                 *)
MayPollOnce(p) == ~poll[p].busy /\ lastRate = None

MayPoll(p) == ~poll[p].busy

(* actualizarTipoCambio, every five seconds.                               *)
StartPoll(p) ==
  LET others == \E q \in Poll : poll[q].busy IN
  /\ side = "poll" /\ MayPoll(p)
  /\ poll' = [q \in Poll |->
       IF q = p THEN [IdlePoll EXCEPT !.busy = TRUE, !.left = 2, !.overlapped = others]
       ELSE [poll[q] EXCEPT !.overlapped = poll[q].busy]]
  /\ UNCHANGED <<now, side, cache, lastRate, req>>

SeePollPrice(p) ==
  /\ poll[p].left > 0
  /\ poll' = [poll EXCEPT ![p].left = @ - 1, ![p].last = now,
                          ![p].first = IF poll[p].left = 2 THEN now ELSE @]
  /\ UNCHANGED <<now, side, cache, lastRate, req>>

FinishPoll(p) ==
  /\ poll[p].busy /\ poll[p].left = 0
  /\ lastRate' = [first |-> poll[p].first, last |-> poll[p].last]
  /\ poll' = [poll EXCEPT ![p] = IdlePoll]
  /\ UNCHANGED <<now, side, cache, req>>

(* Variant: an error leaves no rate.                                       *)
NoRate == None

RateAfterError == lastRate

(* An error is logged; the interval goes on.                               *)
PollFails(p) ==
  /\ poll[p].busy
  /\ lastRate' = RateAfterError
  /\ poll' = [poll EXCEPT ![p] = IdlePoll]
  /\ UNCHANGED <<now, side, cache, req>>
=============================================================================
