# TLA+ model of the HUNBOLI backend

The backend (NestJS, Prisma on PostgreSQL) sells and redeems BOBH, a token
pegged 1:1 to the boliviano.  A user transfers money to a company account,
uploads the proof, an operator approves it and proposes the mint of the tokens
to a Safe multisig, the owners of the Safe sign and execute it, and two
background components find out and settle the operation.  Redemptions run the
other way.  Paths below are relative to the repository root, as the repository
is checked out under `src/` (so `src/src/deposits/...` is its `src/deposits`).

## 1. Inventory

| component | state it keeps | operations that change state | modelled in |
|---|---|---|---|
| deposits (`src/src/deposits`) | `FiatOperation` + `DepositDetail` rows | `createDeposit`, `uploadProof` | `DepositReview` |
| review (`src/src/admin-deposits/admin-deposit-review.service.ts`) | the same rows | `decide`, `requestCorrection` | `DepositReview` |
| mint proposal (`.../admin-mint-proposal.service.ts`) | `safeTxHash`, `safeProposedAt`, `users.isFirstMint` | `proposeMint` | `MintProposal` |
| Safe client (`src/src/safe`) | none; the Safe service keeps proposals and a nonce | propose a mint, a batch with gas airdrop, a redemption; look a hash up | `MintProposal`, `Withdrawals`; external part marked |
| mint-sync job (`src/src/jobs`) | `running`, `lastFailureAt` in memory | cron run: settle the deposits whose hash was executed | `MintSettlement` |
| chain listener (`src/src/listener/listener.service.ts`) | `lastProcessedBlock`, `isProcessing` in memory; `EventLog` rows | start-up, poll | `EventListener` |
| event processor (`src/src/listener/processors`) | the rows of deposits, withdrawals, users, `BlacklistEntry`; `isPaused` in memory | one handler per event | `onMinted` in `MintSettlement`, redemptions in `Withdrawals`, blacklist and pause in `Blacklist`; all of them counted in `EventListener` |
| users (`src/src/users`) | `users` rows | `create`, `linkWallet`, `completeProfile`; telephone, password | `SignUp`; the wallet a mint goes to also in `MintProposal` |
| withdrawals (`src/src/retiro`, `src/src/admin-retiros`) | `FiatOperation` + `WithdrawalDetail` | create; admin update with Safe proposal, upload, mail | `Withdrawals`; amount, rate, fee and account in `Orders` |
| authentication (`src/src/auth`) | codes and registrations in a cache of the process, reset tokens | register, resend, verify, Google, forgot, reset | `SignUp` |
| KYC, verification (`src/src/kyc`, `verification`) | `kycStatus`, `kycSessionId`, `isVerified`, `verification_requests` | start, webhook, create, accept, reject, remove; the guard | `Kyc` |
| bank accounts (`src/src/bank-accounts`) | `BankAccount` rows | create, remove | `Orders` |
| rates (`src/src/rates`, `rate`) | a cached quote; the last polled rate | refresh on demand; a poll every 5 s | `Rates` |
| queries, history, banks, company accounts, `exchange-rate`, `p2-p` | none | read-only | not modelled |
| mail (`src/src/mail`) | none | the mails of a withdrawal | `Mailed` in `Withdrawals`: the error is caught and logged, so a mail may be lost and the caller goes on.  Only the mails with a code or a reset link throw |
| cloudinary, Prisma client, bootstrap | none | external calls | each is an `await` that answers or throws |

**How they interact.**  Everything meets in the database, and every handler has
the same shape: read a row, evaluate guards on what was read, await something
(Cloudinary, the Safe service, or just the database), then `update({ where: { id } })`.
No update repeats the guard, there is no row lock and no version column, and only
the job's last two updates share a transaction.  The components call the Safe
service and the chain, which know nothing of the database; the answers come back
through two independent channels, the job (by hash) and the listener (by wallet).

**What is hard here.**

* interleaving: two requests on one deposit, a request and the job, the job and
  the listener, all between a read and its write;
* partial failure: Safe has accepted a proposal and its hash is not saved; the
  listener has stored an event and its handler has not finished;
* crash and restart: the pointer, the back-off map and the running flags are in
  memory only;
* ordering and identity: mints are matched to deposits by wallet and date of
  proposal, while the Safe may execute proposals in any order;
* limits: `take: 50`, one nonce shared by the queued proposals, a unique
  `safeTxHash` that is a function of recipient, amount, batch and nonce;
* order within a handler: a withdrawal gets its final status before the Safe is
  asked, and its user is mailed inside the transaction that creates it, by a service
  that swallows its errors;
* time: a rate lock that is checked before an upload and stamped after it; a quote
  that is cached, and two prices in it that were asked for one after the other;
* two writers of one column: KYC, its webhook and the blacklist all write
  `kycStatus`, each after a wait, none looking at what the column says by then;
* data in the process: codes and registrations are in a cache that expires and is
  lost with the process, under keys that overlapping sign-ups share.

`PROJECT.json` lists each hazard with its line and the properties that cover it.

**What must be true**, component by component: a deposit never moves forward
without a proof and an approval; a mint is proposed for an approved amount, once;
a processed deposit has a mint of its own; the airdrop is given once; the rate
lock expires what it should and nothing else; the job settles what was executed;
the listener applies each event once, in order, and loses none; tokens are burned
or returned only for a withdrawal an administrator decided, and the user is told
of nothing that was not done; an account is made of the data its code was sent for;
VERIFIED is earned, and lasts; a token works once; a decision on a document stands; an
order is priced with a fresh quote and a fee in its band, and keeps its bank account.
Some of these
hold under every interleaving; some hold only if the requests on a deposit come one at
a time, and are proved from that; some fail.  Sections 4 and 5 say which.

## 2. The modules

```
DepositState <- DepositReview  \
             <- MintProposal    >-- Deposits --(refines)--> MintLedger
             <- MintSettlement /       |
                                       +- MCDeposits
                                       +- DepositsProofs <- DepositsSafety <- DepositsSequential

EventListener --(refines)--> EventDelivery
              <- MCEventListener
              <- EventListenerProofs

Withdrawals <- MCWithdrawals
            <- WithdrawalsProofs

AccountState <- SignUp           \
             <- Kyc <- Blacklist  >-- Accounts -- MCAccounts
                                         |
                                         +- AccountsProofs <- AccountsSafety

Rates <- Orders <- MCOrders
                <- OrdersProofs
```

**DepositState** has the state.  `op[d]` is the row of `fiat_operations` and its
`deposit_details`, reduced to what guards read: status, whether there is a proof,
whether `proofUploadedAt` is after `rateExpiresAt` (`late`), the review note,
`safeTxHash`, the order of `safeProposedAt`, and `mintTxHash` as the position of
the transaction in `executed`.  `FAILED` is left out of `Status`: no code writes it.
A request in flight is a record in `req`: where it
waits and what it read.  `approved` is a history variable, written
and never read by the handlers.

**DepositReview, MintProposal, MintSettlement** have the handlers.  A handler is
a `Start` action (the read and all the guards, up to the first await) and a
`Finish` action (the update by id).  An await whose outcome decides nothing is
not split further, and reads that no property tells apart are one step: the nonce and the
proposal (`ProposeToSafe`), the two look-ups of `onMinted`, the search and the updates of the
redemption handlers (`ListenRedemption`), the date of a proof and the update that stores it.  Guards have names (`MayApprove`, `Lapsed`, `MayPropose`,
`Taken`...).  Next to some of them stands a definition marked *variant*: the
guard with a mistake in it.  Variants are not part of the model; each shows that
some property would notice that mistake in the code.

The Safe is external: a proposal gets the nonce of the next execution because
`proposeTransactions` passes none (`safe.service.ts:179`), its hash is a function of
its contents, the owners may execute any proposal for the current nonce
(`SafeExecute`) or spend the nonce on something else (`SafeSpendNonce`).

**Deposits** composes them, adds faults (`Fail` of a request, `ListenerFails`,
`Restart`) and states the properties.  When an event is lost (`ListenLost`, `ListenerFails`) the
event is gone for the deposits; why is the subject of **EventListener**, which
models polling, batches, `EventLog`, the retry and the restart on their own, with
a log reduced to its block, whether it is ignored, and the number of separate
updates its handler makes.

**Withdrawals** has the other direction: `row[w]` is the `FiatOperation` of a
withdrawal with its `WithdrawalDetail`; `create` is `StartCreate` and
`CommitCreate` (the mail sent inside the transaction decides nothing, since its failure is
swallowed: `mail.service.ts:55`); the administrator's `update`
is `StartUpdate`, `WriteStatus`, `ProposeRedemption`, `SavePayment`, `TellOutcome`, one
step for each await that matters, in the order of the code.  There is no guard on
the current status in `update`, so there is none in the model.  All statuses that
propose nothing are one (`PENDING`).  `decided` and `cut` are history variables.
`ListenRedemption` is `onRedemptionFinalized` and `onRedemptionRejected`.

**Accounts** composes everything else that writes a user.  `row[u]` is the row of
`users`: whether it exists, `isVerified` (`active`), `kycStatus`, the session, the wallet,
whether there is a password, the reset token and whether it has expired.  Requests
have numbers, and a registration, a token or a session is known by the number of the
request that made it, since each of them is random and only compared for equality.
`SignUp` splits registration at each await (`hash`, `code`, `burn`, `data`, `create`, `drop`),
because the cache keys are per address and any two sign-ups of one address share
them.  `Kyc` splits `start` and the webhook at the provider's answer and the review of
a document at its read: the transaction runs with read committed and takes no lock
before its first update.  `Blacklist` has the handlers of the chain's events as the
list of updates each awaits (`Writes`), so that a handler can be cut off between any
two.  `past[u]` is history: what has happened to the user, which the properties
refer to; `undone[u]` is how the last BLACKLISTED of a user was written over, and is
emptied when it is written again; `spent` is which token changed whose password; `owner`,
`missed` and `raced` are history too.  A sign-up may set the reset token of its row
(`CreateUserDto` admits it, and the column is not unique), to anything: `SignedUp` takes
the token of any request so far, or none.

**Orders** says what an order is made of before it is inserted.  `Rates` has the two
services that quote PEN against BOB: a quote that deposits cache (`AskForQuote`,
`SeePrice`, `FinishFetch`, the fallbacks on the cached quote or on `PEN_TO_BOB_RATE`), and
the rate that polls replace every five seconds (`StartPoll`, `SeePollPrice`, `FinishPoll`),
whether or not the poll before has ended.  A price is known by the time it was seen.
`DepositTerms` and `WithdrawalTerms` are the fee arithmetic, in exact fractions; `Rounded`
is the rounding of `feeRate` to six decimals.  Bank accounts are looked up, inserted and
removed in separate steps; what restricts the removal is the foreign key.  Deposits,
withdrawals and polls have nothing in common but whether there is a rate at all, so a
behaviour follows one of them (`side`).

**MintLedger** is what the pipeline promises, with no requests or services: a
deposit is credited, then its amount issued once, then settled.
**EventDelivery** is what the listener gives the domain: events taken in order,
at most once, only the latest one still being applied.  Both refinements are checked
by a run and proved (section 5).

The modules with theorems are `DepositsProofs`, `DepositsSafety`, `DepositsSequential`,
`EventListenerProofs`, `WithdrawalsProofs`, `AccountsProofs`, `AccountsSafety` and `OrdersProofs`.

## 3. Runs

Every run is `tlc -config <name>.cfg <module>`.

| run | instance | shows |
|---|---|---|
| `deposit_races` | 1 PEN deposit, 2 requests, job and listener, faults, 2 nonces | `ProofBacksStatus`, `EveryMintBacked`, `ProcessedIsMinted`, `OnlyLateDepositsLapse` survive every overlap, failure and restart |
| `single_operator` | 3 deposits of one user (one PEN), 2 wallets, 1 request at a time, no faults, listener off | the pipeline implements `MintLedger`; the peg, one mint per deposit, one airdrop per user (as long as requests do not overlap: see `second_airdrop`), the rate lock, notes, and that PROCESSED is final |
| `job_liveness` | 2 equal deposits, 1 request, faults, listener off, fairness | what the Safe executed is linked in the end; two deposits may get the same hash, and the second save then throws |
| `listener` | 4 logs in 4 blocks (two in the first, one block empty, one log ignored), batches of 2 blocks, crashes and failures anywhere, fairness | `GapsOnlyInTornBlocks`, `MarkedMeansApplied`, that it implements `EventDelivery` (`DeliversInOrder`), and that the pointer reaches every block mined, whatever fails (`PointerCatchesUp`) |
| `withdrawal_races` | 1 withdrawal, 2 requests, listener, faults, 1 nonce | `RedemptionBacked`, `DecisionProposed`, `ToldIsDone` survive every overlap, failure, lost mail and restart |
| `accounts` | 1 user, 2 wallets, 2 codes, 1 document, 2 requests, 4 requests and events in all, failures and restarts | nine properties of accounts survive every overlap: what an account, VERIFIED and a service behind the guard rest on (`AccountMatchesCode`, `VerifiedIsEarned`, `ServedWasCleared`), what lasts (`VerifiedLasts`, `DecisionStands`, `SpentTokenGone`), and what the blacklist's history and the pause flag still mean when handlers are cut off or events lost (`BlockedIsExplained`, `ClosedByRemoval`, `PauseFlagExact`) |
| `orders` | 2 requests, 2 polls, 2 accounts of 2 keys, a clock of 3 instants, amounts on both sides of the fee's limits, failures, restarts, fairness | a deposit's quote is fresh however slow Binance is (`QuoteIsFresh`), fees stay in their band (`FeeInBand`), a withdrawal keeps its account (`WithdrawalHasAccount`), twins come from a race only (`TwinsWereRaced`), the polled rate goes forward (`RateGoesForward`) and catches up (`RateCatchesUp`) |
| `duplicate_mint`, `shared_mint`, `second_airdrop`, `listener_lost_event`, `unlinked_burn` | the smallest instance of each: one user, and one request but in `second_airdrop`, where two must overlap; `Faulty` only in `duplicate_mint` | the disagreements of section 4 |

**Bounds.**  `MaxNonce` bounds what the Safe executes; it must leave room for a
mint and one more transaction, for a second mint of the same deposit or a dead
proposal.  Three deposits are the least for which two of them can get the same
`safeTxHash` without faults: one takes the airdrop, and the other two then have
equal contents.  Two requests are the least that overlap; every handler touches
one deposit, so with one deposit they interfere as much as they can.  The
requests are interchangeable, hence the symmetry in `deposit_races` (no liveness
there).  `BatchSize` 2 of 3 deposits makes the job leave one for the next run.
In the listener, 4 logs give a block of two logs (a crash between them tears it),
an empty block, an ignored log and a handler with two updates.
`DeployBlock` 0, `BatchBlocks` 2 make several batches.
`withdrawal_races` has one withdrawal, since every handler touches one row and
two requests on it interfere as much as they can; two withdrawals with two
requests have too many states, and the proofs cover any number.
`accounts` has one user, as nothing but the uniqueness of wallets and tokens relates two
of them and the proofs of the tokens cover any number; two wallets let a user change
to another one between two events, two codes let a guess be right or wrong.
`MaxCalls` 4 is two requests that overlap after two that led there (a registration and a
session, an addition and a removal); what is in flight continues beyond it.
`orders` has `CacheSeconds` 2 and instants 0 to 2, so a quote can be fresh, old but served,
and expired; amounts 54, 100 and 538 at the rate 1.86 are just above the minimum and on
either side of 100 000 BOB, where the fee becomes a percentage; one key is in each
country, so that the currency rule is met and refused.  The runs but `orders`
switch deadlock checking off because the bounded system stops: the nonces are
used up, every deposit is final, or the last block is mined.

**Fairness.**  `Deposits!Fairness`: cron starts the job again and again and a run
goes through its rows (strong fairness, as restarts may interrupt a run; the job
catches the error of each row, so one row cannot end a run), a back-off ends after
five minutes (weak), and the Safe service and the database answer about a hash if
they are asked often enough.  Nothing is assumed of users, operators or owners.
`EventListener!Fairness`: the process is restarted and a running handler goes on or
throws (weak); cron fires again and again, `getLogs` and `create` succeed for each
range and log if they are tried again and again, and a poll that keeps reaching its
last batch ends one day (strong, as failures and restarts interrupt a poll).  Any
poll may fail.
`Orders!Fairness`: `@Interval(5000)` starts a poll whenever one may start (weak); Binance
answers the first and the second request of some poll again and again, and an answer
that has arrived is stored (strong, as polls fail and restarts take them away).  Nothing
is assumed of one poll: any of them may hang for ever.  `accounts` needs no fairness.

## 4. Where the code and its comments disagree

* `listener_lost_event`: `listener.service.ts:10-15` promises that the pointer
  advances only if all went well and that no event is lost.  The row of
  `EventLog` is created before the handler runs, so the retry finds it (P2002),
  skips the log and advances; a restart resumes after the block of the last row
  with the same result.  `GapsOnlyInTornBlocks` and `EventDelivery` state what is
  left of the promise.
* `duplicate_mint`: `proposeMint` avoids duplicates by looking at `safeTxHash`,
  which is saved after the proposal.  A lost update, a nonce later, and the
  same deposit is minted twice.  (Two operators at once have the same effect.)
* `shared_mint`: `onMinted` looks for *a* deposit of the user, not for the one
  that was minted.  After the job has linked a mint, the listener attaches it
  to the next approved deposit, which is then PROCESSED with nothing minted.
* `unlinked_burn`: the redemption handlers look for a withdrawal without a `TxHash`,
  and `create` always stores one, so a burn is linked to no withdrawal.
  `NothingAwaitsABurn` proves that the search never finds anything.
* `second_airdrop`: the mail of the first mint (`first-mint-airdrop.hbs:82`, which nothing
  sends yet) says that the gas airdrop is given once.  `proposeMint` reads `isFirstMint` before
  it calls the Safe and clears it after: two proposals in flight both carry the airdrop.
  One at a time they do not (`single_operator`, `AirdropOnce`).

Four more need no run:

* `deposit-proof.service.ts:43` says that the rate only blocks the first proof.  `decide`
  compares the date of the latest, and the theorem `RateLock` says that no deposit is
  approved on a late one, corrected or not.
* The mail "Hemos recibido tu solicitud de retiro" (`retiro-pending.hbs:8`) is sent inside the
  transaction, before the commit: it may be about a withdrawal that was rolled back, and a
  withdrawal may be committed without it.  The same mail (`:42`) promises another when the
  withdrawal is processed; PROCESSED is written first, and what throws in between ends the
  request (`cut`), and so does a mail that fails, without a word (`Mailed`).
* `isCurrentlyBlocked` is documented as the current state (`schema.prisma:188`).  `start` lets
  a BLACKLISTED user open a KYC session and writes PENDING over it, and the webhook writes
  VERIFIED, while the entry goes on saying blocked: `BlockedIsExplained` has to except it.
* `create` refuses a bank account that is there ("La cuenta bancaria ya existe"), by a look-up
  that two requests pass together: `TwinsWereRaced` has to except it.

`deposit_races` shows what is true in spite of them: the mint a PROCESSED
deposit is linked to exists, even if it is not its own.  `withdrawal_races` does
the same for withdrawals: a final status stands for a proposal, or for an update
that was cut off between the two; the row cannot tell which.

Some properties of `accounts` and `orders` except a race by name, because the code has it and
no comment promises that it has none.  Of that race they say nothing; what they say is that
there is no other way.  A `start` that waits takes VERIFIED back (`restarted` in
`VerifiedLasts`), two decisions of one document made at once both count (`raced` in
`DecisionStands`), overlapping sign-ups of one address may confirm one registration with the
code of another (`crossed` in `AccountMatchesCode`), a poll that overlapped puts older prices
back (`overlapped` in `RateGoesForward`), and twins come of two creations at once (`raced` in
`TwinsWereRaced`).  Likewise `BlockedIsExplained` names the ways in which BLACKLISTED is lost
under a current entry (`undone`, or a removal cut off halfway); and `SpentTokenGone` is about
the row: two resets that have both read a token both change the password.

## 5. Proofs

`tlapm DepositsSafety.tla` (it uses `DepositsProofs.tla`).  The theorems hold for
any number of deposits, users, wallets and requests, any amounts, the listener
on or off, with or without faults.  The assumptions are `DepositAssumption` (the
constants have their types, amounts are positive) and `NullAssumption` (`None` is
neither a wallet nor a transaction, `Other` is not a mint).

* `TypeCorrect == Spec => []TypeOK`.  `TypeOK` alone is not inductive: a proposal
  contains the wallet `proposeMint` read, which has to be a wallet and not
  `None`.  `TypeInv` adds that a request waiting for Safe has one.
* `ProofBacked`, `MintsBacked`, `ProcessedMinted`, `LateLapse`.  The updates
  select by id alone, so what protects a row is only what its writer read before
  it waited.  `SafetyInv` says of every handler in flight, every row the job
  has fetched and the event being linked that what they rely on still stands.
  It is inductive because each such fact is of a kind that is never undone
  (`Grows`): a proof is never removed, an approval and an executed transaction
  stay, a rate lock that ended has ended.  `Frame`, `FrameRow` and `FrameNoRow` say
  so once; the step of each action then only looks at the row or handler it
  writes.

`tlapm DepositsSequential.tla` proves the properties of `single_operator`.  TLC finds each
of them violated when requests on one deposit overlap (two are enough, three for
`OneMintPerDeposit`), so each theorem is about the behaviours in which certain requests do
not, a hypothesis of the form `[]P` besides `Spec`, and says which of the other things that
can go wrong it still allows:

| theorem | requests | faults and restarts | listener |
|---|---|---|---|
| `RateLock` (`RateLockHonoured`), `NoteCleared` (`NoteClearedOnResubmit`), `FinalStays` (`FinalIsFinal`) | one per deposit at a time (`OnePerDeposit`) | any | on or off |
| `OneMint` (`OneMintPerDeposit`) | one per deposit | any | off |
| `Peg` (`PegHolds`) | one per deposit | none | on or off |
| `AirdropOnce` (`AirdropOncePerUser`) | one per user (`OnePerUser`) | none | on or off |
| `LedgerImplemented` (`ImplementsLedger`) | one per deposit, one proposal at a time (`ProposalsInTurn`) | none | off |

`Req` still has any number of requests: those on different deposits overlap as they
please, and so do the job and the listener with all of them.  None of the hypotheses is
idle.  A fault between the answer of the Safe and the update that saves it is the
`duplicate_mint` of section 4, and loses the airdrop's flag the same way; with the listener
on there is `shared_mint`; and two proposals of equal contents made at once have one hash,
which is then on its way to two deposits when it is executed, so that the ledger would
have to issue for both.

* `ReviewInv` is the core: with one request per deposit, what a handler has read of its row
  is still so when it writes (`Fresh`), and a deposit is approved exactly when it is
  APPROVED or PROCESSED (`Reviewed`).  The job and the listener can be held back by
  nobody; they do no harm because they only write rows that are approved, and those no
  decision is waiting for (`ApprovedUndisturbed`).
* `HashInv` says by whom a proposal is known: every proposal is held (`Holds`) by a deposit
  whose row has its hash or by the request about to save it, unless a fault lost it, and no
  two rows have one hash.  `SettleInv` says that without the listener a deposit is linked
  only to the execution of its own hash.  `AirdropInv` ties `isFirstMint` to the hashes of
  the batches with the airdrop.
* The peg and the ledger are about sums over sets (`MapThenSumSet`).  A sum is what a
  recursion over the subsets says, so the module first shows that a table of such sums
  exists, is unique (`RecursExists`, `RecursUnique`) and does not depend on the order in which
  elements are taken out (`TallyOfRecurs`), that corresponding sets have equal sums
  (`TallyAgrees`) and larger sets larger ones (`TallyGrows`).  Each is proved by the least
  cardinality at which it would fail (`LeastNat`), since the library's induction theorems
  cannot be instantiated here.  `PegKept` then maps each executed mint to the deposit that
  holds it: one to one, to approved deposits, of the same amount.
* `LedgerImplemented` goes step by step: a decision to approve is `Credit` (`LedgerOutside`),
  the execution of a proposal is `Issue` for the one deposit it is known by
  (`ExecutionIssues`), the job's update is `Settle`, unless the deposit already was, and every
  other step leaves the ledger as it is (`ProposalIssuesNothing`, `SpentNonceIssuesNothing`).
* `AirdropsCounted` counts: batches with the airdrop are mapped one to one to the users who
  lost the flag, or to the requests about to take it away.

`tlapm EventListenerProofs.tla` is about any logs, blocks, batch size and handlers that
satisfy `ListenerAssumption` (the logs are in the order of their blocks, and none is before
the contract's own block).  `TypeCorrect`, `GapsTorn`, `MarkedApplied` and
`ImplementsDelivery` rest on one invariant, `ListenerInv`: above the pointer nothing is missing
below what is stored (`NoGapAhead`), a poll has dealt with every block up to the range it
asks for next but for the logs of its batch still to do (`PollCovers`), what is missing below
a stored log shares its block with one that is stored (`GapsAreTorn`), and only the log
stored last can have its handler running (`HandlerInv`).  The refinement maps what
`EventDelivery` has taken to the last log stored; `MaxOfBounded` says that this last log
exists.

`tlapm WithdrawalsProofs.tla` proves the four properties of `withdrawal_races`, and
`NothingAwaitsABurn`, for any number of withdrawals, users, wallets and requests,
from `WithdrawalAssumption` and `WithdrawalNull` (`None` is no wallet).
`WithdrawalInv` says of each request in flight, row, mail and proposal what it rests
on.  `CreatesAlone` (one creation per row) is the part that is not of the kind
that is never undone; `DecisionStands` has the three ways in which a final status
may stand: proposed, about to be proposed by a request that wrote that very
status, or cut off.  `TypeOK` needs it for the same reason as above: a proposal
contains the wallet `update` read.

`tlapm AccountsSafety.tla` (it uses `AccountsProofs.tla`) is about any number of users, wallets,
codes, documents, requests and events.  `AccountAssumption` says that `None` is no user
and no wallet.  `TypeOK` again needs more than itself (`TypeInv`): a request in flight or a
handler at work has a user, a review has a document, and a number is one that was given
out.  The other proofs have the same argument each.  Few actions write what the property
is about; one lemma says that the others leave it alone (`OthersLeavePause`,
`OthersLeaveEntries`, `OthersLeaveDocs`, `OthersLeaveTokens`), and the theorem looks at the few.
`PauseExact` needs no strengthening.  `RemovalCloses` needs that all entries are closed when
a handler comes to create its REMOVED one (`EntryInv`).  `DecisionsStand` needs that two
reviews of one document in flight are known to have raced (`ReviewInv`).  `SpentGone` needs
that no account gets a token a second time: `Numbered` says that requests in flight have
different numbers, and `TokenInv` that a row holds no token its account has spent, and that
the token a `forgot` waits to save is not in that row, not spent by that account and not
held by a reset of it.  A token that a sign-up set may be in several rows, but an account
has spent nothing before its row is created.  `AccountMatches` rests on `SignUpInv`: as long as the sign-ups of an
address have not overlapped, at most one request signs it up, and the code and the data that
this request has read or the cache holds were written by the same registration
(`Consistent`); once they have, the history says `crossed`.  `VerifiedEarned`, `VerifiedStays`,
and `ServedCleared` share `KycInv`.  Each of KYC, its webhook and the
blacklist writes `kycStatus` after a wait, so the invariant says of each what its wait rests on:
a webhook in flight was approved, a `start` that waits while VERIFIED is written is known to
(`RequestInv`), a handler of the chain's events at work is known to the user's history, and
between its updates the status it wrote stands or was written over by a step that is known
(`HandlerInv`).  `Known` and `Sessions` say that these users exist and that a session belongs to
the user it was opened for, so that a webhook, which is given a session only, finds the right
one.  `BlockedExplained` rests on `BlockInv`: the entry of an addition is created on the
BLACKLISTED its handler has written, or on one that is known to be undone, and being listed
again empties `undone`, so that the theorem says as much of the second listing as of the first.

`tlapm OrdersProofs.tla` proves every property of `orders` but `RateCatchesUp`, for any
number of requests, polls and accounts, any cache time, rates, amounts, minimum and
percentage, from `RatesAssumption`, `NullAssumption` and `OrdersAssumption` (amounts, rates, the
cache time and the minimum are positive).  `QuotesFresh` rests on `QuoteInv`: the cache is
good for `CacheSeconds` from a time before its prices were seen, so whoever finds it good
finds its prices younger than that, although the entry may have been written over by a
slower request.  `RateForward` rests on `PollInv`: a poll that was alone all along saw its first
price after the rate it replaces was complete.  `TwinsRaced` rests on `CreationInv`.
`FeesInBand` is arithmetic: `RoundedBounds` says what rounding half up keeps, `DepositFees`
and `WithdrawalFees` that the formulas, which change at 100 000 BOB and at the minimum fee,
stay in the band on both sides.

Only model-checked: the liveness properties `ExecutedIsSettled`, `PointerCatchesUp` and
`RateCatchesUp`, which need reasoning about fairness and `ENABLED` that the proof system
cannot do.  Every invariant, action property and refinement of a passing run is a theorem;
`single_operator` has one request, so that all the hypotheses above hold in it.  That the
properties of section 4 fail is shown by their runs, not by proof.

## 6. Not modelled

Read-only queries, the withdrawal history, file storage and the HTTP layer, which
change no state; user roles (the guards on roles are preconditions of every request);
logging in, which writes a date only; spelling of addresses; chain reorganisations; the
choice among Binance's offers (data); doubles, which are exact fractions in `Orders`; `editPassword` and `editPhoneNumber`, which write
columns of which the model keeps nothing.

Left out of the properties, each for a reason given with its hazard in `PROJECT.json`:
proposals that die because another took their nonce, addresses in another spelling,
blocks that are reorganised away, two withdrawals of the same total at one nonce, and
the transaction hash a withdrawal claims.  Two more are the business's choice and not
the code's: a withdrawal takes a rate that may be as old as the last poll that worked, and
its `feeRate` is the percentage even where the minimum fee was charged.

## 7. Plan

Modelled and checked: every component that changes state.  Proved: every safety property,
action property and refinement that a passing run checks.  What could still be added:

1. What remains of the peg when requests overlap or fail: by how many executions it can
   be exceeded, in terms of the proposals whose hash was lost.
2. The properties of `DepositsSequential` with the listener on, from the hypothesis that the
   mints of a user are executed in the order in which they were proposed.
3. The safety half of the liveness properties: that no step disables for good what fairness
   is assumed of.
