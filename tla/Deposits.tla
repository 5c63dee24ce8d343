------------------------------ MODULE Deposits ------------------------------
(***************************************************************************)
(* The deposit pipeline: a user creates a deposit and uploads the proof of *)
(* a bank transfer, an operator reviews it and proposes the mint to the    *)
(* Safe, the owners of the Safe execute it, and the mint-sync job and the  *)
(* chain listener find out.  This module composes the three that model     *)
(* the handlers, and states what the pipeline must get right.              *)
(***************************************************************************)
EXTENDS DepositReview, MintProposal, MintSettlement, FiniteSetsExt

Init ==
  /\ op = [d \in Deposit |-> NoRow]
  /\ expired = {}
  /\ wallet = [u \in User |-> None]
  /\ firstMint = [u \in User |-> TRUE]
  /\ req = [r \in Req |-> IdleRequest]
  /\ proposed = {}
  /\ executed = << >>
  /\ job = {}
  /\ backoff = {}
  /\ seen = 0
  /\ lst = IdleListener
  /\ saves = 0
  /\ approved = {}

(* An external call or an update of handler r throws: the request ends.    *)
Fail(r) ==
  /\ Faulty
  /\ ~Idle(r)
  /\ Respond(r)
  /\ UNCHANGED <<op, expired, userVars, chainVars, jobVars, listenVars, saves, historyVars>>

(* An update of onMinted throws: the event is in EventLog, its effect is   *)
(* not, and it will not be tried again (see EventListener).                *)
ListenerFails ==
  /\ Faulty
  /\ lst.pc # "idle"
  /\ lst' = IdleListener
  /\ UNCHANGED <<op, expired, userVars, req, chainVars, jobVars, seen, saves, historyVars>>

(* The process restarts: what was in memory is gone.                       *)
Restart ==
  /\ Faulty
  /\ req' = [r \in Req |-> IdleRequest]
  /\ job' = {}
  /\ backoff' = {}
  /\ lst' = IdleListener
  /\ UNCHANGED <<op, expired, userVars, chainVars, seen, saves, historyVars>>

ReviewStep ==
  \/ \E d \in Deposit : CreateDeposit(d) \/ RateLockExpires(d)
  \/ \E r \in Req, d \in Deposit :
       StartUpload(r, d) \/ StartApprove(r, d) \/ StartReject(r, d) \/ StartCorrection(r, d)
  \/ \E r \in Req :
       FinishUpload(r) \/ FinishExpire(r) \/ FinishDecision(r) \/ FinishCorrection(r)

ProposalStep ==
  \/ \E r \in Req, d \in Deposit : StartPropose(r, d)
  \/ \E r \in Req : ProposeToSafe(r) \/ SaveProposal(r)
  \/ \E tx \in proposed : SafeExecute(tx)
  \/ SafeSpendNonce
  \/ \E u \in User, w \in Wallet : LinkWallet(u, w)

SettlementStep ==
  \/ JobStart
  \/ \E row \in job : \/ JobSync(row[1], row[2])
                      \/ JobPass(row[1], row[2])
                      \/ JobError(row[1], row[2])
  \/ \E tx \in backoff : BackoffEnds(tx)
  \/ \E n \in 1 .. Len(executed), d \in Deposit : ListenMinted(n, d)
  \/ \E n \in 1 .. Len(executed) : ListenNothing(n) \/ ListenLost(n)
  \/ LinkMint
  \/ ProcessMint

FaultStep == (\E r \in Req : Fail(r)) \/ ListenerFails \/ Restart

Next == ReviewStep \/ ProposalStep \/ SettlementStep \/ FaultStep

Spec == Init /\ [][Next]_vars

(***************************************************************************)
(* What the liveness properties assume: cron starts the job again and      *)
(* again and each run goes through its rows, a back-off ends after five    *)
(* minutes, and the Safe service answers about a hash if it is asked often *)
(* enough.  Nothing is assumed of users, operators or owners of the Safe.  *)
(***************************************************************************)
Fairness ==
  /\ SF_vars(JobStart)
  /\ \A d \in Deposit :
       /\ SF_vars(\E row \in job : row[1] = d /\ JobSync(d, row[2]))
       /\ SF_vars(\E row \in job : row[1] = d /\ JobPass(d, row[2]))
       /\ WF_vars(op[d].safeTx # None /\ BackoffEnds(op[d].safeTx))

FairSpec == Spec /\ Fairness
-----------------------------------------------------------------------------
(* Properties that hold whatever requests overlap and whatever fails.      *)

(* Every deposit past PENDING that has not lapsed has a proof of payment,  *)
(* although the update to each of those statuses selects the row by id     *)
(* alone and may come long after the guard on the proof was evaluated.     *)
ProofBacksStatus ==
  \A d \in Deposit :
    op[d].status \in {"PROOF_SUBMITTED", "NEED_CORRECTION", "APPROVED", "REJECTED", "PROCESSED"}
      => op[d].proof

(* No mint reaches the Safe that no reviewer approved: for each proposal   *)
(* there is a deposit with a proof, approved by decide, of its amount.     *)
Backed(tx) == \E d \in approved : op[d].proof /\ Amount[d] = tx.amount
EveryMintBacked == \A tx \in proposed : Backed(tx)

(* A PROCESSED operation is linked to a mint that the Safe did execute,    *)
(* whether the job or the listener marked it, and in whichever order their *)
(* updates and those of stale requests were applied.                       *)
LinkedToMint(n) == n \in 1 .. Len(executed) /\ executed[n] # Other
ProcessedIsMinted ==
  \A d \in Deposit : op[d].status = "PROCESSED" => LinkedToMint(op[d].mint)

(* Only the rate lock of a PEN deposit can make it lapse, and only after   *)
(* its end: RATE_EXPIRED is never written over a deposit in BOB, nor while *)
(* the quoted rate still stands.                                           *)
OnlyLateDepositsLapse ==
  \A d \in Deposit : op[d].status = "RATE_EXPIRED" => d \in Pen \cap expired
-----------------------------------------------------------------------------
(* Properties that need the requests on a deposit to come one at a time.   *)
(* The peg, the ledger and the airdrop also need that none is cut off      *)
(* between Safe's answer and the update that saves it, and the ledger and  *)
(* OneMintPerDeposit that the listener is off.  DepositsSequential proves  *)
(* each of them from what it needs.                                        *)

MintsExecuted == {n \in 1 .. Len(executed) : executed[n] # Other}

TotalOf(f(_), S) == MapThenSumSet(f, S)
AmountMinted(n) == executed[n].amount
AmountOf(d) == Amount[d]

(* The peg: the BOBH minted never exceed the deposits approved, that is,   *)
(* proposeMint does not propose the mint of a deposit twice.               *)
PegHolds == TotalOf(AmountMinted, MintsExecuted) <= TotalOf(AmountOf, approved)

(* The hash deposit d is, or is about to be, known by.                     *)
HashesOf(d) ==
  ({op[d].safeTx} \cup {req[r].tx : r \in {q \in Req : req[q].pc = "save" /\ req[q].dep = d}})
    \ ({None} \cup {op[e].safeTx : e \in Deposit \ {d}})

(* The pipeline implements MintLedger: the amount of a deposit is minted   *)
(* at most once and only after its approval, and the deposit is marked as  *)
(* minted only when its own mint was executed.                             *)
Ledger == INSTANCE MintLedger WITH
  credited <- approved,
  issued   <- {d \in Deposit : \E tx \in HashesOf(d) : IsExecuted(tx)},
  settled  <- {d \in Deposit : isMinted(op[d])},
  supply   <- TotalOf(AmountMinted, MintsExecuted)
ImplementsLedger == Ledger!Spec

(* No two deposits are settled by the same mint.                           *)
OneMintPerDeposit ==
  \A d, e \in Deposit : d # e /\ op[d].mint # 0 => op[d].mint # op[e].mint

(* The gas airdrop of the first mint is given once per user: the batches   *)
(* executed are no more than the users whose isFirstMint was taken away,   *)
(* counting the one whose update is on its way.                            *)
AirdropOncePerUser ==
  Cardinality({n \in MintsExecuted : executed[n].airdrop})
    <= Cardinality({u \in User : ~firstMint[u]})
       + Cardinality({r \in Req : req[r].pc = "save" /\ req[r].first})

(* A PEN deposit is approved only on a proof that came before the rate     *)
(* expired.                                                                *)
RateLockHonoured == \A d \in approved \cap Pen : ~op[d].late

(* The reviewer's note is gone once the corrected proof is in.             *)
NoteClearedOnResubmit == \A d \in Deposit : op[d].status = "PROOF_SUBMITTED" => ~op[d].note

(* A processed deposit stays processed: decide, requestCorrection and      *)
(* uploadProof do not take it back.                                        *)
FinalIsFinal ==
  [][\A d \in Deposit : op[d].status = "PROCESSED" => op'[d].status = "PROCESSED"]_vars

(* A mint that the Safe executed for a deposit's saved proposal is linked  *)
(* to the deposit in the end.                                              *)
ExecutedIsSettled ==
  \A d \in Deposit :
    (op[d].safeTx # None /\ IsExecuted(op[d].safeTx)) ~> (op[d].mint # 0)

=============================================================================
