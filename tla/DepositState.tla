---------------------------- MODULE DepositState ----------------------------
(***************************************************************************)
(* The state that the deposit handlers, the Safe multisig, the mint-sync   *)
(* job and the chain listener share: the rows of fiat_operations and       *)
(* deposit_details, the users' wallets, the requests in flight, the Safe   *)
(* queue and the chain.                                                    *)
(*                                                                         *)
(* Every handler of the backend is `read the row; await something; update  *)
(* the row by id'.  A request in flight therefore keeps what it read in    *)
(* req, and its write is an action of its own.                             *)
(***************************************************************************)
EXTENDS Naturals, Sequences, FiniteSets

CONSTANTS
  NumDeposits,     \* deposits are 1 .. NumDeposits, in order of createdAt
  User, Wallet,    \* users, and on-chain addresses
  Owner,           \* Owner[d]: the user that creates deposit d
  Pen,             \* the deposits made in PEN: the ones with a rate lock
  Amount,          \* Amount[d]: expectedBOBH
  Req,             \* identities for requests in flight
  MaxNonce,        \* bound: transactions the Safe executes
  BatchSize,       \* `take' of MintSyncJob (50)
  ListenerEnabled, \* the environment variable LISTENER_ENABLED
  Faulty,          \* whether external calls fail and the process restarts
  Other,           \* a Safe transaction that mints nothing
  None             \* null

Deposit == 1 .. NumDeposits

ASSUME DepositAssumption ==
  /\ NumDeposits \in Nat \ {0}
  /\ Owner \in [Deposit -> User]
  /\ Pen \subseteq Deposit
  /\ Amount \in [Deposit -> Nat \ {0}]
  /\ MaxNonce \in Nat
  /\ BatchSize \in Nat \ {0}
  /\ ListenerEnabled \in BOOLEAN
  /\ Faulty \in BOOLEAN

VARIABLES
  op,        \* op[d]: the FiatOperation of deposit d and its DepositDetail
  expired,   \* the deposits whose rateExpiresAt has passed
  wallet,    \* users.walletAddress
  firstMint, \* users.isFirstMint
  req,       \* req[r]: the handler r is running, and what it has read
  proposed,  \* the transactions proposed to the Safe service
  executed,  \* the transactions the Safe has executed, by nonce
  job,       \* the rows the running MintSyncJob has still to check
  backoff,   \* lastFailureAt of MintSyncJob: hashes not to be retried yet
  seen,      \* how many of the executed transactions the listener has taken
  lst,       \* the onMinted handler in progress
  saves,     \* how many proposals have been saved (orders safeProposedAt)
  approved   \* history: the deposits an APPROVE decision was written for

userVars    == <<wallet, firstMint>>
chainVars   == <<proposed, executed>>
jobVars     == <<job, backoff>>
listenVars  == <<seen, lst>>
historyVars == <<approved>>
vars == <<op, expired, wallet, firstMint, req, proposed, executed, job, backoff,
          seen, lst, saves, approved>>
-----------------------------------------------------------------------------
(* FiatOperationStatus; ABSENT is a row that has not been created.         *)
Status == {"ABSENT", "PENDING", "PROOF_SUBMITTED", "NEED_CORRECTION",
           "RATE_EXPIRED", "APPROVED", "REJECTED", "PROCESSED"}

(***************************************************************************)
(* A Safe transaction that mints: the recipient, the amount, whether the   *)
(* batch with the gas airdrop was used, and the Safe nonce.  safeTxHash is *)
(* a hash of exactly these, so the record stands for its hash: two         *)
(* proposals with the same contents have the same hash.  Other is any      *)
(* transaction but these: a redemption, or the rejection of a mint.        *)
(***************************************************************************)
MintTx == [to : Wallet, amount : Nat, airdrop : BOOLEAN, nonce : Nat]

ASSUME NullAssumption == None \notin Wallet \cup MintTx /\ Other \notin MintTx

Row == [status     : Status,
        proof      : BOOLEAN,             \* proofUrl is set
        late       : BOOLEAN,             \* proofUploadedAt > rateExpiresAt
        note       : BOOLEAN,             \* reviewNote is set
        safeTx     : MintTx \cup {None},  \* safeTxHash
        proposedAt : Nat,                 \* safeProposedAt, 0 for null
        mint       : Nat]                 \* mintTxHash: an index of executed, 0 for null

NoRow == [status |-> "ABSENT", proof |-> FALSE, late |-> FALSE, note |-> FALSE,
          safeTx |-> None, proposedAt |-> 0, mint |-> 0]

(* The points at which a request waits for an external call or its update. *)
Waiting == {"expire", "upload", "approve", "reject", "correct", "propose", "save"}

Request == [pc    : Waiting \cup {"idle"},
            dep   : Deposit,              \* the deposit
            resub : BOOLEAN,              \* uploadProof read NEED_CORRECTION
            to    : Wallet \cup {None},   \* the wallet proposeMint read
            first : BOOLEAN,              \* isFirstMint as proposeMint read it
            tx    : MintTx \cup {None}]   \* the hash Safe returned

IdleRequest == [pc |-> "idle", dep |-> 1, resub |-> FALSE, to |-> None,
                first |-> FALSE, tx |-> None]

(* onMinted: waiting to link the transaction, or to mark the operation.    *)
Listening    == [pc : {"idle", "link", "process"}, dep : Deposit, ev : Nat]
IdleListener == [pc |-> "idle", dep |-> 1, ev |-> 0]

TypeOK ==
  /\ op \in [Deposit -> Row]
  /\ expired \subseteq Deposit
  /\ wallet \in [User -> Wallet \cup {None}]
  /\ firstMint \in [User -> BOOLEAN]
  /\ req \in [Req -> Request]
  /\ proposed \subseteq MintTx
  /\ executed \in Seq(MintTx \cup {Other})
  /\ job \subseteq Deposit \X MintTx
  /\ backoff \subseteq MintTx
  /\ seen \in Nat
  /\ lst \in Listening
  /\ saves \in Nat
  /\ approved \subseteq Deposit
-----------------------------------------------------------------------------
isMinted(row) == row.status = "PROCESSED" \/ row.mint # 0

(* The update of one row.                                                  *)
Update(d, row) == op' = [op EXCEPT ![d] = row]

Idle(r) == req[r].pc = "idle"

(* Handler r has read deposit d and goes on to wait at pc.                 *)
Await(r, d, pc) == req' = [req EXCEPT ![r] = [IdleRequest EXCEPT !.pc = pc, !.dep = d]]

Respond(r) == req' = [req EXCEPT ![r] = IdleRequest]

(* Some transaction was executed with the nonce of tx: not enough to know  *)
(* that tx was.  (A variant: what the code would be with a mistake.)       *)
NonceIsSpent(tx) == tx.nonce < Len(executed)

IsExecuted(tx) == tx.nonce < Len(executed) /\ executed[tx.nonce + 1] = tx
=============================================================================
