----------------------------- MODULE Withdrawals -----------------------------
(***************************************************************************)
(* Withdrawals: a user locks tokens in the contract and creates the        *)
(* withdrawal with the hash of that transaction; an administrator updates  *)
(* it to any status, which proposes to the Safe that the tokens be burned  *)
(* or returned; the owners of the Safe execute it, and the listener hears. *)
(*                                                                         *)
(* As in DepositState, a request in flight keeps in req what it read, and  *)
(* every await is a step of its own.  Amounts, fees, the bank account and  *)
(* the minimum are checks create passes or not: a creation modelled here   *)
(* is one that passes them.                                                *)
(***************************************************************************)
EXTENDS Naturals, Sequences, FiniteSets

CONSTANTS
  NumWithdrawals,  \* withdrawals are 1 .. NumWithdrawals, in order of createdAt
  User, Wallet,
  Owner,           \* Owner[w]: the user that creates withdrawal w
  Amount,          \* Amount[w]: totalAmount
  Req,
  MaxNonce,        \* bound: transactions the Safe executes
  ListenerEnabled, \* the environment variable LISTENER_ENABLED
  Faulty,          \* whether external calls fail and the process restarts
  Other,           \* a Safe transaction that is no redemption, or that reverts
  None             \* null

Withdrawal == 1 .. NumWithdrawals

ASSUME WithdrawalAssumption ==
  /\ NumWithdrawals \in Nat \ {0}
  /\ Owner \in [Withdrawal -> User]
  /\ Amount \in [Withdrawal -> Nat]
  /\ MaxNonce \in Nat
  /\ ListenerEnabled \in BOOLEAN /\ Faulty \in BOOLEAN

VARIABLES
  row,      \* row[w]: the FiatOperation of withdrawal w and its WithdrawalDetail
  wallet,   \* users.walletAddress
  req,      \* req[r]: the handler r is running, and what it has read
  proposed, \* the transactions proposed to the Safe service
  executed, \* the transactions the Safe has executed, by nonce
  seen,     \* how many of them the listener has taken
  told,     \* the outcomes announced by mail
  decided,  \* history: <<w, s>> when w was updated to s, a status that proposes
  cut       \* history: withdrawals whose proposal was not made after the update

historyVars == <<decided, cut>>
vars == <<row, wallet, req, proposed, executed, seen, told, decided, cut>>

(* PENDING stands for every status whose update proposes nothing.          *)
Status == {"PENDING", "PROCESSED", "REJECTED"}

Row == [status : Status \cup {"ABSENT"},
        hash   : {"null", "request", "burn"}, \* TxHash: the user's, or the burn's
        burn   : Nat,      \* the executed transaction TxHash is of, 0 for none
        paid   : BOOLEAN]  \* payoutTxRef and paidAt are set

NoRow == [status |-> "ABSENT", hash |-> "null", burn |-> 0, paid |-> FALSE]

RedemptionTx == [kind : {"finalize", "reject"}, to : Wallet, amount : Nat, nonce : Nat]

ASSUME WithdrawalNull == None \notin Wallet /\ Other \notin RedemptionTx

Waiting == {"commit", "status", "propose", "save", "tell"}

Request == [pc     : Waiting \cup {"idle"},
            wd     : Withdrawal,
            to     : Wallet \cup {None}, \* the wallet update read
            status : Status,             \* dto.status
            ref    : BOOLEAN]            \* dto.payoutTxRef is given

IdleRequest == [pc |-> "idle", wd |-> 1, to |-> None, status |-> "PENDING", ref |-> FALSE]

Notice == [wd : Withdrawal, status : {"PROCESSED", "REJECTED"}, ref : BOOLEAN]

TypeOK ==
  /\ row \in [Withdrawal -> Row]
  /\ wallet \in [User -> Wallet \cup {None}]
  /\ req \in [Req -> Request]
  /\ proposed \subseteq RedemptionTx
  /\ executed \in Seq(RedemptionTx \cup {Other})
  /\ seen \in Nat
  /\ told \subseteq Notice
  /\ decided \subseteq Withdrawal \X Status
  /\ cut \subseteq Withdrawal

Init ==
  /\ row = [w \in Withdrawal |-> NoRow]
  /\ wallet = [u \in User |-> None]
  /\ req = [r \in Req |-> IdleRequest]
  /\ proposed = {}
  /\ executed = << >>
  /\ seen = 0
  /\ told = {}
  /\ decided = {} /\ cut = {}

Idle(r) == req[r].pc = "idle"
Goto(r, pc) == req' = [req EXCEPT ![r].pc = pc]
Respond(r) == req' = [req EXCEPT ![r] = IdleRequest]
-----------------------------------------------------------------------------
(* Variant: the wallet of the user is not looked at.                       *)
AnyWallet(w) == TRUE

HasWallet(w) == wallet[Owner[w]] # None

(* create, up to its database transaction; w is the id the row will get,   *)
(* which no other creation has.                                            *)
StartCreate(r, w) ==
  /\ Idle(r)
  /\ row[w].status = "ABSENT"
  /\ \A q \in Req : req[q].pc = "commit" => req[q].wd # w
  /\ HasWallet(w)
  /\ req' = [req EXCEPT ![r] = [IdleRequest EXCEPT !.pc = "commit", !.wd = w]]
  /\ UNCHANGED <<row, wallet, proposed, executed, seen, told, historyVars>>

(* The transaction.  The mail sent inside it decides nothing: whether it   *)
(* was sent or not, the withdrawal is committed, or rolled back (Fail).    *)
CommitCreate(r) ==
  LET w == req[r].wd IN
  /\ req[r].pc = "commit"
  /\ row' = [row EXCEPT ![w] = [NoRow EXCEPT !.status = "PENDING", !.hash = "request"]]
  /\ Respond(r)
  /\ UNCHANGED <<wallet, proposed, executed, seen, told, historyVars>>
-----------------------------------------------------------------------------
(* The administrator's update: there is no guard on the current status.    *)
StartUpdate(r, w, s) ==
  /\ Idle(r)
  /\ row[w].status # "ABSENT"
  /\ HasWallet(w)
  /\ \E ref \in BOOLEAN :
       req' = [req EXCEPT ![r] = [pc |-> "status", wd |-> w, to |-> wallet[Owner[w]],
                                  status |-> s, ref |-> ref]]
  /\ UNCHANGED <<row, wallet, proposed, executed, seen, told, historyVars>>

(* Variants: whatever is not PROCESSED returns the tokens; a rejection     *)
(* proposes nothing.                                                       *)
KindElseReject(s) == IF s = "PROCESSED" THEN "finalize" ELSE "reject"
KindFinalizeOnly(s) == IF s = "PROCESSED" THEN "finalize" ELSE "none"

(* What the new status proposes to the Safe.                               *)
KindOf(s) ==
  CASE s = "PROCESSED" -> "finalize"
    [] s = "REJECTED" -> "reject"
    [] OTHER -> "none"

WriteStatus(r) ==
  LET w == req[r].wd
      s == req[r].status IN
  /\ req[r].pc = "status"
  /\ row' = [row EXCEPT ![w].status = s]
  /\ decided' = IF KindOf(s) = "none" THEN decided ELSE decided \cup {<<w, s>>}
  /\ Goto(r, IF KindOf(s) = "none" THEN "save" ELSE "propose")
  /\ UNCHANGED <<wallet, proposed, executed, seen, told, cut>>

ProposeRedemption(r) ==
  LET w == req[r].wd IN
  /\ req[r].pc = "propose"
  /\ proposed' = proposed \cup {[kind |-> KindOf(req[r].status), to |-> req[r].to,
                                 amount |-> Amount[w], nonce |-> Len(executed)]}
  /\ Goto(r, "save")
  /\ UNCHANGED <<row, wallet, executed, seen, told, historyVars>>

(* Variant: the payment reference is saved only for a withdrawal paid out. *)
SavesRefIfProcessed(r) == req[r].ref /\ req[r].status = "PROCESSED"

SavesRef(r) == req[r].ref

(* The upload of the proof of payment and the update of WithdrawalDetail.  *)
SavePayment(r) ==
  LET w == req[r].wd IN
  /\ req[r].pc = "save"
  /\ row' = [row EXCEPT ![w].paid = @ \/ SavesRef(r)]
  /\ IF KindOf(req[r].status) = "none" THEN Respond(r) ELSE Goto(r, "tell")
  /\ UNCHANGED <<wallet, proposed, executed, seen, told, historyVars>>

(* What a box of mails holds after m was sent: the mail service catches    *)
(* the error of a mail that cannot be sent, logs it and returns.           *)
Mailed(box, m) == {box \cup {m}} \cup IF Faulty THEN {box} ELSE {}

TellOutcome(r) ==
  /\ req[r].pc = "tell"
  /\ told' \in Mailed(told, [wd |-> req[r].wd, status |-> req[r].status, ref |-> req[r].ref])
  /\ Respond(r)
  /\ UNCHANGED <<row, wallet, proposed, executed, seen, historyVars>>
-----------------------------------------------------------------------------
SafeExecute(tx) ==
  /\ tx.nonce = Len(executed)
  /\ Len(executed) < MaxNonce
  /\ executed' = Append(executed, tx)
  /\ UNCHANGED <<row, wallet, req, proposed, seen, told, historyVars>>

SafeSpendNonce ==
  /\ Len(executed) < MaxNonce
  /\ executed' = Append(executed, Other)
  /\ UNCHANGED <<row, wallet, req, proposed, seen, told, historyVars>>

LinkWallet(u, a) ==
  /\ wallet[u] # a
  /\ \A v \in User \ {u} : wallet[v] # a
  /\ wallet' = [wallet EXCEPT ![u] = a]
  /\ UNCHANGED <<row, req, proposed, executed, seen, told, historyVars>>

(* The withdrawals onRedemptionFinalized and onRedemptionRejected look for *)
(* when a redemption of wallet a was executed.                             *)
Awaiting(a) == {w \in Withdrawal : /\ row[w].status # "ABSENT"
                                   /\ row[w].hash = "null"
                                   /\ wallet[Owner[w]] = a}

Heard(w, n) ==
  IF executed[n].kind = "finalize"
  THEN [row[w] EXCEPT !.hash = "burn", !.burn = n, !.status = "PROCESSED"]
  ELSE [row[w] EXCEPT !.status = "REJECTED"]

ListenRedemption ==
  LET n == seen + 1
      waiting == IF executed[n] = Other THEN {} ELSE Awaiting(executed[n].to) IN
  /\ ListenerEnabled
  /\ n <= Len(executed)
  /\ seen' = n
  /\ row' = [w \in Withdrawal |->
               IF w \in waiting /\ \A v \in waiting : w <= v THEN Heard(w, n) ELSE row[w]]
  /\ UNCHANGED <<wallet, req, proposed, executed, told, historyVars>>
-----------------------------------------------------------------------------
(* The withdrawals whose update is written and whose proposal is not made. *)
Unproposed(S) == {req[r].wd : r \in {q \in S : req[q].pc = "propose"}}

(* An await of handler r throws: an external call or an update fails, a    *)
(* transaction takes longer than the database allows, or parseUnits finds  *)
(* more than six decimals in the total.  Mails do not throw, and the mail  *)
(* of an outcome is the last await of an update.                           *)
Fail(r) ==
  /\ Faulty
  /\ req[r].pc \notin {"idle", "tell"}
  /\ cut' = cut \cup Unproposed({r})
  /\ Respond(r)
  /\ UNCHANGED <<row, wallet, proposed, executed, seen, told, decided>>

Restart ==
  /\ Faulty
  /\ cut' = cut \cup Unproposed(Req)
  /\ req' = [r \in Req |-> IdleRequest]
  /\ UNCHANGED <<row, wallet, proposed, executed, seen, told, decided>>

Next ==
  \/ \E r \in Req, w \in Withdrawal : \/ StartCreate(r, w)
                                      \/ \E s \in Status : StartUpdate(r, w, s)
  \/ \E r \in Req : \/ CommitCreate(r)
                    \/ WriteStatus(r) \/ ProposeRedemption(r)
                    \/ SavePayment(r) \/ TellOutcome(r)
  \/ \E tx \in proposed : SafeExecute(tx)
  \/ SafeSpendNonce
  \/ \E u \in User, a \in Wallet : LinkWallet(u, a)
  \/ ListenRedemption
  \/ \E r \in Req : Fail(r)
  \/ Restart

Spec == Init /\ [][Next]_vars
-----------------------------------------------------------------------------
(* A redemption of withdrawal w of kind k was proposed, for its amount.    *)
IsProposed(w, k) == \E tx \in proposed : tx.kind = k /\ tx.amount = Amount[w]

(* No tokens are burned or returned unless an administrator decided so:    *)
(* for each proposal there is a withdrawal of its amount whose update to   *)
(* PROCESSED, or to REJECTED, was written.                                 *)
RedemptionBacked ==
  \A tx \in proposed :
    \E w \in Withdrawal :
      /\ Amount[w] = tx.amount
      /\ <<w, IF tx.kind = "finalize" THEN "PROCESSED" ELSE "REJECTED">> \in decided

(* A withdrawal that says PROCESSED or REJECTED, with no update in flight, *)
(* had its burn or its return proposed, unless the update was cut off: the *)
(* status alone does not tell the two apart, since it is written first.    *)
DecisionProposed ==
  \A w \in Withdrawal \ cut :
    (\A r \in Req : req[r].pc \in {"status", "propose"} => req[r].wd # w) =>
      /\ row[w].status = "PROCESSED" => IsProposed(w, "finalize")
      /\ row[w].status = "REJECTED"  => IsProposed(w, "reject")

(* The user is told of an outcome only after it was proposed to the Safe   *)
(* and the payment reference the mail names was stored.                    *)
ToldIsDone ==
  \A m \in told :
    /\ IsProposed(m.wd, IF m.status = "PROCESSED" THEN "finalize" ELSE "reject")
    /\ m.ref => row[m.wd].paid

(* When the listener has taken the event of a burn, the burn is linked to  *)
(* a withdrawal: it is the TxHash of one.                                  *)
BurnIsLinked ==
  \A n \in 1 .. seen :
    executed[n] # Other /\ executed[n].kind = "finalize"
      => \E w \in Withdrawal : row[w].burn = n
=============================================================================
