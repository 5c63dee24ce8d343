-------------------------- MODULE WithdrawalsProofs --------------------------
(***************************************************************************)
(* What holds of withdrawals whatever their number, however many requests  *)
(* overlap and whatever fails.  No update repeats a guard, so the          *)
(* invariant says of every request in flight that what it has read or done *)
(* still stands: a wallet stays a wallet, a row stays there, a decision    *)
(* and a proposal are never taken back.                                    *)
(***************************************************************************)
EXTENDS Withdrawals, TLAPS

Exists(w) == row[w].status # "ABSENT"

Creates(r) == req[r].pc = "commit"

RowStands(w) == Exists(w) => row[w].hash = "request" /\ HasWallet(w)

CreatesAlone(r) ==
  Creates(r) => /\ ~Exists(req[r].wd) /\ HasWallet(req[r].wd)
                /\ \A q \in Req \ {r} : Creates(q) => req[q].wd # req[r].wd

RequestStands(r) ==
  LET w == req[r].wd
      s == req[r].status IN
  /\ req[r].pc \in {"status", "propose", "save", "tell"} => Exists(w)
  /\ req[r].pc \in {"status", "propose"} => req[r].to \in Wallet
  /\ req[r].pc = "propose" => KindOf(s) # "none" /\ <<w, s>> \in decided
  /\ req[r].pc \in {"save", "tell"} /\ KindOf(s) # "none" => IsProposed(w, KindOf(s))
  /\ req[r].pc = "tell" => KindOf(s) # "none" /\ (req[r].ref => row[w].paid)

NoticeStands(m) ==
  Exists(m.wd) /\ IsProposed(m.wd, KindOf(m.status)) /\ (m.ref => row[m.wd].paid)

(* A request is about to propose what the row says.                        *)
InFlight(w) == \E r \in Req : req[r].pc = "propose" /\ req[r].wd = w
                              /\ req[r].status = row[w].status

DecisionStands(w) ==
  KindOf(row[w].status) = "none" \/ IsProposed(w, KindOf(row[w].status))
    \/ InFlight(w) \/ w \in cut

Backed(tx) ==
  \E w \in Withdrawal :
    Amount[w] = tx.amount
    /\ <<w, IF tx.kind = "finalize" THEN "PROCESSED" ELSE "REJECTED">> \in decided

WithdrawalInv ==
  /\ TypeOK
  /\ \A w \in Withdrawal : RowStands(w)
  /\ \A r \in Req : CreatesAlone(r)
  /\ \A r \in Req : RequestStands(r)
  /\ \A m \in told : NoticeStands(m)
  /\ \A w \in Withdrawal : DecisionStands(w)
  /\ \A tx \in proposed : Backed(tx)

(* What no step undoes.                                                    *)
Grows ==
  /\ \A w \in Withdrawal : HasWallet(w) => HasWallet(w)'
  /\ \A w \in Withdrawal : Exists(w) => Exists(w)' /\ (row[w].paid => row'[w].paid)
  /\ proposed \subseteq proposed'
  /\ decided \subseteq decided'
  /\ cut \subseteq cut'
-----------------------------------------------------------------------------
(* The constants and the small records are what they look like.            *)
LEMMA Constant ==
  /\ 1 \in Withdrawal /\ Withdrawal \subseteq Nat
  /\ Owner \in [Withdrawal -> User] /\ Amount \in [Withdrawal -> Nat]
  /\ NoRow \in Row /\ IdleRequest \in Request
BY WithdrawalAssumption DEF Withdrawal, NoRow, Row, Status, IdleRequest, Request, Waiting

(* Only the two final statuses propose something, each its own kind.       *)
LEMMA Kinds ==
  /\ KindOf("PROCESSED") = "finalize" /\ KindOf("REJECTED") = "reject"
  /\ \A s : KindOf(s) # "none" => s \in {"PROCESSED", "REJECTED"}
BY DEF KindOf

(* create stores the hash the user gave, and nothing ever clears it, so no *)
(* withdrawal awaits the hash of a burn: an event changes no row.          *)
LEMMA NoneAwaits ==
  ASSUME WithdrawalInv
  PROVE  /\ \A a : Awaiting(a) = {}
         /\ ListenRedemption => row' = row
<1>1. \A a : Awaiting(a) = {}
  BY DEF WithdrawalInv, RowStands, Exists, Awaiting
<1>2. ListenRedemption => row' = [w \in Withdrawal |-> row[w]]
  BY <1>1 DEF ListenRedemption
<1> QED
  BY <1>1, <1>2 DEF WithdrawalInv, TypeOK

LEMMA InvInit == Init => WithdrawalInv
<1> SUFFICES ASSUME Init PROVE WithdrawalInv
  OBVIOUS
<1> USE Constant DEF Init
<1>1. executed \in Seq(RedemptionTx \cup {Other})
  OBVIOUS
<1>2. TypeOK
  BY <1>1 DEF TypeOK
<1> QED
  BY <1>2 DEF WithdrawalInv, RowStands, CreatesAlone, Creates, RequestStands, DecisionStands,
     KindOf, Exists, NoRow, IdleRequest

(* Every step keeps the types: what it writes in row, in req and in        *)
(* proposed is the only thing to look at.                                  *)
LEMMA TypeStep == WithdrawalInv /\ [Next]_vars => TypeOK'
<1> SUFFICES ASSUME WithdrawalInv, [Next]_vars PROVE TypeOK'
  OBVIOUS
<1> USE Constant DEF WithdrawalInv, TypeOK, historyVars
<1>1. ASSUME NEW r \in Req, NEW w \in Withdrawal, StartCreate(r, w) PROVE TypeOK'
  BY <1>1 DEF StartCreate, Request, IdleRequest, Waiting
<1>2. ASSUME NEW r \in Req, NEW w \in Withdrawal, NEW s \in Status, StartUpdate(r, w, s)
      PROVE  TypeOK'
  BY <1>2 DEF StartUpdate, Request, Waiting
<1>4. ASSUME NEW r \in Req, CommitCreate(r) PROVE TypeOK'
  <2>1. [NoRow EXCEPT !.status = "PENDING", !.hash = "request"] \in Row
    BY DEF NoRow, Row, Status
  <2> QED
    BY <1>4, <2>1 DEF CommitCreate, Respond
<1>5. ASSUME NEW r \in Req, WriteStatus(r) PROVE TypeOK'
  <2>1. req[r].wd \in Withdrawal /\ req[r].status \in Status
    BY DEF Request
  <2>2. row' \in [Withdrawal -> Row]
    BY <1>5, <2>1 DEF WriteStatus, Row
  <2>3. req' \in [Req -> Request]
    BY <1>5 DEF WriteStatus, Goto, Request, Waiting
  <2>4. decided' \subseteq Withdrawal \X Status
    BY <1>5, <2>1 DEF WriteStatus
  <2> QED
    BY <1>5, <2>2, <2>3, <2>4 DEF WriteStatus
<1>6. ASSUME NEW r \in Req, ProposeRedemption(r) PROVE TypeOK'
  <2>1. req[r].wd \in Withdrawal /\ req[r].to \in Wallet /\ KindOf(req[r].status) # "none"
    BY <1>6 DEF ProposeRedemption, RequestStands, Request
  <2>2. KindOf(req[r].status) \in {"finalize", "reject"}
    BY <2>1, Kinds
  <2>3. Len(executed) \in Nat
    OBVIOUS
  <2> DEFINE tx == [kind |-> KindOf(req[r].status), to |-> req[r].to,
                    amount |-> Amount[req[r].wd], nonce |-> Len(executed)]
  <2>4. tx \in RedemptionTx /\ proposed' = proposed \cup {tx}
    BY <1>6, <2>1, <2>2, <2>3 DEF ProposeRedemption, RedemptionTx
  <2>5. req' \in [Req -> Request]
    BY <1>6 DEF ProposeRedemption, Goto, Request, Waiting
  <2> QED
    BY <1>6, <2>4, <2>5 DEF ProposeRedemption
<1>7. ASSUME NEW r \in Req, SavePayment(r) PROVE TypeOK'
  <2>1. req[r].wd \in Withdrawal /\ SavesRef(r) \in BOOLEAN
    BY DEF Request, SavesRef
  <2>2. row' \in [Withdrawal -> Row]
    BY <1>7, <2>1 DEF SavePayment, Row
  <2>3. \/ req' = [req EXCEPT ![r].pc = "tell"]
        \/ req' = [req EXCEPT ![r] = IdleRequest]
    BY <1>7 DEF SavePayment, Goto, Respond
  <2>4. [req[r] EXCEPT !.pc = "tell"] \in Request
    BY DEF Request, Waiting
  <2>5. req' \in [Req -> Request]
    BY <2>3, <2>4
  <2> QED
    BY <1>7, <2>2, <2>5 DEF SavePayment
<1>8. ASSUME NEW r \in Req, TellOutcome(r) PROVE TypeOK'
  <2>1. req[r].wd \in Withdrawal /\ req[r].ref \in BOOLEAN
        /\ req[r].status \in {"PROCESSED", "REJECTED"}
    BY <1>8, Kinds DEF TellOutcome, RequestStands, Request
  <2>2. told' \subseteq Notice
    BY <1>8, <2>1 DEF TellOutcome, Mailed, Notice
  <2> QED
    BY <1>8, <2>2 DEF TellOutcome, Respond
<1>9. ASSUME NEW tx \in proposed, SafeExecute(tx) PROVE TypeOK'
  <2>1. executed' \in Seq(RedemptionTx \cup {Other})
    BY <1>9 DEF SafeExecute
  <2> QED
    BY <1>9, <2>1 DEF SafeExecute
<1>10. CASE SafeSpendNonce
  <2>1. executed' \in Seq(RedemptionTx \cup {Other})
    BY <1>10 DEF SafeSpendNonce
  <2> QED
    BY <1>10, <2>1 DEF SafeSpendNonce
<1>11. ASSUME NEW u \in User, NEW a \in Wallet, LinkWallet(u, a) PROVE TypeOK'
  BY <1>11 DEF LinkWallet
<1>12. CASE ListenRedemption
  BY <1>12, NoneAwaits DEF ListenRedemption
<1>13. ASSUME NEW r \in Req, Fail(r) PROVE TypeOK'
  <2>1. req' \in [Req -> Request]
    BY <1>13 DEF Fail, Respond
  <2>2. cut' \subseteq Withdrawal
    <3>1. req[r].wd \in Withdrawal /\ Unproposed({r}) \subseteq {req[r].wd}
      BY DEF Unproposed, Request
    <3> QED
      BY <1>13, <3>1 DEF Fail
  <2> QED
    BY <1>13, <2>1, <2>2 DEF Fail
<1>14. CASE Restart
  BY <1>14 DEF Restart, Unproposed, Request
<1>15. CASE UNCHANGED vars
  BY <1>15 DEF vars
<1> QED
  BY <1>1, <1>2, <1>4, <1>5, <1>6, <1>7, <1>8, <1>9, <1>10, <1>11, <1>12, <1>13, <1>14,
     <1>15 DEF Next
-----------------------------------------------------------------------------
(* What a step leaves alone keeps standing when nothing is undone.         *)
LEMMA Frame ==
  ASSUME WithdrawalInv, TypeOK', Grows,
         \A w \in Withdrawal : row'[w] = row[w] \/ RowStands(w)',
         \A w \in Withdrawal : row'[w].status = row[w].status \/ DecisionStands(w)',
         \A r \in Req : CreatesAlone(r)',
         \A r \in Req : req'[r] = req[r] \/ RequestStands(r)',
         \A r \in Req, w \in Withdrawal, s \in Status :
           req[r].pc = "propose" /\ req[r].wd = w /\ req[r].status = s =>
             req'[r] = req[r] \/ IsProposed(w, KindOf(s))' \/ w \in cut',
         \A m \in told' : m \in told \/ NoticeStands(m)',
         \A tx \in proposed' : tx \in proposed \/ Backed(tx)'
  PROVE  WithdrawalInv'
<1>0. \A w \in Withdrawal : \A k : IsProposed(w, k) => IsProposed(w, k)'
  BY DEF Grows, IsProposed
<1>1. \A w \in Withdrawal : RowStands(w)'
  BY DEF WithdrawalInv, Grows, RowStands, Exists
<1>2. \A r \in Req : RequestStands(r)'
  <2> SUFFICES ASSUME NEW r \in Req, req'[r] = req[r] PROVE RequestStands(r)'
    OBVIOUS
  <2>1. req[r].wd \in Withdrawal /\ RequestStands(r)
    BY DEF WithdrawalInv, TypeOK, Request
  <2> QED
    BY <1>0, <2>1 DEF Grows, RequestStands
<1>3. \A m \in told' : NoticeStands(m)'
  <2> SUFFICES ASSUME NEW m \in told PROVE NoticeStands(m)'
    OBVIOUS
  <2>1. m.wd \in Withdrawal /\ NoticeStands(m)
    BY DEF WithdrawalInv, TypeOK, Notice
  <2> QED
    BY <1>0, <2>1 DEF Grows, NoticeStands
<1>4. \A w \in Withdrawal : DecisionStands(w)'
  <2> SUFFICES ASSUME NEW w \in Withdrawal, row'[w].status = row[w].status
               PROVE  DecisionStands(w)'
    OBVIOUS
  <2>1. CASE KindOf(row[w].status) = "none" \/ IsProposed(w, KindOf(row[w].status)) \/ w \in cut
    BY <1>0, <2>1 DEF Grows, DecisionStands
  <2>2. ASSUME NEW r \in Req, req[r].pc = "propose", req[r].wd = w,
               req[r].status = row[w].status
        PROVE  DecisionStands(w)'
    <3>0. req[r].status \in Status
      BY DEF WithdrawalInv, TypeOK, Request
    <3>1. CASE req'[r] = req[r]
      BY <2>2, <3>1 DEF DecisionStands, InFlight
    <3>2. CASE w \in cut'
      BY <3>2 DEF DecisionStands
    <3>3. CASE \A s \in Status : s = req[r].status => IsProposed(w, KindOf(s))'
      BY <2>2, <3>0, <3>3 DEF DecisionStands
    <3> QED
      BY <2>2, <3>0, <3>1, <3>2, <3>3
  <2> QED
    BY <2>1, <2>2 DEF WithdrawalInv, DecisionStands, InFlight
<1>5. \A tx \in proposed' : Backed(tx)'
  BY DEF WithdrawalInv, Grows, Backed
<1> QED
  BY <1>1, <1>2, <1>3, <1>4, <1>5 DEF WithdrawalInv

(* No request starts to create and no row appears: creations stay alone.   *)
LEMMA StillAlone ==
  ASSUME WithdrawalInv,
         \A w \in Withdrawal : HasWallet(w) => HasWallet(w)',
         \A w \in Withdrawal : Exists(w)' => Exists(w),
         \A r \in Req : Creates(r)' => Creates(r) /\ req'[r].wd = req[r].wd
  PROVE  \A r \in Req : CreatesAlone(r)'
<1>1. \A r \in Req : req[r].wd \in Withdrawal
  BY DEF WithdrawalInv, TypeOK, Request
<1> QED
  BY <1>1 DEF WithdrawalInv, CreatesAlone
-----------------------------------------------------------------------------
LEMMA InvStep == WithdrawalInv /\ [Next]_vars => WithdrawalInv'
<1> SUFFICES ASSUME WithdrawalInv, [Next]_vars PROVE WithdrawalInv'
  OBVIOUS
<1>0. TypeOK'
  BY TypeStep
<1>types. /\ row \in [Withdrawal -> Row] /\ req \in [Req -> Request]
      /\ \A r \in Req : req[r].wd \in Withdrawal /\ req[r].status \in Status
      /\ "ABSENT" \notin Status
  BY DEF WithdrawalInv, TypeOK, Request, Status
<1>wallets. UNCHANGED wallet => \A w \in Withdrawal : HasWallet(w)' = HasWallet(w)
  BY DEF HasWallet
<1> USE Constant DEF historyVars
<1>1. ASSUME NEW r \in Req, NEW w \in Withdrawal, StartCreate(r, w) PROVE WithdrawalInv'
  <2>1. /\ req'[r].wd = w /\ req'[r].pc = "commit" /\ ~Exists(w) /\ HasWallet(w)
        /\ \A q \in Req : Creates(q) => req[q].wd # w
        /\ \A q \in Req \ {r} : req'[q] = req[q]
        /\ req[r].pc = "idle"
    BY <1>1, <1>types DEF StartCreate, IdleRequest, Exists, Creates, Idle
  <2>2. Grows
    BY <1>1, <1>wallets DEF StartCreate, Grows, Exists
  <2>3. \A q \in Req : CreatesAlone(q)'
    BY <1>1, <1>wallets, <1>types, <2>1 DEF StartCreate, WithdrawalInv, CreatesAlone, Creates, Exists
  <2>4. RequestStands(r)'
    BY <2>1 DEF RequestStands
  <2> QED
    BY <1>0, <1>1, <2>1, <2>2, <2>3, <2>4, Frame DEF StartCreate
<1>2. ASSUME NEW r \in Req, NEW w \in Withdrawal, NEW s \in Status, StartUpdate(r, w, s)
      PROVE  WithdrawalInv'
  <2>1. /\ req'[r].wd = w /\ req'[r].pc = "status" /\ req'[r].to = wallet[Owner[w]]
        /\ Exists(w) /\ HasWallet(w)
        /\ \A q \in Req \ {r} : req'[q] = req[q]
        /\ req[r].pc = "idle"
    BY <1>2, <1>types DEF StartUpdate, Exists, Idle
  <2>2. Grows
    BY <1>2, <1>wallets DEF StartUpdate, Grows, Exists
  <2>3. \A q \in Req : CreatesAlone(q)'
    BY <1>2, <1>wallets, <2>1, StillAlone DEF StartUpdate, Creates, Exists
  <2>4. RequestStands(r)'
    <3>1. wallet[Owner[w]] \in Wallet
      BY <2>1 DEF WithdrawalInv, TypeOK, HasWallet
    <3> QED
      BY <1>2, <2>1, <3>1 DEF RequestStands, StartUpdate, Exists
  <2> QED
    BY <1>0, <1>2, <2>1, <2>2, <2>3, <2>4, Frame DEF StartUpdate
<1>4. ASSUME NEW r \in Req, CommitCreate(r) PROVE WithdrawalInv'
  <2> DEFINE w == req[r].wd
  <2>1. /\ req[r].pc = "commit" /\ req'[r] = IdleRequest
        /\ \A q \in Req \ {r} : req'[q] = req[q]
    BY <1>4, <1>types DEF CommitCreate, Respond
  <2>2. /\ row'[w].status = "PENDING" /\ row'[w].hash = "request"
        /\ \A v \in Withdrawal \ {w} : row'[v] = row[v]
    BY <1>4, <1>types DEF CommitCreate, NoRow
  <2>3. ~Exists(w) /\ HasWallet(w)
    BY <2>1 DEF WithdrawalInv, CreatesAlone, Creates, RequestStands
  <2>4. Grows
    BY <1>4, <1>wallets, <2>2, <2>3 DEF CommitCreate, Grows, Exists
  <2>5. \A q \in Req : CreatesAlone(q)'
    <3> SUFFICES ASSUME NEW q \in Req \ {r}, Creates(q) PROVE CreatesAlone(q)'
      BY <2>1 DEF CreatesAlone, Creates, IdleRequest
    <3>1. req[q].wd # w /\ CreatesAlone(q)
      BY <2>1 DEF WithdrawalInv, CreatesAlone, Creates
    <3> QED
      BY <1>4, <1>wallets, <1>types, <2>1, <2>2, <3>1 DEF CommitCreate, CreatesAlone, Creates, Exists, IdleRequest
  <2>6. \A v : v = w => RowStands(v)' /\ DecisionStands(v)'
    BY <1>4, <1>wallets, <1>types, <2>2, <2>3 DEF CommitCreate, RowStands, DecisionStands, KindOf
  <2>7. RequestStands(r)'
    BY <2>1 DEF RequestStands, IdleRequest
  <2> QED
    BY <1>0, <1>4, <1>types, <2>1, <2>2, <2>4, <2>5, <2>6, <2>7, Frame DEF CommitCreate
<1>5. ASSUME NEW r \in Req, WriteStatus(r) PROVE WithdrawalInv'
  <2> DEFINE w == req[r].wd
             s == req[r].status
  <2>0. /\ req[r].pc = "status" /\ req[r].to \in Wallet
        /\ req' = [req EXCEPT ![r].pc = IF KindOf(s) = "none" THEN "save" ELSE "propose"]
    BY <1>5 DEF WriteStatus, Goto, WithdrawalInv, RequestStands
  <2>1. /\ req[r].pc = "status" /\ req'[r].wd = w /\ req'[r].status = s
        /\ req'[r].to = req[r].to /\ req[r].to \in Wallet
        /\ req'[r].pc = IF KindOf(s) = "none" THEN "save" ELSE "propose"
        /\ \A q \in Req \ {r} : req'[q] = req[q]
    BY <1>types, <2>0 DEF Request
  <2>2. /\ row'[w] = [row[w] EXCEPT !.status = s]
        /\ \A v \in Withdrawal \ {w} : row'[v] = row[v]
    BY <1>5, <1>types DEF WriteStatus
  <2>3. row[w] \in Row /\ row'[w].status = s /\ row'[w].paid = row[w].paid
        /\ row'[w].hash = row[w].hash
    BY <1>types, <2>2 DEF Row
  <2>4. Exists(w) /\ \A v \in Withdrawal : Exists(v)' <=> Exists(v)
    BY <1>types, <2>1, <2>2, <2>3 DEF WithdrawalInv, RequestStands, Exists
  <2>5. Grows
    BY <1>5, <1>wallets, <2>2, <2>3, <2>4 DEF WriteStatus, Grows
  <2>6. \A q \in Req : CreatesAlone(q)'
    BY <1>5, <1>wallets, <2>1, <2>4, StillAlone DEF WriteStatus, Creates
  <2>7. KindOf(s) # "none" => <<w, s>> \in decided'
    BY <1>5 DEF WriteStatus
  <2>8. RequestStands(r)'
    BY <1>types, <2>1, <2>4, <2>7 DEF RequestStands
  <2>9. \A v : v = w => RowStands(v)'
    BY <1>5, <1>wallets, <1>types, <2>3, <2>4 DEF WriteStatus, RowStands, WithdrawalInv
  <2>10. \A v : v = w => DecisionStands(v)'
    BY <1>types, <2>1, <2>3 DEF DecisionStands, InFlight
  <2> QED
    BY <1>0, <1>5, <1>types, <2>1, <2>2, <2>5, <2>6, <2>8, <2>9, <2>10, Frame
     DEF WriteStatus
<1>6. ASSUME NEW r \in Req, ProposeRedemption(r) PROVE WithdrawalInv'
  <2> DEFINE w == req[r].wd
             k == KindOf(req[r].status)
             tx == [kind |-> k, to |-> req[r].to, amount |-> Amount[w], nonce |-> Len(executed)]
  <2>1. /\ req[r].pc = "propose" /\ req'[r] = [req[r] EXCEPT !.pc = "save"]
        /\ \A q \in Req \ {r} : req'[q] = req[q]
    BY <1>6, <1>types DEF ProposeRedemption, Goto
  <2>2. req'[r].pc = "save" /\ req'[r].wd = w /\ req'[r].status = req[r].status
    BY <1>types, <2>1 DEF Request
  <2>3. k # "none" /\ <<w, req[r].status>> \in decided /\ Exists(w)
    BY <2>1 DEF WithdrawalInv, RequestStands
  <2>4. proposed' = proposed \cup {tx} /\ tx.kind = k /\ tx.amount = Amount[w]
    BY <1>6 DEF ProposeRedemption
  <2>5. \A v, s : v = w /\ s = req[r].status => IsProposed(v, KindOf(s))'
    BY <2>4 DEF IsProposed
  <2>6. \A t : t = tx => Backed(t)'
    <3>1. req[r].status = IF tx.kind = "finalize" THEN "PROCESSED" ELSE "REJECTED"
      BY <2>3, <2>4, Kinds
    <3> QED
      BY <1>6, <1>types, <2>3, <2>4, <3>1 DEF ProposeRedemption, Backed
  <2>7. Grows
    BY <1>6, <1>wallets, <2>4 DEF ProposeRedemption, Grows, Exists
  <2>8. \A q \in Req : CreatesAlone(q)'
    BY <1>6, <1>wallets, <2>1, <2>2, StillAlone DEF ProposeRedemption, Creates, Exists
  <2>9. RequestStands(r)'
    BY <1>6, <2>2, <2>3, <2>5 DEF ProposeRedemption, RequestStands, Exists
  <2> QED
    BY <1>0, <1>6, <2>1, <2>4, <2>5, <2>6, <2>7, <2>8, <2>9, Frame DEF ProposeRedemption
<1>7. ASSUME NEW r \in Req, SavePayment(r) PROVE WithdrawalInv'
  <2> DEFINE w == req[r].wd
             s == req[r].status
  <2>1. /\ req[r].pc = "save"
        /\ \A q \in Req \ {r} : req'[q] = req[q]
        /\ IF KindOf(s) = "none" THEN req'[r] = IdleRequest
           ELSE req'[r] = [req[r] EXCEPT !.pc = "tell"]
    BY <1>7, <1>types DEF SavePayment, Goto, Respond
  <2>2. /\ row'[w] = [row[w] EXCEPT !.paid = @ \/ req[r].ref]
        /\ \A v \in Withdrawal \ {w} : row'[v] = row[v]
    BY <1>7, <1>types DEF SavePayment, SavesRef
  <2>3. /\ row[w] \in Row /\ row'[w].status = row[w].status /\ row'[w].hash = row[w].hash
        /\ row'[w].paid = (row[w].paid \/ req[r].ref)
    BY <1>types, <2>2 DEF Row
  <2>4. Exists(w) /\ \A v \in Withdrawal : Exists(v)' <=> Exists(v)
    BY <1>types, <2>1, <2>2, <2>3 DEF WithdrawalInv, RequestStands, Exists
  <2>5. Grows
    BY <1>7, <1>wallets, <2>2, <2>3, <2>4 DEF SavePayment, Grows
  <2>6. \A q \in Req : CreatesAlone(q)'
    <3>1. ~Creates(r)'
      BY <1>types, <2>1 DEF Creates, IdleRequest, Request
    <3> QED
      BY <1>7, <1>wallets, <2>1, <2>4, <3>1, StillAlone DEF SavePayment, Creates
  <2>7. RequestStands(r)'
    <3>1. CASE KindOf(s) = "none"
      BY <2>1, <3>1 DEF RequestStands, IdleRequest
    <3>2. CASE KindOf(s) # "none"
      <4>1. /\ req'[r].pc = "tell" /\ req'[r].wd = w /\ req'[r].status = s
            /\ req'[r].ref = req[r].ref
        BY <1>types, <2>1, <3>2 DEF Request
      <4>2. IsProposed(w, KindOf(s))
        BY <2>1, <3>2 DEF WithdrawalInv, RequestStands
      <4>3. \A v, u : v = w /\ u = s => IsProposed(v, KindOf(u))'
        BY <1>7, <4>2 DEF SavePayment, IsProposed
      <4>4. (\A v : v = w => Exists(v)') /\ (req[r].ref => row'[w].paid)
        BY <1>types, <2>3, <2>4
      <4> QED
        BY <3>2, <4>1, <4>3, <4>4 DEF RequestStands
    <3> QED
      BY <3>1, <3>2
  <2>8. \A v : v = w => RowStands(v)'
    BY <1>7, <1>wallets, <1>types, <2>3, <2>4 DEF SavePayment, RowStands, WithdrawalInv
  <2> QED
    BY <1>0, <1>7, <1>types, <2>1, <2>2, <2>3, <2>5, <2>6, <2>7, <2>8, Frame DEF SavePayment
<1>8. ASSUME NEW r \in Req, TellOutcome(r) PROVE WithdrawalInv'
  <2> DEFINE m == [wd |-> req[r].wd, status |-> req[r].status, ref |-> req[r].ref]
  <2>1. /\ req[r].pc = "tell" /\ req'[r] = IdleRequest
        /\ \A q \in Req \ {r} : req'[q] = req[q]
    BY <1>8, <1>types DEF TellOutcome, Respond
  <2>2. Grows
    BY <1>8, <1>wallets DEF TellOutcome, Grows, Exists
  <2>3. \A q \in Req : CreatesAlone(q)'
    BY <1>8, <1>wallets, <2>1, StillAlone DEF TellOutcome, Creates, Exists, IdleRequest
  <2>4. \A n : n = m => NoticeStands(n)'
    <3>1. Exists(m.wd) /\ IsProposed(m.wd, KindOf(m.status)) /\ (m.ref => row[m.wd].paid)
      BY <2>1 DEF WithdrawalInv, RequestStands
    <3> QED
      BY <1>8, <3>1 DEF TellOutcome, NoticeStands, Exists, IsProposed
  <2> QED
    BY <1>0, <1>8, <2>1, <2>2, <2>3, <2>4, Frame DEF TellOutcome, Mailed, RequestStands, IdleRequest
<1>9. ASSUME UNCHANGED <<row, req, proposed, told, decided, cut>>,
             \A w \in Withdrawal : HasWallet(w) => HasWallet(w)'
      PROVE  WithdrawalInv'
  <2>1. Grows
    BY <1>9 DEF Grows, Exists
  <2>2. \A q \in Req : CreatesAlone(q)'
    BY <1>9, StillAlone DEF Creates, Exists
  <2> QED
    BY <1>0, <1>9, <2>1, <2>2, Frame
<1>10. ASSUME NEW tx \in proposed, SafeExecute(tx) PROVE WithdrawalInv'
  BY <1>9, <1>10, <1>wallets DEF SafeExecute
<1>11. CASE SafeSpendNonce
  BY <1>9, <1>11, <1>wallets DEF SafeSpendNonce
<1>12. ASSUME NEW u \in User, NEW a \in Wallet, LinkWallet(u, a) PROVE WithdrawalInv'
  <2>1. \A w \in Withdrawal : HasWallet(w) => HasWallet(w)'
    BY <1>12, WithdrawalNull DEF LinkWallet, HasWallet, WithdrawalInv, TypeOK
  <2> QED
    BY <1>9, <1>12, <2>1 DEF LinkWallet
<1>13. CASE ListenRedemption
  BY <1>9, <1>13, <1>wallets, NoneAwaits DEF ListenRedemption
<1>14. ASSUME NEW R \in SUBSET Req, req' = [r \in Req |-> IF r \in R THEN IdleRequest ELSE req[r]],
              cut' = cut \cup Unproposed(R),
              UNCHANGED <<row, wallet, proposed, executed, seen, told, decided>>
       PROVE  WithdrawalInv'
  <2>1. Grows
    BY <1>14, <1>wallets DEF Grows, Exists
  <2>2. \A q \in Req : CreatesAlone(q)'
    BY <1>14, <1>wallets, StillAlone DEF Creates, Exists, IdleRequest
  <2>3. \A r \in R : req'[r] = IdleRequest /\ RequestStands(r)'
    BY <1>14 DEF RequestStands, IdleRequest
  <2>4. \A r \in R : req[r].pc = "propose" => req[r].wd \in cut'
    BY <1>14 DEF Unproposed
  <2> QED
    BY <1>0, <1>14, <2>1, <2>2, <2>3, <2>4, Frame
<1>15. ASSUME NEW r \in Req, Fail(r) PROVE WithdrawalInv'
  <2>1. req' = [q \in Req |-> IF q \in {r} THEN IdleRequest ELSE req[q]]
    BY <1>15, <1>types DEF Fail, Respond
  <2> QED
    BY <1>14, <1>15, <2>1 DEF Fail
<1>16. CASE Restart
  <2>1. req' = [q \in Req |-> IF q \in Req THEN IdleRequest ELSE req[q]]
    BY <1>16 DEF Restart
  <2> QED
    BY <1>14, <1>16, <2>1 DEF Restart
<1>17. CASE UNCHANGED vars
  BY <1>9, <1>17, <1>wallets DEF vars
<1> QED
  BY <1>1, <1>2, <1>4, <1>5, <1>6, <1>7, <1>8, <1>10, <1>11, <1>12, <1>13, <1>15, <1>16,
     <1>17 DEF Next
-----------------------------------------------------------------------------
LEMMA InvHolds == Spec => []WithdrawalInv
BY InvInit, InvStep, PTL DEF Spec

(* Every reachable state of the withdrawals has its type: in particular    *)
(* nothing is ever proposed for a null wallet.                             *)
THEOREM TypeCorrect == Spec => []TypeOK
<1>1. WithdrawalInv => TypeOK
  BY DEF WithdrawalInv
<1> QED
  BY <1>1, InvHolds, PTL

(* Whatever is proposed to the Safe was decided by an administrator.       *)
THEOREM ProposalsBacked == Spec => []RedemptionBacked
<1>1. WithdrawalInv => RedemptionBacked
  BY DEF WithdrawalInv, RedemptionBacked, Backed
<1> QED
  BY <1>1, InvHolds, PTL

(* A final status stands for a proposal, unless the update was cut off     *)
(* between the two.                                                        *)
THEOREM DecisionsProposed == Spec => []DecisionProposed
<1>1. WithdrawalInv => DecisionProposed
  <2> SUFFICES ASSUME WithdrawalInv, NEW w \in Withdrawal \ cut,
                      \A r \in Req : req[r].pc \in {"status", "propose"} => req[r].wd # w
               PROVE  /\ row[w].status = "PROCESSED" => IsProposed(w, "finalize")
                      /\ row[w].status = "REJECTED"  => IsProposed(w, "reject")
    BY DEF DecisionProposed
  <2>1. ~InFlight(w)
    BY DEF InFlight
  <2>2. KindOf(row[w].status) = "none" \/ IsProposed(w, KindOf(row[w].status))
    BY <2>1 DEF WithdrawalInv, DecisionStands
  <2> QED
    BY <2>2, Kinds
<1> QED
  BY <1>1, InvHolds, PTL

(* The mail of an outcome comes after what it says.                        *)
THEOREM ToldAfterDone == Spec => []ToldIsDone
<1>1. WithdrawalInv => ToldIsDone
  <2> SUFFICES ASSUME WithdrawalInv, NEW m \in told
               PROVE  /\ IsProposed(m.wd, IF m.status = "PROCESSED" THEN "finalize" ELSE "reject")
                      /\ m.ref => row[m.wd].paid
    BY DEF ToldIsDone
  <2>1. NoticeStands(m) /\ m.status \in {"PROCESSED", "REJECTED"}
    BY DEF WithdrawalInv, TypeOK, Notice
  <2> QED
    BY <2>1, Kinds DEF NoticeStands
<1> QED
  BY <1>1, InvHolds, PTL

(* No withdrawal ever awaits a burn, so the listener links none: whatever  *)
(* it hears of redemptions changes nothing.                                *)
THEOREM NothingAwaitsABurn == Spec => [](\A a : Awaiting(a) = {})
<1>1. WithdrawalInv => \A a : Awaiting(a) = {}
  BY NoneAwaits
<1> QED
  BY <1>1, InvHolds, PTL
=============================================================================
