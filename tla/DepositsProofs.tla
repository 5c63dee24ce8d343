--------------------------- MODULE DepositsProofs ---------------------------
(***************************************************************************)
(* What holds of the deposit pipeline whatever its size, however many      *)
(* requests overlap and whatever fails.                                    *)
(***************************************************************************)
EXTENDS Deposits, TLAPS

(* What proposeMint sends to the Safe is an address.                       *)
WalletRead == \A r \in Req : req[r].pc = "propose" => req[r].to \in Wallet

TypeInv == TypeOK /\ WalletRead

(* The constants and the small records are what they look like.            *)
LEMMA Constant ==
  /\ NumDeposits \in Nat \ {0} /\ 1 \in Deposit /\ Deposit \subseteq Nat
  /\ Owner \in [Deposit -> User] /\ Pen \subseteq Deposit
  /\ Amount \in [Deposit -> Nat \ {0}]
  /\ NoRow \in Row /\ IdleRequest \in Request /\ IdleListener \in Listening
BY DepositAssumption DEF Deposit, NoRow, Row, Status, IdleRequest, Request, Waiting,
   IdleListener, Listening

(* The update of a row keeps the table a table and the other rows alone.   *)
LEMMA Updated ==
  ASSUME op \in [Deposit -> Row], NEW d \in Deposit, NEW row \in Row, Update(d, row)
  PROVE  /\ op' \in [Deposit -> Row]
         /\ op'[d] = row
         /\ \A e \in Deposit : e # d => op'[e] = op[e]
BY DEF Update

(* The updates that more than one handler or a type bound has a part in.   *)
LEMMA RowFields ==
  ASSUME NEW row \in Row
  PROVE  /\ \A s \in Status : [row EXCEPT !.status = s] \in Row
         /\ \A n \in Nat : [row EXCEPT !.mint = n] \in Row
         /\ \A n \in Nat : [row EXCEPT !.mint = n, !.status = "PROCESSED"] \in Row
         /\ \A n \in Nat, tx \in MintTx \cup {None} :
              [row EXCEPT !.safeTx = tx, !.proposedAt = n] \in Row
BY DEF Row, Status

LEMMA TypeInit == Init => TypeInv
<1> SUFFICES ASSUME Init PROVE TypeInv
  OBVIOUS
<1> USE Constant DEF Init
<1>1. op \in [Deposit -> Row] /\ req \in [Req -> Request] /\ lst \in Listening
  OBVIOUS
<1>2. executed \in Seq(MintTx \cup {Other})
  OBVIOUS
<1>3. WalletRead
  BY DEF WalletRead, IdleRequest
<1> QED
  BY <1>1, <1>2, <1>3 DEF TypeInv, TypeOK

LEMMA TypeStep == TypeInv /\ [Next]_vars => TypeInv'
<1> SUFFICES ASSUME TypeInv, [Next]_vars PROVE TypeInv'
  OBVIOUS
<1> USE Constant DEF TypeInv, TypeOK, WalletRead
<1>1. ASSUME NEW d \in Deposit, CreateDeposit(d) PROVE TypeInv'
  <2> DEFINE row == [op[d] EXCEPT !.status = "PENDING"]
  <2>0. row \in Row
    BY DEF Row, Status
  <2>1. op' \in [Deposit -> Row]
    BY <1>1, <2>0, Updated DEF CreateDeposit
  <2> QED
    BY <1>1, <2>1 DEF CreateDeposit, userVars, chainVars, jobVars, listenVars, historyVars
<1>2. ASSUME NEW d \in Deposit, RateLockExpires(d) PROVE TypeInv'
  BY <1>2 DEF RateLockExpires, userVars, chainVars, jobVars, listenVars, historyVars
<1>3. ASSUME NEW r \in Req, NEW d \in Deposit, StartUpload(r, d) PROVE TypeInv'
  <2>1. req' \in [Req -> Request] /\ WalletRead'
    BY <1>3 DEF StartUpload, Request, IdleRequest, Waiting
  <2> QED
    BY <1>3, <2>1 DEF StartUpload, userVars, chainVars, jobVars, listenVars, historyVars
<1>4. ASSUME NEW r \in Req, NEW d \in Deposit, StartApprove(r, d) PROVE TypeInv'
  <2>1. req' \in [Req -> Request] /\ WalletRead'
    BY <1>4 DEF StartApprove, Request, IdleRequest, Waiting, Await
  <2> QED
    BY <1>4, <2>1 DEF StartApprove, userVars, chainVars, jobVars, listenVars, historyVars
<1>5. ASSUME NEW r \in Req, NEW d \in Deposit, StartReject(r, d) PROVE TypeInv'
  <2>1. req' \in [Req -> Request] /\ WalletRead'
    BY <1>5 DEF StartReject, Request, IdleRequest, Waiting, Await
  <2> QED
    BY <1>5, <2>1 DEF StartReject, userVars, chainVars, jobVars, listenVars, historyVars
<1>6. ASSUME NEW r \in Req, NEW d \in Deposit, StartCorrection(r, d) PROVE TypeInv'
  <2>1. req' \in [Req -> Request] /\ WalletRead'
    BY <1>6 DEF StartCorrection, Request, IdleRequest, Waiting, Await
  <2> QED
    BY <1>6, <2>1 DEF StartCorrection, userVars, chainVars, jobVars, listenVars, historyVars
<1>7. ASSUME NEW r \in Req, FinishUpload(r) PROVE TypeInv'
  <2>1. req[r] \in Request /\ req[r].dep \in Deposit
    BY DEF Request
  <2> DEFINE row == [op[req[r].dep] EXCEPT !.status = "PROOF_SUBMITTED", !.proof = TRUE,
                    !.late = req[r].dep \in Pen /\ req[r].dep \in expired,
                    !.note = @ /\ ~ShouldClearReview(r)]
  <2>2. op' \in [Deposit -> Row]
    <3>1. row \in Row
      BY <2>1 DEF Row, Status, Request, ShouldClearReview
    <3> QED
      BY <1>7, <2>1, <3>1, Updated DEF FinishUpload
  <2>3. req' \in [Req -> Request] /\ WalletRead'
    BY <1>7 DEF FinishUpload, Respond, IdleRequest
  <2> QED
    BY <1>7, <2>1, <2>2, <2>3 DEF FinishUpload, userVars, chainVars, jobVars, listenVars, historyVars
<1>8. ASSUME NEW r \in Req, FinishExpire(r) PROVE TypeInv'
  <2>1. req[r] \in Request /\ req[r].dep \in Deposit
    BY DEF Request
  <2> DEFINE row == [op[req[r].dep] EXCEPT !.status = "RATE_EXPIRED"]
  <2>2. op' \in [Deposit -> Row]
    <3>1. row \in Row
      BY <2>1 DEF Row, Status, Request
    <3> QED
      BY <1>8, <2>1, <3>1, Updated DEF FinishExpire
  <2>3. req' \in [Req -> Request] /\ WalletRead'
    BY <1>8 DEF FinishExpire, Respond, IdleRequest
  <2> QED
    BY <1>8, <2>1, <2>2, <2>3 DEF FinishExpire, userVars, chainVars, jobVars, listenVars, historyVars
<1>9. ASSUME NEW r \in Req, FinishDecision(r) PROVE TypeInv'
  <2>1. req[r] \in Request /\ req[r].dep \in Deposit
    BY DEF Request
  <2> DEFINE row == [op[req[r].dep] EXCEPT !.status =
                    IF req[r].pc = "approve" THEN "APPROVED" ELSE "REJECTED"]
  <2>2. op' \in [Deposit -> Row]
    <3>1. row \in Row
      BY <2>1 DEF Row, Status, Request
    <3> QED
      BY <1>9, <2>1, <3>1, Updated DEF FinishDecision
  <2>3. req' \in [Req -> Request] /\ WalletRead'
    BY <1>9 DEF FinishDecision, Respond, IdleRequest
  <2> QED
    BY <1>9, <2>1, <2>2, <2>3 DEF FinishDecision, userVars, chainVars, jobVars, listenVars, historyVars
<1>10. ASSUME NEW r \in Req, FinishCorrection(r) PROVE TypeInv'
  <2>1. req[r] \in Request /\ req[r].dep \in Deposit
    BY DEF Request
  <2> DEFINE row == [op[req[r].dep] EXCEPT !.status = "NEED_CORRECTION", !.note = TRUE]
  <2>2. op' \in [Deposit -> Row]
    <3>1. row \in Row
      BY <2>1 DEF Row, Status, Request
    <3> QED
      BY <1>10, <2>1, <3>1, Updated DEF FinishCorrection
  <2>3. req' \in [Req -> Request] /\ WalletRead'
    BY <1>10 DEF FinishCorrection, Respond, IdleRequest
  <2> QED
    BY <1>10, <2>1, <2>2, <2>3 DEF FinishCorrection, userVars, chainVars, jobVars, listenVars, historyVars
<1>11. ASSUME NEW r \in Req, NEW d \in Deposit, StartPropose(r, d) PROVE TypeInv'
  <2>1. req' \in [Req -> Request] /\ WalletRead'
    <3>1. wallet[Owner[d]] \in Wallet /\ firstMint[Owner[d]] \in BOOLEAN
      BY <1>11 DEF StartPropose, MayPropose
    <3>2. [IdleRequest EXCEPT !.pc = "propose", !.dep = d, !.to = wallet[Owner[d]],
                              !.first = firstMint[Owner[d]]] \in Request
      BY <3>1 DEF Request, IdleRequest, Waiting
    <3> QED
      BY <1>11, <3>1, <3>2 DEF StartPropose, IdleRequest
  <2> QED
    BY <1>11, <2>1 DEF StartPropose, userVars, chainVars, jobVars, listenVars, historyVars
<1>12. ASSUME NEW r \in Req, ProposeToSafe(r) PROVE TypeInv'
  <2> DEFINE tx == [to |-> req[r].to, amount |-> Amount[req[r].dep],
                    airdrop |-> req[r].first, nonce |-> Len(executed)]
  <2>1. tx \in MintTx
    BY <1>12 DEF ProposeToSafe, Request, MintTx
  <2>2. req' \in [Req -> Request] /\ WalletRead'
    BY <1>12, <2>1 DEF ProposeToSafe, Request, Waiting
  <2> QED
    BY <1>12, <2>1, <2>2 DEF ProposeToSafe, userVars, chainVars, jobVars, listenVars, historyVars
<1>13. ASSUME NEW r \in Req, SaveProposal(r) PROVE TypeInv'
  <2>1. req[r] \in Request /\ req[r].dep \in Deposit
    BY DEF Request
  <2> DEFINE row == [op[req[r].dep] EXCEPT !.safeTx = req[r].tx, !.proposedAt = saves + 1]
  <2>2. op' \in [Deposit -> Row]
    <3>1. row \in Row
      <4>1. op[req[r].dep] \in Row
        BY <2>1
      <4>2. saves + 1 \in Nat
        OBVIOUS
      <4>3. req[r].tx \in MintTx \cup {None}
        BY <2>1 DEF Request
      <4> QED
        BY <4>1, <4>2, <4>3, RowFields
    <3> QED
      BY <1>13, <2>1, <3>1, Updated DEF SaveProposal
  <2>3. req' \in [Req -> Request] /\ WalletRead'
    BY <1>13 DEF SaveProposal, Respond, IdleRequest
  <2>4. firstMint' \in [User -> BOOLEAN]
    <3>1. FirstMintSpent(r) \in [User -> BOOLEAN]
      BY <2>1 DEF FirstMintSpent
    <3> QED
      BY <1>13, <3>1 DEF SaveProposal
  <2> QED
    BY <1>13, <2>2, <2>3, <2>4 DEF SaveProposal, userVars, chainVars, jobVars, listenVars, historyVars
<1>14. ASSUME NEW tx \in proposed, SafeExecute(tx) PROVE TypeInv'
  BY <1>14 DEF SafeExecute, userVars, chainVars, jobVars, listenVars, historyVars
<1>15. ASSUME SafeSpendNonce PROVE TypeInv'
  BY <1>15 DEF SafeSpendNonce, userVars, chainVars, jobVars, listenVars, historyVars
<1>16. ASSUME NEW u \in User, NEW w \in Wallet, LinkWallet(u, w) PROVE TypeInv'
  BY <1>16 DEF LinkWallet, userVars, chainVars, jobVars, listenVars, historyVars
<1>17. ASSUME JobStart PROVE TypeInv'
  <2>1. job' \subseteq Deposit \X MintTx
    <3>1. \A d \in Unsettled : d \in Deposit /\ op[d].safeTx \in MintTx
      BY DEF Unsettled, Row
    <3>2. Oldest(Unsettled) \subseteq Unsettled
      BY DEF Oldest
    <3> QED
      BY <1>17, <3>1, <3>2 DEF JobStart
  <2> QED
    BY <1>17, <2>1 DEF JobStart, userVars, chainVars, jobVars, listenVars, historyVars
<1>18. ASSUME NEW row \in job, JobSync(row[1], row[2]) PROVE TypeInv'
  <2>1. row[1] \in Deposit /\ row[2] \in MintTx /\ row[2].nonce \in Nat
    BY DEF MintTx
  <2> DEFINE row1 == [op[row[1]] EXCEPT !.mint = row[2].nonce + 1, !.status = "PROCESSED"]
  <2>2. op' \in [Deposit -> Row]
    <3>1. row1 \in Row
      <4>1. op[row[1]] \in Row
        BY <2>1
      <4>2. row[2].nonce + 1 \in Nat
        BY <2>1
      <4> QED
        BY <4>1, <4>2, RowFields
    <3> QED
      BY <1>18, <2>1, <3>1, Updated DEF JobSync
  <2> QED
    BY <1>18, <2>2 DEF JobSync, NextRow, userVars, chainVars, jobVars, listenVars, historyVars
<1>19. ASSUME NEW row \in job, JobPass(row[1], row[2]) PROVE TypeInv'
  BY <1>19 DEF JobPass, NextRow, userVars, chainVars, jobVars, listenVars, historyVars
<1>20. ASSUME NEW row \in job, JobError(row[1], row[2]) PROVE TypeInv'
  BY <1>20 DEF JobError, NextRow, userVars, chainVars, jobVars, listenVars, historyVars
<1>21. ASSUME NEW tx \in backoff, BackoffEnds(tx) PROVE TypeInv'
  BY <1>21 DEF BackoffEnds, userVars, chainVars, jobVars, listenVars, historyVars
<1>22. ASSUME NEW n \in 1 .. Len(executed), NEW d \in Deposit, ListenMinted(n, d) PROVE TypeInv'
  BY <1>22 DEF ListenMinted, Listening, userVars, chainVars, jobVars, listenVars, historyVars
<1>23. ASSUME NEW n \in 1 .. Len(executed), ListenNothing(n) PROVE TypeInv'
  BY <1>23 DEF ListenNothing, userVars, chainVars, jobVars, listenVars, historyVars
<1>24. ASSUME NEW n \in 1 .. Len(executed), ListenLost(n) PROVE TypeInv'
  BY <1>24 DEF ListenLost, userVars, chainVars, jobVars, listenVars, historyVars
<1>25. ASSUME LinkMint PROVE TypeInv'
  <2>1. op' \in [Deposit -> Row] /\ lst' \in Listening
    <3>1. lst.dep \in Deposit /\ [op[lst.dep] EXCEPT !.mint = lst.ev] \in Row
      <4>1. op[lst.dep] \in Row /\ lst.dep \in Deposit /\ lst.ev \in Nat
        BY DEF Listening
      <4> QED
        BY <4>1, RowFields
    <3> QED
      BY <1>25, <3>1, Updated DEF LinkMint, Listening
  <2> QED
    BY <1>25, <2>1 DEF LinkMint, userVars, chainVars, jobVars, listenVars, historyVars
<1>26. ASSUME ProcessMint PROVE TypeInv'
  <2>1. op' \in [Deposit -> Row]
    <3>1. lst.dep \in Deposit /\ [op[lst.dep] EXCEPT !.status = "PROCESSED"] \in Row
      <4>1. op[lst.dep] \in Row /\ lst.dep \in Deposit /\ "PROCESSED" \in Status
        BY DEF Listening, Status
      <4> QED
        BY <4>1, RowFields
    <3> QED
      BY <1>26, <3>1, Updated DEF ProcessMint
  <2> QED
    BY <1>26, <2>1 DEF ProcessMint, userVars, chainVars, jobVars, listenVars, historyVars
<1>27. ASSUME NEW r \in Req, Fail(r) PROVE TypeInv'
  <2>1. req' \in [Req -> Request] /\ WalletRead'
    BY <1>27 DEF Fail, Respond, IdleRequest
  <2> QED
    BY <1>27, <2>1 DEF Fail, userVars, chainVars, jobVars, listenVars, historyVars
<1>28. ASSUME ListenerFails PROVE TypeInv'
  BY <1>28 DEF ListenerFails, userVars, chainVars, jobVars, listenVars, historyVars
<1>29. ASSUME Restart PROVE TypeInv'
  <2>1. req' \in [Req -> Request] /\ WalletRead'
    BY <1>29 DEF Restart, IdleRequest
  <2> QED
    BY <1>29, <2>1 DEF Restart, userVars, chainVars, jobVars, listenVars, historyVars
<1>30. CASE UNCHANGED vars
  BY <1>30 DEF vars
<1>31. CASE ReviewStep
  BY <1>31, <1>1, <1>2, <1>3, <1>4, <1>5, <1>6, <1>7, <1>8, <1>9, <1>10 DEF ReviewStep
<1>32. CASE ProposalStep
  BY <1>32, <1>11, <1>12, <1>13, <1>14, <1>15, <1>16 DEF ProposalStep
<1>33. CASE SettlementStep
  BY <1>33, <1>17, <1>18, <1>19, <1>20, <1>21, <1>22, <1>23, <1>24, <1>25, <1>26
     DEF SettlementStep
<1>34. CASE FaultStep
  BY <1>34, <1>27, <1>28, <1>29 DEF FaultStep
<1> QED
  BY <1>30, <1>31, <1>32, <1>33, <1>34 DEF Next

(* Type correctness of the pipeline.                                       *)
THEOREM TypeCorrect == Spec => []TypeOK
<1>1. Spec => []TypeInv
  BY TypeInit, TypeStep, PTL DEF Spec
<1> QED
  BY <1>1, PTL DEF TypeInv
=============================================================================
