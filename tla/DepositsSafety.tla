--------------------------- MODULE DepositsSafety ---------------------------
(***************************************************************************)
(* The safety of the deposit pipeline under overlapping requests and       *)
(* faults.  The updates select a row by id, so what protects them is only  *)
(* what a handler read before it waited; the inductive invariant says of   *)
(* every handler in flight that what it read and relies on still stands,   *)
(* because it is of a kind that is never undone: a proof, an approval, the *)
(* end of a rate lock, an executed transaction.                            *)
(***************************************************************************)
EXTENDS DepositsProofs

RequestStands(r) ==
  LET d == req[r].dep IN
  /\ req[r].pc \in {"approve", "reject", "correct", "propose", "save"} => op[d].proof
  /\ req[r].pc \in {"propose", "save"} => d \in approved
  /\ req[r].pc = "expire" => d \in Pen \cap expired

RowStands(d) ==
  /\ op[d].status \in {"PROOF_SUBMITTED", "NEED_CORRECTION", "APPROVED", "REJECTED", "PROCESSED"}
       => op[d].proof
  /\ op[d].status = "APPROVED" => d \in approved
  /\ op[d].status = "RATE_EXPIRED" => d \in Pen \cap expired
  /\ op[d].status = "PROCESSED" => op[d].mint # 0
  /\ op[d].late => d \in Pen \cap expired
  /\ op[d].safeTx # None => op[d].proof
  /\ op[d].mint # 0 => LinkedToMint(op[d].mint)

JobRowStands(row) == op[row[1]].proof

ListenerStands ==
  /\ lst.pc # "idle" => op[lst.dep].proof /\ LinkedToMint(lst.ev)
  /\ lst.pc = "process" => op[lst.dep].mint # 0

SafetyInv ==
  /\ TypeInv
  /\ \A r \in Req : RequestStands(r)
  /\ \A d \in Deposit : RowStands(d)
  /\ \A row \in job : JobRowStands(row)
  /\ ListenerStands
  /\ EveryMintBacked

(* What no step undoes.                                                    *)
Grows ==
  /\ \A d \in Deposit : op[d].proof => op'[d].proof
  /\ \A d \in Deposit : op[d].mint # 0 => op'[d].mint # 0
  /\ approved \subseteq approved'
  /\ expired \subseteq expired'
  /\ \A n : LinkedToMint(n) => LinkedToMint(n)'

(* The handlers, rows and proposals that a step leaves alone keep standing *)
(* when nothing they rely on is undone: only the others need a look.       *)
LEMMA Frame ==
  ASSUME SafetyInv, TypeInv', Grows,
         \A r \in Req : req'[r] = req[r] \/ RequestStands(r)',
         \A d \in Deposit : op'[d] = op[d] \/ RowStands(d)',
         \A row \in job' : row \in job \/ JobRowStands(row)',
         lst' = lst \/ ListenerStands',
         \A tx \in proposed' : tx \in proposed \/ Backed(tx)'
  PROVE  SafetyInv'
<1>1. \A r \in Req : RequestStands(r)'
  <2> SUFFICES ASSUME NEW r \in Req, req'[r] = req[r] PROVE RequestStands(r)'
    OBVIOUS
  <2>1. req[r].dep \in Deposit
    BY DEF SafetyInv, TypeInv, TypeOK, Request
  <2> QED
    BY <2>1 DEF SafetyInv, Grows, RequestStands
<1>2. \A d \in Deposit : RowStands(d)'
  BY DEF SafetyInv, Grows, RowStands
<1>3. \A row \in job' : JobRowStands(row)'
  <2> SUFFICES ASSUME NEW row \in job PROVE JobRowStands(row)'
    OBVIOUS
  <2>1. row[1] \in Deposit
    BY DEF SafetyInv, TypeInv, TypeOK
  <2> QED
    BY <2>1 DEF SafetyInv, Grows, JobRowStands
<1>4. ListenerStands'
  <2> SUFFICES ASSUME lst' = lst PROVE ListenerStands'
    OBVIOUS
  <2>1. lst.dep \in Deposit
    BY DEF SafetyInv, TypeInv, TypeOK, Listening
  <2> QED
    BY <2>1 DEF SafetyInv, Grows, ListenerStands
<1>5. EveryMintBacked'
  <2> SUFFICES ASSUME NEW tx \in proposed PROVE Backed(tx)'
    BY DEF EveryMintBacked
  <2>1. PICK d \in approved : op[d].proof /\ Amount[d] = tx.amount
    BY DEF SafetyInv, EveryMintBacked, Backed
  <2>2. d \in Deposit
    BY DEF SafetyInv, TypeInv, TypeOK
  <2> QED
    BY <2>1, <2>2 DEF Grows, Backed
<1> QED
  BY <1>1, <1>2, <1>3, <1>4, <1>5 DEF SafetyInv

(* The same, for a step that updates one row.                              *)
LEMMA FrameRow ==
  ASSUME SafetyInv, TypeInv', NEW d \in Deposit, NEW row \in Row, Update(d, row),
         op[d].proof => row.proof, op[d].mint # 0 => row.mint # 0,
         approved \subseteq approved', expired \subseteq expired',
         UNCHANGED <<executed, proposed>>,
         job' \subseteq job,
         RowStands(d)',
         \A r \in Req : req'[r] = req[r] \/ RequestStands(r)',
         lst' = lst \/ ListenerStands'
  PROVE  SafetyInv'
<1>1. op' \in [Deposit -> Row] /\ op'[d] = row /\ \A e \in Deposit : e # d => op'[e] = op[e]
  BY Updated DEF SafetyInv, TypeInv, TypeOK
<1>2. Grows
  BY <1>1 DEF Grows, LinkedToMint
<1>3. \A e \in Deposit : op'[e] = op[e] \/ RowStands(e)'
  BY <1>1
<1> QED
  BY <1>2, <1>3, Frame

(* The same, for a step that updates no row.                               *)
LEMMA FrameNoRow ==
  ASSUME SafetyInv, TypeInv', op' = op, approved' = approved, expired \subseteq expired',
         executed' = executed \/ \E tx \in MintTx \cup {Other} : executed' = Append(executed, tx),
         \A r \in Req : req'[r] = req[r] \/ RequestStands(r)',
         \A row \in job' : row \in job \/ JobRowStands(row)',
         lst' = lst \/ ListenerStands',
         \A tx \in proposed' : tx \in proposed \/ Backed(tx)'
  PROVE  SafetyInv'
<1>1. \A n : LinkedToMint(n) => LinkedToMint(n)'
  <2>1. executed \in Seq(MintTx \cup {Other})
    BY DEF SafetyInv, TypeInv, TypeOK
  <2>2. CASE executed' = executed
    BY <2>2 DEF LinkedToMint
  <2>3. ASSUME NEW tx \in MintTx \cup {Other}, executed' = Append(executed, tx)
        PROVE  \A n : LinkedToMint(n) => LinkedToMint(n)'
    BY <2>1, <2>3 DEF LinkedToMint
  <2> QED
    BY <2>2, <2>3
<1>2. Grows
  BY <1>1 DEF Grows
<1> QED
  BY <1>2, Frame
LEMMA SafetyInit == Init => SafetyInv
<1> SUFFICES ASSUME Init PROVE SafetyInv
  OBVIOUS
<1>1. TypeInv
  BY TypeInit
<1>2. \A r \in Req : RequestStands(r)
  BY DEF Init, RequestStands, IdleRequest
<1>3. \A d \in Deposit : RowStands(d)
  BY DEF Init, RowStands, NoRow
<1>4. ListenerStands /\ EveryMintBacked /\ \A row \in job : JobRowStands(row)
  BY DEF Init, ListenerStands, IdleListener, EveryMintBacked
<1> QED
  BY <1>1, <1>2, <1>3, <1>4 DEF SafetyInv

(* A request that has been answered relies on nothing.                     *)
LEMMA Answered ==
  ASSUME TypeInv, NEW r \in Req, Respond(r)
  PROVE  \A q \in Req : req'[q] = req[q] \/ RequestStands(q)'
<1>1. \A q \in Req : req'[q] = IF q = r THEN IdleRequest ELSE req[q]
  BY DEF TypeInv, TypeOK, Respond
<1>2. req'[r] = IdleRequest => RequestStands(r)'
  BY DEF RequestStands, IdleRequest
<1> QED
  BY <1>1, <1>2

LEMMA SafetyStep == SafetyInv /\ [Next]_vars => SafetyInv'
<1> SUFFICES ASSUME SafetyInv, [Next]_vars PROVE SafetyInv'
  OBVIOUS
<1>0. TypeInv /\ TypeInv'
  BY TypeStep DEF SafetyInv
<1>1. ASSUME NEW d \in Deposit, CreateDeposit(d) PROVE SafetyInv'
  <2> DEFINE row == [op[d] EXCEPT !.status = "PENDING"]
  <2>0. op[d] \in Row /\ "PENDING" \in Status
    BY <1>0 DEF TypeInv, TypeOK, Status
  <2>1. row \in Row /\ row.proof = op[d].proof /\ row.mint = op[d].mint
    BY <2>0, RowFields DEF Row
  <2>2. RowStands(d) /\ op'[d] = row
    BY <1>1, <2>1, <1>0, Updated DEF CreateDeposit, TypeInv, TypeOK, SafetyInv
  <2>3. RowStands(d)'
    BY <1>1, <2>2, <2>1 DEF CreateDeposit, RowStands, LinkedToMint, chainVars, historyVars, Row
  <2> QED
    BY <1>1, <2>1, <2>3, <1>0, FrameRow DEF CreateDeposit,
       userVars, chainVars, jobVars, listenVars, historyVars
<1>2. ASSUME NEW d \in Deposit, RateLockExpires(d) PROVE SafetyInv'
  BY <1>2, <1>0, FrameNoRow DEF RateLockExpires,
       userVars, chainVars, jobVars, listenVars, historyVars
<1>3. ASSUME NEW r \in Req, NEW d \in Deposit, StartUpload(r, d) PROVE SafetyInv'
  <2>1. RowStands(d) /\ op[d] \in Row
    BY <1>0 DEF SafetyInv, TypeInv, TypeOK
  <2>2. \A q \in Req \ {r} : req'[q] = req[q]
    BY <1>3, <1>0 DEF StartUpload, TypeInv, TypeOK
  <2>3. req'[r].dep = d /\ req'[r].pc = IF Lapsed(d) THEN "expire" ELSE "upload"
    BY <1>3, <1>0 DEF StartUpload, TypeInv, TypeOK, IdleRequest
  <2>4. RequestStands(r)'
    BY <1>3, <2>1, <2>3 DEF StartUpload, RowStands, RequestStands, Row, historyVars, Idle, Lapsed
  <2> QED
    BY <1>3, <1>0, <2>2, <2>4, FrameNoRow DEF StartUpload,
       userVars, chainVars, jobVars, listenVars, historyVars
<1>4. ASSUME NEW r \in Req, NEW d \in Deposit, StartApprove(r, d) PROVE SafetyInv'
  <2>1. RowStands(d) /\ op[d] \in Row
    BY <1>0 DEF SafetyInv, TypeInv, TypeOK
  <2>2. \A q \in Req \ {r} : req'[q] = req[q]
    BY <1>4, <1>0 DEF StartApprove, TypeInv, TypeOK, Await
  <2>3. req'[r].dep = d /\ req'[r].pc = IF TooLate(d) THEN "expire" ELSE "approve"
    BY <1>4, <1>0 DEF StartApprove, TypeInv, TypeOK, IdleRequest, Await
  <2>4. RequestStands(r)'
    BY <1>4, <2>1, <2>3 DEF StartApprove, RowStands, RequestStands, Row, historyVars, Idle, MayApprove, TooLate
  <2> QED
    BY <1>4, <1>0, <2>2, <2>4, FrameNoRow DEF StartApprove,
       userVars, chainVars, jobVars, listenVars, historyVars
<1>5. ASSUME NEW r \in Req, NEW d \in Deposit, StartReject(r, d) PROVE SafetyInv'
  <2>1. RowStands(d) /\ op[d] \in Row
    BY <1>0 DEF SafetyInv, TypeInv, TypeOK
  <2>2. \A q \in Req \ {r} : req'[q] = req[q]
    BY <1>5, <1>0 DEF StartReject, TypeInv, TypeOK, Await
  <2>3. req'[r].dep = d /\ req'[r].pc = "reject"
    BY <1>5, <1>0 DEF StartReject, TypeInv, TypeOK, IdleRequest, Await
  <2>4. RequestStands(r)'
    BY <1>5, <2>1, <2>3 DEF StartReject, RowStands, RequestStands, Row, historyVars, Idle, MayReject
  <2> QED
    BY <1>5, <1>0, <2>2, <2>4, FrameNoRow DEF StartReject,
       userVars, chainVars, jobVars, listenVars, historyVars
<1>6. ASSUME NEW r \in Req, NEW d \in Deposit, StartCorrection(r, d) PROVE SafetyInv'
  <2>1. RowStands(d) /\ op[d] \in Row
    BY <1>0 DEF SafetyInv, TypeInv, TypeOK
  <2>2. \A q \in Req \ {r} : req'[q] = req[q]
    BY <1>6, <1>0 DEF StartCorrection, TypeInv, TypeOK, Await
  <2>3. req'[r].dep = d /\ req'[r].pc = "correct"
    BY <1>6, <1>0 DEF StartCorrection, TypeInv, TypeOK, IdleRequest, Await
  <2>4. RequestStands(r)'
    BY <1>6, <2>1, <2>3 DEF StartCorrection, RowStands, RequestStands, Row, historyVars, Idle
  <2> QED
    BY <1>6, <1>0, <2>2, <2>4, FrameNoRow DEF StartCorrection,
       userVars, chainVars, jobVars, listenVars, historyVars
<1>7. ASSUME NEW r \in Req, FinishUpload(r) PROVE SafetyInv'
  <2>0. PICK d \in Deposit : d = req[r].dep
    BY <1>0 DEF TypeInv, TypeOK, Request
  <2> DEFINE row == [op[d] EXCEPT !.status = "PROOF_SUBMITTED", !.proof = TRUE,
                              !.late = d \in Pen /\ d \in expired,
                              !.note = @ /\ ~ShouldClearReview(r)]
  <2>1. op[d] \in Row /\ req[r] \in Request
    BY <1>0 DEF TypeInv, TypeOK, Request
  <2>2. row \in Row /\ row.mint = op[d].mint /\ row.proof
       /\ row.status = "PROOF_SUBMITTED" /\ row.late = (d \in Pen /\ d \in expired)
       /\ row.safeTx = op[d].safeTx
    BY <2>0, <2>1, <1>7 DEF FinishUpload, Row, Status, Request, ShouldClearReview
  <2>3. RowStands(d) /\ RequestStands(r)
    BY <2>1 DEF SafetyInv
  <2>4. op'[d] = row /\ \A q \in Req : req'[q] = req[q] \/ RequestStands(q)'
    BY <1>7, <2>0, <1>0, <2>1, <2>2, Updated, Answered DEF FinishUpload, TypeInv, TypeOK
  <2>5. RowStands(d)'
    BY <1>7, <2>0, <2>1, <2>2, <2>3, <2>4
       DEF FinishUpload, RowStands, RequestStands, LinkedToMint, chainVars, historyVars
  <2> QED
    BY <1>7, <2>0, <1>0, <2>1, <2>2, <2>4, <2>5, FrameRow DEF FinishUpload,
       userVars, chainVars, jobVars, listenVars, historyVars
<1>8. ASSUME NEW r \in Req, FinishExpire(r) PROVE SafetyInv'
  <2>0. PICK d \in Deposit : d = req[r].dep
    BY <1>0 DEF TypeInv, TypeOK, Request
  <2> DEFINE row == [op[d] EXCEPT !.status = "RATE_EXPIRED"]
  <2>1. op[d] \in Row /\ req[r] \in Request
    BY <1>0 DEF TypeInv, TypeOK, Request
  <2>2. row \in Row /\ row.mint = op[d].mint /\ row.proof = op[d].proof
       /\ row.status = "RATE_EXPIRED" /\ row.late = op[d].late /\ row.safeTx = op[d].safeTx
    BY <2>0, <2>1, <1>8 DEF FinishExpire, Row, Status, Request
  <2>3. RowStands(d) /\ RequestStands(r)
    BY <2>1 DEF SafetyInv
  <2>4. op'[d] = row /\ \A q \in Req : req'[q] = req[q] \/ RequestStands(q)'
    BY <1>8, <2>0, <1>0, <2>1, <2>2, Updated, Answered DEF FinishExpire, TypeInv, TypeOK
  <2>5. RowStands(d)'
    BY <1>8, <2>0, <2>1, <2>2, <2>3, <2>4
       DEF FinishExpire, RowStands, RequestStands, LinkedToMint, chainVars, historyVars
  <2> QED
    BY <1>8, <2>0, <1>0, <2>1, <2>2, <2>4, <2>5, FrameRow DEF FinishExpire,
       userVars, chainVars, jobVars, listenVars, historyVars
<1>9. ASSUME NEW r \in Req, FinishDecision(r) PROVE SafetyInv'
  <2>0. PICK d \in Deposit : d = req[r].dep
    BY <1>0 DEF TypeInv, TypeOK, Request
  <2> DEFINE row == [op[d] EXCEPT !.status = IF req[r].pc = "approve" THEN "APPROVED" ELSE "REJECTED"]
  <2>1. op[d] \in Row /\ req[r] \in Request
    BY <1>0 DEF TypeInv, TypeOK, Request
  <2>2. row \in Row /\ row.mint = op[d].mint /\ row.proof = op[d].proof
       /\ row.status = (IF req[r].pc = "approve" THEN "APPROVED" ELSE "REJECTED")
       /\ row.late = op[d].late /\ row.safeTx = op[d].safeTx
    BY <2>0, <2>1, <1>9 DEF FinishDecision, Row, Status, Request
  <2>3. RowStands(d) /\ RequestStands(r)
    BY <2>1 DEF SafetyInv
  <2>4. op'[d] = row /\ \A q \in Req : req'[q] = req[q] \/ RequestStands(q)'
    BY <1>9, <2>0, <1>0, <2>1, <2>2, Updated, Answered DEF FinishDecision, TypeInv, TypeOK
  <2>5. RowStands(d)'
    BY <1>9, <2>0, <2>1, <2>2, <2>3, <2>4
       DEF FinishDecision, RowStands, RequestStands, LinkedToMint, chainVars, historyVars
  <2> QED
    BY <1>9, <2>0, <1>0, <2>1, <2>2, <2>4, <2>5, FrameRow DEF FinishDecision,
       userVars, chainVars, jobVars, listenVars, historyVars
<1>10. ASSUME NEW r \in Req, FinishCorrection(r) PROVE SafetyInv'
  <2>0. PICK d \in Deposit : d = req[r].dep
    BY <1>0 DEF TypeInv, TypeOK, Request
  <2> DEFINE row == [op[d] EXCEPT !.status = "NEED_CORRECTION", !.note = TRUE]
  <2>1. op[d] \in Row /\ req[r] \in Request
    BY <1>0 DEF TypeInv, TypeOK, Request
  <2>2. row \in Row /\ row.mint = op[d].mint /\ row.proof = op[d].proof
       /\ row.status = "NEED_CORRECTION" /\ row.late = op[d].late /\ row.safeTx = op[d].safeTx
    BY <2>0, <2>1, <1>10 DEF FinishCorrection, Row, Status, Request
  <2>3. RowStands(d) /\ RequestStands(r)
    BY <2>1 DEF SafetyInv
  <2>4. op'[d] = row /\ \A q \in Req : req'[q] = req[q] \/ RequestStands(q)'
    BY <1>10, <2>0, <1>0, <2>1, <2>2, Updated, Answered DEF FinishCorrection, TypeInv, TypeOK
  <2>5. RowStands(d)'
    BY <1>10, <2>0, <2>1, <2>2, <2>3, <2>4
       DEF FinishCorrection, RowStands, RequestStands, LinkedToMint, chainVars, historyVars
  <2> QED
    BY <1>10, <2>0, <1>0, <2>1, <2>2, <2>4, <2>5, FrameRow DEF FinishCorrection,
       userVars, chainVars, jobVars, listenVars, historyVars
<1>11. ASSUME NEW r \in Req, NEW d \in Deposit, StartPropose(r, d) PROVE SafetyInv'
  <2>1. RowStands(d) /\ op[d] \in Row
    BY <1>0 DEF SafetyInv, TypeInv, TypeOK
  <2>2. \A q \in Req \ {r} : req'[q] = req[q]
    BY <1>11, <1>0 DEF StartPropose, TypeInv, TypeOK
  <2>3. req'[r].dep = d /\ req'[r].pc = "propose"
    BY <1>11, <1>0 DEF StartPropose, TypeInv, TypeOK, IdleRequest
  <2>4. RequestStands(r)'
    BY <1>11, <2>1, <2>3 DEF StartPropose, RowStands, RequestStands, Row, historyVars, Idle, MayPropose
  <2> QED
    BY <1>11, <1>0, <2>2, <2>4, FrameNoRow DEF StartPropose,
       userVars, chainVars, jobVars, listenVars, historyVars
<1>12. ASSUME NEW r \in Req, ProposeToSafe(r) PROVE SafetyInv'
  <2>0. PICK tx : tx = [to |-> req[r].to, amount |-> Amount[req[r].dep],
                        airdrop |-> req[r].first, nonce |-> Len(executed)]
    OBVIOUS
  <2>1. RequestStands(r) /\ req[r] \in Request /\ req \in [Req -> Request]
    BY <1>0 DEF SafetyInv, TypeInv, TypeOK
  <2>2. /\ \A q \in Req \ {r} : req'[q] = req[q]
        /\ req'[r].pc = "save" /\ req'[r].dep = req[r].dep
    BY <1>12, <2>1 DEF ProposeToSafe, Request
  <2>3. RequestStands(r)'
    BY <1>12, <2>1, <2>2 DEF ProposeToSafe, RequestStands, historyVars
  <2>4. Backed(tx)'
    BY <1>12, <2>0, <2>1 DEF ProposeToSafe, RequestStands, Backed, historyVars
  <2>5. \A t \in proposed' : t \in proposed \/ Backed(t)'
    BY <1>12, <2>0, <2>4 DEF ProposeToSafe
  <2> QED
    BY <1>12, <1>0, <2>2, <2>3, <2>5, FrameNoRow DEF ProposeToSafe, userVars, chainVars, jobVars,
      listenVars, historyVars
<1>13. ASSUME NEW r \in Req, SaveProposal(r) PROVE SafetyInv'
  <2>0. PICK d \in Deposit : d = req[r].dep
    BY <1>0 DEF TypeInv, TypeOK, Request
  <2>1. op[d] \in Row /\ req[r].tx \in MintTx \cup {None} /\ saves + 1 \in Nat
    BY <1>0 DEF TypeInv, TypeOK, Request
  <2>2. RowStands(d) /\ RequestStands(r)
    BY DEF SafetyInv
  <2>3. \A q \in Req : req'[q] = req[q] \/ RequestStands(q)'
    BY <1>13, <1>0, Answered DEF SaveProposal
  <2>4. CASE Taken(d, req[r].tx)
    BY <1>13, <1>0, <2>0, <2>3, <2>4, FrameNoRow DEF SaveProposal, userVars, chainVars, jobVars,
      listenVars, historyVars
  <2>5. CASE ~Taken(d, req[r].tx)
    <3> DEFINE row == [op[d] EXCEPT !.safeTx = req[r].tx, !.proposedAt = saves + 1]
    <3>1. row \in Row
      BY <2>1, RowFields
    <3>2. /\ row.proof = op[d].proof /\ row.mint = op[d].mint /\ row.status = op[d].status
          /\ row.late = op[d].late
      BY <2>1 DEF Row
    <3>3. Update(d, row)
      BY <1>13, <2>0, <2>5 DEF SaveProposal
    <3>4. op'[d] = row
      BY <3>1, <3>3, <1>0, Updated DEF TypeInv, TypeOK
    <3>5. RowStands(d)'
      BY <1>13, <2>0, <2>2, <3>2, <3>4
         DEF SaveProposal, RowStands, RequestStands, LinkedToMint, chainVars, historyVars
    <3> QED
      BY <1>13, <1>0, <2>3, <3>1, <3>2, <3>3, <3>5, FrameRow DEF SaveProposal, userVars, chainVars, jobVars,
      listenVars, historyVars
  <2> QED
    BY <2>4, <2>5
<1>14. ASSUME NEW tx \in proposed, SafeExecute(tx) PROVE SafetyInv'
  <2>1. tx \in MintTx
    BY <1>0 DEF TypeInv, TypeOK
  <2> QED
    BY <1>14, <1>0, <2>1, FrameNoRow DEF SafeExecute, userVars, chainVars, jobVars,
      listenVars, historyVars
<1>15. ASSUME SafeSpendNonce PROVE SafetyInv'
  BY <1>15, <1>0, FrameNoRow DEF SafeSpendNonce, userVars, chainVars, jobVars,
      listenVars, historyVars
<1>16. ASSUME NEW u \in User, NEW w \in Wallet, LinkWallet(u, w) PROVE SafetyInv'
  BY <1>16, <1>0, FrameNoRow DEF LinkWallet, userVars, chainVars, jobVars,
      listenVars, historyVars
<1>17. ASSUME JobStart PROVE SafetyInv'
  <2>1. \A d \in Unsettled : op[d].proof
    BY DEF Unsettled, SafetyInv, RowStands
  <2>2. Oldest(Unsettled) \subseteq Unsettled
    BY DEF Oldest
  <2>3. \A row \in job' : JobRowStands(row)'
    BY <1>17, <2>1, <2>2 DEF JobStart, JobRowStands
  <2> QED
    BY <1>17, <1>0, <2>3, FrameNoRow DEF JobStart, userVars, chainVars, jobVars,
      listenVars, historyVars
<1>18. ASSUME NEW jr \in job, JobSync(jr[1], jr[2]) PROVE SafetyInv'
  <2>0. PICK d \in Deposit, tx \in MintTx : d = jr[1] /\ tx = jr[2]
    BY <1>0 DEF TypeInv, TypeOK
  <2>1. op[d] \in Row /\ tx.nonce \in Nat /\ executed \in Seq(MintTx \cup {Other})
    BY <1>0 DEF TypeInv, TypeOK, MintTx
  <2> DEFINE row == [op[d] EXCEPT !.mint = tx.nonce + 1, !.status = "PROCESSED"]
  <2>2. row \in Row
    <3>1. tx.nonce + 1 \in Nat
      BY <2>1
    <3> QED
      BY <2>1, <3>1, RowFields
  <2>3. /\ row.proof = op[d].proof /\ row.mint = tx.nonce + 1 /\ row.status = "PROCESSED"
        /\ row.late = op[d].late /\ row.safeTx = op[d].safeTx
    BY <2>1 DEF Row
  <2>4. RowStands(d) /\ op[d].proof
    BY <2>0 DEF SafetyInv, JobRowStands
  <2>5. LinkedToMint(tx.nonce + 1)
    BY <1>18, <2>0, <2>1, NullAssumption DEF JobSync, IsExecuted, LinkedToMint
  <2>6. Update(d, row)
    BY <1>18, <2>0 DEF JobSync
  <2>7. op'[d] = row
    BY <2>2, <2>6, <1>0, Updated DEF TypeInv, TypeOK
  <2>8. RowStands(d)'
    BY <1>18, <2>1, <2>3, <2>4, <2>5, <2>7
       DEF JobSync, RowStands, LinkedToMint, chainVars, historyVars
  <2>9. tx.nonce + 1 # 0
    BY <2>1
  <2> QED
    BY <1>18, <1>0, <2>2, <2>3, <2>6, <2>8, <2>9, FrameRow DEF JobSync, NextRow, userVars, chainVars, jobVars,
      listenVars, historyVars
<1>19. ASSUME NEW row \in job, JobPass(row[1], row[2]) PROVE SafetyInv'
  BY <1>19, <1>0, FrameNoRow DEF JobPass, NextRow, userVars, chainVars, jobVars,
      listenVars, historyVars
<1>20. ASSUME NEW row \in job, JobError(row[1], row[2]) PROVE SafetyInv'
  BY <1>20, <1>0, FrameNoRow DEF JobError, NextRow, userVars, chainVars, jobVars,
      listenVars, historyVars
<1>21. ASSUME NEW tx \in backoff, BackoffEnds(tx) PROVE SafetyInv'
  BY <1>21, <1>0, FrameNoRow DEF BackoffEnds, userVars, chainVars, jobVars,
      listenVars, historyVars
<1>22. ASSUME NEW n \in 1 .. Len(executed), NEW d \in Deposit, ListenMinted(n, d) PROVE SafetyInv'
  <2>1. op[d].proof
    BY <1>22 DEF ListenMinted, Candidates, SafetyInv, RowStands
  <2>2. ListenerStands'
    BY <1>22, <2>1 DEF ListenMinted, ListenerStands, LinkedToMint, chainVars
  <2> QED
    BY <1>22, <1>0, <2>2, FrameNoRow DEF ListenMinted, userVars, chainVars, jobVars,
      listenVars, historyVars
<1>23. ASSUME NEW n \in 1 .. Len(executed), ListenNothing(n) PROVE SafetyInv'
  BY <1>23, <1>0, FrameNoRow DEF ListenNothing, userVars, chainVars, jobVars,
      listenVars, historyVars
<1>24. ASSUME NEW n \in 1 .. Len(executed), ListenLost(n) PROVE SafetyInv'
  BY <1>24, <1>0, FrameNoRow DEF ListenLost, userVars, chainVars, jobVars,
      listenVars, historyVars
<1>25. ASSUME LinkMint PROVE SafetyInv'
  <2>0. PICK d \in Deposit : d = lst.dep
    BY <1>0 DEF TypeInv, TypeOK, Listening
  <2>1. op[d] \in Row /\ lst.ev \in Nat /\ lst \in Listening
    BY <1>0 DEF TypeInv, TypeOK, Listening
  <2> DEFINE row == [op[d] EXCEPT !.mint = lst.ev]
  <2>2. row \in Row
    BY <2>1, RowFields
  <2>3. /\ row.proof = op[d].proof /\ row.mint = lst.ev /\ row.status = op[d].status
        /\ row.late = op[d].late /\ row.safeTx = op[d].safeTx
    BY <2>1 DEF Row
  <2>4. RowStands(d) /\ op[d].proof /\ LinkedToMint(lst.ev) /\ lst.ev # 0
    BY <1>25, <2>0, <2>1 DEF LinkMint, SafetyInv, ListenerStands, LinkedToMint
  <2>5. Update(d, row) /\ lst'.pc = "process" /\ lst'.dep = d /\ lst'.ev = lst.ev
    BY <1>25, <2>0, <2>1 DEF LinkMint, Listening
  <2>6. op'[d] = row
    BY <2>2, <2>5, <1>0, Updated DEF TypeInv, TypeOK
  <2>7. RowStands(d)'
    BY <1>25, <2>3, <2>4, <2>6 DEF LinkMint, RowStands, LinkedToMint, chainVars, historyVars
  <2>8. ListenerStands'
    BY <1>25, <2>3, <2>4, <2>5, <2>6 DEF LinkMint, ListenerStands, LinkedToMint, chainVars
  <2> QED
    BY <1>25, <1>0, <2>2, <2>3, <2>4, <2>5, <2>7, <2>8, FrameRow DEF LinkMint, userVars, chainVars, jobVars,
      listenVars, historyVars
<1>26. ASSUME ProcessMint PROVE SafetyInv'
  <2>0. PICK d \in Deposit : d = lst.dep
    BY <1>0 DEF TypeInv, TypeOK, Listening
  <2> DEFINE row == [op[d] EXCEPT !.status = "PROCESSED"]
  <2>1. op[d] \in Row /\ "PROCESSED" \in Status
    BY <1>0 DEF TypeInv, TypeOK, Status
  <2>2. row \in Row
    BY <2>1, RowFields
  <2>3. /\ row.proof = op[d].proof /\ row.mint = op[d].mint /\ row.status = "PROCESSED"
        /\ row.late = op[d].late /\ row.safeTx = op[d].safeTx
    BY <2>1 DEF Row
  <2>4. RowStands(d) /\ op[d].proof /\ op[d].mint # 0
    BY <1>26, <2>0 DEF ProcessMint, SafetyInv, ListenerStands
  <2>5. Update(d, row) /\ lst' = IdleListener
    BY <1>26, <2>0 DEF ProcessMint
  <2>6. op'[d] = row
    BY <2>2, <2>5, <1>0, Updated DEF TypeInv, TypeOK
  <2>7. RowStands(d)' /\ ListenerStands'
    BY <1>26, <2>3, <2>4, <2>5, <2>6 DEF ProcessMint, RowStands, ListenerStands,
       IdleListener, LinkedToMint, chainVars, historyVars
  <2> QED
    BY <1>26, <1>0, <2>2, <2>3, <2>5, <2>7, FrameRow DEF ProcessMint, userVars, chainVars, jobVars,
      listenVars, historyVars
<1>27. ASSUME NEW r \in Req, Fail(r) PROVE SafetyInv'
  BY <1>27, <1>0, Answered, FrameNoRow DEF Fail, userVars, chainVars, jobVars,
      listenVars, historyVars
<1>28. ASSUME ListenerFails PROVE SafetyInv'
  <2>1. ListenerStands'
    BY <1>28 DEF ListenerFails, ListenerStands, IdleListener
  <2> QED
    BY <1>28, <1>0, <2>1, FrameNoRow DEF ListenerFails, userVars, chainVars, jobVars,
      listenVars, historyVars
<1>29. ASSUME Restart PROVE SafetyInv'
  <2>1. ListenerStands' /\ \A r \in Req : RequestStands(r)'
    BY <1>29 DEF Restart, ListenerStands, IdleListener, RequestStands, IdleRequest
  <2> QED
    BY <1>29, <1>0, <2>1, FrameNoRow DEF Restart, userVars, chainVars, jobVars,
      listenVars, historyVars
<1>30. CASE UNCHANGED vars
  BY <1>30, <1>0, FrameNoRow DEF vars
<1>31. CASE ReviewStep
  BY <1>31, <1>1, <1>2, <1>3, <1>4, <1>5, <1>6, <1>7, <1>8, <1>9, <1>10 DEF ReviewStep
<1>32. CASE ProposalStep
  BY <1>32, <1>11, <1>12, <1>13, <1>14, <1>15, <1>16 DEF ProposalStep
<1>33. CASE SettlementStep
  BY <1>33, <1>17, <1>18, <1>19, <1>20, <1>21, <1>22, <1>23, <1>24, <1>25, <1>26
     DEF SettlementStep
<1>34. CASE FaultStep
  BY <1>34, <1>27, <1>28, <1>29 DEF FaultStep
<1> QED
  BY <1>30, <1>31, <1>32, <1>33, <1>34 DEF Next

THEOREM SafetyInvariant == Spec => []SafetyInv
BY SafetyInit, SafetyStep, PTL DEF Spec

(* However many requests overlap, a deposit that waits for review, was     *)
(* reviewed or was processed has a proof of payment.                       *)
THEOREM ProofBacked == Spec => []ProofBacksStatus
<1>1. SafetyInv => ProofBacksStatus
  BY DEF SafetyInv, RowStands, ProofBacksStatus
<1> QED
  BY <1>1, SafetyInvariant, PTL

(* No mint is proposed to the Safe but for a deposit that was approved.    *)
THEOREM MintsBacked == Spec => []EveryMintBacked
<1>1. SafetyInv => EveryMintBacked
  BY DEF SafetyInv
<1> QED
  BY <1>1, SafetyInvariant, PTL

(* A processed operation is linked to a mint that was executed.            *)
THEOREM ProcessedMinted == Spec => []ProcessedIsMinted
<1>1. SafetyInv => ProcessedIsMinted
  BY DEF SafetyInv, RowStands, ProcessedIsMinted
<1> QED
  BY <1>1, SafetyInvariant, PTL

(* Only a PEN deposit, and only after its rate lock, lapses.               *)
THEOREM LateLapse == Spec => []OnlyLateDepositsLapse
<1>1. SafetyInv => OnlyLateDepositsLapse
  BY DEF SafetyInv, RowStands, OnlyLateDepositsLapse
<1> QED
  BY <1>1, SafetyInvariant, PTL
=============================================================================
