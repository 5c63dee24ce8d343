------------------------- MODULE DepositsSequential -------------------------
(***************************************************************************)
(* What the deposit pipeline gets right when the requests on one deposit   *)
(* (or of one user, or the proposals) come one at a time, for any number   *)
(* of deposits and users.  The handlers update rows by id; these           *)
(* properties hold only as long as what a handler read is still so when it *)
(* writes, and the job and the listener, which nobody can hold back, do    *)
(* not disturb it: they only write rows that are approved.                 *)
(***************************************************************************)
EXTENDS DepositsSafety, FiniteSetTheorems

OnePerDeposit ==
  \A r, s \in Req : r # s /\ ~Idle(r) /\ ~Idle(s) => req[r].dep # req[s].dep

OnePerUser ==
  \A r, s \in Req : r # s /\ ~Idle(r) /\ ~Idle(s) => Owner[req[r].dep] # Owner[req[s].dep]

ProposalsInTurn ==
  \A r, s \in Req : req[r].pc \in {"propose", "save"} /\ req[s].pc \in {"propose", "save"} => r = s
-----------------------------------------------------------------------------
(* What a handler has read of its deposit is still so.                     *)
Fresh(r) ==
  LET d == req[r].dep IN
  /\ req[r].pc = "upload" =>
       op[d].status = "PENDING" \/ (op[d].status = "NEED_CORRECTION" /\ req[r].resub)
  /\ req[r].pc = "expire" => op[d].status \in {"PENDING", "PROOF_SUBMITTED"}
  /\ req[r].pc = "approve" => op[d].status = "PROOF_SUBMITTED" /\ (d \in Pen => ~op[d].late)
  /\ req[r].pc = "reject" => op[d].status \in {"PROOF_SUBMITTED", "NEED_CORRECTION"}
  /\ req[r].pc = "correct" => op[d].status = "PROOF_SUBMITTED"
  /\ req[r].pc \in {"propose", "save"} => d \in approved /\ op[d].safeTx = None

(* An approval stands, and only an approved deposit is proposed or minted. *)
Reviewed(d) ==
  /\ d \in approved <=> op[d].status \in {"APPROVED", "PROCESSED"}
  /\ op[d].safeTx # None => d \in approved
  /\ op[d].mint # 0 => d \in approved
  /\ d \in approved /\ d \in Pen => ~op[d].late
  /\ op[d].status \in {"ABSENT", "PENDING", "PROOF_SUBMITTED"} => ~op[d].note

ReviewInv ==
  /\ \A r \in Req : Fresh(r)
  /\ \A d \in Deposit : Reviewed(d)
  /\ \A row \in job : op[row[1]].safeTx = row[2]
  /\ lst.pc # "idle" => lst.dep \in approved

LEMMA ReviewInit == Init => ReviewInv
BY DEF Init, ReviewInv, Fresh, Reviewed, IdleRequest, NoRow, IdleListener

(* A step that writes no row.                                              *)
LEMMA NothingWritten ==
  ASSUME TypeInv, ReviewInv, UNCHANGED <<op, approved>>,
         \A r \in Req : req'[r] = req[r] \/ Fresh(r)',
         \A row \in job' : row \in job \/ op[row[1]].safeTx = row[2],
         lst' = lst \/ (lst'.pc # "idle" => lst'.dep \in approved)
  PROVE  ReviewInv'
<1>1. \A r \in Req : Fresh(r)'
  BY DEF ReviewInv, Fresh
<1>2. \A d \in Deposit : Reviewed(d)'
  BY DEF ReviewInv, Reviewed
<1> QED
  BY <1>1, <1>2 DEF ReviewInv

(* A step that writes the row of deposit d.                                *)
LEMMA RowWritten ==
  ASSUME TypeInv, ReviewInv, NEW d \in Deposit,
         \A e \in Deposit : e # d => op'[e] = op[e] /\ (e \in approved' <=> e \in approved),
         approved \subseteq approved',
         op[d].safeTx = None \/ op'[d].safeTx = op[d].safeTx,
         Reviewed(d)',
         \A r \in Req : Fresh(r)' \/ (req'[r] = req[r] /\ req[r].dep # d),
         job' \subseteq job,
         lst' = lst \/ lst'.pc = "idle" \/ (lst.pc # "idle" /\ lst'.dep = lst.dep)
  PROVE  ReviewInv'
<1>0. /\ \A r \in Req : req[r].dep \in Deposit
      /\ \A row \in job : row[1] \in Deposit /\ row[2] # None
      /\ lst.dep \in Deposit
  BY NullAssumption DEF TypeInv, TypeOK, Request, Listening
<1>1. \A r \in Req : Fresh(r)'
  BY <1>0 DEF ReviewInv, Fresh
<1>2. \A e \in Deposit : Reviewed(e)'
  BY DEF ReviewInv, Reviewed
<1>3. \A row \in job' : op'[row[1]].safeTx = row[2]
  BY <1>0 DEF ReviewInv
<1>4. lst'.pc # "idle" => lst'.dep \in approved'
  BY DEF ReviewInv
<1> QED
  BY <1>1, <1>2, <1>3, <1>4 DEF ReviewInv

(* When a request is answered, no other one relies on its deposit.         *)
LEMMA AnsweredAlone ==
  ASSUME TypeInv, OnePerDeposit, NEW r \in Req, req[r].pc # "idle", Respond(r)
  PROVE  \A s \in Req : Fresh(s)' \/ (req'[s] = req[s] /\ req[s].dep # req[r].dep)
<1>1. \A s \in Req : req'[s] = IF s = r THEN IdleRequest ELSE req[s]
  BY DEF TypeInv, TypeOK, Respond
<1>2. \A s \in Req : req'[s].pc = "idle" => Fresh(s)'
  BY DEF Fresh
<1>3. req'[r].pc = "idle"
  BY <1>1 DEF IdleRequest
<1>4. ASSUME NEW s \in Req, s # r, req[s].pc # "idle" PROVE req[s].dep # req[r].dep
  BY <1>4 DEF OnePerDeposit, Idle
<1> QED
  BY <1>1, <1>2, <1>3, <1>4

(* The job and the listener write a row that no decision is waiting for.   *)
LEMMA ApprovedUndisturbed ==
  ASSUME TypeInv, ReviewInv, NEW d \in approved, NEW r \in Req, req[r].dep = d, req'[r] = req[r],
         approved' = approved, op'[d].safeTx = op[d].safeTx
  PROVE  Fresh(r)'
<1>1. d \in Deposit /\ req[r].pc \in Waiting \cup {"idle"}
  BY DEF TypeInv, TypeOK, Request
<1>2. op[d].status \in {"APPROVED", "PROCESSED"}
  BY <1>1 DEF ReviewInv, Reviewed
<1>3. req[r].pc \in {"propose", "save", "idle"}
  BY <1>1, <1>2 DEF ReviewInv, Fresh, Waiting
<1> QED
  BY <1>3 DEF ReviewInv, Fresh

LEMMA ReviewKept == SafetyInv /\ ReviewInv /\ OnePerDeposit /\ [Next]_vars => ReviewInv'
<1> SUFFICES ASSUME SafetyInv, ReviewInv, OnePerDeposit, [Next]_vars PROVE ReviewInv'
  OBVIOUS
<1>0. /\ TypeInv /\ op \in [Deposit -> Row] /\ req \in [Req -> Request] /\ lst \in Listening
      /\ \A r \in Req : req[r].dep \in Deposit /\ req[r].tx \in MintTx \cup {None}
      /\ \A row \in job : row[1] \in Deposit /\ row[2] \in MintTx /\ row[2] # None
      /\ lst.dep \in Deposit
  BY NullAssumption DEF SafetyInv, TypeInv, TypeOK, Request, Listening
<1>9. /\ \A r \in Req : Fresh(r)
      /\ \A d \in Deposit : Reviewed(d)
      /\ \A row \in job : op[row[1]].safeTx = row[2]
      /\ lst.pc # "idle" => lst.dep \in approved
  BY DEF ReviewInv
<1> USE DEF userVars, chainVars, jobVars, listenVars, historyVars
<1>1. ASSUME NEW d \in Deposit, CreateDeposit(d) PROVE ReviewInv'
  <2>1. /\ op'[d] = [op[d] EXCEPT !.status = "PENDING"] /\ op[d].status = "ABSENT"
        /\ \A e \in Deposit : e # d => op'[e] = op[e]
        /\ UNCHANGED <<approved, req, job, lst>>
    BY <1>0, <1>1 DEF CreateDeposit, Update
  <2>2. /\ op'[d].status = "PENDING" /\ op'[d].safeTx = op[d].safeTx /\ op'[d].mint = op[d].mint
        /\ op'[d].note = op[d].note
    BY <1>0, <2>1 DEF Row
  <2>3. Reviewed(d)'
    BY <1>9, <2>1, <2>2 DEF Reviewed
  <2>4. \A r \in Req : Fresh(r)' \/ (req'[r] = req[r] /\ req[r].dep # d)
    BY <1>0, <1>9, <2>1 DEF Fresh, Reviewed, Request, Waiting
  <2> QED
    BY <1>0, <2>1, <2>2, <2>3, <2>4, RowWritten
<1>2. ASSUME NEW d \in Deposit, RateLockExpires(d) PROVE ReviewInv'
  BY <1>0, <1>2, NothingWritten DEF RateLockExpires
<1>3. ASSUME NEW r \in Req, NEW d \in Deposit,
             StartUpload(r, d) \/ StartApprove(r, d) \/ StartReject(r, d) \/ StartCorrection(r, d)
      PROVE  ReviewInv'
  <2>1. /\ UNCHANGED <<op, approved, job, lst>> /\ req'[r].dep = d
        /\ \A s \in Req : s # r => req'[s] = req[s]
    <3>1. CASE StartUpload(r, d)
      BY <1>0, <3>1 DEF StartUpload, IdleRequest
    <3>2. CASE StartApprove(r, d)
      BY <1>0, <3>2 DEF StartApprove, Await, IdleRequest
    <3>3. CASE StartReject(r, d)
      BY <1>0, <3>3 DEF StartReject, Await, IdleRequest
    <3>4. CASE StartCorrection(r, d)
      BY <1>0, <3>4 DEF StartCorrection, Await, IdleRequest
    <3> QED
      BY <1>3, <3>1, <3>2, <3>3, <3>4
  <2>2. Fresh(r)'
    <3>1. CASE StartUpload(r, d)
      <4>1. /\ req'[r].pc = IF Lapsed(d) THEN "expire" ELSE "upload"
            /\ req'[r].resub = (op[d].status = "NEED_CORRECTION")
            /\ op[d].status \in {"PENDING", "NEED_CORRECTION"}
        BY <1>0, <3>1 DEF StartUpload, IdleRequest
      <4> QED
        BY <2>1, <4>1 DEF Fresh, Lapsed
    <3>2. CASE StartApprove(r, d)
      <4>1. req'[r].pc = (IF TooLate(d) THEN "expire" ELSE "approve") /\ MayApprove(d)
        BY <1>0, <3>2 DEF StartApprove, Await, IdleRequest
      <4> QED
        BY <2>1, <4>1 DEF Fresh, MayApprove, TooLate
    <3>3. CASE StartReject(r, d)
      <4>1. req'[r].pc = "reject" /\ MayReject(d)
        BY <1>0, <3>3 DEF StartReject, Await, IdleRequest
      <4> QED
        BY <2>1, <4>1 DEF Fresh, MayReject
    <3>4. CASE StartCorrection(r, d)
      <4>1. req'[r].pc = "correct" /\ op[d].status = "PROOF_SUBMITTED"
        BY <1>0, <3>4 DEF StartCorrection, Await, IdleRequest
      <4> QED
        BY <2>1, <4>1 DEF Fresh
    <3> QED
      BY <1>3, <3>1, <3>2, <3>3, <3>4
  <2> QED
    BY <1>0, <2>1, <2>2, NothingWritten
<1>4. ASSUME NEW r \in Req,
             FinishUpload(r) \/ FinishExpire(r) \/ FinishDecision(r) \/ FinishCorrection(r)
      PROVE  ReviewInv'
  <2>0. PICK d \in Deposit : req[r].dep = d
    BY <1>0
  <2>1. /\ req[r].pc # "idle" /\ Respond(r) /\ UNCHANGED <<job, lst>>
        /\ \A e \in Deposit : e # d => op'[e] = op[e] /\ (e \in approved' <=> e \in approved)
        /\ approved \subseteq approved'
    BY <1>0, <1>4, <2>0 DEF FinishUpload, FinishExpire, FinishDecision, FinishCorrection, Update
  <2>2. op'[d].safeTx = op[d].safeTx /\ op'[d].mint = op[d].mint
    <3>1. CASE FinishUpload(r)
      BY <1>0, <2>0, <3>1 DEF FinishUpload, Update, Row
    <3>2. CASE FinishExpire(r)
      BY <1>0, <2>0, <3>2 DEF FinishExpire, Update, Row
    <3>3. CASE FinishDecision(r)
      BY <1>0, <2>0, <3>3 DEF FinishDecision, Update, Row
    <3>4. CASE FinishCorrection(r)
      BY <1>0, <2>0, <3>4 DEF FinishCorrection, Update, Row
    <3> QED
      BY <1>4, <3>1, <3>2, <3>3, <3>4
  <2>3. Reviewed(d)'
    <3>1. CASE FinishUpload(r)
      <4>1. /\ op'[d].status = "PROOF_SUBMITTED" /\ approved' = approved
            /\ op'[d].note = (op[d].note /\ ~req[r].resub) /\ req[r].pc = "upload"
        BY <1>0, <2>0, <3>1 DEF FinishUpload, ShouldClearReview, Update, Row
      <4>2. Fresh(r) /\ Reviewed(d)
        BY <1>9
      <4> QED
        BY <2>0, <2>2, <4>1, <4>2 DEF Fresh, Reviewed
    <3>2. CASE FinishExpire(r)
      <4>1. op'[d].status = "RATE_EXPIRED" /\ approved' = approved /\ req[r].pc = "expire"
        BY <1>0, <2>0, <3>2 DEF FinishExpire, Update, Row
      <4>2. Fresh(r) /\ Reviewed(d)
        BY <1>9
      <4> QED
        BY <2>0, <2>2, <4>1, <4>2 DEF Fresh, Reviewed
    <3>3. CASE FinishDecision(r)
      <4>1. /\ op'[d].status = (IF req[r].pc = "approve" THEN "APPROVED" ELSE "REJECTED")
            /\ approved' = IF req[r].pc = "approve" THEN approved \cup {d} ELSE approved
            /\ op'[d].late = op[d].late /\ req[r].pc \in {"approve", "reject"}
        BY <1>0, <2>0, <3>3 DEF FinishDecision, Update, Row
      <4>2. Fresh(r) /\ Reviewed(d)
        BY <1>9
      <4> QED
        BY <2>0, <2>2, <4>1, <4>2 DEF Fresh, Reviewed
    <3>4. CASE FinishCorrection(r)
      <4>1. op'[d].status = "NEED_CORRECTION" /\ approved' = approved /\ req[r].pc = "correct"
        BY <1>0, <2>0, <3>4 DEF FinishCorrection, Update, Row
      <4>2. Fresh(r) /\ Reviewed(d)
        BY <1>9
      <4> QED
        BY <2>0, <2>2, <4>1, <4>2 DEF Fresh, Reviewed
    <3> QED
      BY <1>4, <3>1, <3>2, <3>3, <3>4
  <2>4. \A s \in Req : Fresh(s)' \/ (req'[s] = req[s] /\ req[s].dep # d)
    BY <1>0, <2>0, <2>1, AnsweredAlone
  <2> QED
    BY <1>0, <2>1, <2>2, <2>3, <2>4, RowWritten
<1>5. ASSUME NEW r \in Req, NEW d \in Deposit, StartPropose(r, d) PROVE ReviewInv'
  <2>1. /\ UNCHANGED <<op, approved, job, lst>> /\ req'[r].dep = d /\ req'[r].pc = "propose"
        /\ \A s \in Req : s # r => req'[s] = req[s]
    BY <1>0, <1>5 DEF StartPropose, IdleRequest
  <2>2. Fresh(r)'
    BY <1>5, <1>9, <2>1 DEF Fresh, Reviewed, StartPropose, MayPropose
  <2> QED
    BY <1>0, <2>1, <2>2, NothingWritten
<1>6. ASSUME NEW r \in Req, ProposeToSafe(r) PROVE ReviewInv'
  <2>1. /\ UNCHANGED <<op, approved, job, lst>>
        /\ req'[r].dep = req[r].dep /\ req[r].pc = "propose" /\ req'[r].pc = "save"
        /\ \A s \in Req : s # r => req'[s] = req[s]
    BY <1>0, <1>6 DEF ProposeToSafe, Request
  <2>2. Fresh(r)'
    BY <1>9, <2>1 DEF Fresh
  <2> QED
    BY <1>0, <2>1, <2>2, NothingWritten
<1>7. ASSUME NEW r \in Req, SaveProposal(r) PROVE ReviewInv'
  <2>0. PICK d \in Deposit : req[r].dep = d
    BY <1>0
  <2>1. req[r].pc = "save" /\ Respond(r) /\ UNCHANGED <<job, lst, approved>>
    BY <1>7 DEF SaveProposal
  <2>2. \A s \in Req : Fresh(s)' \/ (req'[s] = req[s] /\ req[s].dep # d)
    BY <1>0, <2>0, <2>1, AnsweredAlone
  <2>3. CASE op' = op
    BY <1>0, <2>1, <2>2, <2>3, NothingWritten
  <2>4. CASE op' # op
    <3>1. Update(d, [op[d] EXCEPT !.safeTx = req[r].tx, !.proposedAt = saves + 1])
      BY <1>7, <2>0, <2>4 DEF SaveProposal
    <3>2. /\ op'[d].status = op[d].status /\ op'[d].mint = op[d].mint
          /\ op'[d].late = op[d].late /\ op'[d].note = op[d].note
          /\ \A e \in Deposit : e # d => op'[e] = op[e]
      BY <1>0, <3>1 DEF Update, Row
    <3>3. d \in approved /\ op[d].safeTx = None
      BY <1>9, <2>0, <2>1 DEF Fresh
    <3>4. Reviewed(d)'
      BY <1>9, <2>1, <3>2, <3>3 DEF Reviewed
    <3> QED
      BY <1>0, <2>1, <2>2, <3>2, <3>3, <3>4, RowWritten
  <2> QED
    BY <2>3, <2>4
<1>8. ASSUME NEW tx, SafeExecute(tx) \/ SafeSpendNonce \/ (\E u \in User, w \in Wallet : LinkWallet(u, w))
      PROVE  ReviewInv'
  BY <1>0, <1>8, NothingWritten DEF SafeExecute, SafeSpendNonce, LinkWallet
<1>10. CASE JobStart
  <2>1. \A row \in job' : op[row[1]].safeTx = row[2]
    BY <1>10 DEF JobStart
  <2> QED
    BY <1>0, <1>10, <2>1, NothingWritten DEF JobStart
<1>11. ASSUME NEW row \in job, JobSync(row[1], row[2]) PROVE ReviewInv'
  <2>0. PICK d \in Deposit : row[1] = d
    BY <1>0
  <2>1. /\ op'[d].status = "PROCESSED" /\ op'[d].safeTx = op[d].safeTx /\ op'[d].late = op[d].late
        /\ \A e \in Deposit : e # d => op'[e] = op[e]
        /\ UNCHANGED <<approved, req, lst>> /\ job' \subseteq job
    BY <1>0, <1>11, <2>0 DEF JobSync, NextRow, Update, Row
  <2>2. d \in approved
    BY <1>0, <1>9, <2>0 DEF Reviewed
  <2>3. Reviewed(d)'
    BY <1>9, <2>1, <2>2 DEF Reviewed
  <2>4. \A s \in Req : Fresh(s)' \/ (req'[s] = req[s] /\ req[s].dep # d)
    BY <1>0, <2>1, <2>2, ApprovedUndisturbed
  <2> QED
    BY <1>0, <2>1, <2>3, <2>4, RowWritten
<1>12. ASSUME NEW row \in job, JobPass(row[1], row[2]) \/ JobError(row[1], row[2]) PROVE ReviewInv'
  BY <1>0, <1>12, NothingWritten DEF JobPass, JobError, NextRow
<1>13. ASSUME NEW tx \in backoff, BackoffEnds(tx) PROVE ReviewInv'
  BY <1>0, <1>13, NothingWritten DEF BackoffEnds
<1>14. ASSUME NEW n, NEW d \in Deposit, ListenMinted(n, d) PROVE ReviewInv'
  <2>1. lst'.dep = d /\ d \in approved
    BY <1>9, <1>14 DEF ListenMinted, Candidates, Reviewed
  <2> QED
    BY <1>0, <1>14, <2>1, NothingWritten DEF ListenMinted
<1>15. ASSUME NEW n, ListenNothing(n) \/ ListenLost(n) PROVE ReviewInv'
  BY <1>0, <1>15, NothingWritten DEF ListenNothing, ListenLost
<1>16. CASE LinkMint \/ ProcessMint
  <2>0. PICK d \in Deposit : lst.dep = d
    BY <1>0
  <2>1. d \in approved
    BY <1>9, <1>16, <2>0 DEF LinkMint, ProcessMint
  <2>2. /\ op'[d].safeTx = op[d].safeTx /\ op'[d].late = op[d].late
        /\ op'[d].status \in {op[d].status, "PROCESSED"}
        /\ \A e \in Deposit : e # d => op'[e] = op[e]
        /\ UNCHANGED <<approved, req, job>>
    BY <1>0, <1>16, <2>0 DEF LinkMint, ProcessMint, Update, Row
  <2>3. Reviewed(d)'
    BY <1>9, <2>1, <2>2 DEF Reviewed
  <2>4. \A s \in Req : Fresh(s)' \/ (req'[s] = req[s] /\ req[s].dep # d)
    BY <1>0, <2>1, <2>2, ApprovedUndisturbed
  <2>5. lst'.pc = "idle" \/ (lst.pc # "idle" /\ lst'.dep = lst.dep)
    BY <1>0, <1>16 DEF LinkMint, ProcessMint, IdleListener, Listening
  <2> QED
    BY <1>0, <2>2, <2>3, <2>4, <2>5, RowWritten
<1>17. ASSUME NEW r \in Req, Fail(r) PROVE ReviewInv'
  <2>1. \A s \in Req : Fresh(s)' \/ req'[s] = req[s]
    BY <1>0, <1>17, AnsweredAlone DEF Fail, Idle
  <2> QED
    BY <1>0, <1>17, <2>1, NothingWritten DEF Fail
<1>18. CASE ListenerFails
  BY <1>0, <1>18, NothingWritten DEF ListenerFails, IdleListener
<1>19. CASE Restart
  <2>1. \A s \in Req : Fresh(s)'
    BY <1>19 DEF Restart, IdleRequest, Fresh
  <2> QED
    BY <1>0, <1>19, <2>1, NothingWritten DEF Restart, IdleListener
<1>20. CASE UNCHANGED vars
  BY <1>0, <1>20, NothingWritten DEF vars
<1> QED
  BY <1>1, <1>2, <1>3, <1>4, <1>5, <1>6, <1>7, <1>8, <1>10, <1>11, <1>12, <1>13, <1>14,
     <1>15, <1>16, <1>17, <1>18, <1>19, <1>20
     DEF Next, ReviewStep, ProposalStep, SettlementStep, FaultStep

LEMMA ReviewKnown == Spec /\ []OnePerDeposit => [](SafetyInv /\ ReviewInv)
<1>1. SafetyInv /\ ReviewInv /\ OnePerDeposit /\ [Next]_vars => SafetyInv' /\ ReviewInv'
  BY SafetyStep, ReviewKept
<1> QED
  BY <1>1, SafetyInit, ReviewInit, PTL DEF Spec

(* When the requests on a deposit come one at a time, no deposit in PEN is *)
(* approved on a proof that came too late, whatever fails or restarts and  *)
(* whoever settles it.  (decide, uploadProof.)                             *)
THEOREM RateLock == Spec /\ []OnePerDeposit => []RateLockHonoured
<1>1. SafetyInv /\ ReviewInv => RateLockHonoured
  BY DEF ReviewInv, Reviewed, RateLockHonoured, SafetyInv, TypeInv, TypeOK
<1> QED
  BY <1>1, ReviewKnown, PTL

(* Nor does a note of the reviewer outlive the proof it was about.         *)
(* (uploadProof, shouldClearReview.)                                       *)
THEOREM NoteCleared == Spec /\ []OnePerDeposit => []NoteClearedOnResubmit
<1>1. ReviewInv => NoteClearedOnResubmit
  BY DEF ReviewInv, Reviewed, NoteClearedOnResubmit
<1> QED
  BY <1>1, ReviewKnown, PTL

(* Nor is a processed deposit taken back.  (decide, requestCorrection,     *)
(* uploadProof, isMinted.)                                                 *)
THEOREM FinalStays == Spec /\ []OnePerDeposit => FinalIsFinal
<1>1. ASSUME SafetyInv, ReviewInv, [Next]_vars, NEW d \in Deposit, op[d].status = "PROCESSED"
      PROVE  op'[d].status = "PROCESSED"
  <2>0. /\ op \in [Deposit -> Row]
        /\ \A r \in Req : req[r].dep \in Deposit
        /\ \A row \in job : row[1] \in Deposit
        /\ lst.dep \in Deposit
    BY <1>1 DEF SafetyInv, TypeInv, TypeOK, Request, Listening
  <2>1. \A r \in Req : req[r].dep = d => req[r].pc \notin {"upload", "expire", "approve", "reject", "correct"}
    BY <1>1 DEF ReviewInv, Fresh
  <2>2. CASE ReviewStep
    <3>1. ASSUME NEW e \in Deposit, CreateDeposit(e) \/ RateLockExpires(e) PROVE op'[d] = op[d]
      BY <1>1, <2>0, <3>1 DEF CreateDeposit, RateLockExpires, Update
    <3>2. ASSUME NEW r \in Req, NEW e \in Deposit,
                 StartUpload(r, e) \/ StartApprove(r, e) \/ StartReject(r, e) \/ StartCorrection(r, e)
          PROVE  op'[d] = op[d]
      BY <3>2 DEF StartUpload, StartApprove, StartReject, StartCorrection
    <3>3. ASSUME NEW r \in Req,
                 FinishUpload(r) \/ FinishExpire(r) \/ FinishDecision(r) \/ FinishCorrection(r)
          PROVE  op'[d] = op[d]
      <4>1. req[r].dep # d
        BY <2>1, <3>3 DEF FinishUpload, FinishExpire, FinishDecision, FinishCorrection
      <4> QED
        BY <2>0, <3>3, <4>1 DEF FinishUpload, FinishExpire, FinishDecision, FinishCorrection, Update
    <3> QED
      BY <1>1, <2>2, <3>1, <3>2, <3>3 DEF ReviewStep
  <2>3. CASE ProposalStep
    <3>1. ASSUME NEW r \in Req, SaveProposal(r) PROVE op'[d].status = op[d].status
      <4>1. PICK e \in Deposit : req[r].dep = e
        BY <2>0
      <4>2. op' = op \/ Update(e, [op[e] EXCEPT !.safeTx = req[r].tx, !.proposedAt = saves + 1])
        BY <3>1, <4>1 DEF SaveProposal
      <4>3. CASE Update(e, [op[e] EXCEPT !.safeTx = req[r].tx, !.proposedAt = saves + 1])
        <5>1. /\ op'[e] = [op[e] EXCEPT !.safeTx = req[r].tx, !.proposedAt = saves + 1]
              /\ d # e => op'[d] = op[d]
          BY <2>0, <4>3 DEF Update
        <5>2. op'[e].status = op[e].status
          BY <2>0, <5>1 DEF Row
        <5> QED
          BY <5>1, <5>2
      <4> QED
        BY <4>2, <4>3
    <3> QED
      BY <1>1, <2>3, <3>1 DEF ProposalStep, StartPropose, ProposeToSafe, SafeExecute, SafeSpendNonce,
         LinkWallet
  <2>4. CASE SettlementStep
    <3>1. ASSUME NEW row \in job, JobSync(row[1], row[2]) PROVE op'[d].status = "PROCESSED"
      BY <1>1, <2>0, <3>1 DEF JobSync, Update, Row
    <3>2. ASSUME LinkMint \/ ProcessMint PROVE op'[d].status = "PROCESSED"
      BY <1>1, <2>0, <3>2 DEF LinkMint, ProcessMint, Update, Row
    <3> QED
      BY <1>1, <2>4, <3>1, <3>2 DEF SettlementStep, JobStart, JobPass, JobError, BackoffEnds, ListenMinted,
         ListenNothing, ListenLost
  <2> QED
    BY <1>1, <2>2, <2>3, <2>4 DEF Next, FaultStep, Fail, ListenerFails, Restart, vars
<1>2. SafetyInv /\ ReviewInv /\ [Next]_vars =>
        [\A d \in Deposit : op[d].status = "PROCESSED" => op'[d].status = "PROCESSED"]_vars
  BY <1>1
<1> QED
  BY <1>2, ReviewKnown, PTL DEF Spec, FinalIsFinal
-----------------------------------------------------------------------------
(* The hashes that deposits are known by.  A mint that was proposed is held*)
(* by the deposit whose row has its hash, or by the request that is about  *)
(* to save it; it is lost only by a fault.                                 *)
Holds(d, tx) ==
  \/ op[d].safeTx = tx
  \/ \E r \in Req : req[r].pc = "save" /\ req[r].dep = d /\ req[r].tx = tx

HashInv ==
  /\ \A d, e \in Deposit : d # e /\ op[d].safeTx # None => op[d].safeTx # op[e].safeTx
  /\ \A d \in Deposit : op[d].safeTx # None => op[d].safeTx.amount = Amount[d]
  /\ \A r \in Req : req[r].pc = "save" =>
       /\ req[r].tx \in proposed
       /\ req[r].tx.amount = Amount[req[r].dep]
       /\ req[r].tx.airdrop = req[r].first
  /\ \A n \in MintsExecuted : executed[n] \in proposed /\ executed[n].nonce = n - 1
  /\ ~Faulty => \A tx \in proposed : \E d \in Deposit : Holds(d, tx)

HashStep ==
  \/ \E r \in Req : ProposeToSafe(r) \/ SaveProposal(r)
  \/ \E tx \in proposed : SafeExecute(tx)
  \/ SafeSpendNonce

(* The hashes, the Safe and the requests that have an answer of the Safe.  *)
HashSame ==
  /\ \A d \in Deposit : op'[d].safeTx = op[d].safeTx
  /\ UNCHANGED <<proposed, executed>>
  /\ \A r \in Req : req'[r].pc = "save" => req'[r] = req[r]
  /\ ~Faulty => \A r \in Req : req[r].pc = "save" => req'[r] = req[r]

LEMMA OthersLeaveHashes ==
  ASSUME TypeInv, [Next]_vars, ~HashStep
  PROVE  HashSame
<1>0. /\ op \in [Deposit -> Row] /\ req \in [Req -> Request]
      /\ \A r \in Req : req[r].dep \in Deposit
      /\ \A row \in job : row[1] \in Deposit
      /\ lst.dep \in Deposit
  BY DEF TypeInv, TypeOK, Request, Listening
<1> USE DEF userVars, chainVars, jobVars, listenVars, historyVars, HashSame
<1>1. CASE ReviewStep
  <2>1. ASSUME NEW d \in Deposit, CreateDeposit(d) \/ RateLockExpires(d) PROVE HashSame
    <3>1. CASE CreateDeposit(d)
      BY <1>0, <3>1 DEF CreateDeposit, Update, Row
    <3>2. CASE RateLockExpires(d)
      BY <3>2 DEF RateLockExpires
    <3> QED
      BY <2>1, <3>1, <3>2
  <2>2. ASSUME NEW r \in Req, NEW d \in Deposit,
               StartUpload(r, d) \/ StartApprove(r, d) \/ StartReject(r, d) \/ StartCorrection(r, d)
        PROVE  HashSame
    <3>1. /\ req[r].pc = "idle" /\ req'[r].pc # "save" /\ UNCHANGED <<op, proposed, executed>>
          /\ \A s \in Req : s # r => req'[s] = req[s]
      <4>1. CASE StartUpload(r, d)
        BY <1>0, <4>1 DEF StartUpload, IdleRequest, Idle
      <4>2. CASE StartApprove(r, d)
        BY <1>0, <4>2 DEF StartApprove, Await, IdleRequest, Idle
      <4>3. CASE StartReject(r, d)
        BY <1>0, <4>3 DEF StartReject, Await, IdleRequest, Idle
      <4>4. CASE StartCorrection(r, d)
        BY <1>0, <4>4 DEF StartCorrection, Await, IdleRequest, Idle
      <4> QED
        BY <2>2, <4>1, <4>2, <4>3, <4>4
    <3> QED
      BY <3>1
  <2>3. ASSUME NEW r \in Req,
               FinishUpload(r) \/ FinishExpire(r) \/ FinishDecision(r) \/ FinishCorrection(r)
        PROVE  HashSame
    <3>0. PICK d \in Deposit : req[r].dep = d
      BY <1>0
    <3>1. /\ req[r].pc # "save" /\ Respond(r) /\ UNCHANGED <<proposed, executed>>
          /\ \A e \in Deposit : e # d => op'[e] = op[e]
      BY <1>0, <2>3, <3>0 DEF FinishUpload, FinishExpire, FinishDecision, FinishCorrection, Update
    <3>2. op'[d].safeTx = op[d].safeTx
      <4>1. CASE FinishUpload(r)
        BY <1>0, <3>0, <4>1 DEF FinishUpload, Update, Row
      <4>2. CASE FinishExpire(r)
        BY <1>0, <3>0, <4>2 DEF FinishExpire, Update, Row
      <4>3. CASE FinishDecision(r)
        BY <1>0, <3>0, <4>3 DEF FinishDecision, Update, Row
      <4>4. CASE FinishCorrection(r)
        BY <1>0, <3>0, <4>4 DEF FinishCorrection, Update, Row
      <4> QED
        BY <2>3, <4>1, <4>2, <4>3, <4>4
    <3>3. \A s \in Req : req'[s] = IF s = r THEN IdleRequest ELSE req[s]
      BY <1>0, <3>1 DEF Respond
    <3> QED
      BY <3>1, <3>2, <3>3 DEF IdleRequest
  <2> QED
    BY <1>1, <2>1, <2>2, <2>3 DEF ReviewStep
<1>2. CASE ProposalStep
  <2>1. ASSUME NEW r \in Req, NEW d \in Deposit, StartPropose(r, d) PROVE HashSame
    <3>1. /\ req[r].pc = "idle" /\ req'[r].pc = "propose" /\ UNCHANGED <<op, proposed, executed>>
          /\ \A s \in Req : s # r => req'[s] = req[s]
      BY <1>0, <2>1 DEF StartPropose, IdleRequest, Idle
    <3> QED
      BY <3>1
  <2>2. ASSUME NEW u \in User, NEW w \in Wallet, LinkWallet(u, w) PROVE HashSame
    BY <2>2 DEF LinkWallet
  <2> QED
    BY <1>2, <2>1, <2>2 DEF ProposalStep, HashStep
<1>3. CASE SettlementStep
  <2>1. ASSUME NEW row \in job, JobSync(row[1], row[2]) PROVE HashSame
    <3>1. PICK d \in Deposit : row[1] = d
      BY <1>0
    <3> QED
      BY <1>0, <2>1, <3>1 DEF JobSync, Update, Row
  <2>2. CASE LinkMint \/ ProcessMint
    <3>1. PICK d \in Deposit : lst.dep = d
      BY <1>0
    <3> QED
      BY <1>0, <2>2, <3>1 DEF LinkMint, ProcessMint, Update, Row
  <2> QED
    BY <1>3, <2>1, <2>2 DEF SettlementStep, JobStart, JobPass, JobError, BackoffEnds, ListenMinted,
       ListenNothing, ListenLost
<1>4. CASE FaultStep
  BY <1>0, <1>4 DEF FaultStep, Fail, ListenerFails, Restart, Respond, IdleRequest
<1>5. CASE UNCHANGED vars
  BY <1>5 DEF vars
<1> QED
  BY <1>1, <1>2, <1>3, <1>4, <1>5 DEF Next

LEMMA HashInit == Init => HashInv
<1> SUFFICES ASSUME Init PROVE HashInv
  OBVIOUS
<1>1. MintsExecuted = {}
  BY DEF Init, MintsExecuted
<1> QED
  BY <1>1 DEF Init, HashInv, NoRow, IdleRequest

LEMMA HashKept == SafetyInv /\ ReviewInv /\ HashInv /\ [Next]_vars => HashInv'
<1> SUFFICES ASSUME SafetyInv, ReviewInv, HashInv, [Next]_vars PROVE HashInv'
  OBVIOUS
<1>0. /\ TypeInv /\ op \in [Deposit -> Row] /\ req \in [Req -> Request]
      /\ executed \in Seq(MintTx \cup {Other}) /\ proposed \subseteq MintTx
      /\ \A r \in Req : req[r].dep \in Deposit
      /\ \A d \in Deposit : op[d].safeTx \in MintTx \cup {None}
      /\ None \notin MintTx /\ Other \notin MintTx
  BY NullAssumption DEF SafetyInv, TypeInv, TypeOK, Request, Row
<1> USE DEF userVars, chainVars, jobVars, listenVars, historyVars
<1>1. ASSUME NEW r \in Req, ProposeToSafe(r) PROVE HashInv'
  <2>0. PICK d \in Deposit : req[r].dep = d
    BY <1>0
  <2> DEFINE tx == [to |-> req[r].to, amount |-> Amount[d], airdrop |-> req[r].first,
                    nonce |-> Len(executed)]
  <2>1. /\ req[r].pc = "propose" /\ proposed' = proposed \cup {tx} /\ UNCHANGED <<op, executed>>
        /\ req' = [req EXCEPT ![r].pc = "save", ![r].tx = tx]
    BY <1>1, <2>0 DEF ProposeToSafe
  <2>2. tx.amount = Amount[d] /\ tx.airdrop = req[r].first
    OBVIOUS
  <2> HIDE DEF tx
  <2>3. /\ req'[r].pc = "save" /\ req'[r].dep = d /\ req'[r].tx = tx /\ req'[r].first = req[r].first
        /\ \A s \in Req : s # r => req'[s] = req[s]
    BY <1>0, <2>0, <2>1 DEF Request
  <2>4. \A s \in Req : req'[s].pc = "save" =>
          /\ req'[s].tx \in proposed'
          /\ req'[s].tx.amount = Amount[req'[s].dep]
          /\ req'[s].tx.airdrop = req'[s].first
    <3>1. tx \in proposed' /\ proposed \subseteq proposed'
      BY <2>1
    <3> QED
      BY <2>2, <2>3, <3>1 DEF HashInv
  <2>5. MintsExecuted' = MintsExecuted
    BY <2>1 DEF MintsExecuted
  <2>6. ASSUME ~Faulty, NEW t \in proposed' PROVE \E e \in Deposit : Holds(e, t)'
    <3>1. CASE t = tx
      BY <2>3, <3>1 DEF Holds
    <3>2. CASE t \in proposed
      <4>1. PICK e \in Deposit : Holds(e, t)
        BY <2>6, <3>2 DEF HashInv
      <4>2. Holds(e, t)'
        BY <2>1, <2>3, <4>1 DEF Holds
      <4> QED
        BY <4>2
    <3> QED
      BY <2>1, <3>1, <3>2
  <2> QED
    BY <2>1, <2>4, <2>5, <2>6 DEF HashInv
<1>2. ASSUME NEW r \in Req, SaveProposal(r) PROVE HashInv'
  <2>0. PICK d \in Deposit : req[r].dep = d
    BY <1>0
  <2>1. /\ req[r].pc = "save" /\ UNCHANGED <<proposed, executed>>
        /\ \A s \in Req : req'[s] = IF s = r THEN IdleRequest ELSE req[s]
    BY <1>0, <1>2 DEF SaveProposal, Respond
  <2>2. op[d].safeTx = None
    BY <2>0, <2>1 DEF ReviewInv, Fresh
  <2>3. MintsExecuted' = MintsExecuted
    BY <2>1 DEF MintsExecuted
  <2>4. \A s \in Req : req'[s].pc = "save" =>
          /\ req'[s].tx \in proposed'
          /\ req'[s].tx.amount = Amount[req'[s].dep]
          /\ req'[s].tx.airdrop = req'[s].first
    BY <2>1 DEF HashInv, IdleRequest
  <2>5. CASE Taken(d, req[r].tx) /\ op' = op
    <3>1. PICK e \in Deposit : op[e].safeTx = req[r].tx
      BY <2>5 DEF Taken
    <3>2. ASSUME ~Faulty, NEW t \in proposed PROVE \E f \in Deposit : Holds(f, t)'
      <4>1. PICK f \in Deposit : Holds(f, t)
        BY <3>2 DEF HashInv
      <4>2. t = req[r].tx => Holds(e, t)'
        BY <2>5, <3>1 DEF Holds
      <4>3. t # req[r].tx => Holds(f, t)'
        BY <2>1, <2>5, <4>1 DEF Holds
      <4> QED
        BY <4>2, <4>3
    <3> QED
      BY <2>1, <2>3, <2>4, <2>5, <3>2 DEF HashInv
  <2>6. CASE /\ ~Taken(d, req[r].tx)
             /\ Update(d, [op[d] EXCEPT !.safeTx = req[r].tx, !.proposedAt = saves + 1])
    <3>1. /\ op'[d].safeTx = req[r].tx
          /\ \A e \in Deposit : e # d => op'[e] = op[e]
      BY <1>0, <2>6 DEF Update, Row
    <3>2. req[r].tx.amount = Amount[d]
      BY <2>0, <2>1 DEF HashInv
    <3>3. \A e \in Deposit : e # d => op[e].safeTx # req[r].tx
      BY <2>6 DEF Taken
    <3>4. \A e, f \in Deposit : e # f /\ op'[e].safeTx # None => op'[e].safeTx # op'[f].safeTx
      BY <3>1, <3>3 DEF HashInv
    <3>5. \A e \in Deposit : op'[e].safeTx # None => op'[e].safeTx.amount = Amount[e]
      BY <3>1, <3>2 DEF HashInv
    <3>6. ASSUME ~Faulty, NEW t \in proposed PROVE \E f \in Deposit : Holds(f, t)'
      <4>1. PICK f \in Deposit : Holds(f, t)
        BY <3>6 DEF HashInv
      <4>2. t = req[r].tx => Holds(d, t)'
        BY <3>1 DEF Holds
      <4>3. t # req[r].tx => Holds(f, t)'
        <5>1. f = d /\ op[f].safeTx = t => FALSE
          BY <1>0, <2>2
        <5> QED
          BY <2>1, <3>1, <4>1, <5>1 DEF Holds
      <4> QED
        BY <4>2, <4>3
    <3> QED
      BY <2>1, <2>3, <2>4, <3>4, <3>5, <3>6 DEF HashInv
  <2> QED
    BY <1>2, <2>0, <2>5, <2>6 DEF SaveProposal
<1>3. ASSUME NEW tx \in proposed \cup {Other}, executed' = Append(executed, tx),
             tx # Other => tx.nonce = Len(executed), UNCHANGED <<op, req, proposed>>
      PROVE  HashInv'
  <2>1. /\ Len(executed) \in Nat /\ Len(executed') = Len(executed) + 1
        /\ executed'[Len(executed) + 1] = tx
        /\ \A n \in 1 .. Len(executed) : executed'[n] = executed[n]
    BY <1>0, <1>3
  <2>2. \A n \in MintsExecuted' : n \in MintsExecuted \/ (n = Len(executed) + 1 /\ tx # Other)
    BY <2>1 DEF MintsExecuted
  <2>3. \A n \in MintsExecuted : n \in 1 .. Len(executed)
    BY DEF MintsExecuted
  <2>4. \A n \in MintsExecuted' : executed'[n] \in proposed' /\ executed'[n].nonce = n - 1
    BY <1>3, <2>1, <2>2, <2>3 DEF HashInv
  <2> QED
    BY <1>3, <2>4 DEF HashInv, Holds
<1>4. CASE ~HashStep
  <2>1. HashSame
    BY <1>0, <1>4, OthersLeaveHashes
  <2>2. MintsExecuted' = MintsExecuted
    BY <2>1 DEF MintsExecuted, HashSame
  <2>3. ~Faulty => \A d \in Deposit, tx \in proposed : Holds(d, tx) => Holds(d, tx)'
    BY <2>1 DEF HashSame, Holds
  <2> QED
    BY <2>1, <2>2, <2>3 DEF HashInv, HashSame
<1> QED
  BY <1>1, <1>2, <1>3, <1>4 DEF HashStep, SafeExecute, SafeSpendNonce
-----------------------------------------------------------------------------
(* With the listener off the job alone links mints, and it links each to   *)
(* the deposit that is known by its hash.                                  *)
SettleInv ==
  ~ListenerEnabled =>
    /\ lst.pc = "idle"
    /\ \A d \in Deposit : op[d].mint # 0 =>
         /\ op[d].safeTx # None
         /\ op[d].mint = op[d].safeTx.nonce + 1
         /\ IsExecuted(op[d].safeTx)

LEMMA OthersLeaveMints ==
  ASSUME TypeInv, [Next]_vars, ~ListenerEnabled, lst.pc = "idle",
         ~\E row \in job : JobSync(row[1], row[2])
  PROVE  lst'.pc = "idle" /\ \A d \in Deposit : op'[d].mint = op[d].mint
<1>0. /\ op \in [Deposit -> Row]
      /\ \A r \in Req : req[r].dep \in Deposit
  BY DEF TypeInv, TypeOK, Request
<1> USE DEF userVars, chainVars, jobVars, listenVars, historyVars
<1>1. CASE ReviewStep
  <2>1. ASSUME NEW d \in Deposit, CreateDeposit(d) \/ RateLockExpires(d)
        PROVE  lst' = lst /\ \A e \in Deposit : op'[e].mint = op[e].mint
    <3>1. CASE CreateDeposit(d)
      BY <1>0, <3>1 DEF CreateDeposit, Update, Row
    <3>2. CASE RateLockExpires(d)
      BY <3>2 DEF RateLockExpires
    <3> QED
      BY <2>1, <3>1, <3>2
  <2>2. ASSUME NEW r \in Req,
               FinishUpload(r) \/ FinishExpire(r) \/ FinishDecision(r) \/ FinishCorrection(r)
        PROVE  lst' = lst /\ \A e \in Deposit : op'[e].mint = op[e].mint
    <3>0. PICK d \in Deposit : req[r].dep = d
      BY <1>0
    <3>1. CASE FinishUpload(r)
      BY <1>0, <3>0, <3>1 DEF FinishUpload, Update, Row
    <3>2. CASE FinishExpire(r)
      BY <1>0, <3>0, <3>2 DEF FinishExpire, Update, Row
    <3>3. CASE FinishDecision(r)
      BY <1>0, <3>0, <3>3 DEF FinishDecision, Update, Row
    <3>4. CASE FinishCorrection(r)
      BY <1>0, <3>0, <3>4 DEF FinishCorrection, Update, Row
    <3> QED
      BY <2>2, <3>1, <3>2, <3>3, <3>4
  <2> QED
    BY <1>1, <2>1, <2>2 DEF ReviewStep, StartUpload, StartApprove, StartReject, StartCorrection
<1>2. CASE ProposalStep
  <2>1. ASSUME NEW r \in Req, SaveProposal(r)
        PROVE  lst' = lst /\ \A e \in Deposit : op'[e].mint = op[e].mint
    <3>0. PICK d \in Deposit : req[r].dep = d
      BY <1>0
    <3>1. op' = op \/ Update(d, [op[d] EXCEPT !.safeTx = req[r].tx, !.proposedAt = saves + 1])
      BY <2>1, <3>0 DEF SaveProposal
    <3>2. CASE Update(d, [op[d] EXCEPT !.safeTx = req[r].tx, !.proposedAt = saves + 1])
      <4>1. /\ op'[d] = [op[d] EXCEPT !.safeTx = req[r].tx, !.proposedAt = saves + 1]
            /\ \A e \in Deposit : e # d => op'[e] = op[e]
        BY <1>0, <3>2 DEF Update
      <4>2. op'[d].mint = op[d].mint
        BY <1>0, <4>1 DEF Row
      <4> QED
        BY <2>1, <4>1, <4>2 DEF SaveProposal
    <3> QED
      BY <2>1, <3>1, <3>2 DEF SaveProposal
  <2> QED
    BY <1>2, <2>1 DEF ProposalStep, StartPropose, ProposeToSafe, SafeExecute, SafeSpendNonce, LinkWallet
<1>3. CASE SettlementStep
  BY <1>3 DEF SettlementStep, JobStart, JobPass, JobError, BackoffEnds, ListenMinted,
     ListenNothing, ListenLost, ListenTo, LinkMint, ProcessMint
<1>4. CASE FaultStep
  BY <1>4 DEF FaultStep, Fail, ListenerFails, Restart, IdleListener
<1>5. CASE UNCHANGED vars
  BY <1>5 DEF vars
<1> QED
  BY <1>1, <1>2, <1>3, <1>4, <1>5 DEF Next

LEMMA SettleKept == SafetyInv /\ ReviewInv /\ SettleInv /\ [Next]_vars => SettleInv'
<1> SUFFICES ASSUME SafetyInv, ReviewInv, SettleInv, [Next]_vars, ~ListenerEnabled PROVE SettleInv'
  BY DEF SettleInv
<1>0. /\ TypeInv /\ op \in [Deposit -> Row] /\ req \in [Req -> Request]
      /\ executed \in Seq(MintTx \cup {Other})
      /\ \A r \in Req : req[r].dep \in Deposit
      /\ \A d \in Deposit : op[d].safeTx \in MintTx \cup {None}
      /\ \A row \in job : row[1] \in Deposit /\ row[2] \in MintTx /\ row[2] # None
      /\ lst.pc = "idle"
  BY NullAssumption DEF SafetyInv, TypeInv, TypeOK, Request, Row, SettleInv
<1> USE DEF userVars, chainVars, jobVars, listenVars, historyVars
<1>1. CASE \E row \in job : JobSync(row[1], row[2])
  <2>1. PICK d \in Deposit, tx \in MintTx \ {None} : <<d, tx>> \in job /\ JobSync(d, tx)
    <3>1. PICK row \in job : JobSync(row[1], row[2])
      BY <1>1
    <3>2. row = <<row[1], row[2]>>
      BY <1>0 DEF TypeInv, TypeOK
    <3> QED
      BY <1>0, <3>1, <3>2
  <2>2. op[d].safeTx = tx
    BY <2>1 DEF ReviewInv
  <2>3. /\ op'[d].safeTx = tx /\ op'[d].mint = tx.nonce + 1 /\ executed' = executed /\ lst' = lst
        /\ \A e \in Deposit : e # d => op'[e] = op[e]
        /\ IsExecuted(tx)
    <3>1. op'[d] = [op[d] EXCEPT !.mint = tx.nonce + 1, !.status = "PROCESSED"]
      BY <1>0, <2>1 DEF JobSync, Update
    <3>2. op'[d].safeTx = op[d].safeTx /\ op'[d].mint = tx.nonce + 1
      BY <1>0, <3>1 DEF Row
    <3> QED
      BY <1>0, <2>1, <2>2, <3>2 DEF JobSync, Update
  <2> QED
    BY <2>1, <2>3 DEF SettleInv, IsExecuted
<1>2. CASE ~\E row \in job : JobSync(row[1], row[2])
  <2>1. lst'.pc = "idle" /\ \A d \in Deposit : op'[d].mint = op[d].mint
    BY <1>0, <1>2, OthersLeaveMints
  <2>2. \A d \in Deposit : op[d].safeTx # None => op'[d].safeTx = op[d].safeTx
    <3>1. ASSUME NEW r \in Req, SaveProposal(r), NEW d \in Deposit, op[d].safeTx # None
          PROVE  op'[d].safeTx = op[d].safeTx
      <4>1. req[r].dep # d
        BY <3>1 DEF ReviewInv, Fresh, SaveProposal
      <4> QED
        BY <1>0, <3>1, <4>1 DEF SaveProposal, Update
    <3>2. CASE HashStep
      BY <3>1, <3>2 DEF HashStep, ProposeToSafe, SafeExecute, SafeSpendNonce
    <3>3. CASE ~HashStep
      BY <1>0, <3>3, OthersLeaveHashes DEF HashSame
    <3> QED
      BY <3>2, <3>3
  <2>3. \A tx \in MintTx : IsExecuted(tx) => IsExecuted(tx)'
    <3>1. executed' = executed \/ \E tx \in MintTx \cup {Other} : executed' = Append(executed, tx)
      <4>1. CASE HashStep
        BY <4>1, <1>0 DEF HashStep, ProposeToSafe, SaveProposal, SafeExecute, SafeSpendNonce, TypeInv, TypeOK
      <4>2. CASE ~HashStep
        BY <1>0, <4>2, OthersLeaveHashes DEF HashSame
      <4> QED
        BY <4>1, <4>2
    <3>2. ASSUME NEW tx \in MintTx \cup {Other}, executed' = Append(executed, tx)
          PROVE  \A t \in MintTx : IsExecuted(t) => IsExecuted(t)'
      <4>1. Len(executed) \in Nat /\ Len(executed') = Len(executed) + 1
            /\ \A n \in 1 .. Len(executed) : executed'[n] = executed[n]
        BY <1>0, <3>2
      <4>2. \A t \in MintTx : t.nonce \in Nat
        BY DEF MintTx
      <4> QED
        BY <4>1, <4>2 DEF IsExecuted
    <3> QED
      BY <3>1, <3>2 DEF IsExecuted
  <2>4. ASSUME NEW d \in Deposit, op'[d].mint # 0
        PROVE  /\ op'[d].safeTx # None
               /\ op'[d].mint = op'[d].safeTx.nonce + 1
               /\ IsExecuted(op[d].safeTx)'
    <3>1. /\ op[d].safeTx # None /\ op[d].mint = op[d].safeTx.nonce + 1 /\ IsExecuted(op[d].safeTx)
      BY <2>1, <2>4 DEF SettleInv
    <3>2. PICK tx \in MintTx : op[d].safeTx = tx /\ op'[d].safeTx = tx
      BY <1>0, <2>2, <3>1
    <3>3. IsExecuted(tx)'
      BY <2>3, <3>1, <3>2
    <3> QED
      BY <1>0, <2>1, <3>1, <3>2, <3>3 DEF IsExecuted
  <2> QED
    BY <2>1, <2>4 DEF SettleInv
<1> QED
  BY <1>1, <1>2

LEMMA HashKnown == Spec /\ []OnePerDeposit => [](SafetyInv /\ ReviewInv /\ HashInv /\ SettleInv)
<1>1. Init => SettleInv
  BY DEF Init, SettleInv, NoRow, IdleListener
<1>2. SafetyInv /\ ReviewInv /\ HashInv /\ SettleInv /\ OnePerDeposit /\ [Next]_vars =>
        SafetyInv' /\ ReviewInv' /\ HashInv' /\ SettleInv'
  BY SafetyStep, ReviewKept, HashKept, SettleKept
<1> QED
  BY <1>1, <1>2, SafetyInit, ReviewInit, HashInit, PTL DEF Spec

(* With the listener off, and the requests on a deposit one at a time, no  *)
(* two deposits are settled by one mint, whatever fails or restarts.       *)
(* (MintSyncJob, the unique index of safeTxHash.)                          *)
THEOREM OneMint ==
  ASSUME ~ListenerEnabled
  PROVE  Spec /\ []OnePerDeposit => []OneMintPerDeposit
<1>1. SafetyInv /\ ReviewInv /\ HashInv /\ SettleInv => OneMintPerDeposit
  <2> SUFFICES ASSUME HashInv, SettleInv, NEW d \in Deposit, NEW e \in Deposit, d # e,
                      op[d].mint # 0, op[e].mint = op[d].mint
               PROVE  FALSE
    BY DEF OneMintPerDeposit
  <2>1. executed[op[d].mint] = op[d].safeTx /\ executed[op[e].mint] = op[e].safeTx
    BY DEF SettleInv, IsExecuted
  <2> QED
    BY <2>1 DEF HashInv, SettleInv
<1> QED
  BY <1>1, HashKnown, PTL
-----------------------------------------------------------------------------
(* The airdrop.  isFirstMint is as the request has read it, and it is gone *)
(* of whoever has a deposit known by the hash of a mint with the airdrop.  *)
AirdropInv ==
  /\ \A r \in Req : req[r].pc \in {"propose", "save"} =>
       req[r].first = firstMint[Owner[req[r].dep]]
  /\ \A d \in Deposit : op[d].safeTx # None /\ op[d].safeTx.airdrop => ~firstMint[Owner[d]]
  /\ \A d, e \in Deposit :
       /\ op[d].safeTx # None /\ op[d].safeTx.airdrop
       /\ op[e].safeTx # None /\ op[e].safeTx.airdrop
       => d = e \/ Owner[d] # Owner[e]
  /\ \A u \in User : ~firstMint[u] => \E d \in Deposit : Owner[d] = u

LEMMA AirdropInit == Init => AirdropInv
<1> SUFFICES ASSUME Init PROVE AirdropInv
  OBVIOUS
<1>1. \A r \in Req : req[r].pc = "idle"
  BY DEF Init, IdleRequest
<1>2. \A d \in Deposit : op[d].safeTx = None
  BY DEF Init, NoRow
<1>3. \A u \in User : firstMint[u] = TRUE
  BY DEF Init
<1> QED
  BY <1>1, <1>2, <1>3 DEF AirdropInv

(* The steps that have no part in a proposal.                              *)
LEMMA OthersLeaveProposals ==
  ASSUME TypeInv, [Next]_vars,
         ~\E r \in Req : ProposeToSafe(r) \/ SaveProposal(r) \/ \E d \in Deposit : StartPropose(r, d)
  PROVE  /\ firstMint' = firstMint
         /\ \A d \in Deposit : op'[d].safeTx = op[d].safeTx
         /\ \A r \in Req : req'[r].pc \in {"propose", "save"} => req'[r] = req[r]
<1>0. /\ op \in [Deposit -> Row] /\ req \in [Req -> Request]
      /\ \A r \in Req : req[r].dep \in Deposit
  BY DEF TypeInv, TypeOK, Request
<1> USE DEF userVars, chainVars, jobVars, listenVars, historyVars
<1>1. \A d \in Deposit : op'[d].safeTx = op[d].safeTx
  <2>1. CASE HashStep
    BY <2>1 DEF HashStep, SafeExecute, SafeSpendNonce
  <2>2. CASE ~HashStep
    BY <2>2, OthersLeaveHashes DEF HashSame
  <2> QED
    BY <2>1, <2>2
<1>2. firstMint' = firstMint
  BY DEF Next, vars, ReviewStep, ProposalStep, SettlementStep, FaultStep,
     CreateDeposit, RateLockExpires, StartUpload, StartApprove, StartReject, StartCorrection,
     FinishUpload, FinishExpire, FinishDecision, FinishCorrection,
     SafeExecute, SafeSpendNonce, LinkWallet,
     JobStart, JobSync, JobPass, JobError, BackoffEnds, ListenMinted, ListenNothing, ListenLost,
     LinkMint, ProcessMint, Fail, ListenerFails, Restart
<1>3. \A r \in Req : req'[r].pc \in {"propose", "save"} => req'[r] = req[r]
  <2>1. ASSUME NEW r \in Req, NEW d \in Deposit,
               StartUpload(r, d) \/ StartApprove(r, d) \/ StartReject(r, d) \/ StartCorrection(r, d)
        PROVE  \A s \in Req : req'[s].pc \in {"propose", "save"} => req'[s] = req[s]
    <3>1. CASE StartUpload(r, d)
      BY <1>0, <3>1 DEF StartUpload, IdleRequest
    <3>2. CASE StartApprove(r, d)
      BY <1>0, <3>2 DEF StartApprove, Await, IdleRequest
    <3>3. CASE StartReject(r, d)
      BY <1>0, <3>3 DEF StartReject, Await, IdleRequest
    <3>4. CASE StartCorrection(r, d)
      BY <1>0, <3>4 DEF StartCorrection, Await, IdleRequest
    <3> QED
      BY <2>1, <3>1, <3>2, <3>3, <3>4
  <2>2. ASSUME NEW r \in Req, Respond(r)
        PROVE  \A s \in Req : req'[s].pc \in {"propose", "save"} => req'[s] = req[s]
    BY <1>0, <2>2 DEF Respond, IdleRequest
  <2>3. CASE ReviewStep
    BY <2>1, <2>2, <2>3 DEF ReviewStep, CreateDeposit, RateLockExpires,
       FinishUpload, FinishExpire, FinishDecision, FinishCorrection
  <2>4. CASE ProposalStep
    BY <2>4 DEF ProposalStep, SafeExecute, SafeSpendNonce, LinkWallet
  <2>5. CASE SettlementStep
    BY <2>5 DEF SettlementStep, JobStart, JobSync, JobPass, JobError, BackoffEnds, ListenMinted,
       ListenNothing, ListenLost, LinkMint, ProcessMint
  <2>6. CASE FaultStep
    BY <2>2, <2>6 DEF FaultStep, Fail, ListenerFails, Restart, IdleRequest
  <2>7. CASE UNCHANGED vars
    BY <2>7 DEF vars
  <2> QED
    BY <2>3, <2>4, <2>5, <2>6, <2>7 DEF Next
<1> QED
  BY <1>1, <1>2, <1>3

LEMMA AirdropKept ==
  SafetyInv /\ ReviewInv /\ HashInv /\ AirdropInv /\ OnePerUser /\ [Next]_vars => AirdropInv'
<1> SUFFICES ASSUME SafetyInv, ReviewInv, HashInv, AirdropInv, OnePerUser, [Next]_vars
             PROVE  AirdropInv'
  OBVIOUS
<1>0. /\ TypeInv /\ op \in [Deposit -> Row] /\ req \in [Req -> Request]
      /\ \A r \in Req : req[r].dep \in Deposit
      /\ \A d \in Deposit : Owner[d] \in User
      /\ firstMint \in [User -> BOOLEAN]
  BY Constant DEF SafetyInv, TypeInv, TypeOK, Request
<1> USE DEF userVars, chainVars, jobVars, listenVars, historyVars
<1>1. ASSUME NEW r \in Req, NEW d \in Deposit, StartPropose(r, d) PROVE AirdropInv'
  <2>1. /\ req'[r].dep = d /\ req'[r].first = firstMint[Owner[d]]
        /\ \A s \in Req : s # r => req'[s] = req[s]
        /\ UNCHANGED <<op, firstMint>>
    BY <1>0, <1>1 DEF StartPropose, IdleRequest
  <2> QED
    BY <2>1 DEF AirdropInv
<1>2. ASSUME NEW r \in Req, ProposeToSafe(r) PROVE AirdropInv'
  <2>1. /\ req[r].pc = "propose" /\ req'[r].dep = req[r].dep /\ req'[r].first = req[r].first
        /\ \A s \in Req : s # r => req'[s] = req[s]
        /\ UNCHANGED <<op, firstMint>>
    BY <1>0, <1>2 DEF ProposeToSafe, Request
  <2> QED
    BY <2>1 DEF AirdropInv
<1>3. ASSUME NEW r \in Req, SaveProposal(r) PROVE AirdropInv'
  <2>0. PICK d \in Deposit : req[r].dep = d
    BY <1>0
  <2>1. req[r].pc = "save" /\ \A s \in Req : req'[s] = IF s = r THEN IdleRequest ELSE req[s]
    BY <1>0, <1>3 DEF SaveProposal, Respond
  <2>2. CASE UNCHANGED <<op, firstMint>>
    BY <2>1, <2>2 DEF AirdropInv, IdleRequest
  <2>3. CASE ~UNCHANGED <<op, firstMint>>
    <3>1. /\ Update(d, [op[d] EXCEPT !.safeTx = req[r].tx, !.proposedAt = saves + 1])
          /\ firstMint' = FirstMintSpent(r)
      BY <1>3, <2>0, <2>3 DEF SaveProposal
    <3>2. /\ op'[d].safeTx = req[r].tx
          /\ \A e \in Deposit : e # d => op'[e] = op[e]
      BY <1>0, <3>1 DEF Update, Row
    <3>3. req[r].first = firstMint[Owner[d]] /\ req[r].tx.airdrop = req[r].first
      BY <2>0, <2>1 DEF AirdropInv, HashInv
    <3>4. /\ ~firstMint'[Owner[d]]
          /\ \A u \in User : u # Owner[d] => firstMint'[u] = firstMint[u]
      BY <1>0, <2>0, <3>1, <3>3 DEF FirstMintSpent
    <3>5. \A s \in Req : req'[s].pc \in {"propose", "save"} =>
            req'[s].first = firstMint'[Owner[req'[s].dep]]
      <4>1. ASSUME NEW s \in Req, s # r, req[s].pc \in {"propose", "save"}
            PROVE  Owner[req[s].dep] # Owner[d]
        BY <2>0, <2>1, <4>1 DEF OnePerUser, Idle
      <4> QED
        BY <1>0, <2>1, <3>4, <4>1 DEF AirdropInv, IdleRequest
    <3>6. \A e \in Deposit : op'[e].safeTx # None /\ op'[e].safeTx.airdrop => ~firstMint'[Owner[e]]
      BY <1>0, <3>2, <3>4 DEF AirdropInv
    <3>7. \A e \in Deposit : e # d /\ op[e].safeTx # None /\ op[e].safeTx.airdrop /\ req[r].tx.airdrop =>
            Owner[d] # Owner[e]
      BY <3>3 DEF AirdropInv
    <3>8. \A e, f \in Deposit :
            /\ op'[e].safeTx # None /\ op'[e].safeTx.airdrop
            /\ op'[f].safeTx # None /\ op'[f].safeTx.airdrop
            => e = f \/ Owner[e] # Owner[f]
      BY <3>2, <3>7 DEF AirdropInv
    <3>9. \A u \in User : ~firstMint'[u] => \E e \in Deposit : Owner[e] = u
      BY <3>4 DEF AirdropInv
    <3> QED
      BY <3>5, <3>6, <3>8, <3>9 DEF AirdropInv
  <2> QED
    BY <2>2, <2>3
<1>4. CASE ~\E r \in Req : ProposeToSafe(r) \/ SaveProposal(r) \/ \E d \in Deposit : StartPropose(r, d)
  <2>1. /\ firstMint' = firstMint
        /\ \A d \in Deposit : op'[d].safeTx = op[d].safeTx
        /\ \A r \in Req : req'[r].pc \in {"propose", "save"} => req'[r] = req[r]
    BY <1>0, <1>4, OthersLeaveProposals
  <2> QED
    BY <2>1 DEF AirdropInv
<1> QED
  BY <1>1, <1>2, <1>3, <1>4

LEMMA OneUserOneDeposit == OnePerUser => OnePerDeposit
BY DEF OnePerUser, OnePerDeposit

(* A set that injects into another one is no larger.                       *)
LEMMA NoLarger ==
  ASSUME NEW S, NEW T, IsFiniteSet(T), NEW f \in [S -> T],
         \A x, y \in S : f[x] = f[y] => x = y
  PROVE  IsFiniteSet(S) /\ Cardinality(S) <= Cardinality(T)
<1>1. f \in Injection(S, T)
  BY DEF Injection, IsInjective
<1> QED
  BY <1>1, FS_Injection

LEMMA AirdropsCounted ==
  ASSUME SafetyInv, HashInv, AirdropInv, OnePerUser, ~Faulty
  PROVE  AirdropOncePerUser
<1> DEFINE L == {n \in MintsExecuted : executed[n].airdrop}
           L1 == {n \in L : \E d \in Deposit : op[d].safeTx = executed[n]}
           L2 == L \ L1
           U == {u \in User : ~firstMint[u]}
           S == {r \in Req : req[r].pc = "save" /\ req[r].first}
<1>0. /\ \A r \in Req : req[r].dep \in Deposit
      /\ \A d \in Deposit : Owner[d] \in User
      /\ Owner \in [Deposit -> User]
      /\ \A n \in MintsExecuted : executed[n] # None
      /\ IsFiniteSet(Deposit)
  <2>1. IsFiniteSet(Deposit)
    BY Constant, FS_Interval DEF Deposit
  <2>2. executed \in Seq(MintTx \cup {Other})
    BY DEF SafetyInv, TypeInv, TypeOK
  <2>3. \A n \in MintsExecuted : executed[n] \in MintTx
    BY <2>2 DEF MintsExecuted
  <2> QED
    BY <2>1, <2>3, Constant, NullAssumption DEF SafetyInv, TypeInv, TypeOK, Request
<1>1. \A m, n \in MintsExecuted : executed[m] = executed[n] => m = n
  <2>1. MintsExecuted \subseteq Nat
    BY DEF MintsExecuted
  <2> QED
    BY <2>1 DEF HashInv
<1>2. IsFiniteSet(U)
  <2>1. PICK f : f = [u \in U |-> CHOOSE d \in Deposit : Owner[d] = u]
    OBVIOUS
  <2>2. \A u \in U : f[u] \in Deposit /\ Owner[f[u]] = u
    BY <2>1 DEF AirdropInv
  <2>3. f \in [U -> Deposit]
    BY <2>1, <2>2
  <2> QED
    BY <1>0, <2>2, <2>3, NoLarger
<1>3. IsFiniteSet(S)
  <2>1. PICK f : f = [r \in S |-> req[r].dep]
    OBVIOUS
  <2>2. f \in [S -> Deposit]
    BY <1>0, <2>1
  <2>3. \A r, s \in S : f[r] = f[s] => r = s
    BY <2>1 DEF OnePerUser, Idle
  <2> QED
    BY <1>0, <2>2, <2>3, NoLarger
<1>4. IsFiniteSet(L1) /\ Cardinality(L1) <= Cardinality(U)
  <2>1. PICK h : h = [n \in L1 |-> CHOOSE d \in Deposit : op[d].safeTx = executed[n]]
    OBVIOUS
  <2>2. \A n \in L1 : h[n] \in Deposit /\ op[h[n]].safeTx = executed[n]
    BY <2>1
  <2>3. PICK f : f = [n \in L1 |-> Owner[h[n]]]
    OBVIOUS
  <2>4. \A n \in L1 : op[h[n]].safeTx # None /\ op[h[n]].safeTx.airdrop
    BY <1>0, <2>2
  <2>5. \A n \in L1 : Owner[h[n]] \in U
    BY <1>0, <2>2, <2>4 DEF AirdropInv
  <2>6. f \in [L1 -> U]
    BY <2>3, <2>5
  <2>7. \A m, n \in L1 : f[m] = f[n] => m = n
    <3> SUFFICES ASSUME NEW m \in L1, NEW n \in L1, f[m] = f[n] PROVE m = n
      OBVIOUS
    <3>1. h[m] = h[n]
      BY <2>2, <2>3, <2>4 DEF AirdropInv
    <3> QED
      BY <1>1, <2>2, <3>1
  <2> QED
    BY <1>2, <2>6, <2>7, NoLarger
<1>5. IsFiniteSet(L2) /\ Cardinality(L2) <= Cardinality(S)
  <2>1. \A n \in L2 : \E r \in Req : req[r].pc = "save" /\ req[r].tx = executed[n]
    <3> SUFFICES ASSUME NEW n \in L2 PROVE \E r \in Req : req[r].pc = "save" /\ req[r].tx = executed[n]
      OBVIOUS
    <3>1. PICK d \in Deposit : Holds(d, executed[n])
      BY DEF HashInv
    <3> QED
      BY <3>1 DEF Holds
  <2>2. PICK f : f = [n \in L2 |-> CHOOSE r \in Req : req[r].pc = "save" /\ req[r].tx = executed[n]]
    OBVIOUS
  <2>3. \A n \in L2 : f[n] \in Req /\ req[f[n]].pc = "save" /\ req[f[n]].tx = executed[n]
    BY <2>1, <2>2
  <2>4. \A n \in L2 : f[n] \in S
    BY <2>3 DEF HashInv
  <2>5. f \in [L2 -> S]
    BY <2>2, <2>4
  <2>6. \A m, n \in L2 : f[m] = f[n] => m = n
    BY <1>1, <2>3
  <2> QED
    BY <1>3, <2>5, <2>6, NoLarger
<1>6. L = L1 \cup L2 /\ L1 \cap L2 = {}
  OBVIOUS
<1>7. Cardinality(L) = Cardinality(L1) + Cardinality(L2)
  <2>1. Cardinality(L1 \cup L2) = Cardinality(L1) + Cardinality(L2) - Cardinality(L1 \cap L2)
    <3> HIDE DEF L1, L2
    <3> QED
      BY <1>4, <1>5, FS_Union
  <2>2. Cardinality(L1 \cap L2) = 0
    BY <1>6, FS_EmptySet
  <2>3. Cardinality(L1) \in Nat /\ Cardinality(L2) \in Nat
    <3> HIDE DEF L1, L2
    <3> QED
      BY <1>4, <1>5, FS_CardinalityType
  <2> HIDE DEF L, L1, L2
  <2> QED
    BY <1>6, <2>1, <2>2, <2>3
<1>8. Cardinality(U) \in Nat /\ Cardinality(S) \in Nat /\ Cardinality(L1) \in Nat /\ Cardinality(L2) \in Nat
  <2> HIDE DEF L1, L2, U, S
  <2> QED
    BY <1>2, <1>3, <1>4, <1>5, FS_CardinalityType
<1>9. Cardinality(L) <= Cardinality(U) + Cardinality(S)
  <2> HIDE DEF L, L1, L2, U, S
  <2> QED
    BY <1>4, <1>5, <1>7, <1>8
<1> QED
  BY <1>9 DEF AirdropOncePerUser

(* When requests that succeed come one per user at a time, no user is given*)
(* the airdrop of the first mint twice, whether the listener is on or off. *)
(* (proposeMint, isFirstMint.)                                             *)
THEOREM AirdropOnce ==
  ASSUME ~Faulty
  PROVE  Spec /\ []OnePerUser => []AirdropOncePerUser
<1>1. SafetyInv /\ ReviewInv /\ HashInv /\ AirdropInv /\ OnePerUser /\ [Next]_vars =>
        SafetyInv' /\ ReviewInv' /\ HashInv' /\ AirdropInv'
  BY SafetyStep, ReviewKept, HashKept, AirdropKept, OneUserOneDeposit
<1>2. SafetyInv /\ HashInv /\ AirdropInv /\ OnePerUser => AirdropOncePerUser
  BY AirdropsCounted
<1> QED
  BY <1>1, <1>2, SafetyInit, ReviewInit, HashInit, AirdropInit, PTL DEF Spec
-----------------------------------------------------------------------------
(* Sums.  A table F of the sums of f over the subsets of a finite set S is *)
(* what MapThenSumSet recurs over; whichever element is taken out first,   *)
(* the sum is the same.                                                    *)
Some(s) == CHOOSE x \in s : TRUE

Recurs(F, f, S) ==
  /\ F \in [SUBSET S -> Nat]
  /\ \A s \in SUBSET S : F[s] = IF s = {} THEN 0 ELSE f[Some(s)] + F[s \ {Some(s)}]

Tally(F, f, S) ==
  /\ F \in [SUBSET S -> Nat]
  /\ F[{}] = 0
  /\ \A s \in SUBSET S : \A x \in s : F[s] = f[x] + F[s \ {x}]

(* A set of naturals that is not empty has a least element.                *)
LEMMA LeastNat ==
  ASSUME NEW T, T \subseteq Nat, T # {}
  PROVE  \E n \in T : \A m \in T : n <= m
<1>1. IsWellFoundedOn(OpToRel(<, Nat), Nat)
  BY NatLessThanWellFounded
<1>2. PICK n \in T : \A m \in T : ~(<<m, n>> \in OpToRel(<, Nat))
  BY <1>1, WFMin
<1>3. \A x, y \in Nat : x < y => <<x, y>> \in OpToRel(<, Nat)
  BY DEF OpToRel
<1>4. ASSUME NEW m \in T PROVE n <= m
  <2>1. ~(m < n)
    BY <1>2, <1>3
  <2> QED
    BY <2>1
<1> QED
  BY <1>4

(* The subsets of a finite set, and what is left without one element.      *)
LEMMA Subsets ==
  ASSUME NEW S, IsFiniteSet(S), NEW s \in SUBSET S
  PROVE  /\ Cardinality(s) \in Nat /\ IsFiniteSet(s)
         /\ Cardinality(s) <= Cardinality(S)
         /\ Cardinality(s) = 0 <=> s = {}
         /\ \A x \in s : /\ s \ {x} \in SUBSET S
                         /\ Cardinality(s \ {x}) = Cardinality(s) - 1
<1>1. IsFiniteSet(s) /\ Cardinality(s) <= Cardinality(S)
  BY FS_Subset
<1>2. Cardinality(s) \in Nat
  BY <1>1, FS_CardinalityType
<1>3. Cardinality(s) = 0 <=> s = {}
  BY <1>1, FS_EmptySet
<1>4. ASSUME NEW x \in s PROVE Cardinality(s \ {x}) = Cardinality(s) - 1
  BY <1>1, FS_RemoveElement
<1> QED
  BY <1>1, <1>2, <1>3, <1>4

LEMMA RecursExists ==
  ASSUME NEW S, IsFiniteSet(S), NEW f \in [S -> Nat]
  PROVE  \E F : Recurs(F, f, S)
<1> DEFINE Next1(F, s) == IF s = {} THEN 0 ELSE f[Some(s)] + F[s \ {Some(s)}]
           UpTo(n) == \E F \in [SUBSET S -> Nat] : \A s \in SUBSET S :
                        Cardinality(s) <= n => F[s] = Next1(F, s)
           Bad == {n \in Nat : ~UpTo(n)}
<1>1. \A s \in SUBSET S : s # {} => Some(s) \in s
  BY DEF Some
<1>2. UpTo(0)
  <2> DEFINE F == [s \in SUBSET S |-> 0]
  <2>1. F \in [SUBSET S -> Nat]
    OBVIOUS
  <2>2. \A s \in SUBSET S : Cardinality(s) <= 0 => s = {}
    BY Subsets
  <2>3. \A s \in SUBSET S : Cardinality(s) <= 0 => F[s] = Next1(F, s)
    BY <2>2
  <2> QED
    BY <2>1, <2>3
<1>3. ASSUME NEW n \in Nat, n # 0, UpTo(n - 1) PROVE UpTo(n)
  <2>1. PICK F \in [SUBSET S -> Nat] : \A s \in SUBSET S : Cardinality(s) <= n - 1 => F[s] = Next1(F, s)
    BY <1>3
  <2> DEFINE G == [s \in SUBSET S |-> IF Cardinality(s) <= n - 1 THEN F[s] ELSE Next1(F, s)]
  <2>2. ASSUME NEW s \in SUBSET S PROVE Next1(F, s) \in Nat
    BY <1>1, Subsets
  <2>3. G \in [SUBSET S -> Nat]
    BY <2>2
  <2>4. ASSUME NEW s \in SUBSET S, Cardinality(s) <= n PROVE G[s] = Next1(G, s)
    <3>1. G[s] = Next1(F, s)
      BY <2>1
    <3>2. CASE s = {}
      BY <3>1, <3>2
    <3>3. CASE s # {}
      <4>1. PICK x \in s : x = Some(s)
        BY <1>1, <3>3
      <4>2. Cardinality(s \ {x}) <= n - 1 /\ s \ {x} \in SUBSET S
        BY <2>4, Subsets
      <4>3. G[s \ {x}] = F[s \ {x}]
        BY <4>2
      <4> QED
        BY <3>1, <3>3, <4>1, <4>3
    <3> QED
      BY <3>2, <3>3
  <2> HIDE DEF G
  <2> QED
    BY <2>3, <2>4
<1>4. Bad = {}
  <2> SUFFICES ASSUME Bad # {} PROVE FALSE
    OBVIOUS
  <2>1. PICK n \in Bad : \A m \in Bad : n <= m
    <3>1. Bad \subseteq Nat
      OBVIOUS
    <3> HIDE DEF Bad
    <3> QED
      BY <3>1, LeastNat
  <2>2. n # 0
    BY <1>2
  <2>3. n - 1 \in Nat /\ ~(n <= n - 1)
    BY <2>2
  <2>4. UpTo(n - 1)
    BY <2>1, <2>3
  <2> QED
    BY <1>3, <2>2, <2>4
<1>5. UpTo(Cardinality(S))
  BY <1>4, FS_CardinalityType
<1>6. PICK F \in [SUBSET S -> Nat] : \A s \in SUBSET S :
        Cardinality(s) <= Cardinality(S) => F[s] = Next1(F, s)
  BY <1>5
<1>7. Recurs(F, f, S)
  BY <1>6, Subsets DEF Recurs
<1> QED
  BY <1>7

LEMMA TallyOfRecurs ==
  ASSUME NEW S, IsFiniteSet(S), NEW f \in [S -> Nat], NEW F, Recurs(F, f, S)
  PROVE  Tally(F, f, S)
<1> DEFINE Good(s) == \A x \in s : F[s] = f[x] + F[s \ {x}]
           Bad == {n \in Nat : \E s \in SUBSET S : Cardinality(s) = n /\ ~Good(s)}
<1>0. F \in [SUBSET S -> Nat] /\ F[{}] = 0
  BY DEF Recurs
<1>1. Bad = {}
  <2> SUFFICES ASSUME Bad # {} PROVE FALSE
    OBVIOUS
  <2>1. PICK n \in Bad : \A m \in Bad : n <= m
    <3>1. Bad \subseteq Nat
      OBVIOUS
    <3> HIDE DEF Bad
    <3> QED
      BY <3>1, LeastNat
  <2>2. PICK s \in SUBSET S : Cardinality(s) = n /\ ~Good(s)
    OBVIOUS
  <2>3. \A t \in SUBSET S : Cardinality(t) = n - 1 => Good(t)
    BY <2>1, Subsets
  <2>4. PICK x \in s : F[s] # f[x] + F[s \ {x}]
    BY <2>2
  <2>5. PICK c \in s : F[s] = f[c] + F[s \ {c}]
    BY DEF Recurs, Some
  <2>6. x # c
    BY <2>4, <2>5
  <2>7. s \ {c} \in SUBSET S /\ s \ {x} \in SUBSET S /\ Good(s \ {c}) /\ Good(s \ {x})
    <3>1. /\ s \ {c} \in SUBSET S /\ Cardinality(s \ {c}) = n - 1
          /\ s \ {x} \in SUBSET S /\ Cardinality(s \ {x}) = n - 1
      BY <2>2, Subsets
    <3> HIDE DEF Good
    <3> QED
      BY <2>3, <3>1
  <2>8. PICK t \in SUBSET S : t = (s \ {c}) \ {x}
    OBVIOUS
  <2>9. t = (s \ {x}) \ {c}
    BY <2>8
  <2>10. F[s \ {c}] = f[x] + F[t] /\ F[s \ {x}] = f[c] + F[t]
    <3>1. x \in s \ {c} /\ c \in s \ {x}
      BY <2>6
    <3>2. F[s \ {c}] = f[x] + F[(s \ {c}) \ {x}] /\ F[s \ {x}] = f[c] + F[(s \ {x}) \ {c}]
      BY <2>7, <3>1
    <3> QED
      BY <2>8, <2>9, <3>2
  <2>11. F[t] \in Nat /\ f[x] \in Nat /\ f[c] \in Nat
    BY <1>0
  <2> QED
    BY <2>4, <2>5, <2>10, <2>11
<1>2. ASSUME NEW s \in SUBSET S PROVE Good(s)
  <2>1. Cardinality(s) \in Nat
    BY Subsets
  <2>2. ~Good(s) => Cardinality(s) \in Bad
    <3> HIDE DEF Good
    <3> QED
      BY <2>1
  <2> QED
    BY <1>1, <2>2
<1> QED
  BY <1>0, <1>2 DEF Tally

(* Two tables agree on what corresponds.                                   *)
Matches(h, s, f, T, g) ==
  /\ h \in [s -> T]
  /\ \A x, y \in s : h[x] = h[y] => x = y
  /\ \A x \in s : f[x] = g[h[x]]

LEMMA TallyAgrees ==
  ASSUME NEW S, IsFiniteSet(S), NEW f, NEW F, Tally(F, f, S),
         NEW T, IsFiniteSet(T), NEW g, NEW G, Tally(G, g, T),
         NEW s \in SUBSET S, NEW h, Matches(h, s, f, T, g)
  PROVE  F[s] = G[{h[x] : x \in s}]
<1> DEFINE Image(u) == {h[x] : x \in u}
           Bad == {n \in Nat : \E u \in SUBSET s : Cardinality(u) = n /\ F[u] # G[Image(u)]}
<1> USE DEF Matches
<1>0. /\ \A u \in SUBSET s : u \in SUBSET S /\ Image(u) \in SUBSET T
      /\ IsFiniteSet(s) /\ F[{}] = 0 /\ G[{}] = 0
  BY Subsets DEF Tally
<1>1. Bad = {}
  <2> SUFFICES ASSUME Bad # {} PROVE FALSE
    OBVIOUS
  <2>1. PICK n \in Bad : \A m \in Bad : n <= m
    <3>1. Bad \subseteq Nat
      OBVIOUS
    <3> HIDE DEF Bad
    <3> QED
      BY <3>1, LeastNat
  <2>2. PICK u \in SUBSET s : Cardinality(u) = n /\ F[u] # G[Image(u)]
    OBVIOUS
  <2>3. u # {}
    <3>1. Image({}) = {}
      OBVIOUS
    <3> QED
      BY <1>0, <2>2, <3>1
  <2>4. PICK x \in u : TRUE
    BY <2>3
  <2>5. PICK v \in SUBSET s : v = u \ {x}
    OBVIOUS
  <2>6. n \in Nat /\ Cardinality(v) = n - 1 /\ Cardinality(v) \in Nat
    BY <1>0, <2>2, <2>5, Subsets
  <2>7. F[v] = G[Image(v)]
    <3>1. ~(n <= n - 1) /\ n - 1 \in Nat
      BY <2>6
    <3>2. n - 1 \notin Bad
      BY <2>1, <3>1
    <3> HIDE DEF Image
    <3> QED
      BY <2>6, <3>1, <3>2
  <2>8. F[u] = f[x] + F[v]
    BY <1>0, <2>5 DEF Tally
  <2>9. G[Image(u)] = g[h[x]] + G[Image(v)]
    <3>1. h[x] \in Image(u) /\ Image(u) \in SUBSET T
      BY <1>0
    <3>2. Image(v) = Image(u) \ {h[x]}
      BY <2>5
    <3> HIDE DEF Image
    <3> QED
      BY <3>1, <3>2 DEF Tally
  <2>10. f[x] = g[h[x]]
    OBVIOUS
  <2> HIDE DEF Image
  <2> QED
    BY <2>2, <2>7, <2>8, <2>9, <2>10
<1>2. Cardinality(s) \in Nat
  BY <1>0, FS_CardinalityType
<1> HIDE DEF Image
<1>3. F[s] = G[Image(s)]
  BY <1>1, <1>2
<1> QED
  BY <1>3 DEF Image

(* A smaller set has a smaller sum.                                        *)
LEMMA TallyGrows ==
  ASSUME NEW T, IsFiniteSet(T), NEW g \in [T -> Nat], NEW G, Tally(G, g, T),
         NEW t \in SUBSET T
  PROVE  G[t] <= G[T]
<1> DEFINE Bad == {n \in Nat : \E u \in SUBSET T : t \subseteq u /\ Cardinality(u) = n /\ ~(G[t] <= G[u])}
<1>1. Bad = {}
  <2> SUFFICES ASSUME Bad # {} PROVE FALSE
    OBVIOUS
  <2>1. PICK n \in Bad : \A m \in Bad : n <= m
    <3>1. Bad \subseteq Nat
      OBVIOUS
    <3> HIDE DEF Bad
    <3> QED
      BY <3>1, LeastNat
  <2>2. PICK u \in SUBSET T : t \subseteq u /\ Cardinality(u) = n /\ ~(G[t] <= G[u])
    OBVIOUS
  <2>3. G[t] \in Nat /\ G[u] \in Nat
    BY DEF Tally
  <2>4. PICK x \in u : x \notin t
    BY <2>2, <2>3
  <2>5. PICK v \in SUBSET T : v = u \ {x}
    OBVIOUS
  <2>6. t \subseteq v /\ Cardinality(v) = n - 1 /\ Cardinality(v) \in Nat
    BY <2>2, <2>4, <2>5, Subsets
  <2>7. G[t] <= G[v]
    BY <2>1, <2>6
  <2>8. G[u] = g[x] + G[v] /\ g[x] \in Nat /\ G[v] \in Nat
    BY <2>5 DEF Tally
  <2> QED
    BY <2>2, <2>3, <2>7, <2>8
<1>2. Cardinality(T) \in Nat
  BY FS_CardinalityType
<1> QED
  BY <1>1, <1>2
(* There is one such table only.                                           *)
Unfolds(G, f, S) ==
  G = [s \in SUBSET S |-> IF s = {} THEN 0 ELSE f[Some(s)] + G[s \ {Some(s)}]]

LEMMA RecursUnique ==
  ASSUME NEW S, IsFiniteSet(S), NEW f \in [S -> Nat], NEW F, Recurs(F, f, S), NEW G,
         Unfolds(G, f, S)
  PROVE  G = F
<1> DEFINE Bad == {n \in Nat : \E s \in SUBSET S : Cardinality(s) = n /\ G[s] # F[s]}
<1>0. \A s \in SUBSET S : s # {} => Some(s) \in s
  BY DEF Some
<1>1. Bad = {}
  <2> SUFFICES ASSUME Bad # {} PROVE FALSE
    OBVIOUS
  <2>1. PICK n \in Bad : \A m \in Bad : n <= m
    <3>1. Bad \subseteq Nat
      OBVIOUS
    <3> HIDE DEF Bad
    <3> QED
      BY <3>1, LeastNat
  <2>2. PICK s \in SUBSET S : Cardinality(s) = n /\ G[s] # F[s]
    OBVIOUS
  <2>3. G[s] = IF s = {} THEN 0 ELSE f[Some(s)] + G[s \ {Some(s)}]
    BY DEF Unfolds
  <2>4. F[s] = IF s = {} THEN 0 ELSE f[Some(s)] + F[s \ {Some(s)}]
    BY DEF Recurs
  <2>5. PICK x \in s : x = Some(s)
    BY <1>0, <2>2, <2>3, <2>4
  <2>6. PICK t \in SUBSET S : t = s \ {x}
    OBVIOUS
  <2>7. Cardinality(t) = n - 1 /\ n \in Nat /\ Cardinality(t) \in Nat
    BY <2>2, <2>6, Subsets
  <2>8. G[t] = F[t]
    BY <2>1, <2>7
  <2> QED
    BY <2>2, <2>3, <2>4, <2>5, <2>6, <2>8
<1>2. \A s \in SUBSET S : G[s] = F[s]
  <2>1. \A s \in SUBSET S : Cardinality(s) \in Nat
    BY Subsets
  <2> QED
    BY <1>1, <2>1
<1>3. F = [s \in SUBSET S |-> F[s]]
  BY DEF Recurs
<1>4. G = [s \in SUBSET S |-> G[s]]
  BY DEF Unfolds
<1> QED
  BY <1>2, <1>3, <1>4

(* What TotalOf sums up has such a table.                                  *)
MintedTally ==
  /\ IsFiniteSet(MintsExecuted)
  /\ [n \in MintsExecuted |-> executed[n].amount] \in [MintsExecuted -> Nat]
  /\ \E F : /\ Tally(F, [n \in MintsExecuted |-> executed[n].amount], MintsExecuted)
            /\ TotalOf(AmountMinted, MintsExecuted) = F[MintsExecuted]

LEMMA MintedTotal == executed \in Seq(MintTx \cup {Other}) => MintedTally
<1> SUFFICES ASSUME executed \in Seq(MintTx \cup {Other}) PROVE MintedTally
  OBVIOUS
<1> DEFINE S == MintsExecuted
           f == [n \in S |-> executed[n].amount]
           G == CHOOSE g : g = [s \in SUBSET S |->
                  IF s = {} THEN 0
                            ELSE executed[CHOOSE x \in s : TRUE].amount + g[s \ {CHOOSE x \in s : TRUE}]]
<1>1. IsFiniteSet(S)
  <2>1. IsFiniteSet(1 .. Len(executed)) /\ S \subseteq 1 .. Len(executed)
    BY FS_Interval DEF MintsExecuted
  <2> QED
    BY <2>1, FS_Subset
<1>2. f \in [S -> Nat]
  <2>1. \A n \in S : executed[n] \in MintTx
    BY DEF MintsExecuted
  <2> QED
    BY <2>1 DEF MintTx
<1>3. PICK F : Recurs(F, f, S)
  <2> HIDE DEF f, S
  <2> QED
    BY <1>1, <1>2, RecursExists
<1>4. F = [s \in SUBSET S |->
             IF s = {} THEN 0
                       ELSE executed[CHOOSE x \in s : TRUE].amount + F[s \ {CHOOSE x \in s : TRUE}]]
  BY <1>3 DEF Recurs, Some
<1>5. G = [s \in SUBSET S |->
             IF s = {} THEN 0
                       ELSE executed[CHOOSE x \in s : TRUE].amount + G[s \ {CHOOSE x \in s : TRUE}]]
  BY <1>4
<1>6. TotalOf(AmountMinted, S) = G[S]
  BY DEF TotalOf, MapThenSumSet, MapThenFoldSet, AmountMinted
<1>7. G = F
  <2> HIDE DEF G
  <2>1. \A s \in SUBSET S : s # {} => Some(s) \in S
    BY DEF Some
  <2>2. Unfolds(G, f, S)
    BY <1>5, <2>1 DEF Some, Unfolds
  <2> HIDE DEF f, S
  <2> QED
    BY <1>1, <1>2, <1>3, <2>2, RecursUnique
<1>8. Tally(F, f, S)
  <2> HIDE DEF f, S
  <2> QED
    BY <1>1, <1>2, <1>3, TallyOfRecurs
<1> QED
  BY <1>1, <1>2, <1>6, <1>7, <1>8 DEF MintedTally

LEMMA ApprovedTotal ==
  ASSUME approved \subseteq Deposit
  PROVE  /\ IsFiniteSet(approved)
         /\ [d \in approved |-> Amount[d]] \in [approved -> Nat]
         /\ \E F : /\ Tally(F, [d \in approved |-> Amount[d]], approved)
                   /\ TotalOf(AmountOf, approved) = F[approved]
<1> DEFINE S == approved
           f == [d \in S |-> Amount[d]]
           G == CHOOSE g : g = [s \in SUBSET S |->
                  IF s = {} THEN 0
                            ELSE Amount[CHOOSE x \in s : TRUE] + g[s \ {CHOOSE x \in s : TRUE}]]
<1>1. IsFiniteSet(S)
  <2>1. IsFiniteSet(Deposit)
    BY Constant, FS_Interval DEF Deposit
  <2> QED
    BY <2>1, FS_Subset
<1>2. f \in [S -> Nat]
  BY Constant
<1>3. PICK F : Recurs(F, f, S)
  <2> HIDE DEF f, S
  <2> QED
    BY <1>1, <1>2, RecursExists
<1>4. F = [s \in SUBSET S |->
             IF s = {} THEN 0
                       ELSE Amount[CHOOSE x \in s : TRUE] + F[s \ {CHOOSE x \in s : TRUE}]]
  BY <1>3 DEF Recurs, Some
<1>5. G = [s \in SUBSET S |->
             IF s = {} THEN 0
                       ELSE Amount[CHOOSE x \in s : TRUE] + G[s \ {CHOOSE x \in s : TRUE}]]
  BY <1>4
<1>6. TotalOf(AmountOf, S) = G[S]
  BY DEF TotalOf, MapThenSumSet, MapThenFoldSet, AmountOf
<1>7. G = F
  <2> HIDE DEF G
  <2>1. \A s \in SUBSET S : s # {} => Some(s) \in S
    BY DEF Some
  <2>2. Unfolds(G, f, S)
    BY <1>5, <2>1 DEF Some, Unfolds
  <2> HIDE DEF f, S
  <2> QED
    BY <1>1, <1>2, <1>3, <2>2, RecursUnique
<1>8. Tally(F, f, S)
  <2> HIDE DEF f, S
  <2> QED
    BY <1>1, <1>2, <1>3, TallyOfRecurs
<1> QED
  BY <1>1, <1>2, <1>6, <1>7, <1>8
-----------------------------------------------------------------------------
(* A mint that was executed is held by a deposit, and by no other mint's.  *)
LEMMA HeldApart ==
  ASSUME SafetyInv, ReviewInv, HashInv, OnePerDeposit
  PROVE  /\ \A d \in Deposit, s, t \in MintTx : Holds(d, s) /\ Holds(d, t) => s = t
         /\ \A d \in Deposit, t \in MintTx : Holds(d, t) => d \in approved /\ t.amount = Amount[d]
         /\ \A m, n \in MintsExecuted : executed[m] = executed[n] => m = n
         /\ \A n \in MintsExecuted : executed[n] \in MintTx
<1>0. None \notin MintTx
  BY NullAssumption
<1>1. ASSUME NEW d \in Deposit, NEW s \in MintTx, NEW t \in MintTx, Holds(d, s), Holds(d, t)
      PROVE  s = t
  <2>1. CASE op[d].safeTx # None
    <3>1. \A r \in Req : ~(req[r].pc = "save" /\ req[r].dep = d)
      BY <2>1 DEF ReviewInv, Fresh
    <3> QED
      BY <1>1, <3>1 DEF Holds
  <2>2. CASE op[d].safeTx = None
    <3>1. PICK q \in Req : req[q].pc = "save" /\ req[q].dep = d /\ req[q].tx = s
      BY <1>0, <1>1, <2>2 DEF Holds
    <3>2. PICK r \in Req : req[r].pc = "save" /\ req[r].dep = d /\ req[r].tx = t
      BY <1>0, <1>1, <2>2 DEF Holds
    <3>3. q = r
      BY <3>1, <3>2 DEF OnePerDeposit, Idle
    <3> QED
      BY <3>1, <3>2, <3>3
  <2> QED
    BY <2>1, <2>2
<1>2. ASSUME NEW d \in Deposit, NEW t \in MintTx, Holds(d, t)
      PROVE  d \in approved /\ t.amount = Amount[d]
  <2>1. CASE op[d].safeTx = t
    BY <1>0, <2>1 DEF ReviewInv, Reviewed, HashInv
  <2>2. ASSUME NEW r \in Req, req[r].pc = "save", req[r].dep = d, req[r].tx = t
        PROVE  d \in approved /\ t.amount = Amount[d]
    BY <2>2 DEF ReviewInv, Fresh, HashInv
  <2> QED
    BY <1>2, <2>1, <2>2 DEF Holds
<1>3. \A m, n \in MintsExecuted : executed[m] = executed[n] => m = n
  <2>1. MintsExecuted \subseteq Nat
    BY DEF MintsExecuted
  <2>2. \A n \in MintsExecuted : executed[n].nonce = n - 1
    BY DEF HashInv
  <2> QED
    BY <2>1, <2>2
<1>4. \A n \in MintsExecuted : executed[n] \in MintTx
  BY DEF SafetyInv, TypeInv, TypeOK, MintsExecuted
<1> QED
  BY <1>1, <1>2, <1>3, <1>4

LEMMA PegKept ==
  ASSUME SafetyInv, ReviewInv, HashInv, OnePerDeposit, ~Faulty
  PROVE  PegHolds
<1> DEFINE S == MintsExecuted
           f == [n \in S |-> executed[n].amount]
           g == [d \in approved |-> Amount[d]]
<1>0. /\ executed \in Seq(MintTx \cup {Other}) /\ approved \subseteq Deposit
      /\ proposed \subseteq MintTx
  BY DEF SafetyInv, TypeInv, TypeOK
<1>1. PICK F : Tally(F, f, S) /\ TotalOf(AmountMinted, S) = F[S]
  BY <1>0, MintedTotal DEF MintedTally
<1>2. PICK G : Tally(G, g, approved) /\ TotalOf(AmountOf, approved) = G[approved]
  BY <1>0, ApprovedTotal
<1>3. IsFiniteSet(S) /\ f \in [S -> Nat]
  BY <1>0, MintedTotal DEF MintedTally
<1>4. IsFiniteSet(approved) /\ g \in [approved -> Nat]
  BY <1>0, ApprovedTotal
<1>5. PICK h : h = [n \in S |-> CHOOSE d \in Deposit : Holds(d, executed[n])]
  OBVIOUS
<1>6. \A n \in S : h[n] \in Deposit /\ Holds(h[n], executed[n])
  <2>1. \A n \in S : \E d \in Deposit : Holds(d, executed[n])
    BY DEF HashInv
  <2> HIDE DEF S
  <2> QED
    BY <1>5, <2>1
<1>7. /\ \A d \in Deposit, s, t \in MintTx : Holds(d, s) /\ Holds(d, t) => s = t
      /\ \A d \in Deposit, t \in MintTx : Holds(d, t) => d \in approved /\ t.amount = Amount[d]
      /\ \A m, n \in S : executed[m] = executed[n] => m = n
      /\ \A n \in S : executed[n] \in MintTx
  BY HeldApart
<1>8. h \in [S -> approved]
  <2> HIDE DEF S
  <2> QED
    BY <1>5, <1>6, <1>7
<1>9. \A m, n \in S : h[m] = h[n] => m = n
  <2> HIDE DEF S
  <2> QED
    BY <1>6, <1>7
<1>10. \A n \in S : f[n] = g[h[n]]
  <2>1. \A n \in S : h[n] \in approved /\ executed[n].amount = Amount[h[n]]
    <3> HIDE DEF S
    <3> QED
      BY <1>6, <1>7
  <2> QED
    BY <2>1
<1>11. F[S] = G[{h[n] : n \in S}]
  <2> HIDE DEF S, f, g
  <2>1. Matches(h, S, f, approved, g)
    BY <1>8, <1>9, <1>10 DEF Matches
  <2> QED
    BY <1>1, <1>2, <1>3, <1>4, <2>1, TallyAgrees
<1>12. G[{h[n] : n \in S}] <= G[approved]
  <2>1. {h[n] : n \in S} \in SUBSET approved
    BY <1>8
  <2> HIDE DEF S, f, g
  <2> QED
    BY <1>2, <1>4, <2>1, TallyGrows
<1> QED
  BY <1>1, <1>2, <1>11, <1>12 DEF PegHolds

(* The peg: when the requests on a deposit come one at a time and do not   *)
(* fail, no more BOBH is minted than the deposits approved amount to, for  *)
(* any number of deposits and whether the listener is on or off.           *)
(* (proposeMint, the unique index of safeTxHash, one proposal per deposit.)*)
THEOREM Peg ==
  ASSUME ~Faulty
  PROVE  Spec /\ []OnePerDeposit => []PegHolds
<1>1. SafetyInv /\ ReviewInv /\ HashInv /\ OnePerDeposit => PegHolds
  BY PegKept
<1> QED
  BY <1>1, HashKnown, PTL
-----------------------------------------------------------------------------
(* The refinement of MintLedger.  The amounts executed, as they grow.      *)
LEMMA MintedTotalNext == (executed \in Seq(MintTx \cup {Other}) => MintedTally)'
BY MintedTotal, PTL

LEMMA SupplyGrows ==
  ASSUME executed \in Seq(MintTx \cup {Other}), NEW tx \in MintTx \cup {Other},
         executed' = Append(executed, tx)
  PROVE  TotalOf(AmountMinted, MintsExecuted)' =
           TotalOf(AmountMinted, MintsExecuted) + (IF tx = Other THEN 0 ELSE tx.amount)
<1> DEFINE S == MintsExecuted
           f == [n \in S |-> executed[n].amount]
           L == Len(executed) + 1
<1>0. /\ executed' \in Seq(MintTx \cup {Other}) /\ Len(executed) \in Nat /\ Len(executed') = L
      /\ executed'[L] = tx
      /\ \A n \in 1 .. Len(executed) : executed'[n] = executed[n]
  OBVIOUS
<1>1. PICK F : Tally(F, f, S) /\ TotalOf(AmountMinted, S) = F[S]
  BY MintedTotal DEF MintedTally
<1>2. IsFiniteSet(S) /\ f \in [S -> Nat]
  BY MintedTotal DEF MintedTally
<1>3. /\ IsFiniteSet(S)' /\ f' \in [S' -> Nat]
      /\ \E G : Tally(G, f', S') /\ TotalOf(AmountMinted, S)' = G[S']
  <2>1. MintedTally'
    BY <1>0, MintedTotalNext
  <2> QED
    BY <2>1 DEF MintedTally
<1>4. PICK T, g : T = S' /\ g = f'
  OBVIOUS
<1>5. PICK G : Tally(G, g, T) /\ TotalOf(AmountMinted, S)' = G[T]
  BY <1>3, <1>4
<1>6. IsFiniteSet(T) /\ g \in [T -> Nat]
  BY <1>3, <1>4
<1>7. /\ S \subseteq T /\ S \subseteq 1 .. Len(executed)
      /\ \A n \in T : n \in S \/ (n = L /\ tx # Other)
      /\ tx # Other => L \in T
  BY <1>0, <1>4 DEF MintsExecuted
<1>8. \A n \in S : g[n] = f[n]
  BY <1>0, <1>4, <1>7
<1>9. F[S] = G[S]
  <2>1. PICK h : h = [n \in S |-> n]
    OBVIOUS
  <2>2. {h[n] : n \in S} = S
    BY <2>1
  <2>3. Matches(h, S, f, T, g)
    BY <1>7, <1>8, <2>1 DEF Matches
  <2>4. F[S] = G[{h[n] : n \in S}]
    <3> HIDE DEF S, f
    <3> QED
      BY <1>1, <1>2, <1>5, <1>6, <2>3, TallyAgrees
  <2> QED
    BY <2>2, <2>4
<1>10. CASE tx = Other
  <2>1. T = S
    BY <1>7, <1>10
  <2>2. G[T] \in Nat
    BY <1>5 DEF Tally
  <2>3. G[S] = F[S] /\ G[S] \in Nat
    BY <1>9, <2>1, <2>2
  <2>4. TotalOf(AmountMinted, S)' = G[S] /\ TotalOf(AmountMinted, S) = G[S]
    BY <1>1, <1>5, <2>1, <2>3
  <2>5. F[S] \in Nat
    BY <2>3
  <2> HIDE DEF S, f
  <2>6. TotalOf(AmountMinted, S)' = TotalOf(AmountMinted, S) + 0
    BY <2>3, <2>4
  <2> QED
    BY <1>10, <2>6 DEF S
<1>11. CASE tx # Other
  <2>1. L \in T /\ S = T \ {L} /\ g[L] = tx.amount
    <3>1. L \notin S
      BY <1>0, <1>7
    <3>2. g[L] = executed'[L].amount
      BY <1>4, <1>7, <1>11
    <3> QED
      BY <1>0, <1>7, <1>11, <3>1, <3>2
  <2>2. G[T] = g[L] + G[S] /\ G[S] \in Nat /\ g[L] \in Nat
    <3> HIDE DEF S, L, f
    <3>1. T \in SUBSET T /\ S \in SUBSET T
      BY <1>7
    <3> QED
      BY <1>5, <1>6, <2>1, <3>1 DEF Tally
  <2> QED
    BY <1>1, <1>5, <1>9, <1>11, <2>1, <2>2
<1> QED
  BY <1>10, <1>11

(* What MintLedger sees of the pipeline.                                   *)
Issued == {d \in Deposit : \E tx \in HashesOf(d) : IsExecuted(tx)}
Settled == {d \in Deposit : isMinted(op[d])}
Supply == TotalOf(AmountMinted, MintsExecuted)
ledgerVars == <<approved, Issued, Settled, Supply>>

(* The hash a deposit is known by is one it holds, unless another one's    *)
(* row has it.                                                             *)
Own(d, tx) == Holds(d, tx) /\ \A e \in Deposit : e # d => op[e].safeTx # tx

LEMMA KnownBy == \A d \in Deposit, tx \in MintTx : tx \in HashesOf(d) <=> Own(d, tx)
<1>1. None \notin MintTx
  BY NullAssumption
<1> QED
  BY <1>1 DEF HashesOf, Holds, Own

LEMMA HashesTyped ==
  ASSUME TypeInv, HashInv
  PROVE  \A d \in Deposit : HashesOf(d) \subseteq MintTx
<1>1. /\ \A d \in Deposit : op[d].safeTx \in MintTx \cup {None}
      /\ \A r \in Req : req[r].pc = "save" => req[r].tx \in MintTx
  BY DEF TypeInv, TypeOK, Row, HashInv
<1> QED
  BY <1>1 DEF HashesOf

LEMMA IssuedIs ==
  TypeInv /\ HashInv =>
    \A d \in Deposit : d \in Issued <=> \E tx \in MintTx : Own(d, tx) /\ IsExecuted(tx)
BY KnownBy, HashesTyped DEF Issued

LEMMA IssuedNext ==
  (TypeInv /\ HashInv =>
    \A d \in Deposit : d \in Issued <=> \E tx \in MintTx : Own(d, tx) /\ IsExecuted(tx))'
BY IssuedIs, PTL

(* The ledger starts empty.                                                *)
LEMMA LedgerInit == Init => Ledger!Init
<1> SUFFICES ASSUME Init PROVE Ledger!Init
  OBVIOUS
<1>1. ASSUME NEW d \in Deposit PROVE HashesOf(d) = {} /\ ~isMinted(op[d])
  <2>1. op[d].safeTx = None /\ op[d].mint = 0 /\ op[d].status = "ABSENT"
    BY DEF Init, NoRow
  <2>2. \A r \in Req : req[r].pc # "save"
    BY DEF Init, IdleRequest
  <2> QED
    BY <2>1, <2>2 DEF HashesOf, isMinted
<1>2. TotalOf(AmountMinted, MintsExecuted) = 0
  <2>1. executed = << >> /\ MintsExecuted = {}
    BY DEF Init, MintsExecuted
  <2>2. PICK F : /\ Tally(F, [n \in MintsExecuted |-> executed[n].amount], MintsExecuted)
                 /\ TotalOf(AmountMinted, MintsExecuted) = F[MintsExecuted]
    BY <2>1, MintedTotal DEF MintedTally
  <2> QED
    BY <2>1, <2>2 DEF Tally
<1> QED
  BY <1>1, <1>2 DEF Ledger!Init, Init

(* A deposit is settled when it has its mint.                              *)
LEMMA SettledIs == SafetyInv => \A d \in Deposit : d \in Settled <=> op[d].mint # 0
BY DEF SafetyInv, RowStands, Settled, isMinted

LEMMA SettledNext == (SafetyInv => \A d \in Deposit : d \in Settled <=> op[d].mint # 0)'
BY SettledIs, PTL

(* What a step on the hashes, the Safe and the requests leaves alone.      *)
LEMMA NothingIssued ==
  ASSUME TypeInv, HashInv, TypeInv', HashInv', ~Faulty, HashSame
  PROVE  Issued' = Issued /\ Supply' = Supply
<1>1. \A d \in Deposit, tx \in MintTx : Own(d, tx)' <=> Own(d, tx)
  BY DEF HashSame, Holds, Own
<1>2. \A tx \in MintTx : IsExecuted(tx)' <=> IsExecuted(tx)
  BY DEF HashSame, IsExecuted
<1>3. \A d \in Deposit : d \in Issued' <=> d \in Issued
  BY <1>1, <1>2, IssuedIs, IssuedNext
<1>4. Issued \subseteq Deposit /\ Issued' \subseteq Deposit
  BY DEF Issued
<1>5. Supply' = Supply
  BY DEF HashSame, Supply, TotalOf, MapThenSumSet, MapThenFoldSet, AmountMinted, MintsExecuted
<1> QED
  BY <1>3, <1>4, <1>5

LEMMA OthersLeaveApproved ==
  ASSUME [Next]_vars, ~\E r \in Req : FinishDecision(r)
  PROVE  approved' = approved
BY DEF Next, vars, historyVars, ReviewStep, ProposalStep, SettlementStep, FaultStep,
   CreateDeposit, RateLockExpires, StartUpload, StartApprove, StartReject, StartCorrection,
   FinishUpload, FinishExpire, FinishCorrection, StartPropose, ProposeToSafe, SaveProposal,
   SafeExecute, SafeSpendNonce, LinkWallet,
   JobStart, JobSync, JobPass, JobError, BackoffEnds, ListenMinted, ListenNothing, ListenLost,
   LinkMint, ProcessMint, Fail, ListenerFails, Restart

(* The steps outside the Safe are Credit, Settle or nothing to the ledger. *)
LEMMA LedgerOutside ==
  ASSUME SafetyInv, ReviewInv, HashInv, SettleInv, SafetyInv', HashInv', [Next]_vars,
         ~Faulty, ~ListenerEnabled, ~HashStep
  PROVE  Ledger!Next \/ UNCHANGED ledgerVars
<1>0. /\ TypeInv /\ TypeInv' /\ lst.pc = "idle"
      /\ op \in [Deposit -> Row] /\ req \in [Req -> Request]
      /\ \A r \in Req : req[r].dep \in Deposit
      /\ \A row \in job : row[1] \in Deposit /\ row[2] \in MintTx
  BY DEF SafetyInv, SettleInv, TypeInv, TypeOK, Request
<1>1. Issued' = Issued /\ Supply' = Supply
  BY <1>0, OthersLeaveHashes, NothingIssued
<1>2. Settled \subseteq Deposit /\ Settled' \subseteq Deposit
  BY DEF Settled
<1>3. ASSUME NEW r \in Req, FinishDecision(r) PROVE Ledger!Next \/ UNCHANGED ledgerVars
  <2>0. PICK d \in Deposit : req[r].dep = d
    BY <1>0
  <2>1. ~\E row \in job : JobSync(row[1], row[2])
    <3>1. req[r].pc # "idle" /\ req'[r].pc = "idle"
      BY <1>0, <1>3 DEF FinishDecision, Respond, IdleRequest
    <3> QED
      BY <3>1 DEF JobSync
  <2>2. \A e \in Deposit : op'[e].mint = op[e].mint
    BY <1>0, <2>1, OthersLeaveMints
  <2>3. Settled' = Settled
    BY <1>2, <2>2, SettledIs, SettledNext
  <2>4. CASE req[r].pc = "approve"
    <3>1. d \notin approved /\ approved' = approved \cup {d}
      BY <1>3, <2>0, <2>4 DEF ReviewInv, Fresh, Reviewed, FinishDecision
    <3>2. Ledger!Credit(d)
      BY <1>1, <2>3, <3>1 DEF Ledger!Credit, Issued, Settled, Supply
    <3> QED
      BY <3>2 DEF Ledger!Next
  <2>5. CASE req[r].pc # "approve"
    <3>1. approved' = approved
      BY <1>3, <2>5 DEF FinishDecision
    <3> QED
      BY <1>1, <2>3, <3>1 DEF ledgerVars
  <2> QED
    BY <2>4, <2>5
<1>4. ASSUME NEW row \in job, JobSync(row[1], row[2]) PROVE Ledger!Next \/ UNCHANGED ledgerVars
  <2>0. PICK d \in Deposit, tx \in MintTx : row[1] = d /\ row[2] = tx
    BY <1>0
  <2>1. /\ op'[d].mint # 0 /\ IsExecuted(tx) /\ approved' = approved
        /\ \A e \in Deposit : e # d => op'[e] = op[e]
    <3>1. /\ Update(d, [op[d] EXCEPT !.mint = tx.nonce + 1, !.status = "PROCESSED"])
          /\ IsExecuted(tx) /\ approved' = approved
      BY <1>4, <2>0 DEF JobSync, historyVars
    <3>2. tx.nonce + 1 # 0
      BY DEF MintTx
    <3>3. op'[d].mint = tx.nonce + 1
      BY <1>0, <3>1 DEF Update, Row
    <3> QED
      BY <1>0, <3>1, <3>2, <3>3 DEF Update
  <2>2. d \in Issued
    <3>1. op[d].safeTx = tx /\ tx # None
      BY <2>0, NullAssumption DEF ReviewInv
    <3>2. Own(d, tx)
      BY <3>1 DEF Holds, HashInv, Own
    <3> QED
      BY <1>0, <2>1, <3>2, IssuedIs
  <2>3. Settled' = Settled \cup {d}
    BY <1>2, <2>1, SettledIs, SettledNext
  <2>4. CASE d \in Settled
    BY <1>1, <2>1, <2>3, <2>4 DEF ledgerVars
  <2>5. CASE d \notin Settled
    <3>1. Ledger!Settle(d)
      BY <1>1, <2>1, <2>2, <2>3, <2>5 DEF Ledger!Settle, Issued, Settled, Supply
    <3> QED
      BY <3>1 DEF Ledger!Next
  <2> QED
    BY <2>4, <2>5
<1>5. CASE ~(\E r \in Req : FinishDecision(r)) /\ ~(\E row \in job : JobSync(row[1], row[2]))
  <2>1. approved' = approved
    BY <1>5, OthersLeaveApproved
  <2>2. \A d \in Deposit : op'[d].mint = op[d].mint
    BY <1>0, <1>5, OthersLeaveMints
  <2>3. Settled' = Settled
    BY <1>2, <2>2, SettledIs, SettledNext
  <2> QED
    BY <1>1, <2>1, <2>3 DEF ledgerVars
<1> QED
  BY <1>3, <1>4, <1>5

(* Proposing, and saving the hash, issue nothing.                          *)
LEMMA ProposalIssuesNothing ==
  ASSUME SafetyInv, ReviewInv, HashInv, SafetyInv', HashInv', ProposalsInTurn, ~Faulty,
         NEW r \in Req, ProposeToSafe(r) \/ SaveProposal(r)
  PROVE  UNCHANGED ledgerVars
<1>0. /\ TypeInv /\ TypeInv' /\ op \in [Deposit -> Row] /\ req \in [Req -> Request]
      /\ \A s \in Req : req[s].dep \in Deposit
      /\ Len(executed) \in Nat /\ None \notin MintTx
  BY NullAssumption DEF SafetyInv, TypeInv, TypeOK, Request
<1> USE DEF userVars, chainVars, jobVars, listenVars, historyVars
<1>1. PICK d \in Deposit : req[r].dep = d
  BY <1>0
<1>2. executed' = executed /\ approved' = approved
  BY DEF ProposeToSafe, SaveProposal
<1>3. Supply' = Supply
  BY <1>2 DEF Supply, TotalOf, MapThenSumSet, MapThenFoldSet, AmountMinted, MintsExecuted
<1>4. \A tx \in MintTx : IsExecuted(tx)' <=> IsExecuted(tx)
  BY <1>2 DEF IsExecuted
<1>5. \A e \in Deposit : op'[e].mint = op[e].mint
  <2>1. CASE ProposeToSafe(r)
    BY <2>1 DEF ProposeToSafe
  <2>2. CASE SaveProposal(r)
    <3>1. op' = op \/ Update(d, [op[d] EXCEPT !.safeTx = req[r].tx, !.proposedAt = saves + 1])
      BY <1>1, <2>2 DEF SaveProposal
    <3>2. CASE Update(d, [op[d] EXCEPT !.safeTx = req[r].tx, !.proposedAt = saves + 1])
      <4>1. /\ op'[d] = [op[d] EXCEPT !.safeTx = req[r].tx, !.proposedAt = saves + 1]
            /\ \A e \in Deposit : e # d => op'[e] = op[e]
        BY <1>0, <3>2 DEF Update
      <4>2. op'[d].mint = op[d].mint
        BY <1>0, <4>1 DEF Row
      <4> QED
        BY <4>1, <4>2
    <3> QED
      BY <3>1, <3>2
  <2> QED
    BY <2>1, <2>2
<1>6. Settled' = Settled
  <2>1. Settled \subseteq Deposit /\ Settled' \subseteq Deposit
    BY DEF Settled
  <2> QED
    BY <1>5, <2>1, SettledIs, SettledNext
<1>7. \A e \in Deposit, tx \in MintTx : IsExecuted(tx) => (Own(e, tx)' <=> Own(e, tx))
  <2>1. CASE ProposeToSafe(r)
    <3>1. PICK t : t = [to |-> req[r].to, amount |-> Amount[d], airdrop |-> req[r].first,
                        nonce |-> Len(executed)]
      OBVIOUS
    <3>2. /\ req[r].pc = "propose" /\ op' = op
          /\ req' = [req EXCEPT ![r].pc = "save", ![r].tx = t]
      BY <1>1, <2>1, <3>1 DEF ProposeToSafe
    <3>3. /\ req'[r].pc = "save" /\ req'[r].tx = t
          /\ \A s \in Req : s # r => req'[s] = req[s]
      BY <1>0, <3>2 DEF Request
    <3>4. ~IsExecuted(t)
      BY <1>0, <3>1 DEF IsExecuted
    <3>5. \A e \in Deposit, tx \in MintTx : tx # t => (Holds(e, tx)' <=> Holds(e, tx))
      BY <3>2, <3>3 DEF Holds
    <3> QED
      BY <3>2, <3>4, <3>5 DEF Own
  <2>2. CASE SaveProposal(r)
    <3>1. /\ req[r].pc = "save" /\ \A s \in Req : req'[s] = IF s = r THEN IdleRequest ELSE req[s]
      BY <1>0, <2>2 DEF SaveProposal, Respond
    <3>2. /\ \A s \in Req : req[s].pc = "save" => s = r
          /\ \A s \in Req : req'[s].pc # "save"
      BY <3>1 DEF ProposalsInTurn, IdleRequest
    <3>3. op[d].safeTx = None
      BY <1>1, <3>1 DEF ReviewInv, Fresh
    <3>4. PICK t \in MintTx : t = req[r].tx
      BY <1>0, <3>1 DEF HashInv, SafetyInv, TypeInv, TypeOK
    <3>5. \A e \in Deposit, tx \in MintTx :
            /\ Holds(e, tx) <=> op[e].safeTx = tx \/ (e = d /\ tx = t)
            /\ Holds(e, tx)' <=> op'[e].safeTx = tx
      BY <1>1, <3>1, <3>2, <3>4 DEF Holds
    <3>6. CASE Taken(d, t) /\ op' = op
      BY <1>0, <3>3, <3>5, <3>6 DEF Taken, Own
    <3>7. CASE ~Taken(d, t) /\ Update(d, [op[d] EXCEPT !.safeTx = t, !.proposedAt = saves + 1])
      <4>1. op'[d].safeTx = t /\ \A e \in Deposit : e # d => op'[e] = op[e]
        BY <1>0, <3>7 DEF Update, Row
      <4>2. \A e \in Deposit : e # d => op[e].safeTx # t
        BY <3>7 DEF Taken
      <4> QED
        BY <1>0, <3>3, <3>5, <4>1, <4>2 DEF Own
    <3> QED
      BY <1>1, <2>2, <3>4, <3>6, <3>7 DEF SaveProposal
  <2> QED
    BY <2>1, <2>2
<1>8. Issued' = Issued
  <2>1. \A e \in Deposit : e \in Issued <=> \E tx \in MintTx : Own(e, tx) /\ IsExecuted(tx)
    BY <1>0, IssuedIs
  <2>2. \A e \in Deposit : e \in Issued' <=> \E tx \in MintTx : Own(e, tx)' /\ IsExecuted(tx)'
    BY <1>0, IssuedNext
  <2>3. Issued \subseteq Deposit /\ Issued' \subseteq Deposit
    BY DEF Issued
  <2> QED
    BY <1>4, <1>7, <2>1, <2>2, <2>3
<1> QED
  BY <1>2, <1>3, <1>6, <1>8 DEF ledgerVars

(* The execution of a mint is Issue for the one deposit it is known by.    *)
LEMMA ExecutionIssues ==
  ASSUME SafetyInv, ReviewInv, HashInv, SafetyInv', HashInv',
         OnePerDeposit, ProposalsInTurn, ~Faulty,
         NEW tx \in proposed, SafeExecute(tx)
  PROVE  Ledger!Next
<1>0. /\ TypeInv /\ TypeInv' /\ tx \in MintTx /\ proposed \subseteq MintTx
      /\ executed \in Seq(MintTx \cup {Other}) /\ Len(executed) \in Nat
      /\ None \notin MintTx /\ Other \notin MintTx
      /\ approved \subseteq Deposit
  BY NullAssumption DEF SafetyInv, TypeInv, TypeOK
<1> USE DEF userVars, chainVars, jobVars, listenVars, historyVars
<1>1. /\ tx.nonce = Len(executed) /\ executed' = Append(executed, tx)
      /\ UNCHANGED <<op, req, approved>>
  BY DEF SafeExecute
<1>2. PICK d \in Deposit : Own(d, tx)
  <2>1. PICK d \in Deposit : Holds(d, tx)
    BY DEF HashInv
  <2>2. CASE \E e \in Deposit : op[e].safeTx = tx
    <3>1. PICK e \in Deposit : op[e].safeTx = tx
      BY <2>2
    <3>2. Own(e, tx)
      BY <1>0, <3>1 DEF Holds, HashInv, Own
    <3> QED
      BY <3>2
  <2>3. CASE ~\E e \in Deposit : op[e].safeTx = tx
    BY <2>1, <2>3 DEF Own
  <2> QED
    BY <2>2, <2>3
<1>3. \A e \in Deposit : Own(e, tx) => e = d
  <2> SUFFICES ASSUME NEW e \in Deposit, Own(e, tx), e # d PROVE FALSE
    OBVIOUS
  <2>1. PICK q \in Req : req[q].pc = "save" /\ req[q].dep = d
    BY <1>2 DEF Holds, Own
  <2>2. PICK r \in Req : req[r].pc = "save" /\ req[r].dep = e
    BY <1>2 DEF Holds, Own
  <2> QED
    BY <2>1, <2>2 DEF ProposalsInTurn
<1>4. d \in approved /\ tx.amount = Amount[d] /\ \A t \in MintTx : Holds(d, t) => t = tx
  BY <1>0, <1>2, HeldApart DEF Own
<1>5. /\ ~IsExecuted(tx) /\ IsExecuted(tx)'
      /\ \A t \in MintTx : t # tx => (IsExecuted(t)' <=> IsExecuted(t))
  <2>1. /\ Len(executed') = Len(executed) + 1 /\ executed'[Len(executed) + 1] = tx
        /\ \A n \in 1 .. Len(executed) : executed'[n] = executed[n]
    BY <1>0, <1>1
  <2>2. \A t \in MintTx : t.nonce \in Nat
    BY DEF MintTx
  <2> QED
    BY <1>0, <1>1, <2>1, <2>2 DEF IsExecuted
<1>6. \A e \in Deposit, t \in MintTx : Own(e, t)' <=> Own(e, t)
  BY <1>1 DEF Holds, Own
<1>7. d \notin Issued /\ Issued' = Issued \cup {d}
  <2>1. \A e \in Deposit : e \in Issued <=> \E t \in MintTx : Own(e, t) /\ IsExecuted(t)
    BY <1>0, IssuedIs
  <2>2. \A e \in Deposit : e \in Issued' <=> \E t \in MintTx : Own(e, t)' /\ IsExecuted(t)'
    BY <1>0, IssuedNext
  <2>3. Issued \subseteq Deposit /\ Issued' \subseteq Deposit
    BY DEF Issued
  <2>4. \A t \in MintTx : Own(d, t) => t = tx
    BY <1>4 DEF Own
  <2> QED
    BY <1>0, <1>2, <1>3, <1>5, <1>6, <2>1, <2>2, <2>3, <2>4
<1>8. Supply' = Supply + Amount[d]
  BY <1>0, <1>1, <1>4, SupplyGrows DEF Supply
<1>9. Settled' = Settled
  BY <1>1 DEF Settled
<1>10. Ledger!Issue(d)
  BY <1>1, <1>4, <1>7, <1>8, <1>9 DEF Ledger!Issue, Issued, Settled, Supply
<1> QED
  BY <1>10 DEF Ledger!Next

LEMMA SpentNonceIssuesNothing ==
  ASSUME SafetyInv, HashInv, SafetyInv', HashInv', SafeSpendNonce
  PROVE  UNCHANGED ledgerVars
<1>0. /\ TypeInv /\ TypeInv' /\ executed \in Seq(MintTx \cup {Other}) /\ Len(executed) \in Nat
      /\ Other \notin MintTx
  BY NullAssumption DEF SafetyInv, TypeInv, TypeOK
<1>1. executed' = Append(executed, Other) /\ UNCHANGED <<op, req, approved>>
  BY DEF SafeSpendNonce, historyVars
<1>2. \A t \in MintTx : IsExecuted(t)' <=> IsExecuted(t)
  <2>1. /\ Len(executed') = Len(executed) + 1 /\ executed'[Len(executed) + 1] = Other
        /\ \A n \in 1 .. Len(executed) : executed'[n] = executed[n]
    BY <1>0, <1>1
  <2>2. \A t \in MintTx : t.nonce \in Nat
    BY DEF MintTx
  <2> QED
    BY <1>0, <2>1, <2>2 DEF IsExecuted
<1>3. \A e \in Deposit, t \in MintTx : Own(e, t)' <=> Own(e, t)
  BY <1>1 DEF Holds, Own
<1>4. Issued' = Issued
  <2>1. Issued \subseteq Deposit /\ Issued' \subseteq Deposit
    BY DEF Issued
  <2> QED
    BY <1>0, <1>2, <1>3, <2>1, IssuedIs, IssuedNext
<1>5. Supply \in Nat
  <2>1. MintedTally
    BY <1>0, MintedTotal
  <2> QED
    BY <2>1 DEF MintedTally, Tally, Supply
<1>6. Supply' = Supply
  <2>1. Supply' = Supply + 0
    BY <1>0, <1>1, SupplyGrows DEF Supply
  <2> QED
    BY <1>5, <2>1
<1>7. Settled' = Settled
  BY <1>1 DEF Settled
<1> QED
  BY <1>1, <1>4, <1>6, <1>7 DEF ledgerVars

LEMMA LedgerStep ==
  /\ SafetyInv /\ ReviewInv /\ HashInv /\ SettleInv /\ OnePerDeposit /\ ProposalsInTurn
  /\ SafetyInv' /\ HashInv'
  /\ ~Faulty /\ ~ListenerEnabled
  /\ [Next]_vars
  => [Ledger!Next]_ledgerVars
BY LedgerOutside, ProposalIssuesNothing, ExecutionIssues, SpentNonceIssuesNothing DEF HashStep

(* When the requests on a deposit, and the proposals, come one at a time,  *)
(* nothing fails and the listener is off, the pipeline implements          *)
(* MintLedger: the amount of a deposit is issued once, after its approval, *)
(* and a deposit is settled only by the execution of its own mint.         *)
(* (decide, proposeMint, MintSyncJob.)                                     *)
THEOREM LedgerImplemented ==
  ASSUME ~Faulty, ~ListenerEnabled
  PROVE  Spec /\ []OnePerDeposit /\ []ProposalsInTurn => ImplementsLedger
<1>1. /\ SafetyInv /\ ReviewInv /\ HashInv /\ SettleInv /\ OnePerDeposit /\ ProposalsInTurn
      /\ SafetyInv' /\ HashInv' /\ [Next]_vars
      => [Ledger!Next]_ledgerVars
  BY LedgerStep
<1> QED
  BY <1>1, LedgerInit, HashKnown, PTL DEF Spec, ImplementsLedger, Ledger!Spec,
     ledgerVars, Issued, Settled, Supply
====
