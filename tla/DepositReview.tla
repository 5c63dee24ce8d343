--------------------------- MODULE DepositReview ---------------------------
(***************************************************************************)
(* A deposit from its creation to the reviewer's decision: createDeposit,  *)
(* uploadProof, decide and requestCorrection.  The Start action of a       *)
(* handler is everything up to its first update or external call, with the *)
(* guards it evaluates on the row it has just read; the Finish action is   *)
(* the update, which selects the row by id alone and so never looks at the *)
(* row again.                                                              *)
(*                                                                         *)
(* The guards have names.  A definition marked `variant' is not part of    *)
(* the model: it is a definition of the model with a mistake in it, and    *)
(* shows which property would find the mistake.                            *)
(***************************************************************************)
EXTENDS DepositState

(* createDeposit with a valid amount.  The rate of a PEN deposit may be a  *)
(* cached one, quoted more than RATE_LOCK_MINUTES ago.                     *)
CreateDeposit(d) ==
  /\ op[d].status = "ABSENT"
  /\ \A e \in Deposit : e < d => op[e].status # "ABSENT"
  /\ Update(d, [op[d] EXCEPT !.status = "PENDING"])
  /\ \E lock \in SUBSET ({d} \cap Pen) : expired' = expired \cup lock
  /\ UNCHANGED <<userVars, req, chainVars, jobVars, listenVars, saves, historyVars>>

RateLockExpires(d) ==
  /\ d \in Pen \ expired
  /\ op[d].status # "ABSENT"
  /\ expired' = expired \cup {d}
  /\ UNCHANGED <<op, userVars, req, chainVars, jobVars, listenVars, saves, historyVars>>
-----------------------------------------------------------------------------
(* Variant: any first proof of a PEN deposit finds the rate expired.       *)
LapsesAtOnce(d) == d \in Pen /\ op[d].status = "PENDING"

(* The rate only blocks the first proof.                                   *)
Lapsed(d) == d \in Pen /\ op[d].status = "PENDING" /\ d \in expired

(* uploadProof: the reads, the rate check, then the await on Cloudinary.   *)
StartUpload(r, d) ==
  /\ Idle(r)
  /\ op[d].status \in {"PENDING", "NEED_CORRECTION"}
  /\ req' = [req EXCEPT ![r] =
               [IdleRequest EXCEPT !.pc = IF Lapsed(d) THEN "expire" ELSE "upload",
                                   !.dep = d,
                                   !.resub = (op[d].status = "NEED_CORRECTION")]]
  /\ UNCHANGED <<op, expired, userVars, chainVars, jobVars, listenVars, saves, historyVars>>

(* Variant: the note stays when the proof is corrected.                    *)
KeepsNote(r) == FALSE

ShouldClearReview(r) == req[r].resub

(* uploadProof after the upload: proofUploadedAt is the time of this step. *)
FinishUpload(r) ==
  LET d == req[r].dep IN
  /\ req[r].pc = "upload"
  /\ Update(d, [op[d] EXCEPT !.status = "PROOF_SUBMITTED",
                             !.proof  = TRUE,
                             !.late   = d \in Pen /\ d \in expired,
                             !.note   = @ /\ ~ShouldClearReview(r)])
  /\ Respond(r)
  /\ UNCHANGED <<expired, userVars, chainVars, jobVars, listenVars, saves, historyVars>>

(* The update to RATE_EXPIRED, in uploadProof and in decide.               *)
FinishExpire(r) ==
  LET d == req[r].dep IN
  /\ req[r].pc = "expire"
  /\ Update(d, [op[d] EXCEPT !.status = "RATE_EXPIRED"])
  /\ Respond(r)
  /\ UNCHANGED <<expired, userVars, chainVars, jobVars, listenVars, saves, historyVars>>
-----------------------------------------------------------------------------
(* Variant: a deposit with no proof may be approved.                       *)
MayApproveUnseen(d) == op[d].status \in {"PENDING", "PROOF_SUBMITTED"}

MayApprove(d) == op[d].status = "PROOF_SUBMITTED" /\ op[d].proof

(* Variant: decide does not look at the time of the proof.                 *)
NeverTooLate(d) == FALSE

TooLate(d) == d \in Pen /\ op[d].late

StartApprove(r, d) ==
  /\ Idle(r)
  /\ ~isMinted(op[d])
  /\ MayApprove(d)
  /\ Await(r, d, IF TooLate(d) THEN "expire" ELSE "approve")
  /\ UNCHANGED <<op, expired, userVars, chainVars, jobVars, listenVars, saves, historyVars>>

(* Variant: an approved deposit may still be rejected.                     *)
MayRejectApproved(d) == op[d].status \in {"PROOF_SUBMITTED", "NEED_CORRECTION", "APPROVED"}

MayReject(d) == op[d].status \in {"PROOF_SUBMITTED", "NEED_CORRECTION"}

StartReject(r, d) ==
  /\ Idle(r)
  /\ ~isMinted(op[d])
  /\ MayReject(d)
  /\ Await(r, d, "reject")
  /\ UNCHANGED <<op, expired, userVars, chainVars, jobVars, listenVars, saves, historyVars>>

FinishDecision(r) ==
  LET d == req[r].dep
      approve == req[r].pc = "approve" IN
  /\ req[r].pc \in {"approve", "reject"}
  /\ Update(d, [op[d] EXCEPT !.status = IF approve THEN "APPROVED" ELSE "REJECTED"])
  /\ approved' = IF approve THEN approved \cup {d} ELSE approved
  /\ Respond(r)
  /\ UNCHANGED <<expired, userVars, chainVars, jobVars, listenVars, saves>>

StartCorrection(r, d) ==
  /\ Idle(r)
  /\ ~isMinted(op[d])
  /\ op[d].proof
  /\ op[d].status = "PROOF_SUBMITTED"
  /\ Await(r, d, "correct")
  /\ UNCHANGED <<op, expired, userVars, chainVars, jobVars, listenVars, saves, historyVars>>

FinishCorrection(r) ==
  LET d == req[r].dep IN
  /\ req[r].pc = "correct"
  /\ Update(d, [op[d] EXCEPT !.status = "NEED_CORRECTION", !.note = TRUE])
  /\ Respond(r)
  /\ UNCHANGED <<expired, userVars, chainVars, jobVars, listenVars, saves, historyVars>>
=============================================================================
