-------------------------------- MODULE Kyc --------------------------------
(***************************************************************************)
(* Who may operate: KYC sessions and their webhook, the review of uploaded *)
(* documents, and the guard that reads both results from the users' row.   *)
(***************************************************************************)
EXTENDS AccountState

(* kycStatus becomes VERIFIED; history notes whether a start is in flight  *)
(* that will write PENDING over it.                                        *)
Verifying(u) ==
  {"verified"} \cup When(\E r \in Req : req[r].user = u /\ req[r].pc = "session", "restarted")

(* Variant: a user who is VERIFIED may start again.                        *)
AnyoneStarts(u) == row[u].exists

(* History notes that the status of u, if it is BLACKLISTED, is undone.     *)
Reopen(u) ==
  undone' = [undone EXCEPT ![u] = @ \cup When(row[u].kyc = "BLACKLISTED", "reopened")]

MayStart(u) == row[u].exists /\ row[u].kyc # "VERIFIED"

(* KycController.start: the provider is asked for a session ...            *)
StartKyc(r, u) ==
  /\ MayStart(u)
  /\ Begin(r, At("session", u))
  /\ UNCHANGED <<row, signUpVars, doc, listenVars, historyVars>>

(* ... which is stored with PENDING, over whatever the status is by now.   *)
SaveSession(r) ==
  LET u == req[r].user IN
  /\ req[r].pc = "session"
  /\ row' = [row EXCEPT ![u].kyc = "PENDING", ![u].session = req[r].id]
  /\ owner' = [owner EXCEPT ![req[r].id] = u]
  /\ Reopen(u)
  /\ Respond(r)
  /\ UNCHANGED <<signUpVars, doc, listenVars, past, spent>>

(* Variant: a webhook is taken for an approval whatever it says.           *)
AnyAnswer(says) == TRUE

IsApproval(says) == says = "approved"

(* handleKycWebhook: the provider reports on a session s whose address the *)
(* user has got, and the user it is stored for is looked up ...            *)
StartWebhook(r, s, says) ==
  /\ owner[s] # None
  /\ Note(owner[s], When(says = "approved", "approved"))
  /\ \E u \in User :
       /\ IsApproval(says) /\ row[u].session = s /\ row[u].kyc # "VERIFIED"
       /\ Begin(r, At("webhook", u))
  /\ UNCHANGED <<row, signUpVars, doc, listenVars, owner, spent, undone>>

(* ... and made VERIFIED by id, whatever its status and session are by now.*)
FinishWebhook(r) ==
  LET u == req[r].user IN
  /\ req[r].pc = "webhook"
  /\ row' = [row EXCEPT ![u].kyc = "VERIFIED"]
  /\ Note(u, Verifying(u))
  /\ Reopen(u)
  /\ Respond(r)
  /\ UNCHANGED <<signUpVars, doc, listenVars, owner, spent>>
-----------------------------------------------------------------------------
(* VerificationService.createRequest: the image is stored, then the row.   *)
CreateRequest(q, u) ==
  /\ row[u].exists /\ doc[q].status = "ABSENT"
  /\ calls < MaxCalls /\ calls' = calls + 1
  /\ doc' = [doc EXCEPT ![q].user = u, ![q].status = "PENDING"]
  /\ UNCHANGED <<row, signUpVars, req, listenVars, historyVars>>

(* Variant: a request that was decided may be decided again.               *)
AnyRequest(q) == doc[q].status \notin {"ABSENT", "GONE"}

MayDecide(q) == doc[q].status = "PENDING"

(* acceptPendingRequest, rejectPendingRequest: the transaction reads the   *)
(* request (read committed, no lock) ...                                   *)
StartReview(r, q, says) ==
  /\ MayDecide(q)
  /\ Begin(r, [At("review", doc[q].user) EXCEPT !.doc = q, !.says = says])
  /\ doc' = [doc EXCEPT ![q].raced = @ \/ \E s \in Req : req[s].pc = "review" /\ req[s].doc = q]
  /\ UNCHANGED <<row, signUpVars, listenVars, historyVars>>

(* ... and updates the user and the request.  The second transaction waits *)
(* for the user's row lock, so the two updates are seen together.  If the  *)
(* request was deleted the update throws and all is rolled back.           *)
CommitReview(r) ==
  LET q == req[r].doc
      u == req[r].user
  IN
  /\ req[r].pc = "review"
  /\ \/ doc[q].status = "GONE" /\ UNCHANGED <<row, doc, past>>
     \/ /\ doc[q].status # "GONE"
        /\ row' = [row EXCEPT ![u].active = req[r].says = "APPROVED"]
        /\ doc' = [doc EXCEPT ![q].status = req[r].says]
        /\ Note(u, When(req[r].says = "APPROVED", "cleared"))
  /\ Respond(r)
  /\ UNCHANGED <<signUpVars, listenVars, owner, spent, undone>>

(* VerificationService.remove.                                             *)
RemoveRequest(q) ==
  /\ doc[q].status \notin {"ABSENT", "GONE"}
  /\ doc' = [doc EXCEPT ![q].status = "GONE"]
  /\ UNCHANGED <<row, signUpVars, req, calls, listenVars, historyVars>>
-----------------------------------------------------------------------------
(* Variant: kycStatus alone opens the door.                                *)
KycAlone(u) == row[u].kyc = "VERIFIED"

(* KycVerifiedGuard, on the row that JwtStrategy.validate has just read.   *)
MayOperate(u) == row[u].active /\ row[u].kyc = "VERIFIED"

(* A deposit or a withdrawal gets past the guards.                         *)
Serve(u) ==
  /\ row[u].exists /\ MayOperate(u)
  /\ Note(u, {"served"})
  /\ UNCHANGED <<row, signUpVars, doc, req, calls, listenVars, owner, spent, undone>>
=============================================================================
