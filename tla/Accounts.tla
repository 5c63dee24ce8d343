------------------------------ MODULE Accounts ------------------------------
(***************************************************************************)
(* Everything that writes the users' rows except the deposit pipeline:     *)
(* sign-up and passwords (SignUp), KYC and the review of documents (Kyc),  *)
(* and the blacklist events of the chain (Blacklist), with failing calls   *)
(* and restarts, which lose the cache and the requests in flight.          *)
(***************************************************************************)
EXTENDS SignUp, Blacklist

(* The program starts with users who have signed up, and e-mails nobody has*)
(* used.                                                                   *)
Init ==
  /\ row \in [User -> {NoRow, NewRow(FALSE, TRUE)}]
  /\ otp = [u \in User |-> None]
  /\ signup = [u \in User |-> 0]
  /\ doc = [q \in Doc |-> NoDoc]
  /\ req = [r \in Req |-> IdleRequest]
  /\ calls = 0
  /\ log = << >> /\ heard = 0
  /\ ev = IdleHandler
  /\ entry = [u \in User |-> << >>]
  /\ isPaused = FALSE /\ missed = FALSE
  /\ past = [u \in User |-> IF row[u].exists THEN {"confirmed", "matched"} ELSE {}]
  /\ owner = [s \in Call |-> None]
  /\ spent = {}
  /\ undone = [u \in User |-> {}]

(* An await on the database or a service is rejected: the request answers  *)
(* with an error and a transaction is rolled back.  The cache is in memory *)
(* and does not fail.                                                      *)
Fail(r) ==
  /\ req[r].pc \in {"google", "forgot", "reset", "session", "webhook", "review"}
  /\ Respond(r)
  /\ UNCHANGED <<row, signUpVars, doc, listenVars, historyVars>>

(* The process stops and is started again.                                 *)
Restart ==
  /\ req' = [r \in Req |-> IdleRequest]
  /\ otp' = [u \in User |-> None]
  /\ signup' = [u \in User |-> 0]
  /\ CutOff
  /\ \E answers \in BOOLEAN :
       isPaused' = InitialPause(answers) /\ missed' = ~answers
  /\ UNCHANGED <<row, doc, calls, log, heard, entry, past, owner, spent>>

SignUpNext(r, u) ==
  \/ StartRegister(r, u) \/ StartResend(r, u) \/ StartGoogle(r, u)
  \/ StartForgot(r, u) \/ StartReset(r, u)
  \/ \E c \in Code : StartVerify(r, u, c)

Continue(r) ==
  \/ StoreSignup(r) \/ SendCode(r) \/ BurnCode(r) \/ ReadSignup(r) \/ CreateUser(r) \/ DropSignup(r)
  \/ GoogleCreate(r) \/ SaveToken(r) \/ FinishReset(r)
  \/ SaveSession(r) \/ FinishWebhook(r) \/ CommitReview(r)
  \/ Fail(r)

KycNext(r) ==
  \/ \E u \in User : StartKyc(r, u)
  \/ \E s \in Call, says \in {"approved", "declined"} : StartWebhook(r, s, says)
  \/ \E q \in Doc, says \in {"APPROVED", "REJECTED"} : StartReview(r, q, says)

UserNext(u) ==
  \/ Expire(u) \/ ExpireToken(u) \/ CompleteProfile(u) \/ Serve(u)
  \/ \E w \in Wallet : LinkWallet(u, w)
  \/ \E q \in Doc : CreateRequest(q, u)

ListenNext ==
  \/ \E e \in Event : Emit(e)
  \/ ListenPause \/ ListenBlacklist \/ WriteStatus \/ CloseEntries \/ CreateEntry
  \/ HandlerFails \/ ListenLost

Next ==
  \/ \E r \in Req : Continue(r) \/ KycNext(r) \/ \E u \in User : SignUpNext(r, u)
  \/ \E u \in User : UserNext(u)
  \/ \E q \in Doc : RemoveRequest(q)
  \/ ListenNext
  \/ Restart

Spec == Init /\ [][Next]_vars
-----------------------------------------------------------------------------
(* Every variable has its type.                                            *)
TypeOK ==
  /\ row \in [User -> Row]
  /\ otp \in [User -> Otp \cup {None}]
  /\ signup \in [User -> Call]
  /\ doc \in [Doc -> DocRow]
  /\ req \in [Req -> Request]
  /\ calls \in Call
  /\ log \in Seq(Event) /\ heard \in 0 .. Len(log)
  /\ ev \in Handler
  /\ entry \in [User -> Seq(Entry)]
  /\ isPaused \in BOOLEAN /\ missed \in BOOLEAN
  /\ past \in [User -> SUBSET Fact]
  /\ owner \in [Call -> User \cup {None}]
  /\ spent \subseteq User \X Call
  /\ undone \in [User -> SUBSET Undoing]

(* An account exists only if Google made it or a code mailed to its        *)
(* address was confirmed, and unless sign-ups of that address overlapped   *)
(* the code was sent for the very data the account was made of.            *)
(* (AuthService.register, verifySignup, resendSignupCode.)                 *)
AccountMatchesCode ==
  \A u \in User :
    row[u].exists =>
      \/ "google" \in past[u]
      \/ "confirmed" \in past[u] /\ ("matched" \in past[u] \/ "crossed" \in past[u])

(* A reset token that has changed the password of an account is not in its *)
(* row any more, so that no reset that begins now changes it with that     *)
(* token again, however requests for new tokens and resets overlap, and    *)
(* whatever token the sign-up set.  Of resets that have read the token     *)
(* before it says nothing: each of them changes the password.              *)
(* (AuthService.forgotPassword, resetPassword.)                            *)
SpentTokenGone ==
  \A u \in User : <<u, row[u].token>> \notin spent

(* A user is VERIFIED only if the provider approved a session opened for   *)
(* that user, or the chain took the user's wallet off the blacklist.       *)
VerifiedIsEarned ==
  \A u \in User :
    row[u].kyc = "VERIFIED" => "approved" \in past[u] \/ "unlisted" \in past[u]

(* Once VERIFIED, a user stays so, unless the wallet was blacklisted or a  *)
(* start was in flight while VERIFIED was written.                         *)
VerifiedLasts ==
  \A u \in User :
    "verified" \in past[u] =>
      row[u].kyc = "VERIFIED" \/ "listed" \in past[u] \/ "restarted" \in past[u]

(* An entry of u says that u is blocked since its wallet was listed.       *)
Listed(u) == \E i \in DOMAIN entry[u] : entry[u][i] = [action |-> "ADDED", blocked |-> TRUE]

(* A user with a current ADDED entry is BLACKLISTED.  The only exceptions: *)
(* since BLACKLISTED was last written, a KYC session was saved or answered *)
(* over it or a removal was cut off halfway; or a removal is halfway now.  *)
(* So a user listed again is BLACKLISTED again, whatever happened before,  *)
(* and the entries never say blocked of a user whose status was not        *)
(* written first.  (onAddedToBlacklist, onRemovedFromBlacklist.)           *)
BlockedIsExplained ==
  \A u \in User : Listed(u) => row[u].kyc = "BLACKLISTED" \/ undone[u] # {} \/ HalfRemoved(u)

(* A REMOVED entry closes all the entries before it, even if a handler is  *)
(* cut off between its three updates.  (onRemovedFromBlacklist.)           *)
ClosedByRemoval ==
  \A u \in User : \A j \in DOMAIN entry[u] :
    entry[u][j].action = "REMOVED" => \A i \in 1 .. j : ~entry[u][i].blocked

(* Whoever got past KycVerifiedGuard had isVerified from the sign-up data  *)
(* or an accepted review, and earned VERIFIED.                             *)
ServedWasCleared ==
  \A u \in User :
    "served" \in past[u] => "cleared" \in past[u] /\ ("approved" \in past[u] \/ "unlisted" \in past[u])

(* A decision on an uploaded document is final unless two decisions of it  *)
(* were being made at once: both transactions then read PENDING.           *)
DecisionStands ==
  [][\A q \in Doc :
       doc[q].status \in {"APPROVED", "REJECTED"} =>
         doc'[q].status \in {doc[q].status, "GONE"} \/ doc[q].raced]_vars

(* When the listener has taken the last pause event and lost none since it *)
(* was last right, the flag in memory is the contract's, restarts or not.  *)
PauseFlagExact ==
  ~missed /\ (\A i \in heard + 1 .. Len(log) : log[i].kind \notin PauseAction) =>
    isPaused = Paused
=============================================================================
