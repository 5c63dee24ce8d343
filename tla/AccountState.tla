---------------------------- MODULE AccountState ----------------------------
(***************************************************************************)
(* The state that sign-up, password recovery, KYC, the document review and *)
(* the blacklist events share: the rows of users, verification_requests    *)
(* and blacklist_entries, the in-memory cache, the requests in flight and  *)
(* the event handler of the listener.                                      *)
(*                                                                         *)
(* A user is its e-mail address, which is unique.  Every request has a     *)
(* number; what it creates (a registration, a reset token, a KYC session)  *)
(* is known by that number.                                                *)
(***************************************************************************)
EXTENDS Naturals, Sequences

CONSTANTS
  User,      \* e-mail addresses
  Wallet,    \* on-chain addresses
  Code,      \* the codes randomInt may draw
  Doc,       \* identities for verification requests
  Req,       \* identities for requests in flight
  MaxCalls,  \* bound: requests and events
  None       \* null

ASSUME AccountAssumption == MaxCalls \in Nat /\ None \notin User \cup Wallet

Call == 0 .. MaxCalls  \* 0 is null

VARIABLES
  row,      \* row[u]: the row of users with the e-mail u
  otp,      \* otp[u]: the cached code of u, `otp_<email>'
  signup,   \* signup[u]: the cached registration of u, `signup_<email>'
  doc,      \* doc[q]: the verification request q
  req,      \* req[r]: the handler r is running, and what it has read
  calls,    \* how many requests and events there have been
  log,      \* the events of the contract, in order
  heard,    \* how many of them the listener has taken
  ev,       \* the blacklist handler in progress
  entry,    \* entry[u]: the blacklist_entries of u, in order of creation
  isPaused, \* EventProcessorService.isPaused
  past,     \* history: past[u] is what has happened to user u
  owner,    \* history: owner[s] is the user that KYC session s was stored for
  spent,    \* history: <<u, t>> when the password of u was reset with token t
  undone,   \* history: undone[u] is how the last BLACKLISTED of u was written over
  missed    \* history: isPaused may be wrong, as an event or the reading was lost

signUpVars  == <<otp, signup>>
listenVars  == <<log, heard, ev, entry, isPaused, missed>>
historyVars == <<past, owner, spent, undone>>
vars == <<row, otp, signup, doc, req, calls, log, heard, ev, entry, isPaused,
          past, owner, spent, undone, missed>>
-----------------------------------------------------------------------------
(* REJECTED and NEED_CORRECTION are never written.                         *)
KycStatus == {"UNVERIFIED", "PENDING", "VERIFIED", "BLACKLISTED"}

Row == [exists  : BOOLEAN,
        active  : BOOLEAN,               \* isVerified
        kyc     : KycStatus,
        session : Call,                  \* kycSessionId
        wallet  : Wallet \cup {None},
        hasPass : BOOLEAN,               \* password is not the empty string
        token   : Call,                  \* resetPasswordToken
        live    : BOOLEAN]               \* resetPasswordExpiry is in the future

(* usersService.create with the given columns; the others get defaults.    *)
NewRow(active, hasPass) ==
  [exists |-> TRUE, active |-> active, kyc |-> "UNVERIFIED", session |-> 0,
   wallet |-> None, hasPass |-> hasPass, token |-> 0, live |-> FALSE]

NoRow == [NewRow(FALSE, FALSE) EXCEPT !.exists = FALSE]

(* A cached code and the registration whose data was cached when it was    *)
(* sent (history: the code itself does not say).                           *)
Otp == [code : Code, reg : Call]

(* A verification request; GONE is one that was deleted.                   *)
DocRow == [user : User \cup {None}, status : {"ABSENT", "PENDING", "APPROVED", "REJECTED", "GONE"},
           raced : BOOLEAN]  \* history: two decisions of it were in flight at once
NoDoc  == [user |-> None, status |-> "ABSENT", raced |-> FALSE]

BlacklistAction == {"ADDED", "REMOVED", "CONFISCATED"}
PauseAction     == {"PAUSED", "UNPAUSED"}
Event == [kind : BlacklistAction \cup PauseAction, wallet : Wallet \cup {None}]
Entry == [action : BlacklistAction, blocked : BOOLEAN]

(* The blacklist handler: its event, its user, the update that comes next. *)
Handler     == [kind : BlacklistAction, user : User \cup {None}, step : 0 .. 3]
IdleHandler == [kind |-> "ADDED", user |-> None, step |-> 0]

(* The points at which a request waits.                                    *)
Waiting == {"hash", "code", "burn", "data", "create", "drop", "google",
            "forgot", "reset", "session", "webhook", "review"}

Request == [pc   : Waiting \cup {"idle"},
            user : User \cup {None},
            id   : Call,                     \* its number
            read : Call,                     \* the registration or reset token it read
            code : Call,                     \* history: the registration whose code it confirmed
            doc  : Doc \cup {None},
            says : {"APPROVED", "REJECTED"}] \* the decision on doc

IdleRequest == [pc |-> "idle", user |-> None, id |-> 0, read |-> 0, code |-> 0,
                doc |-> None, says |-> "APPROVED"]

(* What may have happened to a user.                                       *)
Fact == {"google",     \* the account was made by Google
         "confirmed",  \* or by sign-up, after its code was confirmed ...
         "matched",    \* ... which was sent for the data the row was made of
         "crossed",    \* a sign-up request overlapped another one
         "cleared",    \* isVerified came true, by the sign-up data or a review
         "approved",   \* the provider approved a session opened for it
         "verified",   \* kycStatus was VERIFIED
         "listed",     \* an AddedToBlacklist of its wallet was taken ...
         "unlisted",   \* ... and a RemovedFromBlacklist
         "restarted",  \* a start was in flight while VERIFIED was written
         "served"}     \* a request behind KycVerifiedGuard was served

(* How a status of BLACKLISTED may have been written over while its entry  *)
(* stayed current.                                                         *)
Undoing == {"reopened",  \* by start or by the webhook
            "halved"}    \* by a removal cut off before it closed the entries
-----------------------------------------------------------------------------
Idle(r) == req[r].pc = "idle"

(* What a request of user u waiting at pc has read, to begin with.         *)
At(pc, u) == [IdleRequest EXCEPT !.pc = pc, !.user = u]

(* A request comes in, passes its guards and waits as q says.              *)
Begin(r, q) ==
  /\ Idle(r)
  /\ calls < MaxCalls /\ calls' = calls + 1
  /\ req' = [req EXCEPT ![r] = [q EXCEPT !.id = calls + 1]]

Goto(r, pc) == req' = [req EXCEPT ![r].pc = pc] /\ UNCHANGED calls
Respond(r)  == req' = [req EXCEPT ![r] = IdleRequest] /\ UNCHANGED calls

(* History: facts are noted of user u.                                     *)
Note(u, facts) == past' = [past EXCEPT ![u] = @ \cup facts]
When(condition, fact) == IF condition THEN {fact} ELSE {}

(* Another request of user u than r waits at one of the points in pcs.     *)
Another(r, u, pcs) == \E s \in Req \ {r} : req[s].user = u /\ req[s].pc \in pcs
=============================================================================
