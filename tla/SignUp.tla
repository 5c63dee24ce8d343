------------------------------- MODULE SignUp -------------------------------
(***************************************************************************)
(* AuthService and the users' own columns: registration with a code sent   *)
(* by mail, accounts made by Google, password recovery, the profile and    *)
(* the wallet.  A registration lives in the in-memory cache until its code *)
(* is confirmed; cached values expire after five minutes.                  *)
(***************************************************************************)
EXTENDS AccountState

SigningUp == {"hash", "code", "burn", "data", "create", "drop"}

(* A sign-up request begins; history notes that it overlaps another one.   *)
BeginSignUp(r, q) ==
  /\ Begin(r, q)
  /\ Note(q.user, When(Another(r, q.user, SigningUp), "crossed"))
-----------------------------------------------------------------------------
(* register: nobody has the e-mail; bcrypt hashes the password.            *)
StartRegister(r, u) ==
  /\ ~row[u].exists
  /\ BeginSignUp(r, At("hash", u))
  /\ UNCHANGED <<row, signUpVars, doc, listenVars, owner, spent, undone>>

(* Variant: data that is waiting is not replaced.                          *)
KeepPending(u, id) == IF signup[u] = 0 THEN id ELSE signup[u]

Pending(u, id) == id

(* register, the data goes to the cache.                                   *)
StoreSignup(r) ==
  LET u == req[r].user IN
  /\ req[r].pc = "hash"
  /\ signup' = [signup EXCEPT ![u] = Pending(u, req[r].id)]
  /\ req' = [req EXCEPT ![r].pc = "code", ![r].read = req[r].id]
  /\ UNCHANGED <<row, otp, doc, calls, listenVars, historyVars>>

(* resendSignupCode: there is data.                                        *)
StartResend(r, u) ==
  /\ signup[u] # 0
  /\ BeginSignUp(r, [At("code", u) EXCEPT !.read = signup[u]])
  /\ UNCHANGED <<row, signUpVars, doc, listenVars, owner, spent, undone>>

(* sendVerificationCode: a random code, over whatever was cached.  The     *)
(* mail that follows may fail, which changes nothing here.                 *)
SendCode(r) ==
  /\ req[r].pc = "code"
  /\ \E c \in Code : otp' = [otp EXCEPT ![req[r].user] = [code |-> c, reg |-> req[r].read]]
  /\ Respond(r)
  /\ UNCHANGED <<row, signup, doc, listenVars, historyVars>>

(* verifySignup: verifyCode compares the code ...                          *)
StartVerify(r, u, c) ==
  /\ otp[u] # None /\ otp[u].code = c
  /\ BeginSignUp(r, [At("burn", u) EXCEPT !.code = otp[u].reg])
  /\ UNCHANGED <<row, signUpVars, doc, listenVars, owner, spent, undone>>

(* ... deletes it, whatever it is by now ...                               *)
BurnCode(r) ==
  /\ req[r].pc = "burn"
  /\ otp' = [otp EXCEPT ![req[r].user] = None]
  /\ Goto(r, "data")
  /\ UNCHANGED <<row, signup, doc, listenVars, historyVars>>

(* ... and the data is read, if it has not expired.                        *)
ReadSignup(r) ==
  LET u == req[r].user IN
  /\ req[r].pc = "data"
  /\ \/ signup[u] = 0 /\ Respond(r)
     \/ /\ signup[u] # 0
        /\ req' = [req EXCEPT ![r].pc = "create", ![r].read = signup[u]]
        /\ UNCHANGED calls
  /\ UNCHANGED <<row, signUpVars, doc, listenVars, historyVars>>

Unlinked == {w \in Wallet : \A u \in User : row[u].wallet # w}

(* What the data of a sign-up may set of the new row.  The reset token is  *)
(* any text, and not unique: a number stands for the token of that request *)
(* or for some other text.                                                 *)
SignedUp(active, w, token, live) ==
  [NewRow(active, TRUE) EXCEPT !.wallet = w, !.token = token, !.live = live /\ token # 0]

(* verifySignup, usersService.create: e-mail and wallet are unique, so the *)
(* insert may be a conflict.                                               *)
CreateUser(r) ==
  LET u == req[r].user IN
  /\ req[r].pc = "create"
  /\ \/ Respond(r) /\ UNCHANGED <<row, past>>   \* conflict, or the insert fails
     \/ /\ ~row[u].exists
        /\ \E active \in BOOLEAN, w \in Unlinked \cup {None},
              token \in 0 .. req[r].id, live \in BOOLEAN :
             /\ row' = [row EXCEPT ![u] = SignedUp(active, w, token, live)]
             /\ Note(u, {"confirmed"} \cup When(active, "cleared")
                               \cup When(req[r].read = req[r].code, "matched"))
        /\ Goto(r, "drop")
  /\ UNCHANGED <<signUpVars, doc, listenVars, owner, spent, undone>>

(* verifySignup, the end: the cached data is deleted, the user logged in.  *)
DropSignup(r) ==
  /\ req[r].pc = "drop"
  /\ signup' = [signup EXCEPT ![req[r].user] = 0]
  /\ Respond(r)
  /\ UNCHANGED <<row, otp, doc, listenVars, historyVars>>

(* The five minutes of a cached value are over.                            *)
Expire(u) ==
  /\ \/ otp[u] # None /\ otp' = [otp EXCEPT ![u] = None] /\ UNCHANGED signup
     \/ signup[u] # 0 /\ signup' = [signup EXCEPT ![u] = 0] /\ UNCHANGED otp
  /\ UNCHANGED <<row, doc, req, calls, listenVars, historyVars>>
-----------------------------------------------------------------------------
(* validateUserByGoogle: nobody has the e-mail ...                         *)
StartGoogle(r, u) ==
  /\ ~row[u].exists
  /\ Begin(r, At("google", u))
  /\ UNCHANGED <<row, signUpVars, doc, listenVars, historyVars>>

(* ... or somebody has it by now, and the insert is a conflict.            *)
GoogleCreate(r) ==
  LET u == req[r].user IN
  /\ req[r].pc = "google"
  /\ \/ row[u].exists /\ UNCHANGED <<row, past>>
     \/ /\ ~row[u].exists
        /\ row' = [row EXCEPT ![u] = NewRow(FALSE, FALSE)]
        /\ Note(u, {"google"})
  /\ Respond(r)
  /\ UNCHANGED <<signUpVars, doc, listenVars, owner, spent, undone>>

(* completeProfile: a password, meant for an account that Google made.     *)
CompleteProfile(u) ==
  /\ row[u].exists
  /\ row' = [row EXCEPT ![u].hasPass = TRUE]
  /\ UNCHANGED <<signUpVars, doc, req, calls, listenVars, historyVars>>

(* linkWallet: the password is checked, and no other user has the wallet.  *)
LinkWallet(u, w) ==
  /\ row[u].hasPass /\ w \in Unlinked
  /\ calls < MaxCalls /\ calls' = calls + 1
  /\ row' = [row EXCEPT ![u].wallet = w]
  /\ UNCHANGED <<signUpVars, doc, req, listenVars, historyVars>>
-----------------------------------------------------------------------------
(* forgotPassword: the user exists ...                                     *)
StartForgot(r, u) ==
  /\ row[u].exists
  /\ Begin(r, At("forgot", u))
  /\ UNCHANGED <<row, signUpVars, doc, listenVars, historyVars>>

(* ... and gets a new token for an hour.                                   *)
SaveToken(r) ==
  /\ req[r].pc = "forgot"
  /\ row' = [row EXCEPT ![req[r].user].token = req[r].id, ![req[r].user].live = TRUE]
  /\ Respond(r)
  /\ UNCHANGED <<signUpVars, doc, listenVars, historyVars>>

ExpireToken(u) ==
  /\ row[u].live
  /\ row' = [row EXCEPT ![u].live = FALSE]
  /\ UNCHANGED <<signUpVars, doc, req, calls, listenVars, historyVars>>

(* resetPassword: u is a user with that token, the first that is found,    *)
(* and it has not expired; bcrypt hashes the new password.                 *)
StartReset(r, u) ==
  /\ row[u].token # 0 /\ row[u].live
  /\ Begin(r, [At("reset", u) EXCEPT !.read = row[u].token])
  /\ UNCHANGED <<row, signUpVars, doc, listenVars, historyVars>>

(* Variant: the token is left in the row.                                  *)
KeptToken(u) == row[u].token

TokenAfterReset(u) == 0

(* resetPassword, the update: by id, whatever token the row has by now.    *)
FinishReset(r) ==
  LET u == req[r].user IN
  /\ req[r].pc = "reset"
  /\ row' = [row EXCEPT ![u].hasPass = TRUE, ![u].token = TokenAfterReset(u), ![u].live = FALSE]
  /\ spent' = spent \cup {<<u, req[r].read>>}
  /\ Respond(r)
  /\ UNCHANGED <<signUpVars, doc, listenVars, past, owner, undone>>
=============================================================================
