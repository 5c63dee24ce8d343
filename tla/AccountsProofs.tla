--------------------------- MODULE AccountsProofs ---------------------------
(***************************************************************************)
(* The types of the accounts, for any number of users, wallets, documents, *)
(* requests and events.                                                    *)
(***************************************************************************)
EXTENDS Accounts, TLAPS

(* Whoever is being served is a user, and requests are numbered as they    *)
(* come in.                                                                *)
Serving ==
  \A r \in Req : req[r].pc # "idle" => req[r].user \in User /\ req[r].id \in 1 .. calls

(* A review has a document, and a document its user.                       *)
Reviewing ==
  /\ \A r \in Req : req[r].pc = "review" => req[r].doc \in Doc /\ doc[req[r].doc].status # "ABSENT"
  /\ \A q \in Doc : doc[q].status # "ABSENT" => doc[q].user \in User

(* The handler of the listener is at one of its updates.                   *)
Handling == ev.step # 0 => ev.user \in User /\ ev.step \in DOMAIN Writes(ev.kind)

TypeInv == TypeOK /\ Serving /\ Reviewing /\ Handling
-----------------------------------------------------------------------------
(* The constants and the small records are what they look like.            *)
LEMMA Constant ==
  /\ MaxCalls \in Nat /\ None \notin User /\ 0 \in Call /\ Call \subseteq Nat
  /\ NoRow \in Row /\ IdleRequest \in Request /\ IdleHandler \in Handler /\ NoDoc \in DocRow
  /\ \A a, p \in BOOLEAN : NewRow(a, p) \in Row
<1>1. MaxCalls \in Nat /\ None \notin User /\ 0 \in Call /\ Call \subseteq Nat
  BY AccountAssumption DEF Call
<1>2. \A a, p \in BOOLEAN : NewRow(a, p) \in Row
  BY <1>1 DEF NewRow, Row, KycStatus
<1>3. NoRow \in Row
  <2>1. NewRow(FALSE, FALSE) \in Row
    BY <1>2
  <2> QED
    BY <2>1 DEF NoRow, Row
<1>4. IdleRequest \in Request
  BY <1>1 DEF IdleRequest, Request
<1>5. IdleHandler \in Handler /\ NoDoc \in DocRow
  BY DEF IdleHandler, Handler, BlacklistAction, NoDoc, DocRow
<1> QED
  BY <1>1, <1>2, <1>3, <1>4, <1>5

(* The updates a handler of an event makes.                                *)
LEMMA HandlerWrites ==
  ASSUME NEW kind \in BlacklistAction
  PROVE  /\ Len(Writes(kind)) \in 1 .. 3
         /\ DOMAIN Writes(kind) = 1 .. Len(Writes(kind))
         /\ \A i \in DOMAIN Writes(kind) : Writes(kind)[i] \in {"status", "close", "entry"}
<1>1. CASE kind = "ADDED"
  <2>1. Writes(kind) = <<"status", "entry">>
    BY <1>1 DEF Writes
  <2> QED
    BY <2>1
<1>2. CASE kind = "REMOVED"
  <2>1. Writes(kind) = <<"status", "close", "entry">>
    BY <1>2 DEF Writes
  <2> QED
    BY <2>1
<1>3. CASE kind = "CONFISCATED"
  <2>1. Writes(kind) = <<"entry">>
    BY <1>3 DEF Writes
  <2> QED
    BY <2>1
<1> QED
  BY <1>1, <1>2, <1>3 DEF BlacklistAction

(* The handler goes on to one of its updates.                              *)
LEMMA Proceeds ==
  ASSUME TypeInv, NEW write, IsNext(write), Proceed
  PROVE  ev.user \in User /\ ev.step # 0 /\ ev' \in Handler /\ Handling'
<1>1. /\ ev \in Handler /\ ev.step \in DOMAIN Writes(ev.kind)
      /\ ev.kind \in BlacklistAction
  BY DEF TypeInv, TypeOK, Handler, IsNext
<1>2. /\ Len(Writes(ev.kind)) \in 1 .. 3
      /\ DOMAIN Writes(ev.kind) = 1 .. Len(Writes(ev.kind))
  BY <1>1, HandlerWrites
<1>3. ev.step # 0 /\ ev.user \in User
  BY <1>1, <1>2 DEF TypeInv, Handling
<1>4. CASE ev.step = Len(Writes(ev.kind))
  BY <1>3, <1>4, Constant DEF Proceed, Handling, IdleHandler
<1>5. CASE ev.step # Len(Writes(ev.kind))
  <2>1. ev' = [ev EXCEPT !.step = @ + 1] /\ ev.step + 1 \in 1 .. Len(Writes(ev.kind))
    BY <1>1, <1>2, <1>5 DEF Proceed
  <2>2. ev.step + 1 \in 0 .. 3
    <3>1. \A l \in 1 .. 3 : \A i \in 1 .. l : i \in 0 .. 3
      OBVIOUS
    <3> QED
      BY <1>2, <2>1, <3>1
  <2>3. ev'.kind = ev.kind /\ ev'.user = ev.user /\ ev'.step = ev.step + 1 /\ ev' \in Handler
    BY <1>1, <2>1, <2>2 DEF Handler
  <2> QED
    BY <1>1, <1>2, <1>3, <2>1, <2>3 DEF TypeInv, Handling, Handler
<1> QED
  BY <1>4, <1>5, <1>3

(* The fields of a row that a step sets.                                   *)
LEMMA RowFields ==
  ASSUME NEW x \in Row
  PROVE  /\ \A w \in Wallet \cup {None} : [x EXCEPT !.wallet = w] \in Row
         /\ \A b \in BOOLEAN : [x EXCEPT !.active = b] \in Row
         /\ \A k \in KycStatus : [x EXCEPT !.kyc = k] \in Row
         /\ \A k \in KycStatus, s \in Call : [x EXCEPT !.kyc = k, !.session = s] \in Row
         /\ [x EXCEPT !.hasPass = TRUE] \in Row
         /\ [x EXCEPT !.live = FALSE] \in Row
         /\ \A t \in Call : [x EXCEPT !.token = t, !.live = TRUE] \in Row
         /\ \A t \in Call : [x EXCEPT !.hasPass = TRUE, !.token = t, !.live = FALSE] \in Row
BY DEF Row

(* A request that begins, goes on or ends leaves requests behind.          *)
LEMMA RequestBegins ==
  ASSUME TypeInv, NEW r \in Req, NEW q \in Request, Begin(r, q), q.user \in User,
         q.pc = "review" => q.doc \in Doc /\ doc[q.doc].status # "ABSENT"
  PROVE  /\ req' \in [Req -> Request] /\ calls' \in Call
         /\ calls' = calls + 1 /\ req'[r] = [q EXCEPT !.id = calls + 1]
         /\ \A s \in Req : s # r => req'[s] = req[s]
         /\ Serving'
         /\ \A s \in Req : req'[s].pc = "review" =>
              req'[s].doc \in Doc /\ doc[req'[s].doc].status # "ABSENT"
<1>1. calls + 1 \in Call /\ calls' = calls + 1 /\ calls \in Nat
  BY Constant DEF TypeInv, TypeOK, Begin, Call
<1>2. [q EXCEPT !.id = calls + 1] \in Request
  BY <1>1 DEF Request
<1>3. req' = [req EXCEPT ![r] = [q EXCEPT !.id = calls + 1]]
  BY DEF Begin
<1>4. req' \in [Req -> Request] /\ req'[r] = [q EXCEPT !.id = calls + 1]
      /\ \A s \in Req : s # r => req'[s] = req[s]
  BY <1>2, <1>3 DEF TypeInv, TypeOK
<1>5. req'[r].pc = q.pc /\ req'[r].user = q.user /\ req'[r].id = calls + 1 /\ req'[r].doc = q.doc
  BY <1>4 DEF Request
<1>6. Serving'
  <2>1. \A i \in 1 .. calls : i \in 1 .. calls + 1
    BY <1>1
  <2>2. calls + 1 \in 1 .. calls + 1
    BY <1>1
  <2> QED
    BY <1>1, <1>4, <1>5, <2>1, <2>2 DEF TypeInv, Serving
<1> QED
  BY <1>1, <1>4, <1>5, <1>6 DEF TypeInv, Reviewing

LEMMA RequestMoves ==
  ASSUME TypeInv, NEW r \in Req, NEW q \in Request, req' = [req EXCEPT ![r] = q], calls' = calls,
         q.pc # "idle" => q.user \in User /\ q.id \in 1 .. calls,
         q.pc = "review" => q.doc \in Doc /\ doc[q.doc].status # "ABSENT"
  PROVE  /\ req' \in [Req -> Request] /\ req'[r] = q
         /\ \A s \in Req : s # r => req'[s] = req[s]
         /\ Serving'
         /\ \A s \in Req : req'[s].pc = "review" =>
              req'[s].doc \in Doc /\ doc[req'[s].doc].status # "ABSENT"
<1>1. req' \in [Req -> Request] /\ req'[r] = q /\ \A s \in Req : s # r => req'[s] = req[s]
  BY DEF TypeInv, TypeOK
<1>2. Serving'
  BY <1>1 DEF TypeInv, Serving
<1> QED
  BY <1>1, <1>2 DEF TypeInv, Reviewing

LEMMA Responds ==
  ASSUME TypeInv, NEW r \in Req, Respond(r)
  PROVE  /\ req' \in [Req -> Request] /\ req'[r] = IdleRequest /\ calls' = calls
         /\ \A s \in Req : s # r => req'[s] = req[s]
         /\ Serving'
         /\ \A s \in Req : req'[s].pc = "review" =>
              req'[s].doc \in Doc /\ doc[req'[s].doc].status # "ABSENT"
<1>1. IdleRequest \in Request /\ IdleRequest.pc = "idle"
  BY Constant DEF IdleRequest
<1> QED
  BY <1>1, RequestMoves DEF Respond

(* What a request waiting at pc has read to begin with.                    *)
LEMMA Waits ==
  ASSUME NEW pc \in Waiting, NEW u \in User
  PROVE  At(pc, u) \in Request /\ At(pc, u).pc = pc /\ At(pc, u).user = u
BY Constant DEF At, IdleRequest, Request, Call

(* Facts are only added, and only to one user.                             *)
LEMMA Noted ==
  ASSUME TypeInv, NEW u \in User, NEW facts \in SUBSET Fact, Note(u, facts)
  PROVE  /\ past' \in [User -> SUBSET Fact]
         /\ past'[u] = past[u] \cup facts
         /\ \A v \in User : v # u => past'[v] = past[v]
BY DEF TypeInv, TypeOK, Note

(* How a BLACKLISTED of one user, or of all, was written over is added to. *)
LEMMA Reopens ==
  ASSUME TypeInv, NEW u \in User, Reopen(u)
  PROVE  /\ undone' \in [User -> SUBSET Undoing]
         /\ \A v \in User : undone[v] \subseteq undone'[v]
         /\ row[u].kyc = "BLACKLISTED" => undone'[u] # {}
BY DEF TypeInv, TypeOK, Reopen, When, Undoing

LEMMA CutsOff ==
  ASSUME TypeInv, CutOff
  PROVE  /\ ev' = IdleHandler
         /\ undone' \in [User -> SUBSET Undoing]
         /\ \A v \in User : undone[v] \subseteq undone'[v]
         /\ \A v \in User : HalfRemoved(v) => undone'[v] # {}
BY DEF TypeInv, TypeOK, CutOff, When, Undoing
-----------------------------------------------------------------------------
LEMMA TypeInit == Init => TypeInv
<1> SUFFICES ASSUME Init PROVE TypeInv
  OBVIOUS
<1> USE Constant DEF Init
<1>1. row \in [User -> Row] /\ otp \in [User -> Otp \cup {None}] /\ signup \in [User -> Call]
  OBVIOUS
<1>2. doc \in [Doc -> DocRow] /\ req \in [Req -> Request]
  OBVIOUS
<1>3. log \in Seq(Event) /\ heard \in 0 .. Len(log) /\ entry \in [User -> Seq(Entry)]
  OBVIOUS
<1>4. /\ past \in [User -> SUBSET Fact] /\ owner \in [Call -> User \cup {None}] /\ spent \subseteq User \X Call
      /\ undone \in [User -> SUBSET Undoing]
  BY DEF Fact
<1>5. Serving /\ Reviewing /\ Handling
  BY DEF Serving, Reviewing, Handling, IdleRequest, NoDoc, IdleHandler
<1>6. calls \in Call
  BY DEF Call
<1> QED
  BY <1>1, <1>2, <1>3, <1>4, <1>5, <1>6 DEF TypeInv, TypeOK

(* Every step keeps the types; under each action are the variables it sets *)
(* to something new.                                                       *)
LEMMA TypeStep == TypeInv /\ [Next]_vars => TypeInv'
<1> SUFFICES ASSUME TypeInv, [Next]_vars PROVE TypeInv'
  OBVIOUS
<1> USE Constant
<1> USE DEF signUpVars, listenVars, historyVars
<1>1. ASSUME NEW r \in Req, NEW u \in User, StartRegister(r, u) PROVE TypeInv'
  <2> DEFINE q == At("hash", u)
  <2>1. q \in Request /\ q.user = u /\ (q.pc # "review")
    <3>1. "hash" \in Waiting
      BY DEF Waiting
    <3> QED
      BY <3>1, Waits
  <2>2. Begin(r, q) /\ Note(u, When(Another(r, u, SigningUp), "crossed"))
    BY <1>1, <2>1 DEF StartRegister, BeginSignUp
  <2> HIDE DEF q
  <2>3. /\ req' \in [Req -> Request] /\ calls' \in Call /\ Serving'
        /\ \A s \in Req : req'[s].pc = "review" =>
             req'[s].doc \in Doc /\ doc[req'[s].doc].status # "ABSENT"
    BY <2>1, <2>2, RequestBegins
  <2>4. past' \in [User -> SUBSET Fact]
    <3>1. When(Another(r, u, SigningUp), "crossed") \in SUBSET Fact
      BY DEF When, Fact
    <3> QED
      BY <2>2, <3>1, Noted
  <2> QED
    BY <1>1, <2>3, <2>4 DEF StartRegister, TypeInv, TypeOK, Reviewing, Handling
<1>2. ASSUME NEW r \in Req, NEW u \in User, StartResend(r, u) PROVE TypeInv'
  <2>0. signup[u] \in Call
    BY DEF TypeInv, TypeOK
  <2> DEFINE q == [At("code", u) EXCEPT !.read = signup[u]]
  <2>1. q \in Request /\ q.user = u /\ (q.pc # "review")
    <3>1. "code" \in Waiting
      BY DEF Waiting
    <3> QED
      BY <3>1, Waits, <2>0 DEF Request
  <2>2. Begin(r, q) /\ Note(u, When(Another(r, u, SigningUp), "crossed"))
    BY <1>2, <2>1 DEF StartResend, BeginSignUp
  <2> HIDE DEF q
  <2>3. /\ req' \in [Req -> Request] /\ calls' \in Call /\ Serving'
        /\ \A s \in Req : req'[s].pc = "review" =>
             req'[s].doc \in Doc /\ doc[req'[s].doc].status # "ABSENT"
    BY <2>1, <2>2, RequestBegins, <2>0
  <2>4. past' \in [User -> SUBSET Fact]
    <3>1. When(Another(r, u, SigningUp), "crossed") \in SUBSET Fact
      BY DEF When, Fact
    <3> QED
      BY <2>2, <3>1, Noted
  <2> QED
    BY <1>2, <2>3, <2>4 DEF StartResend, TypeInv, TypeOK, Reviewing, Handling
<1>3. ASSUME NEW r \in Req, NEW u \in User, NEW c \in Code, StartVerify(r, u, c) PROVE TypeInv'
  <2>0. otp[u].reg \in Call
    BY <1>3 DEF StartVerify, TypeInv, TypeOK, Otp
  <2> DEFINE q == [At("burn", u) EXCEPT !.code = otp[u].reg]
  <2>1. q \in Request /\ q.user = u /\ (q.pc # "review")
    <3>1. "burn" \in Waiting
      BY DEF Waiting
    <3> QED
      BY <3>1, Waits, <2>0 DEF Request
  <2>2. Begin(r, q) /\ Note(u, When(Another(r, u, SigningUp), "crossed"))
    BY <1>3, <2>1 DEF StartVerify, BeginSignUp
  <2> HIDE DEF q
  <2>3. /\ req' \in [Req -> Request] /\ calls' \in Call /\ Serving'
        /\ \A s \in Req : req'[s].pc = "review" =>
             req'[s].doc \in Doc /\ doc[req'[s].doc].status # "ABSENT"
    BY <2>1, <2>2, RequestBegins, <2>0
  <2>4. past' \in [User -> SUBSET Fact]
    <3>1. When(Another(r, u, SigningUp), "crossed") \in SUBSET Fact
      BY DEF When, Fact
    <3> QED
      BY <2>2, <3>1, Noted
  <2> QED
    BY <1>3, <2>3, <2>4 DEF StartVerify, TypeInv, TypeOK, Reviewing, Handling
<1>4. ASSUME NEW r \in Req, NEW u \in User, StartGoogle(r, u) PROVE TypeInv'
  <2> DEFINE q == At("google", u)
  <2>1. q \in Request /\ q.user = u /\ (q.pc # "review")
    <3>1. "google" \in Waiting
      BY DEF Waiting
    <3> QED
      BY <3>1, Waits
  <2>2. Begin(r, q)
    BY <1>4, <2>1 DEF StartGoogle
  <2> HIDE DEF q
  <2>3. /\ req' \in [Req -> Request] /\ calls' \in Call /\ Serving'
        /\ \A s \in Req : req'[s].pc = "review" =>
             req'[s].doc \in Doc /\ doc[req'[s].doc].status # "ABSENT"
    BY <2>1, <2>2, RequestBegins
  <2> QED
    BY <1>4, <2>3 DEF StartGoogle, TypeInv, TypeOK, Reviewing, Handling
<1>5. ASSUME NEW r \in Req, NEW u \in User, StartForgot(r, u) PROVE TypeInv'
  <2> DEFINE q == At("forgot", u)
  <2>1. q \in Request /\ q.user = u /\ (q.pc # "review")
    <3>1. "forgot" \in Waiting
      BY DEF Waiting
    <3> QED
      BY <3>1, Waits
  <2>2. Begin(r, q)
    BY <1>5, <2>1 DEF StartForgot
  <2> HIDE DEF q
  <2>3. /\ req' \in [Req -> Request] /\ calls' \in Call /\ Serving'
        /\ \A s \in Req : req'[s].pc = "review" =>
             req'[s].doc \in Doc /\ doc[req'[s].doc].status # "ABSENT"
    BY <2>1, <2>2, RequestBegins
  <2> QED
    BY <1>5, <2>3 DEF StartForgot, TypeInv, TypeOK, Reviewing, Handling
<1>6. ASSUME NEW r \in Req, NEW u \in User, StartReset(r, u) PROVE TypeInv'
  <2>0. row[u].token \in Call
    BY DEF TypeInv, TypeOK, Row
  <2> DEFINE q == [At("reset", u) EXCEPT !.read = row[u].token]
  <2>1. q \in Request /\ q.user = u /\ (q.pc # "review")
    <3>1. "reset" \in Waiting
      BY DEF Waiting
    <3> QED
      BY <3>1, Waits, <2>0 DEF Request
  <2>2. Begin(r, q)
    BY <1>6, <2>1 DEF StartReset
  <2> HIDE DEF q
  <2>3. /\ req' \in [Req -> Request] /\ calls' \in Call /\ Serving'
        /\ \A s \in Req : req'[s].pc = "review" =>
             req'[s].doc \in Doc /\ doc[req'[s].doc].status # "ABSENT"
    BY <2>1, <2>2, RequestBegins, <2>0
  <2> QED
    BY <1>6, <2>3 DEF StartReset, TypeInv, TypeOK, Reviewing, Handling
<1>7. ASSUME NEW r \in Req, NEW u \in User, StartKyc(r, u) PROVE TypeInv'
  <2> DEFINE q == At("session", u)
  <2>1. q \in Request /\ q.user = u /\ (q.pc # "review")
    <3>1. "session" \in Waiting
      BY DEF Waiting
    <3> QED
      BY <3>1, Waits
  <2>2. Begin(r, q)
    BY <1>7, <2>1 DEF StartKyc
  <2> HIDE DEF q
  <2>3. /\ req' \in [Req -> Request] /\ calls' \in Call /\ Serving'
        /\ \A s \in Req : req'[s].pc = "review" =>
             req'[s].doc \in Doc /\ doc[req'[s].doc].status # "ABSENT"
    BY <2>1, <2>2, RequestBegins
  <2> QED
    BY <1>7, <2>3 DEF StartKyc, TypeInv, TypeOK, Reviewing, Handling
<1>8. ASSUME NEW r \in Req, NEW s \in Call, NEW says \in {"approved", "declined"}, StartWebhook(r, s, says) PROVE TypeInv'
  <2>1. owner[s] \in User
    BY <1>8 DEF StartWebhook, TypeInv, TypeOK
  <2>2. past' \in [User -> SUBSET Fact]
    <3>1. When(says = "approved", "approved") \in SUBSET Fact
      BY DEF When, Fact
    <3> QED
      BY <1>8, <2>1, <3>1, Noted DEF StartWebhook
  <2>3. PICK u \in User : Begin(r, At("webhook", u))
    BY <1>8 DEF StartWebhook
  <2> DEFINE q == At("webhook", u)
  <2>4. q \in Request /\ q.user = u /\ q.pc = "webhook"
    <3>1. "webhook" \in Waiting
      BY DEF Waiting
    <3> QED
      BY <3>1, Waits
  <2> HIDE DEF q
  <2>5. /\ req' \in [Req -> Request] /\ calls' \in Call /\ Serving'
        /\ \A t \in Req : req'[t].pc = "review" =>
             req'[t].doc \in Doc /\ doc[req'[t].doc].status # "ABSENT"
    BY <2>3, <2>4, RequestBegins DEF q
  <2> QED
    BY <1>8, <2>2, <2>5 DEF StartWebhook, TypeInv, TypeOK, Reviewing, Handling
<1>9. ASSUME NEW r \in Req, NEW q \in Doc, NEW says \in {"APPROVED", "REJECTED"}, StartReview(r, q, says) PROVE TypeInv'
  <2>1. doc[q].user \in User
    BY <1>9 DEF StartReview, MayDecide, TypeInv, Reviewing
  <2> DEFINE x == [At("review", doc[q].user) EXCEPT !.doc = q, !.says = says]
  <2>2. x \in Request /\ x.user = doc[q].user /\ x.doc = q
    <3>1. "review" \in Waiting
      BY DEF Waiting
    <3> QED
      <4>1. At("review", doc[q].user) \in Request /\ At("review", doc[q].user).user = doc[q].user
        BY <2>1, <3>1, Waits
      <4> QED
        BY <4>1 DEF Request
  <2>3. Begin(r, x)
    BY <1>9 DEF StartReview
  <2> HIDE DEF x
  <2>4. /\ req' \in [Req -> Request] /\ calls' \in Call /\ Serving'
        /\ \A s \in Req : req'[s].pc = "review" =>
             req'[s].doc \in Doc /\ doc[req'[s].doc].status # "ABSENT"
    BY <1>9, <2>1, <2>2, <2>3, RequestBegins DEF StartReview, MayDecide
  <2>5. doc' \in [Doc -> DocRow] /\ \A p \in Doc : doc'[p].user = doc[p].user /\ doc'[p].status = doc[p].status
    <3> DEFINE raced == \E s \in Req : req[s].pc = "review" /\ req[s].doc = q
    <3>1. raced \in BOOLEAN /\ doc' = [doc EXCEPT ![q].raced = @ \/ raced]
      BY <1>9 DEF StartReview
    <3> HIDE DEF raced
    <3> QED
      BY <3>1 DEF TypeInv, TypeOK, DocRow
  <2> QED
    BY <1>9, <2>4, <2>5 DEF StartReview, TypeInv, TypeOK, Reviewing, Handling
<1>10. ASSUME NEW r \in Req, StoreSignup(r) PROVE TypeInv'
  <2> DEFINE q == [req[r] EXCEPT !.pc = "code", !.read = req[r].id]
  <2>1. q \in Request /\ q.pc \notin {"idle", "review"} /\ q.user \in User /\ q.id \in 1 .. calls
    BY <1>10 DEF StoreSignup, TypeInv, TypeOK, Serving, Request, Waiting, Call
  <2>2. req' = [req EXCEPT ![r] = q] /\ calls' = calls
    BY <1>10 DEF StoreSignup, TypeInv, TypeOK
  <2> HIDE DEF q
  <2>3. /\ req' \in [Req -> Request] /\ calls' \in Call /\ Serving'
        /\ \A s \in Req : req'[s].pc = "review" =>
             req'[s].doc \in Doc /\ doc[req'[s].doc].status # "ABSENT"
    BY <2>1, <2>2, RequestMoves DEF TypeInv, TypeOK
  <2>4. signup' \in [User -> Call]
    BY <1>10 DEF StoreSignup, Pending, TypeInv, TypeOK, Request
  <2> QED
    BY <1>10, <2>3, <2>4 DEF StoreSignup, TypeInv, TypeOK, Reviewing, Handling
<1>11. ASSUME NEW r \in Req, BurnCode(r) PROVE TypeInv'
  <2> DEFINE q == [req[r] EXCEPT !.pc = "data"]
  <2>1. q \in Request /\ q.pc \notin {"idle", "review"} /\ q.user \in User /\ q.id \in 1 .. calls
    BY <1>11 DEF BurnCode, TypeInv, TypeOK, Serving, Request, Waiting, Call
  <2>2. req' = [req EXCEPT ![r] = q] /\ calls' = calls
    BY <1>11 DEF BurnCode, Goto, TypeInv, TypeOK
  <2> HIDE DEF q
  <2>3. /\ req' \in [Req -> Request] /\ calls' \in Call /\ Serving'
        /\ \A s \in Req : req'[s].pc = "review" =>
             req'[s].doc \in Doc /\ doc[req'[s].doc].status # "ABSENT"
    BY <2>1, <2>2, RequestMoves DEF TypeInv, TypeOK
  <2>4. otp' \in [User -> Otp \cup {None}]
    BY <1>11 DEF BurnCode, TypeInv, TypeOK
  <2> QED
    BY <1>11, <2>3, <2>4 DEF BurnCode, TypeInv, TypeOK, Reviewing, Handling
<1>12. ASSUME NEW r \in Req, ReadSignup(r) PROVE TypeInv'
  <2>1. req[r].user \in User /\ req[r].id \in 1 .. calls
    BY <1>12 DEF ReadSignup, TypeInv, Serving
  <2>2. CASE Respond(r)
    BY <1>12, <2>2, Responds DEF ReadSignup, TypeInv, TypeOK, Reviewing, Handling
  <2>3. CASE req' = [req EXCEPT ![r].pc = "create", ![r].read = signup[req[r].user]] /\ UNCHANGED calls
    <3> DEFINE q == [req[r] EXCEPT !.pc = "create", !.read = signup[req[r].user]]
    <3>1. q \in Request /\ q.pc = "create" /\ q.user = req[r].user /\ q.id = req[r].id
      BY <2>1 DEF TypeInv, TypeOK, Request, Waiting
    <3>2. req' = [req EXCEPT ![r] = q] /\ calls' = calls
      BY <2>3 DEF TypeInv, TypeOK
    <3> HIDE DEF q
    <3>3. /\ req' \in [Req -> Request] /\ calls' \in Call /\ Serving'
        /\ \A s \in Req : req'[s].pc = "review" =>
             req'[s].doc \in Doc /\ doc[req'[s].doc].status # "ABSENT"
      BY <2>1, <3>1, <3>2, RequestMoves DEF TypeInv, TypeOK
    <3> QED
      BY <1>12, <3>3 DEF ReadSignup, TypeInv, TypeOK, Reviewing, Handling
  <2> QED
    BY <1>12, <2>2, <2>3 DEF ReadSignup
<1>13. ASSUME NEW r \in Req, CreateUser(r) PROVE TypeInv'
  <2>1. req[r].user \in User /\ req[r].id \in 1 .. calls
    BY <1>13 DEF CreateUser, TypeInv, Serving
  <2>2. CASE Respond(r) /\ UNCHANGED <<row, past>>
    BY <1>13, <2>2, Responds DEF CreateUser, TypeInv, TypeOK, Reviewing, Handling
  <2>3. ASSUME NEW active \in BOOLEAN, NEW w \in Unlinked \cup {None},
               NEW token \in 0 .. req[r].id, NEW live \in BOOLEAN,
               row' = [row EXCEPT ![req[r].user] = SignedUp(active, w, token, live)],
               Note(req[r].user, {"confirmed"} \cup When(active, "cleared")
                                   \cup When(req[r].read = req[r].code, "matched")),
               Goto(r, "drop")
        PROVE  TypeInv'
    <3>1. SignedUp(active, w, token, live) \in Row
      <4>0. NewRow(active, TRUE) \in Row /\ w \in Wallet \cup {None}
        BY DEF Unlinked
      <4>1. token \in Call
        BY <2>1, AccountAssumption DEF Call, TypeInv, TypeOK
      <4> QED
        BY <4>0, <4>1 DEF SignedUp, Row
    <3>2. row' \in [User -> Row]
      BY <2>3, <3>1 DEF TypeInv, TypeOK
    <3>3. past' \in [User -> SUBSET Fact]
      <4>1. {"confirmed"} \cup When(active, "cleared")
              \cup When(req[r].read = req[r].code, "matched") \in SUBSET Fact
        BY DEF When, Fact
      <4> QED
        BY <2>1, <2>3, <4>1, Noted
    <3> DEFINE q == [req[r] EXCEPT !.pc = "drop"]
    <3>4. q \in Request /\ q.pc = "drop" /\ q.user = req[r].user /\ q.id = req[r].id
      BY DEF TypeInv, TypeOK, Request, Waiting
    <3>5. req' = [req EXCEPT ![r] = q] /\ calls' = calls
      BY <2>3 DEF Goto, TypeInv, TypeOK
    <3> HIDE DEF q
    <3>6. /\ req' \in [Req -> Request] /\ calls' \in Call /\ Serving'
        /\ \A s \in Req : req'[s].pc = "review" =>
             req'[s].doc \in Doc /\ doc[req'[s].doc].status # "ABSENT"
      BY <2>1, <3>4, <3>5, RequestMoves DEF TypeInv, TypeOK
    <3> QED
      BY <1>13, <3>2, <3>3, <3>6 DEF CreateUser, TypeInv, TypeOK, Reviewing, Handling
  <2> QED
    BY <1>13, <2>2, <2>3 DEF CreateUser
<1>14. ASSUME NEW r \in Req, SendCode(r) PROVE TypeInv'
  <2>1. otp' \in [User -> Otp \cup {None}]
    <3>1. PICK c \in Code : otp' = [otp EXCEPT ![req[r].user] = [code |-> c, reg |-> req[r].read]]
      BY <1>14 DEF SendCode
    <3>2. [code |-> c, reg |-> req[r].read] \in Otp
      BY DEF TypeInv, TypeOK, Request, Otp
    <3> QED
      BY <3>1, <3>2 DEF TypeInv, TypeOK
  <2> QED
    BY <1>14, <2>1, Responds DEF SendCode, TypeInv, TypeOK, Reviewing, Handling
<1>15. ASSUME NEW r \in Req, DropSignup(r) PROVE TypeInv'
  BY <1>15, Responds DEF DropSignup, TypeInv, TypeOK, Reviewing, Handling
<1>16. ASSUME NEW r \in Req, GoogleCreate(r) PROVE TypeInv'
  <2>1. req[r].user \in User
    BY <1>16 DEF GoogleCreate, TypeInv, Serving
  <2>2. row' \in [User -> Row]
    BY <1>16, <2>1 DEF GoogleCreate, TypeInv, TypeOK
  <2>3. past' \in [User -> SUBSET Fact]
    <3>1. {"google"} \in SUBSET Fact
      BY DEF Fact
    <3> QED
      BY <1>16, <2>1, <3>1, Noted DEF GoogleCreate, TypeInv, TypeOK
  <2> QED
    BY <1>16, <2>2, <2>3, Responds DEF GoogleCreate, TypeInv, TypeOK, Reviewing, Handling
<1>17. ASSUME NEW r \in Req, SaveToken(r) PROVE TypeInv'
  <2>1. req[r].user \in User /\ row[req[r].user] \in Row /\ req[r].id \in Call /\ req[r].read \in Call
    BY <1>17 DEF SaveToken, TypeInv, TypeOK, Serving, Request
  <2> DEFINE x == [row[req[r].user] EXCEPT !.token = req[r].id, !.live = TRUE]
  <2>2. x \in Row
    BY <2>1, RowFields DEF KycStatus
  <2>3. row' = [row EXCEPT ![req[r].user] = x]
    BY <1>17 DEF SaveToken, TypeInv, TypeOK
  <2>4. row' \in [User -> Row]
    BY <2>2, <2>3 DEF TypeInv, TypeOK
  <2> HIDE DEF x
  <2> QED
    BY <1>17, <2>1, <2>4, Responds DEF SaveToken, TypeInv, TypeOK, Reviewing, Handling
<1>18. ASSUME NEW r \in Req, FinishReset(r) PROVE TypeInv'
  <2>1. req[r].user \in User /\ row[req[r].user] \in Row /\ req[r].id \in Call /\ req[r].read \in Call
    BY <1>18 DEF FinishReset, TypeInv, TypeOK, Serving, Request
  <2> DEFINE x == [row[req[r].user] EXCEPT !.hasPass = TRUE, !.token = 0, !.live = FALSE]
  <2>2. x \in Row
    BY <2>1, RowFields DEF KycStatus
  <2>3. row' = [row EXCEPT ![req[r].user] = x]
    BY <1>18 DEF FinishReset, TokenAfterReset, TypeInv, TypeOK
  <2>4. row' \in [User -> Row]
    BY <2>2, <2>3 DEF TypeInv, TypeOK
  <2> HIDE DEF x
  <2> QED
    BY <1>18, <2>1, <2>4, Responds DEF FinishReset, TypeInv, TypeOK, Reviewing, Handling
<1>19. ASSUME NEW r \in Req, SaveSession(r) PROVE TypeInv'
  <2>1. req[r].user \in User /\ row[req[r].user] \in Row /\ req[r].id \in Call /\ req[r].read \in Call
    BY <1>19 DEF SaveSession, TypeInv, TypeOK, Serving, Request
  <2> DEFINE x == [row[req[r].user] EXCEPT !.kyc = "PENDING", !.session = req[r].id]
  <2>2. x \in Row
    BY <2>1, RowFields DEF KycStatus
  <2>3. row' = [row EXCEPT ![req[r].user] = x]
    BY <1>19 DEF SaveSession, TypeInv, TypeOK
  <2>4. row' \in [User -> Row]
    BY <2>2, <2>3 DEF TypeInv, TypeOK
  <2> HIDE DEF x
  <2>5. past' \in [User -> SUBSET Fact]
    BY <1>19 DEF SaveSession, TypeInv, TypeOK
  <2>6. undone' \in [User -> SUBSET Undoing]
    BY <1>19, <2>1, Reopens DEF SaveSession
  <2> QED
    BY <1>19, <2>1, <2>4, <2>5, <2>6, Responds DEF SaveSession, TypeInv, TypeOK, Reviewing, Handling
<1>20. ASSUME NEW r \in Req, FinishWebhook(r) PROVE TypeInv'
  <2>1. req[r].user \in User /\ row[req[r].user] \in Row /\ req[r].id \in Call /\ req[r].read \in Call
    BY <1>20 DEF FinishWebhook, TypeInv, TypeOK, Serving, Request
  <2> DEFINE x == [row[req[r].user] EXCEPT !.kyc = "VERIFIED"]
  <2>2. x \in Row
    BY <2>1, RowFields DEF KycStatus
  <2>3. row' = [row EXCEPT ![req[r].user] = x]
    BY <1>20 DEF FinishWebhook, TypeInv, TypeOK
  <2>4. row' \in [User -> Row]
    BY <2>2, <2>3 DEF TypeInv, TypeOK
  <2> HIDE DEF x
  <2>5. past' \in [User -> SUBSET Fact]
    <3>1. Verifying(req[r].user) \in SUBSET Fact
      BY DEF Verifying, When, Fact
    <3> QED
      BY <1>20, <2>1, <3>1, Noted DEF FinishWebhook
  <2>6. undone' \in [User -> SUBSET Undoing]
    BY <1>20, <2>1, Reopens DEF FinishWebhook
  <2> QED
    BY <1>20, <2>1, <2>4, <2>5, <2>6, Responds DEF FinishWebhook, TypeInv, TypeOK, Reviewing, Handling
<1>21. ASSUME NEW r \in Req, CommitReview(r) PROVE TypeInv'
  <2>1. req[r].user \in User /\ row[req[r].user] \in Row /\ req[r].doc \in Doc
        /\ req[r].says \in {"APPROVED", "REJECTED"}
        /\ doc[req[r].doc].status # "ABSENT"
    BY <1>21 DEF CommitReview, TypeInv, TypeOK, Serving, Reviewing, Request
  <2>2. row' \in [User -> Row]
    <3>1. [row[req[r].user] EXCEPT !.active = req[r].says = "APPROVED"] \in Row
      BY <2>1, RowFields
    <3> QED
      BY <1>21, <3>1 DEF CommitReview, TypeInv, TypeOK
  <2>3. /\ doc' \in [Doc -> DocRow]
        /\ \A q \in Doc : doc'[q].user = doc[q].user
                         /\ (doc'[q].status # "ABSENT" <=> doc[q].status # "ABSENT")
    <3>1. CASE doc' = doc
      BY <3>1 DEF TypeInv, TypeOK
    <3>2. CASE doc' = [doc EXCEPT ![req[r].doc].status = req[r].says]
      BY <2>1, <3>2 DEF TypeInv, TypeOK, DocRow
    <3> QED
      BY <1>21, <3>1, <3>2 DEF CommitReview
  <2>4. past' \in [User -> SUBSET Fact]
    <3>1. When(req[r].says = "APPROVED", "cleared") \in SUBSET Fact
      BY DEF When, Fact
    <3> QED
      BY <1>21, <2>1, <3>1, Noted DEF CommitReview, TypeInv, TypeOK
  <2> QED
    BY <1>21, <2>1, <2>2, <2>3, <2>4, Responds DEF CommitReview, TypeInv, TypeOK, Reviewing, Handling
<1>22. ASSUME NEW r \in Req, Fail(r) PROVE TypeInv'
  BY <1>22, Responds DEF Fail, TypeInv, TypeOK, Reviewing, Handling
<1>23. ASSUME NEW u \in User, Expire(u) PROVE TypeInv'
  <2>1. otp' \in [User -> Otp \cup {None}] /\ signup' \in [User -> Call]
    BY <1>23 DEF Expire, TypeInv, TypeOK
  <2> QED
    BY <1>23, <2>1 DEF Expire, Serving, TypeInv, TypeOK, Reviewing, Handling
<1>24. ASSUME NEW u \in User, ExpireToken(u) PROVE TypeInv'
  <2>1. row[u] \in Row /\ calls' \in Call /\ calls' >= calls /\ calls \in Nat
    BY <1>24 DEF ExpireToken, TypeInv, TypeOK, Call
  <2>2. [row[u] EXCEPT !.live = FALSE] \in Row
    BY <1>24, <2>1, RowFields DEF ExpireToken, Unlinked
  <2>3. row' \in [User -> Row]
    BY <1>24, <2>2 DEF ExpireToken, TypeInv, TypeOK
  <2>4. Serving'
    BY <1>24, <2>1 DEF ExpireToken, TypeInv, Serving
  <2> QED
    BY <1>24, <2>1, <2>3, <2>4 DEF ExpireToken, TypeInv, TypeOK, Reviewing, Handling
<1>25. ASSUME NEW u \in User, CompleteProfile(u) PROVE TypeInv'
  <2>1. row[u] \in Row /\ calls' \in Call /\ calls' >= calls /\ calls \in Nat
    BY <1>25 DEF CompleteProfile, TypeInv, TypeOK, Call
  <2>2. [row[u] EXCEPT !.hasPass = TRUE] \in Row
    BY <1>25, <2>1, RowFields DEF CompleteProfile, Unlinked
  <2>3. row' \in [User -> Row]
    BY <1>25, <2>2 DEF CompleteProfile, TypeInv, TypeOK
  <2>4. Serving'
    BY <1>25, <2>1 DEF CompleteProfile, TypeInv, Serving
  <2> QED
    BY <1>25, <2>1, <2>3, <2>4 DEF CompleteProfile, TypeInv, TypeOK, Reviewing, Handling
<1>26. ASSUME NEW u \in User, NEW w \in Wallet, LinkWallet(u, w) PROVE TypeInv'
  <2>1. row[u] \in Row /\ calls' \in Call /\ calls' >= calls /\ calls \in Nat
    BY <1>26 DEF LinkWallet, TypeInv, TypeOK, Call
  <2>2. [row[u] EXCEPT !.wallet = w] \in Row
    BY <1>26, <2>1, RowFields DEF LinkWallet, Unlinked
  <2>3. row' \in [User -> Row]
    BY <1>26, <2>2 DEF LinkWallet, TypeInv, TypeOK
  <2>4. Serving'
    BY <1>26, <2>1 DEF LinkWallet, TypeInv, Serving
  <2> QED
    BY <1>26, <2>1, <2>3, <2>4 DEF LinkWallet, TypeInv, TypeOK, Reviewing, Handling
<1>27. ASSUME NEW u \in User, Serve(u) PROVE TypeInv'
  <2>1. past' \in [User -> SUBSET Fact]
    <3>1. {"served"} \in SUBSET Fact
      BY DEF Fact
    <3> QED
      BY <1>27, <3>1, Noted DEF Serve
  <2> QED
    BY <1>27, <2>1 DEF Serve, Serving, TypeInv, TypeOK, Reviewing, Handling
<1>28. ASSUME NEW q \in Doc, NEW u \in User, CreateRequest(q, u) PROVE TypeInv'
  <2>1. calls' \in Call /\ calls' >= calls /\ calls \in Nat
    BY <1>28 DEF CreateRequest, TypeInv, TypeOK, Call
  <2>2. doc' \in [Doc -> DocRow]
    BY <1>28 DEF CreateRequest, TypeInv, TypeOK, DocRow
  <2>3. Serving' /\ Reviewing'
    BY <1>28, <2>1 DEF CreateRequest, TypeInv, TypeOK, Serving, Reviewing, DocRow
  <2> QED
    BY <1>28, <2>1, <2>2, <2>3 DEF CreateRequest, TypeInv, TypeOK, Handling
<1>29. ASSUME NEW q \in Doc, RemoveRequest(q) PROVE TypeInv'
  <2>1. doc' \in [Doc -> DocRow]
    BY <1>29 DEF RemoveRequest, TypeInv, TypeOK, DocRow
  <2>2. Reviewing'
    BY <1>29 DEF RemoveRequest, TypeInv, TypeOK, Reviewing, DocRow
  <2> QED
    BY <1>29, <2>1, <2>2 DEF RemoveRequest, TypeInv, TypeOK, Serving, Handling
<1>30. ASSUME NEW e \in Event, Emit(e) PROVE TypeInv'
  <2>1. calls' \in Call /\ calls' >= calls /\ calls \in Nat
    BY <1>30 DEF Emit, TypeInv, TypeOK, Call
  <2>2. log' \in Seq(Event) /\ heard \in 0 .. Len(log')
    BY <1>30 DEF Emit, TypeInv, TypeOK
  <2>3. Serving'
    BY <1>30, <2>1 DEF Emit, TypeInv, Serving
  <2> QED
    BY <1>30, <2>1, <2>2, <2>3 DEF Emit, TypeInv, TypeOK, Reviewing, Handling
<1>31. CASE ListenPause
  <2>1. heard + 1 \in 0 .. Len(log)
    BY <1>31 DEF ListenPause, TypeInv, TypeOK
  <2> QED
    BY <1>31, <2>1 DEF ListenPause, Serving, TypeInv, TypeOK, Reviewing, Handling
<1>32. CASE ListenBlacklist
  <2>1. heard + 1 \in 0 .. Len(log)
    BY <1>32 DEF ListenBlacklist, TypeInv, TypeOK
  <2>2. log[heard + 1].kind \in BlacklistAction
    BY <1>32 DEF ListenBlacklist
  <2>3. ev' \in Handler /\ Handling' /\ past' \in [User -> SUBSET Fact]
    <3>1. CASE UNCHANGED <<ev, past>>
      BY <3>1 DEF TypeInv, TypeOK, Handling
    <3>2. ASSUME NEW u \in User, ev' = [kind |-> log[heard + 1].kind, user |-> u, step |-> 1],
                 Note(u, When(log[heard + 1].kind = "ADDED", "listed")
                           \cup When(log[heard + 1].kind = "REMOVED", "unlisted"))
          PROVE  ev' \in Handler /\ Handling' /\ past' \in [User -> SUBSET Fact]
      <4>1. ev' \in Handler /\ Handling'
        BY <2>2, <3>2, HandlerWrites DEF Handler, Handling
      <4>2. When(log[heard + 1].kind = "ADDED", "listed")
              \cup When(log[heard + 1].kind = "REMOVED", "unlisted") \in SUBSET Fact
        BY DEF When, Fact
      <4> QED
        BY <3>2, <4>1, <4>2, Noted
    <3> QED
      BY <1>32, <3>1, <3>2 DEF ListenBlacklist
  <2> QED
    BY <1>32, <2>1, <2>3 DEF ListenBlacklist, Serving, TypeInv, TypeOK, Reviewing
<1>33. CASE WriteStatus
  <2>1. ev' \in Handler /\ Handling'
    BY <1>33, Proceeds DEF WriteStatus
  <2>2. ev.user \in User
    BY <1>33, Proceeds DEF WriteStatus
  <2>3. row[ev.user] \in Row
    BY <2>2 DEF TypeInv, TypeOK
  <2>4. row' \in [User -> Row]
    <3>1. [row[ev.user] EXCEPT !.kyc = "BLACKLISTED"] \in Row
          /\ [row[ev.user] EXCEPT !.kyc = "VERIFIED"] \in Row
      BY <2>3, RowFields DEF KycStatus
    <3> QED
      BY <1>33, <2>2, <3>1 DEF WriteStatus, TypeInv, TypeOK
  <2>5. past' \in [User -> SUBSET Fact]
    <3>1. Verifying(ev.user) \in SUBSET Fact
      BY DEF Verifying, When, Fact
    <3> QED
      BY <1>33, <2>2, <3>1, Noted DEF WriteStatus, TypeInv, TypeOK
  <2>6. undone' \in [User -> SUBSET Undoing]
    BY <1>33, <2>2 DEF WriteStatus, TypeInv, TypeOK
  <2> QED
    BY <1>33, <2>1, <2>4, <2>5, <2>6 DEF WriteStatus, Serving, TypeInv, TypeOK, Reviewing
<1>34. CASE CloseEntries
  <2>1. ev' \in Handler /\ Handling'
    BY <1>34, Proceeds DEF CloseEntries
  <2>2. ev.user \in User
    BY <1>34, Proceeds DEF CloseEntries
  <2>3. entry' \in [User -> Seq(Entry)]
    <3>1. entry[ev.user] \in Seq(Entry)
      BY <2>2 DEF TypeInv, TypeOK
    <3>2. [i \in DOMAIN entry[ev.user] |-> [entry[ev.user][i] EXCEPT !.blocked = FALSE]] \in Seq(Entry)
      <4>1. DOMAIN entry[ev.user] = 1 .. Len(entry[ev.user]) /\ Len(entry[ev.user]) \in Nat
        BY <3>1
      <4>2. \A i \in DOMAIN entry[ev.user] : [entry[ev.user][i] EXCEPT !.blocked = FALSE] \in Entry
        <5> SUFFICES ASSUME NEW i \in 1 .. Len(entry[ev.user])
                     PROVE  [entry[ev.user][i] EXCEPT !.blocked = FALSE] \in Entry
          BY <4>1
        <5>1. entry[ev.user][i] \in Entry
          BY <3>1
        <5> QED
          BY <5>1 DEF Entry
      <4> QED
        BY <4>1, <4>2
    <3> QED
      BY <1>34, <2>2, <3>2 DEF CloseEntries, TypeInv, TypeOK
  <2> QED
    BY <1>34, <2>1, <2>3 DEF CloseEntries, Serving, TypeInv, TypeOK, Reviewing
<1>35. CASE CreateEntry
  <2>1. ev' \in Handler /\ Handling'
    BY <1>35, Proceeds DEF CreateEntry
  <2>2. ev.user \in User
    BY <1>35, Proceeds DEF CreateEntry
  <2>3. entry' \in [User -> Seq(Entry)]
    <3>1. [action |-> ev.kind, blocked |-> ev.kind # "REMOVED"] \in Entry
      BY DEF Entry, TypeInv, TypeOK, Handler
    <3>2. entry[ev.user] \in Seq(Entry)
      BY <2>2 DEF TypeInv, TypeOK
    <3>3. Append(entry[ev.user], [action |-> ev.kind, blocked |-> ev.kind # "REMOVED"]) \in Seq(Entry)
      BY <3>1, <3>2
    <3> QED
      BY <1>35, <2>2, <3>3 DEF CreateEntry, TypeInv, TypeOK
  <2> QED
    BY <1>35, <2>1, <2>3 DEF CreateEntry, Serving, TypeInv, TypeOK, Reviewing
<1>36. CASE HandlerFails
  BY <1>36, CutsOff DEF HandlerFails, IdleHandler, Serving, TypeInv, TypeOK, Reviewing, Handling
<1>37. CASE ListenLost
  <2>1. heard + 1 \in 0 .. Len(log)
    BY <1>37 DEF ListenLost, TypeInv, TypeOK
  <2> QED
    BY <1>37, <2>1 DEF ListenLost, Serving, TypeInv, TypeOK, Reviewing, Handling
<1>38. CASE Restart
  <2>1. InitialPause(TRUE) \in BOOLEAN /\ InitialPause(FALSE) \in BOOLEAN
    BY DEF InitialPause, Paused
  <2>2. isPaused' \in BOOLEAN /\ missed' \in BOOLEAN
    BY <1>38, <2>1 DEF Restart
  <2>3. \A r \in Req : req'[r].pc = "idle"
    BY <1>38 DEF Restart, IdleRequest
  <2> QED
    BY <1>38, <2>2, <2>3, CutsOff DEF Restart, IdleHandler, Serving, TypeInv, TypeOK, Reviewing, Handling
<1>39. CASE UNCHANGED vars
  BY <1>39 DEF vars, Serving, TypeInv, TypeOK, Reviewing, Handling
<1> QED
  BY <1>1, <1>2, <1>3, <1>4, <1>5, <1>6, <1>7, <1>8, <1>9, <1>10, <1>11, <1>12, <1>13, <1>14, 
     <1>15, <1>16, <1>17, <1>18, <1>19, <1>20, <1>21, <1>22, <1>23, <1>24, <1>25, <1>26, 
     <1>27, <1>28, <1>29, <1>30, <1>31, <1>32, <1>33, <1>34, <1>35, <1>36, <1>37, <1>38, 
     <1>39
     DEF Next, Continue, KycNext, SignUpNext, UserNext, ListenNext

THEOREM TypeCorrect == Spec => []TypeOK
<1>1. TypeInv => TypeOK
  BY DEF TypeInv
<1> QED
  BY <1>1, TypeInit, TypeStep, PTL DEF Spec
=============================================================================
