--------------------------- MODULE AccountsSafety ---------------------------
(***************************************************************************)
(* The safety of the accounts, for any number of users, wallets, documents,*)
(* requests and events.  Each theorem rests on the few actions that write  *)
(* what it is about; a lemma says that the others leave it alone.          *)
(***************************************************************************)
EXTENDS AccountsProofs
-----------------------------------------------------------------------------
(* The pause flag.                                                         *)
PauseStep ==
  \/ \E e \in Event : Emit(e)
  \/ ListenPause \/ ListenBlacklist \/ ListenLost \/ Restart

LEMMA OthersLeavePause ==
  ASSUME [Next]_vars, ~PauseStep
  PROVE  UNCHANGED <<log, heard, isPaused, missed>>
<1> USE DEF listenVars
<1>1. ASSUME NEW r \in Req, Continue(r) PROVE UNCHANGED <<log, heard, isPaused, missed>>
  <2>1. CASE StoreSignup(r) \/ SendCode(r) \/ BurnCode(r) \/ ReadSignup(r) \/ CreateUser(r) \/ DropSignup(r)
    BY <2>1 DEF StoreSignup, SendCode, BurnCode, ReadSignup, CreateUser, DropSignup
  <2>2. CASE GoogleCreate(r) \/ SaveToken(r) \/ FinishReset(r)
    BY <2>2 DEF GoogleCreate, SaveToken, FinishReset
  <2>3. CASE SaveSession(r) \/ FinishWebhook(r) \/ CommitReview(r) \/ Fail(r)
    BY <2>3 DEF SaveSession, FinishWebhook, CommitReview, Fail
  <2> QED
    BY <1>1, <2>1, <2>2, <2>3 DEF Continue
<1>2. ASSUME NEW r \in Req, KycNext(r) PROVE UNCHANGED <<log, heard, isPaused, missed>>
  BY <1>2 DEF KycNext, StartKyc, StartWebhook, StartReview
<1>3. ASSUME NEW r \in Req, NEW u \in User, SignUpNext(r, u)
      PROVE  UNCHANGED <<log, heard, isPaused, missed>>
  BY <1>3 DEF SignUpNext, StartRegister, StartResend, StartGoogle, StartForgot, StartReset, StartVerify
<1>4. ASSUME NEW u \in User, UserNext(u) PROVE UNCHANGED <<log, heard, isPaused, missed>>
  BY <1>4 DEF UserNext, Expire, ExpireToken, CompleteProfile, Serve, LinkWallet, CreateRequest
<1>5. ASSUME NEW q \in Doc, RemoveRequest(q) PROVE UNCHANGED <<log, heard, isPaused, missed>>
  BY <1>5 DEF RemoveRequest
<1>6. CASE ListenNext
  BY <1>6 DEF ListenNext, PauseStep, WriteStatus, CloseEntries, CreateEntry, HandlerFails
<1>7. CASE UNCHANGED vars
  BY <1>7 DEF vars
<1> QED
  BY <1>1, <1>2, <1>3, <1>4, <1>5, <1>6, <1>7 DEF Next, PauseStep

(* An event that is no pause leaves the contract running or paused.        *)
LEMMA SamePause ==
  ASSUME log \in Seq(Event), NEW e \in Event, log' = Append(log, e), e.kind \notin PauseAction
  PROVE  Paused' = Paused
<1>1. /\ Len(log) \in Nat /\ Len(log') = Len(log) + 1 /\ log'[Len(log) + 1] = e
      /\ \A i \in 1 .. Len(log) : log'[i] = log[i]
      /\ DOMAIN log = 1 .. Len(log) /\ DOMAIN log' = 1 .. Len(log) + 1
  OBVIOUS
<1>2. ASSUME Paused PROVE Paused'
  <2>1. PICK i \in 1 .. Len(log) :
          log[i].kind = "PAUSED" /\ \A j \in i + 1 .. Len(log) : log[j].kind \notin PauseAction
    BY <1>1, <1>2 DEF Paused
  <2>2. \A j \in i + 1 .. Len(log') : log'[j].kind \notin PauseAction
    BY <1>1, <2>1
  <2>3. i \in DOMAIN log' /\ log'[i].kind = "PAUSED"
    BY <1>1, <2>1
  <2> QED
    BY <2>2, <2>3 DEF Paused
<1>3. ASSUME Paused' PROVE Paused
  <2>1. PICK i \in 1 .. Len(log) + 1 :
          log'[i].kind = "PAUSED" /\ \A j \in i + 1 .. Len(log) + 1 : log'[j].kind \notin PauseAction
    BY <1>1, <1>3 DEF Paused
  <2>2. i \in 1 .. Len(log) /\ log[i].kind = "PAUSED"
    BY <1>1, <2>1 DEF PauseAction
  <2>3. \A j \in i + 1 .. Len(log) : log[j].kind \notin PauseAction
    BY <1>1, <2>1, <2>2
  <2> QED
    BY <1>1, <2>2, <2>3 DEF Paused
<1>4. Paused \in BOOLEAN /\ Paused' \in BOOLEAN
  BY DEF Paused
<1> QED
  BY <1>2, <1>3, <1>4

(* Whatever is emitted, heard, lost or restarted, a flag that should be    *)
(* right is.                                                               *)
THEOREM PauseExact == Spec => []PauseFlagExact
<1>1. Init => PauseFlagExact
  <2> SUFFICES ASSUME Init PROVE PauseFlagExact
    OBVIOUS
  <2>1. log = << >> /\ isPaused = FALSE
    BY DEF Init
  <2>2. Paused = FALSE
    BY <2>1 DEF Paused
  <2> QED
    BY <2>1, <2>2 DEF PauseFlagExact
<1>2. ASSUME TypeInv, PauseFlagExact, [Next]_vars PROVE PauseFlagExact'
  <2>0. log \in Seq(Event) /\ heard \in 0 .. Len(log) /\ Len(log) \in Nat /\ DOMAIN log = 1 .. Len(log)
    BY <1>2 DEF TypeInv, TypeOK
  <2>7. log' = log => Paused' = Paused
    BY DEF Paused
  <2>1. ASSUME NEW e \in Event, Emit(e) PROVE PauseFlagExact'
    <3>1. /\ log' = Append(log, e) /\ Len(log') = Len(log) + 1 /\ log'[Len(log) + 1] = e
          /\ \A i \in 1 .. Len(log) : log'[i] = log[i]
          /\ UNCHANGED <<heard, isPaused, missed>>
      BY <2>0, <2>1 DEF Emit
    <3>2. CASE e.kind \in PauseAction
      BY <2>0, <3>1, <3>2 DEF PauseFlagExact
    <3>3. CASE e.kind \notin PauseAction
      BY <1>2, <2>0, <3>1, <3>3, SamePause DEF PauseFlagExact
    <3> QED
      BY <3>2, <3>3
  <2>2. CASE ListenPause
    <3>1. /\ log[heard + 1].kind \in PauseAction /\ heard + 1 \in 1 .. Len(log)
          /\ isPaused' = (log[heard + 1].kind = "PAUSED") /\ heard' = heard + 1 /\ log' = log
      BY <2>0, <2>2 DEF ListenPause
    <3>2. ASSUME \A i \in heard + 2 .. Len(log) : log[i].kind \notin PauseAction
          PROVE  isPaused' = Paused
      <4>1. ASSUME log[heard + 1].kind = "PAUSED" PROVE Paused
        BY <2>0, <3>1, <3>2, <4>1 DEF Paused
      <4>2. ASSUME log[heard + 1].kind # "PAUSED", NEW i \in DOMAIN log, log[i].kind = "PAUSED"
            PROVE  \E j \in i + 1 .. Len(log) : log[j].kind \in PauseAction
        <5>1. i < heard + 1
          BY <2>0, <3>1, <3>2, <4>2 DEF PauseAction
        <5> QED
          BY <2>0, <3>1, <5>1
      <4>3. Paused \in BOOLEAN
        BY DEF Paused
      <4> QED
        BY <3>1, <4>1, <4>2, <4>3 DEF Paused
    <3> QED
      BY <2>0, <2>7, <3>1, <3>2 DEF PauseFlagExact
  <2>3. CASE ListenBlacklist
    <3>1. /\ log[heard + 1].kind \notin PauseAction /\ heard' = heard + 1
          /\ UNCHANGED <<log, isPaused, missed>>
      BY <2>3 DEF ListenBlacklist, BlacklistAction, PauseAction
    <3> QED
      BY <1>2, <2>0, <2>7, <3>1 DEF PauseFlagExact
  <2>4. CASE ListenLost
    <3>1. /\ heard' = heard + 1 /\ UNCHANGED <<log, isPaused>>
          /\ ~missed' => ~missed /\ log[heard + 1].kind \notin PauseAction
      BY <2>4 DEF ListenLost
    <3> QED
      BY <1>2, <2>0, <2>7, <3>1 DEF PauseFlagExact
  <2>5. CASE Restart
    <3>1. PICK answers \in BOOLEAN : isPaused' = (answers /\ Paused) /\ missed' = ~answers
      BY <2>5 DEF Restart, InitialPause
    <3>2. log' = log
      BY <2>5 DEF Restart
    <3>3. Paused \in BOOLEAN
      BY DEF Paused
    <3>4. ~missed' => isPaused' = Paused
      BY <3>1, <3>3
    <3> QED
      BY <2>7, <3>2, <3>4 DEF PauseFlagExact
  <2>6. CASE ~PauseStep
    <3>1. UNCHANGED <<log, heard, isPaused, missed>>
      BY <1>2, <2>6, OthersLeavePause
    <3> QED
      BY <1>2, <2>7, <3>1 DEF PauseFlagExact
  <2> QED
    BY <2>1, <2>2, <2>3, <2>4, <2>5, <2>6 DEF PauseStep
<1> QED
  BY <1>1, <1>2, TypeInit, TypeStep, PTL DEF Spec
-----------------------------------------------------------------------------
(* The blacklist history.                                                  *)
EntryStep == ListenBlacklist \/ WriteStatus \/ CloseEntries \/ CreateEntry

LEMMA OthersLeaveEntries ==
  ASSUME [Next]_vars, ~EntryStep
  PROVE  entry' = entry /\ ev' \in {ev, IdleHandler}
<1> USE DEF listenVars
<1>1. ASSUME NEW r \in Req, Continue(r) PROVE UNCHANGED <<entry, ev>>
  <2>1. CASE StoreSignup(r) \/ SendCode(r) \/ BurnCode(r) \/ ReadSignup(r) \/ CreateUser(r) \/ DropSignup(r)
    BY <2>1 DEF StoreSignup, SendCode, BurnCode, ReadSignup, CreateUser, DropSignup
  <2>2. CASE GoogleCreate(r) \/ SaveToken(r) \/ FinishReset(r)
    BY <2>2 DEF GoogleCreate, SaveToken, FinishReset
  <2>3. CASE SaveSession(r) \/ FinishWebhook(r) \/ CommitReview(r) \/ Fail(r)
    BY <2>3 DEF SaveSession, FinishWebhook, CommitReview, Fail
  <2> QED
    BY <1>1, <2>1, <2>2, <2>3 DEF Continue
<1>2. ASSUME NEW r \in Req, KycNext(r) PROVE UNCHANGED <<entry, ev>>
  BY <1>2 DEF KycNext, StartKyc, StartWebhook, StartReview
<1>3. ASSUME NEW r \in Req, NEW u \in User, SignUpNext(r, u) PROVE UNCHANGED <<entry, ev>>
  BY <1>3 DEF SignUpNext, StartRegister, StartResend, StartGoogle, StartForgot, StartReset, StartVerify
<1>4. ASSUME NEW u \in User, UserNext(u) PROVE UNCHANGED <<entry, ev>>
  BY <1>4 DEF UserNext, Expire, ExpireToken, CompleteProfile, Serve, LinkWallet, CreateRequest
<1>5. ASSUME NEW q \in Doc, RemoveRequest(q) PROVE UNCHANGED <<entry, ev>>
  BY <1>5 DEF RemoveRequest
<1>6. CASE ListenNext
  BY <1>6 DEF ListenNext, EntryStep, Emit, ListenPause, ListenLost, HandlerFails, CutOff
<1>7. CASE Restart \/ UNCHANGED vars
  BY <1>7 DEF Restart, CutOff, vars
<1> QED
  BY <1>1, <1>2, <1>3, <1>4, <1>5, <1>6, <1>7 DEF Next

(* Before the last update of a removal every entry is closed.              *)
EntryInv ==
  /\ ClosedByRemoval
  /\ ev.step = 3 => \A i \in DOMAIN entry[ev.user] : ~entry[ev.user][i].blocked

(* Where a handler is when it makes each of its updates.                   *)
LEMMA StepOfWrite ==
  ASSUME TypeInv
  PROVE  /\ IsNext("status") => ev.step = 1 /\ ev.kind \in {"ADDED", "REMOVED"}
         /\ IsNext("close") => ev.step = 2 /\ ev.kind = "REMOVED" /\ Len(Writes(ev.kind)) = 3
         /\ IsNext("entry") => /\ ev.step = Len(Writes(ev.kind))
                               /\ ev.kind = "REMOVED" => ev.step = 3
                               /\ ev.kind = "ADDED" => ev.step = 2
<1>1. ev.kind \in BlacklistAction
  BY DEF TypeInv, TypeOK, Handler
<1>2. CASE ev.kind = "ADDED"
  <2>1. Writes(ev.kind) = <<"status", "entry">>
    BY <1>2 DEF Writes
  <2>2. /\ DOMAIN Writes(ev.kind) = 1 .. 2 /\ Len(Writes(ev.kind)) = 2
        /\ Writes(ev.kind)[1] = "status" /\ Writes(ev.kind)[2] = "entry"
    BY <2>1
  <2>3. ev.step \in 1 .. 2 => ev.step = 1 \/ ev.step = 2
    BY DEF TypeInv, TypeOK, Handler
  <2> QED
    BY <1>2, <2>2, <2>3 DEF IsNext
<1>3. CASE ev.kind = "REMOVED"
  <2>1. Writes(ev.kind) = <<"status", "close", "entry">>
    BY <1>3 DEF Writes
  <2>2. /\ DOMAIN Writes(ev.kind) = 1 .. 3 /\ Len(Writes(ev.kind)) = 3
        /\ Writes(ev.kind)[1] = "status" /\ Writes(ev.kind)[2] = "close" /\ Writes(ev.kind)[3] = "entry"
    BY <2>1
  <2>3. ev.step \in 1 .. 3 => ev.step = 1 \/ ev.step = 2 \/ ev.step = 3
    BY DEF TypeInv, TypeOK, Handler
  <2> QED
    BY <1>3, <2>2, <2>3 DEF IsNext
<1>4. CASE ev.kind = "CONFISCATED"
  <2>1. Writes(ev.kind) = <<"entry">>
    BY <1>4 DEF Writes
  <2>2. /\ DOMAIN Writes(ev.kind) = 1 .. 1 /\ Len(Writes(ev.kind)) = 1
        /\ Writes(ev.kind)[1] = "entry"
    BY <2>1
  <2>3. ev.step \in 1 .. 1 => ev.step = 1
    BY DEF TypeInv, TypeOK, Handler
  <2> QED
    BY <1>4, <2>2, <2>3 DEF IsNext
<1> QED
  BY <1>1, <1>2, <1>3, <1>4 DEF BlacklistAction

(* A removal closes what came before it, however its handler is cut off.   *)
THEOREM RemovalCloses == Spec => []ClosedByRemoval
<1>1. Init => EntryInv
  BY DEF Init, EntryInv, ClosedByRemoval, IdleHandler
<1>2. ASSUME TypeInv, EntryInv, [Next]_vars PROVE EntryInv'
  <2>1. CASE ListenBlacklist
    <3>1. entry' = entry /\ (ev' = ev \/ ev'.step = 1)
      BY <2>1 DEF ListenBlacklist
    <3> QED
      BY <1>2, <3>1 DEF EntryInv, ClosedByRemoval
  <2>2. CASE WriteStatus
    <3>1. ev.step = 1 /\ ev \in Handler
      BY <1>2, <2>2, StepOfWrite DEF WriteStatus, TypeInv, TypeOK
    <3>2. entry' = entry /\ ev'.step \in {0, 2}
      BY <2>2, <3>1 DEF WriteStatus, Proceed, IdleHandler, Handler
    <3> QED
      BY <1>2, <3>2 DEF EntryInv, ClosedByRemoval
  <2>3. CASE CloseEntries
    <3>1. ev.user \in User /\ ev \in Handler /\ entry[ev.user] \in Seq(Entry)
      BY <1>2, <2>3, Proceeds DEF CloseEntries, TypeInv, TypeOK
    <3>2. ev'.user = ev.user
      <4>1. ev.step = 2 /\ Len(Writes(ev.kind)) = 3
        BY <1>2, <2>3, StepOfWrite DEF CloseEntries
      <4> QED
        BY <2>3, <3>1, <4>1 DEF CloseEntries, Proceed, Handler
    <3>3. /\ DOMAIN entry'[ev.user] = DOMAIN entry[ev.user]
          /\ \A i \in DOMAIN entry[ev.user] :
               entry'[ev.user][i] = [entry[ev.user][i] EXCEPT !.blocked = FALSE]
          /\ \A v \in User : v # ev.user => entry'[v] = entry[v]
      BY <1>2, <2>3, <3>1 DEF CloseEntries, TypeInv, TypeOK
    <3>4. \A i \in DOMAIN entry'[ev.user] : ~entry'[ev.user][i].blocked
      <4>1. \A i \in DOMAIN entry[ev.user] : entry[ev.user][i] \in Entry
        BY <3>1
      <4> QED
        BY <3>3, <4>1 DEF Entry
    <3>5. \A j \in DOMAIN entry'[ev.user] : \A i \in 1 .. j : i \in DOMAIN entry'[ev.user]
      BY <3>1, <3>3
    <3> QED
      BY <1>2, <3>2, <3>3, <3>4, <3>5 DEF EntryInv, ClosedByRemoval
  <2>4. CASE CreateEntry
    <3>1. ev.user \in User /\ ev \in Handler /\ entry[ev.user] \in Seq(Entry)
      BY <1>2, <2>4, Proceeds DEF CreateEntry, TypeInv, TypeOK
    <3>2. ev'.step = 0 /\ (ev.kind = "REMOVED" => ev.step = 3)
      BY <1>2, <2>4, StepOfWrite DEF CreateEntry, Proceed, IdleHandler
    <3> DEFINE x == [action |-> ev.kind, blocked |-> ev.kind # "REMOVED"]
               n == Len(entry[ev.user])
    <3>3. /\ n \in Nat /\ DOMAIN entry[ev.user] = 1 .. n
          /\ entry'[ev.user] = Append(entry[ev.user], x)
          /\ \A v \in User : v # ev.user => entry'[v] = entry[v]
      BY <1>2, <2>4, <3>1 DEF CreateEntry, TypeInv, TypeOK
    <3>4. /\ DOMAIN entry'[ev.user] = 1 .. n + 1 /\ entry'[ev.user][n + 1] = x
          /\ \A i \in 1 .. n : entry'[ev.user][i] = entry[ev.user][i]
      BY <3>1, <3>3
    <3>5. ASSUME NEW j \in 1 .. n + 1, entry'[ev.user][j].action = "REMOVED", NEW i \in 1 .. j
          PROVE  ~entry'[ev.user][i].blocked
      <4>1. CASE j = n + 1
        <5>1. ev.kind = "REMOVED"
          BY <3>4, <3>5, <4>1
        <5>2. \A k \in 1 .. n : ~entry[ev.user][k].blocked
          BY <1>2, <3>2, <3>3, <5>1 DEF EntryInv
        <5>3. CASE i = n + 1
          <6>1. ~x.blocked
            BY <5>1
          <6> QED
            BY <3>4, <5>3, <6>1
        <5>4. CASE i # n + 1
          <6>1. i \in 1 .. n
            BY <3>3, <4>1, <5>4
          <6> QED
            BY <3>4, <5>2, <6>1
        <5> QED
          BY <5>3, <5>4
      <4>2. CASE j # n + 1
        <5>1. j \in 1 .. n /\ i \in 1 .. n
          BY <3>3, <4>2
        <5> QED
          BY <1>2, <3>1, <3>3, <3>4, <3>5, <5>1 DEF EntryInv, ClosedByRemoval
      <4> QED
        BY <4>1, <4>2
    <3>6. ClosedByRemoval'
      <4> SUFFICES ASSUME NEW u \in User, NEW j \in DOMAIN entry'[u], entry'[u][j].action = "REMOVED",
                          NEW i \in 1 .. j
                   PROVE  ~entry'[u][i].blocked
        BY DEF ClosedByRemoval
      <4>1. CASE u = ev.user
        BY <3>4, <3>5, <4>1
      <4>2. CASE u # ev.user
        BY <1>2, <3>3, <4>2 DEF EntryInv, ClosedByRemoval
      <4> QED
        BY <4>1, <4>2
    <3> QED
      BY <3>2, <3>6 DEF EntryInv
  <2>5. CASE ~EntryStep
    <3>1. entry' = entry /\ (ev' = ev \/ ev'.step = 0)
      BY <1>2, <2>5, OthersLeaveEntries DEF IdleHandler
    <3> QED
      BY <1>2, <3>1 DEF EntryInv, ClosedByRemoval
  <2> QED
    BY <2>1, <2>2, <2>3, <2>4, <2>5 DEF EntryStep
<1>3. EntryInv => ClosedByRemoval
  BY DEF EntryInv
<1> QED
  BY <1>1, <1>2, <1>3, TypeInit, TypeStep, PTL DEF Spec
-----------------------------------------------------------------------------
(* The review of documents.                                                *)
DocStep ==
  \/ \E r \in Req : CommitReview(r)
  \/ \E r \in Req, q \in Doc, says \in {"APPROVED", "REJECTED"} : StartReview(r, q, says)
  \/ \E q \in Doc, u \in User : CreateRequest(q, u)
  \/ \E q \in Doc : RemoveRequest(q)

(* The reviews in flight are the ones there were.                          *)
SameReviews ==
  \A r \in Req : req'[r].pc = "review" => req[r].pc = "review" /\ req'[r].doc = req[r].doc

LEMMA OthersLeaveDocs ==
  ASSUME TypeInv, [Next]_vars, ~DocStep
  PROVE  doc' = doc /\ SameReviews
<1>0. req \in [Req -> Request]
  BY DEF TypeInv, TypeOK
<1> USE <1>0 DEF SameReviews, Goto, Respond, Begin, At, IdleRequest, Request
<1>1. ASSUME NEW r \in Req, Continue(r), ~CommitReview(r) PROVE doc' = doc /\ SameReviews
  <2>1. CASE StoreSignup(r) \/ SendCode(r) \/ BurnCode(r)
    BY <2>1 DEF StoreSignup, SendCode, BurnCode
  <2>2. CASE ReadSignup(r)
    BY <2>2 DEF ReadSignup
  <2>3. CASE CreateUser(r)
    <3>1. CASE Respond(r)
      BY <2>3, <3>1 DEF CreateUser
    <3>2. CASE Goto(r, "drop")
      BY <2>3, <3>2 DEF CreateUser
    <3> QED
      BY <2>3, <3>1, <3>2 DEF CreateUser
  <2>4. CASE DropSignup(r)
    BY <2>4 DEF DropSignup
  <2>7. CASE GoogleCreate(r)
    <3>1. doc' = doc /\ Respond(r)
      BY <2>7 DEF GoogleCreate
    <3> QED
      BY <3>1
  <2>5. CASE SaveToken(r) \/ FinishReset(r)
    BY <2>5 DEF SaveToken, FinishReset
  <2>6. CASE SaveSession(r) \/ FinishWebhook(r) \/ Fail(r)
    BY <2>6 DEF SaveSession, FinishWebhook, Fail
  <2> QED
    BY <1>1, <2>1, <2>2, <2>3, <2>4, <2>5, <2>6, <2>7 DEF Continue
<1>2. ASSUME NEW r \in Req, KycNext(r),
             \A q \in Doc, says \in {"APPROVED", "REJECTED"} : ~StartReview(r, q, says)
      PROVE  doc' = doc /\ SameReviews
  <2>1. ASSUME NEW u \in User, StartKyc(r, u) PROVE doc' = doc /\ SameReviews
    BY <2>1 DEF StartKyc
  <2>2. ASSUME NEW s \in Call, NEW says \in {"approved", "declined"}, StartWebhook(r, s, says)
        PROVE  doc' = doc /\ SameReviews
    BY <2>2 DEF StartWebhook
  <2> QED
    BY <1>2, <2>1, <2>2 DEF KycNext
<1>3. ASSUME NEW r \in Req, NEW u \in User, SignUpNext(r, u) PROVE doc' = doc /\ SameReviews
  <2>1. CASE StartRegister(r, u)
    BY <2>1 DEF StartRegister, BeginSignUp
  <2>2. CASE StartResend(r, u)
    BY <2>2 DEF StartResend, BeginSignUp
  <2>3. CASE \E c \in Code : StartVerify(r, u, c)
    BY <2>3 DEF StartVerify, BeginSignUp
  <2>4. CASE StartGoogle(r, u)
    BY <2>4 DEF StartGoogle
  <2>5. CASE StartForgot(r, u)
    BY <2>5 DEF StartForgot
  <2>6. CASE StartReset(r, u)
    BY <2>6 DEF StartReset
  <2> QED
    BY <1>3, <2>1, <2>2, <2>3, <2>4, <2>5, <2>6 DEF SignUpNext
<1>4. ASSUME NEW u \in User, UserNext(u), \A q \in Doc : ~CreateRequest(q, u)
      PROVE  doc' = doc /\ SameReviews
  BY <1>4 DEF UserNext, Expire, ExpireToken, CompleteProfile, Serve, LinkWallet
<1>5. CASE ListenNext
  BY <1>5 DEF ListenNext, Emit, ListenPause, ListenBlacklist, ListenLost,
              WriteStatus, CloseEntries, CreateEntry, HandlerFails
<1>6. CASE Restart \/ UNCHANGED vars
  BY <1>6 DEF Restart, vars
<1> QED
  BY <1>1, <1>2, <1>3, <1>4, <1>5, <1>6 DEF Next, DocStep

(* Reviews of one document in flight together, or of one that has been     *)
(* decided, are known to have raced.                                       *)
ReviewInv ==
  \A r \in Req : req[r].pc = "review" =>
    /\ doc[req[r].doc].status \in {"APPROVED", "REJECTED"} => doc[req[r].doc].raced
    /\ \A s \in Req \ {r} :
         req[s].pc = "review" /\ req[s].doc = req[r].doc => doc[req[r].doc].raced

Decides ==
  \A q \in Doc :
    doc[q].status \in {"APPROVED", "REJECTED"} =>
      doc'[q].status \in {doc[q].status, "GONE"} \/ doc[q].raced

(* A decision is final unless it raced, for any number of documents and    *)
(* reviews in flight.                                                      *)
THEOREM DecisionsStand == Spec => DecisionStands
<1>1. Init => ReviewInv
  BY DEF Init, ReviewInv, IdleRequest
<1>2. ASSUME TypeInv, ReviewInv, [Next]_vars PROVE ReviewInv' /\ Decides
  <2>0. req \in [Req -> Request] /\ doc \in [Doc -> DocRow]
        /\ \A s \in Req : req[s].pc = "review" => req[s].doc \in Doc /\ doc[req[s].doc].status # "ABSENT"
    BY <1>2 DEF TypeInv, TypeOK, Reviewing
  <2>1. ASSUME NEW r \in Req, CommitReview(r) PROVE ReviewInv' /\ Decides
    <3> DEFINE q == req[r].doc
    <3>1. /\ req[r].pc = "review" /\ q \in Doc /\ req[r].says \in {"APPROVED", "REJECTED"}
          /\ req'[r].pc = "idle" /\ \A s \in Req : s # r => req'[s] = req[s]
      BY <1>2, <2>0, <2>1, Responds DEF CommitReview, Request, IdleRequest
    <3>2. \/ doc' = doc
          \/ doc' = [doc EXCEPT ![q].status = req[r].says]
      BY <2>1 DEF CommitReview
    <3>3. \A p \in Doc : doc'[p].raced = doc[p].raced /\ (p # q => doc'[p] = doc[p])
      BY <2>0, <3>1, <3>2 DEF DocRow
    <3> HIDE DEF q
    <3>4. Decides
      BY <1>2, <3>1, <3>3 DEF ReviewInv, Decides, q
    <3>5. ReviewInv'
      BY <1>2, <2>0, <3>1, <3>3 DEF ReviewInv, q
    <3> QED
      BY <3>4, <3>5
  <2>2. ASSUME NEW r \in Req, NEW q \in Doc, NEW says \in {"APPROVED", "REJECTED"},
               StartReview(r, q, says)
        PROVE  ReviewInv' /\ Decides
    <3> DEFINE racing == \E s \in Req : req[s].pc = "review" /\ req[s].doc = q
    <3>1. doc' = [doc EXCEPT ![q].raced = @ \/ racing] /\ doc[q].status = "PENDING"
      BY <2>2 DEF StartReview, MayDecide
    <3>2. /\ req'[r].pc = "review" /\ req'[r].doc = q
          /\ \A s \in Req : s # r => req'[s] = req[s]
      BY <2>0, <2>2 DEF StartReview, Begin, At, IdleRequest, Request
    <3>3. /\ \A p \in Doc : doc'[p].status = doc[p].status /\ (doc[p].raced => doc'[p].raced)
          /\ racing => doc'[q].raced
      BY <2>0, <3>1 DEF DocRow
    <3>4. Decides
      BY <3>3 DEF Decides
    <3>5. ReviewInv'
      BY <1>2, <2>0, <3>1, <3>2, <3>3 DEF ReviewInv
    <3> QED
      BY <3>4, <3>5
  <2>3. ASSUME NEW q \in Doc, NEW u \in User, CreateRequest(q, u) PROVE ReviewInv' /\ Decides
    <3>1. /\ doc[q].status = "ABSENT" /\ req' = req
          /\ \A p \in Doc : p # q => doc'[p] = doc[p]
      BY <2>0, <2>3 DEF CreateRequest
    <3> QED
      BY <1>2, <2>0, <3>1 DEF ReviewInv, Decides
  <2>4. ASSUME NEW q \in Doc, RemoveRequest(q) PROVE ReviewInv' /\ Decides
    <3>1. /\ doc'[q].status = "GONE" /\ req' = req
          /\ \A p \in Doc : doc'[p].raced = doc[p].raced /\ (p # q => doc'[p] = doc[p])
      BY <2>0, <2>4 DEF RemoveRequest, DocRow
    <3> QED
      BY <1>2, <2>0, <3>1 DEF ReviewInv, Decides
  <2>5. CASE ~DocStep
    <3>1. doc' = doc /\ SameReviews
      BY <1>2, <2>5, OthersLeaveDocs
    <3> QED
      BY <1>2, <2>0, <3>1 DEF ReviewInv, Decides, SameReviews
  <2> QED
    BY <2>1, <2>2, <2>3, <2>4, <2>5 DEF DocStep
<1>3. TypeInv /\ ReviewInv /\ [Next]_vars => [Decides]_vars
  BY <1>2
<1>4. TypeInv /\ ReviewInv /\ [Next]_vars => ReviewInv'
  BY <1>2
<1>5. DecisionStands <=> [][Decides]_vars
  BY PTL DEF DecisionStands, Decides
<1> QED
  BY <1>1, <1>3, <1>4, <1>5, TypeInit, TypeStep, PTL DEF Spec
-----------------------------------------------------------------------------
(* Reset tokens.                                                           *)
TokenStep ==
  \/ \E r \in Req, u \in User : StartForgot(r, u) \/ StartReset(r, u)
  \/ \E r \in Req : SaveToken(r) \/ FinishReset(r)

(* What a sign-up writes.                                                  *)
LEMMA SignUpRow ==
  \A a \in BOOLEAN : \A w, t, live :
    LET new == SignedUp(a, w, t, live) IN
    /\ new.exists = TRUE /\ new.kyc = "UNVERIFIED" /\ new.session = 0
    /\ new.active = a /\ new.token = t
BY DEF SignedUp, NewRow

(* An insert that writes is of a user with no row.                         *)
LEMMA Creation ==
  ASSUME NEW r \in Req, CreateUser(r), row' # row
  PROVE  /\ ~row[req[r].user].exists
         /\ \E a \in BOOLEAN, w \in Unlinked \cup {None}, t \in 0 .. req[r].id, live \in BOOLEAN :
              row' = [row EXCEPT ![req[r].user] = SignedUp(a, w, t, live)]
<1>1. ~ UNCHANGED <<row, past>>
  OBVIOUS
<1>2. PICK a \in BOOLEAN, w \in Unlinked \cup {None}, t \in 0 .. req[r].id, live \in BOOLEAN :
        /\ row' = [row EXCEPT ![req[r].user] = SignedUp(a, w, t, live)]
        /\ Note(req[r].user, {"confirmed"} \cup When(a, "cleared")
                                  \cup When(req[r].read = req[r].code, "matched"))
  BY <1>1 DEF CreateUser
<1>3. ~row[req[r].user].exists
  BY <1>1 DEF CreateUser
<1> QED
  BY <1>2, <1>3

(* The row of u keeps its token or loses it, or is a new row, with any     *)
(* token its sign-up set.                                                  *)
TokenStays(u) ==
  \/ /\ row'[u].exists = row[u].exists
     /\ row'[u].token = row[u].token
  \/ /\ ~row[u].exists /\ row'[u].exists
     /\ row'[u].token \in 0 .. calls

(* No token is made, used or waited for.                                   *)
SameTokens ==
  /\ spent' = spent
  /\ \A u \in User : TokenStays(u)
  /\ \A r \in Req : req'[r].pc \in {"forgot", "reset"} => req'[r] = req[r]

LEMMA OthersLeaveTokens ==
  ASSUME TypeInv, [Next]_vars, ~TokenStep
  PROVE  SameTokens
<1>0. req \in [Req -> Request] /\ row \in [User -> Row]
  BY DEF TypeInv, TypeOK
<1> USE <1>0 DEF historyVars, SameTokens, TokenStays, Goto, Respond, Begin, At, IdleRequest, Request, Row
<1>1. ASSUME NEW r \in Req, Continue(r), ~SaveToken(r), ~FinishReset(r) PROVE SameTokens
  <2>1. CASE StoreSignup(r)
    BY <2>1 DEF StoreSignup
  <2>2. CASE SendCode(r)
    BY <2>2 DEF SendCode
  <2>3. CASE BurnCode(r)
    BY <2>3 DEF BurnCode
  <2>4. CASE ReadSignup(r)
    BY <2>4 DEF ReadSignup
  <2>5. CASE CreateUser(r)
    <3>1. CASE Respond(r) /\ row' = row
      BY <2>5, <3>1 DEF CreateUser
    <3>2. CASE Goto(r, "drop")
      <4>1. spent' = spent /\ \A u \in User : TokenStays(u)
        <5>1. CASE row' = row
          BY <2>5, <5>1 DEF CreateUser
        <5>2. CASE row' # row
          <6>0. PICK a \in BOOLEAN, w \in Unlinked \cup {None}, t \in 0 .. req[r].id, live \in BOOLEAN :
                  ~row[req[r].user].exists
                  /\ row' = [row EXCEPT ![req[r].user] = SignedUp(a, w, t, live)]
            BY <2>5, <5>2, Creation
          <6>1. req[r].user \in User /\ req[r].id \in 1 .. calls /\ calls \in Nat
            BY <2>5, Constant DEF CreateUser, TypeInv, TypeOK, Serving
          <6>2. SignedUp(a, w, t, live).exists = TRUE /\ SignedUp(a, w, t, live).token = t
            BY SignUpRow
          <6>3. t \in 0 .. calls
            BY <6>1
          <6> DEFINE new == SignedUp(a, w, t, live)
          <6>4. row'[req[r].user] = new /\ \A u \in User : u # req[r].user => row'[u] = row[u]
            BY <6>0, <6>1
          <6> HIDE DEF new
          <6>5. new.exists = TRUE /\ new.token = t
            BY <6>2 DEF new
          <6>6. ASSUME NEW u \in User PROVE TokenStays(u)
            <7>1. CASE u = req[r].user
              <8>1. row'[u].exists = TRUE /\ row'[u].token = t /\ ~row[u].exists
                BY <6>0, <6>4, <6>5, <7>1
              <8> QED
                BY <8>1, <6>3, <6>1
            <7>2. CASE u # req[r].user
              BY <6>4, <7>2
            <7> QED
              BY <7>1, <7>2
          <6> QED
            BY <6>6, <2>5 DEF CreateUser
        <5> QED
          BY <2>5, <5>1, <5>2 DEF CreateUser
      <4>2. \A s \in Req : req'[s].pc \in {"forgot", "reset"} => req'[s] = req[s]
        BY <3>2
      <4> QED
        BY <4>1, <4>2
    <3> QED
      BY <2>5, <3>1, <3>2 DEF CreateUser
  <2>6. CASE DropSignup(r)
    BY <2>6 DEF DropSignup
  <2>7. CASE GoogleCreate(r)
    <3>1. spent' = spent /\ Respond(r)
      BY <2>7 DEF GoogleCreate
    <3>2. \A u \in User : TokenStays(u)
      <4>1. NewRow(FALSE, FALSE).exists = TRUE /\ NewRow(FALSE, FALSE).token = 0
        BY DEF NewRow
      <4>2. 0 \in 0 .. calls
        BY Constant DEF TypeInv, TypeOK
      <4> QED
        BY <2>7, <4>1, <4>2 DEF GoogleCreate
    <3> QED
      BY <3>1, <3>2
  <2>8. CASE SaveSession(r)
    BY <2>8 DEF SaveSession
  <2>9. CASE FinishWebhook(r)
    BY <2>9 DEF FinishWebhook
  <2>10. CASE CommitReview(r)
    BY <2>10 DEF CommitReview
  <2>11. CASE Fail(r)
    BY <2>11 DEF Fail
  <2> QED
    BY <1>1, <2>1, <2>2, <2>3, <2>4, <2>5, <2>6, <2>7, <2>8, <2>9, <2>10, <2>11 DEF Continue
<1>2. ASSUME NEW r \in Req, KycNext(r) PROVE SameTokens
  <2>1. ASSUME NEW u \in User, StartKyc(r, u) PROVE SameTokens
    BY <2>1 DEF StartKyc
  <2>2. ASSUME NEW s \in Call, NEW says \in {"approved", "declined"}, StartWebhook(r, s, says)
        PROVE  SameTokens
    BY <2>2 DEF StartWebhook
  <2>3. ASSUME NEW q \in Doc, NEW says \in {"APPROVED", "REJECTED"}, StartReview(r, q, says)
        PROVE  SameTokens
    BY <2>3 DEF StartReview
  <2> QED
    BY <1>2, <2>1, <2>2, <2>3 DEF KycNext
<1>3. ASSUME NEW r \in Req, NEW u \in User, SignUpNext(r, u), ~StartForgot(r, u), ~StartReset(r, u)
      PROVE  SameTokens
  <2>1. CASE StartRegister(r, u)
    BY <2>1 DEF StartRegister, BeginSignUp
  <2>2. CASE StartResend(r, u)
    BY <2>2 DEF StartResend, BeginSignUp
  <2>3. CASE \E c \in Code : StartVerify(r, u, c)
    BY <2>3 DEF StartVerify, BeginSignUp
  <2>4. CASE StartGoogle(r, u)
    BY <2>4 DEF StartGoogle
  <2> QED
    BY <1>3, <2>1, <2>2, <2>3, <2>4 DEF SignUpNext
<1>4. ASSUME NEW u \in User, UserNext(u) PROVE SameTokens
  <2>1. CASE Expire(u) \/ Serve(u) \/ \E q \in Doc : CreateRequest(q, u)
    BY <2>1 DEF Expire, Serve, CreateRequest
  <2>2. CASE ExpireToken(u)
    BY <2>2 DEF ExpireToken
  <2>3. CASE CompleteProfile(u)
    BY <2>3 DEF CompleteProfile
  <2>4. ASSUME NEW w \in Wallet, LinkWallet(u, w) PROVE SameTokens
    BY <2>4 DEF LinkWallet
  <2> QED
    BY <1>4, <2>1, <2>2, <2>3, <2>4 DEF UserNext
<1>5. ASSUME NEW q \in Doc, RemoveRequest(q) PROVE SameTokens
  BY <1>5 DEF RemoveRequest
<1>6. CASE ListenNext
  <2>1. CASE WriteStatus
    BY <2>1 DEF WriteStatus
  <2> QED
    BY <1>6, <2>1 DEF ListenNext, Emit, ListenPause, ListenBlacklist, ListenLost,
                      CloseEntries, CreateEntry, HandlerFails
<1>7. CASE Restart \/ UNCHANGED vars
  BY <1>7 DEF Restart, vars
<1> QED
  BY <1>1, <1>2, <1>3, <1>4, <1>5, <1>6, <1>7 DEF Next, TokenStep

(* A request keeps its number; a new one gets the next.                    *)
KeepNumbers ==
  /\ calls' \in {calls, calls + 1}
  /\ \A r \in Req : req'[r].pc # "idle" =>
       \/ req[r].pc # "idle" /\ req'[r].id = req[r].id
       \/ /\ req'[r].id = calls + 1 /\ calls' = calls + 1
          /\ \A s \in Req \ {r} : req'[s] = req[s]

LEMMA NumbersKept ==
  ASSUME TypeInv, [Next]_vars
  PROVE  KeepNumbers
<1>0. req \in [Req -> Request] /\ calls \in Nat
  BY Constant DEF TypeInv, TypeOK
<1> USE <1>0 DEF KeepNumbers, Goto, Respond, Begin, At, IdleRequest, Request
<1>1. ASSUME NEW r \in Req, Continue(r) PROVE KeepNumbers
  <2>1. CASE StoreSignup(r)
    BY <2>1 DEF StoreSignup
  <2>2. CASE SendCode(r)
    BY <2>2 DEF SendCode
  <2>3. CASE BurnCode(r)
    BY <2>3 DEF BurnCode
  <2>4. CASE ReadSignup(r)
    BY <2>4 DEF ReadSignup
  <2>5. CASE CreateUser(r)
    <3>1. CASE Respond(r)
      BY <3>1
    <3>2. CASE Goto(r, "drop")
      BY <3>2, <2>5 DEF CreateUser
    <3> QED
      BY <2>5, <3>1, <3>2 DEF CreateUser
  <2>6. CASE DropSignup(r)
    BY <2>6 DEF DropSignup
  <2>7. CASE GoogleCreate(r)
    <3>1. Respond(r)
      BY <2>7 DEF GoogleCreate
    <3> QED
      BY <3>1
  <2>8. CASE SaveToken(r)
    BY <2>8 DEF SaveToken
  <2>9. CASE FinishReset(r)
    BY <2>9 DEF FinishReset
  <2>10. CASE SaveSession(r)
    BY <2>10 DEF SaveSession
  <2>11. CASE FinishWebhook(r)
    BY <2>11 DEF FinishWebhook
  <2>12. CASE CommitReview(r)
    BY <2>12 DEF CommitReview
  <2>13. CASE Fail(r)
    BY <2>13 DEF Fail
  <2> QED
    BY <1>1, <2>1, <2>2, <2>3, <2>4, <2>5, <2>6, <2>7, <2>8, <2>9, <2>10, <2>11, <2>12, <2>13 DEF Continue
<1>2. ASSUME NEW r \in Req, KycNext(r) PROVE KeepNumbers
  <2>1. ASSUME NEW u \in User, StartKyc(r, u) PROVE KeepNumbers
    BY <2>1 DEF StartKyc
  <2>2. ASSUME NEW s \in Call, NEW says \in {"approved", "declined"}, StartWebhook(r, s, says)
        PROVE  KeepNumbers
    BY <2>2 DEF StartWebhook
  <2>3. ASSUME NEW q \in Doc, NEW says \in {"APPROVED", "REJECTED"}, StartReview(r, q, says)
        PROVE  KeepNumbers
    BY <2>3 DEF StartReview
  <2> QED
    BY <1>2, <2>1, <2>2, <2>3 DEF KycNext
<1>3. ASSUME NEW r \in Req, NEW u \in User, SignUpNext(r, u) PROVE KeepNumbers
  <2>1. CASE StartRegister(r, u)
    BY <2>1 DEF StartRegister, BeginSignUp
  <2>2. CASE StartResend(r, u)
    BY <2>2 DEF StartResend, BeginSignUp
  <2>3. CASE \E c \in Code : StartVerify(r, u, c)
    BY <2>3 DEF StartVerify, BeginSignUp
  <2>4. CASE StartGoogle(r, u)
    BY <2>4 DEF StartGoogle
  <2>5. CASE StartForgot(r, u)
    BY <2>5 DEF StartForgot
  <2>6. CASE StartReset(r, u)
    BY <2>6 DEF StartReset
  <2> QED
    BY <1>3, <2>1, <2>2, <2>3, <2>4, <2>5, <2>6 DEF SignUpNext
<1>4. ASSUME NEW u \in User, UserNext(u) PROVE KeepNumbers
  BY <1>4 DEF UserNext, Expire, ExpireToken, CompleteProfile, Serve, LinkWallet, CreateRequest
<1>5. ASSUME NEW q \in Doc, RemoveRequest(q) PROVE KeepNumbers
  BY <1>5 DEF RemoveRequest
<1>6. CASE ListenNext
  BY <1>6 DEF ListenNext, Emit, ListenPause, ListenBlacklist, ListenLost,
              WriteStatus, CloseEntries, CreateEntry, HandlerFails
<1>7. CASE Restart \/ UNCHANGED vars
  BY <1>7 DEF Restart, vars
<1> QED
  BY <1>1, <1>2, <1>3, <1>4, <1>5, <1>6, <1>7 DEF Next

(* Requests in flight have different numbers.                              *)
Numbered ==
  \A r, s \in Req : r # s /\ ~Idle(r) /\ ~Idle(s) => req[r].id # req[s].id

LEMMA NumberedInit == Init => Numbered
BY DEF Init, IdleRequest, Numbered, Idle

LEMMA NumberedStep == TypeInv /\ Numbered /\ [Next]_vars => Numbered'
<1> SUFFICES ASSUME TypeInv, Numbered, [Next]_vars PROVE Numbered'
  OBVIOUS
<1>1. calls \in Nat /\ \A r \in Req : ~Idle(r) => req[r].id \in 1 .. calls
  BY Constant DEF TypeInv, TypeOK, Serving, Idle
<1>2. KeepNumbers
  BY NumbersKept
<1> QED
  BY <1>1, <1>2 DEF KeepNumbers, Numbered, Idle

(* A token that is waited for has not been in its user's row, and no reset *)
(* of that user holds it; only the sign-up puts a token in a row without   *)
(* being waited for, and then the user has not reset anything yet.         *)
RowTokens(u) ==
  /\ row[u].token \in 0 .. calls
  /\ <<u, row[u].token>> \notin spent
  /\ ~row[u].exists => row[u].token = 0 /\ \A t \in Call : <<u, t>> \notin spent

ResetTokens(r) ==
  req[r].pc = "reset" => row[req[r].user].exists /\ req[r].read \in 1 .. calls

ForgotTokens(r) ==
  req[r].pc = "forgot" =>
    /\ row[req[r].user].exists
    /\ <<req[r].user, req[r].id>> \notin spent
    /\ row[req[r].user].token # req[r].id
    /\ \A s \in Req : req[s].pc = "reset" /\ req[s].user = req[r].user => req[s].read # req[r].id

TokenInv ==
  /\ spent \subseteq User \X (1 .. calls)
  /\ \A u \in User : RowTokens(u)
  /\ \A r \in Req : ResetTokens(r) /\ ForgotTokens(r)

(* What a step that makes and uses no token leaves of the invariant.       *)
LEMMA TokensStay ==
  ASSUME TypeInv, TokenInv, SameTokens, calls' \in {calls, calls + 1}
  PROVE  TokenInv'
<1>0. /\ calls \in Nat /\ 0 .. calls \subseteq 0 .. calls' /\ 1 .. calls \subseteq 1 .. calls'
      /\ spent \subseteq User \X (1 .. calls) /\ spent' = spent
      /\ 1 .. calls \subseteq Call /\ 0 .. calls \subseteq Call
  BY Constant DEF TypeInv, TypeOK, TokenInv, SameTokens, Call
<1>1. \A r \in Req : req[r].pc # "idle" => req[r].user \in User
  BY DEF TypeInv, Serving
<1>2. ASSUME NEW u \in User PROVE RowTokens(u)'
  <2>1. TokenStays(u) /\ RowTokens(u)
    BY DEF SameTokens, TokenInv
  <2>2. CASE row'[u].exists = row[u].exists /\ row'[u].token = row[u].token
    BY <1>0, <2>1, <2>2 DEF RowTokens
  <2>3. CASE ~row[u].exists /\ row'[u].exists /\ row'[u].token \in 0 .. calls
    BY <1>0, <2>1, <2>3 DEF RowTokens
  <2> QED
    BY <2>1, <2>2, <2>3 DEF TokenStays
<1>3. ASSUME NEW r \in Req PROVE ResetTokens(r)'
  <2> SUFFICES ASSUME req'[r].pc = "reset"
               PROVE  row'[req'[r].user].exists /\ req'[r].read \in 1 .. calls'
    BY DEF ResetTokens
  <2>1. req'[r] = req[r] /\ req[r].user \in User /\ ResetTokens(r)
    BY <1>1 DEF SameTokens, TokenInv
  <2> QED
    BY <1>0, <2>1 DEF ResetTokens, SameTokens, TokenStays
<1>4. ASSUME NEW r \in Req PROVE ForgotTokens(r)'
  <2> SUFFICES ASSUME req'[r].pc = "forgot" PROVE ForgotTokens(r)'
    BY DEF ForgotTokens
  <2>1. req'[r] = req[r] /\ req[r].user \in User /\ ForgotTokens(r) /\ TokenStays(req[r].user)
    BY <1>1 DEF SameTokens, TokenInv
  <2>2. /\ row[req[r].user].exists /\ row'[req[r].user].exists
        /\ row'[req[r].user].token = row[req[r].user].token
    BY <2>1 DEF ForgotTokens, TokenStays
  <2>3. \A s \in Req : req'[s].pc = "reset" => req'[s] = req[s]
    BY DEF SameTokens
  <2> QED
    BY <1>0, <2>1, <2>2, <2>3 DEF ForgotTokens
<1> QED
  BY <1>0, <1>2, <1>3, <1>4 DEF TokenInv

(* A token that was spent is gone, for any number of requests in flight.   *)
THEOREM SpentGone == Spec => []SpentTokenGone
<1>1. Init => Numbered /\ TokenInv
  <2> SUFFICES ASSUME Init PROVE Numbered /\ TokenInv
    OBVIOUS
  <2>1. calls = 0 /\ spent = {} /\ \A r \in Req : req[r].pc = "idle"
    BY DEF Init, IdleRequest
  <2>2. \A u \in User : row[u].token = 0
    <3>1. NoRow.token = 0 /\ NewRow(FALSE, TRUE).token = 0
      BY DEF NoRow, NewRow
    <3>2. \A u \in User : row[u] \in {NoRow, NewRow(FALSE, TRUE)}
      BY DEF Init
    <3> QED
      BY <3>1, <3>2
  <2> QED
    BY <2>1, <2>2 DEF Numbered, TokenInv, RowTokens, ResetTokens, ForgotTokens, Idle
<1>2. ASSUME TypeInv, Numbered, TokenInv, [Next]_vars PROVE TokenInv'
  <2>0. /\ req \in [Req -> Request] /\ row \in [User -> Row] /\ calls \in Nat
        /\ \A r \in Req : req[r].pc # "idle" => req[r].user \in User /\ req[r].id \in 1 .. calls
        /\ spent \subseteq User \X (1 .. calls)
        /\ \A u \in User : RowTokens(u)
        /\ \A r \in Req : ResetTokens(r) /\ ForgotTokens(r)
    BY <1>2, Constant DEF TypeInv, TypeOK, Serving, TokenInv
  <2>1. ASSUME NEW r \in Req, NEW u \in User, StartForgot(r, u) PROVE TokenInv'
    <3>1. /\ req'[r].pc = "forgot" /\ req'[r].id = calls + 1 /\ req'[r].user = u
          /\ \A s \in Req : s # r => req'[s] = req[s]
      BY <2>0, <2>1 DEF StartForgot, Begin, At, IdleRequest, Request
    <3>2. row' = row /\ spent' = spent /\ calls' = calls + 1 /\ row[u].exists
      BY <2>1 DEF StartForgot, Begin, historyVars
    <3>3. <<u, calls + 1>> \notin spent /\ row[u].token # calls + 1
      BY <2>0 DEF RowTokens
    <3>4. \A s \in Req : req[s].pc = "reset" => req[s].read # calls + 1
      BY <2>0 DEF ResetTokens
    <3>5. \A v \in User : RowTokens(v)'
      BY <2>0, <3>2 DEF RowTokens
    <3>6. \A s \in Req : ResetTokens(s)'
      BY <2>0, <3>1, <3>2 DEF ResetTokens
    <3>7. \A s \in Req : ForgotTokens(s)'
      <4>1. ForgotTokens(r)'
        BY <3>1, <3>2, <3>3, <3>4 DEF ForgotTokens
      <4>2. ASSUME NEW s \in Req, s # r PROVE ForgotTokens(s)'
        BY <2>0, <3>1, <3>2, <4>2 DEF ForgotTokens
      <4> QED
        BY <4>1, <4>2
    <3> QED
      BY <2>0, <3>2, <3>5, <3>6, <3>7 DEF TokenInv
  <2>2. ASSUME NEW r \in Req, NEW u \in User, StartReset(r, u) PROVE TokenInv'
    <3>1. /\ req'[r].pc = "reset" /\ req'[r].user = u /\ req'[r].read = row[u].token
          /\ \A s \in Req : s # r => req'[s] = req[s]
      BY <2>0, <2>2 DEF StartReset, Begin, At, IdleRequest, Request
    <3>2. row' = row /\ spent' = spent /\ calls' = calls + 1 /\ row[u].token # 0
      BY <2>2 DEF StartReset, Begin, historyVars
    <3>3. row[u].exists /\ row[u].token \in 1 .. calls
      <4>1. RowTokens(u) /\ row[u].token # 0 /\ calls \in Nat
        BY <2>0, <3>2
      <4> QED
        BY <4>1 DEF RowTokens
    <3>5. \A v \in User : RowTokens(v)'
      BY <2>0, <3>2 DEF RowTokens
    <3>6. \A s \in Req : ResetTokens(s)'
      BY <2>0, <3>1, <3>2, <3>3 DEF ResetTokens
    <3>7. \A s \in Req : ForgotTokens(s)'
      BY <2>0, <3>1, <3>2 DEF ForgotTokens
    <3> QED
      BY <2>0, <3>2, <3>5, <3>6, <3>7 DEF TokenInv
  <2>3. ASSUME NEW r \in Req, SaveToken(r) PROVE TokenInv'
    <3>1. /\ req[r].pc = "forgot" /\ req'[r].pc = "idle" /\ spent' = spent /\ calls' = calls
          /\ \A s \in Req : s # r => req'[s] = req[s]
      BY <1>2, <2>3, Responds DEF SaveToken, IdleRequest, historyVars
    <3>2. /\ req[r].user \in User /\ req[r].id \in 1 .. calls
          /\ row'[req[r].user].token = req[r].id
          /\ row'[req[r].user].exists = row[req[r].user].exists
          /\ \A v \in User : v # req[r].user => row'[v] = row[v]
      BY <2>0, <2>3, <3>1 DEF SaveToken, Row
    <3>3. \A s \in Req : s # r /\ req[s].pc = "forgot" => req[s].id # req[r].id
      BY <1>2, <3>1 DEF Numbered, Idle
    <3>4. ForgotTokens(r)
      BY <2>0
    <3>5. \A v \in User : RowTokens(v)'
      BY <2>0, <3>1, <3>2, <3>4 DEF RowTokens, ForgotTokens
    <3>6. \A s \in Req : ResetTokens(s)'
      BY <2>0, <3>1, <3>2 DEF ResetTokens
    <3>7. \A s \in Req : ForgotTokens(s)'
      BY <2>0, <3>1, <3>2, <3>3 DEF ForgotTokens
    <3> QED
      BY <2>0, <3>1, <3>5, <3>6, <3>7 DEF TokenInv
  <2>4. ASSUME NEW r \in Req, FinishReset(r) PROVE TokenInv'
    <3>1. /\ req[r].pc = "reset" /\ req'[r].pc = "idle"
          /\ spent' = spent \cup {<<req[r].user, req[r].read>>}
          /\ calls' = calls /\ \A s \in Req : s # r => req'[s] = req[s]
      BY <1>2, <2>4, Responds DEF FinishReset, IdleRequest
    <3>2. /\ req[r].user \in User /\ row'[req[r].user].token = 0
          /\ row'[req[r].user].exists = row[req[r].user].exists
          /\ \A v \in User : v # req[r].user => row'[v] = row[v]
      BY <2>0, <2>4, <3>1 DEF FinishReset, TokenAfterReset, Row
    <3>3. req[r].read \in 1 .. calls /\ row[req[r].user].exists
      BY <2>0, <3>1 DEF ResetTokens
    <3>4. spent' \subseteq User \X (1 .. calls)
      BY <2>0, <3>1, <3>2, <3>3
    <3>5. \A v \in User : RowTokens(v)'
      <4>1. ASSUME NEW v \in User, v # req[r].user PROVE RowTokens(v)'
        BY <2>0, <3>1, <3>2, <4>1 DEF RowTokens
      <4>2. \A v : v = req[r].user => RowTokens(v)'
        <5>1. \A v : <<v, 0>> \notin spent'
          BY <3>4
        <5>2. 0 \in 0 .. calls'
          BY <2>0, <3>1
        <5> QED
          BY <3>2, <3>3, <5>1, <5>2 DEF RowTokens
      <4> QED
        BY <4>1, <4>2
    <3>6. \A s \in Req : ResetTokens(s)'
      BY <2>0, <3>1, <3>2 DEF ResetTokens
    <3>7. \A s \in Req : ForgotTokens(s)'
      <4> SUFFICES ASSUME NEW s \in Req, req'[s].pc = "forgot" PROVE ForgotTokens(s)'
        BY DEF ForgotTokens
      <4>1. /\ s # r /\ req'[s] = req[s] /\ req[s].id \in 1 .. calls /\ req[s].user \in User
            /\ ForgotTokens(s)
        BY <2>0, <3>1
      <4>2. <<req[s].user, req[s].id>> \notin spent'
        BY <3>1, <4>1 DEF ForgotTokens
      <4>3. row'[req[s].user].exists /\ row'[req[s].user].token # req[s].id
        BY <2>0, <3>2, <4>1 DEF ForgotTokens
      <4> QED
        BY <3>1, <4>1, <4>2, <4>3 DEF ForgotTokens
    <3> QED
      BY <3>1, <3>4, <3>5, <3>6, <3>7 DEF TokenInv
  <2>5. CASE ~TokenStep
    <3>1. SameTokens
      BY <1>2, <2>5, OthersLeaveTokens
    <3>2. calls' \in {calls, calls + 1}
      BY <1>2, NumbersKept DEF KeepNumbers
    <3> QED
      BY <1>2, <3>1, <3>2, TokensStay
  <2> QED
    BY <2>1, <2>2, <2>3, <2>4, <2>5 DEF TokenStep
<1>3. TokenInv => SpentTokenGone
  BY DEF TokenInv, RowTokens, SpentTokenGone
<1>4. TypeInv /\ Numbered /\ TokenInv /\ [Next]_vars => Numbered' /\ TokenInv'
  BY <1>2, NumberedStep
<1> QED
  BY <1>1, <1>3, <1>4, TypeInit, TypeStep, PTL DEF Spec
-----------------------------------------------------------------------------
(* Sign-up.  While the sign-ups of an address do not overlap, there is one *)
(* at most, and what is cached belongs together.                           *)
Signs(r, u) == req[r].pc \in SigningUp /\ req[r].user = u

AtMostOne(u) == \A r, s \in Req : Signs(r, u) /\ Signs(s, u) => r = s

ReadTogether(u) ==
  \A r \in Req : Signs(r, u) =>
    /\ req[r].pc = "code" => signup[u] \in {0, req[r].read}
    /\ req[r].pc \in {"burn", "data"} => signup[u] \in {0, req[r].code}
    /\ req[r].pc = "create" => req[r].read = req[r].code

CachedTogether(u) ==
  \/ otp[u] = None \/ signup[u] \in {0, otp[u].reg}
  \/ \E r \in Req : Signs(r, u) /\ req[r].pc = "code"

Consistent(u) == AtMostOne(u) /\ ReadTogether(u) /\ CachedTogether(u)

Matches(u) ==
  row[u].exists =>
    \/ "google" \in past[u]
    \/ "confirmed" \in past[u] /\ ("matched" \in past[u] \/ "crossed" \in past[u])

SignUpInv == \A u \in User : Matches(u) /\ ("crossed" \in past[u] \/ Consistent(u))

SignUpStep ==
  \/ \E r \in Req, u \in User : StartRegister(r, u) \/ StartResend(r, u)
                                \/ \E c \in Code : StartVerify(r, u, c)
  \/ \E r \in Req : StoreSignup(r) \/ SendCode(r) \/ BurnCode(r) \/ ReadSignup(r)
                    \/ CreateUser(r) \/ DropSignup(r) \/ GoogleCreate(r)
  \/ \E u \in User : Expire(u)
  \/ Restart

(* No sign-up begins, goes on or ends, and no account is made.             *)
SameSignUps ==
  /\ otp' = otp /\ signup' = signup
  /\ \A u \in User : row'[u].exists = row[u].exists /\ past[u] \subseteq past'[u]
  /\ \A r \in Req : req[r].pc \in SigningUp \/ req'[r].pc \in SigningUp => req'[r] = req[r]

LEMMA OthersLeaveSignUps ==
  ASSUME TypeInv, [Next]_vars, ~SignUpStep
  PROVE  SameSignUps
<1>0. /\ req \in [Req -> Request] /\ row \in [User -> Row] /\ past \in [User -> SUBSET Fact]
      /\ \A r \in Req : req[r].pc # "idle" => req[r].user \in User
  BY DEF TypeInv, TypeOK, Serving
<1> USE <1>0 DEF signUpVars, historyVars, SameSignUps, SigningUp, Note,
                 Goto, Respond, Begin, At, Idle, IdleRequest, Request, Row
<1>1. ASSUME NEW r \in Req, Continue(r) PROVE SameSignUps
  <2>1. CASE SaveToken(r)
    BY <2>1 DEF SaveToken
  <2>2. CASE FinishReset(r)
    BY <2>2 DEF FinishReset
  <2>3. CASE SaveSession(r)
    BY <2>3 DEF SaveSession
  <2>4. CASE FinishWebhook(r)
    BY <2>4 DEF FinishWebhook
  <2>5. CASE CommitReview(r)
    <3>1. otp' = otp /\ signup' = signup
      BY <2>5 DEF CommitReview
    <3>2. \A s \in Req : req[s].pc \in SigningUp \/ req'[s].pc \in SigningUp => req'[s] = req[s]
      BY <2>5 DEF CommitReview
    <3>3. \A u \in User : row'[u].exists = row[u].exists /\ past[u] \subseteq past'[u]
      <4>1. CASE row' = row /\ past' = past
        BY <4>1
      <4>2. CASE /\ row' = [row EXCEPT ![req[r].user].active = req[r].says = "APPROVED"]
                 /\ Note(req[r].user, When(req[r].says = "APPROVED", "cleared"))
        <5>1. \A u \in User : row'[u].exists = row[u].exists
          BY <4>2
        <5>2. \A u \in User : past[u] \subseteq past'[u]
          BY <4>2
        <5> QED
          BY <5>1, <5>2
      <4> QED
        BY <2>5, <4>1, <4>2 DEF CommitReview
    <3> QED
      BY <3>1, <3>2, <3>3
  <2>6. CASE Fail(r)
    BY <2>6 DEF Fail
  <2> QED
    BY <1>1, <2>1, <2>2, <2>3, <2>4, <2>5, <2>6 DEF Continue, SignUpStep
<1>2. ASSUME NEW r \in Req, KycNext(r) PROVE SameSignUps
  <2>1. ASSUME NEW u \in User, StartKyc(r, u) PROVE SameSignUps
    BY <2>1 DEF StartKyc
  <2>2. ASSUME NEW s \in Call, NEW says \in {"approved", "declined"}, StartWebhook(r, s, says)
        PROVE  SameSignUps
    BY <2>2 DEF StartWebhook
  <2>3. ASSUME NEW q \in Doc, NEW says \in {"APPROVED", "REJECTED"}, StartReview(r, q, says)
        PROVE  SameSignUps
    BY <2>3 DEF StartReview
  <2> QED
    BY <1>2, <2>1, <2>2, <2>3 DEF KycNext
<1>3. ASSUME NEW r \in Req, NEW u \in User, StartGoogle(r, u) \/ StartForgot(r, u) \/ StartReset(r, u)
      PROVE  SameSignUps
  <2>1. CASE StartGoogle(r, u)
    BY <2>1 DEF StartGoogle
  <2>2. CASE StartForgot(r, u)
    BY <2>2 DEF StartForgot
  <2>3. CASE StartReset(r, u)
    BY <2>3 DEF StartReset
  <2> QED
    BY <1>3, <2>1, <2>2, <2>3
<1>4. ASSUME NEW u \in User, UserNext(u), ~Expire(u) PROVE SameSignUps
  <2>1. CASE Serve(u) \/ \E q \in Doc : CreateRequest(q, u)
    BY <2>1 DEF Serve, CreateRequest
  <2>2. CASE ExpireToken(u)
    BY <2>2 DEF ExpireToken
  <2>3. CASE CompleteProfile(u)
    BY <2>3 DEF CompleteProfile
  <2>4. ASSUME NEW w \in Wallet, LinkWallet(u, w) PROVE SameSignUps
    BY <2>4 DEF LinkWallet
  <2> QED
    BY <1>4, <2>1, <2>2, <2>3, <2>4 DEF UserNext
<1>5. ASSUME NEW q \in Doc, RemoveRequest(q) PROVE SameSignUps
  BY <1>5 DEF RemoveRequest
<1>6. CASE ListenNext
  <2>1. CASE WriteStatus
    BY <2>1 DEF WriteStatus
  <2>2. CASE ListenBlacklist
    BY <2>2 DEF ListenBlacklist
  <2> QED
    BY <1>6, <2>1, <2>2 DEF ListenNext, Emit, ListenPause, ListenLost,
                      CloseEntries, CreateEntry, HandlerFails
<1>7. CASE UNCHANGED vars
  BY <1>7 DEF vars
<1> QED
  BY <1>1, <1>2, <1>3, <1>4, <1>5, <1>6, <1>7 DEF Next, SignUpNext, UserNext, SignUpStep

LEMMA SignUpInit == Init => SignUpInv
<1> SUFFICES ASSUME Init, NEW u \in User PROVE Matches(u) /\ Consistent(u)
  BY DEF SignUpInv
<1>1. otp[u] = None /\ signup[u] = 0 /\ \A r \in Req : req[r].pc = "idle"
  BY DEF Init, IdleRequest
<1>2. row[u].exists => past[u] = {"confirmed", "matched"}
  BY DEF Init
<1> QED
  BY <1>1, <1>2 DEF Matches, Consistent, AtMostOne, ReadTogether, CachedTogether, Signs,
                    SigningUp

(* A request that begins to sign u up leaves u consistent, or has crossed. *)
LEMMA SignUpBegins ==
  ASSUME TypeInv, SignUpInv, NEW r \in Req, NEW u \in User, NEW q \in Request,
         BeginSignUp(r, q), q.user = u, q.pc \in SigningUp,
         UNCHANGED <<row, otp, signup>>,
         q.pc = "code" => q.read = signup[u],
         q.pc = "burn" => q.code = otp[u].reg /\ otp[u] # None,
         q.pc \in {"hash", "code", "burn"}
  PROVE  SignUpInv'
<1>1. /\ req[r].pc = "idle" /\ req'[r].pc = q.pc /\ req'[r].user = u
      /\ req'[r].read = q.read /\ req'[r].code = q.code
      /\ \A s \in Req : s # r => req'[s] = req[s]
  <2>1. q.pc = "review" => FALSE
    BY DEF SigningUp
  <2>2. req'[r] = [q EXCEPT !.id = calls + 1] /\ \A s \in Req : s # r => req'[s] = req[s]
    BY <2>1, RequestBegins DEF BeginSignUp
  <2>3. req[r].pc = "idle"
    BY DEF BeginSignUp, Begin, Idle
  <2> QED
    BY <2>2, <2>3 DEF Request
<1>2. /\ past' \in [User -> SUBSET Fact] /\ \A v \in User : v # u => past'[v] = past[v]
      /\ past[u] \subseteq past'[u]
      /\ Another(r, u, SigningUp) => "crossed" \in past'[u]
  <2>1. When(Another(r, u, SigningUp), "crossed") \in SUBSET Fact
    BY DEF When, Fact
  <2>2. Note(u, When(Another(r, u, SigningUp), "crossed"))
    BY DEF BeginSignUp
  <2> QED
    BY <2>1, <2>2, Noted DEF When
<1>3. ASSUME NEW v \in User PROVE Matches(v)'
  <2>1. past[v] \subseteq past'[v] /\ row' = row
    BY <1>2
  <2> QED
    BY <2>1 DEF SignUpInv, Matches
<1>4. ASSUME NEW v \in User, v # u, Consistent(v) PROVE Consistent(v)'
  <2>1. \A s \in Req : Signs(s, v)' => Signs(s, v) /\ req'[s] = req[s]
    BY <1>1, <1>4 DEF Signs
  <2>2. \A s \in Req : Signs(s, v) => req'[s] = req[s]
    BY <1>1 DEF Signs, SigningUp
  <2> QED
    BY <1>4, <2>1, <2>2 DEF Consistent, AtMostOne, ReadTogether, CachedTogether, Signs
<1>5. ASSUME ~ Another(r, u, SigningUp), Consistent(u) PROVE Consistent(u)'
  <2>1. \A s \in Req : ~ Signs(s, u)
    BY <1>1, <1>5 DEF Another, Signs, SigningUp
  <2>2. \A s \in Req : Signs(s, u)' => s = r
    BY <1>1, <2>1 DEF Signs
  <2>3. CachedTogether(u)' /\ (otp[u] = None \/ signup[u] \in {0, otp[u].reg})
    BY <1>1, <1>5, <2>1 DEF Consistent, CachedTogether
  <2>4. ReadTogether(u)'
    BY <1>1, <2>2, <2>3 DEF ReadTogether, Signs
  <2> QED
    BY <2>2, <2>3, <2>4 DEF Consistent, AtMostOne
<1>6. ASSUME NEW v \in User PROVE "crossed" \in past'[v] \/ Consistent(v)'
  BY <1>2, <1>4, <1>5 DEF SignUpInv
<1> QED
  BY <1>3, <1>6 DEF SignUpInv

(* A request of u goes on or ends: what others wait for stays as it is, so *)
(* only u has to be looked at.                                             *)
LEMMA SignUpMoves ==
  ASSUME TypeInv, SignUpInv, NEW r \in Req, NEW u \in User, Signs(r, u),
         \A s \in Req : s # r => req'[s] = req[s],
         req'[r].pc # "idle" => req'[r].user = u,
         \A v \in User : v # u => /\ otp'[v] = otp[v] /\ signup'[v] = signup[v]
                                  /\ past'[v] = past[v] /\ row'[v] = row[v],
         past[u] \subseteq past'[u],
         Matches(u)',
         AtMostOne(u) /\ "crossed" \notin past[u] => ReadTogether(u)' /\ CachedTogether(u)'
  PROVE  SignUpInv'
<1>1. \A s \in Req, v \in User : v # u => (Signs(s, v)' <=> Signs(s, v))
  BY DEF Signs, SigningUp
<1>2. ASSUME NEW v \in User, v # u PROVE Matches(v)' /\ (Consistent(v) => Consistent(v)')
  <2>1. \A s \in Req : Signs(s, v) => req'[s] = req[s]
    BY <1>2 DEF Signs
  <2> QED
    BY <1>1, <1>2, <2>1 DEF SignUpInv, Matches, Consistent, AtMostOne, ReadTogether, CachedTogether
<1>3. ASSUME AtMostOne(u) PROVE AtMostOne(u)'
  <2>1. \A s \in Req : Signs(s, u)' => Signs(s, u)
    BY DEF Signs, SigningUp
  <2> QED
    BY <1>3, <2>1 DEF AtMostOne
<1>4. "crossed" \in past'[u] \/ Consistent(u)'
  BY <1>3 DEF SignUpInv, Consistent
<1>5. ASSUME NEW v \in User PROVE Matches(v)' /\ ("crossed" \in past'[v] \/ Consistent(v)')
  BY <1>2, <1>4 DEF SignUpInv
<1> QED
  BY <1>5 DEF SignUpInv

LEMMA SignUpKept == TypeInv /\ SignUpInv /\ [Next]_vars => SignUpInv'
<1> SUFFICES ASSUME TypeInv, SignUpInv, [Next]_vars PROVE SignUpInv'
  OBVIOUS
<1>0. /\ req \in [Req -> Request] /\ row \in [User -> Row] /\ past \in [User -> SUBSET Fact]
      /\ otp \in [User -> Otp \cup {None}] /\ signup \in [User -> Call]
      /\ \A r \in Req : req[r].pc # "idle" => req[r].user \in User
  BY DEF TypeInv, TypeOK, Serving
<1>1. ASSUME NEW r \in Req, NEW u \in User, StartRegister(r, u) PROVE SignUpInv'
  <2> DEFINE q == At("hash", u)
  <2>1. q \in Request /\ q.user = u /\ q.pc = "hash"
    BY Waits DEF Waiting
  <2>2. BeginSignUp(r, q) /\ UNCHANGED <<row, otp, signup>>
    BY <1>1 DEF StartRegister, signUpVars
  <2> HIDE DEF q
  <2> QED
    BY <2>1, <2>2, SignUpBegins DEF SigningUp
<1>2. ASSUME NEW r \in Req, NEW u \in User, StartResend(r, u) PROVE SignUpInv'
  <2> DEFINE q == [At("code", u) EXCEPT !.read = signup[u]]
  <2>1. q \in Request /\ q.user = u /\ q.pc = "code" /\ q.read = signup[u]
    BY <1>0, Waits DEF Waiting, Request
  <2>2. BeginSignUp(r, q) /\ UNCHANGED <<row, otp, signup>>
    BY <1>2 DEF StartResend, signUpVars
  <2> HIDE DEF q
  <2> QED
    BY <2>1, <2>2, SignUpBegins DEF SigningUp
<1>3. ASSUME NEW r \in Req, NEW u \in User, NEW c \in Code, StartVerify(r, u, c) PROVE SignUpInv'
  <2> DEFINE q == [At("burn", u) EXCEPT !.code = otp[u].reg]
  <2>1. otp[u].reg \in Call /\ otp[u] # None
    BY <1>0, <1>3 DEF StartVerify, Otp
  <2>2. q \in Request /\ q.user = u /\ q.pc = "burn" /\ q.code = otp[u].reg
    BY <2>1, Waits DEF Waiting, Request
  <2>3. BeginSignUp(r, q) /\ UNCHANGED <<row, otp, signup>>
    BY <1>3 DEF StartVerify, signUpVars
  <2> HIDE DEF q
  <2> QED
    BY <2>1, <2>2, <2>3, SignUpBegins DEF SigningUp
<1>4. ASSUME NEW r \in Req, StoreSignup(r) PROVE SignUpInv'
  <2>0. PICK u \in User : req[r].user = u
    BY <1>0, <1>4 DEF StoreSignup
  <2>1. /\ req[r].pc = "hash" /\ u \in User /\ req'[r].pc = "code" /\ req'[r].user = u
        /\ req'[r].read = req[r].id /\ \A s \in Req : s # r => req'[s] = req[s]
        /\ signup' = [signup EXCEPT ![u] = req[r].id]
        /\ UNCHANGED <<row, otp, past>>
    BY <1>0, <1>4, <2>0 DEF StoreSignup, Pending, historyVars, Request
  <2>2. Signs(r, u) /\ req'[r].pc \in SigningUp /\ signup'[u] = req'[r].read
    BY <1>0, <1>4, <2>0, <2>1 DEF Signs, SigningUp
  <2>3. ASSUME AtMostOne(u) PROVE ReadTogether(u)' /\ CachedTogether(u)'
    <3>1. \A s \in Req : Signs(s, u)' => s = r
      BY <2>1, <2>2, <2>3 DEF AtMostOne, Signs
    <3>2. Signs(r, u)' /\ req'[r].pc = "code"
      BY <2>1, <2>2 DEF Signs
    <3> QED
      BY <2>1, <2>2, <3>1, <3>2 DEF ReadTogether, CachedTogether
  <2>4. Matches(u)'
    BY <2>1 DEF SignUpInv, Matches
  <2> QED
    BY <1>0, <2>1, <2>2, <2>3, <2>4, SignUpMoves
<1>5. ASSUME NEW r \in Req, SendCode(r) PROVE SignUpInv'
  <2>0. PICK u \in User : req[r].user = u
    BY <1>0, <1>5 DEF SendCode
  <2>1. /\ req[r].pc = "code" /\ u \in User /\ req'[r].pc = "idle"
        /\ \A s \in Req : s # r => req'[s] = req[s]
        /\ UNCHANGED <<row, signup, past>>
    BY <1>0, <1>5, <2>0, Responds DEF SendCode, IdleRequest, historyVars
  <2>2. PICK c \in Code : otp' = [otp EXCEPT ![u] = [code |-> c, reg |-> req[r].read]]
    BY <1>5, <2>0 DEF SendCode
  <2>3. Signs(r, u)
    BY <2>0, <2>1 DEF Signs, SigningUp
  <2>4. otp'[u].reg = req[r].read /\ \A v \in User : v # u => otp'[v] = otp[v]
    BY <1>0, <2>1, <2>2
  <2>5. ASSUME AtMostOne(u), "crossed" \notin past[u] PROVE ReadTogether(u)' /\ CachedTogether(u)'
    <3>1. \A s \in Req : ~ Signs(s, u)'
      BY <2>1, <2>3, <2>5 DEF AtMostOne, Signs, SigningUp
    <3>2. signup[u] \in {0, req[r].read}
      BY <2>1, <2>3, <2>5 DEF SignUpInv, Consistent, ReadTogether
    <3> QED
      BY <2>1, <2>4, <3>1, <3>2 DEF ReadTogether, CachedTogether
  <2>6. Matches(u)'
    BY <2>1 DEF SignUpInv, Matches
  <2>7. AtMostOne(u) /\ "crossed" \notin past[u] => ReadTogether(u)' /\ CachedTogether(u)'
    BY <2>5
  <2> QED
    BY <2>7, <1>0, <2>1, <2>3, <2>4, <2>6, SignUpMoves
<1>6. ASSUME NEW r \in Req, BurnCode(r) PROVE SignUpInv'
  <2>0. PICK u \in User : req[r].user = u
    BY <1>0, <1>6 DEF BurnCode
  <2>1. /\ req[r].pc = "burn" /\ u \in User /\ req'[r].pc = "data" /\ req'[r].user = u
        /\ req'[r].code = req[r].code /\ \A s \in Req : s # r => req'[s] = req[s]
        /\ otp' = [otp EXCEPT ![u] = None]
        /\ UNCHANGED <<row, signup, past>>
    BY <1>0, <1>6, <2>0 DEF BurnCode, Goto, historyVars, Request
  <2>2. Signs(r, u) /\ req'[r].pc \in SigningUp
    BY <2>0, <2>1 DEF Signs, SigningUp
  <2>3. ASSUME AtMostOne(u), "crossed" \notin past[u] PROVE ReadTogether(u)' /\ CachedTogether(u)'
    <3>1. \A s \in Req : Signs(s, u)' => s = r
      BY <2>1, <2>2, <2>3 DEF AtMostOne, Signs
    <3>2. signup[u] \in {0, req[r].code}
      BY <2>1, <2>2, <2>3 DEF SignUpInv, Consistent, ReadTogether
    <3> QED
      BY <1>0, <2>1, <3>1, <3>2 DEF ReadTogether, CachedTogether
  <2>4. Matches(u)'
    BY <2>1 DEF SignUpInv, Matches
  <2>5. AtMostOne(u) /\ "crossed" \notin past[u] => ReadTogether(u)' /\ CachedTogether(u)'
    BY <2>3
  <2> QED
    BY <2>5, <1>0, <2>1, <2>2, <2>4, SignUpMoves
<1>7. ASSUME NEW r \in Req, ReadSignup(r) PROVE SignUpInv'
  <2>0. PICK u \in User : req[r].user = u
    BY <1>0, <1>7 DEF ReadSignup
  <2>1. /\ req[r].pc = "data" /\ u \in User /\ UNCHANGED <<row, otp, signup, past>>
        /\ \A s \in Req : s # r => req'[s] = req[s]
        /\ \/ req'[r].pc = "idle"
           \/ /\ req'[r].pc = "create" /\ req'[r].user = u /\ signup[u] # 0
              /\ req'[r].read = signup[u] /\ req'[r].code = req[r].code
    BY <1>0, <1>7, <2>0 DEF ReadSignup, Respond, IdleRequest, signUpVars, historyVars, Request
  <2>2. Signs(r, u)
    BY <2>0, <2>1 DEF Signs, SigningUp
  <2>3. ASSUME AtMostOne(u), "crossed" \notin past[u] PROVE ReadTogether(u)' /\ CachedTogether(u)'
    <3>1. \A s \in Req : Signs(s, u)' => s = r
      BY <2>1, <2>2, <2>3 DEF AtMostOne, Signs
    <3>2. /\ signup[u] \in {0, req[r].code} /\ CachedTogether(u)
      BY <2>1, <2>2, <2>3 DEF SignUpInv, Consistent, ReadTogether
    <3>3. \A s \in Req : Signs(s, u) => s = r
      BY <2>2, <2>3 DEF AtMostOne
    <3> QED
      BY <2>1, <3>1, <3>2, <3>3 DEF ReadTogether, CachedTogether
  <2>4. Matches(u)'
    BY <2>1 DEF SignUpInv, Matches
  <2>5. AtMostOne(u) /\ "crossed" \notin past[u] => ReadTogether(u)' /\ CachedTogether(u)'
    BY <2>3
  <2> QED
    BY <2>5, <1>0, <2>1, <2>2, <2>4, SignUpMoves
<1>8. ASSUME NEW r \in Req, CreateUser(r) PROVE SignUpInv'
  <2>0. PICK u \in User : req[r].user = u
    BY <1>0, <1>8 DEF CreateUser
  <2>1. /\ req[r].pc = "create" /\ u \in User /\ UNCHANGED <<otp, signup>>
        /\ \A s \in Req : s # r => req'[s] = req[s]
        /\ req'[r].pc \in {"idle", "drop"} /\ (req'[r].pc = "drop" => req'[r].user = u)
    <3>1. CASE Respond(r)
      BY <1>0, <1>8, <2>0, <3>1 DEF CreateUser, Respond, IdleRequest, signUpVars
    <3>2. CASE Goto(r, "drop")
      BY <1>0, <1>8, <2>0, <3>2 DEF CreateUser, Goto, signUpVars, Request
    <3> QED
      BY <1>8, <2>0, <3>1, <3>2 DEF CreateUser
  <2>2. Signs(r, u)
    BY <2>0, <2>1 DEF Signs, SigningUp
  <2>3. \/ UNCHANGED <<row, past>>
        \/ /\ \A v \in User : v # u => past'[v] = past[v] /\ row'[v] = row[v]
           /\ past[u] \subseteq past'[u] /\ "confirmed" \in past'[u]
           /\ req[r].read = req[r].code => "matched" \in past'[u]
    <3>1. CASE ~ UNCHANGED <<row, past>>
      <4>1. PICK active \in BOOLEAN, w \in Unlinked \cup {None}, t \in 0 .. req[r].id, live \in BOOLEAN :
              /\ row' = [row EXCEPT ![u] = SignedUp(active, w, t, live)]
              /\ Note(u, {"confirmed"} \cup When(active, "cleared")
                               \cup When(req[r].read = req[r].code, "matched"))
        BY <1>8, <2>0, <3>1 DEF CreateUser
      <4>2. \A v \in User : v # u => row'[v] = row[v]
        BY <1>0, <2>1, <4>1
      <4>3. {"confirmed"} \cup When(active, "cleared")
              \cup When(req[r].read = req[r].code, "matched") \in SUBSET Fact
        BY DEF When, Fact
      <4>4. /\ \A v \in User : v # u => past'[v] = past[v]
            /\ past'[u] = past[u] \cup ({"confirmed"} \cup When(active, "cleared")
                               \cup When(req[r].read = req[r].code, "matched"))
        BY <2>0, <2>1, <4>1, <4>3, Noted
      <4> QED
        BY <4>2, <4>4 DEF When
    <3> QED
      BY <3>1
  <2>4. \/ UNCHANGED <<row, past>>
        \/ "confirmed" \in past'[u] /\ ("matched" \in past'[u] \/ "crossed" \in past'[u])
    <3>1. "crossed" \in past[u] \/ req[r].read = req[r].code
      BY <2>1, <2>2 DEF SignUpInv, Consistent, ReadTogether
    <3> QED
      BY <2>3, <3>1
  <2>5. Matches(u)'
    BY <2>1, <2>4 DEF SignUpInv, Matches
  <2>6. ASSUME AtMostOne(u), "crossed" \notin past[u] PROVE ReadTogether(u)' /\ CachedTogether(u)'
    <3>1. \A s \in Req : Signs(s, u) => s = r
      BY <2>2, <2>6 DEF AtMostOne
    <3>2. \A s \in Req : Signs(s, u)' => s = r /\ req'[s].pc = "drop"
      BY <2>0, <2>1, <3>1 DEF Signs, SigningUp
    <3>3. CachedTogether(u)
      BY <2>6 DEF SignUpInv, Consistent
    <3> QED
      BY <2>1, <3>1, <3>2, <3>3 DEF ReadTogether, CachedTogether
  <2>7. past[u] \subseteq past'[u]
        /\ \A v \in User : v # u => past'[v] = past[v] /\ row'[v] = row[v]
    BY <2>3
  <2>8. AtMostOne(u) /\ "crossed" \notin past[u] => ReadTogether(u)' /\ CachedTogether(u)'
    BY <2>6
  <2> QED
    BY <2>8, <2>1, <2>2, <2>5, <2>7, SignUpMoves
<1>9. ASSUME NEW r \in Req, DropSignup(r) PROVE SignUpInv'
  <2>0. PICK u \in User : req[r].user = u
    BY <1>0, <1>9 DEF DropSignup
  <2>1. /\ req[r].pc = "drop" /\ u \in User /\ req'[r].pc = "idle"
        /\ \A s \in Req : s # r => req'[s] = req[s]
        /\ signup' = [signup EXCEPT ![u] = 0]
        /\ UNCHANGED <<row, otp, past>>
    BY <1>0, <1>9, <2>0, Responds DEF DropSignup, IdleRequest, historyVars
  <2>2. Signs(r, u) /\ signup'[u] = 0
    BY <2>0, <1>0, <2>1 DEF Signs, SigningUp
  <2>3. ASSUME AtMostOne(u) PROVE ReadTogether(u)' /\ CachedTogether(u)'
    <3>1. \A s \in Req : ~ Signs(s, u)'
      BY <2>1, <2>2, <2>3 DEF AtMostOne, Signs, SigningUp
    <3> QED
      BY <2>2, <3>1 DEF ReadTogether, CachedTogether
  <2>4. Matches(u)'
    BY <2>1 DEF SignUpInv, Matches
  <2> QED
    BY <1>0, <2>1, <2>2, <2>3, <2>4, SignUpMoves
<1>10. ASSUME NEW r \in Req, GoogleCreate(r) PROVE SignUpInv'
  <2>0. PICK u \in User : req[r].user = u
    BY <1>0, <1>10 DEF GoogleCreate
  <2>1. /\ req[r].pc = "google" /\ u \in User /\ req'[r].pc = "idle"
        /\ \A s \in Req : s # r => req'[s] = req[s]
        /\ UNCHANGED <<otp, signup>>
    <3>1. Respond(r)
      BY <1>10, <2>0 DEF GoogleCreate
    <3> QED
      BY <1>0, <1>10, <2>0, <3>1, Responds DEF GoogleCreate, IdleRequest, signUpVars
  <2>2. /\ \A v \in User : past[v] \subseteq past'[v]
        /\ \A v \in User : row'[v] = row[v] \/ "google" \in past'[v]
    <3>1. {"google"} \in SUBSET Fact
      BY DEF Fact
    <3>2. CASE UNCHANGED <<row, past>>
      BY <3>2
    <3>3. CASE Note(u, {"google"}) /\ row' = [row EXCEPT ![u] = NewRow(FALSE, FALSE)]
      <4>1. past'[u] = past[u] \cup {"google"} /\ \A v \in User : v # u => past'[v] = past[v]
        BY <3>1, <3>3, Noted
      <4>2. \A v \in User : v # u => row'[v] = row[v]
        BY <1>0, <3>3
      <4> QED
        BY <4>1, <4>2
    <3> QED
      BY <1>10, <2>0, <3>2, <3>3 DEF GoogleCreate
  <2>3. ASSUME NEW v \in User PROVE Matches(v)'
    BY <2>2 DEF SignUpInv, Matches
  <2>4. \A s \in Req : /\ Signs(s, u)' <=> Signs(s, u)
                       /\ \A v \in User : Signs(s, v)' <=> Signs(s, v)
                       /\ \A v \in User : Signs(s, v) => req'[s] = req[s]
    BY <2>0, <2>1 DEF Signs, SigningUp
  <2>5. ASSUME NEW v \in User, Consistent(v) PROVE Consistent(v)'
    BY <2>1, <2>4, <2>5 DEF Consistent, AtMostOne, ReadTogether, CachedTogether
  <2>6. ASSUME NEW v \in User PROVE "crossed" \in past'[v] \/ Consistent(v)'
    BY <2>2, <2>5 DEF SignUpInv
  <2> QED
    BY <2>3, <2>6 DEF SignUpInv
<1>11. ASSUME NEW u \in User, Expire(u) PROVE SignUpInv'
  <2>1. /\ \A v \in User : otp'[v] \in {otp[v], None} /\ signup'[v] \in {signup[v], 0}
        /\ UNCHANGED <<row, req, past>>
    BY <1>0, <1>11 DEF Expire, historyVars
  <2>2. ASSUME NEW v \in User, Consistent(v) PROVE Consistent(v)'
    <3>1. AtMostOne(v)'
      BY <2>1, <2>2 DEF Consistent, AtMostOne, Signs
    <3>2. ReadTogether(v)'
      BY <2>1, <2>2 DEF Consistent, ReadTogether, Signs
    <3>3. CachedTogether(v)'
      BY <2>1, <2>2 DEF Consistent, CachedTogether, Signs
    <3> QED
      BY <3>1, <3>2, <3>3 DEF Consistent
  <2>3. ASSUME NEW v \in User PROVE Matches(v)' /\ ("crossed" \in past'[v] \/ Consistent(v)')
    BY <2>1, <2>2 DEF SignUpInv, Matches
  <2> QED
    BY <2>3 DEF SignUpInv
<1>12. CASE Restart
  <2>1. /\ \A r \in Req : req'[r].pc = "idle"
        /\ \A u \in User : otp'[u] = None
        /\ UNCHANGED <<row, past>>
    BY <1>12 DEF Restart, IdleRequest, historyVars
  <2>2. ASSUME NEW v \in User PROVE Matches(v)' /\ Consistent(v)'
    BY <2>1 DEF SignUpInv, Matches, Consistent, AtMostOne, ReadTogether, CachedTogether,
                Signs, SigningUp
  <2> QED
    BY <2>2 DEF SignUpInv
<1>13. CASE ~SignUpStep
  <2>1. SameSignUps
    BY <1>13, OthersLeaveSignUps
  <2>2. \A r \in Req, v \in User : /\ Signs(r, v)' <=> Signs(r, v)
                                   /\ Signs(r, v) => req'[r] = req[r]
    BY <2>1 DEF SameSignUps, Signs
  <2>3. ASSUME NEW v \in User, Consistent(v) PROVE Consistent(v)'
    BY <2>1, <2>2, <2>3 DEF SameSignUps, Consistent, AtMostOne, ReadTogether, CachedTogether
  <2>4. ASSUME NEW v \in User PROVE Matches(v)' /\ ("crossed" \in past'[v] \/ Consistent(v)')
    BY <2>1, <2>3 DEF SameSignUps, SignUpInv, Matches
  <2> QED
    BY <2>4 DEF SignUpInv
<1> QED
  BY <1>1, <1>2, <1>3, <1>4, <1>5, <1>6, <1>7, <1>8, <1>9, <1>10, <1>11, <1>12, <1>13
     DEF SignUpStep

(* Whatever is cached, resent, expired or lost in a restart, an account is *)
(* made of the data whose code was confirmed, unless sign-ups of that      *)
(* address overlapped.  (AuthService.verifySignup.)                        *)
THEOREM AccountMatches == Spec => []AccountMatchesCode
<1>1. SignUpInv => AccountMatchesCode
  BY DEF SignUpInv, Matches, AccountMatchesCode
<1>2. TypeInv /\ SignUpInv /\ [Next]_vars => SignUpInv'
  BY SignUpKept
<1> QED
  BY <1>1, <1>2, SignUpInit, TypeInit, TypeStep, PTL DEF Spec
-----------------------------------------------------------------------------
(* KYC and the blacklist.  A row that is not there is empty; whoever a     *)
(* request, a document or the event handler has been given does have one.  *)
Held == {"forgot", "reset", "session", "webhook", "review"}

Known ==
  /\ \A u \in User : ~row[u].exists => row[u] = NoRow
  /\ \A r \in Req : req[r].pc \in Held => row[req[r].user].exists
  /\ \A q \in Doc : doc[q].status # "ABSENT" => row[doc[q].user].exists
  /\ ev.step # 0 => row[ev.user].exists
  /\ \A i \in DOMAIN log : log[i].kind \in BlacklistAction => log[i].wallet # None

KycStep ==
  \/ \E r \in Req : KycNext(r) \/ SaveSession(r) \/ FinishWebhook(r) \/ CommitReview(r)
                    \/ CreateUser(r) \/ GoogleCreate(r)
  \/ \E u \in User : Serve(u)
  \/ ListenBlacklist \/ WriteStatus \/ CloseEntries \/ CreateEntry

(* No account is made, and no status, session, entry or decision changes.  *)
KycSame ==
  /\ \A u \in User :
       /\ row'[u] = row[u]
          \/ /\ row[u].exists /\ row'[u].exists
             /\ row'[u].kyc = row[u].kyc /\ row'[u].active = row[u].active
             /\ row'[u].session = row[u].session
       /\ past'[u] = past[u] \/ past'[u] = past[u] \cup {"crossed"}
  /\ entry' = entry /\ owner' = owner
  /\ \A r \in Req : req'[r].pc \in Held =>
       \/ req'[r].pc = req[r].pc /\ req'[r].user = req[r].user /\ req'[r].id = req[r].id
       \/ req'[r].pc \in {"forgot", "reset"} /\ row[req'[r].user].exists
  /\ \A q \in Doc : doc'[q].status # "ABSENT" =>
       \/ doc[q].status # "ABSENT" /\ doc'[q].user = doc[q].user
       \/ row[doc'[q].user].exists
  /\ ev' = ev \/ ev'.step = 0
  /\ \A i \in DOMAIN log' : log'[i].kind \in BlacklistAction => log'[i].wallet # None

LEMMA OthersLeaveKyc ==
  ASSUME TypeInv, Known, [Next]_vars, ~KycStep
  PROVE  KycSame
<1>0. /\ req \in [Req -> Request] /\ row \in [User -> Row] /\ past \in [User -> SUBSET Fact]
      /\ doc \in [Doc -> DocRow] /\ log \in Seq(Event)
      /\ \A r \in Req : req[r].pc # "idle" => req[r].user \in User
      /\ \A i \in DOMAIN log : log[i].kind \in BlacklistAction => log[i].wallet # None
      /\ \A u \in User : ~row[u].exists => row[u] = NoRow
      /\ NoRow.token = 0 /\ NoRow.live = FALSE /\ NoRow.hasPass = FALSE
  BY DEF TypeInv, TypeOK, Serving, Known, NoRow, NewRow
<1> USE <1>0 DEF signUpVars, listenVars, historyVars, KycSame, Held, Note, When,
                 Goto, Respond, Begin, At, Idle, IdleRequest, Request, Row
<1>1. ASSUME NEW r \in Req, Continue(r) PROVE KycSame
  <2>1. CASE StoreSignup(r)
    BY <2>1 DEF StoreSignup
  <2>2. CASE SendCode(r)
    BY <2>2 DEF SendCode
  <2>3. CASE BurnCode(r)
    BY <2>3 DEF BurnCode
  <2>4. CASE ReadSignup(r)
    <3>1. /\ row' = row /\ past' = past /\ entry' = entry /\ owner' = owner
          /\ doc' = doc /\ ev' = ev /\ log' = log
      BY <2>4 DEF ReadSignup
    <3>2. CASE Respond(r)
      BY <3>1, <3>2
    <3>3. CASE req' = [req EXCEPT ![r].pc = "create", ![r].read = signup[req[r].user]]
      <4>1. \A s \in Req : s # r => req'[s] = req[s]
        BY <3>3
      <4>2. req'[r].pc = "create"
        BY <3>3
      <4>3. \A s \in Req : req'[s].pc \in Held => req'[s] = req[s]
        BY <4>1, <4>2
      <4> QED
        BY <3>1, <4>3
    <3> QED
      BY <2>4, <3>2, <3>3 DEF ReadSignup
  <2>5. CASE DropSignup(r)
    BY <2>5 DEF DropSignup
  <2>6. CASE SaveToken(r)
    BY <2>6 DEF SaveToken, Known
  <2>7. CASE FinishReset(r)
    BY <2>7 DEF FinishReset, Known
  <2>8. CASE Fail(r)
    BY <2>8 DEF Fail
  <2> QED
    BY <1>1, <2>1, <2>2, <2>3, <2>4, <2>5, <2>6, <2>7, <2>8 DEF Continue, KycStep
<1>2. ASSUME NEW r \in Req, NEW u \in User, SignUpNext(r, u) PROVE KycSame
  <2>1. CASE StartRegister(r, u)
    BY <2>1 DEF StartRegister, BeginSignUp
  <2>2. CASE StartResend(r, u)
    BY <2>2 DEF StartResend, BeginSignUp
  <2>3. CASE \E c \in Code : StartVerify(r, u, c)
    BY <2>3 DEF StartVerify, BeginSignUp
  <2>4. CASE StartGoogle(r, u)
    BY <2>4 DEF StartGoogle
  <2>5. CASE StartForgot(r, u)
    BY <2>5 DEF StartForgot
  <2>6. CASE StartReset(r, u)
    BY <2>6 DEF StartReset
  <2> QED
    BY <1>2, <2>1, <2>2, <2>3, <2>4, <2>5, <2>6 DEF SignUpNext
<1>3. ASSUME NEW u \in User, UserNext(u), ~Serve(u) PROVE KycSame
  <2>1. CASE Expire(u)
    BY <2>1 DEF Expire
  <2>2. CASE ExpireToken(u)
    BY <2>2 DEF ExpireToken
  <2>3. CASE CompleteProfile(u)
    BY <2>3 DEF CompleteProfile
  <2>4. ASSUME NEW w \in Wallet, LinkWallet(u, w) PROVE KycSame
    BY <2>4 DEF LinkWallet
  <2>5. ASSUME NEW q \in Doc, CreateRequest(q, u) PROVE KycSame
    BY <2>5 DEF CreateRequest, DocRow
  <2> QED
    BY <1>3, <2>1, <2>2, <2>3, <2>4, <2>5 DEF UserNext
<1>4. ASSUME NEW q \in Doc, RemoveRequest(q) PROVE KycSame
  BY <1>4 DEF RemoveRequest, DocRow
<1>5. CASE ListenNext
  <2>1. ASSUME NEW e \in Event, Emit(e) PROVE KycSame
    <3>1. \A i \in DOMAIN log' : log'[i] = e \/ (i \in DOMAIN log /\ log'[i] = log[i])
      <4>1. log' = Append(log, e)
        BY <2>1 DEF Emit
      <4>2. /\ Len(log) \in Nat /\ DOMAIN log = 1 .. Len(log)
            /\ DOMAIN log' = 1 .. Len(log) + 1 /\ log'[Len(log) + 1] = e
            /\ \A i \in 1 .. Len(log) : log'[i] = log[i]
        BY <1>0, <4>1
      <4>3. \A i \in 1 .. Len(log) + 1 : i = Len(log) + 1 \/ i \in 1 .. Len(log)
        BY <4>2
      <4> QED
        BY <4>2, <4>3
    <3>2. e.kind \in BlacklistAction => e.wallet # None
      BY <2>1 DEF Emit
    <3> QED
      BY <2>1, <3>1, <3>2 DEF Emit
  <2>2. CASE ListenPause \/ ListenLost
    BY <2>2 DEF ListenPause, ListenLost
  <2>3. CASE HandlerFails
    BY <2>3 DEF HandlerFails, CutOff, IdleHandler
  <2> QED
    BY <1>5, <2>1, <2>2, <2>3 DEF ListenNext, KycStep
<1>6. CASE Restart
  BY <1>6 DEF Restart, CutOff, IdleHandler
<1>7. CASE UNCHANGED vars
  BY <1>7 DEF vars
<1> QED
  BY <1>1, <1>2, <1>3, <1>4, <1>5, <1>6, <1>7 DEF Next, KycStep

LEMMA KnownInit == Init => Known
<1> SUFFICES ASSUME Init PROVE Known
  OBVIOUS
<1>1. \A u \in User : ~row[u].exists => row[u] = NoRow
  <2>1. NewRow(FALSE, TRUE).exists = TRUE
    BY DEF NewRow
  <2> QED
    BY <2>1 DEF Init
<1> QED
  BY <1>1 DEF Known, Held, Init, IdleRequest, NoDoc, IdleHandler

(* A KYC session is known by the number of the start that stored it.       *)
Sessions ==
  /\ \A s \in Call : owner[s] # None => s \in 1 .. calls
  /\ \A u \in User : row[u].session # 0 => owner[row[u].session] = u
  /\ \A r \in Req : req[r].pc = "session" => owner[req[r].id] = None

(* Whom a webhook concerns.                                                *)
LEMMA WebhookConcerns ==
  ASSUME TypeInv, Known, Sessions, NEW s \in Call, owner[s] # None,
         NEW u \in User, row[u].session = s
  PROVE  row[u].exists /\ owner[s] = u
<1>1. s # 0
  BY DEF Sessions
<1>2. NoRow.session = 0
  BY DEF NoRow, NewRow
<1> QED
  BY <1>1, <1>2 DEF Known, Sessions

(* A row is written only to be there, and whoever is newly held has one.   *)
KnownMoves ==
  /\ \A u \in User : row'[u] = row[u] \/ row'[u].exists
  /\ \A r \in Req : req'[r].pc \in Held =>
       \/ req'[r].pc = req[r].pc /\ req'[r].user = req[r].user
       \/ req'[r].user \in User /\ row[req'[r].user].exists
  /\ \A q \in Doc : doc'[q].status # "ABSENT" =>
       doc[q].status # "ABSENT" /\ doc'[q].user = doc[q].user
  /\ ev' = ev \/ ev'.step = 0 \/ (ev'.user \in User /\ row[ev'.user].exists)
  /\ log' = log

LEMMA KnownMoved ==
  ASSUME TypeInv, Known, KnownMoves
  PROVE  Known'
<1>0. /\ \A r \in Req : req[r].pc # "idle" => req[r].user \in User
      /\ \A q \in Doc : doc[q].status # "ABSENT" => doc[q].user \in User
  BY DEF TypeInv, Serving, Reviewing
<1>1. \A u \in User : row[u].exists => row'[u].exists
  BY DEF KnownMoves
<1>2. \A u \in User : ~row'[u].exists => row'[u] = NoRow
  BY DEF Known, KnownMoves
<1>3. ASSUME NEW r \in Req, req'[r].pc \in Held PROVE row'[req'[r].user].exists
  <2>1. CASE req'[r].pc = req[r].pc /\ req'[r].user = req[r].user
    <3>1. req[r].pc \in Held /\ req[r].pc # "idle"
      BY <1>3, <2>1 DEF Held
    <3> QED
      BY <1>0, <1>1, <2>1, <3>1 DEF Known
  <2> QED
    BY <1>1, <1>3, <2>1 DEF KnownMoves
<1>4. \A q \in Doc : doc'[q].status # "ABSENT" => row'[doc'[q].user].exists
  BY <1>0, <1>1 DEF Known, KnownMoves
<1>5. ev'.step # 0 => row'[ev'.user].exists
  BY <1>1 DEF Known, KnownMoves, TypeInv, Handling
<1> QED
  BY <1>2, <1>3, <1>4, <1>5 DEF Known, KnownMoves

LEMMA KnownKept == TypeInv /\ Known /\ Sessions /\ [Next]_vars => Known'
<1> SUFFICES ASSUME TypeInv, Known, Sessions, [Next]_vars PROVE Known'
  OBVIOUS
<1>0. /\ req \in [Req -> Request] /\ row \in [User -> Row] /\ doc \in [Doc -> DocRow]
      /\ log \in Seq(Event) /\ heard \in 0 .. Len(log)
      /\ \A r \in Req : req[r].pc # "idle" => req[r].user \in User
      /\ \A q \in Doc : doc[q].status # "ABSENT" => doc[q].user \in User
  BY DEF TypeInv, TypeOK, Serving, Reviewing
<1> USE DEF signUpVars, listenVars, historyVars
<1>2. ASSUME NEW r \in Req, KycNext(r) PROVE Known'
  <2>1. ASSUME NEW u \in User, StartKyc(r, u) PROVE Known'
    <3>1. /\ req'[r].user = u /\ \A s \in Req : s # r => req'[s] = req[s]
          /\ row[u].exists /\ UNCHANGED <<row, doc, ev, log>>
      BY <1>0, <2>1 DEF StartKyc, MayStart, Begin, At, IdleRequest, Request
    <3> QED
      BY <1>0, <3>1, KnownMoved DEF KnownMoves
  <2>2. ASSUME NEW s \in Call, NEW says \in {"approved", "declined"}, StartWebhook(r, s, says)
        PROVE  Known'
    <3>1. PICK u \in User : row[u].session = s /\ Begin(r, At("webhook", u))
      BY <2>2 DEF StartWebhook
    <3>2. row[u].exists
      BY <2>2, <3>1, WebhookConcerns DEF StartWebhook
    <3>3. /\ req'[r].user = u /\ \A t \in Req : t # r => req'[t] = req[t]
          /\ UNCHANGED <<row, doc, ev, log>>
      BY <1>0, <2>2, <3>1 DEF StartWebhook, Begin, At, IdleRequest, Request
    <3> QED
      BY <3>2, <3>3, KnownMoved DEF KnownMoves
  <2>3. ASSUME NEW q \in Doc, NEW says \in {"APPROVED", "REJECTED"}, StartReview(r, q, says)
        PROVE  Known'
    <3>1. doc[q].user \in User /\ row[doc[q].user].exists
      BY <1>0, <2>3 DEF StartReview, MayDecide, Known
    <3>2. /\ req'[r].user = doc[q].user /\ \A t \in Req : t # r => req'[t] = req[t]
      BY <1>0, <2>3 DEF StartReview, Begin, At, IdleRequest, Request
    <3>3. /\ \A t \in Doc : doc'[t].status = doc[t].status /\ doc'[t].user = doc[t].user
          /\ UNCHANGED <<row, ev, log>>
      BY <1>0, <2>3 DEF StartReview, DocRow
    <3> QED
      BY <3>1, <3>2, <3>3, KnownMoved DEF KnownMoves
  <2> QED
    BY <1>2, <2>1, <2>2, <2>3 DEF KycNext
<1>3. ASSUME NEW r \in Req,
             SaveSession(r) \/ FinishWebhook(r) \/ CommitReview(r) \/ GoogleCreate(r)
      PROVE  Known'
  <2>1. Respond(r) /\ UNCHANGED <<ev, log>>
    BY <1>3 DEF SaveSession, FinishWebhook, CommitReview, GoogleCreate
  <2>2. req'[r].pc = "idle" /\ \A s \in Req : s # r => req'[s] = req[s]
    BY <2>1, Responds DEF IdleRequest
  <2>3. PICK u \in User : req[r].user = u
    BY <1>0, <1>3 DEF SaveSession, FinishWebhook, CommitReview, GoogleCreate
  <2>4. ~GoogleCreate(r) => row[u].exists
    BY <1>3, <2>3 DEF SaveSession, FinishWebhook, CommitReview, Known, Held
  <2>5. \A v \in User : row'[v] = row[v] \/ row'[v].exists
    <3>1. CASE SaveSession(r)
      BY <1>0, <2>3, <2>4, <3>1 DEF SaveSession, Row, GoogleCreate
    <3>2. CASE FinishWebhook(r)
      BY <1>0, <2>3, <2>4, <3>2 DEF FinishWebhook, Row, GoogleCreate
    <3>3. CASE CommitReview(r)
      BY <1>0, <2>3, <2>4, <3>3 DEF CommitReview, Row, GoogleCreate
    <3>4. CASE GoogleCreate(r)
      BY <1>0, <2>3, <3>4 DEF GoogleCreate, NewRow
    <3> QED
      BY <1>3, <3>1, <3>2, <3>3, <3>4
  <2>6. \A q \in Doc : doc'[q].status # "ABSENT" =>
          doc[q].status # "ABSENT" /\ doc'[q].user = doc[q].user
    <3>1. CASE CommitReview(r)
      <4>1. req[r].doc \in Doc /\ doc[req[r].doc].status # "ABSENT"
        BY <3>1 DEF CommitReview, TypeInv, Reviewing
      <4>2. CASE doc' = [doc EXCEPT ![req[r].doc].status = req[r].says]
        BY <1>0, <4>1, <4>2 DEF DocRow
      <4> QED
        BY <3>1, <4>2 DEF CommitReview
    <3> QED
      BY <1>3, <3>1 DEF SaveSession, FinishWebhook, GoogleCreate
  <2> QED
    BY <2>1, <2>2, <2>5, <2>6, KnownMoved DEF KnownMoves, Held
<1>4. ASSUME NEW r \in Req, CreateUser(r) PROVE Known'
  <2>1. req'[r].pc \notin Held /\ \A s \in Req : s # r => req'[s] = req[s]
    <3>1. CASE Respond(r)
      BY <3>1, Responds DEF IdleRequest, Held
    <3>2. CASE Goto(r, "drop")
      BY <1>0, <3>2 DEF Goto, Held, Request
    <3> QED
      BY <1>4, <3>1, <3>2 DEF CreateUser
  <2>2. PICK u \in User : req[r].user = u
    BY <1>0, <1>4 DEF CreateUser
  <2>3. \A v \in User : row'[v] = row[v] \/ row'[v].exists
    <3>1. CASE row' # row
      <4>1. PICK a \in BOOLEAN, w \in Unlinked \cup {None}, t \in 0 .. req[r].id, live \in BOOLEAN :
              row' = [row EXCEPT ![u] = SignedUp(a, w, t, live)]
        BY <1>4, <2>2, <3>1, Creation
      <4> QED
        BY <1>0, <4>1, SignUpRow
    <3> QED
      BY <3>1
  <2> QED
    BY <1>4, <2>1, <2>3, KnownMoved DEF KnownMoves, CreateUser
<1>5. ASSUME NEW u \in User, Serve(u) PROVE Known'
  BY <1>5, KnownMoved DEF KnownMoves, Serve
<1>6. CASE ListenBlacklist
  <2>1. /\ UNCHANGED <<row, doc, req, log>> /\ log[heard + 1].kind \in BlacklistAction
        /\ heard + 1 \in DOMAIN log
    BY <1>0, <1>6 DEF ListenBlacklist
  <2>2. log[heard + 1].wallet # None
    BY <2>1 DEF Known
  <2>3. NoRow.wallet = None
    BY DEF NoRow, NewRow
  <2>4. ev' = ev \/ ev'.step = 0 \/ (ev'.user \in User /\ row[ev'.user].exists)
    <3>1. CASE ev' # ev
      <4>1. PICK u \in User : row[u].wallet = log[heard + 1].wallet
                              /\ ev' = [kind |-> log[heard + 1].kind, user |-> u, step |-> 1]
        BY <1>6, <3>1 DEF ListenBlacklist
      <4> QED
        BY <2>2, <2>3, <4>1 DEF Known
    <3> QED
      BY <3>1
  <2> QED
    BY <2>1, <2>4, KnownMoved DEF KnownMoves
<1>7. CASE WriteStatus \/ CloseEntries \/ CreateEntry
  <2>1. ev.user \in User /\ ev.step # 0 /\ UNCHANGED <<doc, req, log>>
    BY <1>7, Proceeds DEF WriteStatus, CloseEntries, CreateEntry
  <2>2. row[ev.user].exists
    BY <2>1 DEF Known
  <2>3. ev'.step = 0 \/ ev'.user = ev.user
    <3>1. CASE ev' = IdleHandler
      BY <3>1 DEF IdleHandler
    <3>2. CASE ev' = [ev EXCEPT !.step = @ + 1]
      BY <3>2 DEF TypeInv, TypeOK, Handler
    <3> QED
      BY <1>7, <3>1, <3>2 DEF WriteStatus, CloseEntries, CreateEntry, Proceed
  <2>4. \A u \in User : row'[u] = row[u] \/ row'[u].exists
    BY <1>0, <1>7, <2>1, <2>2 DEF WriteStatus, CloseEntries, CreateEntry, Row
  <2> QED
    BY <2>1, <2>2, <2>3, <2>4, KnownMoved DEF KnownMoves
<1>8. CASE ~KycStep
  <2>1. KycSame
    BY <1>8, OthersLeaveKyc
  <2>2. \A u \in User : row[u].exists => row'[u].exists
    BY <2>1 DEF KycSame
  <2>3. \A u \in User : ~row'[u].exists => row'[u] = NoRow
    BY <2>1 DEF KycSame, Known
  <2>4. TypeInv'
    BY TypeStep
  <2>5. ASSUME NEW r \in Req, req'[r].pc \in Held PROVE row'[req'[r].user].exists
    <3>1. req'[r].user \in User
      BY <2>4, <2>5 DEF TypeInv, Serving, Held
    <3> QED
      BY <2>1, <2>2, <2>5, <3>1 DEF KycSame, Known
  <2>6. ASSUME NEW q \in Doc, doc'[q].status # "ABSENT" PROVE row'[doc'[q].user].exists
    <3>1. doc'[q].user \in User
      BY <2>4, <2>6 DEF TypeInv, Reviewing
    <3> QED
      BY <2>1, <2>2, <2>6, <3>1 DEF KycSame, Known
  <2>7. ev'.step # 0 => row'[ev'.user].exists
    BY <2>1, <2>2 DEF KycSame, Known, TypeInv, Handling
  <2> QED
    BY <2>1, <2>3, <2>5, <2>6, <2>7 DEF KycSame, Known
<1> QED
  BY <1>2, <1>3, <1>4, <1>5, <1>6, <1>7, <1>8 DEF KycStep
-----------------------------------------------------------------------------
Earned(u) == "approved" \in past[u] \/ "unlisted" \in past[u]

(* What the status of a user, and the service it gets, stand on.           *)
StatusInv(u) ==
  /\ ~row[u].exists => "verified" \notin past[u]
  /\ row[u].kyc = "VERIFIED" => Earned(u)
  /\ row[u].active => "cleared" \in past[u]
  /\ "served" \in past[u] => "cleared" \in past[u] /\ Earned(u)
  /\ "verified" \in past[u] =>
       row[u].kyc = "VERIFIED" \/ "listed" \in past[u] \/ "restarted" \in past[u]

(* What a request in flight will write is accounted for already ...        *)
RequestInv ==
  \A r \in Req :
    /\ req[r].pc = "webhook" => "approved" \in past[req[r].user]
    /\ req[r].pc = "session" /\ "verified" \in past[req[r].user] =>
         "restarted" \in past[req[r].user] \/ "listed" \in past[req[r].user]

(* ... and so is what the handler of the listener will.                    *)
HandlerInv ==
  ev.step # 0 =>
    /\ ev.kind = "ADDED" => "listed" \in past[ev.user]
    /\ ev.kind = "REMOVED" => "unlisted" \in past[ev.user]

KycInv == Known /\ Sessions /\ (\A u \in User : StatusInv(u)) /\ RequestInv /\ HandlerInv

LEMMA KycInit == Init => KycInv
<1> SUFFICES ASSUME Init PROVE KycInv
  OBVIOUS
<1>1. Known
  BY KnownInit
<1>2. \A u \in User : /\ row[u].kyc = "UNVERIFIED" /\ ~row[u].active /\ row[u].session = 0
                      /\ past[u] \subseteq {"confirmed", "matched"}
  <2>1. \A a \in {FALSE}, p \in BOOLEAN :
          NewRow(a, p).kyc = "UNVERIFIED" /\ ~NewRow(a, p).active /\ NewRow(a, p).session = 0
    BY DEF NewRow
  <2>2. NoRow.kyc = "UNVERIFIED" /\ ~NoRow.active /\ NoRow.session = 0
    BY DEF NoRow, NewRow
  <2> QED
    BY <2>1, <2>2 DEF Init
<1>3. Sessions /\ RequestInv /\ HandlerInv
  BY <1>2 DEF Sessions, RequestInv, HandlerInv, Init, IdleRequest, IdleHandler
<1>4. \A u \in User : StatusInv(u)
  BY <1>2 DEF StatusInv
<1> QED
  BY <1>1, <1>3, <1>4 DEF KycInv

(* A user keeps what stands if nothing is written and facts are added that *)
(* say no more of it.                                                      *)
LEMMA StatusStays ==
  ASSUME NEW u \in User, StatusInv(u),
         row'[u].exists = row[u].exists, row'[u].kyc = row[u].kyc, row'[u].active = row[u].active,
         past[u] \subseteq past'[u],
         "verified" \in past'[u] => "verified" \in past[u],
         "served" \in past'[u] => "served" \in past[u]
  PROVE  StatusInv(u)'
BY DEF StatusInv, Earned

(* Requests: whoever goes on keeps what it holds, and nobody is noted as   *)
(* VERIFIED without the starts in flight.                                  *)
RequestsGoOn ==
  /\ \A u \in User : past[u] \subseteq past'[u]
  /\ \A r \in Req : req'[r].pc \in {"webhook", "session"} =>
       req'[r].pc = req[r].pc /\ req'[r].user = req[r].user /\ req'[r].user \in User
  /\ \A r \in Req : req'[r].pc = "session" /\ "verified" \in past'[req'[r].user] =>
       "verified" \in past[req'[r].user] \/ "restarted" \in past'[req'[r].user]

LEMMA RequestsStay ==
  ASSUME RequestInv, RequestsGoOn
  PROVE  RequestInv'
BY DEF RequestInv, RequestsGoOn

LEMMA HandlerStays ==
  ASSUME TypeInv, HandlerInv, ev' = ev \/ ev'.step = 0,
         \A u \in User : past[u] \subseteq past'[u]
  PROVE  HandlerInv'
BY DEF HandlerInv, TypeInv, Handling

LEMMA SessionsStay ==
  ASSUME TypeInv, Sessions, owner' = owner, calls' \in {calls, calls + 1},
         \A u \in User : row'[u].session \in {row[u].session, 0},
         \A r \in Req : req'[r].pc = "session" => req[r].pc = "session" /\ req'[r].id = req[r].id
  PROVE  Sessions'
<1>1. calls \in Nat
  BY Constant DEF TypeInv, TypeOK
<1>2. \A s \in Call : owner[s] # None => s \in 1 .. calls'
  BY <1>1 DEF Sessions
<1> QED
  BY <1>2 DEF Sessions

LEMMA KycKept == TypeInv /\ Numbered /\ KycInv /\ [Next]_vars => KycInv'
<1> SUFFICES ASSUME TypeInv, Numbered, KycInv, [Next]_vars PROVE KycInv'
  OBVIOUS
<1>0. /\ req \in [Req -> Request] /\ row \in [User -> Row] /\ past \in [User -> SUBSET Fact]
      /\ owner \in [Call -> User \cup {None}] /\ calls \in Nat /\ None \notin User
      /\ ev \in Handler
      /\ \A r \in Req : req[r].pc # "idle" => req[r].user \in User /\ req[r].id \in 1 .. calls
      /\ calls' \in {calls, calls + 1}
  BY Constant, NumbersKept DEF TypeInv, TypeOK, Serving, KeepNumbers
<1>90. Known' /\ Known /\ Sessions /\ RequestInv /\ HandlerInv /\ \A u \in User : StatusInv(u)
  BY KnownKept DEF KycInv
<1> USE DEF signUpVars, listenVars, historyVars
<1>1. ASSUME NEW r \in Req, NEW u \in User, StartKyc(r, u) PROVE KycInv'
  <2>1. /\ req'[r].pc = "session" /\ req'[r].user = u /\ req'[r].id = calls + 1
        /\ \A s \in Req : s # r => req'[s] = req[s]
        /\ calls' = calls + 1 /\ row[u].kyc # "VERIFIED"
        /\ UNCHANGED <<row, past, entry, owner, ev>>
    BY <1>0, <1>1 DEF StartKyc, MayStart, Begin, At, IdleRequest, Request
  <2>2. Sessions'
    <3>1. owner[calls + 1] = None
      <4>1. calls + 1 \in Call
        BY <2>1, TypeStep DEF TypeInv, TypeOK
      <4> QED
        BY <1>0, <1>90, <4>1 DEF Sessions
    <3>2. \A s \in Call : owner[s] # None => s \in 1 .. calls'
      BY <1>0, <1>90, <2>1 DEF Sessions
    <3> QED
      BY <1>90, <2>1, <3>1, <3>2 DEF Sessions
  <2>3. RequestInv'
    <3>1. "verified" \in past[u] => "listed" \in past[u] \/ "restarted" \in past[u]
      BY <1>90, <2>1 DEF StatusInv
    <3> QED
      BY <1>90, <2>1, <3>1 DEF RequestInv
  <2>4. HandlerInv' /\ \A v \in User : StatusInv(v)'
    BY <1>90, <2>1 DEF HandlerInv, StatusInv, Earned
  <2> QED
    BY <1>90, <2>2, <2>3, <2>4 DEF KycInv
<1>2. ASSUME NEW r \in Req, NEW s \in Call, NEW says \in {"approved", "declined"},
             StartWebhook(r, s, says)
      PROVE  KycInv'
  <2>1. PICK u \in User : /\ row[u].session = s /\ Begin(r, At("webhook", u))
                          /\ IsApproval(says)
    BY <1>2 DEF StartWebhook
  <2>2. owner[s] = u /\ Note(u, {"approved"})
    <3>1. owner[s] = u
      BY <1>2, <1>90, <2>1, WebhookConcerns DEF StartWebhook
    <3>2. When(says = "approved", "approved") = {"approved"}
      BY <2>1 DEF IsApproval, When
    <3> QED
      BY <1>2, <3>1, <3>2 DEF StartWebhook
  <2>3. /\ req'[r].pc = "webhook" /\ req'[r].user = u
        /\ \A t \in Req : t # r => req'[t] = req[t]
        /\ UNCHANGED <<row, entry, owner, ev>>
    BY <1>0, <1>2, <2>1 DEF StartWebhook, Begin, At, IdleRequest, Request
  <2>4. past'[u] = past[u] \cup {"approved"} /\ \A v \in User : v # u => past'[v] = past[v]
    <3>1. {"approved"} \in SUBSET Fact
      BY DEF Fact
    <3> QED
      BY <2>2, <3>1, Noted
  <2>5. Sessions'
    BY <1>0, <1>90, <2>3, SessionsStay
  <2>6. RequestInv'
    BY <1>0, <1>90, <2>3, <2>4 DEF RequestInv
  <2>7. HandlerInv'
    <3>1. \A v \in User : past[v] \subseteq past'[v]
      BY <2>4
    <3> QED
      BY <1>90, <2>3, <3>1, HandlerStays
  <2>8. ASSUME NEW v \in User PROVE StatusInv(v)'
    BY <1>90, <2>3, <2>4, StatusStays
  <2> QED
    BY <1>90, <2>5, <2>6, <2>7, <2>8 DEF KycInv
<1>3. ASSUME NEW r \in Req, SaveSession(r) PROVE KycInv'
  <2>0. PICK u \in User : req[r].user = u
    BY <1>0, <1>3 DEF SaveSession
  <2>1. /\ req[r].pc = "session" /\ req'[r].pc = "idle" /\ calls' = calls
        /\ \A s \in Req : s # r => req'[s] = req[s]
        /\ UNCHANGED <<past, ev>>
    BY <1>3, Responds DEF SaveSession, IdleRequest
  <2>2. /\ row'[u].exists = row[u].exists /\ row'[u].kyc = "PENDING"
        /\ row'[u].active = row[u].active /\ row'[u].session = req[r].id
        /\ \A v \in User : v # u => row'[v] = row[v]
    BY <1>0, <1>3, <2>0 DEF SaveSession, Row
  <2>4. Sessions'
    <3>1. /\ req[r].id \in Call /\ req[r].id \in 1 .. calls /\ owner[req[r].id] = None
          /\ owner' = [owner EXCEPT ![req[r].id] = u]
      BY <1>0, <1>3, <1>90, <2>0, <2>1 DEF SaveSession, Sessions, Request
    <3>2. \A v \in User : row[v].session # 0 => row[v].session # req[r].id
      BY <1>0, <1>90, <3>1 DEF Sessions
    <3>3. \A s \in Req : s # r /\ req[s].pc = "session" => req[s].id # req[r].id
      BY <2>1 DEF Numbered, Idle
    <3>4. \A s \in Call : owner'[s] = IF s = req[r].id THEN u ELSE owner[s]
      BY <1>0, <3>1
    <3>5. \A v \in User : row[v].session \in Call
      BY <1>0 DEF Row
    <3>6. \A s \in Req : req[s].pc = "session" => req[s].id \in Call
      BY <1>0 DEF Request
    <3>7. \A v \in User : row'[v].session # 0 => owner'[row'[v].session] = v
      BY <1>90, <2>2, <3>1, <3>2, <3>4, <3>5 DEF Sessions
    <3>8. \A s \in Req : req'[s].pc = "session" => owner'[req'[s].id] = None
      BY <1>90, <2>1, <3>3, <3>4, <3>6 DEF Sessions
    <3>9. \A s \in Call : owner'[s] # None => s \in 1 .. calls'
      BY <1>90, <2>1, <3>1, <3>4 DEF Sessions
    <3> QED
      BY <3>7, <3>8, <3>9 DEF Sessions
  <2>5. "verified" \in past[u] => "listed" \in past[u] \/ "restarted" \in past[u]
    BY <1>90, <2>0, <2>1 DEF RequestInv
  <2>6. StatusInv(u)'
    BY <1>90, <2>1, <2>2, <2>5 DEF StatusInv, Earned
  <2>7. ASSUME NEW v \in User, v # u PROVE StatusInv(v)'
    BY <1>90, <2>1, <2>2, <2>7, StatusStays
  <2>8. RequestInv'
    <3>1. RequestsGoOn
      BY <1>0, <2>1 DEF RequestsGoOn
    <3> QED
      BY <1>90, <3>1, RequestsStay
  <2>9. HandlerInv'
    BY <1>90, <2>1, HandlerStays
  <2> QED
    BY <1>90, <2>4, <2>6, <2>7, <2>8, <2>9 DEF KycInv
<1>4. ASSUME NEW r \in Req, NEW q \in Doc, NEW says \in {"APPROVED", "REJECTED"}, StartReview(r, q, says)
      PROVE  KycInv'
  <2>1. /\ req'[r].pc = "review" /\ \A s \in Req : s # r => req'[s] = req[s]
        /\ UNCHANGED <<row, past, entry, owner, ev>>
    BY <1>0, <1>4 DEF StartReview, Begin, At, IdleRequest, Request
  <2>2. Sessions'
    BY <1>0, <1>90, <2>1, SessionsStay
  <2>3. RequestInv' /\ HandlerInv'
    BY <1>90, <2>1 DEF RequestInv, HandlerInv
  <2>4. \A u \in User : StatusInv(u)'
    BY <1>90, <2>1 DEF StatusInv, Earned
  <2> QED
    BY <1>90, <2>2, <2>3, <2>4 DEF KycInv
<1>5. ASSUME NEW r \in Req, FinishWebhook(r) PROVE KycInv'
  <2>0. PICK u \in User : req[r].user = u
    BY <1>0, <1>5 DEF FinishWebhook
  <2>1. /\ req[r].pc = "webhook" /\ req'[r].pc = "idle" /\ calls' = calls
        /\ \A s \in Req : s # r => req'[s] = req[s]
        /\ UNCHANGED <<entry, ev, owner>>
    BY <1>5, Responds DEF FinishWebhook, IdleRequest
  <2>2. /\ row'[u].exists = row[u].exists /\ row'[u].kyc = "VERIFIED"
        /\ row'[u].active = row[u].active /\ row'[u].session = row[u].session
        /\ \A v \in User : v # u => row'[v] = row[v]
    BY <1>0, <1>5, <2>0 DEF FinishWebhook, Row
  <2>3. PICK F \in SUBSET Fact :
          /\ F = {"verified"} \cup When(\E s \in Req : req[s].user = u /\ req[s].pc = "session", "restarted")
          /\ past'[u] = past[u] \cup F
          /\ \A v \in User : v # u => past'[v] = past[v]
    <3> DEFINE F == Verifying(u)
    <3>1. F \in SUBSET Fact
      BY DEF Verifying, When, Fact
    <3>2. Note(u, F)
      BY <1>5, <2>0 DEF FinishWebhook
    <3>3. F = {"verified"} \cup When(\E s \in Req : req[s].user = u /\ req[s].pc = "session", "restarted")
      BY DEF Verifying
    <3>4. past'[u] = past[u] \cup F /\ \A v \in User : v # u => past'[v] = past[v]
      <4> HIDE DEF F
      <4> QED
        BY <3>1, <3>2, Noted
    <3> HIDE DEF F
    <3> QED
      BY <3>1, <3>3, <3>4
  <2>4. Sessions'
    BY <1>0, <1>90, <2>1, <2>2, SessionsStay
  <2>5. StatusInv(u)'
    <3>1. "approved" \in past[u] /\ row[u].exists
      BY <1>90, <2>0, <2>1 DEF RequestInv, Known, Held
    <3>2. past[u] \subseteq past'[u] /\ ("served" \in past'[u] => "served" \in past[u])
      BY <2>3 DEF When
    <3> QED
      BY <1>90, <2>2, <3>1, <3>2 DEF StatusInv, Earned
  <2>6. ASSUME NEW v \in User, v # u PROVE StatusInv(v)'
    BY <1>90, <2>1, <2>2, <2>3, <2>6, StatusStays
  <2>7. RequestInv'
    <3>1. \A s \in Req : req'[s].pc = "session" /\ req'[s].user = u => "restarted" \in past'[u]
      BY <2>1, <2>3 DEF When
    <3>2. RequestsGoOn
      BY <1>0, <2>1, <2>3, <3>1 DEF RequestsGoOn
    <3> QED
      BY <1>90, <3>2, RequestsStay
  <2>8. HandlerInv'
    <3>1. \A v \in User : past[v] \subseteq past'[v]
      BY <2>3
    <3> QED
      BY <1>90, <2>1, <3>1, HandlerStays
  <2> QED
    BY <1>90, <2>4, <2>5, <2>6, <2>7, <2>8 DEF KycInv
<1>6. ASSUME NEW r \in Req, CommitReview(r) PROVE KycInv'
  <2>0. PICK u \in User : req[r].user = u
    BY <1>0, <1>6 DEF CommitReview
  <2>1. /\ req'[r].pc = "idle" /\ calls' = calls
        /\ \A s \in Req : s # r => req'[s] = req[s]
        /\ UNCHANGED <<entry, ev, owner>>
    BY <1>6, Responds DEF CommitReview, IdleRequest
  <2>2. /\ row'[u].exists = row[u].exists /\ row'[u].kyc = row[u].kyc
        /\ row'[u].session = row[u].session
        /\ \A v \in User : v # u => row'[v] = row[v]
    BY <1>0, <1>6, <2>0 DEF CommitReview, Row
  <2>3. /\ past[u] \subseteq past'[u] /\ past'[u] \subseteq past[u] \cup {"cleared"}
        /\ \A v \in User : v # u => past'[v] = past[v]
        /\ row'[u].active => "cleared" \in past'[u]
    <3>1. CASE UNCHANGED <<row, past>>
      BY <1>90, <3>1 DEF StatusInv
    <3>2. CASE /\ row' = [row EXCEPT ![u].active = req[r].says = "APPROVED"]
               /\ Note(u, When(req[r].says = "APPROVED", "cleared"))
      <4>1. When(req[r].says = "APPROVED", "cleared") \in SUBSET Fact
        BY DEF When, Fact
      <4>2. row'[u].active => req[r].says = "APPROVED"
        BY <1>0, <3>2 DEF Row
      <4> QED
        BY <3>2, <4>1, <4>2, Noted DEF When
    <3> QED
      BY <1>6, <2>0, <3>1, <3>2 DEF CommitReview
  <2>4. Sessions'
    BY <1>0, <1>90, <2>1, <2>2, SessionsStay
  <2>5. StatusInv(u)'
    BY <1>90, <2>2, <2>3 DEF StatusInv, Earned
  <2>6. ASSUME NEW v \in User, v # u PROVE StatusInv(v)'
    BY <1>90, <2>1, <2>2, <2>3, <2>6, StatusStays
  <2>7. RequestInv'
    <3>1. RequestsGoOn
      BY <1>0, <2>1, <2>3 DEF RequestsGoOn
    <3> QED
      BY <1>90, <3>1, RequestsStay
  <2>8. HandlerInv'
    BY <1>90, <2>1, <2>2, <2>3, HandlerStays
  <2> QED
    BY <1>90, <2>4, <2>5, <2>6, <2>7, <2>8 DEF KycInv
<1>7. ASSUME NEW r \in Req, CreateUser(r) \/ GoogleCreate(r) PROVE KycInv'
  <2>0. PICK u \in User : req[r].user = u
    BY <1>0, <1>7 DEF CreateUser, GoogleCreate
  <2>1. /\ req'[r].pc \notin {"session", "webhook"} /\ calls' = calls
        /\ \A s \in Req : s # r => req'[s] = req[s]
        /\ UNCHANGED <<entry, ev, owner>>
    <3>1. CASE Respond(r)
      <4>1. /\ req'[r].pc = "idle" /\ calls' = calls
            /\ \A s \in Req : s # r => req'[s] = req[s]
        BY <3>1, Responds DEF IdleRequest, Respond
      <4>2. UNCHANGED <<entry, ev, owner>>
        BY <1>7 DEF CreateUser, GoogleCreate
      <4> QED
        BY <4>1, <4>2
    <3>2. CASE Goto(r, "drop")
      BY <1>0, <1>7, <3>2 DEF CreateUser, GoogleCreate, Goto, Request
    <3> QED
      BY <1>7, <3>1, <3>2 DEF CreateUser, GoogleCreate
  <2>2. CASE UNCHANGED <<row, past>>
    <3>1. Sessions'
      BY <1>0, <1>90, <2>1, <2>2, SessionsStay
    <3>2. \A v \in User : StatusInv(v)'
      BY <1>90, <2>1, <2>2 DEF StatusInv, Earned
    <3>3. RequestsGoOn
      BY <1>0, <2>1, <2>2 DEF RequestsGoOn
    <3>4. HandlerInv'
      BY <1>90, <2>1, <2>2, HandlerStays
    <3> QED
      BY <1>90, <3>1, <3>2, <3>3, <3>4, RequestsStay DEF KycInv
  <2>3. CASE ~UNCHANGED <<row, past>>
    <3>1. ~row[u].exists
      BY <1>7, <2>0, <2>3 DEF CreateUser, GoogleCreate
    <3>2. row[u].kyc = "UNVERIFIED"
      BY <1>90, <3>1 DEF Known, NoRow, NewRow
    <3>3. /\ row'[u].exists /\ row'[u].kyc = "UNVERIFIED" /\ row'[u].session = 0
          /\ past[u] \subseteq past'[u]
          /\ past'[u] \subseteq past[u] \cup {"google", "confirmed", "cleared", "matched"}
          /\ row'[u].active => "cleared" \in past'[u]
          /\ \A v \in User : v # u => row'[v] = row[v] /\ past'[v] = past[v]
      <4>1. CASE CreateUser(r)
        <5>1. PICK active \in BOOLEAN, w \in Unlinked \cup {None}, t \in 0 .. req[r].id, live \in BOOLEAN :
                /\ row' = [row EXCEPT ![u] = SignedUp(active, w, t, live)]
                /\ Note(u, {"confirmed"} \cup When(active, "cleared")
                                  \cup When(req[r].read = req[r].code, "matched"))
          BY <2>0, <2>3, <4>1 DEF CreateUser
        <5>2. {"confirmed"} \cup When(active, "cleared") \cup When(req[r].read = req[r].code, "matched")
                \in SUBSET Fact
          BY DEF When, Fact
        <5>3. row'[u] = SignedUp(active, w, t, live)
              /\ \A v \in User : v # u => row'[v] = row[v]
          BY <1>0, <5>1
        <5>4. row'[u].exists /\ row'[u].kyc = "UNVERIFIED" /\ row'[u].session = 0
              /\ row'[u].active = active
          BY <5>3, SignUpRow
        <5>5. /\ past'[u] = past[u] \cup ({"confirmed"} \cup When(active, "cleared")
                                  \cup When(req[r].read = req[r].code, "matched"))
              /\ \A v \in User : v # u => past'[v] = past[v]
          BY <5>1, <5>2, Noted
        <5> QED
          BY <5>3, <5>4, <5>5 DEF When
      <4>2. CASE GoogleCreate(r)
        <5>1. row' = [row EXCEPT ![u] = NewRow(FALSE, FALSE)] /\ Note(u, {"google"})
          BY <2>0, <2>3, <4>2 DEF GoogleCreate
        <5>2. {"google"} \in SUBSET Fact
          BY DEF Fact
        <5>3. past'[u] = past[u] \cup {"google"} /\ \A v \in User : v # u => past'[v] = past[v]
          BY <5>1, <5>2, Noted
        <5> QED
          BY <1>0, <5>1, <5>3 DEF NewRow
      <4> QED
        BY <1>7, <4>1, <4>2
    <3>4. Sessions'
      BY <1>0, <1>90, <2>1, <3>3, SessionsStay
    <3>5. StatusInv(u)'
      <4>1. "verified" \notin past'[u]
        BY <1>90, <3>1, <3>3 DEF StatusInv
      <4> QED
        BY <1>90, <3>3, <4>1 DEF StatusInv, Earned
    <3>6. ASSUME NEW v \in User, v # u PROVE StatusInv(v)'
      BY <1>90, <2>1, <3>3, <3>6, StatusStays
    <3>7. RequestsGoOn
      BY <1>0, <2>1, <3>3 DEF RequestsGoOn
    <3>8. HandlerInv'
      BY <1>90, <2>1, <3>2, <3>3, HandlerStays
    <3> QED
      BY <1>90, <3>4, <3>5, <3>6, <3>7, <3>8, RequestsStay DEF KycInv
  <2> QED
    BY <2>2, <2>3
<1>8. ASSUME NEW u \in User, Serve(u) PROVE KycInv'
  <2>1. /\ past'[u] = past[u] \cup {"served"} /\ \A v \in User : v # u => past'[v] = past[v]
        /\ UNCHANGED <<row, entry, ev, owner, req, calls>>
    <3>1. {"served"} \in SUBSET Fact
      BY DEF Fact
    <3> QED
      BY <1>8, <3>1, Noted DEF Serve
  <2>2. Sessions'
    BY <1>0, <1>90, <2>1, SessionsStay
  <2>3. StatusInv(u)'
    <3>1. "cleared" \in past[u] /\ Earned(u)
      BY <1>8, <1>90 DEF Serve, MayOperate, StatusInv
    <3> QED
      BY <1>90, <2>1, <3>1 DEF StatusInv, Earned
  <2>4. ASSUME NEW v \in User, v # u PROVE StatusInv(v)'
    BY <1>90, <2>1, <2>4, StatusStays
  <2>5. RequestsGoOn
    BY <1>0, <2>1 DEF RequestsGoOn
  <2>6. HandlerInv'
    BY <1>90, <2>1, HandlerStays
  <2> QED
    BY <1>90, <2>2, <2>3, <2>4, <2>5, <2>6, RequestsStay DEF KycInv
<1>9. CASE ListenBlacklist
  <2>1. UNCHANGED <<row, entry, owner, req, calls>>
    BY <1>9 DEF ListenBlacklist
  <2>2. Sessions'
    BY <1>0, <1>90, <2>1, SessionsStay
  <2>3. CASE UNCHANGED <<ev, past>>
    <3>1. \A v \in User : StatusInv(v)'
      BY <1>90, <2>1, <2>3 DEF StatusInv, Earned
    <3>2. RequestInv' /\ HandlerInv'
      BY <1>90, <2>1, <2>3 DEF RequestInv, HandlerInv
    <3> QED
      BY <1>90, <2>2, <3>1, <3>2 DEF KycInv
  <2>4. CASE ~UNCHANGED <<ev, past>>
    <3>1. PICK u \in User, e \in {log[heard + 1]} :
            /\ ev' = [kind |-> e.kind, user |-> u, step |-> 1]
            /\ Note(u, When(e.kind = "ADDED", "listed") \cup When(e.kind = "REMOVED", "unlisted"))
      BY <1>9, <2>4 DEF ListenBlacklist
    <3>2. When(e.kind = "ADDED", "listed") \cup When(e.kind = "REMOVED", "unlisted") \in SUBSET Fact
      BY DEF When, Fact
    <3>3. /\ past'[u] = past[u] \cup (When(e.kind = "ADDED", "listed") \cup When(e.kind = "REMOVED", "unlisted"))
          /\ \A v \in User : v # u => past'[v] = past[v]
      BY <3>1, <3>2, Noted
    <3>4. /\ \A v \in User : past[v] \subseteq past'[v] /\ past'[v] \subseteq past[v] \cup {"listed", "unlisted"}
          /\ e.kind = "ADDED" => "listed" \in past'[u]
          /\ e.kind = "REMOVED" => "unlisted" \in past'[u]
      BY <3>3 DEF When
    <3>5. ev'.kind = e.kind /\ ev'.user = u /\ ev'.step = 1
      BY <3>1
    <3>6. ASSUME NEW v \in User PROVE StatusInv(v)'
      BY <1>90, <2>1, <3>4, StatusStays
    <3>7. RequestsGoOn
      BY <1>0, <2>1, <3>4 DEF RequestsGoOn
    <3>8. HandlerInv'
      BY <3>4, <3>5 DEF HandlerInv
    <3> QED
      BY <1>90, <2>2, <3>6, <3>7, <3>8, RequestsStay DEF KycInv
  <2> QED
    BY <2>3, <2>4
<1>10. CASE WriteStatus \/ CloseEntries \/ CreateEntry
  <2>1. PICK u \in User : ev.user = u
    BY <1>10, Proceeds DEF WriteStatus, CloseEntries, CreateEntry
  <2>2. /\ ev.step # 0 /\ row[u].exists
        /\ UNCHANGED <<owner, req, calls>>
        /\ ev.kind = "ADDED" => "listed" \in past[u]
        /\ ev.kind = "REMOVED" => "unlisted" \in past[u]
    <3>1. ev.step # 0
      BY <1>10, Proceeds DEF WriteStatus, CloseEntries, CreateEntry
    <3> QED
      BY <1>10, <1>90, <2>1, <3>1 DEF WriteStatus, CloseEntries, CreateEntry, HandlerInv, Known
  <2>3. /\ \A v \in User : v # u => row'[v] = row[v] /\ past'[v] = past[v]
        /\ past[u] \subseteq past'[u] /\ past'[u] \subseteq past[u] \cup {"verified", "restarted"}
        /\ row'[u].exists /\ row'[u].active = row[u].active /\ row'[u].session = row[u].session
    <3>1. CASE WriteStatus
      <4>1. /\ \A v \in User : v # u => row'[v] = row[v]
            /\ row'[u].exists = row[u].exists /\ row'[u].active = row[u].active
            /\ row'[u].session = row[u].session
        BY <1>0, <2>1, <3>1 DEF WriteStatus, Row
      <4>2. Verifying(u) \in SUBSET Fact /\ Verifying(u) \subseteq {"verified", "restarted"}
        BY DEF Verifying, When, Fact
      <4>3. /\ \A v \in User : v # u => past'[v] = past[v]
            /\ past'[u] = past[u] \/ past'[u] = past[u] \cup Verifying(u)
        BY <2>1, <3>1, <4>2, Noted DEF WriteStatus
      <4> QED
        BY <2>2, <3>1, <4>1, <4>2, <4>3 DEF WriteStatus
    <3>2. CASE CloseEntries \/ CreateEntry
      BY <2>1, <2>2, <3>2 DEF CloseEntries, CreateEntry, TypeInv, TypeOK
    <3> QED
      BY <1>10, <3>1, <3>2
  <2>4. Sessions'
    BY <1>0, <1>90, <2>2, <2>3, SessionsStay
  <2>5. ASSUME NEW v \in User, v # u PROVE StatusInv(v)'
    BY <1>90, <2>3, <2>5, StatusStays
  <2>6. RequestInv'
    <3>1. \A s \in Req : req'[s].pc = "session" /\ req'[s].user = u /\ "verified" \in past'[u] =>
            "verified" \in past[u] \/ "restarted" \in past'[u]
      <4>1. CASE past' = past
        BY <4>1
      <4>2. CASE Note(u, Verifying(u))
        <5>1. Verifying(u) \in SUBSET Fact
          BY DEF Verifying, When, Fact
        <5>2. past'[u] = past[u] \cup Verifying(u)
          BY <4>2, <5>1, Noted
        <5>3. \A s \in Req : req[s].pc = "session" /\ req[s].user = u => "restarted" \in Verifying(u)
          BY DEF Verifying, When
        <5> QED
          BY <2>2, <5>2, <5>3
      <4> QED
        BY <1>10, <2>1, <4>1, <4>2 DEF WriteStatus, CloseEntries, CreateEntry
    <3>2. RequestsGoOn
      BY <1>0, <2>2, <2>3, <3>1 DEF RequestsGoOn
    <3> QED
      BY <1>90, <3>2, RequestsStay
  <2>7. StatusInv(u)' /\ HandlerInv'
    <3>0. /\ ev.kind \in BlacklistAction /\ ev.step \in 0 .. 3
          /\ ev'.step # 0 => ev'.kind = ev.kind /\ ev'.user = ev.user /\ ev'.step = ev.step + 1
      <4>1. Proceed
        BY <1>10 DEF WriteStatus, CloseEntries, CreateEntry
      <4>2. CASE ev.step = Len(Writes(ev.kind))
        BY <1>0, <4>1, <4>2 DEF Proceed, IdleHandler, Handler
      <4>3. CASE ev.step # Len(Writes(ev.kind))
        BY <1>0, <4>1, <4>3 DEF Proceed, Handler
      <4> QED
        BY <4>2, <4>3
    <3>1. CASE WriteStatus /\ ev.kind = "ADDED"
      <4>1. row'[u].kyc = "BLACKLISTED" /\ past' = past
        BY <1>0, <2>1, <3>1 DEF WriteStatus, Row
      <4>2. StatusInv(u)'
        <5>1. past'[u] = past[u] /\ Earned(u)' = Earned(u) /\ StatusInv(u) /\ "listed" \in past[u]
          BY <1>90, <2>2, <3>1, <4>1 DEF Earned
        <5> QED
          BY <2>2, <2>3, <4>1, <5>1 DEF StatusInv
      <4>3. HandlerInv'
        BY <2>1, <2>2, <3>0, <3>1, <4>1 DEF HandlerInv
      <4> QED
        BY <4>2, <4>3
    <3>2. CASE WriteStatus /\ ev.kind = "REMOVED"
      <4>1. row'[u].kyc = "VERIFIED" /\ "unlisted" \in past'[u]
        BY <1>0, <2>1, <2>2, <2>3, <3>2 DEF WriteStatus, Row
      <4>2. "served" \in past'[u] => "served" \in past[u]
        BY <2>3
      <4>3. StatusInv(u)'
        BY <1>90, <2>2, <2>3, <4>1, <4>2 DEF StatusInv, Earned
      <4>4. HandlerInv'
        BY <2>1, <3>0, <3>2, <4>1 DEF HandlerInv
      <4> QED
        BY <4>3, <4>4
    <3>3. CASE CloseEntries \/ CreateEntry
      <4>1. UNCHANGED <<row, past>>
        BY <3>3 DEF CloseEntries, CreateEntry
      <4>2. StatusInv(u)'
        BY <1>90, <4>1 DEF StatusInv, Earned
      <4>3. HandlerInv'
        BY <2>1, <2>2, <3>0, <4>1 DEF HandlerInv
      <4> QED
        BY <4>2, <4>3
    <3> QED
      BY <1>10, <3>1, <3>2, <3>3 DEF WriteStatus
  <2> QED
    BY <1>90, <2>4, <2>5, <2>6, <2>7 DEF KycInv
<1>11. CASE ~KycStep
  <2>1. KycSame
    BY <1>11, <1>90, OthersLeaveKyc
  <2>2. \A u \in User : /\ row'[u].exists = row[u].exists /\ row'[u].kyc = row[u].kyc
                        /\ row'[u].active = row[u].active /\ row'[u].session = row[u].session
                        /\ past[u] \subseteq past'[u] /\ past'[u] \subseteq past[u] \cup {"crossed"}
    <3>1. row' \in [User -> Row]
      BY TypeStep DEF TypeInv, TypeOK
    <3>2. \A u \in User : row[u].exists \in BOOLEAN /\ row'[u].exists \in BOOLEAN
      BY <1>0, <3>1 DEF Row
    <3>3. ASSUME NEW u \in User
          PROVE  /\ row'[u].exists = row[u].exists /\ row'[u].kyc = row[u].kyc
                 /\ row'[u].active = row[u].active /\ row'[u].session = row[u].session
      BY <2>1, <3>2 DEF KycSame
    <3> QED
      BY <2>1, <3>3 DEF KycSame
  <2>3. \A r \in Req : req'[r].pc \in {"session", "webhook"} =>
          req'[r].pc = req[r].pc /\ req'[r].user = req[r].user /\ req'[r].id = req[r].id
    BY <2>1 DEF KycSame, Held
  <2>4. Sessions'
    BY <1>0, <1>90, <2>1, <2>2, <2>3, SessionsStay DEF KycSame
  <2>5. ASSUME NEW v \in User PROVE StatusInv(v)'
    BY <1>90, <2>2, <2>5, StatusStays
  <2>6. \A r \in Req : req'[r].pc \in {"session", "webhook"} => req'[r].user \in User
    BY <1>0, <2>3
  <2>7. RequestsGoOn
    BY <2>2, <2>3, <2>6 DEF RequestsGoOn
  <2>8. HandlerInv'
    BY <1>90, <2>1, <2>2, HandlerStays DEF KycSame
  <2> QED
    BY <1>90, <2>4, <2>5, <2>7, <2>8, RequestsStay DEF KycInv
<1> QED
  BY <1>1, <1>2, <1>3, <1>4, <1>5, <1>6, <1>7, <1>8, <1>9, <1>10, <1>11 DEF KycStep, KycNext

(* What every reachable state satisfies of KYC and the blacklist.          *)
LEMMA KycKnown == Spec => []KycInv
<1>1. TypeInv /\ Numbered /\ KycInv /\ [Next]_vars => KycInv'
  BY KycKept
<1> QED
  BY <1>1, TypeInit, NumberedInit, KycInit, TypeStep, NumberedStep, PTL DEF Spec

(* However sessions, webhooks, blacklist events, crashes and restarts      *)
(* interleave, VERIFIED comes from an approval of a session opened for that*)
(* very user or from the chain.  (handleKycWebhook, onRemovedFromBlacklist)*)
THEOREM VerifiedEarned == Spec => []VerifiedIsEarned
<1>1. KycInv => VerifiedIsEarned
  BY DEF KycInv, StatusInv, Earned, VerifiedIsEarned
<1> QED
  BY <1>1, KycKnown, PTL

(* VERIFIED is never lost but to a blacklist event or to a start that was  *)
(* in flight when it was written.  (KycController.start.)                  *)
THEOREM VerifiedStays == Spec => []VerifiedLasts
<1>1. KycInv => VerifiedLasts
  BY DEF KycInv, StatusInv, VerifiedLasts
<1> QED
  BY <1>1, KycKnown, PTL

(* What a current ADDED entry of u stands on.                              *)
Blocked(u) == row[u].kyc = "BLACKLISTED" \/ undone[u] # {} \/ HalfRemoved(u)

(* The handler of an AddedToBlacklist creates the entry on the status that *)
(* it has written, or that was undone since.                               *)
BlockInv ==
  /\ \A u \in User : Listed(u) => Blocked(u)
  /\ ev.step = 2 /\ ev.kind = "ADDED" =>
       row[ev.user].kyc = "BLACKLISTED" \/ undone[ev.user] # {}

BlockStep ==
  \/ EntryStep \/ HandlerFails \/ Restart
  \/ \E r \in Req : SaveSession(r) \/ FinishWebhook(r)

LEMMA OthersLeaveBlocked ==
  ASSUME [Next]_vars, ~BlockStep
  PROVE  UNCHANGED <<entry, ev, undone>>
<1> USE DEF listenVars, historyVars
<1>1. ASSUME NEW r \in Req, Continue(r) PROVE UNCHANGED <<entry, ev, undone>>
  <2>1. CASE StoreSignup(r) \/ SendCode(r) \/ BurnCode(r) \/ ReadSignup(r) \/ CreateUser(r) \/ DropSignup(r)
    BY <2>1 DEF StoreSignup, SendCode, BurnCode, ReadSignup, CreateUser, DropSignup
  <2>2. CASE GoogleCreate(r) \/ SaveToken(r) \/ FinishReset(r)
    BY <2>2 DEF GoogleCreate, SaveToken, FinishReset
  <2>3. CASE CommitReview(r) \/ Fail(r)
    BY <2>3 DEF CommitReview, Fail
  <2> QED
    BY <1>1, <2>1, <2>2, <2>3 DEF Continue, BlockStep
<1>2. ASSUME NEW r \in Req, KycNext(r) PROVE UNCHANGED <<entry, ev, undone>>
  BY <1>2 DEF KycNext, StartKyc, StartWebhook, StartReview
<1>3. ASSUME NEW r \in Req, NEW u \in User, SignUpNext(r, u) PROVE UNCHANGED <<entry, ev, undone>>
  BY <1>3 DEF SignUpNext, StartRegister, StartResend, StartGoogle, StartForgot, StartReset, StartVerify
<1>4. ASSUME NEW u \in User, UserNext(u) PROVE UNCHANGED <<entry, ev, undone>>
  BY <1>4 DEF UserNext, Expire, ExpireToken, CompleteProfile, Serve, LinkWallet, CreateRequest
<1>5. ASSUME NEW q \in Doc, RemoveRequest(q) PROVE UNCHANGED <<entry, ev, undone>>
  BY <1>5 DEF RemoveRequest
<1>6. CASE ListenNext
  BY <1>6 DEF ListenNext, BlockStep, EntryStep, Emit, ListenPause, ListenLost
<1>7. CASE UNCHANGED vars
  BY <1>7 DEF vars
<1> QED
  BY <1>1, <1>2, <1>3, <1>4, <1>5, <1>6, <1>7 DEF Next, BlockStep

(* Of BLACKLISTED users, only those steps change the status.               *)
LEMMA OthersLeaveListed ==
  ASSUME TypeInv, Known, [Next]_vars, ~BlockStep
  PROVE  \A u \in User : row[u].kyc = "BLACKLISTED" => row'[u].kyc = "BLACKLISTED"
<1>0. row \in [User -> Row] /\ NoRow.kyc = "UNVERIFIED"
  BY DEF TypeInv, TypeOK, NoRow, NewRow
<1>1. CASE ~KycStep
  BY <1>1, OthersLeaveKyc DEF KycSame
<1>2. ASSUME NEW r \in Req, KycNext(r) PROVE row' = row
  BY <1>2 DEF KycNext, StartKyc, StartWebhook, StartReview
<1>3. ASSUME NEW r \in Req, CommitReview(r) PROVE \A u \in User : row'[u].kyc = row[u].kyc
  BY <1>0, <1>3 DEF CommitReview, Row
<1>4. ASSUME NEW r \in Req, CreateUser(r) \/ GoogleCreate(r), NEW u \in User,
             row[u].kyc = "BLACKLISTED"
      PROVE  row'[u] = row[u]
  <2>1. row[u].exists
    BY <1>0, <1>4 DEF Known
  <2>2. row' = row \/ ~row[req[r].user].exists
    BY <1>4 DEF CreateUser, GoogleCreate
  <2>3. row' = row \/ \E x : row' = [row EXCEPT ![req[r].user] = x]
    BY <1>4 DEF CreateUser, GoogleCreate
  <2> QED
    BY <1>0, <2>1, <2>2, <2>3
<1>5. ASSUME NEW u \in User, Serve(u) PROVE row' = row
  BY <1>5 DEF Serve
<1> QED
  BY <1>1, <1>2, <1>3, <1>4, <1>5 DEF KycStep, BlockStep, EntryStep

LEMMA BlockKept == TypeInv /\ Known /\ BlockInv /\ [Next]_vars => BlockInv'
<1> SUFFICES ASSUME TypeInv, Known, BlockInv, [Next]_vars PROVE BlockInv'
  OBVIOUS
<1>0. /\ row \in [User -> Row] /\ ev \in Handler /\ (ev.step # 0 => ev.user \in User)
      /\ \A u \in User : entry[u] \in Seq(Entry)
      /\ undone \in [User -> SUBSET Undoing]
  BY DEF TypeInv, TypeOK, Handling
<1>1. ASSUME UNCHANGED entry, NEW u \in User PROVE Listed(u)' = Listed(u)
  BY <1>1 DEF Listed
<1>2. CASE ~BlockStep
  <2>1. UNCHANGED <<entry, ev, undone>>
    BY <1>2, OthersLeaveBlocked
  <2>2. \A u \in User : row[u].kyc = "BLACKLISTED" => row'[u].kyc = "BLACKLISTED"
    BY <1>2, OthersLeaveListed
  <2>3. \A u \in User : HalfRemoved(u)' = HalfRemoved(u)
    BY <2>1 DEF HalfRemoved, IsNext
  <2>4. \A u \in User : Listed(u)' => Blocked(u)'
    BY <1>1, <2>1, <2>2, <2>3 DEF BlockInv, Blocked
  <2> QED
    BY <1>0, <2>1, <2>2, <2>4 DEF BlockInv
<1>3. CASE HandlerFails \/ Restart
  <2>1. CutOff /\ UNCHANGED <<row, entry>>
    BY <1>3 DEF HandlerFails, Restart
  <2>2. /\ ev'.step = 0
        /\ \A u \in User : undone[u] \subseteq undone'[u] /\ (HalfRemoved(u) => undone'[u] # {})
    BY <2>1, CutsOff DEF IdleHandler
  <2>3. \A u \in User : Listed(u)' => Blocked(u)'
    BY <1>1, <2>1, <2>2 DEF BlockInv, Blocked
  <2> QED
    BY <2>2, <2>3 DEF BlockInv
<1>4. ASSUME NEW r \in Req, SaveSession(r) \/ FinishWebhook(r) PROVE BlockInv'
  <2>0. PICK u \in User : req[r].user = u
    BY <1>4 DEF SaveSession, FinishWebhook, TypeInv, Serving
  <2>1. Reopen(u) /\ UNCHANGED <<entry, ev>>
    BY <1>4, <2>0 DEF SaveSession, FinishWebhook, listenVars
  <2>2. \A v \in User : v # u => row'[v] = row[v]
    BY <1>0, <1>4, <2>0 DEF SaveSession, FinishWebhook
  <2>3. /\ \A v \in User : undone[v] \subseteq undone'[v]
        /\ row[u].kyc = "BLACKLISTED" => undone'[u] # {}
    BY <2>1, Reopens
  <2>4. \A v \in User : HalfRemoved(v)' = HalfRemoved(v)
    BY <2>1 DEF HalfRemoved, IsNext
  <2>5. \A v \in User : Listed(v)' => Blocked(v)'
    BY <1>1, <2>1, <2>2, <2>3, <2>4 DEF BlockInv, Blocked
  <2>6. ev'.step = 2 /\ ev'.kind = "ADDED" =>
          row'[ev'.user].kyc = "BLACKLISTED" \/ undone'[ev'.user] # {}
    <3> SUFFICES ASSUME ev.step = 2, ev.kind = "ADDED"
                 PROVE  row'[ev.user].kyc = "BLACKLISTED" \/ undone'[ev.user] # {}
      BY <2>1
    <3>1. PICK v \in User : v = ev.user
      BY <1>0
    <3>2. row[v].kyc = "BLACKLISTED" \/ undone[v] # {}
      BY <3>1 DEF BlockInv
    <3> QED
      BY <2>2, <2>3, <3>1, <3>2
  <2> QED
    BY <2>5, <2>6 DEF BlockInv
<1>5. CASE ListenBlacklist
  <2>1. UNCHANGED <<row, entry, undone>> /\ ev.step = 0 /\ ev'.step \in {0, 1}
    BY <1>5 DEF ListenBlacklist
  <2>2. \A u \in User : ~HalfRemoved(u)
    BY <2>1, StepOfWrite DEF HalfRemoved
  <2>3. \A u \in User : Listed(u)' => Blocked(u)'
    BY <1>1, <2>1, <2>2 DEF BlockInv, Blocked
  <2> QED
    BY <2>1, <2>3 DEF BlockInv
<1>6. CASE WriteStatus \/ CloseEntries \/ CreateEntry
  <2>1. PICK u \in User : ev.user = u
    BY <1>6, Proceeds DEF WriteStatus, CloseEntries, CreateEntry
  <2>2. \A v \in User : v # u => row'[v] = row[v] /\ undone'[v] = undone[v]
    BY <1>0, <1>6, <2>1 DEF WriteStatus, CloseEntries, CreateEntry, historyVars
  <2>3. \A v \in User : v # u => Listed(v)' = Listed(v) /\ ~HalfRemoved(v)
    <3>1. \A v \in User : v # u => entry'[v] = entry[v]
      BY <1>6, <2>1 DEF WriteStatus, CloseEntries, CreateEntry, TypeInv, TypeOK
    <3> QED
      BY <2>1, <3>1 DEF Listed, HalfRemoved
  <2>4. \A v \in User : v # u => (Listed(v)' => Blocked(v)')
    BY <2>2, <2>3 DEF BlockInv, Blocked
  <2>5. /\ ev'.step # 0 => ev'.kind = ev.kind /\ ev'.user = u /\ ev'.step = ev.step + 1
        /\ ev.step = Len(Writes(ev.kind)) => ev'.step = 0
        /\ ev.step # Len(Writes(ev.kind)) => ev' = [ev EXCEPT !.step = @ + 1]
    <3>1. Proceed
      BY <1>6 DEF WriteStatus, CloseEntries, CreateEntry
    <3>2. CASE ev.step = Len(Writes(ev.kind))
      BY <3>1, <3>2 DEF Proceed, IdleHandler
    <3>3. CASE ev.step # Len(Writes(ev.kind))
      BY <1>0, <2>1, <3>1, <3>3 DEF Proceed, Handler
    <3> QED
      BY <3>2, <3>3
  <2>6. CASE WriteStatus /\ ev.kind = "ADDED"
    <3>1. row'[u].kyc = "BLACKLISTED"
      BY <1>0, <2>1, <2>6 DEF WriteStatus, Row
    <3>2. \A v : v = u => Blocked(v)'
      BY <3>1 DEF Blocked
    <3> QED
      BY <2>4, <2>5, <3>1, <3>2 DEF BlockInv
  <2>7. CASE WriteStatus /\ ev.kind = "REMOVED"
    <3>1. ev.step = 1 /\ Writes(ev.kind) = <<"status", "close", "entry">>
      BY <2>7, StepOfWrite DEF WriteStatus, Writes
    <3>2. ev'.step = 2 /\ ev'.kind = "REMOVED" /\ ev'.user = u
      <4>1. Len(Writes(ev.kind)) = 3
        BY <3>1
      <4>2. ev' = [ev EXCEPT !.step = @ + 1]
        BY <2>5, <3>1, <4>1
      <4> QED
        BY <1>0, <2>1, <2>7, <3>1, <4>2 DEF Handler
    <3>3. Writes("REMOVED") = <<"status", "close", "entry">>
      BY DEF Writes
    <3>4. \A v : v = u => HalfRemoved(v)'
      BY <3>2, <3>3 DEF HalfRemoved, IsNext
    <3> QED
      BY <2>4, <3>2, <3>4 DEF BlockInv, Blocked
  <2>8. CASE CloseEntries
    <3>1. ev.kind = "REMOVED"
      BY <2>8, StepOfWrite DEF CloseEntries
    <3>2. entry'[u] = [i \in DOMAIN entry[u] |-> [entry[u][i] EXCEPT !.blocked = FALSE]]
      BY <2>1, <2>8 DEF CloseEntries, TypeInv, TypeOK
    <3>3. \A i \in DOMAIN entry[u] : entry[u][i] \in Entry
      BY <1>0
    <3>4. \A i \in DOMAIN entry'[u] : entry'[u][i].blocked = FALSE
      BY <3>2, <3>3 DEF Entry
    <3>5. \A v : v = u => ~Listed(v)'
      BY <3>4 DEF Listed
    <3>6. ~(ev'.step = 2 /\ ev'.kind = "ADDED")
      BY <2>5, <3>1
    <3> QED
      BY <2>4, <3>5, <3>6 DEF BlockInv
  <2>9. CASE CreateEntry
    <3>1. /\ ev'.step = 0 /\ (ev.kind = "ADDED" => ev.step = 2) /\ ~IsNext("close")
          /\ UNCHANGED <<row, undone>>
      BY <2>5, <2>9, StepOfWrite DEF CreateEntry, historyVars, IsNext
    <3> DEFINE e == [action |-> ev.kind, blocked |-> ev.kind # "REMOVED"]
    <3>2. /\ entry'[u] = Append(entry[u], e) /\ entry[u] \in Seq(Entry)
          /\ e \in Entry /\ e.action = ev.kind
      BY <1>0, <2>1, <2>9 DEF CreateEntry, TypeInv, TypeOK, Entry, Handler
    <3> HIDE DEF e
    <3>3. \A i \in DOMAIN entry'[u] : entry'[u][i] = e \/ (i \in DOMAIN entry[u] /\ entry'[u][i] = entry[u][i])
      <4>1. /\ Len(entry[u]) \in Nat /\ DOMAIN entry[u] = 1 .. Len(entry[u])
            /\ DOMAIN entry'[u] = 1 .. Len(entry[u]) + 1 /\ entry'[u][Len(entry[u]) + 1] = e
            /\ \A i \in 1 .. Len(entry[u]) : entry'[u][i] = entry[u][i]
        BY <3>2
      <4>2. \A i \in 1 .. Len(entry[u]) + 1 : i = Len(entry[u]) + 1 \/ i \in 1 .. Len(entry[u])
        BY <4>1
      <4> QED
        BY <4>1, <4>2
    <3>4. Listed(u)' => Listed(u) \/ ev.kind = "ADDED"
      BY <3>2, <3>3 DEF Listed
    <3>5. ev.kind = "ADDED" => row[u].kyc = "BLACKLISTED" \/ undone[u] # {}
      BY <2>1, <3>1 DEF BlockInv
    <3>6. ~HalfRemoved(u)
      BY <3>1 DEF HalfRemoved
    <3>7. Listed(u)' => Blocked(u)'
      BY <3>1, <3>4, <3>5, <3>6 DEF BlockInv, Blocked
    <3> QED
      BY <2>4, <3>1, <3>7 DEF BlockInv
  <2> QED
    BY <1>6, <2>6, <2>7, <2>8, <2>9 DEF WriteStatus
<1> QED
  BY <1>2, <1>3, <1>4, <1>5, <1>6 DEF BlockStep, EntryStep

(* Whoever the entries say is blocked has been BLACKLISTED for it, and     *)
(* since then reopened a session, or a removal of it stopped halfway: as   *)
(* true of a user listed again as the first time.  (onAddedToBlacklist.)   *)
THEOREM BlockedExplained == Spec => []BlockedIsExplained
<1>1. Init => BlockInv
  <2>1. Init => \A u \in User : entry[u] = << >>
    BY DEF Init
  <2>2. Init => ev.step = 0
    BY DEF Init, IdleHandler
  <2> QED
    BY <2>1, <2>2 DEF BlockInv, Listed
<1>2. BlockInv => BlockedIsExplained
  BY DEF BlockInv, Blocked, BlockedIsExplained
<1>3. KycInv => Known
  BY DEF KycInv
<1>4. TypeInv /\ Known /\ BlockInv /\ [Next]_vars => BlockInv'
  BY BlockKept
<1> QED
  BY <1>1, <1>2, <1>3, <1>4, TypeInit, TypeStep, KycKnown, PTL DEF Spec

(* Nobody gets past the guard on the strength of one check alone.          *)
(* (KycVerifiedGuard.)                                                     *)
THEOREM ServedCleared == Spec => []ServedWasCleared
<1>1. KycInv => ServedWasCleared
  BY DEF KycInv, StatusInv, Earned, ServedWasCleared
<1> QED
  BY <1>1, KycKnown, PTL
=============================================================================
