----------------------------- MODULE Blacklist -----------------------------
(***************************************************************************)
(* The handlers of EventProcessorService that concern users and the        *)
(* contract as a whole: AddedToBlacklist, RemovedFromBlacklist,            *)
(* Confiscated, SystemPaused and SystemUnpaused.  The listener runs one    *)
(* handler at a time, in the order of the events; why it may lose one is   *)
(* the subject of EventListener.                                           *)
(***************************************************************************)
EXTENDS Kyc

(* The contract's own state, as its events tell it.                        *)
Paused ==
  \E i \in DOMAIN log :
    /\ log[i].kind = "PAUSED"
    /\ \A j \in i + 1 .. Len(log) : log[j].kind \notin PauseAction

(* The contract emits an event.                                            *)
Emit(e) ==
  /\ IF e.kind \in BlacklistAction THEN e.wallet # None
     ELSE e.wallet = None /\ (e.kind = "PAUSED") = ~Paused
  /\ calls < MaxCalls /\ calls' = calls + 1
  /\ log' = Append(log, e)
  /\ UNCHANGED <<row, signUpVars, doc, req, heard, ev, entry, isPaused, missed, historyVars>>

(* process: the next event goes to its handler.  A pause is noted in       *)
(* memory at once ...                                                      *)
ListenPause ==
  /\ ev.step = 0 /\ heard < Len(log) /\ log[heard + 1].kind \in PauseAction
  /\ isPaused' = (log[heard + 1].kind = "PAUSED")
  /\ missed' = FALSE
  /\ heard' = heard + 1
  /\ UNCHANGED <<row, signUpVars, doc, req, calls, log, ev, entry, historyVars>>

(* ... for the others the user with that wallet is looked up.              *)
ListenBlacklist ==
  /\ ev.step = 0 /\ heard < Len(log) /\ log[heard + 1].kind \in BlacklistAction
  /\ heard' = heard + 1
  /\ LET e == log[heard + 1] IN
     \/ /\ \A u \in User : row[u].wallet # e.wallet
        /\ UNCHANGED <<ev, past>>
     \/ \E u \in User :
        /\ row[u].wallet = e.wallet
        /\ ev' = [kind |-> e.kind, user |-> u, step |-> 1]
        /\ Note(u, When(e.kind = "ADDED", "listed") \cup When(e.kind = "REMOVED", "unlisted"))
  /\ UNCHANGED <<row, signUpVars, doc, req, calls, log, entry, isPaused, missed, owner, spent, undone>>

(* Variants: the entry is created before the user, or the earlier entries, *)
(* are updated.                                                            *)
EntryFirst(kind) == CASE kind = "ADDED"   -> <<"entry", "status">>
                      [] kind = "REMOVED" -> <<"status", "close", "entry">>
                      [] OTHER            -> <<"entry">>
CloseLast(kind)  == CASE kind = "ADDED"   -> <<"status", "entry">>
                      [] kind = "REMOVED" -> <<"status", "entry", "close">>
                      [] OTHER            -> <<"entry">>

(* The updates of each handler, in the order they are awaited.             *)
Writes(kind) == CASE kind = "ADDED"   -> <<"status", "entry">>
                  [] kind = "REMOVED" -> <<"status", "close", "entry">>
                  [] OTHER            -> <<"entry">>

(* Variant: the handler does not return after its last update.             *)
GoOn == ev' = [ev EXCEPT !.step = @ + 1]

(* The handler goes on to its next update, or returns.                     *)
Proceed == ev' = IF ev.step = Len(Writes(ev.kind)) THEN IdleHandler ELSE [ev EXCEPT !.step = @ + 1]

IsNext(write) == ev.step \in DOMAIN Writes(ev.kind) /\ Writes(ev.kind)[ev.step] = write

(* kycStatus: BLACKLISTED, or VERIFIED whatever it was before.             *)
WriteStatus ==
  LET u == ev.user IN
  /\ IsNext("status")
  /\ \/ /\ ev.kind = "ADDED"
        /\ row' = [row EXCEPT ![u].kyc = "BLACKLISTED"]
        /\ undone' = [undone EXCEPT ![u] = {}]
        /\ UNCHANGED past
     \/ /\ ev.kind = "REMOVED"
        /\ row' = [row EXCEPT ![u].kyc = "VERIFIED"]
        /\ Note(u, Verifying(u))
        /\ UNCHANGED undone
  /\ Proceed
  /\ UNCHANGED <<signUpVars, doc, req, calls, log, heard, entry, isPaused, missed, owner, spent>>

(* onRemovedFromBlacklist, updateMany: no entry is current any more.       *)
CloseEntries ==
  LET u == ev.user IN
  /\ IsNext("close")
  /\ entry' = [entry EXCEPT ![u] = [i \in DOMAIN @ |-> [@[i] EXCEPT !.blocked = FALSE]]]
  /\ Proceed
  /\ UNCHANGED <<row, signUpVars, doc, req, calls, log, heard, isPaused, missed, historyVars>>

(* The entry of the history; only a removal's is not current.              *)
CreateEntry ==
  /\ IsNext("entry")
  /\ entry' = [entry EXCEPT ![ev.user] = Append(@, [action |-> ev.kind, blocked |-> ev.kind # "REMOVED"])]
  /\ Proceed
  /\ UNCHANGED <<row, signUpVars, doc, req, calls, log, heard, isPaused, missed, historyVars>>

(* A removal has made u VERIFIED and has not closed the entries yet.       *)
HalfRemoved(u) == ev.user = u /\ IsNext("close")

(* The handler in progress does not go on; history notes a removal halved. *)
CutOff ==
  /\ ev' = IdleHandler
  /\ undone' = [u \in User |-> undone[u] \cup When(HalfRemoved(u), "halved")]

(* The handler throws: its event is not taken again.                       *)
HandlerFails ==
  /\ ev.step # 0
  /\ CutOff
  /\ UNCHANGED <<row, signUpVars, doc, req, calls, log, heard, entry, isPaused, missed,
                 past, owner, spent>>

(* An event is passed over (EventListener says when).                      *)
ListenLost ==
  /\ ev.step = 0 /\ heard < Len(log)
  /\ heard' = heard + 1
  /\ missed' = (missed \/ log[heard + 1].kind \in PauseAction)
  /\ UNCHANGED <<row, signUpVars, doc, req, calls, log, ev, entry, isPaused, historyVars>>

(* Variant: the flag starts false, and events tell the rest.               *)
AssumeRunning(answers) == FALSE

(* initializePausedState: the contract is asked; without an answer, false. *)
InitialPause(answers) == answers /\ Paused
=============================================================================
