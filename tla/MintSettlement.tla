--------------------------- MODULE MintSettlement ---------------------------
(***************************************************************************)
(* How an executed mint gets back to the deposit it was made for: the      *)
(* MintSyncJob, which asks the Safe service about the hashes it has        *)
(* stored, and the listener's onMinted, which sees the Minted events of    *)
(* the chain and looks for a deposit to attach each of them to.            *)
(***************************************************************************)
EXTENDS DepositState

(* The deposits a run of the job would look at.                            *)
Unsettled == {d \in Deposit : /\ op[d].status \notin {"ABSENT", "PROCESSED"}
                              /\ op[d].safeTx # None
                              /\ op[d].mint = 0}

(* orderBy createdAt, take BatchSize.                                      *)
Oldest(S) == {d \in S : Cardinality({e \in S : e < d}) < BatchSize}

JobStart ==
  /\ job = {}
  /\ job' = {<<d, op[d].safeTx>> : d \in Oldest(Unsettled)}
  /\ UNCHANGED <<op, expired, userVars, req, chainVars, backoff, listenVars, saves, historyVars>>

IsNextRow(row) == row \in job /\ \A other \in job : row[1] <= other[1]

(* Variant: the run stays at its row.                                      *)
StayAt(row) == job' = job

NextRow(row) == job' = job \ {row}

(* The transaction was executed: link it and mark the operation, in one    *)
(* database transaction, whatever has become of the row since findMany.    *)
JobSync(d, tx) ==
  /\ IsNextRow(<<d, tx>>)
  /\ tx \notin backoff
  /\ IsExecuted(tx)
  /\ Update(d, [op[d] EXCEPT !.mint = tx.nonce + 1, !.status = "PROCESSED"])
  /\ NextRow(<<d, tx>>)
  /\ UNCHANGED <<expired, userVars, req, chainVars, backoff, listenVars, saves, historyVars>>

JobPass(d, tx) ==
  /\ IsNextRow(<<d, tx>>)
  /\ tx \in backoff \/ ~IsExecuted(tx)
  /\ NextRow(<<d, tx>>)
  /\ UNCHANGED <<op, expired, userVars, req, chainVars, backoff, listenVars, saves, historyVars>>

(* The Safe service, or the database transaction, fails for this row.      *)
JobError(d, tx) ==
  /\ Faulty
  /\ IsNextRow(<<d, tx>>)
  /\ tx \notin backoff
  /\ backoff' = backoff \cup {tx}
  /\ NextRow(<<d, tx>>)
  /\ UNCHANGED <<op, expired, userVars, req, chainVars, listenVars, saves, historyVars>>

BackoffEnds(tx) ==
  /\ tx \in backoff
  /\ backoff' = backoff \ {tx}
  /\ UNCHANGED <<op, expired, userVars, req, chainVars, job, listenVars, saves, historyVars>>
-----------------------------------------------------------------------------
(* The deposits onMinted may link a mint to wallet w to.                   *)
Candidates(w) == {d \in Deposit : /\ wallet[Owner[d]] = w
                                  /\ op[d].status = "APPROVED"
                                  /\ op[d].mint = 0}

(* orderBy safeProposedAt asc: a null sorts after every date.              *)
NoLaterThan(d, e) == op[e].proposedAt = 0 \/ op[d].proposedAt \in 1 .. op[e].proposedAt

ListenTo(n) ==
  /\ ListenerEnabled
  /\ lst.pc = "idle"
  /\ n = seen + 1
  /\ n <= Len(executed)

(* onMinted reads the user and the oldest deposit that waits for a mint.   *)
ListenMinted(n, d) ==
  /\ ListenTo(n)
  /\ executed[n] # Other
  /\ d \in Candidates(executed[n].to)
  /\ \A e \in Candidates(executed[n].to) : NoLaterThan(d, e)
  /\ seen' = n
  /\ lst' = [pc |-> "link", dep |-> d, ev |-> n]
  /\ UNCHANGED <<op, expired, userVars, req, chainVars, jobVars, saves, historyVars>>

(* No user with that wallet, no deposit waiting, or not a Minted event.    *)
ListenNothing(n) ==
  /\ ListenTo(n)
  /\ executed[n] # Other => Candidates(executed[n].to) = {}
  /\ seen' = n
  /\ UNCHANGED <<op, expired, userVars, req, chainVars, jobVars, lst, saves, historyVars>>

(* A failure or a restart loses the event: see EventListener.              *)
ListenLost(n) ==
  /\ Faulty
  /\ ListenTo(n)
  /\ seen' = n
  /\ UNCHANGED <<op, expired, userVars, req, chainVars, jobVars, lst, saves, historyVars>>

LinkMint ==
  /\ lst.pc = "link"
  /\ Update(lst.dep, [op[lst.dep] EXCEPT !.mint = lst.ev])
  /\ lst' = [lst EXCEPT !.pc = "process"]
  /\ UNCHANGED <<expired, userVars, req, chainVars, jobVars, seen, saves, historyVars>>

ProcessMint ==
  /\ lst.pc = "process"
  /\ Update(lst.dep, [op[lst.dep] EXCEPT !.status = "PROCESSED"])
  /\ lst' = IdleListener
  /\ UNCHANGED <<expired, userVars, req, chainVars, jobVars, seen, saves, historyVars>>
=============================================================================
