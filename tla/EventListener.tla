--------------------------- MODULE EventListener ---------------------------
(***************************************************************************)
(* ListenerService: it polls the chain for the logs of the contract,       *)
(* stores each log in EventLog, hands it to EventProcessorService and      *)
(* marks it as processed.  The pointer lastProcessedBlock is in memory; it *)
(* advances when a poll ends, and is restored from EventLog at start-up.   *)
(*                                                                         *)
(* The logs are 1, 2, ... in the order of the chain.  Mapping a log to a   *)
(* type, and the fields stored with it, are abstracted: a log is one the   *)
(* listener ignores, or one whose handler makes Writes[l] updates.         *)
(***************************************************************************)
EXTENDS Naturals, FiniteSetsExt

CONSTANTS
  NumLogs,     \* logs are 1 .. NumLogs
  Block,       \* Block[l]: the block of log l
  Ignored,     \* transfers that are mints, burns or redemptions; unknown events
  Writes,      \* Writes[l]: the updates the handler of log l makes, one by one
  DeployBlock, \* the environment variable CONTRACT_DEPLOY_BLOCK
  BatchBlocks, \* BLOCK_BATCH_SIZE
  LastBlock    \* bound: the last block mined

Log == 1 .. NumLogs

ASSUME ListenerAssumption ==
  /\ NumLogs \in Nat \ {0} /\ DeployBlock \in Nat /\ LastBlock \in Nat
  /\ BatchBlocks \in Nat \ {0}
  /\ Block \in [Log -> Nat]
  /\ \A l \in Log : Block[l] > DeployBlock
  /\ \A k, l \in Log : k < l => Block[k] <= Block[l]
  /\ Ignored \subseteq Log
  /\ Writes \in [Log -> Nat]

VARIABLES
  head,     \* the last block of the chain
  up,       \* isInitialized
  pointer,  \* lastProcessedBlock
  poll,     \* the poll in progress
  stored,   \* the logs in EventLog
  applied,  \* applied[l]: how many updates of the handler of l were made
  marked    \* the logs with a processedAt

dbVars == <<stored, applied, marked>>
vars == <<head, up, pointer, poll, stored, applied, marked>>

(* pc is idle (isProcessing is false), scan (between two logs), apply (the *)
(* handler of log is running) or mark; cur and from are currentBlock and   *)
(* fromBlock of pollEvents, todo the logs of the batch not yet looked at,  *)
(* done the updates the running handler has made.                          *)
Poll == [pc : {"idle", "scan", "apply", "mark"}, cur : Nat, from : Nat,
         todo : SUBSET Log, log : Log, done : Nat]

NoPoll == [pc |-> "idle", cur |-> 0, from |-> 0, todo |-> {}, log |-> 1,
           done |-> 0]

TypeOK ==
  /\ head \in Nat /\ pointer \in Nat /\ up \in BOOLEAN
  /\ poll \in Poll
  /\ stored \subseteq {l \in Log : Block[l] <= head}
  /\ marked \subseteq stored
  /\ applied \in [Log -> Nat]

Init ==
  /\ head = DeployBlock
  /\ up = FALSE
  /\ pointer = 0
  /\ poll = NoPoll
  /\ stored = {} /\ marked = {}
  /\ applied = [l \in Log |-> 0]
-----------------------------------------------------------------------------
MineBlock ==
  /\ head < LastBlock
  /\ head' = head + 1
  /\ UNCHANGED <<up, pointer, poll, dbVars>>

(* restoreLastBlock: the highest block in EventLog, whether or not the     *)
(* logs of that block were all stored and processed.                       *)
Restored == Max({DeployBlock} \cup {Block[l] : l \in stored})

StartUp ==
  /\ ~up
  /\ up' = TRUE
  /\ pointer' = Restored
  /\ UNCHANGED <<head, poll, dbVars>>

(* pollEvents, when cron fires and there are new blocks.                   *)
StartPoll ==
  /\ up
  /\ poll.pc = "idle"
  /\ pointer < head
  /\ poll' = [NoPoll EXCEPT !.pc = "scan", !.cur = head, !.from = pointer + 1]
  /\ UNCHANGED <<head, up, pointer, dbVars>>

(* Variant: the last batch is as long as the others.                       *)
ToBlockUncut == poll.from + BatchBlocks - 1

ToBlock == Min({poll.from + BatchBlocks - 1, poll.cur})

(* Variant: the next batch starts one block too late.                      *)
NextFromLate == ToBlock + 2

NextFrom == ToBlock + 1

GetLogs ==
  /\ poll.pc = "scan" /\ poll.todo = {}
  /\ poll.from <= poll.cur
  /\ poll' = [poll EXCEPT !.from = NextFrom,
                          !.todo = {l \in Log : Block[l] \in poll.from .. ToBlock}]
  /\ UNCHANGED <<head, up, pointer, dbVars>>

NextLog(l) == poll.pc = "scan" /\ l \in poll.todo /\ \A k \in poll.todo : l <= k

(* Variant: EventLog without its unique index on (txHash, logIndex).       *)
IsNew(l) == TRUE

(* eventLog.create succeeds: no row has this txHash and logIndex.          *)
IsUnseen(l) == l \notin stored

StoreLog(l) ==
  /\ NextLog(l)
  /\ l \notin Ignored
  /\ IsUnseen(l)
  /\ stored' = stored \cup {l}
  /\ poll' = [poll EXCEPT !.pc = "apply", !.log = l, !.done = 0, !.todo = @ \ {l}]
  /\ UNCHANGED <<head, up, pointer, applied, marked>>

(* Variant: a P2002 is an error like any other, and stops the batch.       *)
OnlyIgnored(l) == l \in Ignored

(* A log that is ignored, or a P2002: the row is there, so the log is      *)
(* taken for one that has been processed.                                  *)
Skippable(l) == l \in Ignored \/ ~IsUnseen(l)

SkipLog(l) ==
  /\ NextLog(l)
  /\ Skippable(l)
  /\ poll' = [poll EXCEPT !.todo = @ \ {l}]
  /\ UNCHANGED <<head, up, pointer, dbVars>>

(* One update of the handler, in EventProcessorService.                    *)
ApplyWrite(l) ==
  /\ poll.pc = "apply" /\ poll.log = l
  /\ poll.done < Writes[l]
  /\ applied' = [applied EXCEPT ![l] = @ + 1]
  /\ poll' = [poll EXCEPT !.done = @ + 1]
  /\ UNCHANGED <<head, up, pointer, stored, marked>>

(* Variant: processedAt is set when the handler starts.                    *)
Started(l) == TRUE

HandlerDone(l) == poll.done = Writes[l]

HandlerReturns(l) ==
  /\ poll.pc = "apply" /\ poll.log = l
  /\ HandlerDone(l)
  /\ poll' = [poll EXCEPT !.pc = "mark"]
  /\ UNCHANGED <<head, up, pointer, dbVars>>

MarkProcessed(l) ==
  /\ poll.pc = "mark" /\ poll.log = l
  /\ marked' = marked \cup {l}
  /\ poll' = [poll EXCEPT !.pc = "scan"]
  /\ UNCHANGED <<head, up, pointer, stored, applied>>

EndPoll ==
  /\ poll.pc = "scan" /\ poll.todo = {}
  /\ poll.from > poll.cur
  /\ pointer' = poll.cur
  /\ poll' = NoPoll
  /\ UNCHANGED <<head, up, dbVars>>
-----------------------------------------------------------------------------
(* A call to the RPC node or to the database fails: the error is logged,   *)
(* isProcessing is reset and the pointer stays.                            *)
PollFails ==
  /\ poll.pc # "idle"
  /\ poll' = NoPoll
  /\ UNCHANGED <<head, up, pointer, dbVars>>

Crash ==
  /\ up
  /\ up' = FALSE
  /\ pointer' = 0
  /\ poll' = NoPoll
  /\ UNCHANGED <<head, dbVars>>

PollStep == StartPoll \/ GetLogs \/ EndPoll

TakeLog(l) == StoreLog(l) \/ SkipLog(l)

HandleLog(l) == ApplyWrite(l) \/ HandlerReturns(l) \/ MarkProcessed(l)

Next == \/ MineBlock
        \/ StartUp \/ PollStep
        \/ \E l \in Log : TakeLog(l) \/ HandleLog(l)
        \/ PollFails
        \/ Crash

Spec == Init /\ [][Next]_vars

(***************************************************************************)
(* Cron keeps firing, the process is restarted when it dies, a handler     *)
(* that runs goes on or fails, and a call that is made again and again     *)
(* succeeds at last: getLogs for each range and create for each log.       *)
(* Nothing stops a poll from failing, or the process from dying, for ever. *)
(***************************************************************************)
Fairness ==
  /\ WF_vars(StartUp)
  /\ SF_vars(StartPoll)
  /\ \A b \in 1 .. LastBlock : SF_vars(poll.from = b /\ GetLogs)
  /\ \A l \in Log : SF_vars(TakeLog(l))
  /\ WF_vars(\E l \in Log : HandleLog(l))
  /\ SF_vars(EndPoll)

FairSpec == Spec /\ Fairness
-----------------------------------------------------------------------------
(* The logs the listener is behind with, in blocks its pointer has passed. *)
Passed == {l \in Log \ Ignored : up /\ Block[l] <= pointer}

(* The audit trail lacks a log of a block that was passed only if the      *)
(* process died half way through that block: another log of the block is   *)
(* in EventLog, and made restoreLastBlock resume after it.                 *)
GapsOnlyInTornBlocks ==
  \A l \in Passed \ stored : \E k \in stored : Block[k] = Block[l] /\ k < l

(* processedAt says that the handler made all its updates.                 *)
MarkedMeansApplied == \A l \in marked : applied[l] = Writes[l]

(* The order of the chain, each event at most once.                        *)
Delivery == INSTANCE EventDelivery WITH taken <- Max({0} \cup stored)
DeliversInOrder == Delivery!Spec

(* A handler that fails does not hold the listener up: whatever block is   *)
(* mined, the pointer gets there.                                          *)
PointerCatchesUp == \A b \in 1 .. LastBlock : (head >= b) ~> (up /\ pointer >= b)

(* The pointer passes a block only when everything went well: the logs of  *)
(* the blocks it has passed were all processed.                            *)
PassedMeansProcessed == \A l \in Passed : applied[l] = Writes[l]
=============================================================================
