----------------------- MODULE EventListenerProofs -----------------------
(***************************************************************************)
(* Proofs about the chain listener, for any logs, blocks, batch size and   *)
(* handlers: what it stores, in which order, and that it implements        *)
(* EventDelivery.                                                          *)
(***************************************************************************)
EXTENDS EventListener, WellFoundedInduction, TLAPS

(* While the listener runs, every log it keeps above its pointer and below *)
(* one that is stored is stored too: above the pointer there is no gap.    *)
NoGapAhead ==
  up => \A l \in Log \ Ignored : \A k \in stored :
          Block[l] > pointer /\ l < k => l \in stored

(* The poll has dealt with every block from the pointer to the range it is *)
(* about to ask for, except for the logs of its batch it has not looked at.*)
PollCovers ==
  poll.pc # "idle" =>
    /\ up /\ pointer < poll.cur /\ poll.cur <= head
    /\ pointer < poll.from /\ poll.from <= poll.cur + 1
    /\ \A l \in poll.todo : pointer < Block[l] /\ Block[l] < poll.from
    /\ \A l \in Log \ Ignored :
         pointer < Block[l] /\ Block[l] < poll.from => l \in stored \cup poll.todo

(* Below a stored log a log is missing only from a block that was torn.    *)
GapsAreTorn ==
  \A l \in Log \ Ignored : \A k \in stored :
    l < k => l \in stored \/ \E j \in stored : Block[j] = Block[l] /\ j < l

(* Only the log stored last can have its handler running, and applied      *)
(* counts what that handler has done.                                      *)
HandlerInv ==
  /\ \A l \in Log \ stored : applied[l] = 0
  /\ poll.pc \in {"apply", "mark"} =>
       poll.log \in stored /\ \A k \in stored : k <= poll.log
  /\ poll.pc = "apply" =>
       /\ poll.log \notin marked
       /\ applied[poll.log] = poll.done /\ poll.done <= Writes[poll.log]
  /\ poll.pc = "mark" => applied[poll.log] = Writes[poll.log]

ListenerInv == /\ TypeOK /\ NoGapAhead /\ PollCovers /\ GapsAreTorn
               /\ GapsOnlyInTornBlocks /\ HandlerInv /\ MarkedMeansApplied
-----------------------------------------------------------------------------
(* A set of naturals that is not empty has a least element.                *)
LEMMA LeastNat ==
  ASSUME NEW T, T \subseteq Nat, T # {}
  PROVE  \E n \in T : \A m \in T : n <= m
<1>1. IsWellFoundedOn(OpToRel(<, Nat), Nat)
  BY NatLessThanWellFounded
<1>2. PICK n \in T : \A m \in T : ~ (<<m, n>> \in OpToRel(<, Nat))
  BY <1>1, WFMin
<1>3. ASSUME NEW m \in T PROVE n <= m
  <2>1. ~ (m < n)
    <3>1. \A x, y \in Nat : x < y => <<x, y>> \in OpToRel(<, Nat)
      BY DEF OpToRel
    <3>2. QED
      BY <3>1, <1>2
  <2>2. QED
    BY <2>1
<1>4. QED
  BY <1>3

(* Max of a set of naturals with a bound: the least of its bounds is in it.*)
LEMMA MaxOfBounded ==
  ASSUME NEW T, T \subseteq Nat, T # {}, NEW b \in Nat, \A m \in T : m <= b
  PROVE  Max(T) \in T /\ \A m \in T : m <= Max(T)
<1> DEFINE U == {u \in Nat : \A m \in T : m <= u}
<1>1. PICK u \in U : \A v \in U : u <= v
  <2>1. U \subseteq Nat /\ U # {}
    OBVIOUS
  <2> HIDE DEF U
  <2>2. QED
    BY <2>1, LeastNat
<1>2. u \in T
  <2>1. CASE u = 0
    <3>1. PICK m \in T : TRUE
      OBVIOUS
    <3>2. m = 0
      BY <1>1, <2>1
    <3>3. QED
      BY <2>1, <3>2
  <2>2. CASE u # 0 /\ u \notin T
    <3>1. u - 1 \in U
      BY <2>2, <1>1
    <3>2. QED
      BY <3>1, <1>1
  <2>3. QED
    BY <2>1, <2>2
<1>3. QED
  BY <1>1, <1>2 DEF Max

(* The next range never goes past the end of the poll.                     *)
LEMMA ToBlockFact ==
  ASSUME poll \in Poll, poll.from <= poll.cur
  PROVE  ToBlock \in Nat /\ poll.from <= ToBlock /\ ToBlock <= poll.cur
<1>1. poll.from \in Nat /\ poll.cur \in Nat /\ BatchBlocks \in Nat \ {0}
  BY ListenerAssumption DEF Poll
<1>2. QED
  BY <1>1 DEF ToBlock, Min

(* Restored is the block of a stored log, or the first block if there is   *)
(* none, and no stored log is above it.                                    *)
LEMMA RestoredFact ==
  ASSUME stored \subseteq Log
  PROVE  /\ Restored \in Nat
         /\ \A l \in stored : Block[l] <= Restored
         /\ Restored = DeployBlock \/ \E l \in stored : Block[l] = Restored
<1> DEFINE T == {DeployBlock} \cup {Block[l] : l \in stored}
<1>1. NumLogs \in Log /\ Block[NumLogs] \in Nat
  BY ListenerAssumption DEF Log
<1>2. \A l \in Log : Block[l] \in Nat /\ Block[l] <= Block[NumLogs]
  <2>1. \A l \in Log : l < NumLogs \/ l = NumLogs
    BY ListenerAssumption DEF Log
  <2>2. QED
    BY <1>1, <2>1, ListenerAssumption
<1>3. T \subseteq Nat /\ T # {} /\ \A m \in T : m <= Block[NumLogs]
  BY <1>1, <1>2, ListenerAssumption
<1>4. Max(T) \in T /\ \A m \in T : m <= Max(T)
  <2> HIDE DEF T
  <2>1. QED
    BY <1>1, <1>3, MaxOfBounded
<1>5. QED
  BY <1>3, <1>4 DEF Restored

(* What the mapping of the refinement makes of the logs stored.            *)
LEMMA TakenFact ==
  ASSUME stored \subseteq Log
  PROVE  /\ \A l \in stored : l <= Max({0} \cup stored)
         /\ \A l \in Log : (\A k \in stored : k <= l) /\ l \in stored
                             => Max({0} \cup stored) = l
         /\ \A l \in Log : (\A k \in stored : k < l)
                             => l > Max({0} \cup stored) /\ Max({0} \cup stored \cup {l}) = l
<1>1. \A l \in Log : l \in Nat /\ l <= NumLogs /\ l > 0
  BY ListenerAssumption DEF Log
<1>2. Max({0} \cup stored) \in {0} \cup stored
      /\ \A m \in {0} \cup stored : m <= Max({0} \cup stored)
  <2>1. {0} \cup stored \subseteq Nat /\ \A m \in {0} \cup stored : m <= NumLogs
    BY <1>1, ListenerAssumption
  <2>2. QED
    BY <2>1, MaxOfBounded, ListenerAssumption
<1>3. ASSUME NEW l \in Log, \A k \in stored : k < l
      PROVE  Max({0} \cup stored \cup {l}) = l
  <2>1. \A k \in {0} \cup stored \cup {l} : k \in Nat /\ k <= l
    BY <1>1, <1>3
  <2> DEFINE T == {0} \cup stored \cup {l}
  <2>2. Max(T) \in T /\ \A m \in T : m <= Max(T)
    <3>1. T \subseteq Nat /\ T # {} /\ l \in Nat /\ l \in T
      BY <2>1, <1>1
    <3> HIDE DEF T
    <3>2. QED
      BY <2>1, <3>1, MaxOfBounded DEF T
  <2>3. l \in T /\ T = {0} \cup stored \cup {l}
    OBVIOUS
  <2> HIDE DEF T
  <2>4. Max(T) \in Nat /\ l \in Nat /\ Max(T) <= l /\ l <= Max(T)
    BY <1>1, <2>1, <2>2, <2>3
  <2>5. QED
    BY <2>3, <2>4
<1>4. QED
  BY <1>1, <1>2, <1>3
-----------------------------------------------------------------------------
(* The initial states satisfy the invariant.                               *)
LEMMA InitHolds == Init => ListenerInv
<1> SUFFICES ASSUME Init PROVE ListenerInv
  OBVIOUS
<1>1. 1 \in Log /\ NoPoll \in Poll
  BY ListenerAssumption DEF Log, NoPoll, Poll
<1>2. TypeOK
  BY <1>1, ListenerAssumption DEF TypeOK, Init
<1>3. poll.pc = "idle"
  BY DEF Init, NoPoll
<1>4. QED
  BY <1>2, <1>3 DEF ListenerInv, NoGapAhead, PollCovers, GapsAreTorn,
     GapsOnlyInTornBlocks, Passed, HandlerInv, MarkedMeansApplied, Init

(* A step of the listener keeps the types.                                 *)
LEMMA TypeStep == ListenerInv /\ [Next]_vars => TypeOK'
<1> SUFFICES ASSUME ListenerInv, [Next]_vars PROVE TypeOK'
  OBVIOUS
<1>1. TypeOK /\ PollCovers
  BY DEF ListenerInv
<1> USE <1>1 DEF TypeOK
<1>2. 1 \in Log /\ NoPoll \in Poll /\ \A l \in Log : Block[l] \in Nat
  BY ListenerAssumption DEF Log, NoPoll, Poll
<1>3. CASE MineBlock
  BY <1>2, <1>3 DEF MineBlock, dbVars
<1>4. CASE StartUp
  BY <1>4, RestoredFact DEF StartUp, dbVars
<1>5. CASE StartPoll
  <2> DEFINE p == [NoPoll EXCEPT !.cur = head, !.from = pointer + 1]
  <2>1. p \in Poll
    <3>1. head \in Nat /\ pointer + 1 \in Nat
      OBVIOUS
    <3>2. QED
      BY <1>2, <3>1 DEF Poll, NoPoll
  <2>2. poll' = [p EXCEPT !.pc = "scan"]
    BY <1>5 DEF StartPoll, NoPoll
  <2> HIDE DEF p
  <2>3. poll' \in Poll
    BY <2>1, <2>2 DEF Poll
  <2>4. QED
    BY <1>5, <2>3 DEF StartPoll, dbVars
<1>6. CASE GetLogs
  <2>1. NextFrom \in Nat
    BY <1>6, ToBlockFact DEF GetLogs, NextFrom
  <2>2. poll' \in Poll
    BY <1>6, <2>1 DEF GetLogs, Poll
  <2>3. QED
    BY <1>6, <2>2 DEF GetLogs, dbVars
<1>7. ASSUME NEW l \in Log, StoreLog(l) PROVE TypeOK'
  <2>1. Block[l] <= head
    BY <1>2, <1>7 DEF StoreLog, NextLog, PollCovers, Poll
  <2>2. QED
    BY <1>7, <2>1 DEF StoreLog, NextLog, Poll
<1>8. ASSUME NEW l \in Log, SkipLog(l) PROVE TypeOK'
  BY <1>8 DEF SkipLog, NextLog, Poll, dbVars
<1>9. ASSUME NEW l \in Log, HandleLog(l) PROVE TypeOK'
  <2>1. CASE ApplyWrite(l)
    BY <2>1 DEF ApplyWrite, Poll
  <2>2. CASE HandlerReturns(l)
    BY <2>2 DEF HandlerReturns, Poll, dbVars
  <2>3. CASE MarkProcessed(l)
    BY <2>3 DEF MarkProcessed, Poll, ListenerInv, HandlerInv
  <2>4. QED
    BY <1>9, <2>1, <2>2, <2>3 DEF HandleLog
<1>10. CASE EndPoll \/ PollFails \/ Crash
  <2>1. poll' \in Poll /\ pointer' \in Nat
    BY <1>2, <1>10 DEF EndPoll, PollFails, Crash, Poll
  <2>2. QED
    BY <1>10, <2>1 DEF EndPoll, PollFails, Crash, dbVars
<1>11. CASE UNCHANGED vars
  BY <1>11 DEF vars
<1>12. QED
  BY <1>3, <1>4, <1>5, <1>6, <1>7, <1>8, <1>9, <1>10, <1>11
     DEF Next, PollStep, TakeLog

(* Every step keeps the rest of the invariant.                             *)
LEMMA InvStep == ListenerInv /\ [Next]_vars => ListenerInv'
<1> SUFFICES ASSUME ListenerInv, [Next]_vars PROVE ListenerInv'
  OBVIOUS
<1> DEFINE Rest == NoGapAhead /\ PollCovers /\ GapsAreTorn
                   /\ GapsOnlyInTornBlocks /\ HandlerInv /\ MarkedMeansApplied
<1>0. TypeOK /\ TypeOK'
  BY TypeStep DEF ListenerInv
<1>1. Rest
  BY DEF ListenerInv
<1>2. /\ \A l \in Log : l \in Nat /\ Block[l] \in Nat /\ Block[l] > DeployBlock
                        /\ Writes[l] \in Nat
      /\ \A k, l \in Log : k < l => Block[k] <= Block[l]
      /\ stored \subseteq Log /\ marked \subseteq stored
      /\ head \in Nat /\ pointer \in Nat /\ DeployBlock \in Nat /\ poll \in Poll
      /\ applied \in [Log -> Nat]
      /\ poll.from \in Nat /\ poll.cur \in Nat /\ poll.done \in Nat
      /\ poll.log \in Log /\ poll.todo \subseteq Log
  <2>1. /\ stored \subseteq Log /\ marked \subseteq stored
        /\ head \in Nat /\ pointer \in Nat /\ poll \in Poll /\ applied \in [Log -> Nat]
    BY <1>0 DEF TypeOK
  <2>2. /\ poll.from \in Nat /\ poll.cur \in Nat /\ poll.done \in Nat
        /\ poll.log \in Log /\ poll.todo \subseteq Log
    BY <2>1 DEF Poll
  <2>3. \A l \in Log : l \in Nat
    BY ListenerAssumption DEF Log
  <2>4. QED
    BY <2>1, <2>2, <2>3, ListenerAssumption
<1>3. CASE MineBlock
  <2>1. head' = head + 1 /\ UNCHANGED <<up, pointer, poll, stored, applied, marked>>
    BY <1>3 DEF MineBlock, dbVars
  <2>2. PollCovers'
    BY <1>1, <1>2, <2>1 DEF PollCovers
  <2>3. NoGapAhead' /\ GapsAreTorn' /\ GapsOnlyInTornBlocks' /\ HandlerInv'
        /\ MarkedMeansApplied'
    BY <1>1, <2>1 DEF NoGapAhead, GapsAreTorn, GapsOnlyInTornBlocks, Passed,
       HandlerInv, MarkedMeansApplied
  <2>4. QED
    BY <1>0, <2>2, <2>3 DEF ListenerInv
<1>4. CASE StartUp
  <2>0. stored' = stored /\ poll' = poll /\ applied' = applied /\ marked' = marked
        /\ up' = TRUE /\ ~up /\ pointer' = Restored
    BY <1>4 DEF StartUp, dbVars
  <2>1. /\ Restored \in Nat
        /\ \A l \in stored : Block[l] <= Restored
        /\ Restored = DeployBlock \/ \E l \in stored : Block[l] = Restored
    BY <1>2, RestoredFact
  <2>2. NoGapAhead'
    <3>1. \A l \in Log, k \in stored : l < k => Block[l] <= Restored
      BY <1>2, <2>1
    <3>2. QED
      BY <1>2, <2>0, <2>1, <3>1 DEF NoGapAhead
  <2>3. GapsOnlyInTornBlocks'
    <3> SUFFICES ASSUME NEW l \in Log \ Ignored, Block[l] <= Restored, l \notin stored
                 PROVE  \E j \in stored : Block[j] = Block[l] /\ j < l
      BY <2>0 DEF GapsOnlyInTornBlocks, Passed
    <3>1. PICK k \in stored : Block[k] = Restored
      BY <1>2, <2>1
    <3>2. CASE l < k
      BY <1>1, <3>2 DEF GapsAreTorn
    <3>3. CASE k < l
      <4>1. Block[k] <= Block[l]
        BY <1>2, <3>3
      <4>2. QED
        BY <1>2, <3>1, <3>3, <4>1
    <3>4. QED
      BY <1>2, <3>2, <3>3
  <2>4. PollCovers' /\ GapsAreTorn' /\ HandlerInv' /\ MarkedMeansApplied'
    BY <1>1, <2>0 DEF PollCovers, GapsAreTorn, HandlerInv, MarkedMeansApplied
  <2>5. QED
    BY <1>0, <2>2, <2>3, <2>4 DEF ListenerInv
<1>5. CASE StartPoll
  <2>1. /\ poll'.pc = "scan" /\ poll'.cur = head /\ poll'.from = pointer + 1
        /\ poll'.todo = {} /\ pointer < head /\ up
        /\ UNCHANGED <<head, up, pointer, stored, applied, marked>>
    BY <1>5 DEF StartPoll, NoPoll, dbVars
  <2>2. PollCovers'
    BY <1>2, <2>1 DEF PollCovers
  <2>3. NoGapAhead' /\ GapsAreTorn' /\ GapsOnlyInTornBlocks' /\ MarkedMeansApplied'
    BY <1>1, <2>1 DEF NoGapAhead, GapsAreTorn, GapsOnlyInTornBlocks, Passed,
       MarkedMeansApplied
  <2>4. HandlerInv'
    BY <1>1, <2>1 DEF HandlerInv
  <2>5. QED
    BY <1>0, <2>2, <2>3, <2>4 DEF ListenerInv
<1>6. CASE GetLogs
  <2>1. ToBlock \in Nat /\ poll.from <= ToBlock /\ ToBlock <= poll.cur
    BY <1>2, <1>6, ToBlockFact DEF GetLogs
  <2>2. /\ poll'.pc = "scan" /\ poll'.cur = poll.cur /\ poll'.from = ToBlock + 1
        /\ poll'.todo = {l \in Log : Block[l] \in poll.from .. ToBlock}
        /\ poll.pc = "scan" /\ poll.todo = {}
        /\ UNCHANGED <<head, up, pointer, stored, applied, marked>>
    BY <1>2, <1>6 DEF GetLogs, NextFrom, dbVars, Poll
  <2>3. PollCovers'
    <3>1. \A l \in Log \ Ignored : pointer < Block[l] /\ Block[l] < ToBlock + 1
             => l \in stored \/ Block[l] \in poll.from .. ToBlock
      BY <1>1, <1>2, <2>1, <2>2 DEF PollCovers
    <3>2. up /\ pointer < poll.cur /\ poll.cur <= head /\ pointer < poll.from
      BY <1>1, <2>2 DEF PollCovers
    <3>3. QED
      BY <1>2, <2>1, <2>2, <3>1, <3>2 DEF PollCovers
  <2>4. NoGapAhead' /\ GapsAreTorn' /\ GapsOnlyInTornBlocks' /\ MarkedMeansApplied'
    BY <1>1, <2>2 DEF NoGapAhead, GapsAreTorn, GapsOnlyInTornBlocks, Passed,
       MarkedMeansApplied
  <2>5. HandlerInv'
    BY <1>1, <2>2 DEF HandlerInv
  <2>6. QED
    BY <1>0, <2>3, <2>4, <2>5 DEF ListenerInv
<1>7. ASSUME NEW l \in Log, StoreLog(l) PROVE ListenerInv'
  <2>1. /\ poll.pc = "scan" /\ l \in poll.todo /\ \A k \in poll.todo : l <= k
        /\ l \notin Ignored /\ l \notin stored
        /\ stored' = stored \cup {l}
        /\ poll'.pc = "apply" /\ poll'.log = l /\ poll'.done = 0
        /\ poll'.todo = poll.todo \ {l}
        /\ poll'.cur = poll.cur /\ poll'.from = poll.from
        /\ UNCHANGED <<head, up, pointer, applied, marked>>
    BY <1>2, <1>7 DEF StoreLog, NextLog, IsUnseen, Poll
  <2>2. /\ up /\ pointer < Block[l] /\ Block[l] < poll.from
        /\ \A m \in Log \ Ignored :
             pointer < Block[m] /\ Block[m] < poll.from => m \in stored \cup poll.todo
    BY <1>1, <2>1 DEF PollCovers
  <2>3. \A m \in Log \ Ignored : m < l /\ pointer < Block[m] => m \in stored
    <3> SUFFICES ASSUME NEW m \in Log \ Ignored, m < l, pointer < Block[m]
                 PROVE  m \in stored
      OBVIOUS
    <3>1. Block[m] <= Block[l]
      BY <1>2
    <3>2. m \notin poll.todo
      BY <1>2, <2>1
    <3>3. QED
      BY <1>2, <2>2, <3>1, <3>2
  <2>4. \A k \in stored : k < l
    BY <1>1, <1>2, <2>1, <2>2 DEF NoGapAhead
  <2>5. NoGapAhead'
    BY <1>1, <1>2, <2>1, <2>3 DEF NoGapAhead
  <2>6. PollCovers'
    BY <1>1, <2>1 DEF PollCovers
  <2>7. GapsAreTorn'
    <3>1. ASSUME NEW m \in Log \ Ignored, m < l, m \notin stored
          PROVE  \E j \in stored : Block[j] = Block[m] /\ j < m
      <4>1. Block[m] <= pointer
        BY <1>2, <2>3, <3>1
      <4>2. QED
        BY <1>1, <2>2, <3>1, <4>1 DEF GapsOnlyInTornBlocks, Passed
    <3>2. QED
      BY <1>1, <2>1, <3>1 DEF GapsAreTorn
  <2>8. GapsOnlyInTornBlocks'
    BY <1>1, <2>1 DEF GapsOnlyInTornBlocks, Passed
  <2>9. HandlerInv' /\ MarkedMeansApplied'
    BY <1>1, <1>2, <2>1, <2>4 DEF HandlerInv, MarkedMeansApplied
  <2>10. QED
    BY <1>0, <2>5, <2>6, <2>7, <2>8, <2>9 DEF ListenerInv
<1>8. ASSUME NEW l \in Log, SkipLog(l) PROVE ListenerInv'
  <2>1. /\ poll'.pc = poll.pc /\ poll.pc = "scan" /\ poll'.todo = poll.todo \ {l}
        /\ poll'.cur = poll.cur /\ poll'.from = poll.from
        /\ l \in Ignored \/ l \in stored
        /\ UNCHANGED <<head, up, pointer, stored, applied, marked>>
    BY <1>2, <1>8 DEF SkipLog, NextLog, Skippable, IsUnseen, dbVars, Poll
  <2>2. PollCovers'
    BY <1>1, <2>1 DEF PollCovers
  <2>3. NoGapAhead' /\ GapsAreTorn' /\ GapsOnlyInTornBlocks' /\ MarkedMeansApplied'
    BY <1>1, <2>1 DEF NoGapAhead, GapsAreTorn, GapsOnlyInTornBlocks, Passed,
       MarkedMeansApplied
  <2>4. HandlerInv'
    BY <1>1, <2>1 DEF HandlerInv
  <2>5. QED
    BY <1>0, <2>2, <2>3, <2>4 DEF ListenerInv
<1>9. ASSUME NEW l \in Log, HandleLog(l) PROVE ListenerInv'
  <2>1. /\ poll'.todo = poll.todo /\ poll'.cur = poll.cur /\ poll'.from = poll.from
        /\ poll'.log = poll.log /\ poll.log = l
        /\ UNCHANGED <<head, up, pointer, stored>> /\ poll.pc \in {"apply", "mark"}
    BY <1>2, <1>9 DEF HandleLog, ApplyWrite, HandlerReturns, MarkProcessed, dbVars, Poll
  <2>2. NoGapAhead' /\ PollCovers' /\ GapsAreTorn' /\ GapsOnlyInTornBlocks'
    BY <1>1, <2>1 DEF NoGapAhead, PollCovers, GapsAreTorn, GapsOnlyInTornBlocks, Passed
  <2>3. CASE ApplyWrite(l)
    <3>1. /\ poll.pc = "apply" /\ poll'.pc = "apply" /\ poll'.done = poll.done + 1
          /\ poll.done < Writes[l] /\ applied' = [applied EXCEPT ![l] = @ + 1]
          /\ marked' = marked
      BY <1>2, <2>3 DEF ApplyWrite, Poll
    <3>2. HandlerInv' /\ MarkedMeansApplied'
      BY <1>1, <1>2, <2>1, <3>1 DEF HandlerInv, MarkedMeansApplied
    <3>3. QED
      BY <1>0, <2>2, <3>2 DEF ListenerInv
  <2>4. CASE HandlerReturns(l)
    <3>1. /\ poll.pc = "apply" /\ poll'.pc = "mark" /\ poll.done = Writes[l]
          /\ UNCHANGED <<applied, marked>>
      BY <1>2, <2>4 DEF HandlerReturns, HandlerDone, dbVars, Poll
    <3>2. HandlerInv' /\ MarkedMeansApplied'
      BY <1>1, <1>2, <2>1, <3>1 DEF HandlerInv, MarkedMeansApplied
    <3>3. QED
      BY <1>0, <2>2, <3>2 DEF ListenerInv
  <2>5. CASE MarkProcessed(l)
    <3>1. /\ poll.pc = "mark" /\ poll'.pc = "scan" /\ marked' = marked \cup {l}
          /\ applied' = applied
      BY <1>2, <2>5 DEF MarkProcessed, Poll
    <3>2. HandlerInv' /\ MarkedMeansApplied'
      BY <1>1, <1>2, <2>1, <3>1 DEF HandlerInv, MarkedMeansApplied
    <3>3. QED
      BY <1>0, <2>2, <3>2 DEF ListenerInv
  <2>6. QED
    BY <1>9, <2>3, <2>4, <2>5 DEF HandleLog
<1>10. CASE EndPoll
  <2>1. /\ poll.pc = "scan" /\ poll.todo = {} /\ poll.from > poll.cur
        /\ pointer' = poll.cur /\ poll'.pc = "idle"
        /\ UNCHANGED <<head, up, stored, applied, marked>>
    BY <1>10 DEF EndPoll, NoPoll, dbVars
  <2>2. /\ pointer < poll.cur
        /\ \A l \in Log \ Ignored :
             pointer < Block[l] /\ Block[l] <= poll.cur => l \in stored
    BY <1>1, <1>2, <2>1 DEF PollCovers
  <2>3. NoGapAhead'
    BY <1>1, <1>2, <2>1, <2>2 DEF NoGapAhead
  <2>4. GapsOnlyInTornBlocks'
    BY <1>1, <1>2, <2>1, <2>2 DEF GapsOnlyInTornBlocks, Passed
  <2>5. PollCovers' /\ GapsAreTorn' /\ HandlerInv' /\ MarkedMeansApplied'
    BY <1>1, <2>1 DEF PollCovers, GapsAreTorn, HandlerInv, MarkedMeansApplied
  <2>6. QED
    BY <1>0, <2>3, <2>4, <2>5 DEF ListenerInv
<1>11. CASE PollFails \/ Crash
  <2>1. /\ poll'.pc = "idle" /\ (up' => up /\ pointer' = pointer)
        /\ UNCHANGED <<stored, applied, marked>>
    BY <1>11 DEF PollFails, Crash, NoPoll, dbVars
  <2>2. NoGapAhead' /\ PollCovers' /\ GapsAreTorn'
    BY <1>1, <2>1 DEF NoGapAhead, PollCovers, GapsAreTorn
  <2>3. GapsOnlyInTornBlocks' /\ HandlerInv' /\ MarkedMeansApplied'
    BY <1>1, <2>1 DEF GapsOnlyInTornBlocks, Passed, HandlerInv, MarkedMeansApplied
  <2>4. QED
    BY <1>0, <2>2, <2>3 DEF ListenerInv
<1>12. CASE UNCHANGED vars
  BY <1>0, <1>1, <1>12 DEF vars, ListenerInv, NoGapAhead, PollCovers, GapsAreTorn,
     GapsOnlyInTornBlocks, Passed, HandlerInv, MarkedMeansApplied
<1>13. QED
  BY <1>3, <1>4, <1>5, <1>6, <1>7, <1>8, <1>9, <1>10, <1>11, <1>12
     DEF Next, PollStep, TakeLog

(* The invariant holds for ever.                                           *)
LEMMA ListenerSafe == Spec => []ListenerInv
<1>1. QED
  BY InitHolds, InvStep, PTL DEF Spec

(* Every reachable state of the listener has its type: what is stored was  *)
(* mined, and what is marked is stored (storeLog, markProcessed).          *)
THEOREM TypeCorrect == Spec => []TypeOK
<1>1. ListenerInv => TypeOK
  BY DEF ListenerInv
<1>2. QED
  BY <1>1, ListenerSafe, PTL

(* However polls fail and the process restarts, a log that the pointer has *)
(* passed is missing only behind a stored log of its own block, where      *)
(* restoreLastBlock resumed after a torn block.                            *)
THEOREM GapsTorn == Spec => []GapsOnlyInTornBlocks
<1>1. ListenerInv => GapsOnlyInTornBlocks
  BY DEF ListenerInv
<1>2. QED
  BY <1>1, ListenerSafe, PTL

(* processedAt is set only after every update of the handler was made,     *)
(* wherever handlers are cut off.                                          *)
THEOREM MarkedApplied == Spec => []MarkedMeansApplied
<1>1. ListenerInv => MarkedMeansApplied
  BY DEF ListenerInv
<1>2. QED
  BY <1>1, ListenerSafe, PTL
-----------------------------------------------------------------------------
(* The listener begins where the abstract delivery begins.                 *)
LEMMA DeliveryInit == Init => Delivery!Init
<1>1. Max({0} \cup {}) = 0
  BY DEF Max
<1>2. QED
  BY <1>1 DEF Init, Delivery!Init

(* A step of the listener takes the next event of the chain, carries out   *)
(* an update of the event taken last, or is none of the delivery's.        *)
LEMMA DeliveryStep ==
  ListenerInv /\ [Next]_vars
    => [Delivery!Next]_<<Max({0} \cup stored), applied>>
<1> SUFFICES ASSUME ListenerInv, [Next]_vars
             PROVE  Delivery!Next \/ (Max({0} \cup stored)' = Max({0} \cup stored)
                                      /\ applied' = applied)
  OBVIOUS
<1>1. stored \subseteq Log /\ poll \in Poll /\ applied \in [Log -> Nat]
  BY DEF ListenerInv, TypeOK
<1>2. ASSUME NEW l \in Log, StoreLog(l) PROVE Delivery!Next
  <2>1. \A k \in stored : k < l
    <3>1. /\ poll.pc = "scan" /\ l \in poll.todo /\ l \notin Ignored /\ l \notin stored
      BY <1>2 DEF StoreLog, NextLog, IsUnseen
    <3>2. up /\ pointer < Block[l]
      BY <3>1 DEF ListenerInv, PollCovers
    <3>3. \A k \in stored : ~ (l < k)
      BY <3>1, <3>2 DEF ListenerInv, NoGapAhead
    <3>4. \A k \in Log : k \in Nat
      BY ListenerAssumption DEF Log
    <3>5. \A k \in stored : k # l /\ k \in Nat /\ l \in Nat
      BY <1>1, <3>1, <3>4
    <3>6. QED
      BY <3>3, <3>5
  <2>2. l > Max({0} \cup stored) /\ Max({0} \cup stored \cup {l}) = l
    BY <1>1, <2>1, TakenFact
  <2>3. Delivery!Take(l)
    BY <1>2, <2>2 DEF StoreLog, Delivery!Take
  <2>4. QED
    BY <2>3 DEF Delivery!Next
<1>3. ASSUME NEW l \in Log, ApplyWrite(l) PROVE Delivery!Next
  <2>1. /\ poll.log = l /\ l \in stored /\ \A k \in stored : k <= l
        /\ applied[l] < Writes[l]
    BY <1>3 DEF ApplyWrite, ListenerInv, HandlerInv
  <2>2. Max({0} \cup stored) = l
    BY <1>1, <2>1, TakenFact
  <2>3. Delivery!Apply(l)
    BY <1>3, <2>1, <2>2 DEF ApplyWrite, Delivery!Apply
  <2>4. QED
    BY <2>3 DEF Delivery!Next
<1>4. CASE UNCHANGED <<stored, applied>>
  BY <1>4
<1>5. QED
  BY <1>2, <1>3, <1>4 DEF Next, MineBlock, StartUp, PollStep, StartPoll, GetLogs,
     EndPoll, TakeLog, SkipLog, HandleLog, HandlerReturns, MarkProcessed, PollFails,
     Crash, dbVars, vars

(* The listener implements EventDelivery: the events reach the domain in   *)
(* the order of the chain, each at most once, across failures and restarts.*)
THEOREM ImplementsDelivery == Spec => DeliversInOrder
<1>1. QED
  BY DeliveryInit, DeliveryStep, ListenerSafe, PTL
     DEF Spec, DeliversInOrder, Delivery!Spec
=============================================================================
