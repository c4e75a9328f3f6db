---------------------------- MODULE Relayer_proofs ----------------------------
(***************************************************************************)
(* The relayer's log, for every number of blocks, restarts and retries.    *)
(***************************************************************************)
EXTENDS Relayer, TLAPS

\* The process only queries when blocks are new: the range is never empty, and it ends
\* at a block that exists.
QueryIsNew == pc = "query" => lastProcessedBlock < currentBlock

\* Each event in the blocks this process worked through was printed once, no later one
\* was, and none twice by any process before.
ReportedUpTo(last) ==
    \A b \in Blocks :
        /\ reported[b] <= 1
        /\ b > last => reported[b] = 0
        /\ b \in emitted /\ since < b /\ b <= last => reported[b] = 1

IInv == TypeOK /\ QueryIsNew /\ ReportedUpTo(lastProcessedBlock)

-----------------------------------------------------------------------------
LEMMA InitIInv == Init => IInv
<1> USE RelayerAssumption DEF Init
<1> SUFFICES ASSUME Init PROVE IInv
  OBVIOUS
<1>1. reported \in [Blocks -> Nat] /\ \A b \in Blocks : reported[b] = 0
  OBVIOUS
<1>2. TypeOK
  BY <1>1 DEF TypeOK
<1>3. QueryIsNew
  BY DEF QueryIsNew
<1>4. ReportedUpTo(lastProcessedBlock)
  BY <1>1 DEF ReportedUpTo, Blocks
<1> QED BY <1>2, <1>3, <1>4 DEF IInv

\* A step of the process that reads and prints no event.
LEMMA QuietStep ==
    ASSUME IInv, UNCHANGED <<head, emitted, lastProcessedBlock, since, reported, starts>>,
           pc' \in {"off", "first", "state", "head", "query", "sleep", "backoff"},
           currentBlock' \in 0 .. head,
           retryCount' \in 0 .. MAX_RETRIES,
           pc' # "off" => (retryCount' = MAX_RETRIES <=> pc' = "backoff"),
           pc' = "query" => lastProcessedBlock < currentBlock'
    PROVE  IInv'
<1>1. TypeOK'
  BY DEF IInv, TypeOK
<1>2. QueryIsNew'
  BY DEF QueryIsNew
<1>3. ReportedUpTo(lastProcessedBlock)'
  BY DEF IInv, ReportedUpTo
<1> QED BY <1>1, <1>2, <1>3 DEF IInv

LEMMA MineKeeps == ASSUME IInv, Mine PROVE IInv'
<1> USE RelayerAssumption
<1>1. /\ head \in 0 .. MaxHead /\ emitted \subseteq 1 .. head
      /\ currentBlock \in 0 .. head /\ lastProcessedBlock \in 0 .. head /\ since \in 0 .. head
  BY DEF IInv, TypeOK
<1>2. /\ head < MaxHead /\ head' = head + 1
      /\ emitted' = emitted \/ emitted' = emitted \cup {head + 1}
      /\ UNCHANGED <<pc, currentBlock, lastProcessedBlock, retryCount, since, reported, starts>>
  BY DEF Mine, locals
<1>3. head' \in 0 .. MaxHead /\ emitted' \subseteq 1 .. head'
  <2>1. head' \in 0 .. MaxHead
    BY <1>1, <1>2
  <2>2. emitted' \subseteq emitted \cup {head + 1}
    BY <1>2
  <2>3. ASSUME NEW b \in emitted' PROVE b \in 1 .. head'
    <3>1. b \in 1 .. head \/ b = head + 1
      BY <1>1, <2>2
    <3> QED BY <1>1, <1>2, <3>1
  <2> QED BY <2>1, <2>3
<1>4. currentBlock \in 0 .. head' /\ lastProcessedBlock \in 0 .. head' /\ since \in 0 .. head'
  BY <1>1, <1>2
<1>5. TypeOK'
  BY <1>2, <1>3, <1>4 DEF IInv, TypeOK
<1>6. QueryIsNew'
  BY <1>2 DEF IInv, QueryIsNew
<1>7. ReportedUpTo(lastProcessedBlock)'
  <2> SUFFICES ASSUME NEW b \in Blocks
               PROVE  /\ reported[b] <= 1
                      /\ b > lastProcessedBlock => reported[b] = 0
                      /\ b \in emitted' /\ since < b /\ b <= lastProcessedBlock => reported[b] = 1
    BY <1>2 DEF ReportedUpTo
  <2>1. b \in emitted' /\ b <= lastProcessedBlock => b \in emitted
    BY <1>1, <1>2
  <2> QED BY <2>1 DEF IInv, ReportedUpTo
<1> QED BY <1>5, <1>6, <1>7 DEF IInv

\* A new process starts at the latest block: it is behind no event.
LEMMA StartKeeps == ASSUME IInv, Start PROVE IInv'
<1> USE RelayerAssumption
<1>1. /\ head \in 0 .. MaxHead /\ emitted \subseteq 1 .. head
      /\ lastProcessedBlock \in 0 .. head
  BY DEF IInv, TypeOK
<1>2. /\ starts < StartLimit /\ starts' = starts + 1 /\ pc' = "first"
      /\ lastProcessedBlock' = head /\ since' = head /\ retryCount' = 0 /\ currentBlock' = 0
      /\ UNCHANGED <<head, emitted, reported>>
  BY DEF Start, Goto
<1>3. starts' \in 0 .. StartLimit
  BY <1>2 DEF IInv, TypeOK
<1>4. TypeOK'
  BY <1>1, <1>2, <1>3 DEF IInv, TypeOK
<1>5. QueryIsNew'
  BY <1>2 DEF QueryIsNew
<1>6. ReportedUpTo(lastProcessedBlock)'
  BY <1>1, <1>2 DEF IInv, ReportedUpTo, Blocks
<1> QED BY <1>4, <1>5, <1>6 DEF IInv

LEMMA EventsReadKeeps == ASSUME IInv, EventsRead PROVE IInv'
<1> USE RelayerAssumption
<1>1. /\ head \in 0 .. MaxHead /\ currentBlock \in 0 .. head /\ lastProcessedBlock \in 0 .. head
      /\ since \in 0 .. head /\ reported \in [Blocks -> Nat] /\ emitted \subseteq 1 .. head
  BY DEF IInv, TypeOK
<1>2. /\ pc = "query" /\ pc' = "sleep" /\ retryCount' = 0
      /\ lastProcessedBlock' = currentBlock
      /\ UNCHANGED <<head, emitted, currentBlock, since, starts>>
  BY DEF EventsRead, Goto, Processed
<1>3. lastProcessedBlock < currentBlock
  BY <1>2 DEF IInv, QueryIsNew
<1>4. reported' = [b \in Blocks |->
          IF b \in emitted \cap (lastProcessedBlock + 1 .. currentBlock)
          THEN reported[b] + 1 ELSE reported[b]]
  BY DEF EventsRead, Range
<1>5. reported' \in [Blocks -> Nat]
  BY <1>1, <1>4
<1>6. TypeOK'
  BY <1>1, <1>2, <1>5 DEF IInv, TypeOK
<1>7. QueryIsNew'
  BY <1>2 DEF QueryIsNew
<1>8. ReportedUpTo(lastProcessedBlock)'
  <2> SUFFICES ASSUME NEW b \in Blocks
               PROVE  /\ reported'[b] <= 1
                      /\ b > currentBlock => reported'[b] = 0
                      /\ b \in emitted /\ since < b /\ b <= currentBlock => reported'[b] = 1
    BY <1>2 DEF ReportedUpTo
  <2>1. /\ reported[b] \in Nat /\ reported[b] <= 1
        /\ b > lastProcessedBlock => reported[b] = 0
        /\ b \in emitted /\ since < b /\ b <= lastProcessedBlock => reported[b] = 1
    BY <1>1 DEF IInv, ReportedUpTo
  <2>2. CASE b \in emitted /\ b \in lastProcessedBlock + 1 .. currentBlock
    <3>1. reported'[b] = reported[b] + 1
      BY <1>4, <2>2
    <3> QED BY <1>1, <2>1, <2>2, <3>1
  <2>3. CASE ~(b \in emitted /\ b \in lastProcessedBlock + 1 .. currentBlock)
    <3>1. reported'[b] = reported[b]
      BY <1>4, <2>3
    <3> QED BY <1>1, <1>3, <2>1, <2>3, <3>1 DEF Blocks
  <2> QED BY <2>2, <2>3
<1> QED BY <1>6, <1>7, <1>8 DEF IInv

LEMMA NextIInv == IInv /\ [Next]_vars => IInv'
<1> SUFFICES ASSUME IInv, [Next]_vars PROVE IInv'
  OBVIOUS
<1> USE RelayerAssumption
<1>0. /\ pc \in {"off", "first", "state", "head", "query", "sleep", "backoff"}
      /\ currentBlock \in 0 .. head /\ lastProcessedBlock \in 0 .. head /\ head \in Nat
      /\ retryCount \in 0 .. MAX_RETRIES
      /\ pc # "off" => (retryCount = MAX_RETRIES <=> pc = "backoff")
      /\ pc = "query" => lastProcessedBlock < currentBlock
  BY DEF IInv, TypeOK, QueryIsNew
<1>1. CASE Exit
  BY <1>0, <1>1, QuietStep DEF Exit, locals
<1>2. CASE StateRead
  BY <1>0, <1>2, QuietStep DEF StateRead, Goto, locals
<1>3. CASE StateFailed
  <2>1. retryCount' \in 0 .. MAX_RETRIES /\ (retryCount' = MAX_RETRIES <=> pc' = "backoff")
    BY <1>0, <1>3 DEF StateFailed, Exhausted
  <2> QED BY <1>0, <1>3, <2>1, QuietStep DEF StateFailed
<1>4. CASE BackOff
  BY <1>0, <1>4, QuietStep DEF BackOff, Goto
<1>5. CASE HeadRead
  BY <1>0, <1>5, QuietStep DEF HeadRead, Goto
<1>6. CASE EventsFailed
  BY <1>0, <1>6, QuietStep DEF EventsFailed, Goto
<1>7. CASE Sleep
  BY <1>0, <1>7, QuietStep DEF Sleep, Goto, locals
<1>8. CASE UNCHANGED vars
  BY <1>0, <1>8, QuietStep DEF vars, locals
<1> QED BY <1>1, <1>2, <1>3, <1>4, <1>5, <1>6, <1>7, <1>8, MineKeeps, StartKeeps,
           EventsReadKeeps DEF Next

THEOREM Invariance == Spec => []IInv
  BY InitIInv, NextIInv, PTL DEF Spec

\* The failures in a row never exceed MAX_RETRIES, and no block is read before it is mined.
THEOREM TypeCorrect == Spec => []TypeOK
<1>1. IInv => TypeOK BY DEF IInv
<1> QED BY <1>1, Invariance, PTL

\* Neither a block mined during a query, nor a failed query, nor a restart makes the log
\* skip or repeat an event of the blocks it has worked through.
THEOREM EventsReportedOnce == Spec => []EachEventOnce
<1>1. IInv => EachEventOnce
  <2> SUFFICES ASSUME IInv PROVE EachEventOnce
    OBVIOUS
  <2>1. emitted \subseteq Blocks
    BY RelayerAssumption DEF IInv, TypeOK, Blocks
  <2> QED BY <2>1 DEF IInv, ReportedUpTo, EachEventOnce
<1> QED BY <1>1, Invariance, PTL
=============================================================================
