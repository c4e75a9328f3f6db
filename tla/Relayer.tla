------------------------------- MODULE Relayer -------------------------------
(***************************************************************************)
(* src/evm/scripts/relayer.ts: a process that polls the contract and       *)
(* reports each BallReceived event.  It does not relay: shouldSendBall     *)
(* returns false, so sendBall is never reached.                            *)
(*                                                                         *)
(* Every await is a step, at which blocks may be mined, the node may fail  *)
(* the call, or the process may be killed and started again.               *)
(***************************************************************************)
EXTENDS Integers

CONSTANTS
    MAX_RETRIES,
    MaxHead,             \* bound: no block is mined above it
    StartLimit           \* bound: number of times the process is started

VARIABLES
    head,                \* number of the latest block
    emitted,             \* the blocks with a BallReceived event
    pc,                  \* the call the process awaits
    currentBlock,        \* local of checkForEvents
    lastProcessedBlock,
    retryCount,
    since,               \* lastProcessedBlock when this process started
    reported,            \* how often each block's event was printed
    starts               \* number of times the process was started

locals == <<currentBlock, lastProcessedBlock, retryCount, since>>
vars   == <<head, emitted, pc, locals, reported, starts>>

Blocks == 1 .. MaxHead

ASSUME RelayerAssumption ==
    MAX_RETRIES \in Nat \ {0} /\ MaxHead \in Nat /\ StartLimit \in Nat

Init ==
    /\ head = 0 /\ emitted = {}
    /\ pc = "off"
    /\ currentBlock = 0 /\ lastProcessedBlock = 0 /\ retryCount = 0 /\ since = 0
    /\ reported = [b \in Blocks |-> 0]
    /\ starts = 0

\* The chain: a block with or without a ball received.
Mine ==
    /\ head < MaxHead
    /\ head' = head + 1
    /\ emitted' = emitted \/ emitted' = emitted \cup {head + 1}
    /\ UNCHANGED <<pc, locals, reported, starts>>

Goto(from, to) == pc = from /\ pc' = to

\* start(): the first checkGameState is outside the loop's try.
Start ==
    /\ starts < StartLimit
    /\ Goto("off", "first")
    /\ starts' = starts + 1
    /\ lastProcessedBlock' = head /\ since' = head
    /\ retryCount' = 0 /\ currentBlock' = 0
    /\ UNCHANGED <<head, emitted, reported>>

\* A failing call there ends the process; SIGINT and SIGTERM do at any time.
Exit ==
    /\ pc # "off"
    /\ pc' = "off"
    /\ UNCHANGED <<head, emitted, locals, reported, starts>>

\* checkGameState returns, also after a "call revert exception".
StateRead ==
    /\ Goto("first", "state") \/ Goto("state", "head")
    /\ UNCHANGED <<head, emitted, locals, reported, starts>>

\* Bug: one failure more before the process backs off.
ExhaustedBug(count) == count > MAX_RETRIES

\* MAX_RETRIES failures in a row call for a longer sleep.
Exhausted(count) == count >= MAX_RETRIES

\* The loop's catch.
StateFailed ==
    /\ pc = "state"
    /\ retryCount' = retryCount + 1
    /\ pc' = IF Exhausted(retryCount') THEN "backoff" ELSE "sleep"
    /\ UNCHANGED <<head, emitted, currentBlock, lastProcessedBlock, since, reported, starts>>

BackOff ==
    /\ Goto("backoff", "sleep")
    /\ retryCount' = 0
    /\ UNCHANGED <<head, emitted, currentBlock, lastProcessedBlock, since, reported, starts>>

\* checkForEvents: getBlockNumber, and nothing to do when no block is new.
HeadRead ==
    /\ currentBlock' = head
    /\ IF head <= lastProcessedBlock
       THEN Goto("head", "sleep") /\ retryCount' = 0
       ELSE Goto("head", "query") /\ UNCHANGED retryCount
    /\ UNCHANGED <<head, emitted, lastProcessedBlock, since, reported, starts>>

\* Bug: the range starts at the block that was processed last.
RangeBug(last, current) == last .. current

\* The blocks queryFilter is asked for.
Range(last, current) == last + 1 .. current

\* Bug: after the query, the latest block counts as processed, not the one queried.
ProcessedBug(current) == head

Processed(current) == current

EventsRead ==
    /\ Goto("query", "sleep")
    /\ reported' = [b \in Blocks |->
           IF b \in emitted \cap Range(lastProcessedBlock, currentBlock)
           THEN reported[b] + 1 ELSE reported[b]]
    /\ lastProcessedBlock' = Processed(currentBlock)
    /\ retryCount' = 0
    /\ UNCHANGED <<head, emitted, currentBlock, since, starts>>

\* Errors are swallowed: the loop counts the round as a success and asks again for the
\* same blocks in the next one.
EventsFailed ==
    /\ Goto("head", "sleep") \/ Goto("query", "sleep")
    /\ retryCount' = 0
    /\ UNCHANGED <<head, emitted, currentBlock, lastProcessedBlock, since, reported, starts>>

Sleep ==
    /\ Goto("sleep", "state")
    /\ UNCHANGED <<head, emitted, locals, reported, starts>>

Next ==
    \/ Mine \/ Start \/ Exit \/ StateRead \/ StateFailed
    \/ BackOff \/ HeadRead \/ EventsRead \/ EventsFailed \/ Sleep

Spec == Init /\ [][Next]_vars

\* The node answers again and again, and the process is scheduled.  Strong fairness,
\* for a failing call in each round makes the next call of the round wait.
FairSpec ==
    /\ Spec
    /\ WF_vars(Sleep) /\ WF_vars(BackOff)
    /\ SF_vars(StateRead) /\ SF_vars(HeadRead) /\ SF_vars(EventsRead)

-----------------------------------------------------------------------------
TypeOK ==
    /\ head \in 0 .. MaxHead /\ emitted \subseteq 1 .. head
    /\ pc \in {"off", "first", "state", "head", "query", "sleep", "backoff"}
    /\ currentBlock \in 0 .. head /\ lastProcessedBlock \in 0 .. head /\ since \in 0 .. head
    /\ retryCount \in 0 .. MAX_RETRIES
    /\ pc # "off" => (retryCount = MAX_RETRIES <=> pc = "backoff")
    /\ reported \in [Blocks -> Nat]
    /\ starts \in 0 .. StartLimit

\* Blocks mined while a query is awaited, failed queries and restarts neither skip an
\* event of the blocks this process has worked through nor report one twice.
EachEventOnce ==
    \A b \in emitted :
        /\ reported[b] <= 1
        /\ since < b /\ b <= lastProcessedBlock => reported[b] = 1
        /\ b > lastProcessedBlock => reported[b] = 0

\* An event emitted while the process runs is reported, unless the process ends first.
EventsAreReported ==
    \A b \in Blocks :
        b \in emitted /\ since < b /\ pc # "off" ~> reported[b] > 0 \/ pc = "off"
=============================================================================
