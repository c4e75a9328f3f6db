----------------------------- MODULE PingPongEVM -----------------------------
(***************************************************************************)
(* The Solidity side of the game: src/evm/contracts/PingPongEVM.sol.       *)
(*                                                                         *)
(* A transaction is one step.  A transaction that reverts rolls back all   *)
(* its writes, so it is no step, and the packet it tried to take stays     *)
(* deliverable.  Every require, revert and early return of a handler is    *)
(* therefore a conjunct of its action.                                     *)
(*                                                                         *)
(* The LayerZero endpoint and the OApp base contracts are libraries that   *)
(* the sources import.  They appear through what the contract uses: the    *)
(* peers and enforcedOptions tables, a fee quoted for each message, and    *)
(* the packets the endpoint accepted (outbound).                           *)
(***************************************************************************)
EXTENDS Integers, FiniteSets

CONSTANTS
    INITIAL_BALL_VALUE,  \* value of a served ball
    MAX_RALLIES_CAP,     \* largest rally limit a game can have
    MaxUint256,          \* largest value of a Solidity word
    peerEid,             \* immutable: the endpoint id of Solana
    Eids,                \* endpoint ids the owner may configure
    EvmEid,              \* the endpoint id of this chain
    EvmApp,              \* the address of this contract
    Addresses,           \* what setPeer may register
    NoPeer,              \* bytes32(0)
    Fees,                \* what the endpoint may quote for one message
    Inbox,               \* packets the executor may present, at any time, any number of times
    MaxBalance,          \* bound: funding stops here
    ServeLimit,          \* bound: number of games served
    PauseLimit           \* bound: number of times the owner pauses

VARIABLES
    ballValue,           \* uint256 public ballValue
    rallyCount,          \* uint256 public rallyCount
    gameState,           \* GameState public gameState
    processedGuid,       \* the guids g with _processedGuid[g]
    balance,             \* address(this).balance
    peers,               \* OAppCore.peers
    enforcedOptions,     \* enforcedOptions[peerEid][SEND_BALL] is not empty
    outNonce,            \* endpoint: messages accepted from this contract
    outbound,            \* endpoint: the packets accepted from this contract
    serves,              \* number of BallServed events so far
    pauses               \* number of "Paused by owner" events so far

ledger == <<balance, peers, enforcedOptions>>
wire   == <<outNonce, outbound>>
play   == <<ballValue, rallyCount, gameState, processedGuid>>
vars   == <<play, ledger, wire, serves, pauses>>

Word      == 0 .. MaxUint256
GameState == [maxRallies : 0 .. MAX_RALLIES_CAP, hasBall : BOOLEAN, gameActive : BOOLEAN]
Packet    == [guid : Nat, srcEid : Eids \cup {EvmEid}, sender : Addresses \cup {EvmApp},
              to : Addresses \cup {EvmApp}, value : Word, rally : Word]

ASSUME ConstantsAssumption ==
    /\ INITIAL_BALL_VALUE \in Nat \ {0}
    /\ MAX_RALLIES_CAP \in Nat \ {0}
    /\ MaxUint256 \in Nat
    /\ INITIAL_BALL_VALUE <= MaxUint256 /\ MAX_RALLIES_CAP <= MaxUint256
    /\ peerEid \in Eids
    /\ NoPeer \notin Addresses
    /\ Fees \subseteq Nat
    /\ Inbox \subseteq Packet
    /\ MaxBalance \in Nat /\ ServeLimit \in Nat /\ PauseLimit \in Nat

Bit(b) == IF b THEN 1 ELSE 0

\* The storage the constructor leaves: no game was played.
Unplayed ==
    /\ ballValue = 0 /\ rallyCount = 0
    /\ gameState = [maxRallies |-> 0, hasBall |-> FALSE, gameActive |-> FALSE]
    /\ processedGuid = {}
    /\ outNonce = 0 /\ outbound = {}
    /\ serves = 0 /\ pauses = 0

Init ==
    /\ Unplayed
    /\ balance = 0
    /\ peers = [e \in Eids |-> NoPeer]
    /\ enforcedOptions = FALSE

-----------------------------------------------------------------------------
(***************************************************************************)
(* Sending.                                                                *)
(***************************************************************************)

\* _quote and _lzSend need a peer, and worker options that are not empty.
CanSend(options) == peers[peerEid] # NoPeer /\ options

\* combineOptions: either the enforced or the caller's options may be empty.
CombineOptions(extra) == enforcedOptions \/ extra

\* Bug: abi.encode(rally, value).
LzSendSwappedBug(value, rally) ==
    /\ outNonce' = outNonce + 1
    /\ outbound' = outbound \cup
           {[guid |-> outNonce + 1, srcEid |-> EvmEid, sender |-> EvmApp,
             to |-> peers[peerEid], value |-> rally, rally |-> value]}

\* _lzSend: the endpoint accepts abi.encode(value, rally) under a fresh guid.
LzSend(value, rally) ==
    /\ outNonce' = outNonce + 1
    /\ outbound' = outbound \cup
           {[guid |-> outNonce + 1, srcEid |-> EvmEid, sender |-> EvmApp,
             to |-> peers[peerEid], value |-> value, rally |-> rally]}

\* Bugs: hasBall is not reset after the send (line 73); gameActive is not set (line 53).
ServedHoldingBug(limit)  == [maxRallies |-> limit, hasBall |-> TRUE, gameActive |-> TRUE]
ServedInactiveBug(limit) == [maxRallies |-> limit, hasBall |-> FALSE, gameActive |-> FALSE]

\* A game that has just been served: the ball has left again.
Served(limit) == [maxRallies |-> limit, hasBall |-> FALSE, gameActive |-> TRUE]

\* Bugs: >= for > in line 47; no upper limit.
ValidMaxRalliesBug(maxRallies)     == maxRallies \in 1 .. MAX_RALLIES_CAP - 1
ValidMaxRalliesHighBug(maxRallies) == maxRallies > 0

\* The parameters a caller may serve with.
ValidMaxRallies(maxRallies) == maxRallies \in 1 .. MAX_RALLIES_CAP

\* serve up to the endpoint's refund; the excess goes back to the caller.
StartServe(maxRallies, extra, paid, fee) ==
    /\ serves < ServeLimit
    /\ ~gameState.gameActive
    /\ ValidMaxRallies(maxRallies)
    /\ CanSend(CombineOptions(extra))
    /\ paid >= fee
    /\ ballValue' = INITIAL_BALL_VALUE
    /\ rallyCount' = 0
    /\ LzSend(INITIAL_BALL_VALUE, 0)
    /\ UNCHANGED <<processedGuid, ledger, pauses>>

\* The whole of serve, by a caller who does nothing when the refund arrives.
Serve(maxRallies, extra, paid, fee) ==
    /\ StartServe(maxRallies, extra, paid, fee)
    /\ gameState' = Served(maxRallies)
    /\ serves' = serves + 1

\* address(this).balance < fee.nativeFee reverts (InsufficientContractBalance)
Affordable(fee) == fee <= balance

\* The call of _sendBackWithValue takes the fee along, and fails without it (SelfCallFailed);
\* the endpoint keeps it.
SelfCall(fee) == fee <= balance /\ balance' = balance - fee

\* _sendBack with _sendBackWithValue: the contract pays the fee of the reply.
SendBack(gs, value, rally, fee) ==
    /\ gs.gameActive /\ gs.hasBall
    /\ rally < gs.maxRallies
    /\ CanSend(enforcedOptions)
    /\ Affordable(fee)
    /\ SelfCall(fee)
    /\ LzSend(value, rally)
    /\ gameState' = [gs EXCEPT !.hasBall = FALSE]

-----------------------------------------------------------------------------
(***************************************************************************)
(* Receiving.                                                              *)
(***************************************************************************)

\* Bugs: one rally early; one rally late; a spent ball plays on.
GameOverEarlyBug(value, rally, limit) == value = 0 \/ rally + 1 >= limit
GameOverLateBug(value, rally, limit)  == value = 0 \/ rally > limit
GameOverSpentBug(value, rally, limit) == rally >= limit

GameOver(value, rally, limit) == value = 0 \/ rally >= limit

\* Bugs: the ball keeps its value; the value grows.
DecrementForgottenBug(value) == value
DecrementSignBug(value)      == value + 1

\* unchecked { ballValue - 1 }
Decrement(value) == IF value = 0 THEN MaxUint256 ELSE value - 1

\* What the game in progress, and the game a peer starts, do with a ball.
TakeBall(value, rally, limit, fee) ==
    LET gs == [maxRallies |-> limit, hasBall |-> TRUE, gameActive |-> TRUE] IN
    /\ rallyCount' = rally
    /\ \/ /\ GameOver(value, rally, limit)
          /\ ballValue' = value
          /\ gameState' = [gs EXCEPT !.gameActive = FALSE]
          /\ UNCHANGED <<balance, wire>>
       \/ /\ ~GameOver(value, rally, limit)
          /\ ballValue' = Decrement(value)
          /\ SendBack(gs, Decrement(value), rally, fee)

\* _initializeGameFromPeer: a ball that finds no game starts one, with the cap as limit.
InitializeGameFromPeer(p, fee) ==
    /\ ~gameState.gameActive
    /\ TakeBall(p.value, p.rally + 1, MAX_RALLIES_CAP, fee)

\* Bug: the cap instead of the limit the game was served with.
ContinueWithCapBug(p, fee) ==
    /\ gameState.gameActive
    /\ TakeBall(p.value, p.rally + 1, MAX_RALLIES_CAP, fee)

ContinueGame(p, fee) ==
    /\ gameState.gameActive
    /\ TakeBall(p.value, p.rally + 1, gameState.maxRallies, fee)

\* Bug: the guid is recorded but never looked up.
DuplicateBug(p) == FALSE

\* if (_processedGuid[_guid]) return
Duplicate(p) == p.guid \in processedGuid

\* OAppReceiver.lzReceive admits only the peer; then peerEid, then the guid.
FromPeer(p) == p.srcEid \in Eids /\ peers[p.srcEid] = p.sender /\ p.srcEid = peerEid

IgnoreDuplicate(p) ==
    /\ FromPeer(p)
    /\ Duplicate(p)
    /\ UNCHANGED vars

ReceiveBall(p, fee) ==
    /\ FromPeer(p)
    /\ ~Duplicate(p)
    /\ processedGuid' = processedGuid \cup {p.guid}
    /\ ~gameState.hasBall                \* AlreadyHasBall
    /\ p.rally < MaxUint256              \* checked receivedRally + 1
    /\ InitializeGameFromPeer(p, fee) \/ ContinueGame(p, fee)
    /\ UNCHANGED <<peers, enforcedOptions, serves, pauses>>

LzReceive(p) == IgnoreDuplicate(p) \/ \E fee \in Fees : ReceiveBall(p, fee)

-----------------------------------------------------------------------------
(***************************************************************************)
(* The owner, and anybody who sends money.                                 *)
(***************************************************************************)

PauseGame ==
    /\ pauses < PauseLimit
    /\ gameState.gameActive
    /\ gameState' = [gameState EXCEPT !.gameActive = FALSE]
    /\ pauses' = pauses + 1
    /\ UNCHANGED <<ballValue, rallyCount, processedGuid, ledger, wire, serves>>

\* fund, receive and fallback; only fund refuses zero, which changes nothing.
Fund(amount) ==
    /\ amount > 0
    /\ balance + amount <= MaxBalance
    /\ balance' = balance + amount
    /\ UNCHANGED <<play, peers, enforcedOptions, wire, serves, pauses>>

Withdraw(amount) ==
    /\ amount \in 1 .. balance
    /\ balance' = balance - amount
    /\ UNCHANGED <<play, peers, enforcedOptions, wire, serves, pauses>>

\* Setting the zero peer takes a peer away.
SetPeer(eid, peer) ==
    /\ peers' = [peers EXCEPT ![eid] = peer]
    /\ UNCHANGED <<play, balance, enforcedOptions, wire, serves, pauses>>

\* OAppOptionsType3.setEnforcedOptions, called by scripts/set-enforced-options.ts
SetEnforcedOptions ==
    /\ enforcedOptions' = TRUE
    /\ UNCHANGED <<play, balance, peers, wire, serves, pauses>>

Owner ==
    \/ PauseGame
    \/ \E amount \in 1 .. MaxBalance : Withdraw(amount)
    \/ \E eid \in Eids, peer \in Addresses \cup {NoPeer} : SetPeer(eid, peer)
    \/ SetEnforcedOptions

Anybody ==
    \/ \E maxRallies \in 0 .. MAX_RALLIES_CAP + 1, extra \in BOOLEAN, paid, fee \in Fees :
           Serve(maxRallies, extra, paid, fee)
    \/ \E amount \in 1 .. MaxBalance : Fund(amount)

Next == Owner \/ Anybody \/ \E p \in Inbox : LzReceive(p)

Spec == Init /\ [][Next]_vars

-----------------------------------------------------------------------------
TypeOK ==
    /\ ballValue \in Word
    /\ rallyCount \in Word
    /\ gameState \in GameState
    /\ processedGuid \subseteq Nat /\ IsFiniteSet(processedGuid)
    /\ balance \in Nat
    /\ peers \in [Eids -> Addresses \cup {NoPeer}]
    /\ enforcedOptions \in BOOLEAN
    /\ outNonce \in Nat
    /\ outbound \subseteq Packet
    /\ serves \in 0 .. ServeLimit
    /\ pauses \in 0 .. PauseLimit

\* While a game runs the contract never sits on the ball between transactions and
\* the game still has rallies to play: lines 125-141 and 218-234 either end the game
\* or return the ball, in the transaction that received it.
ActiveGameAwaitsBall ==
    gameState.gameActive =>
        /\ ~gameState.hasBall
        /\ rallyCount < gameState.maxRallies
        /\ gameState.maxRallies <= MAX_RALLIES_CAP

\* The contract keeps a ball only when a game ended for one of the two reasons of
\* GameEnded, so a pause (line 85) never strands a ball in the contract.
HeldBallMeansGameOver ==
    gameState.hasBall =>
        /\ ~gameState.gameActive
        /\ ballValue = 0 \/ rallyCount >= gameState.maxRallies

\* Every ball that came in went out again or is held, and nothing goes out that was
\* neither served nor received: across redelivery (line 104), pauses, games started
\* by a peer and failed replies, no ball is sent twice and none is dropped.
BallsAccountedFor ==
    outNonce + Bit(gameState.hasBall) \in
        Cardinality(processedGuid) .. Cardinality(processedGuid) + serves

\* Each message that left is a serve, or answers one packet the contract took: one hit
\* less, one rally more, and never a value below zero wrapped around (line 138).
MessagesServeOrAnswer ==
    \A m \in outbound :
        \/ m.value = INITIAL_BALL_VALUE /\ m.rally = 0
        \/ \E p \in Inbox : /\ p.guid \in processedGuid
                            /\ m.value = p.value - 1 /\ m.rally = p.rally + 1

\* A game keeps the limit it started with, its rally count moves only with a ball that
\* was not seen before, and it stops either with the ball in hand or by a pause: no
\* configuration change, funding or duplicate (line 104) disturbs a game in progress.
GameRunsToItsEnd ==
    [][ gameState.gameActive =>
            /\ gameState'.maxRallies = gameState.maxRallies
            /\ rallyCount' # rallyCount => processedGuid' # processedGuid
            /\ gameState'.gameActive \/ gameState'.hasBall \/ pauses' > pauses ]_vars
=============================================================================
