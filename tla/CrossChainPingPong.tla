-------------------------- MODULE CrossChainPingPong --------------------------
(***************************************************************************)
(* The whole system: the contract, the program, the LayerZero executor     *)
(* between them, and players on Solana who return the ball.                *)
(*                                                                         *)
(* The executor takes any packet one endpoint accepted and presents it to  *)
(* the application it is addressed to: out of order, late, more than once, *)
(* or never.  A call that reverts changes nothing, and may be retried.     *)
(***************************************************************************)
EXTENDS Integers, FiniteSets

CONSTANTS
    INITIAL_BALL_VALUE, MAX_RALLIES_CAP, MaxUint256, U128,
    SepoliaEid, SolanaEid,
    EvmApp,              \* address of the contract
    GamePDA,             \* address of the OApp on Solana
    ProgramId,           \* address of the program, which is not the OApp
    NoPeer,
    Fees,                \* what an endpoint may charge for one message
    EstimatedFee,        \* the native_fee a client offers
    Players,             \* concurrent runs of a client that returns the ball
    ScriptRuns,          \* those of them that are scripts/send-ball-to-evm.ts as it is
    SendValues,          \* values other callers pass to send_ball
    MaxBalance, MaxLamports, ServeLimit, PauseLimit, InitLimit

VARIABLES
    ballValue, rallyCount, gameState, processedGuid, balance, peers,
    enforcedOptions, outNonce, outbound, serves, pauses,
    opened, game, peer, registered, lamports, cleared, svmNonce, svmOutbound,
    inits, lastSwitch,
    pc,                  \* where each run of a client is
    seen                 \* the ball value each run has read

EVM == INSTANCE PingPongEVM WITH
           peerEid <- SolanaEid, Eids <- {SolanaEid}, EvmEid <- SepoliaEid,
           Addresses <- {GamePDA, ProgramId}, Inbox <- {}

SVM == INSTANCE PingPongSVM WITH
           Eids <- {SepoliaEid}, Addresses <- {EvmApp}, QuotedFees <- Fees, Inbox <- {}

evmVars == <<ballValue, rallyCount, gameState, processedGuid, balance, peers,
             enforcedOptions, outNonce, outbound, serves, pauses>>
svmVars == <<opened, game, peer, registered, lamports, cleared, svmNonce, svmOutbound,
             inits, lastSwitch>>
players == <<pc, seen>>
vars    == <<evmVars, svmVars, players>>

ASSUME SystemAssumption ==
    /\ INITIAL_BALL_VALUE \in Nat \ {0} /\ MAX_RALLIES_CAP \in Nat \ {0}
    /\ INITIAL_BALL_VALUE < U128 /\ U128 \in Nat
    /\ U128 <= MaxUint256 /\ MAX_RALLIES_CAP < MaxUint256 /\ MaxUint256 \in Nat
    /\ SepoliaEid # SolanaEid
    /\ Fees \subseteq Nat /\ EstimatedFee \in Nat
    /\ SendValues \subseteq 0 .. U128 - 1
    /\ NoPeer \notin {EvmApp, GamePDA, ProgramId}
    /\ GamePDA # ProgramId
    /\ MaxBalance \in Nat /\ MaxLamports \in Nat
    /\ ServeLimit \in Nat /\ PauseLimit \in Nat /\ InitLimit \in Nat

Idle == pc = [r \in Players |-> "idle"] /\ seen = [r \in Players |-> 0]

Init == EVM!Init /\ SVM!Init /\ Idle

\* Deployed and configured, before the first serve.
ReadyInit ==
    /\ EVM!Unplayed
    /\ balance = 0 /\ enforcedOptions = TRUE
    /\ peers = [e \in {SolanaEid} |-> GamePDA]
    /\ SVM!Unplayed
    /\ opened = TRUE /\ inits = 1 /\ registered = TRUE
    /\ peer = [e \in {SepoliaEid} |-> [created |-> TRUE, peer_address |-> EvmApp, send |-> TRUE]]
    /\ lamports = MaxLamports
    /\ Idle

-----------------------------------------------------------------------------
(***************************************************************************)
(* The executor.                                                           *)
(***************************************************************************)
DeliverToSolana(p) ==
    /\ p.to = GamePDA
    /\ \E accounts \in SVM!AccountLists : SVM!LzReceive(p, accounts)
    /\ UNCHANGED <<evmVars, players>>

DeliverToEvm(p) ==
    /\ p.to = EvmApp
    /\ EVM!LzReceive(p)
    /\ UNCHANGED <<svmVars, players>>

-----------------------------------------------------------------------------
(***************************************************************************)
(* The clients of send_ball.  scripts/send-ball-to-evm.ts is one of them,   *)
(* whose calls all fail because of the accounts it presents (ScriptRuns).  *)
(* The others, outside the repository, take its steps with the accounts    *)
(* that the program declares.  Each await is a step: the state that was    *)
(* fetched is not read again before sendBall is submitted with its value.  *)
(***************************************************************************)
Presents(r) == IF r \in ScriptRuns THEN SVM!ScriptAccounts ELSE SVM!SendBallAccounts

Goto(r, at, label) == pc[r] = at /\ pc' = [pc EXCEPT ![r] = label]

\* Returns early when the game is not active or the ball is elsewhere.
FetchState(r) ==
    /\ opened /\ game.game_active /\ game.has_ball
    /\ seen' = [seen EXCEPT ![r] = game.ball_value]
    /\ Goto(r, "idle", "fetched")
    /\ UNCHANGED <<evmVars, svmVars>>

\* quoteSend is simulated, and the balance of the game account compared.
QuoteAccepted(r) ==
    opened /\ SVM!CanSend(SepoliaEid, FALSE, Presents(r)) /\ lamports >= EstimatedFee

Quote(r) ==
    /\ QuoteAccepted(r)
    /\ Goto(r, "fetched", "quoted")
    /\ UNCHANGED <<evmVars, svmVars, seen>>

SubmitBall(r) ==
    /\ Goto(r, "quoted", "idle")
    /\ \E quoted \in Fees :
           SVM!SendBall(SepoliaEid, seen[r], FALSE, EstimatedFee, quoted, Presents(r))
    /\ UNCHANGED <<evmVars, seen>>

\* sendBall fails; the fee it offers is a constant, whatever the quote said.
SendFails(r) ==
    \/ ~(opened /\ game.has_ball /\ SVM!CanSend(SepoliaEid, FALSE, Presents(r)))
    \/ \E quoted \in Fees : EstimatedFee < quoted

\* The client returns or catches the error; the player may start it again.
GiveUp(r) ==
    /\ \/ Goto(r, "fetched", "idle") /\ ~QuoteAccepted(r)
       \/ Goto(r, "quoted", "idle") /\ SendFails(r)
    /\ UNCHANGED <<evmVars, svmVars, seen>>

Player(r) == FetchState(r) \/ Quote(r) \/ SubmitBall(r) \/ GiveUp(r)

-----------------------------------------------------------------------------
Play ==
    \/ EVM!Anybody /\ UNCHANGED <<svmVars, players>>
    \/ SVM!Anybody /\ UNCHANGED <<evmVars, players>>
    \/ \E p \in outbound : DeliverToSolana(p)
    \/ \E p \in svmOutbound : DeliverToEvm(p)
    \/ \E r \in Players : Player(r)

Owners ==
    \/ EVM!Owner /\ UNCHANGED <<svmVars, players>>
    \/ SVM!Admin /\ UNCHANGED <<evmVars, players>>

Next == Play \/ Owners

Spec == Init /\ [][Next]_vars

\* From a configured system.
ReadySpec == ReadyInit /\ [][Next]_vars

\* The owners leave the game alone; packets are presented again, funding arrives, and
\* players keep starting their clients.
Fairness ==
    /\ WF_vars(\E amount \in 1 .. MaxBalance : EVM!Fund(amount) /\ UNCHANGED <<svmVars, players>>)
    /\ WF_vars(\E p \in outbound : DeliverToSolana(p))
    /\ WF_vars(\E p \in svmOutbound : p.guid \notin processedGuid /\ DeliverToEvm(p))
    /\ \A r \in Players : WF_vars(Player(r))

PlaySpec == ReadyInit /\ [][Play]_vars

FairSpec == PlaySpec /\ Fairness

-----------------------------------------------------------------------------
(***************************************************************************)
(* Properties.                                                             *)
(***************************************************************************)
Bit(b) == IF b THEN 1 ELSE 0

\* Packets that an application still has to take.
InFlight(sent, taken) == {p \in sent : p.guid \notin taken}

ToSolana == InFlight(outbound, cleared)
ToEvm    == InFlight(svmOutbound, processedGuid)

Balls == Cardinality(ToSolana) + Cardinality(ToEvm) + Bit(gameState.hasBall) + Bit(game.has_ball)

TypeOK ==
    /\ EVM!TypeOK
    /\ SVM!TypeOK
    /\ pc \in [Players -> {"idle", "fetched", "quoted"}]
    /\ seen \in [Players -> 0 .. U128 - 1]

\* There is one ball, in flight or in hand, on either chain.  Only a pause lets the
\* owner's next serve add one, because pauseGame (line 85) ends a game whose ball is away.
BallConservation == Balls <= 1 + pauses

\* Between games nothing is in flight, unless the last game was paused: a late ball
\* never starts a game by itself (lines 110-114) behind the players' back.
QuietBetweenGames ==
    ~gameState.gameActive /\ ~gameState.hasBall => Balls <= pauses

\* While no game was paused, both chains agree on the value of the ball wherever it is:
\* Solana's is one hit ahead of what the contract last sent.
ValuesInStep ==
    pauses = 0 =>
        /\ \A p \in ToSolana : p.value = ballValue
        /\ game.has_ball => game.ball_value = ballValue - 1
        /\ \A p \in ToEvm : p.value = ballValue - 1

\* In the first game the rally count tells how often the ball was hit: each rally of the
\* contract after the serve took two hits, but for the one that ended the game.
ScoreTellsValue ==
    pauses = 0 /\ serves = 1 /\ inits = 1 /\ rallyCount > 0 =>
        ballValue = INITIAL_BALL_VALUE - 2 * (rallyCount - 1) + Bit(gameState.hasBall)

\* No delivery lands on a ball that Solana still holds, unless a pause has put a second
\* one in play: lz_receive.rs:85 sets has_ball without looking at it.
HeldBallNotOverwritten == [][ pauses = 0 /\ game.has_ball => cleared' = cleared ]_vars

\* No ball is sent to Solana that lz_receive refuses for its value (lines 73-77), to stay in
\* flight with the game active for ever: the contract, which may send a ball of value 0
\* (line 141), never gets to it when players return the value they were given.
BallCanBeHit == \A p \in ToSolana : SVM!ValidValue(SVM!Decode(p))

\* A value on its way to Solana fits the u128 that PingPongMessage::decode (message.rs:37)
\* reads from a 32-byte word, whatever values callers of send_ball chose before.
NothingTruncated == \A p \in ToSolana : SVM!Decode(p) = p.value

\* What the program asks of a packet before it strikes the ball.
SolanaTakes(p) ==
    /\ p.to = GamePDA /\ opened /\ registered /\ ~game.paused
    /\ SVM!FromPeer(p)
    /\ SVM!ValidValue(SVM!Decode(p)) /\ SVM!WithinCap(game.rally_count + 1)

\* What the contract asks, but for the funds: it keeps the ball or may still return it.
EvmTakes(p) ==
    /\ p.to = EvmApp /\ EVM!FromPeer(p)
    /\ gameState.gameActive /\ ~gameState.hasBall /\ p.rally < MaxUint256
    /\ \/ EVM!GameOver(p.value, p.rally + 1, gameState.maxRallies)
       \/ p.rally + 1 < gameState.maxRallies /\ EVM!CanSend(enforcedOptions)

\* While the owners leave the game alone, no ball is sent that its receiver refuses: the
\* two sides count rallies, end games and check values each on their own (line 131 and
\* lz_receive.rs:73-88), over any number of games and however the clients' runs overlap.
NoBallRefused ==
    /\ \A p \in ToSolana : SolanaTakes(p)
    /\ \A p \in ToEvm : EvmTakes(p)

\* While the owners leave it alone, the first game does not lose its ball: the program,
\* which drops a ball at its own limit (lz_receive.rs:105-109), leaves the end to the contract.
FirstGameHasItsBall == serves = 1 /\ gameState.gameActive => Balls = 1

\* Executor retries, funding and players bring the first game to its end on the
\* contract: no reply is lost for want of funds, and no packet gets stuck (line 156).
FirstGameEnds == serves = 1 /\ gameState.gameActive ~> gameState.hasBall

\* start-demo.sh:40 "Game ends when ball value reaches 0 or max rallies hit"
EveryGameEnds == gameState.gameActive ~> ~gameState.gameActive

\* README.md:161 "`send-ball-to-evm.ts` - Send ball to Ethereum"
HeldBallIsReturned == game.has_ball ~> ~game.has_ball
=============================================================================
