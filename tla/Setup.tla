-------------------------------- MODULE Setup --------------------------------
(***************************************************************************)
(* From deployment to the first ball: the deployment and configuration     *)
(* scripts, run in any order and again, operators who run                  *)
(* src/evm/scripts/serve.ts, and the executor on the way to Solana.        *)
(*                                                                         *)
(* The scripts name two contracts: EvmApp (0x7271...), which serve.ts and  *)
(* send-ball-to-evm.ts play on, and OldApp (0x55D5...).  All of them take  *)
(* the Program ID for the address of the game on Solana.                   *)
(***************************************************************************)
EXTENDS Integers, FiniteSets

CONSTANTS
    INITIAL_BALL_VALUE, MAX_RALLIES_CAP, MaxUint256, U128,
    SepoliaEid, SolanaEid, EvmApp, OldApp, GamePDA, ProgramId, NoPeer,
    Fees,
    Operators,           \* concurrent runs of serve.ts
    ServeLimit, InitLimit

VARIABLES
    ballValue, rallyCount, gameState, processedGuid, balance, peers,
    enforcedOptions, outNonce, outbound, serves, pauses,
    opened, game, peer, registered, lamports, cleared, svmNonce, svmOutbound,
    inits, lastSwitch,
    deployment,          \* how far the script that deploys EvmApp is
    oldPeer,             \* peers[SolanaEid] of OldApp
    pc,                  \* where each run of serve.ts is
    nativeFee            \* the fee each run was quoted

EVM == INSTANCE PingPongEVM WITH
           peerEid <- SolanaEid, Eids <- {SolanaEid}, EvmEid <- SepoliaEid,
           Addresses <- {GamePDA, ProgramId}, Inbox <- {},
           MaxBalance <- 1, PauseLimit <- 0

SVM == INSTANCE PingPongSVM WITH
           Eids <- {SepoliaEid}, Addresses <- {EvmApp, OldApp}, QuotedFees <- Fees,
           Inbox <- {}, SendValues <- {}, MaxLamports <- 0

evmVars   == <<ballValue, rallyCount, gameState, processedGuid, balance, peers,
               enforcedOptions, outNonce, outbound, serves, pauses>>
svmVars   == <<opened, game, peer, registered, lamports, cleared, svmNonce, svmOutbound,
               inits, lastSwitch>>
operators == <<pc, nativeFee>>
vars      == <<evmVars, svmVars, deployment, oldPeer, operators>>

ASSUME SetupAssumption ==
    /\ NoPeer \notin {EvmApp, OldApp, GamePDA, ProgramId} /\ GamePDA # ProgramId
    /\ Fees \subseteq Nat

Init ==
    /\ EVM!Init /\ SVM!Init
    /\ deployment = "none"
    /\ oldPeer = NoPeer
    /\ pc = [o \in Operators |-> "idle"] /\ nativeFee = [o \in Operators |-> 0]

-----------------------------------------------------------------------------
(***************************************************************************)
(* Deployment.  Until it is done nothing answers at the contract's address. *)
(***************************************************************************)
DeployStep(from, to) ==
    /\ deployment = from /\ deployment' = to
    /\ UNCHANGED <<svmVars, oldPeer, operators>>

\* deploy.ts goes on to fund the contract, deploy-sepolia.ts does not.
Deploy        == DeployStep("none", "deployed") /\ UNCHANGED evmVars
DeploySepolia == DeployStep("none", "done") /\ UNCHANGED evmVars

\* A failed fund is reported and leaves a contract that cannot pay for replies.
FundDeployed ==
    /\ DeployStep("deployed", "done")
    /\ EVM!Fund(1) \/ UNCHANGED evmVars

-----------------------------------------------------------------------------
(***************************************************************************)
(* Scripts that send one transaction.                                      *)
(***************************************************************************)
OnEvm(action) ==
    /\ deployment # "none"
    /\ action
    /\ UNCHANGED <<svmVars, deployment, oldPeer, operators>>

OnSolana(action) == action /\ UNCHANGED <<evmVars, deployment, oldPeer, operators>>

\* bs58.decode(SOLANA_PROGRAM_ID), padded to 32 bytes
PeerBytes32 == ProgramId

SetPeerToGamePda == OnEvm(EVM!SetPeer(SolanaEid, PeerBytes32))

SetEnforcedOptions == OnEvm(EVM!SetEnforcedOptions)

SetPeerProper ==
    /\ oldPeer' = PeerBytes32
    /\ UNCHANGED <<evmVars, svmVars, deployment, operators>>

InitGameSDK      == OnSolana(SVM!InitGame)
CallRegisterOApp == OnSolana(SVM!RegisterOApp)
SetPeerConfigSDK == OnSolana(SVM!SetPeerAddress(SepoliaEid, EvmApp))
\* Whether Anchor encodes the { kind, fields } it is given (line 61) is left open: no
\* fairness makes this script succeed.
SetPeerConfig    == OnSolana(SVM!SetPeerAddress(SepoliaEid, OldApp))
CloseGame        == OnSolana(SVM!CloseGame)

-----------------------------------------------------------------------------
(***************************************************************************)
(* serve.ts, run by operators who can pay what they are quoted.            *)
(***************************************************************************)
Goto(o, at, label) == pc[o] = at /\ pc' = [pc EXCEPT ![o] = label]

\* Returns early when a game is active.
ReadState(o) ==
    /\ deployment # "none"
    /\ ~gameState.gameActive
    /\ Goto(o, "idle", "read")
    /\ UNCHANGED <<evmVars, svmVars, deployment, oldPeer, nativeFee>>

QuoteFee(o) ==
    /\ EVM!CanSend(enforcedOptions)
    /\ Goto(o, "read", "quoted")
    /\ \E fee \in Fees : nativeFee' = [nativeFee EXCEPT ![o] = fee]
    /\ UNCHANGED <<evmVars, svmVars, deployment, oldPeer>>

\* serve with the rally limit at the cap, no options, and the fee that was quoted.
SubmitServe(o) ==
    /\ Goto(o, "quoted", "idle")
    /\ \E fee \in Fees : EVM!Serve(MAX_RALLIES_CAP, FALSE, nativeFee[o], fee)
    /\ UNCHANGED <<svmVars, deployment, oldPeer, nativeFee>>

\* The quote or the transaction reverts: not configured, another game was served
\* meanwhile, or the fee rose.
GiveUp(o) ==
    /\ \/ Goto(o, "read", "idle") /\ ~EVM!CanSend(enforcedOptions)
       \/ /\ Goto(o, "quoted", "idle")
          /\ gameState.gameActive \/ \E fee \in Fees : nativeFee[o] < fee
    /\ UNCHANGED <<evmVars, svmVars, deployment, oldPeer, nativeFee>>

-----------------------------------------------------------------------------
Deliver(p, accounts) ==
    /\ p.to = GamePDA
    /\ OnSolana(SVM!LzReceive(p, accounts))

\* The executor asks the program which accounts to present.
ExecutorDelivers == \E p \in outbound : Deliver(p, SVM!LzReceiveTypes)

\* Anybody else may present a packet too, with the accounts lz_receive declares.
AnybodyDelivers == \E p \in outbound, accounts \in SVM!AccountLists : Deliver(p, accounts)

Scripts ==
    \/ Deploy \/ DeploySepolia \/ FundDeployed
    \/ SetPeerToGamePda \/ SetEnforcedOptions \/ SetPeerProper
    \/ InitGameSDK \/ CallRegisterOApp \/ SetPeerConfigSDK \/ SetPeerConfig \/ CloseGame
    \/ \E o \in Operators : ReadState(o) \/ QuoteFee(o) \/ SubmitServe(o) \/ GiveUp(o)

\* No script registers the Game PDA with the contract; the owner may do it by hand.
SetPeerByHand == OnEvm(EVM!SetPeer(SolanaEid, GamePDA))

Next == Scripts \/ SetPeerByHand \/ AnybodyDelivers

Spec == Init /\ [][Next]_vars

\* Every script is run sooner or later.  Fees may rise between quote and transaction,
\* but not each time.
Fairness ==
    /\ WF_vars(Deploy \/ DeploySepolia)
    /\ WF_vars(SetPeerToGamePda) /\ WF_vars(SetEnforcedOptions)
    /\ WF_vars(InitGameSDK) /\ WF_vars(CallRegisterOApp) /\ WF_vars(SetPeerConfigSDK)
    /\ \A o \in Operators :
           WF_vars(ReadState(o) \/ QuoteFee(o) \/ GiveUp(o)) /\ SF_vars(SubmitServe(o))

\* Retries meet a configuration that other scripts may take away and restore.
FairSpec == Spec /\ Fairness /\ SF_vars(AnybodyDelivers)

\* The scripts and whoever delivers, without the owner's own call.
ScriptSpec ==
    Init /\ [][Scripts \/ AnybodyDelivers]_vars /\ Fairness /\ SF_vars(AnybodyDelivers)

\* The scripts, the owner's call and the executor, without anybody else.
ExecutorSpec ==
    /\ Init /\ [][Scripts \/ SetPeerByHand \/ ExecutorDelivers]_vars
    /\ Fairness /\ SF_vars(ExecutorDelivers)

-----------------------------------------------------------------------------
\* Operators who all read that no game is active (serve.ts:23) and were all quoted do not
\* serve two balls: the active game is the one message sent, whatever the scripts do
\* between one operator's awaits, and no ball is out before there is a game to take it back.
OneBallServed == Cardinality(outbound) = EVM!Bit(gameState.gameActive)

\* Whatever the order and the number of their runs, the scripts get a game served:
\* the limit serve.ts asks for (line 55) and the options it leaves out are acceptable.
GetsServed == <>(serves > 0)

\* README.md:98 "Ball travels between chains": once a ball is addressed to the game on
\* Solana, whatever the scripts do to the accounts there and in whatever order, somebody's
\* retry delivers it.
BallReachesGame == (\E p \in outbound : p.to = GamePDA) ~> cleared # {}

\* serve.ts:53 "This will initialize the game and send the first ball to Solana"
BallReachesSolana == serves > 0 ~> cleared # {}
=============================================================================
