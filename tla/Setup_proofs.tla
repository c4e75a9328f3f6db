----------------------------- MODULE Setup_proofs -----------------------------
(***************************************************************************)
(* Why operators who race to serve send one ball, and why it does not      *)
(* arrive, for any number of operators.                                    *)
(***************************************************************************)
EXTENDS Setup, Sequences, FiniteSetTheorems, TLAPS

\* The game and the ball that was served for it come together.
Served ==
    \/ outbound = {} /\ gameState.gameActive = FALSE
    \/ (\E m : outbound = {m}) /\ gameState.gameActive = TRUE

\* A step of one operator: only one who still finds the game inactive (line 46 of the
\* contract) serves it, whatever it read before.
LEMMA OperatorServes ==
    ASSUME Served, NEW o \in Operators,
           ReadState(o) \/ QuoteFee(o) \/ SubmitServe(o) \/ GiveUp(o)
    PROVE  Served'
<1>1. CASE UNCHANGED evmVars
  BY <1>1 DEF evmVars, Served
<1>2. CASE SubmitServe(o)
  <2>1. PICK fee \in Fees : EVM!Serve(MAX_RALLIES_CAP, FALSE, nativeFee[o], fee)
    BY <1>2 DEF SubmitServe
  <2>2. outbound = {}
    BY <2>1 DEF Served, EVM!Serve, EVM!StartServe
  <2>3. \E m : outbound' = {m}
    BY <2>1, <2>2 DEF EVM!Serve, EVM!StartServe, EVM!LzSend
  <2>4. gameState'.gameActive = TRUE
    BY <2>1 DEF EVM!Serve, EVM!Served
  <2> QED BY <2>3, <2>4 DEF Served
<1> QED BY <1>1, <1>2 DEF ReadState, QuoteFee, GiveUp

\* No script but serve.ts touches the game, and no call of the owner's.
LEMMA ServedKept == Served /\ [Next]_vars => Served'
<1> SUFFICES ASSUME Served, [Next]_vars PROVE Served'
  OBVIOUS
<1>1. CASE UNCHANGED <<gameState, outbound>>
  BY <1>1 DEF Served
<1>2. CASE Deploy \/ DeploySepolia \/ FundDeployed
  BY <1>1, <1>2
     DEF Deploy, DeploySepolia, FundDeployed, EVM!Fund, EVM!play, EVM!wire, evmVars
<1>3. CASE SetPeerToGamePda \/ SetPeerByHand \/ SetEnforcedOptions
  BY <1>1, <1>3
     DEF SetPeerToGamePda, SetPeerByHand, SetEnforcedOptions, OnEvm, EVM!SetPeer,
         EVM!SetEnforcedOptions, EVM!play, EVM!wire
<1>4. CASE SetPeerProper
  BY <1>1, <1>4 DEF SetPeerProper, evmVars
<1>5. CASE InitGameSDK \/ CallRegisterOApp \/ SetPeerConfigSDK \/ SetPeerConfig \/ CloseGame
  BY <1>1, <1>5
     DEF InitGameSDK, CallRegisterOApp, SetPeerConfigSDK, SetPeerConfig, CloseGame, OnSolana,
         evmVars
<1>6. CASE AnybodyDelivers
  BY <1>1, <1>6 DEF AnybodyDelivers, Deliver, OnSolana, evmVars
<1>7. CASE UNCHANGED vars
  BY <1>1, <1>7 DEF vars, evmVars
<1> QED BY <1>2, <1>3, <1>4, <1>5, <1>6, <1>7, OperatorServes DEF Next, Scripts

\* Any number of operators, who all read an inactive game and hold a quote, serve one ball
\* between them, whatever other scripts run in between.
THEOREM ServesOnce == Spec => []OneBallServed
<1>1. Init => Served
  BY DEF Init, EVM!Init, EVM!Unplayed, Served
<1>2. Served => OneBallServed
  <2>1. ASSUME NEW m PROVE Cardinality({m}) = 1
    BY FS_Singleton
  <2> QED BY <2>1, FS_EmptySet DEF Served, OneBallServed, EVM!Bit
<1> QED BY <1>1, <1>2, ServedKept, PTL DEF Spec

-----------------------------------------------------------------------------
(***************************************************************************)
(* Why no packet gets through: with the scripts alone none is addressed to *)
(* the game, and with the executor alone none comes with the accounts that *)
(* lz_receive needs.                                                       *)
(***************************************************************************)

\* Solana's lz_receive never succeeded.
NothingDelivered == cleared = {}

\* The step of a script, which may set the contract's peer but never to the Game PDA, and
\* sends to the peer it finds; nothing is delivered by a script.
LEMMA ScriptSteps ==
    ASSUME Scripts
    PROVE  /\ cleared' = cleared
           /\ peers' = peers \/ peers' = [peers EXCEPT ![SolanaEid] = ProgramId]
           /\ \A p \in outbound' : p \in outbound \/ p.to = peers[SolanaEid]
<1>1. CASE Deploy \/ DeploySepolia \/ FundDeployed
  BY <1>1 DEF Deploy, DeploySepolia, FundDeployed, DeployStep, EVM!Fund, EVM!play, EVM!wire,
              evmVars, svmVars
<1>2. CASE SetPeerToGamePda
  <2>1. EVM!SetPeer(SolanaEid, ProgramId) /\ UNCHANGED svmVars
    BY <1>2 DEF SetPeerToGamePda, PeerBytes32, OnEvm
  <2> QED BY <2>1 DEF EVM!SetPeer, EVM!wire, svmVars
<1>3. CASE SetEnforcedOptions
  <2>1. EVM!SetEnforcedOptions /\ UNCHANGED svmVars
    BY <1>3 DEF SetEnforcedOptions, OnEvm
  <2> QED BY <2>1 DEF EVM!SetEnforcedOptions, EVM!wire, svmVars
<1>4. CASE SetPeerProper
  BY <1>4 DEF SetPeerProper, evmVars, svmVars
<1>5. CASE InitGameSDK \/ CallRegisterOApp \/ SetPeerConfigSDK \/ SetPeerConfig \/ CloseGame
  <2>1. UNCHANGED <<peers, outbound>>
    BY <1>5 DEF InitGameSDK, CallRegisterOApp, SetPeerConfigSDK, SetPeerConfig, CloseGame,
                OnSolana, evmVars
  <2>2. cleared' = cleared
    BY <1>5 DEF InitGameSDK, CallRegisterOApp, SetPeerConfigSDK, SetPeerConfig, CloseGame,
                OnSolana, SVM!InitGame, SVM!RegisterOApp, SVM!SetPeerAddress, SVM!CloseGame
  <2> QED BY <2>1, <2>2
<1>6. ASSUME NEW o \in Operators, ReadState(o) \/ QuoteFee(o) \/ GiveUp(o)
      PROVE  UNCHANGED <<cleared, peers, outbound>>
  BY <1>6 DEF ReadState, QuoteFee, GiveUp, evmVars, svmVars
<1>7. ASSUME NEW o \in Operators, SubmitServe(o)
      PROVE  /\ UNCHANGED <<cleared, peers>>
             /\ \A p \in outbound' : p \in outbound \/ p.to = peers[SolanaEid]
  <2>1. PICK fee \in Fees : EVM!Serve(MAX_RALLIES_CAP, FALSE, nativeFee[o], fee)
    BY <1>7 DEF SubmitServe
  <2> QED BY <1>7, <2>1
             DEF SubmitServe, EVM!Serve, EVM!StartServe, EVM!LzSend, EVM!ledger, svmVars
<1> QED BY <1>1, <1>2, <1>3, <1>4, <1>5, <1>6, <1>7 DEF Scripts

\* No packet is addressed to the game, nor will be.
Astray ==
    /\ cleared = {}
    /\ peers \in [{SolanaEid} -> {ProgramId, NoPeer}]
    /\ \A p \in outbound : p.to # GamePDA

\* Without the owner's own call, the scripts and whoever presents packets with whatever
\* accounts never get one through: all scripts that set the contract's peer pass the
\* Program ID, and what they serve goes there, in any order and however often they run.
THEOREM ScriptsNeverReachGame == ScriptSpec => []NothingDelivered
<1>1. Init => Astray
  BY DEF Init, EVM!Init, EVM!Unplayed, SVM!Init, SVM!Unplayed, Astray
<1>2. ASSUME Astray, [Scripts \/ AnybodyDelivers]_vars PROVE Astray'
  <2>1. CASE Scripts
    <3>1. peers[SolanaEid] # GamePDA
      BY <1>2, SetupAssumption DEF Astray
    <3>2. peers' \in [{SolanaEid} -> {ProgramId, NoPeer}]
      BY <1>2, <2>1, ScriptSteps DEF Astray
    <3> QED BY <1>2, <2>1, <3>1, <3>2, ScriptSteps DEF Astray
  <2>2. CASE AnybodyDelivers
    BY <1>2, <2>2 DEF AnybodyDelivers, Deliver, Astray
  <2>3. CASE UNCHANGED vars
    BY <1>2, <2>3 DEF vars, evmVars, svmVars, Astray
  <2> QED BY <1>2, <2>1, <2>2, <2>3
<1>3. Astray => NothingDelivered
  BY DEF Astray, NothingDelivered
<1> QED BY <1>1, <1>2, <1>3, PTL DEF ScriptSpec

\* The list of lz_receive_types is one account short of what lz_receive declares and clear
\* takes: with it, every delivery fails.
LEMMA ListTooShort == ~SVM!AccountsFit(SVM!LzReceiveTypes)
<1> DEFINE wanted == SVM!Declared \o SVM!AccountsForClear
           listed == SVM!LzReceiveTypes
<1>1. Len(wanted) = 11
  BY DEF SVM!Declared, SVM!AccountsForClear
<1>2. Len(listed) = 10
  BY DEF SVM!LzReceiveTypes, SVM!AccountsForClear
<1> QED BY <1>1, <1>2 DEF SVM!AccountsFit, SVM!IsPrefix

\* The executor, which presents what lz_receive_types lists, never gets a packet through,
\* even one addressed to the game and however often it retries.
THEOREM ExecutorNeverReachesGame == ExecutorSpec => []NothingDelivered
<1>1. Init => NothingDelivered
  BY DEF Init, SVM!Init, SVM!Unplayed, NothingDelivered
<1>2. ASSUME NothingDelivered, [Scripts \/ SetPeerByHand \/ ExecutorDelivers]_vars
      PROVE  NothingDelivered'
  <2>1. CASE Scripts
    BY <1>2, <2>1, ScriptSteps DEF NothingDelivered
  <2>2. CASE SetPeerByHand
    BY <1>2, <2>2 DEF SetPeerByHand, OnEvm, svmVars, NothingDelivered
  <2>3. CASE ExecutorDelivers
    BY <2>3, ListTooShort DEF ExecutorDelivers, Deliver, OnSolana, SVM!LzReceive
  <2>4. CASE UNCHANGED vars
    BY <1>2, <2>4 DEF vars, svmVars, NothingDelivered
  <2> QED BY <1>2, <2>1, <2>2, <2>3, <2>4
<1> QED BY <1>1, <1>2, PTL DEF ExecutorSpec
=============================================================================
