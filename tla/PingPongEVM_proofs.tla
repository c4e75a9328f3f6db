-------------------------- MODULE PingPongEVM_proofs --------------------------
(***************************************************************************)
(* The contract's invariants, for every value of the constants.            *)
(***************************************************************************)
EXTENDS PingPongEVM, FiniteSetTheorems, TLAPS

\* Each conjunct leans on the others: the limit of a running game bounds what a packet
\* can do to it, and no ball is in hand when a packet is taken or a game is paused.
IInv == TypeOK /\ ActiveGameAwaitsBall /\ HeldBallMeansGameOver /\ BallsAccountedFor

-----------------------------------------------------------------------------
\* A guid that is taken in counts once.
LEMMA ProcessOne ==
    ASSUME NEW S, IsFiniteSet(S), NEW g, g \notin S
    PROVE  /\ IsFiniteSet(S \cup {g})
           /\ Cardinality(S \cup {g}) = Cardinality(S) + 1
           /\ Cardinality(S) \in Nat
  BY FS_AddElement, FS_CardinalityType

\* The endpoint accepts a well-formed packet.
LEMMA LzSendType ==
    ASSUME TypeOK, NEW value \in Word, NEW rally \in Word,
           peers[peerEid] # NoPeer, LzSend(value, rally)
    PROVE  outNonce' = outNonce + 1 /\ outNonce' \in Nat /\ outbound' \subseteq Packet
<1>1. peers[peerEid] \in Addresses
  BY ConstantsAssumption DEF TypeOK
<1>2. [guid |-> outNonce + 1, srcEid |-> EvmEid, sender |-> EvmApp,
       to |-> peers[peerEid], value |-> value, rally |-> rally] \in Packet
  BY <1>1 DEF TypeOK, Packet
<1> QED BY <1>2 DEF TypeOK, LzSend

\* What taking a ball does to the state the invariant speaks of.
LEMMA TakeBallEffect ==
    ASSUME IInv, NEW value \in Word, NEW rally \in Word, NEW fee \in Fees,
           NEW limit \in 1 .. MAX_RALLIES_CAP, TakeBall(value, rally, limit, fee)
    PROVE  /\ ballValue' \in Word /\ rallyCount' = rally
           /\ gameState' \in GameState /\ gameState'.maxRallies = limit
           /\ balance' \in Nat /\ outNonce' \in Nat /\ outbound' \subseteq Packet
           /\ \/ /\ gameState'.hasBall /\ ~gameState'.gameActive
                 /\ ballValue' = value /\ GameOver(value, rally, limit)
                 /\ outNonce' = outNonce
              \/ /\ ~gameState'.hasBall /\ gameState'.gameActive
                 /\ rally < limit
                 /\ outNonce' = outNonce + 1
<1> DEFINE gs == [maxRallies |-> limit, hasBall |-> TRUE, gameActive |-> TRUE]
<1>0. TypeOK /\ fee \in Nat /\ limit \in Nat /\ MaxUint256 \in Nat
  BY ConstantsAssumption DEF IInv
<1>1. gs \in GameState
  BY <1>0 DEF GameState
<1>2. CASE GameOver(value, rally, limit)
  BY <1>0, <1>1, <1>2 DEF TakeBall, GameOver, TypeOK, wire, GameState
<1>3. CASE ~GameOver(value, rally, limit)
  <2>1. ballValue' = Decrement(value) /\ SendBack(gs, Decrement(value), rally, fee)
        /\ rallyCount' = rally
    BY <1>3 DEF TakeBall
  <2>2. Decrement(value) \in Word
    BY <1>0 DEF Decrement, Word
  <2>3. outNonce' = outNonce + 1 /\ outNonce' \in Nat /\ outbound' \subseteq Packet
    BY <1>0, <2>1, <2>2, LzSendType DEF SendBack, CanSend
  <2>4. gameState' = [gs EXCEPT !.hasBall = FALSE] /\ balance' = balance - fee /\ fee <= balance
    BY <2>1 DEF SendBack, SelfCall
  <2>5. rally < limit
    BY <2>1 DEF SendBack
  <2>6. gameState' \in GameState /\ gameState'.maxRallies = limit
        /\ ~gameState'.hasBall /\ gameState'.gameActive
    <3>1. gameState' = [maxRallies |-> limit, hasBall |-> FALSE, gameActive |-> TRUE]
      BY <2>4
    <3>2. limit \in 0 .. MAX_RALLIES_CAP
      BY ConstantsAssumption
    <3> QED BY <3>1, <3>2 DEF GameState
  <2>7. balance' \in Nat
    BY <1>0, <2>4 DEF TypeOK
  <2> QED BY <2>1, <2>2, <2>3, <2>5, <2>6, <2>7
<1> QED BY <1>2, <1>3

LEMMA ServePreserves ==
    ASSUME IInv, NEW maxRallies \in 0 .. MAX_RALLIES_CAP + 1, NEW extra \in BOOLEAN,
           NEW paid \in Fees, NEW fee \in Fees, Serve(maxRallies, extra, paid, fee)
    PROVE  IInv'
<1> USE ConstantsAssumption
<1>0. TypeOK BY DEF IInv
<1>1. outNonce' = outNonce + 1 /\ outNonce' \in Nat /\ outbound' \subseteq Packet
  BY <1>0, LzSendType DEF Serve, StartServe, CanSend, Word
<1>2. /\ gameState' = [maxRallies |-> maxRallies, hasBall |-> FALSE, gameActive |-> TRUE]
      /\ maxRallies \in 1 .. MAX_RALLIES_CAP
      /\ ballValue' = INITIAL_BALL_VALUE /\ rallyCount' = 0
      /\ serves' = serves + 1 /\ serves < ServeLimit
  BY DEF Serve, StartServe, Served, ValidMaxRallies
<1>3. TypeOK'
  BY <1>0, <1>1, <1>2 DEF TypeOK, Serve, StartServe, Word, GameState, ledger
<1>4. ActiveGameAwaitsBall' /\ HeldBallMeansGameOver'
  BY <1>2 DEF ActiveGameAwaitsBall, HeldBallMeansGameOver
<1>5. BallsAccountedFor'
  <2>1. Cardinality(processedGuid) \in Nat
    BY <1>0, FS_CardinalityType DEF TypeOK
  <2>2. processedGuid' = processedGuid
    BY DEF Serve, StartServe
  <2>3. serves \in Nat
    BY <1>0 DEF TypeOK
  <2> QED BY <1>0, <1>1, <1>2, <2>1, <2>2, <2>3 DEF IInv, BallsAccountedFor, Bit, TypeOK, GameState
<1> QED BY <1>3, <1>4, <1>5 DEF IInv

LEMMA ReceivePreserves ==
    ASSUME IInv, NEW p \in Inbox, NEW fee \in Fees, ReceiveBall(p, fee)
    PROVE  IInv'
<1> USE ConstantsAssumption
<1>0. TypeOK BY DEF IInv
<1>1. p.value \in Word /\ p.rally + 1 \in Word /\ p.guid \in Nat
  BY DEF ReceiveBall, Packet, Word
<1>2. PICK limit \in 1 .. MAX_RALLIES_CAP : TakeBall(p.value, p.rally + 1, limit, fee)
  <2>1. CASE InitializeGameFromPeer(p, fee)
    BY <2>1 DEF InitializeGameFromPeer
  <2>2. CASE ContinueGame(p, fee)
    <3>1. gameState.maxRallies \in 1 .. MAX_RALLIES_CAP
      BY <1>0, <2>2 DEF ContinueGame, IInv, ActiveGameAwaitsBall, TypeOK, GameState, Word
    <3> QED BY <2>2, <3>1 DEF ContinueGame
  <2> QED BY <2>1, <2>2 DEF ReceiveBall
<1>3. /\ ballValue' \in Word /\ rallyCount' = p.rally + 1
      /\ gameState' \in GameState /\ gameState'.maxRallies = limit
      /\ balance' \in Nat /\ outNonce' \in Nat /\ outbound' \subseteq Packet
      /\ \/ /\ gameState'.hasBall /\ ~gameState'.gameActive
            /\ ballValue' = p.value /\ GameOver(p.value, p.rally + 1, limit)
            /\ outNonce' = outNonce
         \/ /\ ~gameState'.hasBall /\ gameState'.gameActive
            /\ p.rally + 1 < limit
            /\ outNonce' = outNonce + 1
  BY <1>1, <1>2, TakeBallEffect
<1>4. /\ processedGuid' = processedGuid \cup {p.guid} /\ p.guid \notin processedGuid
      /\ ~gameState.hasBall
      /\ UNCHANGED <<peers, enforcedOptions, serves, pauses>>
  BY DEF ReceiveBall, Duplicate
<1>5. /\ IsFiniteSet(processedGuid') /\ Cardinality(processedGuid) \in Nat
      /\ Cardinality(processedGuid') = Cardinality(processedGuid) + 1
  BY <1>0, <1>4, ProcessOne DEF TypeOK
<1>6. TypeOK'
  BY <1>0, <1>1, <1>3, <1>4, <1>5 DEF TypeOK
<1>7. ActiveGameAwaitsBall' /\ HeldBallMeansGameOver'
  BY <1>3 DEF ActiveGameAwaitsBall, HeldBallMeansGameOver, GameOver
<1>8. BallsAccountedFor'
  BY <1>0, <1>3, <1>4, <1>5 DEF IInv, BallsAccountedFor, Bit, TypeOK
<1> QED BY <1>6, <1>7, <1>8 DEF IInv

LEMMA PausePreserves == IInv /\ PauseGame => IInv'
<1> SUFFICES ASSUME IInv, PauseGame PROVE IInv'
  OBVIOUS
<1> USE ConstantsAssumption
<1>1. /\ gameState' = [gameState EXCEPT !.gameActive = FALSE] /\ gameState.gameActive
      /\ pauses < PauseLimit /\ pauses' = pauses + 1
      /\ UNCHANGED <<ballValue, rallyCount, processedGuid, balance, peers, enforcedOptions,
                     outNonce, outbound, serves>>
  BY DEF PauseGame, ledger, wire
<1>2. TypeOK'
  <2>1. gameState' \in GameState
    BY <1>1 DEF IInv, TypeOK, GameState
  <2>2. pauses' \in 0 .. PauseLimit
    BY <1>1 DEF IInv, TypeOK
  <2> QED BY <1>1, <2>1, <2>2 DEF IInv, TypeOK
<1>3. ~gameState'.gameActive /\ gameState'.hasBall = gameState.hasBall /\ ~gameState.hasBall
  BY <1>1 DEF IInv, TypeOK, GameState, ActiveGameAwaitsBall
<1>4. BallsAccountedFor'
  BY <1>1, <1>3 DEF IInv, BallsAccountedFor, Bit
<1> QED
  BY <1>2, <1>3, <1>4 DEF IInv, ActiveGameAwaitsBall, HeldBallMeansGameOver

\* Money and configuration touch nothing the game is made of.
LEMMA LedgerPreserves ==
    ASSUME IInv, UNCHANGED <<play, wire, serves, pauses>>,
           balance' \in Nat, peers' \in [Eids -> Addresses \cup {NoPeer}],
           enforcedOptions' \in BOOLEAN
    PROVE  IInv'
<1>1. UNCHANGED <<ballValue, rallyCount, gameState, processedGuid, outNonce, outbound>>
  BY DEF play, wire
<1>2. TypeOK'
  BY <1>1 DEF IInv, TypeOK
<1>3. ActiveGameAwaitsBall' /\ HeldBallMeansGameOver' /\ BallsAccountedFor'
  BY <1>1 DEF IInv, ActiveGameAwaitsBall, HeldBallMeansGameOver, GameOver,
              BallsAccountedFor, Bit
<1> QED BY <1>2, <1>3 DEF IInv

-----------------------------------------------------------------------------
LEMMA InitIInv == Init => IInv
<1> SUFFICES ASSUME Init PROVE IInv
  OBVIOUS
<1> USE ConstantsAssumption DEF Init, Unplayed
<1>1. TypeOK
  <2>1. IsFiniteSet(processedGuid)
    BY FS_EmptySet
  <2>2. gameState \in GameState /\ ballValue \in Word /\ rallyCount \in Word
    BY DEF GameState, Word
  <2>3. peers \in [Eids -> Addresses \cup {NoPeer}]
    OBVIOUS
  <2>4. serves \in 0 .. ServeLimit /\ pauses \in 0 .. PauseLimit /\ balance \in Nat
    OBVIOUS
  <2>5. outbound \subseteq Packet /\ processedGuid \subseteq Nat
    OBVIOUS
  <2>6. outNonce \in Nat /\ enforcedOptions \in BOOLEAN
    OBVIOUS
  <2> HIDE DEF Init, Unplayed
  <2> QED BY <2>1, <2>2, <2>3, <2>4, <2>5, <2>6 DEF TypeOK
<1> QED
  BY <1>1, FS_EmptySet
     DEF IInv, ActiveGameAwaitsBall, HeldBallMeansGameOver, BallsAccountedFor, Bit

LEMMA NextIInv == IInv /\ [Next]_vars => IInv'
<1> SUFFICES ASSUME IInv, [Next]_vars PROVE IInv'
  OBVIOUS
<1>0. TypeOK BY DEF IInv
<1>1. CASE PauseGame
  BY <1>1, PausePreserves
<1>2. ASSUME NEW amount \in 1 .. MaxBalance, Withdraw(amount) \/ Fund(amount) PROVE IInv'
  <2>1. balance' \in Nat
    BY <1>0, <1>2, ConstantsAssumption DEF TypeOK, Withdraw, Fund
  <2> QED BY <1>0, <1>2, <2>1, LedgerPreserves DEF Withdraw, Fund, TypeOK
<1>3. ASSUME NEW eid \in Eids, NEW a \in Addresses \cup {NoPeer}, SetPeer(eid, a) PROVE IInv'
  <2>1. peers' \in [Eids -> Addresses \cup {NoPeer}]
    BY <1>0, <1>3 DEF TypeOK, SetPeer
  <2> QED BY <1>0, <1>3, <2>1, LedgerPreserves DEF SetPeer, TypeOK
<1>4. CASE SetEnforcedOptions
  BY <1>0, <1>4, LedgerPreserves DEF SetEnforcedOptions, TypeOK
<1>5. ASSUME NEW maxRallies \in 0 .. MAX_RALLIES_CAP + 1, NEW extra \in BOOLEAN,
             NEW paid \in Fees, NEW fee \in Fees, Serve(maxRallies, extra, paid, fee)
      PROVE  IInv'
  BY <1>5, ServePreserves
<1>6. ASSUME NEW p \in Inbox, LzReceive(p) PROVE IInv'
  <2>1. CASE IgnoreDuplicate(p)
    BY <1>0, <2>1, LedgerPreserves DEF IgnoreDuplicate, vars, ledger, TypeOK
  <2>2. ASSUME NEW fee \in Fees, ReceiveBall(p, fee) PROVE IInv'
    BY <2>2, ReceivePreserves
  <2> QED BY <1>6, <2>1, <2>2 DEF LzReceive
<1>7. CASE UNCHANGED vars
  BY <1>0, <1>7, LedgerPreserves DEF vars, ledger, TypeOK
<1> QED BY <1>1, <1>2, <1>3, <1>4, <1>5, <1>6, <1>7 DEF Next, Owner, Anybody

\* The inductive invariant holds of every behaviour of the contract.
THEOREM Invariance == Spec => []IInv
  BY InitIInv, NextIInv, PTL DEF Spec

\* The contract's storage keeps its types: no arithmetic leaves a Solidity word.
THEOREM TypeCorrect == Spec => []TypeOK
<1>1. IInv => TypeOK BY DEF IInv
<1> QED BY <1>1, Invariance, PTL

\* A running game never sits on the ball, for any limits, fees, funds and inbox.
THEOREM ActiveGameNeverParksBall == Spec => []ActiveGameAwaitsBall
<1>1. IInv => ActiveGameAwaitsBall BY DEF IInv
<1> QED BY <1>1, Invariance, PTL

\* The contract holds a ball only when a game ended by its rules.
THEOREM HeldBallIsOver == Spec => []HeldBallMeansGameOver
<1>1. IInv => HeldBallMeansGameOver BY DEF IInv
<1> QED BY <1>1, Invariance, PTL

\* No ball is sent twice, none is dropped, whatever the executor redelivers.
THEOREM NoBallLostOrCopied == Spec => []BallsAccountedFor
<1>1. IInv => BallsAccountedFor BY DEF IInv
<1> QED BY <1>1, Invariance, PTL

-----------------------------------------------------------------------------
\* The action of GameRunsToItsEnd.
RunsOn ==
    gameState.gameActive =>
        /\ gameState'.maxRallies = gameState.maxRallies
        /\ rallyCount' # rallyCount => processedGuid' # processedGuid
        /\ gameState'.gameActive \/ gameState'.hasBall \/ pauses' > pauses

LEMMA ReceiveRunsOn ==
    ASSUME IInv, NEW p \in Inbox, NEW fee \in Fees, ReceiveBall(p, fee)
    PROVE  RunsOn
<1> SUFFICES ASSUME gameState.gameActive PROVE RunsOn
  BY DEF RunsOn
<1>1. TakeBall(p.value, p.rally + 1, gameState.maxRallies, fee)
  BY DEF ReceiveBall, InitializeGameFromPeer, ContinueGame
<1>2. gameState.maxRallies \in 1 .. MAX_RALLIES_CAP
  BY ConstantsAssumption DEF IInv, ActiveGameAwaitsBall, TypeOK, GameState, Word
<1>3. p.value \in Word /\ p.rally + 1 \in Word
  BY ConstantsAssumption DEF ReceiveBall, Packet, Word
<1>4. /\ gameState'.maxRallies = gameState.maxRallies
      /\ gameState'.hasBall \/ gameState'.gameActive
  BY <1>1, <1>2, <1>3, TakeBallEffect
<1>5. processedGuid' # processedGuid
  BY DEF ReceiveBall, Duplicate
<1> QED BY <1>4, <1>5 DEF RunsOn

LEMMA NextRunsOn == IInv /\ [Next]_vars => [RunsOn]_vars
<1> SUFFICES ASSUME IInv, Next PROVE RunsOn \/ UNCHANGED vars
  OBVIOUS
<1>1. CASE PauseGame
  <2>1. gameState' = [gameState EXCEPT !.gameActive = FALSE] /\ pauses' = pauses + 1
        /\ rallyCount' = rallyCount
    BY <1>1 DEF PauseGame
  <2> QED BY <2>1 DEF IInv, TypeOK, GameState, RunsOn
<1>2. ASSUME UNCHANGED play PROVE RunsOn
  BY <1>2 DEF RunsOn, play
<1>3. ASSUME NEW maxRallies \in 0 .. MAX_RALLIES_CAP + 1, NEW extra \in BOOLEAN,
             NEW paid \in Fees, NEW fee \in Fees, Serve(maxRallies, extra, paid, fee)
      PROVE  RunsOn
  BY <1>3 DEF Serve, StartServe, RunsOn
<1>4. ASSUME NEW p \in Inbox, LzReceive(p) PROVE RunsOn \/ UNCHANGED vars
  BY <1>4, ReceiveRunsOn DEF LzReceive, IgnoreDuplicate
<1> QED
  BY <1>1, <1>2, <1>3, <1>4
     DEF Next, Owner, Anybody, Withdraw, Fund, SetPeer, SetEnforcedOptions

\* A game in progress keeps its limit and stops only with the ball in hand or paused.
THEOREM GamesRunToTheirEnd == Spec => GameRunsToItsEnd
<1>1. IInv /\ [Next]_vars => [RunsOn]_vars BY NextRunsOn
<1>2. Spec => [][RunsOn]_vars BY <1>1, Invariance, PTL DEF Spec
<1> QED BY <1>2 DEF GameRunsToItsEnd, RunsOn

-----------------------------------------------------------------------------
\* A ball answered goes out one lower: Decrement is only reached above zero.
LEMMA TakeBallSends ==
    ASSUME NEW value \in Word, NEW rally, NEW limit, NEW fee,
           TakeBall(value, rally, limit, fee)
    PROVE  \/ outbound' = outbound
           \/ \E m : m.value = value - 1 /\ m.rally = rally /\ outbound' = outbound \cup {m}
<1>1. CASE GameOver(value, rally, limit)
  BY <1>1 DEF TakeBall, wire
<1>2. CASE ~GameOver(value, rally, limit)
  <2> DEFINE m == [guid |-> outNonce + 1, srcEid |-> EvmEid, sender |-> EvmApp,
                   to |-> peers[peerEid], value |-> Decrement(value), rally |-> rally]
  <2>1. outbound' = outbound \cup {m}
    BY <1>2 DEF TakeBall, SendBack, LzSend
  <2>2. m.value = value - 1 /\ m.rally = rally
    BY <1>2 DEF GameOver, Decrement
  <2> QED BY <2>1, <2>2
<1> QED BY <1>1, <1>2

LEMMA NextServeOrAnswer ==
    MessagesServeOrAnswer /\ [Next]_vars /\ IInv => MessagesServeOrAnswer'
<1> SUFFICES ASSUME MessagesServeOrAnswer, [Next]_vars, IInv PROVE MessagesServeOrAnswer'
  OBVIOUS
<1>1. ASSUME UNCHANGED <<processedGuid, outbound>> PROVE MessagesServeOrAnswer'
  BY <1>1 DEF MessagesServeOrAnswer
<1>2. ASSUME NEW maxRallies \in 0 .. MAX_RALLIES_CAP + 1, NEW extra \in BOOLEAN,
             NEW paid \in Fees, NEW fee \in Fees, Serve(maxRallies, extra, paid, fee)
      PROVE  MessagesServeOrAnswer'
  <2> DEFINE m == [guid |-> outNonce + 1, srcEid |-> EvmEid, sender |-> EvmApp,
                   to |-> peers[peerEid], value |-> INITIAL_BALL_VALUE, rally |-> 0]
  <2>1. outbound' = outbound \cup {m} /\ processedGuid' = processedGuid
    BY <1>2 DEF Serve, StartServe, LzSend
  <2>2. m.value = INITIAL_BALL_VALUE /\ m.rally = 0
    OBVIOUS
  <2> HIDE DEF m
  <2> QED BY <2>1, <2>2 DEF MessagesServeOrAnswer
<1>3. ASSUME NEW p \in Inbox, NEW fee \in Fees, ReceiveBall(p, fee)
      PROVE  MessagesServeOrAnswer'
  <2>1. processedGuid' = processedGuid \cup {p.guid}
    BY <1>3 DEF ReceiveBall
  <2>2. p.value \in Word
    BY ConstantsAssumption DEF Packet
  <2>3. PICK limit : TakeBall(p.value, p.rally + 1, limit, fee)
    BY <1>3 DEF ReceiveBall, InitializeGameFromPeer, ContinueGame
  <2>4. \/ outbound' = outbound
        \/ \E m : m.value = p.value - 1 /\ m.rally = p.rally + 1
                  /\ outbound' = outbound \cup {m}
    BY <2>2, <2>3, TakeBallSends
  <2> QED BY <2>1, <2>4 DEF MessagesServeOrAnswer
<1> QED
  BY <1>1, <1>2, <1>3
     DEF Next, Owner, Anybody, LzReceive, IgnoreDuplicate, PauseGame, Withdraw, Fund,
         SetPeer, SetEnforcedOptions, vars, play, wire

\* Whatever the inbox holds, the contract answers a packet with one hit less.
THEOREM EveryMessageServesOrAnswers == Spec => []MessagesServeOrAnswer
<1>1. Init => MessagesServeOrAnswer
  BY DEF Init, Unplayed, MessagesServeOrAnswer
<1> QED BY <1>1, NextServeOrAnswer, Invariance, PTL DEF Spec
=============================================================================
