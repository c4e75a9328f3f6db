----------------------- MODULE CrossChainPingPong_proofs -----------------------
(***************************************************************************)
(* The composed system keeps its types and has one ball, for any number of *)
(* players, stray senders, games, pauses, fees and rallies, and for any    *)
(* configuration of peers.                                                 *)
(***************************************************************************)
EXTENDS CrossChainPingPong, Sequences, FiniteSetTheorems, TLAPS

(***************************************************************************)
(* Types, with the values of all packets below 2^128.                      *)
(***************************************************************************)
\* Every value in flight, or once in flight, fits a u128.
ValuesFit ==
    /\ \A p \in outbound : p.value \in 0 .. U128 - 1
    /\ \A p \in svmOutbound : p.value \in 0 .. U128 - 1

TInv == TypeOK /\ ValuesFit

-----------------------------------------------------------------------------
\* The instances speak of finite sets in operators of their own.
LEMMA SameFinite ==
    ASSUME NEW S
    PROVE  /\ EVM!IsFiniteSet(S) <=> IsFiniteSet(S)
           /\ SVM!IsFiniteSet(S) <=> IsFiniteSet(S)
  BY DEF IsFiniteSet, EVM!IsFiniteSet, SVM!IsFiniteSet

LEMMA DecodeIsIdentity == ASSUME NEW p, p.value \in 0 .. U128 - 1 PROVE SVM!Decode(p) = p.value
<1>1. U128 \in Nat /\ U128 > 0
  BY SystemAssumption
<1>2. ASSUME NEW n \in Int, NEW d \in Nat, d > 0, 0 <= n, n < d PROVE n % d = n
  BY <1>2, SMTT(30)
<1> QED BY <1>1, <1>2 DEF SVM!Decode

\* Components of TypeOK, for the contract and for the program.
LEMMA TypesSplit ==
    TypeOK' <=>
        /\ EVM!TypeOK' /\ SVM!TypeOK'
        /\ pc' \in [Players -> {"idle", "fetched", "quoted"}]
        /\ seen' \in [Players -> 0 .. U128 - 1]
  BY DEF TypeOK

\* A message the contract sends has the type of a packet.
LEMMA EvmSends ==
    ASSUME TInv, NEW value \in 0 .. U128 - 1, NEW rally \in EVM!Word,
           EVM!CanSend(TRUE), EVM!LzSend(value, rally)
    PROVE  /\ outNonce' \in Nat /\ outbound' \subseteq EVM!Packet
           /\ \A p \in outbound' : p.value \in 0 .. U128 - 1
<1> DEFINE m == [guid |-> outNonce + 1, srcEid |-> SepoliaEid, sender |-> EvmApp,
                 to |-> peers[SolanaEid], value |-> value, rally |-> rally]
<1>1. outNonce \in Nat /\ outbound \subseteq EVM!Packet
      /\ peers \in [{SolanaEid} -> {GamePDA, ProgramId} \cup {NoPeer}]
  BY DEF TInv, TypeOK, EVM!TypeOK
<1>2. peers[SolanaEid] \in {GamePDA, ProgramId}
  BY <1>1 DEF EVM!CanSend
<1>3. value \in EVM!Word
  BY SystemAssumption DEF EVM!Word
<1>4. m \in EVM!Packet
  BY <1>1, <1>2, <1>3 DEF EVM!Packet
<1>5. outNonce' = outNonce + 1 /\ outbound' = outbound \cup {m}
  BY DEF EVM!LzSend
<1>6. m.value = value
  OBVIOUS
<1> HIDE DEF m
<1> QED BY <1>1, <1>4, <1>5, <1>6 DEF TInv, ValuesFit

\* A step of the contract's side that respects the contract's types.
LEMMA EvmFrame ==
    ASSUME TInv, UNCHANGED <<svmVars, players>>, EVM!TypeOK',
           \A p \in outbound' : p.value \in 0 .. U128 - 1
    PROVE  TInv'
<1>1. SVM!TypeOK'
  BY DEF TInv, TypeOK, SVM!TypeOK, svmVars
<1>2. pc' = pc /\ seen' = seen /\ svmOutbound' = svmOutbound
  BY DEF players, svmVars
<1> QED BY <1>1, <1>2, TypesSplit DEF TInv, TypeOK, ValuesFit

LEMMA ServeTypes ==
    ASSUME TInv, UNCHANGED <<svmVars, players>>,
           NEW maxRallies \in 0 .. MAX_RALLIES_CAP + 1, NEW extra \in BOOLEAN,
           NEW paid \in Fees, NEW fee \in Fees, EVM!Serve(maxRallies, extra, paid, fee)
    PROVE  TInv'
<1> USE SystemAssumption
<1>0. EVM!TypeOK BY DEF TInv, TypeOK
<1>1. /\ outNonce' \in Nat /\ outbound' \subseteq EVM!Packet
      /\ \A p \in outbound' : p.value \in 0 .. U128 - 1
  <2>1. EVM!CanSend(TRUE)
    BY DEF EVM!Serve, EVM!StartServe, EVM!CanSend
  <2>2. 0 \in EVM!Word /\ INITIAL_BALL_VALUE \in 0 .. U128 - 1
    BY DEF EVM!Word
  <2> QED BY <2>1, <2>2, EvmSends DEF EVM!Serve, EVM!StartServe
<1>2. ballValue' \in EVM!Word /\ rallyCount' \in EVM!Word
  BY DEF EVM!Serve, EVM!StartServe, EVM!Word
<1>3. gameState' \in EVM!GameState
  <2>1. gameState' = [maxRallies |-> maxRallies, hasBall |-> FALSE, gameActive |-> TRUE]
    BY DEF EVM!Serve, EVM!Served
  <2>2. maxRallies \in 0 .. MAX_RALLIES_CAP
    BY DEF EVM!Serve, EVM!StartServe, EVM!ValidMaxRallies
  <2> QED BY <2>1, <2>2 DEF EVM!GameState
<1>4. serves' \in 0 .. ServeLimit
  BY <1>0 DEF EVM!Serve, EVM!StartServe, EVM!TypeOK
<1>5. UNCHANGED <<processedGuid, balance, peers, enforcedOptions, pauses>>
  BY DEF EVM!Serve, EVM!StartServe, EVM!ledger
<1>6. EVM!TypeOK'
  BY <1>0, <1>1, <1>2, <1>3, <1>4, <1>5 DEF EVM!TypeOK
<1> QED BY <1>1, <1>6, EvmFrame

LEMMA EvmReceiveTypes ==
    ASSUME TInv, UNCHANGED <<svmVars, players>>, NEW p \in svmOutbound, NEW fee \in Fees,
           EVM!ReceiveBall(p, fee)
    PROVE  TInv'
<1> USE SystemAssumption
<1>0. EVM!TypeOK BY DEF TInv, TypeOK
<1>1. p \in SVM!Packet /\ p.value \in 0 .. U128 - 1
  BY DEF TInv, TypeOK, SVM!TypeOK, ValuesFit
<1>2. p.guid \in Nat /\ p.rally \in Nat
  BY <1>1 DEF SVM!Packet
<1>3. /\ processedGuid' = processedGuid \cup {p.guid}
      /\ p.rally < MaxUint256
      /\ UNCHANGED <<peers, enforcedOptions, serves, pauses>>
  BY DEF EVM!ReceiveBall
<1>4. PICK limit \in 0 .. MAX_RALLIES_CAP : EVM!TakeBall(p.value, p.rally + 1, limit, fee)
  BY <1>0 DEF EVM!ReceiveBall, EVM!InitializeGameFromPeer, EVM!ContinueGame, EVM!TypeOK,
              EVM!GameState
<1>5. processedGuid' \subseteq Nat /\ IsFiniteSet(processedGuid')
  <2>1. processedGuid \subseteq Nat /\ IsFiniteSet(processedGuid)
    BY <1>0, SameFinite DEF EVM!TypeOK
  <2>2. IsFiniteSet(processedGuid \cup {p.guid})
    BY <2>1, FS_AddElement
  <2> QED BY <1>2, <1>3, <2>1, <2>2
<1>6. p.rally + 1 \in EVM!Word /\ p.value \in EVM!Word /\ fee \in Nat
  BY <1>1, <1>2, <1>3 DEF EVM!Word
<1>7. /\ ballValue' \in EVM!Word /\ rallyCount' \in EVM!Word
      /\ gameState' \in EVM!GameState /\ balance' \in Nat
      /\ outNonce' \in Nat /\ outbound' \subseteq EVM!Packet
      /\ \A q \in outbound' : q.value \in 0 .. U128 - 1
  <2>1. CASE EVM!GameOver(p.value, p.rally + 1, limit)
    <3>1. /\ ballValue' = p.value /\ rallyCount' = p.rally + 1
          /\ gameState' = [maxRallies |-> limit, hasBall |-> TRUE, gameActive |-> FALSE]
          /\ UNCHANGED <<balance, outNonce, outbound>>
      BY <1>4, <2>1 DEF EVM!TakeBall, EVM!wire
    <3>2. gameState' \in EVM!GameState
      BY <3>1 DEF EVM!GameState
    <3> QED BY <1>0, <1>6, <3>1, <3>2 DEF EVM!TypeOK, TInv, ValuesFit
  <2>2. CASE ~EVM!GameOver(p.value, p.rally + 1, limit)
    <3>1. EVM!Decrement(p.value) \in 0 .. U128 - 1
      BY <1>1, <2>2 DEF EVM!GameOver, EVM!Decrement
    <3>2. /\ ballValue' = EVM!Decrement(p.value) /\ rallyCount' = p.rally + 1
          /\ gameState' = [maxRallies |-> limit, hasBall |-> FALSE, gameActive |-> TRUE]
          /\ fee <= balance /\ balance' = balance - fee
          /\ EVM!CanSend(enforcedOptions)
          /\ EVM!LzSend(EVM!Decrement(p.value), p.rally + 1)
      BY <1>4, <2>2 DEF EVM!TakeBall, EVM!SendBack, EVM!SelfCall
    <3>3. EVM!CanSend(TRUE)
      BY <3>2 DEF EVM!CanSend
    <3>4. /\ outNonce' \in Nat /\ outbound' \subseteq EVM!Packet
          /\ \A q \in outbound' : q.value \in 0 .. U128 - 1
      BY <1>6, <3>1, <3>2, <3>3, EvmSends
    <3>5. gameState' \in EVM!GameState
      BY <3>2 DEF EVM!GameState
    <3>6. balance' \in Nat
      BY <1>0, <1>6, <3>2 DEF EVM!TypeOK
    <3>7. ballValue' \in EVM!Word
      BY <3>1, <3>2 DEF EVM!Word
    <3> QED BY <1>6, <3>2, <3>4, <3>5, <3>6, <3>7
  <2> QED BY <2>1, <2>2
<1>8. EVM!TypeOK'
  <2>0. EVM!IsFiniteSet(processedGuid')
    BY <1>5, SameFinite
  <2>1. /\ peers' \in [{SolanaEid} -> {GamePDA, ProgramId} \cup {NoPeer}]
        /\ enforcedOptions' \in BOOLEAN
        /\ serves' \in 0 .. ServeLimit /\ pauses' \in 0 .. PauseLimit
    BY <1>0, <1>3 DEF EVM!TypeOK
  <2> QED BY <1>5, <1>7, <2>0, <2>1 DEF EVM!TypeOK
<1> QED BY <1>7, <1>8, EvmFrame

LEMMA EvmOtherTypes ==
    ASSUME TInv, UNCHANGED <<svmVars, players>>, EVM!Owner \/ EVM!Anybody
    PROVE  TInv'
<1> USE SystemAssumption
<1>0. EVM!TypeOK BY DEF TInv, TypeOK
<1>1. ASSUME UNCHANGED <<ballValue, rallyCount, processedGuid, outNonce, outbound, serves>>,
             gameState' \in EVM!GameState, balance' \in Nat, enforcedOptions' \in BOOLEAN,
             peers' \in [{SolanaEid} -> {GamePDA, ProgramId} \cup {NoPeer}],
             pauses' \in 0 .. PauseLimit
      PROVE  TInv'
  <2>1. EVM!TypeOK'
    BY <1>0, <1>1 DEF EVM!TypeOK
  <2> QED BY <1>1, <2>1, EvmFrame DEF TInv, ValuesFit
<1>2. CASE EVM!PauseGame
  <2>1. gameState' \in EVM!GameState
    BY <1>0, <1>2 DEF EVM!PauseGame, EVM!TypeOK, EVM!GameState
  <2>2. pauses' \in 0 .. PauseLimit
    BY <1>0, <1>2 DEF EVM!PauseGame, EVM!TypeOK
  <2> QED BY <1>0, <1>1, <1>2, <2>1, <2>2 DEF EVM!PauseGame, EVM!TypeOK, EVM!ledger, EVM!wire
<1>3. ASSUME NEW amount \in 1 .. MaxBalance, EVM!Withdraw(amount) \/ EVM!Fund(amount) PROVE TInv'
  <2>1. balance' \in Nat
    BY <1>0, <1>3 DEF EVM!Withdraw, EVM!Fund, EVM!TypeOK
  <2> QED BY <1>0, <1>1, <1>3, <2>1
             DEF EVM!Withdraw, EVM!Fund, EVM!TypeOK, EVM!play, EVM!wire
<1>4. ASSUME NEW eid \in {SolanaEid}, NEW a \in {GamePDA, ProgramId} \cup {NoPeer}, EVM!SetPeer(eid, a)
      PROVE  TInv'
  <2>1. peers' \in [{SolanaEid} -> {GamePDA, ProgramId} \cup {NoPeer}]
    BY <1>0, <1>4 DEF EVM!SetPeer, EVM!TypeOK
  <2> QED BY <1>0, <1>1, <1>4, <2>1 DEF EVM!SetPeer, EVM!TypeOK, EVM!play, EVM!wire
<1>5. CASE EVM!SetEnforcedOptions
  BY <1>0, <1>1, <1>5 DEF EVM!SetEnforcedOptions, EVM!TypeOK, EVM!play, EVM!wire
<1> QED BY <1>2, <1>3, <1>4, <1>5, ServeTypes DEF EVM!Owner, EVM!Anybody

-----------------------------------------------------------------------------
\* A step of Solana's side that respects the program's types.
LEMMA SvmFrame ==
    ASSUME TInv, UNCHANGED <<evmVars, players>>, SVM!TypeOK',
           \A p \in svmOutbound' : p.value \in 0 .. U128 - 1
    PROVE  TInv'
<1>1. EVM!TypeOK'
  BY DEF TInv, TypeOK, EVM!TypeOK, evmVars
<1>2. pc' = pc /\ seen' = seen /\ outbound' = outbound
  BY DEF players, evmVars
<1> QED BY <1>1, <1>2, TypesSplit DEF TInv, TypeOK, ValuesFit

PeerType == [{SepoliaEid} -> [created : BOOLEAN, peer_address : {EvmApp} \cup {NoPeer},
                              send : BOOLEAN]]

\* Administration leaves packets alone.
LEMMA SvmAccountsTypes ==
    ASSUME TInv, UNCHANGED <<cleared, svmNonce, svmOutbound>>,
           game' = game \/ game' = SVM!NewGame,
           opened' \in BOOLEAN, registered' \in BOOLEAN, peer' \in PeerType,
           lamports' \in 0 .. MaxLamports, inits' \in Nat,
           lastSwitch' \in {"none", "paused", "resumed"}
    PROVE  SVM!TypeOK' /\ \A p \in svmOutbound' : p.value \in 0 .. U128 - 1
<1>0. SVM!TypeOK BY DEF TInv, TypeOK
<1>1. game' \in SVM!GameState
  <2>1. SVM!NewGame \in SVM!GameState
    BY SystemAssumption DEF SVM!NewGame, SVM!GameState, SVM!Value
  <2> QED BY <1>0, <2>1 DEF SVM!TypeOK
<1> QED BY <1>0, <1>1 DEF SVM!TypeOK, PeerType, TInv, ValuesFit

\* send_ball with a value of a u128 sends a packet with such a value.
LEMMA SvmSendTypes ==
    ASSUME TInv, NEW value \in 0 .. U128 - 1, NEW options, NEW fee, NEW quoted, NEW accounts,
           SVM!SendBall(SepoliaEid, value, options, fee, quoted, accounts)
    PROVE  SVM!TypeOK' /\ \A p \in svmOutbound' : p.value \in 0 .. U128 - 1
<1> USE SystemAssumption
<1> DEFINE m == [guid |-> svmNonce + 1, srcEid |-> SolanaEid, sender |-> GamePDA,
                 to |-> peer[SepoliaEid].peer_address, value |-> SVM!Encode(value),
                 rally |-> game.rally_count]
<1>0. SVM!TypeOK BY DEF TInv, TypeOK
<1>1. /\ svmNonce' = svmNonce + 1 /\ svmOutbound' = svmOutbound \cup {m}
      /\ game' = [game EXCEPT !.has_ball = FALSE]
      /\ UNCHANGED <<opened, peer, registered, lamports, cleared, inits, lastSwitch>>
  BY DEF SVM!SendBall, SVM!CpiSend, SVM!Released, SVM!config
<1>2. SVM!Encode(value) = value
  BY DEF SVM!Encode, SVM!Word
<1>3. m \in SVM!Packet
  <2>1. peer[SepoliaEid].peer_address \in {EvmApp} \cup {NoPeer}
    BY <1>0 DEF SVM!TypeOK
  <2>2. game.rally_count \in Nat /\ svmNonce + 1 \in Nat /\ value \in Nat
    BY <1>0 DEF SVM!TypeOK, SVM!GameState
  <2> QED BY <1>2, <2>1, <2>2 DEF SVM!Packet
<1>4. m.value = value
  BY <1>2
<1> HIDE DEF m
<1>5. game' \in SVM!GameState
  BY <1>0, <1>1 DEF SVM!TypeOK, SVM!GameState
<1>6. SVM!TypeOK'
  BY <1>0, <1>1, <1>3, <1>5 DEF SVM!TypeOK
<1> QED BY <1>1, <1>4, <1>6 DEF TInv, ValuesFit

LEMMA SvmReceiveTypes ==
    ASSUME TInv, NEW p \in outbound, NEW accounts, SVM!LzReceive(p, accounts)
    PROVE  SVM!TypeOK' /\ \A q \in svmOutbound' : q.value \in 0 .. U128 - 1
<1> USE SystemAssumption
<1>0. SVM!TypeOK BY DEF TInv, TypeOK
<1> DEFINE value == SVM!Decode(p)
<1>1. /\ value \in 1 .. INITIAL_BALL_VALUE
      /\ game.rally_count + 1 <= MAX_RALLIES_CAP /\ game' = SVM!Struck(value)
      /\ cleared' = cleared \cup {p.guid}
      /\ UNCHANGED <<opened, peer, registered, lamports, svmNonce, svmOutbound, inits, lastSwitch>>
  BY DEF SVM!LzReceive, SVM!Clear, SVM!ValidValue, SVM!WithinCap, SVM!config, SVM!wire
<1> HIDE DEF value
<1>2. game' \in SVM!GameState
  <2> DEFINE over == value = 1 \/ game.rally_count + 1 >= game.max_rallies
  <2>1. game' = [game EXCEPT !.ball_value = value - 1,
                             !.rally_count = game.rally_count + 1,
                             !.has_ball = ~over, !.game_active = ~over]
    BY <1>1 DEF SVM!Struck
  <2>2. value - 1 \in 0 .. U128 - 1 /\ game.rally_count + 1 \in 0 .. MAX_RALLIES_CAP
    BY <1>0, <1>1 DEF SVM!TypeOK, SVM!GameState
  <2>3. over \in BOOLEAN
    OBVIOUS
  <2> HIDE DEF over
  <2> QED BY <1>0, <2>1, <2>2, <2>3 DEF SVM!TypeOK, SVM!GameState, SVM!Value
<1>3. cleared' \subseteq Nat /\ IsFiniteSet(cleared')
  <2>1. cleared \subseteq Nat /\ IsFiniteSet(cleared)
    BY <1>0, SameFinite DEF SVM!TypeOK
  <2>2. p.guid \in Nat
    BY DEF TInv, TypeOK, EVM!TypeOK, EVM!Packet
  <2>3. IsFiniteSet(cleared \cup {p.guid})
    BY <2>1, FS_AddElement
  <2> QED BY <1>1, <2>1, <2>2, <2>3
<1>4. SVM!IsFiniteSet(cleared')
  BY <1>3, SameFinite
<1>5. /\ opened' \in BOOLEAN /\ registered' \in BOOLEAN /\ svmNonce' \in Nat
      /\ peer' \in [{SepoliaEid} -> [created : BOOLEAN, peer_address : {EvmApp} \cup {NoPeer},
                                     send : BOOLEAN]]
      /\ lamports' \in 0 .. MaxLamports /\ svmOutbound' \subseteq SVM!Packet
      /\ inits' \in Nat /\ lastSwitch' \in {"none", "paused", "resumed"}
  BY <1>0, <1>1 DEF SVM!TypeOK
<1>6. SVM!TypeOK'
  BY <1>2, <1>3, <1>4, <1>5 DEF SVM!TypeOK
<1> QED BY <1>1, <1>6 DEF TInv, ValuesFit

LEMMA SvmOtherTypes ==
    ASSUME TInv, SVM!Admin \/ SVM!Anybody
    PROVE  SVM!TypeOK' /\ \A p \in svmOutbound' : p.value \in 0 .. U128 - 1
<1>0. /\ opened \in BOOLEAN /\ registered \in BOOLEAN /\ peer \in PeerType
      /\ lamports \in 0 .. MaxLamports /\ inits \in Nat /\ MaxLamports \in Nat
      /\ lastSwitch \in {"none", "paused", "resumed"}
  BY SystemAssumption DEF TInv, TypeOK, SVM!TypeOK, PeerType
<1>1. CASE SVM!InitGame \/ SVM!CloseGame \/ SVM!PauseGame \/ SVM!ResumeGame \/ SVM!RegisterOApp
  <2>1. game' = game \/ game' = SVM!NewGame
    BY <1>1 DEF SVM!InitGame, SVM!CloseGame, SVM!PauseGame, SVM!ResumeGame, SVM!RegisterOApp,
                SVM!Persisted
  <2>2. UNCHANGED <<peer, cleared, svmNonce, svmOutbound>>
    BY <1>1 DEF SVM!InitGame, SVM!CloseGame, SVM!PauseGame, SVM!ResumeGame, SVM!RegisterOApp,
                SVM!config, SVM!wire
  <2>3. opened' \in BOOLEAN /\ registered' \in BOOLEAN
    <3>1. opened' \in {opened, TRUE, FALSE} /\ registered' \in {registered, TRUE}
      BY <1>1 DEF SVM!InitGame, SVM!CloseGame, SVM!PauseGame, SVM!ResumeGame, SVM!RegisterOApp,
                  SVM!config
    <3> QED BY <1>0, <3>1
  <2>4. inits' \in Nat /\ lamports' \in 0 .. MaxLamports
    <3>1. inits' \in {inits, inits + 1} /\ lamports' \in {lamports, 0}
      BY <1>1 DEF SVM!InitGame, SVM!CloseGame, SVM!PauseGame, SVM!ResumeGame, SVM!RegisterOApp
    <3> QED BY <1>0, <3>1
  <2>5. lastSwitch' \in {"none", "paused", "resumed"}
    BY <1>0, <1>1 DEF SVM!InitGame, SVM!CloseGame, SVM!PauseGame, SVM!ResumeGame,
                      SVM!RegisterOApp
  <2> QED BY <1>0, <2>1, <2>2, <2>3, <2>4, <2>5, SvmAccountsTypes
<1>2. ASSUME NEW address \in {EvmApp} \cup {NoPeer}, SVM!SetPeerAddress(SepoliaEid, address)
      PROVE  SVM!TypeOK' /\ \A p \in svmOutbound' : p.value \in 0 .. U128 - 1
  <2>1. peer' \in PeerType
    BY <1>0, <1>2 DEF SVM!SetPeerAddress, PeerType
  <2>2. UNCHANGED <<opened, game, registered, lamports, cleared, svmNonce, svmOutbound, inits,
                    lastSwitch>>
    BY <1>2 DEF SVM!SetPeerAddress, SVM!wire
  <2> QED BY <1>0, <2>1, <2>2, SvmAccountsTypes
<1>3. ASSUME NEW send \in BOOLEAN, SVM!SetPeerOptions(SepoliaEid, send)
      PROVE  SVM!TypeOK' /\ \A p \in svmOutbound' : p.value \in 0 .. U128 - 1
  <2>1. peer' \in PeerType
    BY <1>0, <1>3 DEF SVM!SetPeerOptions, PeerType
  <2>2. UNCHANGED <<opened, game, registered, lamports, cleared, svmNonce, svmOutbound, inits,
                    lastSwitch>>
    BY <1>3 DEF SVM!SetPeerOptions, SVM!wire
  <2> QED BY <1>0, <2>1, <2>2, SvmAccountsTypes
<1>4. ASSUME NEW amount \in 1 .. MaxLamports, SVM!FundContract(amount)
      PROVE  SVM!TypeOK' /\ \A p \in svmOutbound' : p.value \in 0 .. U128 - 1
  <2>1. lamports' \in 0 .. MaxLamports
    BY <1>0, <1>4 DEF SVM!FundContract
  <2> QED BY <1>0, <1>4, <2>1, SvmAccountsTypes DEF SVM!FundContract, SVM!config, SVM!wire
<1>5. ASSUME NEW value \in SendValues, NEW options \in BOOLEAN, NEW fee \in Fees,
             NEW quoted \in Fees,
             SVM!SendBall(SepoliaEid, value, options, fee, quoted, SVM!SendBallAccounts)
      PROVE  SVM!TypeOK' /\ \A p \in svmOutbound' : p.value \in 0 .. U128 - 1
  <2>1. value \in 0 .. U128 - 1
    BY SystemAssumption
  <2> QED BY <1>5, <2>1, SvmSendTypes
<1> QED BY <1>1, <1>2, <1>3, <1>4, <1>5 DEF SVM!Admin, SVM!Anybody

-----------------------------------------------------------------------------
\* A player sends what it has read, which was the ball's value at the time.
LEMMA PlayerTypes == ASSUME TInv, NEW r \in Players, Player(r) PROVE TInv'
<1>0. /\ pc \in [Players -> {"idle", "fetched", "quoted"}]
      /\ seen \in [Players -> 0 .. U128 - 1] /\ game.ball_value \in 0 .. U128 - 1
  BY DEF TInv, TypeOK, SVM!TypeOK, SVM!GameState, SVM!Value
<1>1. pc' \in [Players -> {"idle", "fetched", "quoted"}]
  BY <1>0 DEF Player, FetchState, Quote, SubmitBall, GiveUp, Goto
<1>2. seen' \in [Players -> 0 .. U128 - 1]
  BY <1>0 DEF Player, FetchState, Quote, SubmitBall, GiveUp
<1>3. CASE UNCHANGED <<evmVars, svmVars>>
  <2>1. EVM!TypeOK' /\ SVM!TypeOK'
    BY <1>3 DEF TInv, TypeOK, EVM!TypeOK, SVM!TypeOK, evmVars, svmVars
  <2>2. outbound' = outbound /\ svmOutbound' = svmOutbound
    BY <1>3 DEF evmVars, svmVars
  <2> QED BY <1>1, <1>2, <2>1, <2>2, TypesSplit DEF TInv, ValuesFit
<1>4. CASE SubmitBall(r)
  <2>1. PICK quoted \in Fees :
            SVM!SendBall(SepoliaEid, seen[r], FALSE, EstimatedFee, quoted, Presents(r))
    BY <1>4 DEF SubmitBall
  <2>2. seen[r] \in 0 .. U128 - 1
    BY <1>0
  <2>3. SVM!TypeOK' /\ \A p \in svmOutbound' : p.value \in 0 .. U128 - 1
    BY <2>1, <2>2, SvmSendTypes
  <2>4. EVM!TypeOK' /\ outbound' = outbound
    BY <1>4 DEF SubmitBall, TInv, TypeOK, EVM!TypeOK, evmVars
  <2> QED BY <1>1, <1>2, <2>3, <2>4, TypesSplit DEF TInv, ValuesFit
<1> QED BY <1>3, <1>4 DEF Player, FetchState, Quote, GiveUp

LEMMA InitTypes == Init \/ ReadyInit => TInv
<1> SUFFICES ASSUME Init \/ ReadyInit PROVE TInv
  OBVIOUS
<1> USE SystemAssumption
<1>1. EVM!Unplayed /\ SVM!Unplayed /\ Idle
  BY DEF Init, ReadyInit, EVM!Init, SVM!Init
<1>2. balance = 0 /\ enforcedOptions \in BOOLEAN
      /\ peers \in [{SolanaEid} -> {GamePDA, ProgramId} \cup {NoPeer}]
  BY DEF Init, ReadyInit, EVM!Init
<1>3. opened \in BOOLEAN /\ registered \in BOOLEAN /\ inits \in Nat
      /\ lamports \in 0 .. MaxLamports /\ peer \in PeerType
  <2>1. CASE Init
    <3>1. opened = FALSE /\ registered = FALSE /\ inits = 0 /\ lamports = 0
      BY <2>1 DEF Init, SVM!Init
    <3>2. peer \in PeerType
      BY <2>1 DEF Init, SVM!Init, SVM!NoConfig, PeerType
    <3>3. opened \in BOOLEAN /\ registered \in BOOLEAN
      BY <3>1, Zenon
    <3>4. inits \in Nat /\ lamports \in 0 .. MaxLamports
      BY <3>1
    <3> QED BY <3>2, <3>3, <3>4
  <2>2. CASE ReadyInit
    <3>1. opened = TRUE /\ registered = TRUE /\ inits = 1 /\ lamports = MaxLamports
      BY <2>2 DEF ReadyInit
    <3>2. peer \in PeerType
      BY <2>2 DEF ReadyInit, PeerType
    <3> QED BY <3>1, <3>2
  <2> QED BY <2>1, <2>2
<1>4. EVM!IsFiniteSet({}) /\ SVM!IsFiniteSet({})
  BY FS_EmptySet, SameFinite
<1>5. EVM!TypeOK
  <2>1. gameState \in EVM!GameState /\ ballValue \in EVM!Word /\ rallyCount \in EVM!Word
    BY <1>1 DEF EVM!Unplayed, EVM!GameState, EVM!Word
  <2> QED BY <1>1, <1>2, <1>4, <2>1 DEF EVM!TypeOK, EVM!Unplayed
<1>6. SVM!TypeOK
  <2>1. game \in SVM!GameState
    BY <1>1 DEF SVM!Unplayed, SVM!NewGame, SVM!GameState, SVM!Value
  <2> QED BY <1>1, <1>3, <1>4, <2>1 DEF SVM!TypeOK, SVM!Unplayed, PeerType
<1>7. /\ pc \in [Players -> {"idle", "fetched", "quoted"}]
      /\ seen \in [Players -> 0 .. U128 - 1]
  BY <1>1 DEF Idle
<1> QED BY <1>1, <1>5, <1>6, <1>7 DEF TInv, TypeOK, ValuesFit, EVM!Unplayed, SVM!Unplayed

LEMMA NextTypes == TInv /\ [Next]_vars => TInv'
<1> SUFFICES ASSUME TInv, [Next]_vars PROVE TInv'
  OBVIOUS
<1>1. CASE (EVM!Owner \/ EVM!Anybody) /\ UNCHANGED <<svmVars, players>>
  BY <1>1, EvmOtherTypes
<1>2. CASE (SVM!Admin \/ SVM!Anybody) /\ UNCHANGED <<evmVars, players>>
  BY <1>2, SvmOtherTypes, SvmFrame
<1>3. ASSUME NEW p \in outbound, DeliverToSolana(p) PROVE TInv'
  BY <1>3, SvmReceiveTypes, SvmFrame DEF DeliverToSolana
<1>4. CASE UNCHANGED vars
  <2>1. UNCHANGED <<evmVars, svmVars, pc, seen>>
    BY <1>4 DEF vars, players
  <2>2. EVM!TypeOK' /\ SVM!TypeOK'
    BY <2>1 DEF TInv, TypeOK, EVM!TypeOK, SVM!TypeOK, evmVars, svmVars
  <2>3. outbound' = outbound /\ svmOutbound' = svmOutbound
    BY <2>1 DEF evmVars, svmVars
  <2> QED BY <2>1, <2>2, <2>3, TypesSplit DEF TInv, TypeOK, ValuesFit
<1>5. ASSUME NEW p \in svmOutbound, DeliverToEvm(p) PROVE TInv'
  <2>1. CASE EVM!IgnoreDuplicate(p)
    <3>1. UNCHANGED vars
      BY <1>5, <2>1 DEF DeliverToEvm, EVM!IgnoreDuplicate, EVM!vars, EVM!play, EVM!ledger,
                        EVM!wire, vars, evmVars
    <3> QED BY <1>4, <3>1
  <2>2. ASSUME NEW fee \in Fees, EVM!ReceiveBall(p, fee) PROVE TInv'
    BY <1>5, <2>2, EvmReceiveTypes DEF DeliverToEvm
  <2> QED BY <1>5, <2>1, <2>2 DEF DeliverToEvm, EVM!LzReceive
<1> QED BY <1>1, <1>2, <1>3, <1>4, <1>5, PlayerTypes DEF Next, Play, Owners

-----------------------------------------------------------------------------
LEMMA TypesInvariance == Spec \/ ReadySpec => []TInv
  BY InitTypes, NextTypes, PTL DEF Spec, ReadySpec

\* The composed system keeps its types: what one chain sends has the shape and the range
\* the other expects, and no counter or balance leaves its range.
THEOREM TypeCorrect == Spec => []TypeOK
<1>1. TInv => TypeOK BY DEF TInv
<1> QED BY <1>1, TypesInvariance, PTL

\* decode never cuts a value, whatever callers of send_ball choose.
THEOREM NoValueIsTruncated == Spec \/ ReadySpec => []NothingTruncated
<1>1. TInv => NothingTruncated
  BY DecodeIsIdentity DEF TInv, ValuesFit, NothingTruncated, ToSolana, InFlight
<1> QED BY <1>1, TypesInvariance, PTL

-----------------------------------------------------------------------------
(***************************************************************************)
(* A channel: the packets one endpoint accepted carry different guids, all *)
(* issued, and only issued guids were taken at the other end.              *)
(***************************************************************************)
Channel(sent, taken, nonce) ==
    /\ nonce \in Nat
    /\ IsFiniteSet(sent)
    /\ taken \subseteq 1 .. nonce
    /\ \A p \in sent : p.guid \in 1 .. nonce
    /\ \A p, q \in sent : p.guid = q.guid => p = q

GameType == [ball_value : Int, rally_count : Int, max_rallies : Int,
             has_ball : BOOLEAN, game_active : BOOLEAN, paused : BOOLEAN]

Shape ==
    /\ Channel(outbound, cleared, outNonce)
    /\ Channel(svmOutbound, processedGuid, svmNonce)
    /\ gameState \in EVM!GameState
    /\ game \in GameType
    /\ pauses \in Nat

\* The part of EVM!ActiveGameAwaitsBall that conservation needs.
BallAway == gameState.gameActive => ~gameState.hasBall

IInv == Shape /\ BallAway /\ BallConservation /\ QuietBetweenGames

-----------------------------------------------------------------------------
LEMMA InFlightFinite ==
    ASSUME NEW sent, NEW taken, NEW nonce, Channel(sent, taken, nonce)
    PROVE  IsFiniteSet(InFlight(sent, taken)) /\ Cardinality(InFlight(sent, taken)) \in Nat
<1>1. InFlight(sent, taken) \subseteq sent
  BY DEF InFlight
<1> QED BY <1>1, FS_Subset, FS_CardinalityType DEF Channel

\* A fresh packet adds one to what is in flight.
LEMMA SendOne ==
    ASSUME NEW sent, NEW taken, NEW nonce, Channel(sent, taken, nonce),
           NEW m, m.guid = nonce + 1
    PROVE  /\ Channel(sent \cup {m}, taken, nonce + 1)
           /\ InFlight(sent \cup {m}, taken) = InFlight(sent, taken) \cup {m}
           /\ Cardinality(InFlight(sent \cup {m}, taken)) = Cardinality(InFlight(sent, taken)) + 1
<1>1. m \notin sent /\ m.guid \notin taken
  BY DEF Channel
<1>2. InFlight(sent \cup {m}, taken) = InFlight(sent, taken) \cup {m} /\ m \notin InFlight(sent, taken)
  BY <1>1 DEF InFlight
<1>3. Channel(sent \cup {m}, taken, nonce + 1)
  <2>1. IsFiniteSet(sent \cup {m})
    BY FS_AddElement DEF Channel
  <2>2. nonce + 1 \in Nat /\ taken \subseteq 1 .. nonce + 1
    BY DEF Channel
  <2>3. \A p \in sent \cup {m} : p.guid \in 1 .. nonce + 1
    BY DEF Channel
  <2>4. \A p, q \in sent \cup {m} : p.guid = q.guid => p = q
    BY DEF Channel
  <2> QED BY <2>1, <2>2, <2>3, <2>4 DEF Channel
<1> QED BY <1>2, <1>3, InFlightFinite, FS_AddElement

\* Taking a packet in flight removes that one only.
LEMMA TakeOne ==
    ASSUME NEW sent, NEW taken, NEW nonce, Channel(sent, taken, nonce),
           NEW p \in sent, p.guid \notin taken
    PROVE  /\ Channel(sent, taken \cup {p.guid}, nonce)
           /\ p \in InFlight(sent, taken)
           /\ InFlight(sent, taken \cup {p.guid}) = InFlight(sent, taken) \ {p}
           /\ Cardinality(InFlight(sent, taken \cup {p.guid})) = Cardinality(InFlight(sent, taken)) - 1
<1>1. InFlight(sent, taken \cup {p.guid}) = InFlight(sent, taken) \ {p} /\ p \in InFlight(sent, taken)
  BY DEF InFlight, Channel
<1>2. Channel(sent, taken \cup {p.guid}, nonce)
  BY DEF Channel
<1> QED BY <1>1, <1>2, InFlightFinite, FS_RemoveElement

-----------------------------------------------------------------------------
(***************************************************************************)
(* The balls each step leaves, in terms of the balls before it.            *)
(***************************************************************************)
LEMMA Counts ==
    ASSUME Shape
    PROVE  /\ Cardinality(ToSolana) \in Nat /\ Cardinality(ToEvm) \in Nat
           /\ gameState.hasBall \in BOOLEAN /\ gameState.gameActive \in BOOLEAN
           /\ game.has_ball \in BOOLEAN
           /\ pauses \in Nat
  BY InFlightFinite DEF Shape, ToSolana, ToEvm, GameType, EVM!GameState

\* BallConservation and QuietBetweenGames without a pause, in terms of places.
LEMMA OnePlace ==
    ASSUME IInv, pauses = 0
    PROVE  /\ ToSolana # {} => ToEvm = {} /\ ~gameState.hasBall /\ ~game.has_ball
           /\ ToEvm # {} => ~gameState.hasBall /\ ~game.has_ball
           /\ ~(gameState.hasBall /\ game.has_ball)
           /\ \A p \in ToSolana : ToSolana = {p}
           /\ \A p \in ToEvm : ToEvm = {p}
           /\ ~gameState.gameActive /\ ~gameState.hasBall =>
                  ToSolana = {} /\ ToEvm = {} /\ ~game.has_ball
           /\ gameState.gameActive => ~gameState.hasBall
<1>1. /\ IsFiniteSet(ToSolana) /\ Cardinality(ToSolana) \in Nat
      /\ IsFiniteSet(ToEvm) /\ Cardinality(ToEvm) \in Nat
  BY InFlightFinite DEF IInv, Shape, ToSolana, ToEvm
<1>2. Balls <= 1 /\ (~gameState.gameActive /\ ~gameState.hasBall => Balls <= 0)
  BY DEF IInv, BallConservation, QuietBetweenGames
<1>3. /\ Cardinality(ToSolana) = 0 <=> ToSolana = {}
      /\ Cardinality(ToEvm) = 0 <=> ToEvm = {}
      /\ Cardinality(ToSolana) = 1 <=> \E x : ToSolana = {x}
      /\ Cardinality(ToEvm) = 1 <=> \E x : ToEvm = {x}
  BY <1>1, FS_EmptySet, FS_Singleton
<1>4. Balls = Cardinality(ToSolana) + Cardinality(ToEvm)
                  + (IF gameState.hasBall THEN 1 ELSE 0) + (IF game.has_ball THEN 1 ELSE 0)
  BY DEF Balls, Bit
<1>5. Cardinality(ToSolana) \in {0, 1} /\ Cardinality(ToEvm) \in {0, 1}
  BY <1>1, <1>2, <1>4
<1>6. \A p \in ToSolana : ToSolana = {p}
  BY <1>3, <1>5
<1>7. \A p \in ToEvm : ToEvm = {p}
  BY <1>3, <1>5
<1>8. gameState.gameActive => ~gameState.hasBall
  BY DEF IInv, BallAway
<1> QED BY <1>1, <1>2, <1>3, <1>4, <1>6, <1>7, <1>8

\* A serve puts one ball in flight, and takes the one in hand if there is one.
LEMMA ServePreserves ==
    ASSUME IInv, UNCHANGED <<svmVars, players>>,
           NEW maxRallies \in 0 .. MAX_RALLIES_CAP + 1, NEW extra \in BOOLEAN, NEW paid \in Fees,
           NEW fee \in Fees, EVM!Serve(maxRallies, extra, paid, fee)
    PROVE  IInv'
<1> DEFINE m == [guid |-> outNonce + 1, srcEid |-> SepoliaEid, sender |-> EvmApp,
                 to |-> peers[SolanaEid], value |-> INITIAL_BALL_VALUE, rally |-> 0]
<1>1. /\ outNonce' = outNonce + 1 /\ outbound' = outbound \cup {m}
      /\ ~gameState.gameActive
      /\ gameState' = [maxRallies |-> maxRallies, hasBall |-> FALSE, gameActive |-> TRUE]
      /\ UNCHANGED <<processedGuid, pauses, game, cleared, svmNonce, svmOutbound>>
  BY DEF EVM!Serve, EVM!StartServe, EVM!LzSend, EVM!Served, svmVars
<1>2. m.guid = outNonce + 1
  OBVIOUS
<1> HIDE DEF m
<1>3. /\ Channel(outbound', cleared', outNonce')
      /\ Cardinality(ToSolana') = Cardinality(ToSolana) + 1
  BY <1>1, <1>2, SendOne DEF IInv, Shape, ToSolana
<1>4. ToEvm' = ToEvm
  BY <1>1 DEF ToEvm
<1>5. gameState' \in EVM!GameState /\ gameState'.gameActive /\ ~gameState'.hasBall
  <2>1. maxRallies \in 0 .. MAX_RALLIES_CAP
    BY DEF EVM!Serve, EVM!StartServe, EVM!ValidMaxRallies
  <2> QED BY <1>1, <2>1 DEF EVM!GameState
<1>6. Shape' /\ BallAway'
  BY <1>1, <1>3, <1>5 DEF IInv, Shape, BallAway
<1>7. BallConservation'
  BY <1>1, <1>3, <1>4, <1>5, Counts DEF IInv, BallConservation, QuietBetweenGames, Balls, Bit
<1> QED BY <1>5, <1>6, <1>7 DEF IInv, QuietBetweenGames

\* A ball the contract takes is answered, or kept by a game that is over.
LEMMA ReceivePreserves ==
    ASSUME IInv, UNCHANGED <<svmVars, players>>, NEW p \in svmOutbound, NEW fee \in Fees,
           EVM!ReceiveBall(p, fee)
    PROVE  IInv'
<1>1. /\ processedGuid' = processedGuid \cup {p.guid} /\ p.guid \notin processedGuid
      /\ ~gameState.hasBall
      /\ UNCHANGED <<pauses, game, cleared, svmNonce, svmOutbound>>
  BY DEF EVM!ReceiveBall, EVM!Duplicate, svmVars
<1>2. PICK limit \in 0 .. MAX_RALLIES_CAP : EVM!TakeBall(p.value, p.rally + 1, limit, fee)
  BY SystemAssumption
     DEF EVM!ReceiveBall, EVM!InitializeGameFromPeer, EVM!ContinueGame, IInv, Shape, EVM!GameState
<1>3. /\ Channel(svmOutbound', processedGuid', svmNonce')
      /\ Cardinality(ToEvm') = Cardinality(ToEvm) - 1
  BY <1>1, TakeOne DEF IInv, Shape, ToEvm
<1>4. CASE EVM!GameOver(p.value, p.rally + 1, limit)
  <2>1. /\ gameState' = [maxRallies |-> limit, hasBall |-> TRUE, gameActive |-> FALSE]
        /\ UNCHANGED <<outNonce, outbound>>
    BY <1>2, <1>4 DEF EVM!TakeBall, EVM!wire
  <2>2. gameState' \in EVM!GameState /\ gameState'.hasBall /\ ~gameState'.gameActive
    BY <2>1 DEF EVM!GameState
  <2>3. ToSolana' = ToSolana
    BY <1>1, <2>1 DEF ToSolana
  <2>4. Shape' /\ BallAway'
    BY <1>1, <1>3, <2>1, <2>2 DEF IInv, Shape, BallAway
  <2>5. BallConservation'
    BY <1>1, <1>3, <2>2, <2>3, Counts DEF IInv, BallConservation, Balls, Bit
  <2> QED BY <2>2, <2>4, <2>5 DEF IInv, QuietBetweenGames
<1>5. CASE ~EVM!GameOver(p.value, p.rally + 1, limit)
  <2> DEFINE m == [guid |-> outNonce + 1, srcEid |-> SepoliaEid, sender |-> EvmApp,
                   to |-> peers[SolanaEid], value |-> EVM!Decrement(p.value),
                   rally |-> p.rally + 1]
  <2>1. /\ gameState' = [maxRallies |-> limit, hasBall |-> FALSE, gameActive |-> TRUE]
        /\ outNonce' = outNonce + 1 /\ outbound' = outbound \cup {m}
    BY <1>2, <1>5 DEF EVM!TakeBall, EVM!SendBack, EVM!LzSend
  <2>2. m.guid = outNonce + 1
    OBVIOUS
  <2> HIDE DEF m
  <2>3. gameState' \in EVM!GameState /\ ~gameState'.hasBall /\ gameState'.gameActive
    BY <2>1 DEF EVM!GameState
  <2>4. /\ Channel(outbound', cleared', outNonce')
        /\ Cardinality(ToSolana') = Cardinality(ToSolana) + 1
    BY <1>1, <2>1, <2>2, SendOne DEF IInv, Shape, ToSolana
  <2>5. Shape' /\ BallAway'
    BY <1>1, <1>3, <2>3, <2>4 DEF IInv, Shape, BallAway
  <2>6. BallConservation'
    BY <1>1, <1>3, <2>3, <2>4, Counts DEF IInv, BallConservation, Balls, Bit
  <2> QED BY <2>3, <2>5, <2>6 DEF IInv, QuietBetweenGames
<1> QED BY <1>4, <1>5

\* A pause is the one step that makes room for a second ball.
LEMMA PausePreserves ==
    ASSUME IInv, UNCHANGED <<svmVars, players>>, EVM!PauseGame
    PROVE  IInv'
<1>1. /\ gameState' = [gameState EXCEPT !.gameActive = FALSE] /\ gameState.gameActive
      /\ pauses' = pauses + 1
      /\ UNCHANGED <<processedGuid, outNonce, outbound, game, cleared, svmNonce, svmOutbound>>
  BY DEF EVM!PauseGame, EVM!wire, svmVars
<1>2. /\ gameState' \in EVM!GameState /\ ~gameState'.gameActive
      /\ ~gameState'.hasBall /\ ~gameState.hasBall
  BY <1>1 DEF IInv, Shape, BallAway, EVM!GameState
<1>3. ToSolana' = ToSolana /\ ToEvm' = ToEvm
  BY <1>1 DEF ToSolana, ToEvm
<1>4. Shape' /\ BallAway'
  BY <1>1, <1>2 DEF IInv, Shape, BallAway
<1>5. Balls' = Balls
  BY <1>1, <1>2, <1>3 DEF Balls, Bit
<1>6. Balls \in Nat
  BY Counts DEF IInv, Balls, Bit
<1>7. BallConservation' /\ QuietBetweenGames'
  BY <1>1, <1>5, <1>6, Counts DEF IInv, BallConservation, QuietBetweenGames
<1> QED BY <1>4, <1>7 DEF IInv

-----------------------------------------------------------------------------
\* Steps of Solana: the contract's side of the invariant stays.
LEMMA SolanaPreserves ==
    ASSUME IInv, UNCHANGED evmVars,
           Channel(outbound, cleared', outNonce), Channel(svmOutbound', processedGuid, svmNonce'),
           game' \in GameType,
           Cardinality(ToSolana') + Cardinality(ToEvm') + Bit(game'.has_ball)
               <= Cardinality(ToSolana) + Cardinality(ToEvm) + Bit(game.has_ball)
    PROVE  IInv'
<1>1. UNCHANGED <<gameState, processedGuid, outNonce, outbound, pauses>>
  BY DEF evmVars
<1>2. Shape' /\ BallAway'
  BY <1>1 DEF IInv, Shape, BallAway
<1>3. Balls' <= Balls /\ Balls \in Int /\ Balls' \in Int
  <2>1. /\ Cardinality(ToSolana') \in Nat /\ Cardinality(ToEvm') \in Nat
        /\ game'.has_ball \in BOOLEAN
    BY <1>2, InFlightFinite DEF Shape, ToSolana, ToEvm, GameType
  <2> QED BY <1>1, <2>1, Counts DEF IInv, Balls, Bit
<1>4. BallConservation' /\ QuietBetweenGames'
  BY <1>1, <1>3, Counts DEF IInv, BallConservation, QuietBetweenGames
<1> QED BY <1>2, <1>4 DEF IInv

\* A ball Solana takes stops being in flight, in hand or not.
LEMMA SolanaReceivePreserves ==
    ASSUME IInv, UNCHANGED <<evmVars, players>>, NEW p \in outbound, NEW accounts,
           SVM!LzReceive(p, accounts)
    PROVE  IInv'
<1>1. /\ cleared' = cleared \cup {p.guid} /\ p.guid \notin cleared
      /\ UNCHANGED <<svmNonce, svmOutbound, processedGuid, outNonce, outbound>>
  BY DEF SVM!LzReceive, SVM!Clear, SVM!wire, evmVars
<1>2. game' \in GameType
  <2>1. SVM!Decode(p) \in Int
    BY SystemAssumption DEF SVM!LzReceive, SVM!ValidValue
  <2>2. game \in GameType
    BY DEF IInv, Shape
  <2>3. game' = SVM!Struck(SVM!Decode(p))
    BY DEF SVM!LzReceive
  <2> DEFINE over == \/ SVM!Decode(p) = 1
                     \/ game.rally_count + 1 >= game.max_rallies
  <2>4. game' = [game EXCEPT !.ball_value = SVM!Decode(p) - 1,
                             !.rally_count = game.rally_count + 1,
                             !.has_ball = ~over, !.game_active = ~over]
    BY <2>3 DEF SVM!Struck
  <2>5. over \in BOOLEAN /\ game.rally_count + 1 \in Int /\ SVM!Decode(p) - 1 \in Int
    BY <2>1, <2>2 DEF GameType
  <2> HIDE DEF over
  <2> QED BY <2>2, <2>4, <2>5 DEF GameType
<1>3. /\ Channel(outbound, cleared', outNonce)
      /\ Cardinality(ToSolana') = Cardinality(ToSolana) - 1
  BY <1>1, TakeOne DEF IInv, Shape, ToSolana
<1>4. ToEvm' = ToEvm /\ Channel(svmOutbound', processedGuid, svmNonce')
  BY <1>1 DEF ToEvm, IInv, Shape
<1>5. Bit(game'.has_ball) <= Bit(game.has_ball) + 1 /\ Bit(game'.has_ball) \in Nat
      /\ Bit(game.has_ball) \in Nat
  BY DEF Bit
<1>6. Cardinality(ToSolana') + Cardinality(ToEvm') + Bit(game'.has_ball)
          <= Cardinality(ToSolana) + Cardinality(ToEvm) + Bit(game.has_ball)
  BY <1>3, <1>4, <1>5, Counts DEF IInv
<1> QED BY <1>2, <1>3, <1>4, <1>6, SolanaPreserves

\* send_ball trades the ball in hand for one in flight, whatever its value.
LEMMA SolanaSendPreserves ==
    ASSUME IInv, UNCHANGED evmVars, NEW value, NEW options, NEW fee, NEW quoted, NEW accounts,
           SVM!SendBall(SepoliaEid, value, options, fee, quoted, accounts)
    PROVE  IInv'
<1> DEFINE m == [guid |-> svmNonce + 1, srcEid |-> SolanaEid, sender |-> GamePDA,
                 to |-> peer[SepoliaEid].peer_address, value |-> SVM!Encode(value),
                 rally |-> game.rally_count]
<1>1. /\ svmNonce' = svmNonce + 1 /\ svmOutbound' = svmOutbound \cup {m}
      /\ game' = [game EXCEPT !.has_ball = FALSE] /\ game.has_ball
      /\ UNCHANGED <<cleared, processedGuid, outNonce, outbound>>
  BY DEF SVM!SendBall, SVM!CpiSend, SVM!Released, evmVars
<1>2. m.guid = svmNonce + 1
  OBVIOUS
<1> HIDE DEF m
<1>3. /\ Channel(svmOutbound', processedGuid, svmNonce')
      /\ Cardinality(ToEvm') = Cardinality(ToEvm) + 1
  BY <1>1, <1>2, SendOne DEF IInv, Shape, ToEvm
<1>4. ToSolana' = ToSolana /\ Channel(outbound, cleared', outNonce)
  BY <1>1 DEF ToSolana, IInv, Shape
<1>5. game' \in GameType /\ Bit(game'.has_ball) = 0 /\ Bit(game.has_ball) = 1
  BY <1>1 DEF IInv, Shape, GameType, Bit
<1>6. Cardinality(ToSolana') + Cardinality(ToEvm') + Bit(game'.has_ball)
          <= Cardinality(ToSolana) + Cardinality(ToEvm) + Bit(game.has_ball)
  BY <1>3, <1>4, <1>5, Counts DEF IInv
<1> QED BY <1>3, <1>4, <1>5, <1>6, SolanaPreserves

\* Administration of accounts can only lose the ball.
LEMMA SolanaAccountsPreserve ==
    ASSUME IInv, UNCHANGED evmVars, UNCHANGED <<cleared, svmNonce, svmOutbound>>,
           game' = game \/ game' = SVM!NewGame
    PROVE  IInv'
<1>1. ToSolana' = ToSolana /\ ToEvm' = ToEvm
  BY DEF ToSolana, ToEvm, evmVars
<1>2. game' \in GameType /\ (game'.has_ball => game.has_ball)
  <2>1. CASE game' = game
    BY <2>1 DEF IInv, Shape
  <2>2. CASE game' = SVM!NewGame
    <3>1. MAX_RALLIES_CAP \in Int
      BY SystemAssumption
    <3> QED BY <2>2, <3>1 DEF GameType, SVM!NewGame
  <2> QED BY <2>1, <2>2
<1>3. /\ Channel(outbound, cleared', outNonce)
      /\ Channel(svmOutbound', processedGuid, svmNonce')
  BY DEF IInv, Shape
<1>4. Cardinality(ToSolana') + Cardinality(ToEvm') + Bit(game'.has_ball)
          <= Cardinality(ToSolana) + Cardinality(ToEvm) + Bit(game.has_ball)
  BY <1>1, <1>2, Counts DEF IInv, Bit
<1> QED BY <1>2, <1>3, <1>4, SolanaPreserves

\* Money, peers, options and the players' own state hold no ball.
LEMMA QuietPreserves ==
    ASSUME IInv, UNCHANGED <<gameState, processedGuid, outNonce, outbound, pauses>>,
           UNCHANGED <<game, cleared, svmNonce, svmOutbound>>
    PROVE  IInv'
<1>1. Shape' /\ BallAway'
  BY DEF IInv, Shape, BallAway
<1>2. Balls' = Balls
  BY DEF Balls, ToSolana, ToEvm, Bit
<1>3. BallConservation' /\ QuietBetweenGames'
  BY <1>2 DEF IInv, BallConservation, QuietBetweenGames
<1> QED BY <1>1, <1>3 DEF IInv

-----------------------------------------------------------------------------
LEMMA UnplayedIInv == EVM!Unplayed /\ SVM!Unplayed => IInv
<1> SUFFICES ASSUME EVM!Unplayed, SVM!Unplayed PROVE IInv
  OBVIOUS
<1>1. /\ outbound = {} /\ outNonce = 0 /\ processedGuid = {} /\ pauses = 0
      /\ svmOutbound = {} /\ svmNonce = 0 /\ cleared = {}
      /\ gameState = [maxRallies |-> 0, hasBall |-> FALSE, gameActive |-> FALSE]
      /\ game = SVM!NewGame
  BY DEF EVM!Unplayed, SVM!Unplayed
<1>2. gameState \in EVM!GameState /\ ~gameState.hasBall /\ ~gameState.gameActive
  BY <1>1, SystemAssumption DEF EVM!GameState
<1>3. game \in GameType /\ ~game.has_ball
  BY <1>1, SystemAssumption DEF GameType, SVM!NewGame
<1>4. Channel({}, {}, 0)
  BY FS_EmptySet DEF Channel
<1>5. Shape /\ BallAway
  BY <1>1, <1>2, <1>3, <1>4 DEF Shape, BallAway
<1>6. ToSolana = {} /\ ToEvm = {}
  BY <1>1 DEF ToSolana, ToEvm, InFlight
<1>7. Balls = 0
  BY <1>2, <1>3, <1>6, FS_EmptySet DEF Balls, Bit
<1> QED BY <1>1, <1>5, <1>7 DEF IInv, BallConservation, QuietBetweenGames

LEMMA EvmStep == IInv /\ (EVM!Owner \/ EVM!Anybody) /\ UNCHANGED <<svmVars, players>> => IInv'
<1> SUFFICES ASSUME IInv, EVM!Owner \/ EVM!Anybody, UNCHANGED <<svmVars, players>> PROVE IInv'
  OBVIOUS
<1>1. ASSUME UNCHANGED <<gameState, processedGuid, outNonce, outbound, pauses>> PROVE IInv'
  BY <1>1, QuietPreserves DEF svmVars
<1>2. CASE EVM!Owner
  BY <1>1, <1>2, PausePreserves
     DEF EVM!Owner, EVM!Withdraw, EVM!SetPeer, EVM!SetEnforcedOptions, EVM!play, EVM!wire
<1>3. CASE EVM!Anybody
  BY <1>1, <1>3, ServePreserves DEF EVM!Anybody, EVM!Fund, EVM!play, EVM!wire
<1> QED BY <1>2, <1>3

LEMMA SvmStep == IInv /\ (SVM!Admin \/ SVM!Anybody) /\ UNCHANGED <<evmVars, players>> => IInv'
<1> SUFFICES ASSUME IInv, SVM!Admin \/ SVM!Anybody, UNCHANGED <<evmVars, players>> PROVE IInv'
  OBVIOUS
<1>0. UNCHANGED evmVars
  OBVIOUS
<1>1. ASSUME UNCHANGED <<cleared, svmNonce, svmOutbound>>, game' = game \/ game' = SVM!NewGame
      PROVE  IInv'
  BY <1>0, <1>1, SolanaAccountsPreserve
<1>2. CASE SVM!Admin
  BY <1>1, <1>2
     DEF SVM!Admin, SVM!CloseGame, SVM!PauseGame, SVM!ResumeGame, SVM!Persisted,
         SVM!SetPeerAddress, SVM!SetPeerOptions, SVM!wire
<1>3. CASE SVM!Anybody
  BY <1>0, <1>1, <1>3, SolanaSendPreserves
     DEF SVM!Anybody, SVM!InitGame, SVM!RegisterOApp, SVM!FundContract, SVM!wire
<1> QED BY <1>2, <1>3

LEMMA PlayerStep == ASSUME IInv, NEW r \in Players, Player(r) PROVE IInv'
<1>1. ASSUME UNCHANGED <<evmVars, svmVars>> PROVE IInv'
  BY <1>1, QuietPreserves DEF evmVars, svmVars
<1>2. CASE SubmitBall(r)
  BY <1>2, SolanaSendPreserves DEF SubmitBall
<1> QED BY <1>1, <1>2 DEF Player, FetchState, Quote, GiveUp

LEMMA NextIInv == IInv /\ [Next]_vars => IInv'
<1> SUFFICES ASSUME IInv, [Next]_vars PROVE IInv'
  OBVIOUS
<1>1. ASSUME NEW p \in outbound, DeliverToSolana(p) PROVE IInv'
  BY <1>1, SolanaReceivePreserves DEF DeliverToSolana
<1>2. ASSUME NEW p \in svmOutbound, DeliverToEvm(p) PROVE IInv'
  <2>1. CASE EVM!IgnoreDuplicate(p)
    BY <1>2, <2>1, QuietPreserves
       DEF DeliverToEvm, EVM!IgnoreDuplicate, EVM!vars, EVM!play, EVM!wire, svmVars
  <2>2. ASSUME NEW fee \in Fees, EVM!ReceiveBall(p, fee) PROVE IInv'
    BY <1>2, <2>2, ReceivePreserves DEF DeliverToEvm
  <2> QED BY <1>2, <2>1, <2>2 DEF DeliverToEvm, EVM!LzReceive
<1>3. CASE UNCHANGED vars
  BY <1>3, QuietPreserves DEF vars, evmVars, svmVars
<1> QED
  BY <1>1, <1>2, <1>3, EvmStep, SvmStep, PlayerStep DEF Next, Play, Owners

\* The inductive invariant holds of the deployed system.
THEOREM Invariance == Spec => []IInv
<1>1. Init => IInv
  BY UnplayedIInv DEF Init, EVM!Init, SVM!Init
<1> QED BY <1>1, NextIInv, PTL DEF Spec

\* One ball, and one more for each pause, in any configuration of the two chains.
THEOREM OneBall == Spec => []BallConservation
<1>1. IInv => BallConservation BY DEF IInv
<1> QED BY <1>1, Invariance, PTL

\* No ball is about between games that were not paused.
THEOREM NothingInFlightBetweenGames == Spec => []QuietBetweenGames
<1>1. IInv => QuietBetweenGames BY DEF IInv
<1> QED BY <1>1, Invariance, PTL

\* The same from a configured start, from which the liveness runs begin.
THEOREM OneBallFromReady == ReadySpec => []BallConservation
<1>1. ReadyInit => IInv
  BY UnplayedIInv DEF ReadyInit
<1>2. IInv => BallConservation BY DEF IInv
<1> QED BY <1>1, <1>2, NextIInv, PTL DEF ReadySpec

\* What is delivered while Solana holds the ball would be a second ball.
THEOREM NoBallOverwritten == Spec => HeldBallNotOverwritten
<1> DEFINE Step == pauses = 0 /\ game.has_ball => cleared' = cleared
<1>1. ASSUME IInv, [Next]_vars, pauses = 0, game.has_ball PROVE cleared' = cleared
  <2>1. \A p \in outbound : p.guid \in cleared
    BY <1>1, OnePlace DEF ToSolana, InFlight
  <2>2. ASSUME NEW p \in outbound, DeliverToSolana(p) PROVE FALSE
    BY <2>1, <2>2 DEF DeliverToSolana, SVM!LzReceive, SVM!Clear
  <2>3. CASE UNCHANGED svmVars
    BY <2>3 DEF svmVars
  <2>4. CASE SVM!Admin \/ SVM!Anybody
    BY <2>4 DEF SVM!Admin, SVM!Anybody, SVM!CloseGame, SVM!PauseGame, SVM!ResumeGame,
                SVM!SetPeerAddress, SVM!SetPeerOptions, SVM!InitGame, SVM!RegisterOApp,
                SVM!FundContract, SVM!SendBall
  <2>5. ASSUME NEW r \in Players, Player(r) PROVE cleared' = cleared
    BY <2>3, <2>5 DEF Player, FetchState, Quote, SubmitBall, GiveUp, SVM!SendBall
  <2>6. CASE UNCHANGED vars
    BY <2>3, <2>6 DEF vars
  <2>7. ASSUME NEW p \in svmOutbound, DeliverToEvm(p) PROVE cleared' = cleared
    BY <2>3, <2>7 DEF DeliverToEvm
  <2> QED BY <1>1, <2>2, <2>3, <2>4, <2>5, <2>6, <2>7 DEF Next, Play, Owners
<1>2. IInv /\ [Next]_vars => [Step]_vars
  BY <1>1
<1> HIDE DEF Step
<1>3. [][Step]_vars => HeldBallNotOverwritten
  BY DEF Step, HeldBallNotOverwritten
<1> QED BY <1>2, <1>3, Invariance, PTL DEF Spec

-----------------------------------------------------------------------------
(***************************************************************************)
(* Why send-ball-to-evm.ts returns no ball: the endpoint's program is not  *)
(* the account of its settings, and nothing follows it.                    *)
(***************************************************************************)
LEMMA ScriptListTooShort == ~SVM!SendAccountsFit(SVM!ScriptAccounts)
<1>1. Len(SVM!SendBallAccounts) = 6
  BY DEF SVM!SendBallAccounts, SVM!Declared, SVM!AccountsForSend
<1>2. Len(SVM!ScriptAccounts) = 3
  BY DEF SVM!ScriptAccounts
<1> QED BY <1>1, <1>2 DEF SVM!SendAccountsFit, SVM!IsPrefix

\* All who call send_ball are runs of the script.
OnlyTheScript == Players \subseteq ScriptRuns /\ SendValues = {}

NothingReturned == svmOutbound = {}

\* However many runs of the script there are, and whatever the owners configure, no ball
\* leaves Solana: every simulation of quoteSend fails before sendBall is called.
THEOREM ScriptNeverReturnsBall ==
    ASSUME OnlyTheScript
    PROVE  Spec \/ ReadySpec => []NothingReturned
<1>1. Init \/ ReadyInit => NothingReturned
  BY DEF Init, ReadyInit, SVM!Init, SVM!Unplayed, NothingReturned
<1>2. ASSUME NothingReturned, [Next]_vars PROVE NothingReturned'
  <2>1. CASE UNCHANGED svmOutbound
    BY <1>2, <2>1 DEF NothingReturned
  <2>2. CASE SVM!Admin \/ SVM!Anybody
    BY <2>1, <2>2, OnlyTheScript
       DEF OnlyTheScript, SVM!Admin, SVM!Anybody, SVM!CloseGame, SVM!PauseGame, SVM!ResumeGame,
           SVM!SetPeerAddress, SVM!SetPeerOptions, SVM!InitGame, SVM!RegisterOApp,
           SVM!FundContract, SVM!wire
  <2>3. ASSUME NEW p \in outbound, DeliverToSolana(p) PROVE NothingReturned'
    BY <2>1, <2>3 DEF DeliverToSolana, SVM!LzReceive, SVM!wire
  <2>4. ASSUME NEW r \in Players, Player(r) PROVE NothingReturned'
    <3>1. Presents(r) = SVM!ScriptAccounts
      BY OnlyTheScript DEF OnlyTheScript, Presents
    <3>2. ~SubmitBall(r)
      BY <3>1, ScriptListTooShort DEF SubmitBall, SVM!SendBall, SVM!CanSend
    <3> QED BY <2>1, <2>4, <3>2 DEF Player, FetchState, Quote, GiveUp, svmVars
  <2>5. ASSUME NEW p \in svmOutbound, DeliverToEvm(p) PROVE NothingReturned'
    BY <1>2, <2>5 DEF NothingReturned
  <2>6. CASE UNCHANGED vars \/ UNCHANGED svmVars
    BY <2>1, <2>6 DEF vars, svmVars
  <2> QED BY <1>2, <2>2, <2>3, <2>4, <2>5, <2>6 DEF Next, Play, Owners
<1> QED BY <1>1, <1>2, PTL DEF Spec, ReadySpec
=============================================================================
