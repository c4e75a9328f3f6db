------------------------- MODULE CrossChainRally_proofs -------------------------
(***************************************************************************)
(* The system implements Rally with returns of any value, for any callers  *)
(* of send_ball, values, limits, fees, configuration and number of games;  *)
(* and Rally itself while one client at a time calls send_ball, with the   *)
(* value it has read: the case the game is made for.                       *)
(***************************************************************************)
EXTENDS CrossChainRally, CrossChainPingPong_proofs

\* One client.  Of two, one may return a value that it read before the other played.
OneAtATime == SendValues = {} /\ \A r, s \in Players : r = s

\* The values of both chains, with what makes them inductive: the contract tells a game
\* that was never served from one whose ball is away; and with one client at a time, a
\* run that has read the state has read the value of the ball, unless it is lost.
InStep ==
    pauses = 0 =>
        /\ \A p \in ToSolana : p.value = ballValue
        /\ game.has_ball => game.ball_value = ballValue - 1
        /\ serves = 0 <=> ~gameState.gameActive /\ ~gameState.hasBall
        /\ OneAtATime =>
               /\ \A p \in ToEvm : p.value = ballValue - 1
               /\ \A r \in Players : pc[r] # "idle" =>
                      /\ gameState.gameActive
                      /\ ToSolana = {} /\ ToEvm = {}
                      /\ game.has_ball => seen[r] = game.ball_value

RInv == TInv /\ IInv /\ InStep

-----------------------------------------------------------------------------
At(place, v) == BallAt = place /\ BallValue = v

\* Where the refinement mapping sees the ball.
Places ==
    /\ pauses # 0 => At("paused", 0)
    /\ pauses = 0 /\ serves = 0 => At("unserved", 0)
    /\ pauses = 0 /\ serves # 0 =>
           /\ gameState.hasBall => At("evm", ballValue)
           /\ game.has_ball => At("solana", game.ball_value)
           /\ ToSolana # {} => At("toSolana", ballValue)
           /\ \A p \in ToEvm : At("toEvm", p.value)
           /\ ~gameState.hasBall /\ ~game.has_ball /\ ToSolana = {} /\ ToEvm = {} =>
                  At("lost", 0)

LEMMA WhereTheBallIs == RInv => Places
<1> SUFFICES ASSUME RInv PROVE Places
  OBVIOUS
<1>0. serves \in Nat /\ pauses \in Nat
  BY DEF RInv, TInv, TypeOK, EVM!TypeOK
<1>1. CASE pauses # 0
  <2>1. BallAt = "paused"
    BY <1>0, <1>1 DEF BallAt
  <2>2. BallValue = 0
    BY <2>1 DEF BallValue
  <2> QED BY <1>1, <2>1, <2>2 DEF Places, At
<1>2. CASE pauses = 0 /\ serves = 0
  <2>1. BallAt = "unserved"
    BY <1>2 DEF BallAt
  <2>2. BallValue = 0
    BY <2>1 DEF BallValue
  <2> QED BY <1>2, <2>1, <2>2 DEF Places, At
<1>3. CASE pauses = 0 /\ serves # 0
  <2>0. /\ ~(pauses > 0)
        /\ ToSolana # {} => ToEvm = {} /\ ~gameState.hasBall /\ ~game.has_ball
        /\ ToEvm # {} => ~gameState.hasBall /\ ~game.has_ball
        /\ ~(gameState.hasBall /\ game.has_ball)
        /\ \A p \in ToSolana : p.value = ballValue
        /\ \A p \in ToEvm : ToEvm = {p}
    BY <1>3, OnePlace DEF RInv, InStep
  <2>1. gameState.hasBall => At("evm", ballValue)
    BY <1>3, <2>0 DEF At, BallAt, BallValue
  <2>2. game.has_ball => At("solana", game.ball_value)
    BY <1>3, <2>0 DEF At, BallAt, BallValue
  <2>3. ASSUME ToSolana # {} PROVE At("toSolana", ballValue)
    <3>1. BallAt = "toSolana"
      BY <1>3, <2>0, <2>3 DEF BallAt
    <3>2. (CHOOSE p \in ToSolana : TRUE) \in ToSolana
      BY <2>3
    <3> QED BY <2>0, <3>1, <3>2 DEF At, BallValue
  <2>4. ASSUME NEW q \in ToEvm PROVE At("toEvm", q.value)
    <3>1. BallAt = "toEvm"
      BY <1>3, <2>0 DEF BallAt
    <3>2. (CHOOSE p \in ToEvm : TRUE) = q
      <4>1. (CHOOSE p \in ToEvm : TRUE) \in ToEvm
        BY <2>4
      <4>2. ToEvm = {q}
        BY <2>0, <2>4
      <4> QED BY <4>1, <4>2
    <3> QED BY <3>1, <3>2 DEF At, BallValue
  <2>5. ~gameState.hasBall /\ ~game.has_ball /\ ToSolana = {} /\ ToEvm = {} => At("lost", 0)
    BY <1>3, <2>0 DEF At, BallAt, BallValue
  <2> QED BY <1>3, <2>1, <2>2, <2>3, <2>4, <2>5 DEF Places
<1> QED BY <1>1, <1>2, <1>3

LEMMA WhereTheBallIsNext == RInv' => Places'
  BY WhereTheBallIs, PTL

\* What the refinement mapping depends on.
ball == <<ballValue, gameState, processedGuid, outbound, serves, pauses, game, cleared,
          svmOutbound>>

-----------------------------------------------------------------------------
(***************************************************************************)
(* Steps that leave the ball alone.                                        *)
(***************************************************************************)
LEMMA Quiet ==
    ASSUME RInv, UNCHANGED ball, UNCHANGED players
    PROVE  InStep' /\ UNCHANGED R!vars
<1>1. ToSolana' = ToSolana /\ ToEvm' = ToEvm
  BY DEF ball, ToSolana, ToEvm
<1>2. UNCHANGED <<ballValue, gameState, serves, pauses, game, pc, seen>>
  BY DEF ball, players
<1>3. InStep'
  BY <1>1, <1>2 DEF RInv, InStep
<1>4. BallAt' = BallAt
  BY <1>1, <1>2 DEF BallAt
<1>5. BallValue' = BallValue
  BY <1>1, <1>2, <1>4 DEF BallValue
<1> QED BY <1>3, <1>4, <1>5 DEF R!vars

\* After a pause nothing is promised.
LEMMA Paused ==
    ASSUME RInv, TInv', IInv', pauses # 0, pauses' # 0
    PROVE  InStep' /\ UNCHANGED R!vars
<1>1. InStep'
  BY DEF InStep
<1>2. Places /\ Places'
  BY <1>1, WhereTheBallIs, WhereTheBallIsNext DEF RInv
<1> QED BY <1>1, <1>2 DEF Places, At, R!vars

LEMMA PauseStep ==
    ASSUME RInv, TInv', IInv', pauses = 0, EVM!PauseGame
    PROVE  InStep' /\ R!Pause
<1>1. pauses' = 1 /\ gameState.gameActive
  BY DEF EVM!PauseGame
<1>2. InStep'
  BY <1>1 DEF InStep
<1>3. Places /\ Places'
  BY <1>2, WhereTheBallIs, WhereTheBallIsNext DEF RInv
<1>4. BallAt' = "paused" /\ BallValue' = 0
  BY <1>1, <1>3 DEF Places, At
<1>5. serves # 0 /\ ~gameState.hasBall
  BY <1>1, OnePlace DEF RInv, InStep
<1>6. BallAt \notin {"unserved", "evm", "paused"}
  BY <1>5 DEF BallAt
<1> QED BY <1>2, <1>4, <1>6 DEF R!Pause

-----------------------------------------------------------------------------
(***************************************************************************)
(* The contract.                                                           *)
(***************************************************************************)
LEMMA ServeStep ==
    ASSUME RInv, TInv', IInv', pauses = 0, UNCHANGED <<svmVars, players>>,
           NEW maxRallies, NEW extra, NEW paid, NEW fee,
           EVM!Serve(maxRallies, extra, paid, fee)
    PROVE  InStep' /\ R!Serve
<1> DEFINE m == [guid |-> outNonce + 1, srcEid |-> SepoliaEid, sender |-> EvmApp,
                 to |-> peers[SolanaEid], value |-> INITIAL_BALL_VALUE, rally |-> 0]
<1>1. /\ outbound' = outbound \cup {m} /\ ~gameState.gameActive
      /\ gameState' = [maxRallies |-> maxRallies, hasBall |-> FALSE, gameActive |-> TRUE]
      /\ ballValue' = INITIAL_BALL_VALUE /\ serves' = serves + 1
      /\ UNCHANGED <<processedGuid, pauses, game, cleared, svmOutbound, pc, seen>>
  BY DEF EVM!Serve, EVM!StartServe, EVM!LzSend, EVM!Served, svmVars, players
<1>2. m.guid = outNonce + 1 /\ m.value = INITIAL_BALL_VALUE
  OBVIOUS
<1> HIDE DEF m
<1>3. ToSolana' = ToSolana \cup {m} /\ ToEvm' = ToEvm
  BY <1>1, <1>2, SendOne DEF RInv, IInv, Shape, ToSolana, ToEvm
<1>4. ToSolana = {} /\ ToEvm = {} /\ ~game.has_ball
  <2>1. CASE gameState.hasBall
    <3>1. ToSolana = {} /\ ToEvm = {} /\ ~game.has_ball
      BY <2>1, OnePlace DEF RInv
    <3> QED BY <3>1
  <2>2. CASE ~gameState.hasBall
    BY <1>1, <2>2, OnePlace DEF RInv
  <2> QED BY <2>1, <2>2
<1>5. OneAtATime => \A r \in Players : pc[r] = "idle"
  BY <1>1 DEF RInv, InStep
<1>6. serves \in Nat /\ serves' # 0
  BY <1>1 DEF RInv, TInv, TypeOK, EVM!TypeOK
<1>7. InStep'
  BY <1>1, <1>2, <1>3, <1>4, <1>5, <1>6 DEF InStep
<1>8. Places /\ Places'
  BY <1>7, WhereTheBallIs, WhereTheBallIsNext DEF RInv
<1>9. BallAt' = "toSolana" /\ BallValue' = INITIAL_BALL_VALUE
  BY <1>1, <1>3, <1>6, <1>8 DEF Places, At
<1>10. BallAt \in {"unserved", "evm"}
  BY <1>1, <1>8 DEF Places, At, RInv, InStep
<1> QED BY <1>7, <1>9, <1>10 DEF R!Serve, R!Move

LEMMA EvmReceiveStep ==
    ASSUME RInv, TInv', IInv', pauses = 0, UNCHANGED <<svmVars, players>>,
           NEW p \in svmOutbound, NEW fee, EVM!ReceiveBall(p, fee)
    PROVE  InStep' /\ (R!HitOnEvm \/ R!GameOver)
<1>1. /\ processedGuid' = processedGuid \cup {p.guid} /\ p.guid \notin processedGuid
      /\ ~gameState.hasBall
      /\ UNCHANGED <<serves, pauses, game, cleared, svmOutbound, pc, seen>>
  BY DEF EVM!ReceiveBall, EVM!Duplicate, svmVars, players
<1>2. PICK limit : EVM!TakeBall(p.value, p.rally + 1, limit, fee)
  BY DEF EVM!ReceiveBall, EVM!InitializeGameFromPeer, EVM!ContinueGame
<1>3. p \in ToEvm /\ ToEvm' = ToEvm \ {p}
  BY <1>1, TakeOne DEF RInv, IInv, Shape, ToEvm
<1>4. /\ ToEvm' = {} /\ ToSolana = {} /\ ~game.has_ball
      /\ gameState.gameActive /\ serves # 0
      /\ OneAtATime => \A r \in Players : pc[r] = "idle"
  <2>1. ToEvm = {p} /\ ToSolana = {} /\ ~game.has_ball
    BY <1>3, OnePlace DEF RInv
  <2>2. gameState.gameActive
    BY <1>1, <1>3, OnePlace DEF RInv
  <2> QED BY <1>3, <2>1, <2>2 DEF RInv, InStep
<1>5. Places /\ BallAt = "toEvm" /\ BallValue = p.value
  BY <1>3, <1>4, WhereTheBallIs DEF Places, At
<1>6. CASE EVM!GameOver(p.value, p.rally + 1, limit)
  <2>1. /\ ballValue' = p.value
        /\ gameState' = [maxRallies |-> limit, hasBall |-> TRUE, gameActive |-> FALSE]
        /\ outbound' = outbound
    BY <1>2, <1>6 DEF EVM!TakeBall, EVM!wire
  <2>2. ToSolana' = {}
    BY <1>1, <1>4, <2>1 DEF ToSolana
  <2>3. InStep'
    BY <1>1, <1>4, <2>1, <2>2 DEF InStep
  <2>4. BallAt' = "evm" /\ BallValue' = p.value
    BY <1>1, <1>4, <2>1, <2>3, WhereTheBallIsNext DEF RInv, Places, At
  <2> QED BY <1>5, <2>3, <2>4 DEF R!GameOver, R!Move
<1>7. CASE ~EVM!GameOver(p.value, p.rally + 1, limit)
  <2> DEFINE m == [guid |-> outNonce + 1, srcEid |-> SepoliaEid, sender |-> EvmApp,
                   to |-> peers[SolanaEid], value |-> EVM!Decrement(p.value),
                   rally |-> p.rally + 1]
  <2>1. /\ ballValue' = EVM!Decrement(p.value)
        /\ gameState' = [maxRallies |-> limit, hasBall |-> FALSE, gameActive |-> TRUE]
        /\ outbound' = outbound \cup {m}
    BY <1>2, <1>7 DEF EVM!TakeBall, EVM!SendBack, EVM!LzSend
  <2>2. EVM!Decrement(p.value) = p.value - 1
    BY <1>7 DEF EVM!GameOver, EVM!Decrement
  <2>3. m.guid = outNonce + 1 /\ m.value = p.value - 1
    BY <2>2
  <2> HIDE DEF m
  <2>4. ToSolana' = {m}
    <3>1. InFlight(outbound \cup {m}, cleared) = InFlight(outbound, cleared) \cup {m}
      BY <2>3, SendOne DEF RInv, IInv, Shape
    <3> QED BY <1>1, <1>4, <2>1, <3>1 DEF ToSolana
  <2>5. InStep'
    BY <1>1, <1>4, <2>1, <2>2, <2>3, <2>4 DEF InStep
  <2>6. BallAt' = "toSolana" /\ BallValue' = p.value - 1
    BY <1>1, <1>4, <2>1, <2>2, <2>4, <2>5, WhereTheBallIsNext DEF RInv, Places, At
  <2> QED BY <1>5, <2>5, <2>6 DEF R!HitOnEvm, R!Move
<1> QED BY <1>6, <1>7

-----------------------------------------------------------------------------
(***************************************************************************)
(* The program and the players.                                            *)
(***************************************************************************)
LEMMA SvmReceiveStep ==
    ASSUME RInv, TInv', IInv', pauses = 0, UNCHANGED <<evmVars, players>>,
           NEW p \in outbound, NEW accounts, SVM!LzReceive(p, accounts)
    PROVE  InStep' /\ R!HitOnSolana
<1>1. /\ cleared' = cleared \cup {p.guid} /\ p.guid \notin cleared
      /\ game' = SVM!Struck(SVM!Decode(p)) /\ SVM!Decode(p) \in 1 .. INITIAL_BALL_VALUE
      /\ UNCHANGED <<ballValue, gameState, processedGuid, outbound, serves, pauses,
                     svmOutbound, pc, seen>>
  BY DEF SVM!LzReceive, SVM!Clear, SVM!ValidValue, SVM!wire, evmVars, players
<1>2. p.value \in 0 .. U128 - 1
  BY DEF RInv, TInv, ValuesFit
<1>3. SVM!Decode(p) = p.value
  BY <1>2, DecodeIsIdentity
<1>4. p.value > 0
  BY <1>1, <1>3, SystemAssumption
<1>5. p \in ToSolana /\ ToSolana' = ToSolana \ {p}
  BY <1>1, TakeOne DEF RInv, IInv, Shape, ToSolana
<1>6. /\ ToSolana' = {} /\ ToEvm' = {} /\ ~gameState.hasBall /\ serves # 0
      /\ OneAtATime => \A r \in Players : pc[r] = "idle"
      /\ p.value = ballValue
  <2>1. ToSolana = {p} /\ ToEvm = {} /\ ~gameState.hasBall
    BY <1>5, OnePlace DEF RInv
  <2>2. gameState.gameActive
    BY <1>5, <2>1, OnePlace DEF RInv
  <2>3. ToEvm' = ToEvm
    BY <1>1 DEF ToEvm
  <2> QED BY <1>5, <2>1, <2>2, <2>3 DEF RInv, InStep
<1>7. game'.ball_value = p.value - 1
  <2> DEFINE over == \/ SVM!Decode(p) = 1
                     \/ game.rally_count + 1 >= game.max_rallies
  <2>1. game' = [game EXCEPT !.ball_value = SVM!Decode(p) - 1,
                             !.rally_count = game.rally_count + 1,
                             !.has_ball = ~over, !.game_active = ~over]
    BY <1>1 DEF SVM!Struck
  <2> HIDE DEF over
  <2> QED BY <1>3, <2>1 DEF RInv, IInv, Shape, GameType
<1>8. InStep'
  BY <1>1, <1>6, <1>7 DEF RInv, InStep
<1>9. BallAt = "toSolana" /\ BallValue = p.value
  BY <1>5, <1>6, WhereTheBallIs DEF Places, At
<1>10. \/ BallAt' = "solana" /\ BallValue' = p.value - 1
       \/ BallAt' = "lost" /\ BallValue' = 0
  BY <1>1, <1>6, <1>7, <1>8, WhereTheBallIsNext DEF RInv, Places, At
<1> QED BY <1>4, <1>8, <1>9, <1>10 DEF R!HitOnSolana, R!Move

\* send_ball with any value sends the one ball back with it; from a client that no
\* other interferes with, the value is the ball's.
LEMMA SendStep ==
    ASSUME RInv, TInv', IInv', pauses = 0, UNCHANGED evmVars, NEW v \in 0 .. U128 - 1,
           NEW options, NEW fee, NEW quoted, NEW accounts,
           SVM!SendBall(SepoliaEid, v, options, fee, quoted, accounts),
           OneAtATime => v = game.ball_value /\ \A q \in Players : pc'[q] = "idle"
    PROVE  InStep' /\ R!ReturnAnyValue /\ (OneAtATime => R!Return)
<1> DEFINE m == [guid |-> svmNonce + 1, srcEid |-> SolanaEid, sender |-> GamePDA,
                 to |-> peer[SepoliaEid].peer_address, value |-> SVM!Encode(v),
                 rally |-> game.rally_count]
<1>1. /\ svmOutbound' = svmOutbound \cup {m} /\ v > 0
      /\ game' = [game EXCEPT !.has_ball = FALSE] /\ game.has_ball
      /\ UNCHANGED <<ballValue, gameState, processedGuid, outbound, serves, pauses, cleared>>
  BY DEF SVM!SendBall, SVM!CpiSend, SVM!Released, evmVars
<1>2. SVM!Encode(v) = v
  BY SystemAssumption DEF SVM!Encode, SVM!Word
<1>3. m.guid = svmNonce + 1 /\ m.value = v
  BY <1>2
<1> HIDE DEF m
<1>4. game.ball_value = ballValue - 1
  BY <1>1 DEF RInv, InStep
<1>5. ToSolana = {} /\ ToEvm = {} /\ ~gameState.hasBall /\ gameState.gameActive
  BY <1>1, OnePlace DEF RInv
<1>6. ToSolana' = {} /\ ToEvm' = {m}
  <2>1. InFlight(svmOutbound \cup {m}, processedGuid)
            = InFlight(svmOutbound, processedGuid) \cup {m}
    BY <1>3, SendOne DEF RInv, IInv, Shape
  <2> QED BY <1>1, <1>5, <2>1 DEF ToSolana, ToEvm
<1>7. ~game'.has_ball /\ serves # 0
  BY <1>1, <1>5 DEF RInv, IInv, Shape, GameType, InStep
<1>8. InStep'
  BY <1>1, <1>3, <1>4, <1>5, <1>6, <1>7 DEF RInv, InStep
<1>9. BallAt = "solana" /\ BallValue = game.ball_value
  BY <1>1, <1>7, WhereTheBallIs DEF Places, At
<1>10. BallAt' = "toEvm" /\ BallValue' = v
  <2>1. serves' # 0 /\ pauses' = 0 /\ Places'
    BY <1>1, <1>7, <1>8, WhereTheBallIsNext DEF RInv
  <2> QED BY <1>3, <1>6, <2>1 DEF Places, At
<1> QED BY <1>1, <1>8, <1>9, <1>10 DEF R!Return, R!ReturnAnyValue, R!Move

\* A run of a client submits the value it has read, and no other run interferes.
LEMMA SubmitStep ==
    ASSUME RInv, TInv', IInv', pauses = 0, NEW r \in Players, SubmitBall(r)
    PROVE  InStep' /\ R!ReturnAnyValue /\ (OneAtATime => R!Return)
<1>1. PICK quoted \in Fees :
          SVM!SendBall(SepoliaEid, seen[r], FALSE, EstimatedFee, quoted, Presents(r))
  BY DEF SubmitBall
<1>2. /\ pc[r] = "quoted" /\ pc' = [pc EXCEPT ![r] = "idle"] /\ UNCHANGED evmVars
      /\ pc \in [Players -> {"idle", "fetched", "quoted"}]
      /\ seen[r] \in 0 .. U128 - 1
  BY DEF SubmitBall, Goto, RInv, TInv, TypeOK
<1>3. game.has_ball
  BY <1>1 DEF SVM!SendBall
<1>4. ASSUME OneAtATime
      PROVE  seen[r] = game.ball_value /\ \A q \in Players : pc'[q] = "idle"
  <2>1. seen[r] = game.ball_value
    BY <1>2, <1>3, <1>4 DEF RInv, InStep
  <2>2. \A q \in Players : q = r
    BY <1>4 DEF OneAtATime
  <2> QED BY <1>2, <2>1, <2>2
<1> QED BY <1>1, <1>2, <1>4, SendStep

\* The client's other steps: a run that fetches the state sees the ball where it is.
LEMMA PlayerQuiet ==
    ASSUME RInv, pauses = 0, NEW r \in Players,
           FetchState(r) \/ Quote(r) \/ GiveUp(r)
    PROVE  InStep' /\ UNCHANGED R!vars
<1>1. UNCHANGED <<evmVars, svmVars>>
  BY DEF FetchState, Quote, GiveUp
<1>2. UNCHANGED <<ballValue, gameState, serves, pauses, game>>
  BY <1>1 DEF evmVars, svmVars
<1>3. ToSolana' = ToSolana /\ ToEvm' = ToEvm
  BY <1>1 DEF evmVars, svmVars, ToSolana, ToEvm
<1>4. pc \in [Players -> {"idle", "fetched", "quoted"}] /\ seen \in [Players -> 0 .. U128 - 1]
  BY DEF RInv, TInv, TypeOK
<1>5. ASSUME OneAtATime, NEW q \in Players, pc'[q] # "idle"
      PROVE  /\ gameState.gameActive
             /\ ToSolana = {} /\ ToEvm = {}
             /\ game.has_ball => seen'[q] = game.ball_value
  <2>1. q = r
    BY <1>5 DEF OneAtATime
  <2>2. CASE FetchState(r)
    <3>1. game.has_ball /\ seen'[q] = game.ball_value
      BY <1>4, <2>1, <2>2 DEF FetchState
    <3>2. ToSolana = {} /\ ToEvm = {} /\ gameState.gameActive
      BY <3>1, OnePlace DEF RInv
    <3> QED BY <3>1, <3>2
  <2>3. CASE Quote(r) \/ GiveUp(r)
    <3>1. pc[q] # "idle" /\ seen' = seen
      BY <1>4, <1>5, <2>1, <2>3 DEF Quote, GiveUp, Goto
    <3> QED BY <1>5, <3>1 DEF RInv, InStep
  <2> QED BY <2>2, <2>3
<1>6. InStep'
  BY <1>2, <1>3, <1>5 DEF RInv, InStep
<1>7. BallAt' = BallAt
  BY <1>2, <1>3 DEF BallAt
<1>8. BallValue' = BallValue
  BY <1>2, <1>3, <1>7 DEF BallValue
<1> QED BY <1>6, <1>7, <1>8 DEF R!vars

\* A game account that is closed, or created again, takes the ball it held with it.
LEMMA AccountsStep ==
    ASSUME RInv, TInv', IInv', pauses = 0, UNCHANGED <<evmVars, players>>,
           UNCHANGED <<cleared, svmOutbound>>, game' = game \/ game' = SVM!NewGame
    PROVE  InStep' /\ (R!CloseOnSolana \/ UNCHANGED R!vars)
<1>1. UNCHANGED <<ballValue, gameState, processedGuid, outbound, serves, pauses, pc, seen>>
  BY DEF evmVars, players
<1>2. CASE game' = game
  BY <1>1, <1>2, Quiet DEF ball, players
<1>3. CASE game' = SVM!NewGame
  <2>1. ToSolana' = ToSolana /\ ToEvm' = ToEvm /\ ~game'.has_ball
    BY <1>1, <1>3 DEF ToSolana, ToEvm, SVM!NewGame
  <2>2. InStep'
    BY <1>1, <2>1 DEF RInv, InStep
  <2>3. CASE game.has_ball
    <3>1. /\ ToSolana = {} /\ ToEvm = {} /\ ~gameState.hasBall /\ gameState.gameActive
          /\ serves # 0
      BY <2>3, OnePlace DEF RInv, InStep
    <3>2. BallAt = "solana"
      BY <2>3, <3>1, WhereTheBallIs DEF Places, At
    <3>3. BallAt' = "lost" /\ BallValue' = 0
      BY <1>1, <2>1, <2>2, <3>1, WhereTheBallIsNext DEF RInv, Places, At
    <3> QED BY <2>2, <3>2, <3>3 DEF R!CloseOnSolana, R!Move
  <2>4. CASE ~game.has_ball
    <3>1. BallAt' = BallAt
      BY <1>1, <2>1, <2>4 DEF BallAt
    <3>2. BallAt # "solana"
      BY <2>4 DEF BallAt
    <3>3. BallValue' = BallValue
      BY <1>1, <2>1, <3>1, <3>2 DEF BallValue
    <3> QED BY <2>2, <3>1, <3>3 DEF R!vars
  <2> QED BY <2>3, <2>4
<1> QED BY <1>2, <1>3

-----------------------------------------------------------------------------
\* A pause is never taken back.
LEMMA PausesStay == ASSUME RInv, [Next]_vars PROVE pauses' = pauses \/ EVM!PauseGame
<1>1. CASE EVM!Owner \/ EVM!Anybody
  BY <1>1 DEF EVM!Owner, EVM!Anybody, EVM!Withdraw, EVM!SetPeer, EVM!SetEnforcedOptions,
              EVM!Serve, EVM!StartServe, EVM!Fund
<1>2. CASE UNCHANGED evmVars
  BY <1>2 DEF evmVars
<1>3. ASSUME NEW p, DeliverToEvm(p) PROVE pauses' = pauses
  BY <1>3 DEF DeliverToEvm, EVM!LzReceive, EVM!IgnoreDuplicate, EVM!ReceiveBall, EVM!vars
<1>4. ASSUME NEW r \in Players, Player(r) PROVE UNCHANGED evmVars
  BY <1>4 DEF Player, FetchState, Quote, SubmitBall, GiveUp
<1> QED BY <1>1, <1>2, <1>3, <1>4 DEF Next, Play, Owners, DeliverToSolana, vars

\* What Rally allows, for whoever plays.
Allowed ==
    /\ [R!Next \/ R!ReturnAnyValue]_(R!vars)
    /\ OneAtATime => [R!Next]_(R!vars)

\* Each action of the system without a pause so far, and the step of Rally it is.
LEMMA UnpausedStep ==
    ASSUME RInv, TInv', IInv', pauses = 0, [Next]_vars
    PROVE  InStep' /\ Allowed
<1>1. CASE EVM!Owner /\ UNCHANGED <<svmVars, players>>
  <2>1. CASE EVM!PauseGame
    BY <2>1, PauseStep DEF R!Next, Allowed
  <2>2. CASE ~EVM!PauseGame
    <3>1. UNCHANGED ball /\ UNCHANGED players
      BY <1>1, <2>2 DEF EVM!Owner, EVM!Withdraw, EVM!SetPeer, EVM!SetEnforcedOptions,
                        EVM!play, EVM!wire, ball, svmVars
    <3> QED BY <3>1, Quiet DEF Allowed
  <2> QED BY <2>1, <2>2
<1>2. CASE EVM!Anybody /\ UNCHANGED <<svmVars, players>>
  <2>1. ASSUME NEW amount, EVM!Fund(amount) PROVE InStep' /\ UNCHANGED R!vars
    <3>1. UNCHANGED ball /\ UNCHANGED players
      BY <1>2, <2>1 DEF EVM!Fund, EVM!play, EVM!wire, ball, svmVars
    <3> QED BY <3>1, Quiet
  <2> QED BY <1>2, <2>1, ServeStep DEF EVM!Anybody, R!Next, Allowed
<1>3. CASE (SVM!Admin \/ SVM!Anybody) /\ UNCHANGED <<evmVars, players>>
  <2>1. ASSUME NEW v \in SendValues, NEW options, NEW fee, NEW quoted,
               SVM!SendBall(SepoliaEid, v, options, fee, quoted, SVM!SendBallAccounts)
        PROVE  InStep' /\ Allowed
    <3>1. v \in 0 .. U128 - 1 /\ ~OneAtATime
      BY SystemAssumption DEF OneAtATime
    <3>2. UNCHANGED evmVars
      BY <1>3
    <3>3. InStep' /\ R!ReturnAnyValue
      BY <2>1, <3>1, <3>2, SendStep
    <3> QED BY <3>1, <3>3 DEF Allowed
  <2>2. CASE UNCHANGED <<cleared, svmOutbound>> /\ (game' = game \/ game' = SVM!NewGame)
    BY <1>3, <2>2, AccountsStep DEF R!Next, Allowed
  <2> QED BY <1>3, <2>1, <2>2
             DEF SVM!Admin, SVM!CloseGame, SVM!PauseGame, SVM!ResumeGame, SVM!Persisted,
                 SVM!SetPeerAddress, SVM!SetPeerOptions, SVM!Anybody, SVM!InitGame,
                 SVM!RegisterOApp, SVM!FundContract, SVM!wire
<1>4. ASSUME NEW p \in outbound, DeliverToSolana(p) PROVE InStep' /\ Allowed
  BY <1>4, SvmReceiveStep DEF DeliverToSolana, R!Next, Allowed
<1>5. ASSUME NEW p \in svmOutbound, DeliverToEvm(p) PROVE InStep' /\ Allowed
  <2>1. CASE EVM!IgnoreDuplicate(p)
    <3>1. UNCHANGED ball /\ UNCHANGED players
      BY <1>5, <2>1 DEF DeliverToEvm, EVM!IgnoreDuplicate, EVM!vars, EVM!play, EVM!wire,
                        ball, svmVars
    <3> QED BY <3>1, Quiet DEF Allowed
  <2>2. ASSUME NEW fee \in Fees, EVM!ReceiveBall(p, fee) PROVE InStep' /\ Allowed
    BY <1>5, <2>2, EvmReceiveStep DEF DeliverToEvm, R!Next, Allowed
  <2> QED BY <1>5, <2>1, <2>2 DEF DeliverToEvm, EVM!LzReceive
<1>6. ASSUME NEW r \in Players, Player(r) PROVE InStep' /\ Allowed
  BY <1>6, SubmitStep, PlayerQuiet DEF Player, R!Next, Allowed
<1>7. CASE UNCHANGED vars
  <2>1. UNCHANGED ball /\ UNCHANGED players
    BY <1>7 DEF vars, evmVars, svmVars, ball
  <2> QED BY <2>1, Quiet DEF Allowed
<1> QED BY <1>1, <1>2, <1>3, <1>4, <1>5, <1>6, <1>7 DEF Next, Play, Owners

LEMMA RallyStep ==
    ASSUME RInv, [Next]_vars
    PROVE  RInv' /\ Allowed
<1>1. TInv' /\ IInv'
  BY NextTypes, NextIInv DEF RInv
<1>2. CASE pauses = 0
  BY <1>1, <1>2, UnpausedStep DEF RInv
<1>3. CASE pauses # 0
  <2>1. pauses \in Nat /\ pauses' # 0
    BY <1>3, PausesStay DEF EVM!PauseGame, RInv, TInv, TypeOK, EVM!TypeOK
  <2> QED BY <1>1, <1>3, <2>1, Paused DEF RInv, Allowed
<1> QED BY <1>2, <1>3

LEMMA InitRInv == Init \/ ReadyInit => RInv /\ R!Init
<1> SUFFICES ASSUME Init \/ ReadyInit PROVE RInv /\ R!Init
  OBVIOUS
<1>0. EVM!Unplayed /\ SVM!Unplayed /\ Idle
  BY DEF Init, ReadyInit, EVM!Init, SVM!Init
<1>1. TInv /\ IInv
  BY <1>0, InitTypes, UnplayedIInv
<1>2. /\ outbound = {} /\ svmOutbound = {} /\ serves = 0 /\ pauses = 0
      /\ gameState = [maxRallies |-> 0, hasBall |-> FALSE, gameActive |-> FALSE]
      /\ game = SVM!NewGame
      /\ \A r \in Players : pc[r] = "idle"
  BY <1>0 DEF EVM!Unplayed, SVM!Unplayed, Idle
<1>3. ToSolana = {} /\ ToEvm = {}
  BY <1>2 DEF ToSolana, ToEvm, InFlight
<1>4. ~game.has_ball
  BY <1>2 DEF SVM!NewGame
<1>5. InStep
  BY <1>2, <1>3, <1>4 DEF InStep
<1>6. BallAt = "unserved" /\ BallValue = 0
  BY <1>1, <1>2, <1>5, WhereTheBallIs DEF RInv, Places, At
<1> QED BY <1>1, <1>5, <1>6 DEF RInv, R!Init

-----------------------------------------------------------------------------
\* From deployment or from a configured start, whoever plays, reads old state or calls
\* send_ball with a value of their own: one ball goes round as Rally allows, and the only
\* thing a caller chooses is the value of a return.
THEOREM FreeImplementation == (Init \/ ReadyInit) /\ [][Next]_vars => ImplementsFreeRally
<1>1. RInv /\ [Next]_vars => RInv' /\ [R!Next \/ R!ReturnAnyValue]_(R!vars)
  BY RallyStep DEF Allowed
<1> QED BY <1>1, InitRInv, PTL DEF ImplementsFreeRally, R!FreeSpec

\* The system implements Rally from deployment on: each transaction is a step of the one
\* ball as Rally allows it, or none, for any number of games, values, limits, fees,
\* pauses and changes of configuration.
THEOREM Implementation == ASSUME OneAtATime PROVE Spec => ImplementsRally
<1>1. RInv /\ [Next]_vars => RInv' /\ [R!Next]_(R!vars)
  BY RallyStep DEF Allowed
<1> QED BY <1>1, InitRInv, PTL DEF Spec, ImplementsRally, R!Spec

\* Both chains agree on the ball's value wherever it is.
THEOREM ChainsAgree == ASSUME OneAtATime PROVE Spec => []ValuesInStep
<1>1. RInv /\ [Next]_vars => RInv'
  BY RallyStep
<1>2. RInv => ValuesInStep
  BY DEF RInv, InStep, ValuesInStep
<1> QED BY <1>1, <1>2, InitRInv, PTL DEF Spec

-----------------------------------------------------------------------------
(***************************************************************************)
(* The score of the first game.  Solana counts its hits; the contract      *)
(* counts one more than Solana did when it sent the ball.                  *)
(***************************************************************************)
Hits == IF rallyCount = 0 THEN 0 ELSE rallyCount - 1

\* The game account belongs to the first game for as long as it was created once.
FirstGame == pauses = 0 /\ serves = 1 /\ inits <= 1

InScore ==
    /\ opened => inits > 0
    /\ pauses = 0 /\ serves = 0 => game.rally_count = 0
    /\ FirstGame =>
           /\ ballValue = INITIAL_BALL_VALUE - 2 * Hits + Bit(gameState.hasBall)
           /\ opened /\ ToSolana # {} => game.rally_count = Hits
           /\ game.has_ball => game.rally_count = Hits + 1
           /\ opened /\ ToEvm # {} => game.rally_count = Hits + 1
           /\ \A p \in ToEvm : p.rally = Hits + 1
           /\ inits = 0 => rallyCount = 0 /\ ~game.has_ball /\ ToEvm = {}

SInv == RInv /\ InScore

LEMMA ScoreTypes ==
    ASSUME TInv
    PROVE  /\ serves \in Nat /\ inits \in Nat /\ pauses \in Nat
           /\ rallyCount \in Nat /\ ballValue \in Nat /\ game.rally_count \in Nat
           /\ INITIAL_BALL_VALUE \in Nat
  BY SystemAssumption
     DEF TInv, TypeOK, EVM!TypeOK, SVM!TypeOK, EVM!Word, SVM!GameState

LEMMA ScoreQuiet ==
    ASSUME SInv, UNCHANGED ball, UNCHANGED <<rallyCount, opened, inits>> PROVE InScore'
<1>1. ToSolana' = ToSolana /\ ToEvm' = ToEvm /\ Hits' = Hits
  BY DEF ball, ToSolana, ToEvm, Hits
<1>2. UNCHANGED <<ballValue, gameState, serves, pauses, game, opened, inits>>
  BY DEF ball
<1> QED BY <1>1, <1>2 DEF SInv, InScore, FirstGame, Bit

LEMMA ScoreServe ==
    ASSUME SInv, UNCHANGED <<svmVars, players>>,
           NEW maxRallies, NEW extra, NEW paid, NEW fee,
           EVM!Serve(maxRallies, extra, paid, fee)
    PROVE  InScore'
<1>1. /\ ~gameState.gameActive /\ ~gameState'.hasBall
      /\ ballValue' = INITIAL_BALL_VALUE /\ serves' = serves + 1 /\ rallyCount' = 0
      /\ UNCHANGED <<processedGuid, pauses, game, opened, inits, svmOutbound>>
  BY DEF EVM!Serve, EVM!StartServe, EVM!Served, svmVars
<1>2. serves \in Nat /\ serves' # 0 /\ INITIAL_BALL_VALUE \in Nat
  BY <1>1, ScoreTypes DEF SInv, RInv
<1>3. ASSUME FirstGame'
      PROVE  pauses = 0 /\ serves = 0 /\ ToEvm = {} /\ ~game.has_ball /\ game.rally_count = 0
  <2>1. pauses = 0 /\ serves = 0
    BY <1>1, <1>2, <1>3 DEF FirstGame
  <2>2. ~gameState.hasBall
    BY <2>1 DEF SInv, RInv, InStep
  <2> QED BY <1>1, <2>1, <2>2, OnePlace DEF SInv, RInv, InScore
<1>4. ToEvm' = ToEvm /\ Hits' = 0
  BY <1>1 DEF ToEvm, Hits
<1> QED BY <1>1, <1>2, <1>3, <1>4 DEF SInv, InScore, Bit

LEMMA ScoreEvmReceive ==
    ASSUME SInv, OneAtATime, UNCHANGED <<svmVars, players>>, NEW p \in svmOutbound, NEW fee,
           EVM!ReceiveBall(p, fee)
    PROVE  InScore'
<1>1. /\ processedGuid' = processedGuid \cup {p.guid} /\ p.guid \notin processedGuid
      /\ ~gameState.hasBall
      /\ UNCHANGED <<serves, pauses, game, opened, inits, cleared, svmOutbound>>
  BY DEF EVM!ReceiveBall, EVM!Duplicate, svmVars
<1>2. PICK limit : EVM!TakeBall(p.value, p.rally + 1, limit, fee)
  BY DEF EVM!ReceiveBall, EVM!InitializeGameFromPeer, EVM!ContinueGame
<1>3. p \in ToEvm /\ ToEvm' = ToEvm \ {p}
  <2>1. Channel(svmOutbound, processedGuid, svmNonce)
    BY DEF SInv, RInv, IInv, Shape
  <2>2. /\ p \in InFlight(svmOutbound, processedGuid)
        /\ InFlight(svmOutbound, processedGuid \cup {p.guid})
               = InFlight(svmOutbound, processedGuid) \ {p}
    <3>1. p.guid \notin processedGuid
      BY <1>1
    <3> QED BY <2>1, <3>1, TakeOne
  <2> QED BY <1>1, <2>2 DEF ToEvm
<1>4. /\ p.rally \in Nat /\ p.value \in Nat /\ rallyCount \in Nat /\ ballValue \in Nat
      /\ INITIAL_BALL_VALUE \in Nat
  BY ScoreTypes DEF SInv, RInv, TInv, TypeOK, SVM!TypeOK, SVM!Packet
<1>5. /\ rallyCount' = p.rally + 1
      /\ \/ ballValue' = p.value /\ gameState'.hasBall
         \/ ballValue' = p.value - 1 /\ ~gameState'.hasBall
  BY <1>2, <1>4 DEF EVM!TakeBall, EVM!SendBack, EVM!GameOver, EVM!Decrement
<1>6. Hits' = p.rally /\ Hits \in Nat
  BY <1>4, <1>5 DEF Hits
<1>7. ASSUME FirstGame' PROVE
          /\ FirstGame /\ inits # 0 /\ ToEvm' = {} /\ ~game.has_ball
          /\ p.value = ballValue - 1 /\ ballValue = INITIAL_BALL_VALUE - 2 * Hits
          /\ p.rally = Hits + 1
  <2>1. FirstGame /\ pauses = 0
    BY <1>1, <1>7 DEF FirstGame
  <2>2. ToEvm = {p} /\ ~game.has_ball
    BY <1>3, <2>1, OnePlace DEF SInv, RInv
  <2>3. p.value = ballValue - 1
    BY <1>3, <2>1 DEF SInv, RInv, InStep
  <2>4. ballValue = INITIAL_BALL_VALUE - 2 * Hits + 0
    BY <1>1, <2>1 DEF SInv, InScore, Bit
  <2> QED BY <1>3, <1>4, <1>6, <2>1, <2>2, <2>3, <2>4 DEF SInv, InScore
<1>8. ASSUME FirstGame'
      PROVE  ballValue' = INITIAL_BALL_VALUE - 2 * Hits' + Bit(gameState'.hasBall)
  BY <1>4, <1>5, <1>6, <1>7, <1>8 DEF Bit
<1>9. FirstGame' => (opened' /\ ToSolana' # {} => game'.rally_count = Hits')
  BY <1>1, <1>3, <1>6, <1>7 DEF SInv, InScore
<1> QED BY <1>1, <1>7, <1>8, <1>9 DEF SInv, InScore, FirstGame

LEMMA ScoreSvmReceive ==
    ASSUME SInv, UNCHANGED <<evmVars, players>>, NEW p \in outbound, NEW accounts,
           SVM!LzReceive(p, accounts)
    PROVE  InScore'
<1>1. /\ cleared' = cleared \cup {p.guid} /\ p.guid \notin cleared
      /\ game' = SVM!Struck(SVM!Decode(p)) /\ opened
      /\ UNCHANGED <<ballValue, rallyCount, gameState, processedGuid, outbound, serves, pauses,
                     svmOutbound, opened, inits>>
  BY DEF SVM!LzReceive, SVM!Clear, SVM!wire, evmVars
<1>2. p \in ToSolana /\ ToSolana' = ToSolana \ {p}
  <2>1. Channel(outbound, cleared, outNonce)
    BY DEF SInv, RInv, IInv, Shape
  <2> QED BY <1>1, <2>1, TakeOne DEF ToSolana
<1>3. ToEvm' = ToEvm /\ Hits' = Hits
  BY <1>1 DEF ToEvm, Hits
<1>4. game'.rally_count = game.rally_count + 1
  <2> DEFINE over == \/ SVM!Decode(p) = 1
                     \/ game.rally_count + 1 >= game.max_rallies
  <2>1. game' = [game EXCEPT !.ball_value = SVM!Decode(p) - 1,
                             !.rally_count = game.rally_count + 1,
                             !.has_ball = ~over, !.game_active = ~over]
    BY <1>1 DEF SVM!Struck
  <2>2. game \in GameType
    BY DEF SInv, RInv, IInv, Shape
  <2> HIDE DEF over
  <2> QED BY <2>1, <2>2 DEF GameType
<1>5. ASSUME pauses = 0 PROVE ToSolana' = {} /\ ToEvm = {} /\ serves # 0
  <2>1. ToSolana = {p} /\ ToEvm = {} /\ ~gameState.hasBall /\ gameState.gameActive
    BY <1>2, <1>5, OnePlace DEF SInv, RInv
  <2> QED BY <1>2, <1>5, <2>1 DEF SInv, RInv, InStep
<1> QED BY <1>1, <1>2, <1>3, <1>4, <1>5 DEF SInv, InScore, FirstGame, Bit

LEMMA ScoreSubmit == ASSUME SInv, NEW r \in Players, SubmitBall(r) PROVE InScore'
<1> DEFINE m == [guid |-> svmNonce + 1, srcEid |-> SolanaEid, sender |-> GamePDA,
                 to |-> peer[SepoliaEid].peer_address, value |-> SVM!Encode(seen[r]),
                 rally |-> game.rally_count]
<1>1. /\ svmOutbound' = svmOutbound \cup {m} /\ opened
      /\ game' = [game EXCEPT !.has_ball = FALSE] /\ game.has_ball
      /\ UNCHANGED <<ballValue, rallyCount, gameState, processedGuid, outbound, serves, pauses,
                     cleared, opened, inits>>
  BY DEF SubmitBall, SVM!SendBall, SVM!CpiSend, SVM!Released, evmVars
<1>2. m.guid = svmNonce + 1 /\ m.rally = game.rally_count
  OBVIOUS
<1> HIDE DEF m
<1>3. ToEvm' = ToEvm \cup {m}
  <2>1. Channel(svmOutbound, processedGuid, svmNonce)
    BY DEF SInv, RInv, IInv, Shape
  <2>2. InFlight(svmOutbound \cup {m}, processedGuid)
            = InFlight(svmOutbound, processedGuid) \cup {m}
    BY <1>2, <2>1, SendOne
  <2> QED BY <1>1, <2>2 DEF ToEvm
<1>4. ToSolana' = ToSolana /\ Hits' = Hits
  BY <1>1 DEF ToSolana, Hits
<1>5. ~game'.has_ball /\ game'.rally_count = game.rally_count
  BY <1>1 DEF SInv, RInv, IInv, Shape, GameType
<1>6. inits # 0
  BY <1>1, ScoreTypes DEF SInv, RInv, InScore
<1>7. ASSUME pauses = 0 PROVE ToEvm = {} /\ ToSolana = {}
  BY <1>1, <1>7, OnePlace DEF SInv, RInv
<1> QED BY <1>1, <1>2, <1>3, <1>4, <1>5, <1>6, <1>7 DEF SInv, InScore, FirstGame, Bit

\* A second account is not the first game's any more, and a closed one plays no part in it.
LEMMA ScoreAccounts ==
    ASSUME SInv, UNCHANGED evmVars, SVM!InitGame \/ SVM!CloseGame PROVE InScore'
<1>1. /\ UNCHANGED <<ballValue, rallyCount, gameState, processedGuid, outbound, serves, pauses,
                     cleared, svmOutbound>>
      /\ game' = SVM!NewGame
  BY DEF SVM!InitGame, SVM!CloseGame, SVM!wire, evmVars
<1>2. ToSolana' = ToSolana /\ ToEvm' = ToEvm /\ Hits' = Hits
  BY <1>1 DEF ToSolana, ToEvm, Hits
<1>3. ~game'.has_ball /\ game'.rally_count = 0
  BY <1>1 DEF SVM!NewGame
<1>4. inits \in Nat
  BY ScoreTypes DEF SInv, RInv
<1>5. CASE SVM!CloseGame
  <2>1. ~opened' /\ opened /\ inits' = inits
    BY <1>5 DEF SVM!CloseGame
  <2> QED BY <1>1, <1>2, <1>3, <2>1 DEF SInv, InScore, FirstGame, Bit
<1>6. CASE SVM!InitGame
  <2>1. opened' /\ inits' = inits + 1
    BY <1>6 DEF SVM!InitGame
  <2>2. FirstGame' => FirstGame /\ inits = 0
    BY <1>1, <1>4, <2>1 DEF FirstGame
  <2> QED BY <1>1, <1>2, <1>3, <1>4, <2>1, <2>2 DEF SInv, InScore, Hits, Bit
<1> QED BY <1>5, <1>6

LEMMA ScoreStep ==
    ASSUME SInv, OneAtATime, [Next]_vars PROVE SInv'
<1>0. RInv'
  BY RallyStep DEF SInv
<1>1. CASE EVM!Owner /\ UNCHANGED <<svmVars, players>>
  <2>1. CASE EVM!PauseGame
    <3>1. pauses \in Nat /\ pauses' # 0 /\ UNCHANGED <<opened, inits>>
      BY <1>1, <2>1, ScoreTypes DEF EVM!PauseGame, SInv, RInv, svmVars
    <3>2. InScore'
      BY <3>1 DEF SInv, InScore, FirstGame
    <3> QED BY <1>0, <3>2 DEF SInv
  <2>2. CASE ~EVM!PauseGame
    <3>1. UNCHANGED ball /\ UNCHANGED <<rallyCount, opened, inits>>
      BY <1>1, <2>2 DEF EVM!Owner, EVM!Withdraw, EVM!SetPeer, EVM!SetEnforcedOptions,
                        EVM!play, EVM!wire, ball, svmVars
    <3> QED BY <1>0, <3>1, ScoreQuiet DEF SInv
  <2> QED BY <2>1, <2>2
<1>2. CASE EVM!Anybody /\ UNCHANGED <<svmVars, players>>
  <2>1. ASSUME NEW amount, EVM!Fund(amount) PROVE InScore'
    <3>1. UNCHANGED ball /\ UNCHANGED <<rallyCount, opened, inits>>
      BY <1>2, <2>1 DEF EVM!Fund, EVM!play, EVM!wire, ball, svmVars
    <3> QED BY <3>1, ScoreQuiet
  <2> QED BY <1>0, <1>2, <2>1, ScoreServe DEF EVM!Anybody, SInv
<1>3. CASE (SVM!Admin \/ SVM!Anybody) /\ UNCHANGED <<evmVars, players>>
  <2>1. CASE SVM!InitGame \/ SVM!CloseGame
    BY <1>0, <1>3, <2>1, ScoreAccounts DEF SInv
  <2>2. CASE ~(SVM!InitGame \/ SVM!CloseGame)
    <3>1. UNCHANGED ball /\ UNCHANGED <<rallyCount, opened, inits>>
      BY <1>3, <2>2
         DEF SVM!Admin, SVM!PauseGame, SVM!ResumeGame, SVM!Persisted, SVM!SetPeerAddress,
             SVM!SetPeerOptions, SVM!Anybody, SVM!RegisterOApp, SVM!FundContract, SVM!wire,
             OneAtATime, ball, evmVars
    <3> QED BY <1>0, <3>1, ScoreQuiet DEF SInv
  <2> QED BY <2>1, <2>2
<1>4. ASSUME NEW p \in outbound, DeliverToSolana(p) PROVE InScore'
  BY <1>4, ScoreSvmReceive DEF DeliverToSolana
<1>5. ASSUME NEW p \in svmOutbound, DeliverToEvm(p) PROVE InScore'
  <2>1. CASE EVM!IgnoreDuplicate(p)
    <3>1. UNCHANGED ball /\ UNCHANGED <<rallyCount, opened, inits>>
      BY <1>5, <2>1 DEF DeliverToEvm, EVM!IgnoreDuplicate, EVM!vars, EVM!play, EVM!wire,
                        ball, svmVars
    <3> QED BY <3>1, ScoreQuiet
  <2>2. ASSUME NEW fee \in Fees, EVM!ReceiveBall(p, fee) PROVE InScore'
    BY <1>5, <2>2, ScoreEvmReceive DEF DeliverToEvm
  <2> QED BY <1>5, <2>1, <2>2 DEF DeliverToEvm, EVM!LzReceive
<1>6. ASSUME NEW r \in Players, Player(r) PROVE InScore'
  <2>1. CASE ~SubmitBall(r)
    <3>1. UNCHANGED ball /\ UNCHANGED <<rallyCount, opened, inits>>
      BY <1>6, <2>1 DEF Player, FetchState, Quote, GiveUp, ball, evmVars, svmVars
    <3> QED BY <3>1, ScoreQuiet
  <2> QED BY <1>6, <2>1, ScoreSubmit
<1>7. CASE UNCHANGED vars
  <2>1. UNCHANGED ball /\ UNCHANGED <<rallyCount, opened, inits>>
    BY <1>7 DEF vars, evmVars, svmVars, ball
  <2> QED BY <1>0, <2>1, ScoreQuiet DEF SInv
<1> QED BY <1>0, <1>1, <1>2, <1>3, <1>4, <1>5, <1>6, <1>7 DEF Next, Play, Owners, SInv

\* The contract's rally count tells the value of the first game's ball, whatever is
\* retried, reordered or reconfigured on the way.
THEOREM ScoreAndValue == ASSUME OneAtATime PROVE Spec => []ScoreTellsValue
<1>1. SInv /\ [Next]_vars => SInv'
  BY ScoreStep
<1>2. Init => SInv
  <2> SUFFICES ASSUME Init PROVE SInv
    OBVIOUS
  <2>1. /\ ~opened /\ serves = 0 /\ game = SVM!NewGame
    BY DEF Init, EVM!Init, EVM!Unplayed, SVM!Init, SVM!Unplayed
  <2> QED BY <2>1, InitRInv DEF SInv, InScore, FirstGame, SVM!NewGame
<1>3. SInv => ScoreTellsValue
  <2> SUFFICES ASSUME SInv, pauses = 0, serves = 1, inits = 1, rallyCount > 0
               PROVE  ballValue = INITIAL_BALL_VALUE - 2 * (rallyCount - 1)
                                      + Bit(gameState.hasBall)
    BY DEF ScoreTellsValue
  <2>1. FirstGame /\ rallyCount \in Nat
    BY ScoreTypes DEF FirstGame, SInv, RInv
  <2>2. Hits = rallyCount - 1
    BY <2>1 DEF Hits
  <2> QED BY <2>1, <2>2 DEF SInv, InScore
<1> QED BY <1>1, <1>2, <1>3, PTL DEF Spec
=============================================================================
