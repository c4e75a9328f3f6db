-------------------------- MODULE PingPongSVM_proofs --------------------------
(***************************************************************************)
(* The program's invariants, for every value of the constants.             *)
(***************************************************************************)
EXTENDS PingPongSVM, FiniteSetTheorems, TLAPS

\* SendsAccountedFor needs the others only for the types they give game.
IInv == TypeOK /\ HeldBallIsPlayable /\ SendsAccountedFor

-----------------------------------------------------------------------------
\* The state after a hit, whatever the record was.
LEMMA StruckEffect ==
    ASSUME game \in GameState, game.rally_count + 1 <= MAX_RALLIES_CAP,
           NEW value \in 1 .. INITIAL_BALL_VALUE
    PROVE  /\ Struck(value) \in GameState
           /\ Struck(value).rally_count = game.rally_count + 1
           /\ Struck(value).ball_value = value - 1
           /\ Struck(value).paused = game.paused
           /\ Struck(value).has_ball =>
                  /\ Struck(value).game_active
                  /\ value > 1 /\ game.rally_count + 1 < MAX_RALLIES_CAP
<1> USE ConstantsAssumption
<1> DEFINE over == value = 1 \/ game.rally_count + 1 >= game.max_rallies
<1>1. Struck(value) = [game EXCEPT !.ball_value = value - 1,
                                   !.rally_count = game.rally_count + 1,
                                   !.has_ball = ~over, !.game_active = ~over]
  BY DEF Struck
<1>2. value - 1 \in Value /\ game.rally_count + 1 \in 0 .. MAX_RALLIES_CAP
  BY DEF Value, GameState
<1>3. over \in BOOLEAN
  OBVIOUS
<1>4. ~over => value > 1 /\ game.rally_count + 1 < MAX_RALLIES_CAP
  BY DEF GameState
<1> HIDE DEF over
<1> QED BY <1>1, <1>2, <1>3, <1>4 DEF GameState

\* Administration of accounts leaves the ball where it is.
LEMMA AccountsPreserve ==
    ASSUME IInv, UNCHANGED <<opened, game, cleared, svmNonce, svmOutbound>>,
           peer' \in [Eids -> [created : BOOLEAN, peer_address : Addresses \cup {NoPeer},
                               send : BOOLEAN]],
           registered' \in BOOLEAN, lamports' \in 0 .. MaxLamports,
           inits' \in Nat, lastSwitch' \in {"none", "paused", "resumed"}
    PROVE  IInv'
<1>1. TypeOK'
  BY DEF IInv, TypeOK
<1>2. HeldBallIsPlayable' /\ SendsAccountedFor'
  BY DEF IInv, HeldBallIsPlayable, SendsAccountedFor, Bit
<1> QED BY <1>1, <1>2 DEF IInv

\* Creating and closing the game account leaves no ball in it.
LEMMA ResetPreserves ==
    ASSUME IInv, game' = NewGame, opened' \in BOOLEAN,
           UNCHANGED <<cleared, svmNonce, svmOutbound, peer, registered>>,
           lamports' \in 0 .. MaxLamports, inits' \in Nat, lastSwitch' = "none"
    PROVE  IInv'
<1> USE ConstantsAssumption
<1>1. game' \in GameState /\ ~game'.has_ball
  BY DEF NewGame, GameState, Value
<1>2. TypeOK'
  BY <1>1 DEF IInv, TypeOK
<1>3. HeldBallIsPlayable'
  BY <1>1 DEF HeldBallIsPlayable
<1>4. SendsAccountedFor'
  <2>1. svmNonce \in Nat /\ Cardinality(cleared) \in Nat /\ svmNonce <= Cardinality(cleared)
    BY FS_CardinalityType DEF IInv, TypeOK, SendsAccountedFor, Bit
  <2> QED BY <1>1, <2>1 DEF SendsAccountedFor, Bit
<1> QED BY <1>2, <1>3, <1>4 DEF IInv

LEMMA ReceivePreserves ==
    ASSUME IInv, NEW p \in Inbox, NEW accounts, LzReceive(p, accounts)
    PROVE  IInv'
<1> USE ConstantsAssumption
<1>0. TypeOK BY DEF IInv
<1>1. Decode(p) \in 1 .. INITIAL_BALL_VALUE /\ game' = Struck(Decode(p))
      /\ game.rally_count + 1 <= MAX_RALLIES_CAP /\ opened /\ opened' /\ ~game.paused
      /\ UNCHANGED <<peer, registered, lamports, svmNonce, svmOutbound, inits, lastSwitch>>
  BY DEF LzReceive, ValidValue, WithinCap, config, wire
<1>2. /\ game' \in GameState
      /\ game'.rally_count = game.rally_count + 1
      /\ game'.ball_value = Decode(p) - 1
      /\ game'.paused = game.paused
      /\ game'.has_ball => /\ game'.game_active /\ Decode(p) > 1
                           /\ game.rally_count + 1 < MAX_RALLIES_CAP
  BY <1>0, <1>1, StruckEffect DEF TypeOK
<1>3. cleared' = cleared \cup {p.guid} /\ p.guid \notin cleared /\ p.guid \in Nat
  BY DEF LzReceive, Clear, Packet
<1>4. /\ IsFiniteSet(cleared') /\ Cardinality(cleared) \in Nat
      /\ Cardinality(cleared') = Cardinality(cleared) + 1
  BY <1>0, <1>3, FS_AddElement, FS_CardinalityType DEF TypeOK
<1>5. TypeOK'
  BY <1>0, <1>1, <1>2, <1>3, <1>4 DEF TypeOK
<1>6. HeldBallIsPlayable'
  <2> SUFFICES ASSUME game'.has_ball PROVE HeldBallIsPlayable'
    BY DEF HeldBallIsPlayable
  <2>1. game.rally_count \in Nat
    BY <1>0 DEF TypeOK, GameState
  <2>2. game'.rally_count \in 1 .. MAX_RALLIES_CAP - 1
    BY <1>2, <2>1
  <2>3. game'.ball_value \in 1 .. INITIAL_BALL_VALUE - 1
    BY <1>1, <1>2
  <2> QED BY <1>1, <1>2, <2>2, <2>3 DEF HeldBallIsPlayable
<1>7. SendsAccountedFor'
  <2>1. svmNonce \in Nat /\ svmNonce <= Cardinality(cleared)
    BY <1>0, <1>4 DEF IInv, TypeOK, SendsAccountedFor, Bit
  <2> QED BY <1>1, <1>4, <2>1 DEF SendsAccountedFor, Bit
<1> QED BY <1>5, <1>6, <1>7 DEF IInv

LEMMA SendPreserves ==
    ASSUME IInv, NEW eid \in Eids, NEW value \in SendValues, NEW options \in BOOLEAN,
           NEW native_fee \in QuotedFees, NEW quoted \in QuotedFees, NEW accounts,
           SendBall(eid, value, options, native_fee, quoted, accounts)
    PROVE  IInv'
<1> USE ConstantsAssumption
<1> DEFINE m == [guid |-> svmNonce + 1, srcEid |-> SolanaEid, sender |-> GamePDA,
                 to |-> peer[eid].peer_address, value |-> Encode(value),
                 rally |-> game.rally_count]
<1>0. TypeOK BY DEF IInv
<1>1. /\ svmNonce' = svmNonce + 1 /\ svmOutbound' = svmOutbound \cup {m}
      /\ game' = [game EXCEPT !.has_ball = FALSE] /\ game.has_ball
      /\ UNCHANGED <<opened, peer, registered, lamports, cleared, inits, lastSwitch>>
  BY DEF SendBall, CpiSend, Released, config
<1>2. m \in Packet
  <2>1. peer[eid].peer_address \in Addresses \cup {NoPeer}
    BY <1>0 DEF TypeOK
  <2>2. Encode(value) \in Nat /\ game.rally_count \in Nat /\ svmNonce + 1 \in Nat
    BY <1>0 DEF TypeOK, GameState, Value, Encode, Word
  <2> QED BY <2>1, <2>2 DEF Packet
<1> HIDE DEF m
<1>3. game' \in GameState /\ ~game'.has_ball
  BY <1>0, <1>1 DEF TypeOK, GameState
<1>4. TypeOK'
  BY <1>0, <1>1, <1>2, <1>3 DEF TypeOK
<1>5. HeldBallIsPlayable'
  BY <1>3 DEF HeldBallIsPlayable
<1>6. SendsAccountedFor'
  <2>1. svmNonce \in Nat /\ Cardinality(cleared) \in Nat /\ svmNonce + 1 <= Cardinality(cleared)
    BY <1>0, <1>1, FS_CardinalityType DEF IInv, TypeOK, SendsAccountedFor, Bit
  <2> QED BY <1>1, <1>3, <2>1 DEF SendsAccountedFor, Bit
<1> QED BY <1>4, <1>5, <1>6 DEF IInv

-----------------------------------------------------------------------------
LEMMA InitIInv == Init => IInv
<1> SUFFICES ASSUME Init PROVE IInv
  OBVIOUS
<1> USE ConstantsAssumption
<1>1. game = NewGame /\ cleared = {} /\ svmNonce = 0 /\ svmOutbound = {} /\ inits = 0
      /\ opened = FALSE /\ registered = FALSE /\ lamports = 0 /\ lastSwitch = "none"
  BY DEF Init, Unplayed
<1>2. game \in GameState /\ ~game.has_ball
  BY <1>1 DEF NewGame, GameState, Value
<1>3. peer \in [Eids -> [created : BOOLEAN, peer_address : Addresses \cup {NoPeer},
                         send : BOOLEAN]]
  BY DEF Init, NoConfig
<1>4. IsFiniteSet(cleared) /\ Cardinality(cleared) = 0
  BY <1>1, FS_EmptySet
<1>5. TypeOK
  <2>1. lamports \in 0 .. MaxLamports /\ svmNonce \in Nat /\ inits \in Nat
    BY <1>1
  <2>2. svmOutbound \subseteq Packet /\ cleared \subseteq Nat
    BY <1>1
  <2>3. opened \in BOOLEAN /\ registered \in BOOLEAN
        /\ lastSwitch \in {"none", "paused", "resumed"}
    BY <1>1
  <2> QED BY <1>2, <1>3, <1>4, <2>1, <2>2, <2>3 DEF TypeOK
<1>6. HeldBallIsPlayable /\ SendsAccountedFor
  BY <1>1, <1>2, <1>4 DEF HeldBallIsPlayable, SendsAccountedFor, Bit
<1> QED BY <1>5, <1>6 DEF IInv

LEMMA NextIInv == IInv /\ [Next]_vars => IInv'
<1> SUFFICES ASSUME IInv, [Next]_vars PROVE IInv'
  OBVIOUS
<1> USE ConstantsAssumption
<1>0. TypeOK BY DEF IInv
<1>1. CASE InitGame
  <2>1. inits' \in Nat /\ lamports' \in 0 .. MaxLamports
    BY <1>0, <1>1 DEF InitGame, TypeOK
  <2> QED BY <1>1, <2>1, ResetPreserves DEF InitGame, config, wire
<1>2. CASE CloseGame
  <2>1. inits' \in Nat /\ lamports' \in 0 .. MaxLamports
    BY <1>0, <1>2 DEF CloseGame, TypeOK
  <2> QED BY <1>2, <2>1, ResetPreserves DEF CloseGame, config, wire
<1>3. CASE PauseGame \/ ResumeGame
  BY <1>0, <1>3, AccountsPreserve DEF PauseGame, ResumeGame, Persisted, TypeOK, config, wire
<1>4. CASE RegisterOApp
  BY <1>0, <1>4, AccountsPreserve DEF RegisterOApp, TypeOK, wire
<1>5. ASSUME NEW eid \in Eids, NEW a \in Addresses \cup {NoPeer}, SetPeerAddress(eid, a) PROVE IInv'
  <2>1. peer' \in [Eids -> [created : BOOLEAN, peer_address : Addresses \cup {NoPeer},
                            send : BOOLEAN]]
    BY <1>0, <1>5 DEF TypeOK, SetPeerAddress
  <2> QED BY <1>0, <1>5, <2>1, AccountsPreserve DEF SetPeerAddress, TypeOK, wire
<1>6. ASSUME NEW eid \in Eids, NEW send \in BOOLEAN, SetPeerOptions(eid, send) PROVE IInv'
  <2>1. peer' \in [Eids -> [created : BOOLEAN, peer_address : Addresses \cup {NoPeer},
                            send : BOOLEAN]]
    BY <1>0, <1>6 DEF TypeOK, SetPeerOptions
  <2> QED BY <1>0, <1>6, <2>1, AccountsPreserve DEF SetPeerOptions, TypeOK, wire
<1>7. ASSUME NEW amount \in 1 .. MaxLamports, FundContract(amount) PROVE IInv'
  <2>1. lamports' \in 0 .. MaxLamports
    BY <1>0, <1>7 DEF TypeOK, FundContract
  <2> QED BY <1>0, <1>7, <2>1, AccountsPreserve DEF FundContract, TypeOK, config, wire
<1>8. ASSUME NEW eid \in Eids, NEW value \in SendValues, NEW options \in BOOLEAN,
             NEW native_fee \in QuotedFees, NEW quoted \in QuotedFees,
             SendBall(eid, value, options, native_fee, quoted, SendBallAccounts)
      PROVE  IInv'
  BY <1>8, SendPreserves
<1>9. ASSUME NEW p \in Inbox, NEW accounts, LzReceive(p, accounts) PROVE IInv'
  BY <1>9, ReceivePreserves
<1>10. CASE UNCHANGED vars
  BY <1>0, <1>10, AccountsPreserve DEF vars, config, wire, TypeOK
<1> QED
  BY <1>1, <1>2, <1>3, <1>4, <1>5, <1>6, <1>7, <1>8, <1>9, <1>10 DEF Next, Admin, Anybody

\* The inductive invariant holds of every behaviour of the program.
THEOREM Invariance == Spec => []IInv
  BY InitIInv, NextIInv, PTL DEF Spec

\* The committed rally count never passes the cap, and values stay within a u128.
THEOREM TypeCorrect == Spec => []TypeOK
<1>1. IInv => TypeOK BY DEF IInv
<1> QED BY <1>1, Invariance, PTL

\* A ball in hand can be played on, for any packets and any callers of send_ball.
THEOREM HeldBallCanBePlayed == Spec => []HeldBallIsPlayable
<1>1. IInv => HeldBallIsPlayable BY DEF IInv
<1> QED BY <1>1, Invariance, PTL

\* No ball is returned twice, whatever is redelivered, closed or created again.
THEOREM NoBallReturnedTwice == Spec => []SendsAccountedFor
<1>1. IInv => SendsAccountedFor BY DEF IInv
<1> QED BY <1>1, Invariance, PTL
-----------------------------------------------------------------------------
\* One step of the score: what each transaction does to an account that stays open.
LEMMA StepFollowsPackets ==
    ASSUME IInv, [Next]_vars, opened, opened', game'.rally_count # game.rally_count
    PROVE  /\ game'.rally_count = game.rally_count + 1
           /\ cleared' # cleared
           /\ game'.ball_value < INITIAL_BALL_VALUE
<1> USE ConstantsAssumption
<1>0. game \in GameState
  BY DEF IInv, TypeOK
<1>1. CASE InitGame \/ CloseGame
  BY <1>1 DEF InitGame, CloseGame
<1>2. CASE game' = game
  BY <1>2
<1>3. CASE PauseGame \/ ResumeGame
  BY <1>2, <1>3 DEF PauseGame, ResumeGame, Persisted
<1>4. ASSUME NEW eid, NEW value, NEW options, NEW native_fee, NEW quoted, NEW accounts,
             SendBall(eid, value, options, native_fee, quoted, accounts)
      PROVE  FALSE
  <2>1. game' = [game EXCEPT !.has_ball = FALSE]
    BY <1>4 DEF SendBall, Released
  <2>2. game'.rally_count = game.rally_count
    BY <1>0, <2>1 DEF GameState
  <2> QED BY <2>2
<1>5. ASSUME NEW p \in Inbox, NEW accounts, LzReceive(p, accounts)
      PROVE  /\ game'.rally_count = game.rally_count + 1
             /\ cleared' # cleared
             /\ game'.ball_value < INITIAL_BALL_VALUE
  <2>1. /\ Decode(p) \in 1 .. INITIAL_BALL_VALUE /\ game' = Struck(Decode(p))
        /\ game.rally_count + 1 <= MAX_RALLIES_CAP
        /\ cleared' = cleared \cup {p.guid} /\ p.guid \notin cleared
    BY <1>5 DEF LzReceive, ValidValue, WithinCap, Clear
  <2>2. game'.rally_count = game.rally_count + 1 /\ game'.ball_value = Decode(p) - 1
    BY <1>0, <2>1, StruckEffect
  <2>3. Decode(p) - 1 < INITIAL_BALL_VALUE
    BY <2>1
  <2> QED BY <2>1, <2>2, <2>3
<1>6. CASE RegisterOApp \/ UNCHANGED vars
  BY <1>2, <1>6 DEF RegisterOApp, vars
<1>7. CASE \E eid \in Eids : \/ \E address \in Addresses \cup {NoPeer} : SetPeerAddress(eid, address)
                             \/ \E send \in BOOLEAN : SetPeerOptions(eid, send)
  BY <1>2, <1>7 DEF SetPeerAddress, SetPeerOptions
<1>8. CASE \E amount \in 1 .. MaxLamports : FundContract(amount)
  BY <1>2, <1>8 DEF FundContract
<1> QED BY <1>1, <1>3, <1>4, <1>5, <1>6, <1>7, <1>8 DEF Next, Admin, Anybody

\* Nothing but a packet cleared for good moves the score of an open game, whoever calls
\* what: not a retry, not send_ball, not the administration.
THEOREM ScoreFollows == Spec => ScoreFollowsPackets
<1> DEFINE Step == opened /\ opened' /\ game'.rally_count # game.rally_count =>
                       /\ game'.rally_count = game.rally_count + 1
                       /\ cleared' # cleared
                       /\ game'.ball_value < INITIAL_BALL_VALUE
<1>1. IInv /\ [Next]_vars => [Step]_vars
  BY StepFollowsPackets
<1> HIDE DEF Step
<1>2. [][Step]_vars => ScoreFollowsPackets
  BY DEF Step, ScoreFollowsPackets
<1> QED BY <1>1, <1>2, Invariance, PTL DEF Spec
=============================================================================
