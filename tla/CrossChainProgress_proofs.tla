----------------------- MODULE CrossChainProgress_proofs -----------------------
(***************************************************************************)
(* Why no ball gets stuck: its value stays in the range Solana accepts,    *)
(* and while the owners leave the game alone each side takes what the      *)
(* other sends.  For any number of players whose runs of a client overlap, *)
(* any limits, fees and games; nobody else calls send_ball.                *)
(***************************************************************************)
EXTENDS CrossChainPingPong_proofs

NobodyElseSends == SendValues = {}

(***************************************************************************)
(* How many hits the accounts created so far can have returned: a hit that *)
(* reaches the limit ends the game, so each account returns one less.      *)
(***************************************************************************)
HitsOf(is_open, rally_count) ==
    IF is_open /\ rally_count < MAX_RALLIES_CAP THEN rally_count ELSE MAX_RALLIES_CAP - 1

Spent ==
    IF inits = 0 THEN 0
    ELSE (MAX_RALLIES_CAP - 1) * (inits - 1) + HitsOf(opened, game.rally_count)

\* Each of them cost the ball one, and so did the contract's answer.
Lowest == INITIAL_BALL_VALUE - 2 * Spent

\* A value that a run of a client has read may be old, but not below what balls have
\* come down to since.
InRange ==
    /\ opened => inits > 0
    /\ game.has_ball =>
           /\ opened /\ game.rally_count < MAX_RALLIES_CAP
           /\ game.ball_value \in Lowest + 1 .. INITIAL_BALL_VALUE
    /\ \A p \in ToSolana : p.value \in Lowest .. INITIAL_BALL_VALUE
    /\ \A p \in ToEvm : p.value \in Lowest + 1 .. INITIAL_BALL_VALUE
    /\ \A r \in Players : pc[r] # "idle" => seen[r] \in Lowest + 1 .. INITIAL_BALL_VALUE

\* The initial value outlasts so many accounts: in the code 10^20 against 99 hits.
EnoughValue(accounts) == INITIAL_BALL_VALUE > 2 * ((MAX_RALLIES_CAP - 1) * accounts)

VInv == TInv /\ InRange

-----------------------------------------------------------------------------
LEMMA ProgramTypes ==
    ASSUME TInv
    PROVE  /\ inits \in Nat /\ opened \in BOOLEAN
           /\ game \in SVM!GameState
           /\ game.rally_count \in 0 .. MAX_RALLIES_CAP /\ game.max_rallies = MAX_RALLIES_CAP
           /\ game.has_ball \in BOOLEAN /\ game.ball_value \in Nat
           /\ pc \in [Players -> {"idle", "fetched", "quoted"}]
           /\ seen \in [Players -> 0 .. U128 - 1]
  BY SystemAssumption DEF TInv, TypeOK, SVM!TypeOK, SVM!GameState, SVM!Value

LEMMA SpentType == TInv => Spent \in Int /\ Lowest \in Int
<1> SUFFICES ASSUME TInv PROVE Spent \in Int /\ Lowest \in Int
  OBVIOUS
<1> USE SystemAssumption
<1>1. HitsOf(opened, game.rally_count) \in Int
  BY ProgramTypes DEF HitsOf
<1>2. (MAX_RALLIES_CAP - 1) * (inits - 1) \in Int
  <2>1. MAX_RALLIES_CAP - 1 \in Int /\ inits - 1 \in Int
    BY ProgramTypes
  <2> QED BY <2>1
<1>3. Spent \in Int
  BY <1>1, <1>2 DEF Spent
<1> QED BY <1>3 DEF Lowest

LEMMA SpentTypeNext == TInv' => Spent' \in Int /\ Lowest' \in Int
<1> DEFINE Whole == Spent \in Int /\ Lowest \in Int
<1>1. TInv => Whole
  BY SpentType
<1> HIDE DEF Whole
<1>2. TInv' => Whole'
  BY <1>1, PTL
<1> QED BY <1>2 DEF Whole

\* What is in flight after each side's step, without counting it.
LEMMA InFlightGrows ==
    ASSUME NEW sent, NEW taken, NEW m
    PROVE  InFlight(sent \cup {m}, taken) \subseteq InFlight(sent, taken) \cup {m}
  BY DEF InFlight

LEMMA InFlightShrinks ==
    ASSUME NEW sent, NEW taken, NEW g
    PROVE  InFlight(sent, taken \cup {g}) \subseteq InFlight(sent, taken)
  BY DEF InFlight

\* What a packet does to the game, for a program that keeps its types.
LEMMA StruckFields ==
    ASSUME TInv, NEW p \in outbound, NEW accounts, SVM!LzReceive(p, accounts)
    PROVE  /\ p \in ToSolana /\ opened
           /\ p.value \in 1 .. INITIAL_BALL_VALUE
           /\ cleared' = cleared \cup {p.guid}
           /\ game'.ball_value = p.value - 1 /\ game'.rally_count = game.rally_count + 1
           /\ game'.paused = game.paused
           /\ game'.has_ball <=> p.value # 1 /\ game.rally_count + 1 < MAX_RALLIES_CAP
           /\ UNCHANGED <<opened, peer, registered, svmOutbound, inits>>
<1>1. /\ SVM!Decode(p) \in 1 .. INITIAL_BALL_VALUE /\ game' = SVM!Struck(SVM!Decode(p))
      /\ cleared' = cleared \cup {p.guid} /\ p.guid \notin cleared /\ opened
      /\ UNCHANGED <<opened, peer, registered, svmOutbound, inits>>
  BY DEF SVM!LzReceive, SVM!Clear, SVM!ValidValue, SVM!config, SVM!wire
<1>2. p.value \in 0 .. U128 - 1
  BY DEF TInv, ValuesFit
<1>3. SVM!Decode(p) = p.value
  BY <1>2, DecodeIsIdentity
<1> DEFINE over == p.value = 1 \/ game.rally_count + 1 >= game.max_rallies
<1>4. game' = [game EXCEPT !.ball_value = p.value - 1,
                           !.rally_count = game.rally_count + 1,
                           !.has_ball = ~over, !.game_active = ~over]
  BY <1>1, <1>3 DEF SVM!Struck
<1>5. over <=> ~(p.value # 1 /\ game.rally_count + 1 < MAX_RALLIES_CAP)
  BY ProgramTypes, SystemAssumption
<1> HIDE DEF over
<1>6. /\ game'.ball_value = p.value - 1 /\ game'.rally_count = game.rally_count + 1
      /\ game'.paused = game.paused
      /\ game'.has_ball <=> ~over
  BY <1>4, ProgramTypes DEF SVM!GameState
<1> QED BY <1>1, <1>3, <1>5, <1>6 DEF ToSolana, InFlight

-----------------------------------------------------------------------------
(***************************************************************************)
(* The range is kept.                                                      *)
(***************************************************************************)

\* A step that leaves the program's accounts alone and brings no value out of range.
LEMMA RangeFrame ==
    ASSUME VInv, UNCHANGED <<opened, inits, game>>,
           \A p \in ToSolana' : p \in ToSolana \/ p.value \in Lowest .. INITIAL_BALL_VALUE,
           \A p \in ToEvm' : p \in ToEvm \/ p.value \in Lowest + 1 .. INITIAL_BALL_VALUE,
           \A r \in Players : pc'[r] # "idle" =>
               \/ pc[r] # "idle" /\ seen'[r] = seen[r]
               \/ seen'[r] \in Lowest + 1 .. INITIAL_BALL_VALUE
    PROVE  InRange'
<1>1. Lowest' = Lowest
  BY DEF Lowest, Spent
<1> QED BY <1>1 DEF VInv, InRange

\* A step that only spends more.
LEMMA RangeLoosens ==
    ASSUME VInv, TInv', Lowest' <= Lowest, UNCHANGED <<pc, seen>>,
           ToSolana' \subseteq ToSolana, ToEvm' \subseteq ToEvm,
           opened' => inits' > 0,
           game'.has_ball =>
               /\ opened' /\ game'.rally_count < MAX_RALLIES_CAP
               /\ game'.ball_value \in Lowest' + 1 .. INITIAL_BALL_VALUE
    PROVE  InRange'
<1>1. Lowest \in Int /\ Lowest' \in Int /\ INITIAL_BALL_VALUE \in Int
  BY SpentType, SpentTypeNext, SystemAssumption DEF VInv
<1>2. \A n : /\ n \in Lowest .. INITIAL_BALL_VALUE => n \in Lowest' .. INITIAL_BALL_VALUE
             /\ n \in Lowest + 1 .. INITIAL_BALL_VALUE => n \in Lowest' + 1 .. INITIAL_BALL_VALUE
  BY <1>1
<1> QED BY <1>2 DEF VInv, InRange

LEMMA RangeServe ==
    ASSUME VInv, UNCHANGED <<svmVars, players>>, NEW maxRallies, NEW extra, NEW paid, NEW fee,
           EVM!Serve(maxRallies, extra, paid, fee)
    PROVE  InRange'
<1> DEFINE m == [guid |-> outNonce + 1, srcEid |-> SepoliaEid, sender |-> EvmApp,
                 to |-> peers[SolanaEid], value |-> INITIAL_BALL_VALUE, rally |-> 0]
<1>1. /\ outbound' = outbound \cup {m}
      /\ UNCHANGED <<processedGuid, svmOutbound, cleared, opened, inits, game, pc, seen>>
  BY DEF EVM!Serve, EVM!StartServe, EVM!LzSend, svmVars, players
<1>2. m.value = INITIAL_BALL_VALUE
  OBVIOUS
<1> HIDE DEF m
<1>3. ToSolana' \subseteq ToSolana \cup {m} /\ ToEvm' = ToEvm
  BY <1>1, InFlightGrows DEF ToSolana, ToEvm
<1>4. INITIAL_BALL_VALUE \in Lowest .. INITIAL_BALL_VALUE
  <2>1. HitsOf(opened, game.rally_count) \in Nat
    BY ProgramTypes, SystemAssumption DEF VInv, HitsOf
  <2>2. inits # 0 => (MAX_RALLIES_CAP - 1) * (inits - 1) \in Nat
    <3>1. inits # 0 => MAX_RALLIES_CAP - 1 \in Nat /\ inits - 1 \in Nat
      BY ProgramTypes, SystemAssumption DEF VInv
    <3> QED BY <3>1
  <2>3. Spent \in Nat
    BY <2>1, <2>2 DEF Spent
  <2> QED BY <2>3, SystemAssumption DEF Lowest
<1> QED BY <1>1, <1>2, <1>3, <1>4, RangeFrame

LEMMA RangeEvmReceive ==
    ASSUME VInv, UNCHANGED <<svmVars, players>>, NEW p \in svmOutbound, NEW fee \in Fees,
           EVM!ReceiveBall(p, fee)
    PROVE  InRange'
<1>1. /\ processedGuid' = processedGuid \cup {p.guid} /\ p \in ToEvm
      /\ UNCHANGED <<svmOutbound, cleared, opened, inits, game, pc, seen>>
  BY DEF EVM!ReceiveBall, EVM!Duplicate, svmVars, players, ToEvm, InFlight
<1>2. PICK limit : EVM!TakeBall(p.value, p.rally + 1, limit, fee)
  BY DEF EVM!ReceiveBall, EVM!InitializeGameFromPeer, EVM!ContinueGame
<1>3. ToEvm' \subseteq ToEvm
  BY <1>1, InFlightShrinks DEF ToEvm
<1>4. CASE EVM!GameOver(p.value, p.rally + 1, limit)
  <2>1. outbound' = outbound
    BY <1>2, <1>4 DEF EVM!TakeBall, EVM!wire
  <2>2. ToSolana' = ToSolana
    BY <1>1, <2>1 DEF ToSolana
  <2> QED BY <1>1, <1>3, <2>2, RangeFrame
<1>5. CASE ~EVM!GameOver(p.value, p.rally + 1, limit)
  <2> DEFINE m == [guid |-> outNonce + 1, srcEid |-> SepoliaEid, sender |-> EvmApp,
                   to |-> peers[SolanaEid], value |-> EVM!Decrement(p.value),
                   rally |-> p.rally + 1]
  <2>1. outbound' = outbound \cup {m}
    BY <1>2, <1>5 DEF EVM!TakeBall, EVM!SendBack, EVM!LzSend
  <2>2. m.value = p.value - 1
    BY <1>5 DEF EVM!GameOver, EVM!Decrement
  <2> HIDE DEF m
  <2>3. ToSolana' \subseteq ToSolana \cup {m}
    BY <1>1, <2>1, InFlightGrows DEF ToSolana
  <2>4. p.value \in Lowest + 1 .. INITIAL_BALL_VALUE
    BY <1>1 DEF VInv, InRange
  <2>5. p.value - 1 \in Lowest .. INITIAL_BALL_VALUE
    BY <2>4, SpentType, SystemAssumption DEF VInv
  <2> QED BY <1>1, <1>3, <2>2, <2>3, <2>5, RangeFrame
<1> QED BY <1>4, <1>5

LEMMA RangeSvmReceive ==
    ASSUME VInv, TInv', UNCHANGED <<evmVars, players>>, NEW p \in outbound, NEW accounts,
           SVM!LzReceive(p, accounts)
    PROVE  InRange'
<1>1. /\ p \in ToSolana /\ opened /\ p.value \in 1 .. INITIAL_BALL_VALUE
      /\ cleared' = cleared \cup {p.guid}
      /\ game'.ball_value = p.value - 1 /\ game'.rally_count = game.rally_count + 1
      /\ game'.has_ball <=> p.value # 1 /\ game.rally_count + 1 < MAX_RALLIES_CAP
      /\ UNCHANGED <<opened, svmOutbound, inits>>
  BY StruckFields DEF VInv
<1>2. UNCHANGED <<outbound, processedGuid, pc, seen>>
  BY DEF evmVars, players
<1>3. ToSolana' \subseteq ToSolana /\ ToEvm' = ToEvm
  BY <1>1, <1>2, InFlightShrinks DEF ToSolana, ToEvm
<1>4. inits > 0
  BY <1>1 DEF VInv, InRange
<1> DEFINE before == (MAX_RALLIES_CAP - 1) * (inits - 1)
<1>5. /\ Spent = before + HitsOf(opened, game.rally_count)
      /\ Spent' = before + HitsOf(opened, game.rally_count + 1)
  <2>1. inits # 0
    BY <1>4, ProgramTypes DEF VInv
  <2>2. Spent = before + HitsOf(opened, game.rally_count)
    BY <2>1 DEF Spent
  <2>3. Spent' = before + HitsOf(opened, game'.rally_count)
    BY <1>1, <2>1 DEF Spent
  <2> QED BY <1>1, <2>2, <2>3
<1>6. before \in Int
  <2>1. MAX_RALLIES_CAP - 1 \in Int /\ inits - 1 \in Int
    BY ProgramTypes, SystemAssumption DEF VInv
  <2> QED BY <2>1
<1> HIDE DEF before
<1>7. Spent <= Spent' /\ (game.rally_count + 1 < MAX_RALLIES_CAP => Spent' = Spent + 1)
  BY <1>1, <1>5, <1>6, ProgramTypes, SystemAssumption DEF VInv, HitsOf
<1>8. Lowest' <= Lowest /\ (game.rally_count + 1 < MAX_RALLIES_CAP => Lowest' = Lowest - 2)
  BY <1>7, SpentType, SpentTypeNext, SystemAssumption DEF VInv, Lowest
<1>9. p.value \in Lowest .. INITIAL_BALL_VALUE
  BY <1>1 DEF VInv, InRange
<1>10. game'.has_ball => game'.ball_value \in Lowest' + 1 .. INITIAL_BALL_VALUE
  BY <1>1, <1>8, <1>9, SpentType, SpentTypeNext, SystemAssumption DEF VInv
<1> QED BY <1>1, <1>2, <1>3, <1>4, <1>8, <1>10, RangeLoosens

LEMMA RangeSubmit ==
    ASSUME VInv, NEW r \in Players, SubmitBall(r) PROVE InRange'
<1> DEFINE m == [guid |-> svmNonce + 1, srcEid |-> SolanaEid, sender |-> GamePDA,
                 to |-> peer[SepoliaEid].peer_address, value |-> SVM!Encode(seen[r]),
                 rally |-> game.rally_count]
<1>1. /\ svmOutbound' = svmOutbound \cup {m} /\ pc[r] # "idle"
      /\ pc' = [pc EXCEPT ![r] = "idle"]
      /\ game' = [game EXCEPT !.has_ball = FALSE]
      /\ UNCHANGED <<outbound, processedGuid, cleared, opened, inits, seen>>
  BY DEF SubmitBall, Goto, SVM!SendBall, SVM!CpiSend, SVM!Released, evmVars
<1>2. m.value = seen[r]
  BY ProgramTypes, SystemAssumption DEF VInv, SVM!Encode, SVM!Word
<1> HIDE DEF m
<1>3. ToEvm' \subseteq ToEvm \cup {m} /\ ToSolana' = ToSolana
  BY <1>1, InFlightGrows DEF ToEvm, ToSolana
<1>4. ~game'.has_ball /\ game'.rally_count = game.rally_count
  BY <1>1, ProgramTypes DEF VInv, SVM!GameState
<1>5. Lowest' = Lowest
  BY <1>1, <1>4 DEF Lowest, Spent
<1>6. \A q \in Players : pc'[q] # "idle" => pc[q] # "idle" /\ seen'[q] = seen[q]
  BY <1>1, ProgramTypes DEF VInv
<1> QED BY <1>1, <1>2, <1>3, <1>4, <1>5, <1>6 DEF VInv, InRange

\* A run that reads the state reads a value in range.
LEMMA RangePlayer ==
    ASSUME VInv, NEW r \in Players, FetchState(r) \/ Quote(r) \/ GiveUp(r) PROVE InRange'
<1>1. UNCHANGED <<evmVars, svmVars>>
  BY DEF FetchState, Quote, GiveUp
<1>2. UNCHANGED <<opened, inits, game>> /\ ToSolana' = ToSolana /\ ToEvm' = ToEvm
  BY <1>1 DEF evmVars, svmVars, ToSolana, ToEvm
<1>3. ASSUME NEW q \in Players, pc'[q] # "idle"
      PROVE  \/ pc[q] # "idle" /\ seen'[q] = seen[q]
             \/ seen'[q] \in Lowest + 1 .. INITIAL_BALL_VALUE
  <2>1. CASE FetchState(r)
    <3>1. game.has_ball /\ seen' = [seen EXCEPT ![r] = game.ball_value]
          /\ pc' = [pc EXCEPT ![r] = "fetched"]
      BY <2>1 DEF FetchState, Goto
    <3>2. game.ball_value \in Lowest + 1 .. INITIAL_BALL_VALUE
      BY <3>1 DEF VInv, InRange
    <3> QED BY <1>3, <3>1, <3>2, ProgramTypes DEF VInv
  <2>2. CASE Quote(r) \/ GiveUp(r)
    BY <1>3, <2>2, ProgramTypes DEF VInv, Quote, GiveUp, Goto
  <2> QED BY <2>1, <2>2
<1> QED BY <1>2, <1>3, RangeFrame

\* A fresh account may spend as much again.
LEMMA RangeAccounts ==
    ASSUME VInv, TInv', UNCHANGED <<evmVars, players>>, SVM!InitGame \/ SVM!CloseGame
    PROVE  InRange'
<1>1. /\ UNCHANGED <<outbound, processedGuid, cleared, svmOutbound, pc, seen>>
      /\ game' = SVM!NewGame
  BY DEF SVM!InitGame, SVM!CloseGame, SVM!wire, evmVars, players
<1>2. ToSolana' = ToSolana /\ ToEvm' = ToEvm /\ ~game'.has_ball /\ game'.rally_count = 0
  BY <1>1 DEF ToSolana, ToEvm, SVM!NewGame
<1>3. MAX_RALLIES_CAP - 1 \in Int /\ MAX_RALLIES_CAP > 0 /\ inits \in Nat
  BY ProgramTypes, SystemAssumption DEF VInv
<1>4. Spent <= Spent' /\ (opened' => inits' > 0)
  <2>1. CASE SVM!CloseGame
    <3>1. inits' = inits /\ opened /\ ~opened'
      BY <2>1 DEF SVM!CloseGame
    <3>2. HitsOf(opened, game.rally_count) <= HitsOf(opened', game'.rally_count)
      BY <3>1, ProgramTypes, SystemAssumption DEF VInv, HitsOf
    <3> DEFINE before == (MAX_RALLIES_CAP - 1) * (inits - 1)
    <3>3. before \in Int
      <4>1. inits - 1 \in Int
        BY <1>3
      <4> QED BY <1>3, <4>1
    <3>4. /\ Spent = (IF inits = 0 THEN 0 ELSE before + HitsOf(opened, game.rally_count))
          /\ Spent' = (IF inits = 0 THEN 0 ELSE before + HitsOf(opened', game'.rally_count))
      BY <3>1 DEF Spent
    <3>5. HitsOf(opened, game.rally_count) \in Int /\ HitsOf(opened', game'.rally_count) \in Int
      BY <1>2, ProgramTypes, SystemAssumption DEF VInv, HitsOf
    <3> HIDE DEF before
    <3>6. Spent <= Spent'
      BY <3>2, <3>3, <3>4, <3>5
    <3> QED BY <3>1, <3>6
  <2>2. CASE SVM!InitGame
    <3>1. inits' = inits + 1 /\ ~opened /\ opened'
      BY <2>2 DEF SVM!InitGame
    <3>2. Spent' = (MAX_RALLIES_CAP - 1) * inits
      BY <1>2, <1>3, <3>1 DEF Spent, HitsOf
    <3>3. CASE inits = 0
      <4>1. \A d \in Int : d * 0 = 0
        OBVIOUS
      <4>2. Spent = 0 /\ Spent' = 0
        BY <1>3, <3>2, <3>3, <4>1 DEF Spent
      <4> QED BY <1>3, <3>1, <4>2
    <3>4. CASE inits # 0
      <4>1. Spent = (MAX_RALLIES_CAP - 1) * (inits - 1) + (MAX_RALLIES_CAP - 1)
        BY <3>1, <3>4 DEF Spent, HitsOf
      <4>2. \A n, d \in Int : d * (n - 1) + d = d * n
        OBVIOUS
      <4>3. Spent = Spent' /\ Spent' \in Int
        BY <1>3, <3>2, <4>1, <4>2
      <4> QED BY <1>3, <3>1, <4>3
    <3> QED BY <3>3, <3>4
  <2> QED BY <2>1, <2>2
<1>5. Lowest' <= Lowest
  BY <1>4, SpentType, SpentTypeNext, SystemAssumption DEF VInv, Lowest
<1> QED BY <1>1, <1>2, <1>4, <1>5, RangeLoosens

LEMMA RangeStep ==
    ASSUME NobodyElseSends, VInv, [Next]_vars PROVE VInv'
<1>0. TInv'
  BY NextTypes DEF VInv
<1> SUFFICES InRange'
  BY <1>0 DEF VInv
<1>q. ASSUME UNCHANGED <<outbound, processedGuid, cleared, svmOutbound, opened, inits, game,
                         pc, seen>>
      PROVE  InRange'
  <2>1. ToSolana' = ToSolana /\ ToEvm' = ToEvm
    BY <1>q DEF ToSolana, ToEvm
  <2> QED BY <1>q, <2>1, RangeFrame
<1>1. CASE (EVM!Owner \/ EVM!Anybody) /\ UNCHANGED <<svmVars, players>>
  <2>1. CASE \E maxRallies, extra, paid, fee : EVM!Serve(maxRallies, extra, paid, fee)
    BY <1>1, <2>1, RangeServe
  <2>2. CASE UNCHANGED <<outbound, processedGuid>>
    BY <1>1, <1>q, <2>2 DEF svmVars, players
  <2> QED BY <1>1, <2>1, <2>2
             DEF EVM!Owner, EVM!Anybody, EVM!PauseGame, EVM!Withdraw, EVM!SetPeer,
                 EVM!SetEnforcedOptions, EVM!Fund, EVM!play, EVM!wire
<1>2. CASE (SVM!Admin \/ SVM!Anybody) /\ UNCHANGED <<evmVars, players>>
  <2>1. CASE SVM!InitGame \/ SVM!CloseGame
    BY <1>0, <1>2, <2>1, RangeAccounts
  <2>2. CASE ~(SVM!InitGame \/ SVM!CloseGame)
    <3>1. UNCHANGED <<cleared, svmOutbound, opened, inits, game>>
      BY <1>2, <2>2
         DEF SVM!Admin, SVM!PauseGame, SVM!ResumeGame, SVM!Persisted, SVM!SetPeerAddress,
             SVM!SetPeerOptions, SVM!Anybody, SVM!RegisterOApp, SVM!FundContract, SVM!wire,
             NobodyElseSends
    <3> QED BY <1>2, <1>q, <3>1 DEF evmVars, players
  <2> QED BY <2>1, <2>2
<1>3. ASSUME NEW p \in outbound, DeliverToSolana(p) PROVE InRange'
  BY <1>0, <1>3, RangeSvmReceive DEF DeliverToSolana
<1>4. ASSUME NEW p \in svmOutbound, DeliverToEvm(p) PROVE InRange'
  <2>1. CASE EVM!IgnoreDuplicate(p)
    BY <1>4, <1>q, <2>1 DEF DeliverToEvm, EVM!IgnoreDuplicate, EVM!vars, EVM!play, EVM!wire,
                            svmVars, players
  <2>2. ASSUME NEW fee \in Fees, EVM!ReceiveBall(p, fee) PROVE InRange'
    BY <1>4, <2>2, RangeEvmReceive DEF DeliverToEvm
  <2> QED BY <1>4, <2>1, <2>2 DEF DeliverToEvm, EVM!LzReceive
<1>5. ASSUME NEW r \in Players, Player(r) PROVE InRange'
  BY <1>5, RangeSubmit, RangePlayer DEF Player
<1>6. CASE UNCHANGED vars
  BY <1>6, <1>q DEF vars, evmVars, svmVars, players
<1> QED BY <1>0, <1>1, <1>2, <1>3, <1>4, <1>5, <1>6 DEF Next, Play, Owners

LEMMA RangeInit == Init \/ ReadyInit => VInv
<1> SUFFICES ASSUME Init \/ ReadyInit PROVE VInv
  OBVIOUS
<1>1. TInv
  BY InitTypes
<1>2. /\ outbound = {} /\ svmOutbound = {} /\ game = SVM!NewGame
      /\ \A r \in Players : pc[r] = "idle"
      /\ opened => inits > 0
  BY DEF Init, ReadyInit, EVM!Init, EVM!Unplayed, SVM!Init, SVM!Unplayed, Idle
<1>3. ToSolana = {} /\ ToEvm = {} /\ ~game.has_ball
  BY <1>2 DEF ToSolana, ToEvm, InFlight, SVM!NewGame
<1> QED BY <1>1, <1>2, <1>3 DEF VInv, InRange

LEMMA EnoughForAll ==
    ASSUME VInv, EnoughValue(inits)
    PROVE  /\ Lowest >= 1
           /\ \A p \in ToSolana : SVM!ValidValue(SVM!Decode(p))
<1>1. Spent <= (MAX_RALLIES_CAP - 1) * inits
  <2>1. MAX_RALLIES_CAP - 1 \in Int /\ MAX_RALLIES_CAP >= 1 /\ inits \in Nat
    BY ProgramTypes, SystemAssumption DEF VInv
  <2>2. HitsOf(opened, game.rally_count) <= MAX_RALLIES_CAP - 1
        /\ HitsOf(opened, game.rally_count) \in Int
    BY ProgramTypes, SystemAssumption DEF VInv, HitsOf
  <2>3. CASE inits = 0
    BY <2>1, <2>3 DEF Spent
  <2>4. CASE inits # 0
    <3>1. \A n, d \in Int : d * (n - 1) + d = d * n /\ d * (n - 1) \in Int
      OBVIOUS
    <3> DEFINE before == (MAX_RALLIES_CAP - 1) * (inits - 1)
    <3>2. /\ before + (MAX_RALLIES_CAP - 1) = (MAX_RALLIES_CAP - 1) * inits
          /\ before \in Int
      BY <2>1, <3>1
    <3>3. Spent = before + HitsOf(opened, game.rally_count)
      BY <2>4 DEF Spent
    <3> HIDE DEF before
    <3>4. Spent <= before + (MAX_RALLIES_CAP - 1)
      BY <2>1, <2>2, <3>2, <3>3
    <3> QED BY <3>2, <3>4
  <2> QED BY <2>3, <2>4
<1>2. (MAX_RALLIES_CAP - 1) * inits \in Int
  <2>1. MAX_RALLIES_CAP - 1 \in Int /\ inits \in Int
    BY ProgramTypes, SystemAssumption DEF VInv
  <2> QED BY <2>1
<1>3. Lowest >= 1
  <2> DEFINE most == (MAX_RALLIES_CAP - 1) * inits
  <2>1. INITIAL_BALL_VALUE > 2 * most /\ Spent <= most /\ most \in Int
    BY <1>1, <1>2 DEF EnoughValue
  <2> HIDE DEF most
  <2> QED BY <2>1, SpentType, SystemAssumption DEF VInv, Lowest
<1>4. ASSUME NEW p \in ToSolana PROVE SVM!ValidValue(SVM!Decode(p))
  <2>1. p.value \in Lowest .. INITIAL_BALL_VALUE
    BY DEF VInv, InRange
  <2>2. p.value \in 1 .. INITIAL_BALL_VALUE
    BY <1>3, <2>1, SpentType, SystemAssumption DEF VInv
  <2>3. SVM!Decode(p) = p.value
    BY <2>2, DecodeIsIdentity, SystemAssumption
  <2> QED BY <2>2, <2>3 DEF SVM!ValidValue
<1> QED BY <1>3, <1>4

\* No ball is sent to Solana that it refuses for its value, in any number of games, under
\* pauses and changes of configuration, for as long as the initial value outlasts the
\* number of times the game account was created.
THEOREM BallsCanBeHit ==
    ASSUME NobodyElseSends PROVE Spec => [](EnoughValue(inits) => BallCanBeHit)
<1>1. VInv /\ [Next]_vars => VInv'
  BY RangeStep
<1>2. VInv => (EnoughValue(inits) => BallCanBeHit)
  BY EnoughForAll DEF BallCanBeHit
<1> QED BY <1>1, <1>2, RangeInit, PTL DEF Spec

-----------------------------------------------------------------------------
(***************************************************************************)
(* Each side takes what the other sends while the owners leave the game    *)
(* alone: from a configured start, with every step of players, executor and *)
(* funding, and any number of games.                                       *)
(***************************************************************************)

\* What only the owners could change, and the addresses of the packets sent under it.
Ready ==
    /\ opened /\ registered /\ inits = 1 /\ ~game.paused /\ pauses = 0
    /\ peer[SepoliaEid].created /\ peer[SepoliaEid].peer_address = EvmApp
    /\ peers[SolanaEid] = GamePDA /\ enforcedOptions
    /\ \A p \in outbound : p.to = GamePDA /\ p.srcEid = SepoliaEid /\ p.sender = EvmApp
    /\ \A p \in svmOutbound : p.to = EvmApp /\ p.srcEid = SolanaEid /\ p.sender = GamePDA

\* Solana's count of rallies and the contract's keep step: the program is below its cap
\* whenever the ball is with the contract or on its way from it, and in the first game it
\* is a hit below, for the contract then answers under a limit that is at most the cap.
InTurn ==
    /\ serves = 0 <=> ~gameState.gameActive /\ ~gameState.hasBall
    /\ serves = 0 => game.rally_count = 0
    /\ gameState.gameActive => gameState.maxRallies <= MAX_RALLIES_CAP
    /\ gameState.hasBall \/ ToSolana # {} => game.rally_count < MAX_RALLIES_CAP
    /\ \A p \in ToEvm : p.rally = game.rally_count /\ p.rally < MAX_RALLIES_CAP
    /\ serves = 1 /\ gameState.gameActive /\ MAX_RALLIES_CAP > 1 =>
           /\ ToSolana # {} \/ ToEvm # {} \/ game.has_ball
           /\ ToSolana # {} => game.rally_count < MAX_RALLIES_CAP - 1

PInv == VInv /\ IInv /\ Ready /\ InTurn

-----------------------------------------------------------------------------
\* Steps that leave the ball alone.
LEMMA TurnFrame ==
    ASSUME PInv,
           UNCHANGED <<serves, gameState, game, outbound, cleared, svmOutbound, processedGuid>>
    PROVE  InTurn'
<1>1. ToSolana' = ToSolana /\ ToEvm' = ToEvm
  BY DEF ToSolana, ToEvm
<1> QED BY <1>1 DEF PInv, InTurn

LEMMA TurnServe ==
    ASSUME PInv, UNCHANGED <<svmVars, players>>, NEW maxRallies \in 0 .. MAX_RALLIES_CAP + 1,
           NEW extra, NEW paid, NEW fee, EVM!Serve(maxRallies, extra, paid, fee)
    PROVE  InTurn'
<1> DEFINE m == [guid |-> outNonce + 1, srcEid |-> SepoliaEid, sender |-> EvmApp,
                 to |-> peers[SolanaEid], value |-> INITIAL_BALL_VALUE, rally |-> 0]
<1>1. /\ outbound' = outbound \cup {m} /\ ~gameState.gameActive
      /\ gameState' = [maxRallies |-> maxRallies, hasBall |-> FALSE, gameActive |-> TRUE]
      /\ maxRallies <= MAX_RALLIES_CAP /\ serves' = serves + 1
      /\ UNCHANGED <<processedGuid, game, cleared, svmOutbound>>
  BY SystemAssumption
     DEF EVM!Serve, EVM!StartServe, EVM!LzSend, EVM!Served, EVM!ValidMaxRallies, svmVars
<1>2. m.guid = outNonce + 1
  OBVIOUS
<1> HIDE DEF m
<1>3. ToSolana' = ToSolana \cup {m} /\ ToEvm' = ToEvm
  BY <1>1, <1>2, SendOne DEF PInv, IInv, Shape, ToSolana, ToEvm
<1>4. ToEvm = {}
  BY <1>1, OnePlace DEF PInv, Ready
<1>5. serves = 0 \/ gameState.hasBall
  BY <1>1 DEF PInv, InTurn
<1>6. serves \in Nat /\ game.rally_count \in Int
  BY DEF PInv, VInv, TInv, TypeOK, EVM!TypeOK, IInv, Shape, GameType
<1>7. /\ game.rally_count < MAX_RALLIES_CAP
      /\ serves = 0 /\ MAX_RALLIES_CAP > 1 => game.rally_count < MAX_RALLIES_CAP - 1
  BY <1>5, <1>6, SystemAssumption DEF PInv, InTurn
<1>8. serves' # 0 /\ (serves' = 1 => serves = 0)
  BY <1>1, <1>6
<1> QED BY <1>1, <1>3, <1>4, <1>7, <1>8 DEF InTurn

LEMMA TurnEvmReceive ==
    ASSUME PInv, UNCHANGED <<svmVars, players>>, NEW p \in svmOutbound, NEW fee \in Fees,
           EVM!ReceiveBall(p, fee)
    PROVE  InTurn'
<1>1. /\ processedGuid' = processedGuid \cup {p.guid} /\ p.guid \notin processedGuid
      /\ ~gameState.hasBall
      /\ UNCHANGED <<serves, game, cleared, svmOutbound>>
  BY DEF EVM!ReceiveBall, EVM!Duplicate, svmVars
<1>2. p \in ToEvm /\ ToEvm' = ToEvm \ {p}
  BY <1>1, TakeOne DEF PInv, IInv, Shape, ToEvm
<1>3. ToEvm = {p} /\ ToSolana = {} /\ gameState.gameActive
  BY <1>1, <1>2, OnePlace DEF PInv, Ready
<1>4. EVM!TakeBall(p.value, p.rally + 1, gameState.maxRallies, fee)
  BY <1>3 DEF EVM!ReceiveBall, EVM!InitializeGameFromPeer, EVM!ContinueGame
<1> DEFINE limit == gameState.maxRallies
<1>5. /\ serves # 0 /\ limit <= MAX_RALLIES_CAP /\ limit \in Int
      /\ p.rally = game.rally_count /\ game.rally_count < MAX_RALLIES_CAP
      /\ game.rally_count \in Int
  BY <1>2, <1>3 DEF PInv, InTurn, IInv, Shape, GameType, EVM!GameState
<1> HIDE DEF limit
<1>6. CASE EVM!GameOver(p.value, p.rally + 1, limit)
  <2>1. /\ gameState' = [maxRallies |-> limit, hasBall |-> TRUE, gameActive |-> FALSE]
        /\ outbound' = outbound
    BY <1>4, <1>6 DEF EVM!TakeBall, EVM!wire, limit
  <2>2. ToSolana' = {} /\ ToEvm' = {}
    BY <1>1, <1>2, <1>3, <2>1 DEF ToSolana
  <2> QED BY <1>1, <1>5, <2>1, <2>2 DEF InTurn
<1>7. CASE ~EVM!GameOver(p.value, p.rally + 1, limit)
  <2>1. gameState' = [maxRallies |-> limit, hasBall |-> FALSE, gameActive |-> TRUE]
        /\ p.rally + 1 < limit /\ EVM!LzSend(EVM!Decrement(p.value), p.rally + 1)
    BY <1>4, <1>7 DEF EVM!TakeBall, EVM!SendBack, limit
  <2> DEFINE m == [guid |-> outNonce + 1, srcEid |-> SepoliaEid, sender |-> EvmApp,
                   to |-> peers[SolanaEid], value |-> EVM!Decrement(p.value),
                   rally |-> p.rally + 1]
  <2>2. outbound' = outbound \cup {m} /\ m.guid = outNonce + 1
    BY <2>1 DEF EVM!LzSend
  <2> HIDE DEF m
  <2>3. ToSolana' = {m} /\ ToEvm' = {}
    <3>1. InFlight(outbound \cup {m}, cleared) = InFlight(outbound, cleared) \cup {m}
      BY <2>2, SendOne DEF PInv, IInv, Shape
    <3> QED BY <1>1, <1>2, <1>3, <2>2, <3>1 DEF ToSolana
  <2>4. game.rally_count < MAX_RALLIES_CAP - 1
    BY <1>5, <2>1, SystemAssumption
  <2> QED BY <1>1, <1>5, <2>1, <2>3, <2>4 DEF InTurn
<1> QED BY <1>6, <1>7

\* A ball of the first game that comes back to Solana is neither spent nor the last one.
LEMMA TurnSvmReceive ==
    ASSUME EnoughValue(1), PInv, UNCHANGED <<evmVars, players>>, NEW p \in outbound,
           NEW accounts, SVM!LzReceive(p, accounts)
    PROVE  InTurn'
<1>1. /\ p \in ToSolana /\ opened
      /\ cleared' = cleared \cup {p.guid}
      /\ game'.rally_count = game.rally_count + 1
      /\ game'.has_ball <=> p.value # 1 /\ game.rally_count + 1 < MAX_RALLIES_CAP
      /\ UNCHANGED <<svmOutbound, inits>>
  BY StruckFields DEF PInv, VInv
<1>2. UNCHANGED <<gameState, processedGuid, outbound, serves>>
  BY DEF evmVars
<1>3. ToSolana' = ToSolana \ {p}
  <2>1. p.guid \notin cleared
    BY <1>1 DEF ToSolana, InFlight
  <2>2. Channel(outbound, cleared, outNonce)
    BY DEF PInv, IInv, Shape
  <2> QED BY <1>1, <1>2, <2>1, <2>2, TakeOne DEF ToSolana
<1>4. ToSolana = {p} /\ ToEvm' = {} /\ ~gameState.hasBall /\ gameState.gameActive
  <2>1. ToSolana = {p} /\ ToEvm = {} /\ ~gameState.hasBall /\ gameState.gameActive
    BY <1>1, OnePlace DEF PInv, Ready
  <2>2. ToEvm' = ToEvm
    BY <1>1, <1>2 DEF ToEvm
  <2> QED BY <2>1, <2>2
<1>5. serves # 0 /\ gameState.maxRallies <= MAX_RALLIES_CAP
  BY <1>4 DEF PInv, InTurn
<1>6. ASSUME serves = 1, MAX_RALLIES_CAP > 1 PROVE game'.has_ball
  <2>1. game.rally_count < MAX_RALLIES_CAP - 1 /\ game.rally_count \in Nat
    BY <1>1, <1>4, <1>6, ProgramTypes DEF PInv, VInv, InTurn
  <2>2. Spent = game.rally_count
    <3>1. inits = 1 /\ (MAX_RALLIES_CAP - 1) * (inits - 1) = 0
      <4>1. inits = 1 /\ inits - 1 = 0
        BY DEF PInv, Ready
      <4>2. \A d \in Int : d * 0 = 0
        OBVIOUS
      <4> QED BY <4>1, <4>2, SystemAssumption
    <3>2. HitsOf(opened, game.rally_count) = game.rally_count
      BY <1>1, <2>1, SystemAssumption DEF HitsOf
    <3> QED BY <2>1, <3>1, <3>2 DEF Spent
  <2>3. INITIAL_BALL_VALUE > 2 * (MAX_RALLIES_CAP - 1)
    <3>1. \A d \in Int : d * 1 = d
      OBVIOUS
    <3> QED BY <3>1, SystemAssumption DEF EnoughValue
  <2>4. p.value \in Lowest .. INITIAL_BALL_VALUE /\ Lowest = INITIAL_BALL_VALUE - 2 * game.rally_count
    BY <1>1, <2>2 DEF PInv, VInv, InRange, Lowest
  <2> QED BY <1>1, <2>1, <2>3, <2>4, SystemAssumption
<1> QED BY <1>1, <1>2, <1>3, <1>4, <1>5, <1>6 DEF InTurn

LEMMA TurnSubmit == ASSUME PInv, NEW r \in Players, SubmitBall(r) PROVE InTurn'
<1> DEFINE m == [guid |-> svmNonce + 1, srcEid |-> SolanaEid, sender |-> GamePDA,
                 to |-> peer[SepoliaEid].peer_address, value |-> SVM!Encode(seen[r]),
                 rally |-> game.rally_count]
<1>1. /\ svmOutbound' = svmOutbound \cup {m} /\ game.has_ball
      /\ game' = [game EXCEPT !.has_ball = FALSE]
      /\ UNCHANGED <<gameState, serves, outbound, processedGuid, cleared>>
  BY DEF SubmitBall, SVM!SendBall, SVM!CpiSend, SVM!Released, evmVars
<1>2. m.guid = svmNonce + 1 /\ m.rally = game.rally_count
  OBVIOUS
<1> HIDE DEF m
<1>3. ToEvm' = ToEvm \cup {m} /\ ToSolana' = ToSolana
  BY <1>1, <1>2, SendOne DEF PInv, IInv, Shape, ToEvm, ToSolana
<1>4. ToEvm = {} /\ ToSolana = {} /\ ~gameState.hasBall
  BY <1>1, OnePlace DEF PInv, Ready
<1>5. game.rally_count < MAX_RALLIES_CAP
  BY <1>1 DEF PInv, VInv, InRange
<1>6. game'.rally_count = game.rally_count
  BY <1>1 DEF PInv, IInv, Shape, GameType
<1> QED BY <1>1, <1>2, <1>3, <1>4, <1>5, <1>6 DEF PInv, InTurn

-----------------------------------------------------------------------------
\* Nobody but the owners changes the configuration, and the packets sent follow it.
LEMMA ReadyFrame ==
    ASSUME Ready,
           UNCHANGED <<opened, registered, inits, pauses, peer, peers, enforcedOptions>>,
           game'.paused = game.paused,
           \A p \in outbound' : p \in outbound \/
               (p.to = peers[SolanaEid] /\ p.srcEid = SepoliaEid /\ p.sender = EvmApp),
           \A p \in svmOutbound' : p \in svmOutbound \/
               (/\ p.to = peer[SepoliaEid].peer_address
                /\ p.srcEid = SolanaEid /\ p.sender = GamePDA)
    PROVE  Ready'
  BY DEF Ready

LEMMA PlayStep ==
    ASSUME NobodyElseSends, EnoughValue(1), PInv, [Play]_vars PROVE PInv'
<1>1. VInv' /\ IInv'
  BY RangeStep, NextIInv DEF PInv, Next
<1>2. SUFFICES Ready' /\ InTurn'
  BY <1>1 DEF PInv
<1>3. Ready
  BY DEF PInv
<1>4. CASE EVM!Anybody /\ UNCHANGED <<svmVars, players>>
  <2>1. UNCHANGED <<game, opened, registered, inits, peer, svmOutbound, cleared>>
    BY <1>4 DEF svmVars
  <2>2. ASSUME NEW maxRallies \in 0 .. MAX_RALLIES_CAP + 1, NEW extra, NEW paid, NEW fee,
               EVM!Serve(maxRallies, extra, paid, fee)
        PROVE  Ready' /\ InTurn'
    <3>1. Ready'
      BY <1>3, <2>1, <2>2, ReadyFrame
         DEF EVM!Serve, EVM!StartServe, EVM!LzSend, EVM!ledger
    <3> QED BY <1>4, <2>2, <3>1, TurnServe
  <2>3. ASSUME NEW amount \in 1 .. MaxBalance, EVM!Fund(amount) PROVE Ready' /\ InTurn'
    <3>1. UNCHANGED <<serves, gameState, outbound, processedGuid, pauses, peers,
                      enforcedOptions>>
      BY <2>3 DEF EVM!Fund, EVM!play, EVM!wire
    <3> QED BY <1>3, <2>1, <3>1, ReadyFrame, TurnFrame
  <2> QED BY <1>4, <2>2, <2>3 DEF EVM!Anybody
<1>5. CASE SVM!Anybody /\ UNCHANGED <<evmVars, players>>
  <2>1. UNCHANGED <<serves, gameState, outbound, processedGuid, pauses, peers, enforcedOptions>>
    BY <1>5 DEF evmVars
  <2>2. UNCHANGED <<game, opened, registered, inits, peer, svmOutbound, cleared>>
    BY <1>3, <1>5
       DEF SVM!Anybody, SVM!InitGame, SVM!RegisterOApp, SVM!FundContract, SVM!config, SVM!wire,
           NobodyElseSends, Ready
  <2> QED BY <1>3, <2>1, <2>2, ReadyFrame, TurnFrame
<1>6. ASSUME NEW p \in outbound, DeliverToSolana(p) PROVE Ready' /\ InTurn'
  <2>1. PICK accounts : SVM!LzReceive(p, accounts)
    BY <1>6 DEF DeliverToSolana
  <2>2. UNCHANGED <<evmVars, players>>
    BY <1>6 DEF DeliverToSolana
  <2>3. Ready'
    <3>1. /\ game'.paused = game.paused
          /\ UNCHANGED <<opened, peer, registered, svmOutbound, inits>>
      BY <2>1, StruckFields DEF PInv, VInv
    <3> QED BY <1>3, <2>2, <3>1, ReadyFrame DEF evmVars
  <2> QED BY <2>1, <2>2, <2>3, TurnSvmReceive
<1>7. ASSUME NEW p \in svmOutbound, DeliverToEvm(p) PROVE Ready' /\ InTurn'
  <2>1. UNCHANGED <<svmVars, players>>
    BY <1>7 DEF DeliverToEvm
  <2>2. CASE EVM!IgnoreDuplicate(p)
    <3>1. UNCHANGED <<serves, gameState, outbound, processedGuid, pauses, peers,
                      enforcedOptions>>
      BY <2>2 DEF EVM!IgnoreDuplicate, EVM!vars, EVM!play, EVM!ledger, EVM!wire
    <3> QED BY <1>3, <2>1, <3>1, ReadyFrame, TurnFrame DEF svmVars
  <2>3. ASSUME NEW fee \in Fees, EVM!ReceiveBall(p, fee) PROVE Ready' /\ InTurn'
    <3>1. UNCHANGED <<peers, enforcedOptions, pauses>>
      BY <2>3 DEF EVM!ReceiveBall
    <3>2. \/ outbound' = outbound
          \/ \E value, rally : EVM!LzSend(value, rally)
      BY <2>3 DEF EVM!ReceiveBall, EVM!InitializeGameFromPeer, EVM!ContinueGame, EVM!TakeBall,
                  EVM!SendBack, EVM!wire
    <3>3. \A q \in outbound' : q \in outbound \/
              (q.to = peers[SolanaEid] /\ q.srcEid = SepoliaEid /\ q.sender = EvmApp)
      BY <3>2 DEF EVM!LzSend
    <3>4. Ready'
      BY <1>3, <2>1, <3>1, <3>3, ReadyFrame DEF svmVars
    <3> QED BY <2>1, <2>3, <3>4, TurnEvmReceive
  <2> QED BY <1>7, <2>2, <2>3 DEF DeliverToEvm, EVM!LzReceive
<1>8. ASSUME NEW r \in Players, Player(r) PROVE Ready' /\ InTurn'
  <2>1. CASE SubmitBall(r)
    <3>1. /\ game' = [game EXCEPT !.has_ball = FALSE]
          /\ UNCHANGED <<opened, registered, inits, pauses, peer, peers, enforcedOptions, outbound>>
          /\ \A p \in svmOutbound' : p \in svmOutbound \/
                 (/\ p.to = peer[SepoliaEid].peer_address
                  /\ p.srcEid = SolanaEid /\ p.sender = GamePDA)
      BY <2>1 DEF SubmitBall, SVM!SendBall, SVM!CpiSend, SVM!Released, SVM!config, evmVars
    <3>2. game'.paused = game.paused
      BY <3>1 DEF PInv, IInv, Shape, GameType
    <3> QED BY <1>3, <2>1, <3>1, <3>2, ReadyFrame, TurnSubmit
  <2>2. CASE UNCHANGED <<evmVars, svmVars>>
    BY <1>3, <2>2, ReadyFrame, TurnFrame DEF evmVars, svmVars
  <2> QED BY <1>8, <2>1, <2>2 DEF Player, FetchState, Quote, GiveUp
<1>9. CASE UNCHANGED vars
  BY <1>3, <1>9, ReadyFrame, TurnFrame DEF vars, evmVars, svmVars
<1> QED BY <1>4, <1>5, <1>6, <1>7, <1>8, <1>9 DEF Play

LEMMA PlayInit == ReadyInit => PInv
<1> SUFFICES ASSUME ReadyInit PROVE PInv
  OBVIOUS
<1>1. VInv /\ IInv
  BY RangeInit, UnplayedIInv DEF ReadyInit
<1>2. /\ outbound = {} /\ svmOutbound = {} /\ game = SVM!NewGame /\ serves = 0 /\ pauses = 0
      /\ gameState = [maxRallies |-> 0, hasBall |-> FALSE, gameActive |-> FALSE]
  BY DEF ReadyInit, EVM!Unplayed, SVM!Unplayed
<1>3. Ready
  BY <1>2 DEF Ready, ReadyInit, SVM!NewGame
<1>4. ToSolana = {} /\ ToEvm = {} /\ game.rally_count = 0
  BY <1>2 DEF ToSolana, ToEvm, InFlight, SVM!NewGame
<1>5. InTurn
  BY <1>2, <1>4 DEF InTurn
<1> QED BY <1>1, <1>3, <1>5 DEF PInv

-----------------------------------------------------------------------------
\* While the owners leave the game alone, every ball on its way is one its receiver takes,
\* as soon as the contract can pay for the reply: no packet gets stuck on a check of the
\* contract or of lz_receive, in any number of games.
THEOREM BallsAreTaken ==
    ASSUME NobodyElseSends, EnoughValue(1) PROVE PlaySpec => []NoBallRefused
<1>1. ASSUME PInv, NEW p \in ToSolana PROVE SolanaTakes(p)
  <2>1. inits = 1 /\ p \in outbound
    BY <1>1 DEF PInv, Ready, ToSolana, InFlight
  <2>2. SVM!ValidValue(SVM!Decode(p))
    BY <1>1, <2>1, EnoughForAll DEF PInv
  <2>3. game.rally_count < MAX_RALLIES_CAP
    BY <1>1 DEF PInv, InTurn
  <2>4. SVM!WithinCap(game.rally_count + 1)
    BY <1>1, <2>3, ProgramTypes, SystemAssumption DEF PInv, VInv, SVM!WithinCap
  <2> QED BY <1>1, <2>1, <2>2, <2>4 DEF PInv, Ready, SolanaTakes, SVM!FromPeer
<1>2. ASSUME PInv, NEW p \in ToEvm PROVE EvmTakes(p)
  <2>1. p \in svmOutbound
    BY DEF ToEvm, InFlight
  <2>2. p.to = EvmApp /\ EVM!FromPeer(p) /\ EVM!CanSend(enforcedOptions)
    BY <1>2, <2>1, SystemAssumption DEF PInv, Ready, EVM!FromPeer, EVM!CanSend
  <2>3. gameState.gameActive /\ ~gameState.hasBall
    BY <1>2, OnePlace DEF PInv, Ready
  <2>4. p.rally < MaxUint256 /\ p.rally \in Int /\ gameState.maxRallies \in Int
    BY <1>2, SystemAssumption
       DEF PInv, InTurn, IInv, Shape, GameType, EVM!GameState
  <2>5. ~EVM!GameOver(p.value, p.rally + 1, gameState.maxRallies) =>
            p.rally + 1 < gameState.maxRallies
    BY <2>4 DEF EVM!GameOver
  <2> QED BY <2>2, <2>3, <2>4, <2>5 DEF EvmTakes
<1>3. PInv => NoBallRefused
  BY <1>1, <1>2 DEF NoBallRefused
<1> QED BY <1>3, PlayInit, PlayStep, PTL DEF PlaySpec

\* The first game keeps its ball until the contract ends it: the program's own end of a
\* game, which drops the ball, comes too late to happen, whatever limit was served.
THEOREM FirstBallIsKept ==
    ASSUME NobodyElseSends, EnoughValue(1), MAX_RALLIES_CAP > 1
    PROVE  PlaySpec => []FirstGameHasItsBall
<1>1. ASSUME PInv, serves = 1, gameState.gameActive PROVE Balls = 1
  <2>1. Balls <= 1
    BY <1>1 DEF PInv, Ready, IInv, BallConservation
  <2>2. ToSolana # {} \/ ToEvm # {} \/ game.has_ball
    BY <1>1 DEF PInv, InTurn
  <2>3. /\ IsFiniteSet(ToSolana) /\ Cardinality(ToSolana) \in Nat
        /\ IsFiniteSet(ToEvm) /\ Cardinality(ToEvm) \in Nat
    BY <1>1, InFlightFinite DEF PInv, IInv, Shape, ToSolana, ToEvm
  <2>4. /\ ToSolana # {} => Cardinality(ToSolana) # 0
        /\ ToEvm # {} => Cardinality(ToEvm) # 0
    BY <2>3, FS_EmptySet
  <2>5. Balls = Cardinality(ToSolana) + Cardinality(ToEvm)
                    + (IF gameState.hasBall THEN 1 ELSE 0) + (IF game.has_ball THEN 1 ELSE 0)
    BY DEF Balls, Bit
  <2> QED BY <2>1, <2>2, <2>3, <2>4, <2>5
<1>2. PInv => FirstGameHasItsBall
  BY <1>1 DEF FirstGameHasItsBall
<1> QED BY <1>2, PlayInit, PlayStep, PTL DEF PlaySpec
=============================================================================
