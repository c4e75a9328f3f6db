---------------------------- MODULE ServeCall_proofs ----------------------------
(***************************************************************************)
(* serve with its call to the caller implements serve as one step, for     *)
(* any inbox, fees, limits and owner.                                      *)
(***************************************************************************)
EXTENDS ServeCall, TLAPS

\* While the caller runs the contract says that it has the ball.
IInv ==
    /\ gameState \in GameState
    /\ serves \in Nat
    /\ caller \in {"nobody"} \cup Callers
    /\ caller # "nobody" => gameState.hasBall

\* The number of games served, counting one that is being served.
Serves == serves + Bit(caller # "nobody")

-----------------------------------------------------------------------------
\* What a state of the game is, field by field.
LEMMA GameStateFields ==
    ASSUME gameState \in GameState
    PROVE  /\ gameState.maxRallies \in Nat
           /\ gameState.hasBall \in BOOLEAN /\ gameState.gameActive \in BOOLEAN
           /\ gameState = [maxRallies |-> gameState.maxRallies, hasBall |-> gameState.hasBall,
                           gameActive |-> gameState.gameActive]
  BY DEF GameState

\* The mapping is the identity but while the caller runs.
LEMMA SettledIs ==
    ASSUME gameState \in GameState
    PROVE  /\ caller = "nobody" => Settled = gameState
           /\ caller # "nobody" => Settled = [gameState EXCEPT !.hasBall = FALSE]
<1>1. CASE caller = "nobody"
  <2>1. Settled = [gameState EXCEPT !.hasBall = gameState.hasBall]
    <3>1. (gameState.hasBall /\ caller = "nobody") = gameState.hasBall
      BY <1>1, GameStateFields
    <3> QED BY <3>1 DEF Settled
  <2> QED BY <1>1, <2>1, GameStateFields
<1>2. CASE caller # "nobody"
  <2>1. (gameState.hasBall /\ caller = "nobody") = FALSE
    BY <1>2
  <2> QED BY <1>2, <2>1 DEF Settled
<1> QED BY <1>1, <1>2

\* Any ball that is taken leaves a proper state of the game.
LEMMA ReceiveType ==
    ASSUME gameState \in GameState, NEW p, NEW fee, ReceiveBall(p, fee)
    PROVE  gameState' \in GameState
<1>1. PICK limit \in 0 .. MAX_RALLIES_CAP : TakeBall(p.value, p.rally + 1, limit, fee)
  BY ConstantsAssumption
     DEF ReceiveBall, InitializeGameFromPeer, ContinueGame, GameState
<1>2. \/ gameState' = [maxRallies |-> limit, hasBall |-> TRUE, gameActive |-> FALSE]
      \/ gameState' = [maxRallies |-> limit, hasBall |-> FALSE, gameActive |-> TRUE]
  BY <1>1 DEF TakeBall, SendBack
<1>3. TRUE \in BOOLEAN /\ FALSE \in BOOLEAN
  OBVIOUS
<1>4. CASE gameState' = [maxRallies |-> limit, hasBall |-> TRUE, gameActive |-> FALSE]
  BY <1>3, <1>4 DEF GameState
<1>5. CASE gameState' = [maxRallies |-> limit, hasBall |-> FALSE, gameActive |-> TRUE]
  BY <1>3, <1>5 DEF GameState
<1> QED BY <1>2, <1>4, <1>5

LEMMA ReceiveServes == ASSUME NEW p, NEW fee, ReceiveBall(p, fee) PROVE serves' = serves
  BY DEF ReceiveBall

\* The contract's own steps keep the types.
LEMMA NextTypes ==
    ASSUME gameState \in GameState, serves \in Nat, Next
    PROVE  gameState' \in GameState /\ serves' \in Nat
<1>1. CASE Owner
  BY <1>1 DEF Owner, PauseGame, Withdraw, SetPeer, SetEnforcedOptions, GameState, play
<1>2. CASE Anybody
  <2>1. ASSUME NEW maxRallies, NEW extra, NEW paid, NEW fee,
               Serve(maxRallies, extra, paid, fee)
        PROVE  gameState' \in GameState /\ serves' \in Nat
    <3>1. maxRallies \in 0 .. MAX_RALLIES_CAP
      BY <2>1, ConstantsAssumption DEF Serve, StartServe, ValidMaxRallies
    <3>2. gameState' = [maxRallies |-> maxRallies, hasBall |-> FALSE, gameActive |-> TRUE]
      BY <2>1 DEF Serve, Served
    <3>3. gameState' \in GameState
      BY <3>1, <3>2 DEF GameState
    <3> QED BY <2>1, <3>3 DEF Serve
  <2>2. ASSUME NEW amount, Fund(amount) PROVE gameState' \in GameState /\ serves' \in Nat
    BY <2>2 DEF Fund, play
  <2> QED BY <1>2, <2>1, <2>2 DEF Anybody
<1>3. ASSUME NEW p \in Inbox, LzReceive(p) PROVE gameState' \in GameState /\ serves' \in Nat
  <2>1. CASE IgnoreDuplicate(p)
    BY <2>1 DEF IgnoreDuplicate, vars, play
  <2>2. ASSUME NEW fee \in Fees, ReceiveBall(p, fee)
        PROVE  gameState' \in GameState /\ serves' \in Nat
    BY <2>2, ReceiveType, ReceiveServes
  <2> QED BY <1>3, <2>1, <2>2 DEF LzReceive
<1> QED BY <1>1, <1>2, <1>3 DEF Next

-----------------------------------------------------------------------------
\* With nobody's code running, and none about to, the mapping is the identity.
LEMMA IdleStep ==
    ASSUME IInv, IInv', caller = "nobody", caller' = "nobody", Next
    PROVE  Atomic!Next
<1>1. /\ Settled = gameState /\ Settled' = gameState'
      /\ Serves = serves /\ Serves' = serves'
  BY DEF IInv, Settled, Serves, Bit, GameState
<1>2. ASSUME NEW maxRallies \in 0 .. MAX_RALLIES_CAP + 1, NEW extra \in BOOLEAN,
             NEW paid \in Fees, NEW fee \in Fees, Serve(maxRallies, extra, paid, fee)
      PROVE  Atomic!Serve(maxRallies, extra, paid, fee)
  BY <1>1, <1>2
     DEF Serves, Serve, StartServe, Served, ValidMaxRallies, CanSend, CombineOptions, LzSend,
         ledger, Atomic!Serve, Atomic!StartServe, Atomic!Served, Atomic!ValidMaxRallies,
         Atomic!CanSend, Atomic!CombineOptions, Atomic!LzSend, Atomic!ledger
<1>3. ASSUME NEW amount, Fund(amount) PROVE Atomic!Fund(amount)
  BY <1>1, <1>3 DEF Serves, Fund, play, wire, Atomic!Fund, Atomic!play, Atomic!wire
<1>4. ASSUME Owner PROVE Atomic!Owner
  <2>1. ASSUME PauseGame PROVE Atomic!PauseGame
    BY <1>1, <2>1
       DEF Serves, PauseGame, wire, ledger, Atomic!PauseGame, Atomic!wire, Atomic!ledger
  <2>2. ASSUME NEW amount, Withdraw(amount) PROVE Atomic!Withdraw(amount)
    BY <1>1, <2>2
       DEF Serves, Withdraw, play, wire, Atomic!Withdraw, Atomic!play, Atomic!wire
  <2>3. ASSUME NEW eid, NEW a, SetPeer(eid, a) PROVE Atomic!SetPeer(eid, a)
    BY <1>1, <2>3
       DEF Serves, SetPeer, play, wire, Atomic!SetPeer, Atomic!play, Atomic!wire
  <2>4. ASSUME SetEnforcedOptions PROVE Atomic!SetEnforcedOptions
    BY <1>1, <2>4
       DEF Serves, SetEnforcedOptions, play, wire,
           Atomic!SetEnforcedOptions, Atomic!play, Atomic!wire
  <2> QED BY <1>4, <2>1, <2>2, <2>3, <2>4 DEF Owner, Atomic!Owner
<1>5. ASSUME NEW p \in Inbox, LzReceive(p) PROVE Atomic!LzReceive(p)
  <2>1. ASSUME IgnoreDuplicate(p) PROVE Atomic!IgnoreDuplicate(p)
    BY <1>1, <2>1
       DEF Serves, IgnoreDuplicate, FromPeer, Duplicate, vars, play, wire, ledger,
           Atomic!IgnoreDuplicate, Atomic!FromPeer, Atomic!Duplicate, Atomic!vars,
           Atomic!play, Atomic!wire, Atomic!ledger
  <2>2. ASSUME NEW fee \in Fees, ReceiveBall(p, fee) PROVE Atomic!ReceiveBall(p, fee)
    <3>1. ASSUME NEW limit, TakeBall(p.value, p.rally + 1, limit, fee)
          PROVE  Atomic!TakeBall(p.value, p.rally + 1, limit, fee)
      BY <1>1, <3>1
         DEF TakeBall, SendBack, GameOver, Decrement, CanSend, Affordable, SelfCall, LzSend, wire,
             Atomic!TakeBall, Atomic!SendBack, Atomic!GameOver, Atomic!Decrement,
             Atomic!CanSend, Atomic!Affordable, Atomic!SelfCall, Atomic!LzSend, Atomic!wire
    <3>2. Atomic!InitializeGameFromPeer(p, fee) \/ Atomic!ContinueGame(p, fee)
      BY <1>1, <2>2, <3>1
         DEF ReceiveBall, InitializeGameFromPeer, ContinueGame,
             Atomic!InitializeGameFromPeer, Atomic!ContinueGame
    <3> QED
      BY <1>1, <2>2, <3>2
         DEF Serves, ReceiveBall, FromPeer, Duplicate,
             Atomic!ReceiveBall, Atomic!FromPeer, Atomic!Duplicate
  <2> QED BY <1>5, <2>1, <2>2 DEF LzReceive, Atomic!LzReceive
<1> QED
  BY <1>2, <1>3, <1>4, <1>5 DEF Next, Anybody, Atomic!Next, Atomic!Anybody

\* The mapping counts the serve, and takes the ball away, when the call out begins.
LEMMA CallOutStep ==
    ASSUME IInv, NEW maxRallies \in 0 .. MAX_RALLIES_CAP + 1, NEW extra \in BOOLEAN,
           NEW paid \in Fees, NEW fee \in Fees, NEW who \in Callers,
           ServeUntilRefund(maxRallies, extra, paid, fee, who)
    PROVE  IInv' /\ Atomic!Next
<1>1. /\ caller = "nobody" /\ caller' = who /\ who # "nobody"
      /\ gameState' = [maxRallies |-> maxRallies, hasBall |-> TRUE, gameActive |-> TRUE]
      /\ serves' = serves /\ maxRallies \in 0 .. MAX_RALLIES_CAP
  BY ConstantsAssumption DEF ServeUntilRefund, Serving, Callers, StartServe, ValidMaxRallies
<1>2. IInv'
  <2>1. gameState' \in GameState /\ gameState'.hasBall
    BY <1>1 DEF GameState
  <2> QED BY <1>1, <2>1 DEF IInv
<1>3. /\ Settled = gameState
      /\ Settled' = [maxRallies |-> maxRallies, hasBall |-> FALSE, gameActive |-> TRUE]
      /\ Serves = serves /\ Serves' = serves + 1
  <2>1. Settled = gameState
    BY <1>1, SettledIs DEF IInv
  <2>2. (gameState'.hasBall /\ caller' = "nobody") = FALSE
    BY <1>1
  <2>3. Settled' = [gameState' EXCEPT !.hasBall = FALSE]
    BY <2>2 DEF Settled
  <2>4. Serves = serves /\ Serves' = serves + 1
    BY <1>1 DEF IInv, Serves, Bit
  <2> QED BY <1>1, <2>1, <2>3, <2>4
<1>4. StartServe(maxRallies, extra, paid, fee)
  BY DEF ServeUntilRefund
<1>5. Atomic!Serve(maxRallies, extra, paid, fee)
  BY <1>3, <1>4
     DEF Serves, StartServe, ValidMaxRallies, CanSend, CombineOptions, LzSend,
         ledger, Atomic!Serve, Atomic!StartServe, Atomic!Served, Atomic!ValidMaxRallies,
         Atomic!CanSend, Atomic!CombineOptions, Atomic!LzSend, Atomic!ledger
<1> QED BY <1>2, <1>5 DEF Atomic!Next, Atomic!Anybody

\* When the call returns the mapping has already done what lines 73 and 74 do.
LEMMA ReturnStep ==
    ASSUME IInv, ReturnFromRefund
    PROVE  IInv' /\ UNCHANGED Atomic!vars
<1>1. /\ caller # "nobody" /\ caller' = "nobody"
      /\ gameState' = [gameState EXCEPT !.hasBall = FALSE]
      /\ serves' = serves + 1
      /\ UNCHANGED <<ballValue, rallyCount, processedGuid, ledger, wire, pauses>>
  BY DEF ReturnFromRefund
<1>2. IInv'
  <2>1. gameState' \in GameState
    BY <1>1 DEF IInv, GameState
  <2> QED BY <1>1, <2>1 DEF IInv
<1>3. Settled' = Settled /\ Serves' = Serves
  <2>1. Settled = gameState'
    BY <1>1, SettledIs DEF IInv
  <2>2. gameState'.hasBall = FALSE
    BY <1>1 DEF IInv, GameState
  <2>3. (gameState'.hasBall /\ caller' = "nobody") = gameState'.hasBall
    BY <2>2
  <2>4. Settled' = [gameState' EXCEPT !.hasBall = gameState'.hasBall]
    BY <2>3 DEF Settled
  <2>5. gameState' \in GameState
    BY <1>2 DEF IInv
  <2>6. Settled' = gameState'
    BY <2>4, <2>5 DEF GameState
  <2>7. Serves' = Serves
    BY <1>1 DEF IInv, Serves, Bit
  <2> QED BY <2>1, <2>6, <2>7
<1> QED
  BY <1>1, <1>2, <1>3
     DEF Serves, ledger, wire, Atomic!vars, Atomic!play, Atomic!ledger, Atomic!wire

\* No ball is taken, and none is sent, while the caller runs.
LEMMA CallerStep ==
    ASSUME IInv, WhileCallerRuns
    PROVE  IInv' /\ [Atomic!Next]_(Atomic!vars)
<1>1. caller # "nobody" /\ caller' = caller /\ gameState.hasBall /\ UNCHANGED wire
  BY DEF WhileCallerRuns, IInv
<1>2. ASSUME NEW amount \in 1 .. MaxBalance, Fund(amount) PROVE IInv' /\ Atomic!Next
  <2>1. IInv' /\ UNCHANGED <<gameState, serves, caller>>
    BY <1>1, <1>2 DEF Fund, play, IInv
  <2>2. Settled' = Settled /\ Serves' = Serves
    BY <2>1 DEF Settled, Serves
  <2>3. Atomic!Fund(amount)
    BY <1>2, <2>2 DEF Serves, Fund, play, wire, Atomic!Fund, Atomic!play, Atomic!wire
  <2> QED BY <2>1, <2>3 DEF Atomic!Next, Atomic!Anybody
<1>3. ASSUME NEW p \in Inbox, LzReceive(p) PROVE IInv' /\ UNCHANGED Atomic!vars
  <2>1. IgnoreDuplicate(p)
    BY <1>1, <1>3 DEF LzReceive, ReceiveBall
  <2>2. IInv' /\ UNCHANGED <<vars, caller>>
    BY <1>1, <2>1 DEF IgnoreDuplicate, IInv, vars, play
  <2> QED
    BY <2>2 DEF Settled, vars, play, wire, ledger, Atomic!vars, Atomic!play, Atomic!wire,
                Atomic!ledger
<1>4. ASSUME Owner PROVE IInv' /\ Atomic!Next
  <2>1. ASSUME PauseGame PROVE IInv' /\ Atomic!PauseGame
    <3>1. /\ gameState.gameActive /\ gameState' = [gameState EXCEPT !.gameActive = FALSE]
          /\ serves' = serves
      BY <2>1 DEF PauseGame
    <3>2. IInv'
      BY <1>1, <3>1 DEF IInv, GameState
    <3>3. /\ Settled.gameActive /\ Settled' = [Settled EXCEPT !.gameActive = FALSE]
          /\ Serves' = Serves
      BY <1>1, <3>1 DEF IInv, Settled, Serves, GameState
    <3> QED
      BY <2>1, <3>2, <3>3
         DEF Serves, PauseGame, wire, ledger, Atomic!PauseGame, Atomic!wire, Atomic!ledger
  <2>2. ASSUME UNCHANGED <<play, wire, serves, pauses>>
        PROVE  IInv' /\ UNCHANGED <<Settled, Serves>>
    BY <1>1, <2>2 DEF play, IInv, Settled, Serves
  <2>3. ASSUME NEW amount, Withdraw(amount) PROVE IInv' /\ Atomic!Withdraw(amount)
    BY <2>2, <2>3 DEF Serves, Withdraw, play, wire, Atomic!Withdraw, Atomic!play, Atomic!wire
  <2>4. ASSUME NEW eid, NEW a, SetPeer(eid, a) PROVE IInv' /\ Atomic!SetPeer(eid, a)
    BY <2>2, <2>4 DEF Serves, SetPeer, play, wire, Atomic!SetPeer, Atomic!play, Atomic!wire
  <2>5. ASSUME SetEnforcedOptions PROVE IInv' /\ Atomic!SetEnforcedOptions
    BY <2>2, <2>5
       DEF Serves, SetEnforcedOptions, play, wire,
           Atomic!SetEnforcedOptions, Atomic!play, Atomic!wire
  <2> QED BY <1>4, <2>1, <2>3, <2>4, <2>5 DEF Owner, Atomic!Next, Atomic!Owner
<1> QED BY <1>2, <1>3, <1>4 DEF WhileCallerRuns

-----------------------------------------------------------------------------
LEMMA InitMapped == ServeInit => IInv /\ Atomic!Init
<1> SUFFICES ASSUME ServeInit PROVE IInv /\ Atomic!Init
  OBVIOUS
<1>1. /\ caller = "nobody" /\ serves = 0
      /\ gameState = [maxRallies |-> 0, hasBall |-> FALSE, gameActive |-> FALSE]
  BY DEF ServeInit, Init, Unplayed
<1>2. IInv
  BY <1>1, ConstantsAssumption DEF IInv, GameState
<1>3. Settled = gameState /\ Serves = 0
  BY <1>1, <1>2, SettledIs DEF IInv, Serves, Bit
<1> QED
  BY <1>2, <1>3 DEF Serves, ServeInit, Init, Unplayed, Atomic!Init, Atomic!Unplayed

LEMMA StepMapped == IInv /\ [ServeNext]_serveVars => IInv' /\ [Atomic!Next]_(Atomic!vars)
<1> SUFFICES ASSUME IInv, [ServeNext]_serveVars PROVE IInv' /\ [Atomic!Next]_(Atomic!vars)
  OBVIOUS
<1>1. CASE Otherwise
  <2>1. caller = "nobody" /\ caller' = "nobody" /\ Next
    BY <1>1 DEF Otherwise
  <2>2. IInv'
    BY <2>1, NextTypes DEF IInv
  <2> QED BY <2>1, <2>2, IdleStep
<1>2. CASE UNCHANGED serveVars
  <2>1. UNCHANGED <<vars, caller>>
    BY <1>2 DEF serveVars
  <2>2. IInv'
    BY <2>1 DEF IInv, vars, play
  <2> QED
    BY <2>1, <2>2
       DEF Settled, vars, play, wire, ledger, Atomic!vars, Atomic!play, Atomic!wire,
           Atomic!ledger
<1> QED BY <1>1, <1>2, CallOutStep, ReturnStep, CallerStep DEF ServeNext

\* serve acts as one step, however the caller uses the refund: every behaviour with calls
\* inside serve is one of PingPongEVM, whose theorems therefore hold for it.
THEOREM ServeIsAtomic == ServeSpec => ActsAtomically
  BY InitMapped, StepMapped, PTL DEF ServeSpec, ActsAtomically, Atomic!Spec
=============================================================================
