------------------------------- MODULE ServeCall -------------------------------
(***************************************************************************)
(* serve, split where it lets go of control: inside _lzSend (line 65) the  *)
(* endpoint refunds what was paid above the fee to the caller, whose code  *)
(* runs before hasBall is reset (line 73) and may call the contract.       *)
(*                                                                         *)
(* A transaction that reverts as a whole is no step here either, so only   *)
(* calls that return are followed.                                         *)
(***************************************************************************)
EXTENDS PingPongEVM

VARIABLE
    caller               \* whose code runs in the midst of serve

serveVars == <<vars, caller>>

Callers == {"owner", "other"}

ServeInit == Init /\ caller = "nobody"

\* Bug: hasBall is not set before the call (line 52).
ServingBug(limit) == [maxRallies |-> limit, hasBall |-> FALSE, gameActive |-> TRUE]

\* The state the caller's code finds.
Serving(limit) == [maxRallies |-> limit, hasBall |-> TRUE, gameActive |-> TRUE]

ServeUntilRefund(maxRallies, extra, paid, fee, who) ==
    /\ caller = "nobody"
    /\ paid > fee
    /\ StartServe(maxRallies, extra, paid, fee)
    /\ gameState' = Serving(maxRallies)
    /\ caller' = who
    /\ UNCHANGED serves

\* Lines 73 and 74, whatever the caller did.
ReturnFromRefund ==
    /\ caller # "nobody"
    /\ gameState' = [gameState EXCEPT !.hasBall = FALSE]
    /\ serves' = serves + 1
    /\ caller' = "nobody"
    /\ UNCHANGED <<ballValue, rallyCount, processedGuid, ledger, wire, pauses>>

\* What the caller's code may do meanwhile.  The endpoint refuses to send within a send,
\* so neither serve nor a reply succeeds; a packet may be executed by anybody.
WhileCallerRuns ==
    /\ caller # "nobody"
    /\ \/ \E amount \in 1 .. MaxBalance : Fund(amount)
       \/ \E p \in Inbox : LzReceive(p)
       \/ caller = "owner" /\ Owner
    /\ UNCHANGED <<wire, caller>>

Otherwise == caller = "nobody" /\ Next /\ UNCHANGED caller

ServeNext ==
    \/ \E maxRallies \in 0 .. MAX_RALLIES_CAP + 1, extra \in BOOLEAN, paid, fee \in Fees,
          who \in Callers : ServeUntilRefund(maxRallies, extra, paid, fee, who)
    \/ ReturnFromRefund
    \/ WhileCallerRuns
    \/ Otherwise

ServeSpec == ServeInit /\ [][ServeNext]_serveVars

-----------------------------------------------------------------------------
\* The game as it stands once the running serve has returned.
Settled == [gameState EXCEPT !.hasBall = @ /\ caller = "nobody"]

Atomic == INSTANCE PingPongEVM WITH
              gameState <- Settled, serves <- serves + Bit(caller # "nobody")

\* The caller's code sees nothing it could turn into a step of its own kind: with its
\* calls inside, serve is still the one step PingPongEVM takes it for, followed by them.
\* A ball that arrives there is refused (line 116) because hasBall was set before, not
\* taken and then forgotten when line 73 resets the flag.
ActsAtomically == Atomic!Spec
=============================================================================
