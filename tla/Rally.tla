-------------------------------- MODULE Rally --------------------------------
(***************************************************************************)
(* What the two chains promise together: a single ball that goes round.    *)
(* Each side's hit costs it one, nothing else changes its value, and it is *)
(* served again only from the contract that holds it.  Solana may lose the *)
(* ball, and then it stays lost; a pause gives up the promise.             *)
(***************************************************************************)
EXTENDS Integers

CONSTANT INITIAL_BALL_VALUE

VARIABLES
    at,      \* where the ball is
    value    \* its value, 0 when there is no ball

vars == <<at, value>>

Places == {"unserved", "toSolana", "solana", "toEvm", "evm", "lost", "paused"}

Move(from, to) == at = from /\ at' = to

Init == at = "unserved" /\ value = 0

Serve == (Move("unserved", "toSolana") \/ Move("evm", "toSolana")) /\ value' = INITIAL_BALL_VALUE

HitOnSolana ==
    /\ value > 0
    /\ \/ Move("toSolana", "solana") /\ value' = value - 1
       \/ Move("toSolana", "lost") /\ value' = 0

Return == Move("solana", "toEvm") /\ UNCHANGED value

HitOnEvm == Move("toEvm", "toSolana") /\ value' = value - 1

GameOver == Move("toEvm", "evm") /\ UNCHANGED value

CloseOnSolana == Move("solana", "lost") /\ value' = 0

Pause == at \notin {"unserved", "evm", "paused"} /\ at' = "paused" /\ value' = 0

Next == Serve \/ HitOnSolana \/ Return \/ HitOnEvm \/ GameOver \/ CloseOnSolana \/ Pause

Spec == Init /\ [][Next]_vars

\* Whoever names the value to return may name any but zero.
ReturnAnyValue == Move("solana", "toEvm") /\ value' > 0

FreeSpec == Init /\ [][Next \/ ReturnAnyValue]_vars

\* A ball that is about does not stay where it is.
Moving == \A place \in {"toSolana", "solana", "toEvm"} : at = place ~> at # place
=============================================================================
