---------------------------- MODULE CrossChainRally ----------------------------
(***************************************************************************)
(* The two chains, the executor and the players implement Rally.           *)
(***************************************************************************)
EXTENDS CrossChainPingPong

\* Until a pause there is at most one ball (BallConservation): this is where it is.
BallAt ==
    IF pauses > 0             THEN "paused"
    ELSE IF serves = 0        THEN "unserved"
    ELSE IF gameState.hasBall THEN "evm"
    ELSE IF game.has_ball     THEN "solana"
    ELSE IF ToSolana # {}     THEN "toSolana"
    ELSE IF ToEvm # {}        THEN "toEvm"
    ELSE "lost"

BallValue ==
    CASE BallAt = "evm"      -> ballValue
      [] BallAt = "solana"   -> game.ball_value
      [] BallAt = "toSolana" -> (CHOOSE p \in ToSolana : TRUE).value
      [] BallAt = "toEvm"    -> (CHOOSE p \in ToEvm : TRUE).value
      [] OTHER               -> 0

R == INSTANCE Rally WITH at <- BallAt, value <- BallValue

\* With one client at a time, every step of the system moves the one ball
\* as Rally allows, or leaves it alone: a retried delivery, a late fetch, a closed game
\* or a change of peers never forges, doubles or revalues it.
ImplementsRally == R!Spec

\* Whoever calls send_ball, with whatever value, and however runs of clients overlap,
\* there is still one ball, served and hit as Rally allows: send_ball.rs:42 lets callers
\* choose the value of a return, and nothing else.
ImplementsFreeRally == R!FreeSpec

\* While packets are retried, funding arrives and players run their clients, however
\* the runs overlap, the ball never stays in flight or on Solana for good: no reply is one
\* rally too late for _sendBack (line 148), and no delivery is refused for ever.
KeepsMoving == R!Moving
=============================================================================
