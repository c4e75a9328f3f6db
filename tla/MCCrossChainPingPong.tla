------------------------- MODULE MCCrossChainPingPong -------------------------
(***************************************************************************)
(* Small instances of the whole system.  Addresses, endpoint ids and       *)
(* players are model values; the players of a run are interchangeable, but *)
(* no symmetry is declared, for some of the runs check liveness.           *)
(***************************************************************************)
EXTENDS CrossChainRally

=============================================================================
