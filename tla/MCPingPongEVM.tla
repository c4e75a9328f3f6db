---------------------------- MODULE MCPingPongEVM ----------------------------
(***************************************************************************)
(* The contract against an executor that may present any packet of a small *)
(* inbox at any time and any number of times: duplicates, packets of       *)
(* another chain, packets of an address that is not the peer.              *)
(***************************************************************************)
EXTENDS PingPongEVM

CONSTANTS Solana, OtherChain, GamePDA, ProgramId

MCEids      == {Solana, OtherChain}
MCAddresses == {GamePDA, ProgramId}

FromSolana(guid, value, rally) ==
    [guid |-> guid, srcEid |-> Solana, sender |-> GamePDA, to |-> EvmApp,
     value |-> value, rally |-> rally]

MCInbox ==
    { FromSolana(1, 2, 0), FromSolana(2, 1, 1), FromSolana(3, 0, 0), FromSolana(4, 3, 7),
      [FromSolana(5, 2, 0) EXCEPT !.srcEid = OtherChain] }
=============================================================================
