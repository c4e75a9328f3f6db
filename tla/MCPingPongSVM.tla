---------------------------- MODULE MCPingPongSVM ----------------------------
(***************************************************************************)
(* The program against an executor that presents any packet of a small     *)
(* inbox, any number of times, and callers of send_ball with any value.    *)
(***************************************************************************)
EXTENDS PingPongSVM

CONSTANTS Sepolia, EvmApp, Stranger

MCEids      == {Sepolia}
MCAddresses == {EvmApp, Stranger}

FromSepolia(guid, value) ==
    [guid |-> guid, srcEid |-> Sepolia, sender |-> EvmApp, to |-> GamePDA,
     value |-> value, rally |-> 0]

\* Below, at and above the initial value, spent, and one that wraps around u128.
MCInbox == {FromSepolia(1, 3), FromSepolia(2, 2), FromSepolia(3, 1), FromSepolia(4, 0),
            FromSepolia(5, 4), FromSepolia(6, 10)}
=============================================================================
