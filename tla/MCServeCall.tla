------------------------------ MODULE MCServeCall ------------------------------
(***************************************************************************)
(* The contract of MCPingPongEVM, called by somebody who pays more than    *)
(* the fee and has code to run when the rest is refunded.                  *)
(***************************************************************************)
EXTENDS ServeCall, MCPingPongEVM
=============================================================================
