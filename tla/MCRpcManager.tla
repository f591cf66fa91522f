---------------------------- MODULE MCRpcManager ----------------------------
(* Names outside the table, one of which starts with an entry of it, and   *)
(* numbers on both sides of every limit.                                   *)
EXTENDS RpcManager

MCStrings == {"RPC.Listing", "Sys.Nothing"}
MCMilliseconds == {99, 100, 65736}
MCSeconds == {-1}
MCParams == {[scans |-> TRUE, regs |-> <<<<0, 2>>>>],
             [scans |-> FALSE, regs |-> << >>]}
=============================================================================
