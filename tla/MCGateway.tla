----------------------------- MODULE MCGateway ------------------------------
(* A board that earlier requests have enabled and given two configurations *)
(* (one of them with an address that does not parse, in MCBadFirst), and   *)
(* the requests that can disturb it.                                       *)
EXTENDS Gateway

Tcp(n) == [bus |-> "tcp", ncalls |-> n]
Bad == [bus |-> "bad", ncalls |-> 1]

MCCommands == {<<"RPC.Disable", "modbus">>, <<"RPC.Enabled", "gpio">>,
               <<"CFG.Modbus.AddCall", Tcp(1)>>, <<"CFG.Modbus.AddCall", Bad>>}
MCFewCommands == {<<"CFG.Modbus.AddCall", Tcp(1)>>, <<"RPC.Disable", "modbus">>}
MCEnabled == {"modbus", "sysinfo"}
MCTwo == <<Tcp(2)>>
MCBadFirst == <<Bad, Tcp(1)>>
=============================================================================
