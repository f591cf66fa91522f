--------------------------- MODULE MCModbusConfig ---------------------------
(* Strings with fewer, as many and more register sets than there is room   *)
(* for, one that does not scan, invalid sets and a wrapping start.         *)
EXTENDS ModbusConfig

Cfg(regs) == [scans |-> TRUE, regs |-> regs]
MCParams == {Cfg(<<<<0, 2>>>>), Cfg(<<<<9, 1>>>>), Cfg(<<<<65540, 1>>, << >>, <<7, 300>>>>),
             Cfg(<<<< >>, <<1, 1>>, <<2, 1>>, <<3, 1>>, <<4, 1>>>>),
             [scans |-> FALSE, regs |-> << >>]}
MCZeroParams == MCParams \cup {Cfg(<<<<0, 256>>, <<1, 1>>>>)}
=============================================================================
