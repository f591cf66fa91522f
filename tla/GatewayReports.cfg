SPECIFICATION Spec
CONSTANTS
  MaxRequests = 1
  MaxInflight = 1
  MODBUS_CONFIGS = 2
  Commands <- MCFewCommands
  Enabled0 <- MCEnabled
  Cfgs0 <- MCTwo
INVARIANT ReportsAreClosed
