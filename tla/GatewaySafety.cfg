SPECIFICATION Spec
CONSTANTS
  MaxRequests = 2
  MaxInflight = 1
  MODBUS_CONFIGS = 2
  Commands <- MCCommands
  Enabled0 <- MCEnabled
  Cfgs0 <- MCTwo
INVARIANT TypeOK
INVARIANT RepliesAreWhole
INVARIANT UninterruptedReportsAreWhole
INVARIANT ConfIsOfTheReport
