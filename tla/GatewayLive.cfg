SPECIFICATION FairSpec
CONSTANTS
  MaxRequests = 1
  MaxInflight = 1
  MODBUS_CONFIGS = 2
  Commands <- MCFewCommands
  Enabled0 <- MCEnabled
  Cfgs0 <- MCTwo
PROPERTY LoopComesRound
PROPERTY RequestsAreServed
