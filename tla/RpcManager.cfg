SPECIFICATION Spec
CONSTANTS
  MODBUS_CONFIGS = 1
  Strings <- MCStrings
  Milliseconds <- MCMilliseconds
  Seconds <- MCSeconds
  Never = 1000000
  Params <- MCParams
CHECK_DEADLOCK FALSE
INVARIANT TypeOK
INVARIANT StatusStandsBesideResult
INVARIANT ResetAfterReply
PROPERTY RejectedChangesNothing
