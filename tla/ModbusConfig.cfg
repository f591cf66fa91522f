SPECIFICATION FairSpec
CONSTANTS
  MODBUS_CONFIGS = 3
  Params <- MCZeroParams
  MaxErrors = 2
INVARIANT TypeOK
INVARIANT NoDuplicates
INVARIANT ParsedCallsAreTheString
PROPERTY ParseReturnsUnlessZero
