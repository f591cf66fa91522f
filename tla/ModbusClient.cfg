SPECIFICATION Spec
CONSTANTS
  Units = {1, 2}
  Quantities = {1, 2}
  Timeouts = {1, 2}
  MODBUS_TIMEOUT = 2
  Wrap = 4
  MaxStall = 2
  Cuts = {1, 7}
  MaxRequests = 2
INVARIANTS TypeOK TcpAnswerIsOwn RtuRegistersAreOneAnswers WaitIsBounded
PROPERTIES MismatchOnlyAfterCutOff GivesUpEarlyOnlyAtWrap
