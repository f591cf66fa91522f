SPECIFICATION Spec
CONSTANTS
  Values <- MCValues
  KeySize = 2
  MaxTokens = 11
  MaxLevel = 4
INVARIANT TypeOK
INVARIANT ClosesToJson
INVARIANT BinaryMirrorsText
