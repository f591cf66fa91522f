SPECIFICATION WifiFairSpec
CONSTANTS
  Networks <- MCNetworks
  MaxRestarts = 2
INVARIANT WaitsForWhatWasAsked
PROPERTY OwnerReachesBoard
