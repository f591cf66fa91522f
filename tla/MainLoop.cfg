SPECIFICATION Spec
CONSTANTS
  Wrap <- MCWrap
  Wide <- MCWide
  Timesteps <- MCTimesteps
  InitialStep = 3
  MaxRound = 1
  Horizon = 12
INVARIANT OnTime
PROPERTY NotEarly
