SPECIFICATION Spec
CONSTANTS
  feature = feature
  other = other
  develop = develop
  main = main
  None = None
  Heads <- MCHeads
  Bases <- MCBases
  ConfigOf <- MCConfigOf
  ConfigAt <- MCConfigAt
  Edits <- MCEdits
  Tolerance = 1
  Skew = 1
  MaxTime = 4
  MaxMoves = 3
  MaxJumps = 2
INVARIANT OneSwitchIsCaught
INVARIANT AuthorisedIsYoung
INVARIANT SteadyHookIsAccepted
CHECK_DEADLOCK FALSE
