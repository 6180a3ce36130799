SPECIFICATION BuildSpec
CONSTANTS
  Artifacts = {a1, a2}
  Other = Other
  None = None
  Size = 2
  m1 = m1
  m2 = m2
  m3 = m3
  All = All
  Modules <- MCModules
  Roots <- MCRoots
  Requires <- MCRequires
INVARIANT PrefetchIsWhole
INVARIANT InstalledIsVerified
INVARIANT BuiltImageIsLocked
INVARIANT RefusedIsFinal
PROPERTY EveryBuildEnds
CHECK_DEADLOCK FALSE
