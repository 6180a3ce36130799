SPECIFICATION MCSpec
CONSTANTS
  Procs = {p1, p2}
  Commands = {"push-ready", "validate", "review", "verify", "pre-push"}
  Commits <- MCAllCommits
  Ancestor <- MCAncestor
  PolicyOf <- MCPolicyOf
  Mergeable <- MCMergeable
  Branches <- MCBranches
  Develop = "develop"
  Detached = "detached"
  NoCommit = "none"
  NoValue = NoValue
  NoFile = NoFile
  TornFile = TornFile
  Clean = "clean"
  Edits = {"edit"}
  MaxMoves = 2
  MaxRuns = 3
INVARIANT EvidenceIsEarned
INVARIANT AuthorisedIsCertified
INVARIANT BaseIsFresh
INVARIANT LeakFailsClosed
PROPERTY ImplementsGate
PROPERTY CalmRunIsAccepted
PROPERTY ReadyHookIsAccepted
SYMMETRY SymmetryProcs
CHECK_DEADLOCK FALSE
