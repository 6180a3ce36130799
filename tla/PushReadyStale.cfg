SPECIFICATION MCFetchSpec
CONSTANTS
  Procs = {p1}
  Commands = {"push-ready", "validate", "review", "verify", "pre-push"}
  Commits <- MCAllCommits
  Ancestor <- MCAncestor
  PolicyOf <- MCPolicyOf
  Mergeable <- MCMergeable
  Branches <- MCBranches
  Develop = "develop"
  Detached = "detached"
  NoCommit = "none"
  NoValue = NoValue
  NoFile = NoFile
  TornFile = TornFile
  Clean = "clean"
  Edits = {"edit"}
  MaxMoves = 2
  MaxRuns = 1
INVARIANT BaseIsNeverStale
CHECK_DEADLOCK FALSE
