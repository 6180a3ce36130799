SPECIFICATION Spec
CONSTANTS
  r1 = r1
  r2 = r2
  v1 = v1
  v2 = v2
  Runs = {r1}
  Releases = {v1}
  CommitOf <- MCCommitOf
  None = None
  Files <- MCFiles
  MaxAttempts <- MCTwoAttempts
INVARIANT EveryImageIsScanned
CHECK_DEADLOCK FALSE
