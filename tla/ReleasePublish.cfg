SPECIFICATION Spec
CONSTANTS
  r1 = r1
  r2 = r2
  v1 = v1
  v2 = v2
  Runs = {r1, r2}
  Releases = {v1, v2}
  CommitOf <- MCCommitOf
  None = None
  Files <- MCFiles
  MaxAttempts <- MCAttempts
INVARIANT SignedIsScanned
INVARIANT TaggedIsComplete
INVARIANT AttachedEvidenceIsTrue
INVARIANT EvidenceIsWhole
INVARIANT UndisturbedTagsVerify
SYMMETRY MCSymmetry
CHECK_DEADLOCK FALSE
