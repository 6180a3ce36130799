SPECIFICATION MCSpec
CONSTANTS
  b1 = b1
  b2 = b2
  h1 = h1
  h2 = h2
  Bases = {b1, b2}
  Heads = {h1, h2}
  Reviewable <- MCReviewable
  Assets = {"prompt", "schema"}
  None = None
  MaxCommands = 4
  MaxMoves = 2
  MaxBytes = 5
  Chunk = 3
  Capacity = 4
  MaxOutput = 8
  Timeout = 2
INVARIANT VerifiedIsTrue
INVARIANT ReviewWasLive
INVARIANT FailedCommandChangesNothing
PROPERTY BoundReviewIsKept
INVARIANT OutputIsComplete
INVARIANT LegalOutputIsAccepted
PROPERTY EveryCallEnds
CHECK_DEADLOCK FALSE
