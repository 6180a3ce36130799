SPECIFICATION MCSpec
CONSTANTS
  WordCharacters <- MCWordCharacters
  Alphabet <- MCAlphabet
  Texts <- MCTexts
  FileTexts <- MCFileTexts
  DiffTexts <- MCDiffTexts
  DiffPiece = 3
  Path = "x"
  Documents <- MCDocuments
  Retired <- MCRetired
  PackerPaths = {"y"}
  NpmrcPaths = {"y"}
  DiffHeaders <- MCDiffHeaders
  OldHeaders <- MCOldHeaders
  NewHeaders <- MCNewHeaders
  HunkHeaders <- MCHunkHeaders
  NewScanner <- scanner
  advance <- MCadvance
  finish <- MCfinish
  FoundIn <- MCFoundIn
  BeginsKey <- MCBeginsKey
  Absent = Absent
  Paths <- MCPaths
  Contents <- MCContents
  Unsafe = {"secret"}
  MergeBase <- MCMergeBase
  Tip <- MCTip
  HeadCommit <- MCHead
  MaxMoves = 4
INVARIANT LinesAreExact
INVARIANT ScanIsExact
INVARIANT AcceptedDiffIsClean
INVARIANT ReviewedIsPlanned
INVARIANT SteadyReviewIsAccepted
CHECK_DEADLOCK FALSE
