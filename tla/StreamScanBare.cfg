SPECIFICATION Scanning
CONSTANTS
  WordCharacters <- MCWordCharacters
  Alphabet <- MCAlphabet
  Texts <- MCBareTexts
  FileTexts = {}
  DiffTexts <- MCBareTexts
  DiffPiece = 3
  Path = "x"
  Documents <- MCDocuments
  Retired <- MCRetired
  PackerPaths = {"y"}
  NpmrcPaths = {"y"}
  DiffHeaders <- MCDiffHeaders
  OldHeaders <- MCOldHeaders
  NewHeaders <- MCNewHeaders
  HunkHeaders <- MCHunkHeaders
  NewScanner <- scanner
  advance <- MCadvance
  finish <- MCfinish
  FoundIn <- MCFoundIn
  BeginsKey <- MCBeginsKey
INVARIANT OnlyRemovedIsRedacted
CHECK_DEADLOCK FALSE
