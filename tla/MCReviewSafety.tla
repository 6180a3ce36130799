---------------------------- MODULE MCReviewSafety ----------------------------
(***************************************************************************)
(* What a review may send to a model: a scan of a file or a diff, and      *)
(* after the scan of an empty file the review of a planned change.  The    *)
(* review takes what its scans refuse from Unsafe, so the two share        *)
(* nothing.  The branch of the review changes one file while the base gets *)
(* another one, which the developer may make as an untracked file.         *)
(***************************************************************************)
EXTENDS MCStreamScan, PlannedReview

MCPaths == {"source", "note"}
MCContents == {"old", "new", "secret"}
MCMergeBase == [p \in MCPaths |-> IF p = "source" THEN "old" ELSE Absent]
MCTip == [p \in MCPaths |-> "old"]
MCHead == [p \in MCPaths |-> IF p = "source" THEN "new" ELSE Absent]

OfNothing == text = <<>> /\ scan = "file" /\ documented = <<>>

\* A file without any of the lines that are documented is scanned as if none were.
HasDocumentedLine == \E e \in Ends : TextLine(e) \in Range(documented[Path])

MCInit ==
  /\ ScanInit /\ Init
  /\ OfDiff \/ documented = <<>> \/ HasDocumentedLine
  /\ ~OfNothing => work = HeadCommit

MCNext ==
  \/ ScanNext /\ UNCHANGED vars
  \/ OfNothing /\ outcome = "accepted" /\ Next /\ UNCHANGED scanningVars

MCSpec == MCInit /\ [][MCNext]_<<scanningVars, vars>>
=============================================================================
