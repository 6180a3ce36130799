----------------------------- MODULE PlannedReview -----------------------------
(***************************************************************************)
(* scripts/lit-push-ready.py: planned_change with its patch, and then      *)
(* run_agent_reviews, which applies the patch to the base in a repository  *)
(* of its own and scans the result.  Nothing here is read at once: a       *)
(* fingerprint and the patch look at one file after the other, and Git is  *)
(* asked for its status apart, while the developer edits.  Commits and     *)
(* switches of the branch, and the moving base, are in PushReady.          *)
(***************************************************************************)
EXTENDS Naturals

CONSTANTS
  Paths,
  Contents,
  Absent,     \* there is no such file
  Unsafe,     \* contents the scans refuse, binary ones included
  MergeBase,  \* base_commit: path -> content
  Tip,        \* base_tip
  HeadCommit, \* head_commit
  MaxMoves    \* bound: edits of the developer

Trees == [Paths -> Contents \cup {Absent}]

ASSUME ReviewAssumption ==
  /\ {MergeBase, Tip, HeadCommit} \subseteq Trees
  /\ Unsafe \subseteq Contents /\ Absent \notin Contents
  /\ MaxMoves \in Nat

VARIABLES
  work,      \* the files of the checkout, untracked ones included
  pc,        \* the next step, or how the review ended
  unread,    \* paths the present step has still to look at
  view,      \* what it saw so far
  expected,  \* tree_fingerprint of the planned change
  patch,     \* what the spooled patch makes of each path
  dirty,     \* source_status of the sanitized workspace
  built,     \* the tree of the builder, then of the workspace
  store,     \* commits in the object store of the workspace
  moves      \* edits so far

planned == <<expected, patch>>
workspace == <<dirty, built, store>>
vars == <<work, pc, unread, view, planned, workspace, moves>>

Ended == {"passed", "refused"}
Nothing == [p \in Paths |-> Absent]
NoFingerprint == [files |-> Nothing, status |-> {}]
Status == {p \in Paths : work[p] # HeadCommit[p]}

\* The three-way merge of a tree with the base: git merge, git apply --3way.
Conflicts(tree) ==
  {p \in Paths : tree[p] # MergeBase[p] /\ Tip[p] # MergeBase[p] /\ tree[p] # Tip[p]}
Merged(tree) == [p \in Paths |-> IF tree[p] = MergeBase[p] THEN Tip[p] ELSE tree[p]]

Goto(step) == pc' = step /\ unread' = Paths /\ view' = Nothing

Require(condition, step) == Goto(IF condition THEN step ELSE "refused")

-----------------------------------------------------------------------------
(* tree_fingerprint.                                                       *)

Fingerprints == {"initial", "final", "scanned", "review", "reviewed"}

\* untracked_file_hashes and git diff, and the diff that becomes the patch.
ReadPath(p) ==
  /\ pc \in Fingerprints \cup {"patch"} /\ p \in unread
  /\ view' = [view EXCEPT ![p] = work[p]]
  /\ unread' = unread \ {p}
  /\ UNCHANGED <<work, pc, planned, workspace, moves>>

\* git status, the last part of a fingerprint.
Fingerprint == [files |-> view, status |-> Status]

SameTree == Fingerprint = expected

-----------------------------------------------------------------------------
(* planned_change.                                                         *)

PlanFingerprint ==
  /\ pc = "initial" /\ unread = {}
  /\ expected' = Fingerprint
  /\ Goto("patch")
  /\ UNCHANGED <<work, patch, workspace, moves>>

SpoolPatch ==
  /\ pc = "patch" /\ unread = {}
  /\ patch' = view
  /\ Goto("final")
  /\ UNCHANGED <<work, expected, workspace, moves>>

\* Git tree changed while constructing the exact planned push patch.
PlanFingerprintAgain ==
  /\ pc = "final" /\ unread = {}
  /\ expected' = Fingerprint
  /\ Require(SameTree, "scan patch")
  /\ UNCHANGED <<work, patch, workspace, moves>>

Changed == {p \in Paths : patch[p] # MergeBase[p]}

\* ensure_review_safe: what the patch adds.
ScanPatch ==
  /\ pc = "scan patch"
  /\ Require(\A p \in Changed : patch[p] \notin Unsafe, "scanned")
  /\ UNCHANGED <<work, planned, workspace, moves>>

\* The fingerprints after the scan, before the review and after it.
NextOf(step) ==
  CASE step = "scanned" -> "review"
    [] step = "review" -> "status"
    [] step = "reviewed" -> "passed"

CompareTree ==
  /\ pc \in {"scanned", "review", "reviewed"} /\ unread = {}
  /\ Require(SameTree, NextOf(pc))
  /\ UNCHANGED <<work, planned, workspace, moves>>

-----------------------------------------------------------------------------
(* sanitized_review_workspace.                                             *)

SourceStatus ==
  /\ pc = "status"
  /\ dirty' = (Status # {})
  /\ Goto("apply")
  /\ UNCHANGED <<work, planned, built, store, moves>>

\* checkout_sanitized_commit of the base, then git apply --3way.
ApplyPatch ==
  /\ pc = "apply"
  /\ built' = Merged(patch)
  /\ Require(Conflicts(patch) = {}, "compare")
  /\ UNCHANGED <<work, planned, dirty, store, moves>>

\* expected_integration_tree, asked only when the status was empty.
\* Fault: never compared.
NeverCompared == TRUE
MatchesIntegration == dirty \/ (Conflicts(HeadCommit) = {} /\ built = Merged(HeadCommit))

CompareIntegration ==
  /\ pc = "compare"
  /\ Require(MatchesIntegration, "snapshot")
  /\ UNCHANGED <<work, planned, workspace, moves>>

\* commit-tree: the parents of the commit, whose history a fetch brings along.
\* Fault: a commit on top of the base.
RootOnBase == {"root", "base"}
SanitizedRootCommit == {"root"}

\* checkout_sanitized_commit of the new commit.
CheckoutWorkspace ==
  /\ pc = "snapshot"
  /\ store' = SanitizedRootCommit
  /\ Goto("topology")
  /\ UNCHANGED <<work, planned, dirty, built, moves>>

\* require_history_free_review_workspace.
HistoryFree == store = {"root"}

RequireHistoryFree ==
  /\ pc = "topology"
  /\ Require(HistoryFree, "scan tree")
  /\ UNCHANGED <<work, planned, workspace, moves>>

\* ensure_workspace_review_safe: every file of the tree.
ScanTree ==
  /\ pc = "scan tree"
  /\ Require(\A p \in Paths : built[p] \notin Unsafe, "reviewed")
  /\ UNCHANGED <<work, planned, workspace, moves>>

-----------------------------------------------------------------------------
(* The developer writes, makes and deletes files.                          *)

EditFile(p) ==
  /\ pc \notin Ended
  /\ moves < MaxMoves /\ moves' = moves + 1
  /\ \E c \in (Contents \cup {Absent}) \ {work[p]} : work' = [work EXCEPT ![p] = c]
  /\ UNCHANGED <<pc, unread, view, planned, workspace>>

-----------------------------------------------------------------------------
Init ==
  /\ work \in Trees
  /\ pc = "initial" /\ unread = Paths /\ view = Nothing
  /\ expected = NoFingerprint /\ patch = Nothing
  /\ dirty = FALSE /\ built = Nothing /\ store = {}
  /\ moves = 0

Next ==
  \/ PlanFingerprint \/ SpoolPatch \/ PlanFingerprintAgain \/ ScanPatch \/ CompareTree
  \/ SourceStatus \/ ApplyPatch \/ CompareIntegration
  \/ CheckoutWorkspace \/ RequireHistoryFree \/ ScanTree
  \/ \E p \in Paths : ReadPath(p) \/ EditFile(p)

Spec == Init /\ [][Next]_vars

-----------------------------------------------------------------------------
(* What a review that passed must mean.                                    *)

\* How many edits it takes to review something else than was planned.
Needed == IF expected.status = {} THEN 4 ELSE 2

\* planned_change, sanitized_review_workspace: the tree that was scanned is the
\* planned one merged with the base.  With a clean checkout one edit that is
\* undone in time is not enough to review another tree, and neither is a third
\* edit: the builder's tree must be the one the merge gives.
ReviewedIsPlanned ==
  pc = "passed" /\ moves < Needed => built = Merged(expected.files)

\* run_agent_reviews: when nobody edits, a review is refused only for a conflict
\* with the base or for contents the scans refuse, never by its own re-reads.
SteadyReviewIsAccepted ==
  pc = "refused" /\ moves = 0 =>
    Conflicts(work) # {} \/ \E p \in Paths : {work[p], Tip[p]} \cap Unsafe # {}

=============================================================================
