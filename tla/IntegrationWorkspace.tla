------------------------ MODULE IntegrationWorkspace ------------------------
(***************************************************************************)
(* scripts/lit-push-ready.py: one call of execute_integration_checks.  It  *)
(* makes a private directory below the checkout, merges in a worktree      *)
(* there, removes both, makes them again for the merged commit, runs the   *)
(* checks and removes them.  Any Git command may fail, the process may be  *)
(* killed, and another program may write into the directories or replace   *)
(* them at any time.                                                       *)
(***************************************************************************)
EXTENDS Naturals

CONSTANT MaxIntrusions  \* bound: things other programs do to the directories

ASSUME MaxIntrusionsAssumption == MaxIntrusions \in Nat

\* How a worktree can differ from its commit.
Changes == {"tracked", "untracked", "ignored"}
Visible == {"tracked", "untracked"}  \* what git status shows
Owners == {"absent", "own", "foreign"}
Causes == {"create", "stat", "add", "identity", "index", "merge", "tree", "commit",
           "checkout", "check", "changed", "cleanup", "parent"}

VARIABLES
  pc,         \* the next step
  stage,      \* "merge": expected_integration_tree; "check": the checks
  parent,     \* what the name .lit-integration-* in the checkout denotes
  litter,     \* something else was put into that directory
  hooks,      \* its disabled-hooks directory is there
  tree,       \* what the name of the worktree in it denotes
  bound,      \* the identity of the directory the call remembers
  known,      \* the identity of the worktree the call remembers
  drift,      \* how the worktree differs from its commit and its merge
  merging,    \* the worktree has a MERGE_HEAD
  merged,     \* merge_completed
  attempts,   \* merges tried
  before,     \* the fingerprint taken before the checks
  error,      \* causes the exception in flight names; {} is none
  primary,    \* history: the cause of the first exception
  wrote,      \* history: what the checks changed in the worktree
  broken,     \* history: a command of the cleanup failed by itself
  replaced,   \* history: the step before which somebody else's directory came
  intrusions  \* intrusions so far

fs == <<parent, litter, hooks, tree, drift, merging>>
call == <<stage, bound, known, merged, attempts, before>>
history == <<primary, wrote, broken, replaced, intrusions>>
vars == <<pc, fs, call, error, history>>

Ended == {"returned", "raised", "killed"}

-----------------------------------------------------------------------------
(* Control.                                                                *)

Goto(step) == pc' = step

\* An exception: the innermost handler at this point is the step cleanup.
Raise(cause, cleanup) ==
  /\ Goto(cleanup)
  /\ error' = {cause}
  /\ primary' = cause

\* A step that only reads: the condition may fail, and so may the command.
Look(step, condition, cause, next, cleanup) ==
  /\ pc = step
  /\ UNCHANGED <<fs, call, wrote, broken, replaced, intrusions>>
  /\ \/ condition /\ Goto(next) /\ UNCHANGED <<error, primary>>
     \/ Raise(cause, cleanup)

\* Fault: the error of the merge is replaced by the error of its cleanup.
CleanupErrorOnly == {"cleanup"}
\* The finally clause of the merge joins both errors, the one of the checks
\* raises its own.
CleanupError == IF stage = "merge" THEN error \cup {"cleanup"} ELSE {"cleanup"}

\* A step of a finally clause that fails; the parent is still looked after.
FailCleanup(fault) ==
  /\ Goto("removeParent")
  /\ error' = CleanupError
  /\ primary' = IF primary = "none" THEN "cleanup" ELSE primary
  /\ broken' = (broken \/ fault)
  /\ UNCHANGED <<fs, call, wrote, replaced, intrusions>>

-----------------------------------------------------------------------------
(* create_integration_directory, git worktree add, directory_identity.     *)

\* A directory another program puts at the name has another identity: two
\* directories with one inode number are left out.
SameParent == parent = bound
Removable == parent # "absent" /\ ~litter /\ ~hooks /\ tree = "absent"

CreateParent ==
  /\ pc = "create"
  /\ \/ parent' = "own" /\ Goto("stat") /\ UNCHANGED <<error, primary>>
     \/ Raise("create", "raised") /\ UNCHANGED parent
  /\ UNCHANGED <<litter, hooks, tree, drift, merging, call, wrote, broken,
                 replaced, intrusions>>

\* The identity is what the name denotes now.  Without one the finally clause
\* compares with None and removes nothing.
StatParent ==
  /\ pc = "stat"
  /\ \/ /\ parent # "absent"
        /\ bound' = parent
        /\ Goto("inspect")
        /\ UNCHANGED <<error, primary>>
     \/ Raise("stat", "raised") /\ UNCHANGED bound
  /\ UNCHANGED <<fs, stage, known, merged, attempts, before, wrote, broken,
                 replaced, intrusions>>

\* Ownership, permissions and place.
InspectParent ==
  Look("inspect", parent # "absent", "create",
       IF stage = "merge" THEN "hooks" ELSE "add", "undo")

\* The finally clause of create_integration_directory: compare, then remove by
\* name; what fails is not reported.
CompareUndone ==
  /\ pc = "undo"
  /\ \/ SameParent /\ Goto("undoRemove") /\ UNCHANGED broken
     \/ Goto("raised") /\ broken' = (broken \/ SameParent)
  /\ UNCHANGED <<fs, call, error, primary, wrote, replaced, intrusions>>

RemoveUndone ==
  /\ pc = "undoRemove"
  /\ Goto("raised")
  /\ \/ Removable /\ parent' = "absent" /\ UNCHANGED broken
     \/ UNCHANGED parent /\ broken' = (broken \/ Removable)
  /\ UNCHANGED <<litter, hooks, tree, drift, merging, call, error, primary, wrote, replaced,
                 intrusions>>

DisableHooks ==
  /\ pc = "hooks"
  /\ \/ parent # "absent" /\ hooks' = TRUE /\ Goto("add") /\ UNCHANGED <<error, primary>>
     \/ Raise("create", "removeParent") /\ UNCHANGED hooks
  /\ UNCHANGED <<parent, litter, tree, drift, merging, call, wrote, broken,
                 replaced, intrusions>>

NewWorktree ==
  /\ parent # "absent" /\ tree = "absent"
  /\ tree' = "own" /\ drift' = {} /\ merging' = FALSE

\* The second one runs the hooks of the clone: a post-checkout hook that fails
\* fails the command and leaves the worktree.  What a hook writes is a WriteInto.
AddWorktree ==
  /\ pc = "add"
  /\ \/ NewWorktree /\ Goto("identify") /\ UNCHANGED <<error, primary>>
     \/ /\ Raise("add", "removeParent")
        /\ UNCHANGED <<tree, drift, merging>> \/ (stage = "check" /\ NewWorktree)
  /\ UNCHANGED <<parent, litter, hooks, call, wrote, broken, replaced, intrusions>>

Identify ==
  /\ pc = "identify"
  /\ \/ /\ tree # "absent"
        /\ known' = tree
        /\ Goto(IF stage = "merge" THEN "refresh" ELSE "checkout")
        /\ UNCHANGED <<error, primary>>
     \/ Raise("identity", "removeParent") /\ UNCHANGED known
  /\ UNCHANGED <<fs, stage, bound, merged, attempts, before, wrote, broken,
                 replaced, intrusions>>

-----------------------------------------------------------------------------
(* expected_integration_tree: the merge and its single retry.              *)

SameTree == tree = known
AtHome == tree = "own"  \* commands in the worktree work at all
StatusEmpty == AtHome /\ drift \cap Visible = {} /\ ~merging

RefreshIndex ==
  Look("refresh", AtHome /\ "tracked" \notin drift, "index", "merge", "leave")

FirstMerge == attempts = 0

\* A clean merge has a MERGE_HEAD unless there was nothing to merge.  A merge
\* that fails with "stash failed" is looked at once more.
Merge ==
  /\ pc = "merge"
  /\ attempts' = attempts + 1
  /\ \/ /\ AtHome
        /\ merging' \in BOOLEAN
        /\ Goto("writeTree")
        /\ merged' = TRUE
        /\ UNCHANGED <<error, primary>>
     \/ /\ merging' \in {FALSE, AtHome}
        /\ Raise("merge", "leave")
        /\ UNCHANGED merged
     \/ /\ AtHome /\ FirstMerge
        /\ Goto("probe")
        /\ UNCHANGED <<merging, merged, error, primary>>
  /\ UNCHANGED <<parent, litter, hooks, tree, drift, stage, bound, known, before,
                 wrote, broken, replaced, intrusions>>

\* No merge in progress, HEAD at the base, the same directory.
Probe == Look("probe", AtHome /\ ~merging /\ SameTree, "merge", "proveClean", "leave")
ProveClean == Look("proveClean", StatusEmpty, "merge", "rewrite", "leave")
RewriteIndex == Look("rewrite", AtHome, "index", "status", "leave")
RetryMerge ==
  Look("status", StatusEmpty, "merge", "merge", "leave")
WriteTree == Look("writeTree", AtHome, "tree", "leave", "leave")

-----------------------------------------------------------------------------
(* execute_integration_checks: the checks on the merged commit.            *)

VerifyCheckout == Look("checkout", StatusEmpty, "checkout", "before", "leave")

\* Fault: ignored files are left out.
StatusFingerprint == drift \cap Visible
\* integration_worktree_fingerprint includes ignored files.
Fingerprint == drift

FingerprintBefore ==
  /\ pc = "before"
  /\ \/ /\ AtHome
        /\ before' = Fingerprint
        /\ Goto("checks")
        /\ UNCHANGED <<error, primary>>
     \/ Raise("checkout", "leave") /\ UNCHANGED before
  /\ UNCHANGED <<fs, stage, bound, known, merged, attempts, wrote, broken,
                 replaced, intrusions>>

\* The commands may change the worktree; one that fails or runs out of time
\* raises.
ExecuteChecks ==
  /\ pc = "checks"
  /\ \E w \in SUBSET (Changes \ drift) :
       /\ AtHome \/ w = {}
       /\ wrote' = w
       /\ drift' = drift \cup w
  /\ \/ Goto("after") /\ UNCHANGED <<error, primary>>
     \/ Raise("check", "leave")
  /\ UNCHANGED <<parent, litter, hooks, tree, merging, call, broken, replaced,
                 intrusions>>

FingerprintAfter ==
  Look("after", AtHome /\ Fingerprint = before, "changed", "leave", "leave")

-----------------------------------------------------------------------------
(* The finally clauses.                                                    *)

LeaveIdentity ==
  /\ pc = "leave"
  /\ \/ /\ SameTree
        /\ Goto(IF stage = "merge" THEN "leaveMerge" ELSE "remove")
        /\ UNCHANGED <<fs, call, error, history>>
     \/ FailCleanup(SameTree)

\* Fault: a merge that succeeded is not aborted.
AfterFailedMergeAbort == merging /\ merged
AfterMergeAbort == FALSE

\* git merge --abort keeps changes it did not make, or refuses.
AbortMerge ==
  /\ pc = "leaveMerge"
  /\ \/ /\ AtHome
        /\ merging /\ merged => "tracked" \notin drift
        /\ merging' = AfterMergeAbort
        /\ Goto("leaveStatus")
        /\ UNCHANGED <<parent, litter, hooks, tree, drift, call, error, history>>
     \/ FailCleanup(AtHome /\ "tracked" \notin drift)

LeaveStatus ==
  /\ pc = "leaveStatus"
  /\ \/ /\ StatusEmpty
        /\ Goto("remove")
        /\ UNCHANGED <<fs, call, error, history>>
     \/ FailCleanup(StatusEmpty)

\* git worktree remove without --force.
RemoveWorktree ==
  /\ pc = "remove"
  /\ \/ /\ StatusEmpty
        /\ tree' = "absent"
        /\ drift' = {}
        /\ Goto(IF stage = "merge" THEN "removeHooks" ELSE "removeParent")
        /\ UNCHANGED <<parent, litter, hooks, merging, call, error, history>>
     \/ FailCleanup(StatusEmpty)

RemoveHooks ==
  /\ pc = "removeHooks"
  /\ \/ /\ hooks
        /\ hooks' = FALSE
        /\ Goto("removeParent")
        /\ UNCHANGED <<parent, litter, tree, drift, merging, call, error, history>>
     \/ FailCleanup(hooks)

SwallowedParentError == error  \* fault: a failing cleanup is ignored
ParentError == error \cup {"parent"}

\* Where the call goes once its directory is dealt with.
Leave(e) ==
  /\ error' = e
  /\ pc' = CASE e # {} -> "raised"
             [] e = {} /\ stage = "merge" -> "commit"
             [] OTHER -> "returned"

FailParent(fault) ==
  /\ Leave(ParentError)
  /\ primary' = IF primary = "none" THEN "parent" ELSE primary
  /\ broken' = (broken \/ fault)

AnyParent == TRUE  \* fault: the identity is not compared
ParentIsBound == SameParent

\* remove_integration_directory: the same directory, and then the name, if what
\* it denotes by then is empty.
CompareParent ==
  /\ pc = "removeParent"
  /\ \/ ParentIsBound /\ Goto("rmdirParent") /\ UNCHANGED <<error, primary, broken>>
     \/ FailParent(SameParent)
  /\ UNCHANGED <<fs, call, wrote, replaced, intrusions>>

RemoveParent ==
  /\ pc = "rmdirParent"
  /\ \/ Removable /\ parent' = "absent" /\ Leave(error) /\ UNCHANGED <<primary, broken>>
     \/ FailParent(Removable) /\ UNCHANGED parent
  /\ UNCHANGED <<litter, hooks, tree, drift, merging, call, wrote, replaced,
                 intrusions>>

\* synthetic_integration_commit, then the second directory.
CommitTree ==
  /\ pc = "commit"
  /\ \/ /\ Goto("create")
        /\ stage' = "check" /\ bound' = "absent" /\ known' = "absent"
        /\ UNCHANGED <<error, primary>>
     \/ Raise("commit", "raised") /\ UNCHANGED <<stage, bound, known>>
  /\ UNCHANGED <<fs, merged, attempts, before, wrote, broken, replaced, intrusions>>

Kill ==
  /\ pc \notin Ended
  /\ Goto("killed")
  /\ UNCHANGED <<fs, call, error, history>>

-----------------------------------------------------------------------------
(* Other programs.                                                         *)

WriteInto(kind) ==
  /\ tree = "own"
  /\ drift' = drift \cup {kind}
  /\ UNCHANGED <<parent, litter, hooks, tree, merging, replaced>>

ReplaceTree(owner) ==
  /\ tree # "absent"
  /\ tree' = owner
  /\ UNCHANGED <<parent, litter, hooks, drift, merging, replaced>>

DropLitter ==
  /\ litter' = TRUE
  /\ UNCHANGED <<parent, hooks, tree, drift, merging, replaced>>

ReplaceParent(owner) ==
  /\ owner # parent
  /\ parent' = owner
  /\ replaced' = IF owner = "foreign" THEN pc ELSE replaced
  /\ litter' = FALSE /\ hooks' = FALSE /\ tree' = "absent"
  /\ UNCHANGED <<drift, merging>>

Intrude ==
  /\ pc \notin Ended
  /\ intrusions < MaxIntrusions
  /\ intrusions' = intrusions + 1
  /\ parent # "absent"
  /\ \/ \E kind \in Changes : WriteInto(kind)
     \/ \E owner \in {"absent", "foreign"} : ReplaceTree(owner) \/ ReplaceParent(owner)
     \/ DropLitter
  /\ UNCHANGED <<pc, call, error, primary, wrote, broken>>

-----------------------------------------------------------------------------
Init ==
  /\ pc = "create" /\ stage = "merge"
  /\ parent = "absent" /\ tree = "absent" /\ bound = "absent" /\ known = "absent"
  /\ litter = FALSE /\ hooks = FALSE /\ merging = FALSE /\ merged = FALSE
  /\ drift = {} /\ before = {} /\ wrote = {} /\ error = {}
  /\ attempts = 0 /\ intrusions = 0
  /\ primary = "none" /\ broken = FALSE /\ replaced = "none"

Step ==
  \/ CreateParent \/ StatParent \/ InspectParent \/ CompareUndone \/ RemoveUndone
  \/ DisableHooks \/ AddWorktree \/ Identify
  \/ RefreshIndex \/ Merge \/ Probe \/ ProveClean \/ RewriteIndex \/ RetryMerge
  \/ WriteTree \/ VerifyCheckout \/ FingerprintBefore \/ ExecuteChecks
  \/ FingerprintAfter \/ LeaveIdentity \/ AbortMerge \/ LeaveStatus
  \/ RemoveWorktree \/ RemoveHooks \/ CompareParent \/ RemoveParent \/ CommitTree

Next == Step \/ Kill \/ Intrude

Spec == Init /\ [][Next]_vars

Steps ==
  {"create", "stat", "inspect", "undo", "undoRemove", "hooks", "add", "identify",
   "refresh", "merge", "probe", "proveClean", "rewrite", "status", "writeTree", "checkout",
   "before", "checks", "after", "leave", "leaveMerge", "leaveStatus", "remove",
   "removeHooks", "removeParent", "rmdirParent", "commit"}

\* Every variable has its type.
TypeOK ==
  /\ pc \in Steps \cup Ended
  /\ stage \in {"merge", "check"}
  /\ {parent, tree, bound, known} \subseteq Owners
  /\ {litter, hooks, merging, merged, broken} \subseteq BOOLEAN
  /\ {drift, before, wrote} \subseteq SUBSET Changes
  /\ attempts \in 0..2
  /\ error \subseteq Causes
  /\ primary \in Causes \cup {"none"}
  /\ replaced \in Steps \cup {"none"}
  /\ intrusions \in 0..MaxIntrusions

-----------------------------------------------------------------------------
(* What the call must guarantee.                                           *)

\* execute_integration_checks returns a verdict only when nothing of the call
\* is left in the checkout: a leftover worktree always refuses the run.
VerdictLeavesNothing ==
  pc = "returned" => parent = "absent" /\ tree = "absent" /\ ~hooks

\* integration_worktree_fingerprint: checks that changed anything at all in the
\* worktree, ignored files included, never give a verdict.
VerdictIsPristine == pc = "returned" => wrote = {} /\ error = {}

\* expected_integration_tree: however its cleanup fails, the exception that
\* ends the call still names what went wrong with the merge.
MergeErrorIsReported ==
  pc = "raised" /\ stage = "merge" => primary \in error

\* Directories are compared by identity and removed by name.  Somebody else's
\* directory that comes before any of these steps is not told from the own one:
\* before the identity is taken, or between the comparison and the removal.
BlindSteps == {"stat", "undoRemove", "rmdirParent"}

\* create_integration_directory, remove_integration_directory and git worktree
\* remove: whatever other programs do in between, the call removes somebody
\* else's directory only if it is empty and came at a blind step, and never a
\* worktree it did not add, a file put next to it, or a worktree with changes git
\* status shows.
NothingForeignIsRemoved ==
  [][intrusions' = intrusions =>
       /\ parent = "foreign" /\ parent' = "absent" => replaced \in BlindSteps
       /\ litter => parent' # "absent" /\ litter'
       /\ tree = "foreign" => tree' = tree
       /\ tree = "own" /\ drift \cap Visible # {} => tree' = tree]_vars

Undisturbed ==
  /\ pc \in {"returned", "raised"}
  /\ intrusions = 0 /\ wrote \cap Visible = {} /\ ~broken

\* The failures that no finally clause cleans up after: the directory has no
\* identity yet; or its clean-up is armed, but not that of the hooks directory
\* or of the worktree in it, and it is not empty.
LeavesDirectory ==
  \/ primary \in {"stat", "identity"}
  \/ primary = "add" /\ (stage = "merge" \/ tree = "own")

\* The finally clauses: a call in which only a command of the merge or of the
\* checks failed leaves something in the checkout in exactly these cases.
FailedCallCleansUp == Undisturbed => (parent # "absent" <=> LeavesDirectory)

=============================================================================
