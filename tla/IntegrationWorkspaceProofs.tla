---------------------- MODULE IntegrationWorkspaceProofs ----------------------
(***************************************************************************)
(* Proofs about IntegrationWorkspace, for any number of intrusions.  The   *)
(* inductive invariant says at every step which exception is in flight,    *)
(* what the checks have changed, which directories the call remembers and, *)
(* for a call that nobody disturbs, what it has in the checkout.           *)
(***************************************************************************)
EXTENDS IntegrationWorkspace, TLAPS

-----------------------------------------------------------------------------
(* The inductive invariant.                                                *)

MergeSteps ==
  {"hooks", "refresh", "merge", "probe", "proveClean", "rewrite", "status",
   "writeTree", "leaveMerge", "leaveStatus", "removeHooks", "commit"}
CheckSteps == {"checkout", "before", "checks", "after"}

\* Steps of one stage only, and the merges tried so far.
Stages ==
  /\ pc \in MergeSteps => stage = "merge"
  /\ pc \in CheckSteps => stage = "check"
  /\ stage = "merge" /\ pc \in {"create", "stat", "inspect", "hooks", "add", "identify",
                                "refresh"}
       => attempts = 0
  /\ pc = "merge" => attempts \in {0, 1}
  /\ pc \in {"probe", "proveClean", "rewrite", "status"} => attempts = 1

\* Where an exception can be in flight.
CleanupPath ==
  {"undo", "undoRemove", "leave", "leaveMerge", "leaveStatus", "remove", "removeHooks",
   "removeParent", "rmdirParent", "raised", "killed"}

\* The failures after which no finally clause looks into the directory.
Unguarded == {"stat", "add", "identity"}

\* The exception in flight, and what the history says of the first one.
Exceptions ==
  /\ error # {} <=> primary # "none"
  /\ error # {} => pc \in CleanupPath
  /\ error # {} /\ stage = "merge" => primary \in error
  /\ pc \in {"undo", "undoRemove", "raised"} => error # {}
  /\ primary \in Unguarded => pc \in {"removeParent", "rmdirParent", "raised", "killed"}

\* What the checks wrote is in the worktree and not in the fingerprint taken
\* before; once the fingerprints were compared it is reported.
Written ==
  /\ wrote # {} => stage = "check" /\ (pc \in {"after", "killed"} \/ error # {})
  /\ pc = "checks" => before \subseteq drift
  /\ pc = "after" => wrote \subseteq drift /\ wrote \cap before = {}

\* A call remembers no directory before it made one, and something can only be
\* put into a directory that is there.
Remembered ==
  /\ pc \in {"create", "stat"} => bound = "absent"
  /\ litter => parent # "absent"
  /\ pc \in {"create", "commit"} => parent = "absent"

\* Somebody else's directory that has the remembered identity, or that was
\* compared already, came at a blind step.
Came ==
  /\ parent = "foreign" /\ (pc = "stat" \/ bound = "foreign") => replaced = "stat"
  /\ bound = "foreign" => parent # "own"
  /\ parent = "foreign" /\ pc \in {"undoRemove", "rmdirParent"} => replaced \in BlindSteps

\* Nobody else was there, the checks changed nothing that git status shows, and
\* no command of the cleanup failed by itself.
Quiet == intrusions = 0 /\ ~broken /\ wrote \cap Visible = {}

OwnParent == parent = "own" /\ bound = "own"
MergeHooks == hooks = (stage = "merge")

\* Steps at which the worktree is there and its identity is known.
InTree ==
  {"refresh", "merge", "probe", "proveClean", "rewrite", "status", "writeTree",
   "checkout", "before", "checks", "after", "leave", "leaveMerge", "leaveStatus",
   "remove"}

\* What a quiet call has in the checkout, step by step.
Unmade == parent = "absent" /\ tree = "absent" /\ ~hooks
Made == parent = "own" /\ tree = "absent" /\ ~hooks
Bare == OwnParent /\ tree = "absent" /\ ~hooks
ToAdd == OwnParent /\ tree = "absent" /\ MergeHooks
Added == OwnParent /\ tree = "own" /\ MergeHooks /\ drift = {} /\ ~merging
Working ==
  /\ OwnParent /\ tree = "own" /\ known = "own" /\ MergeHooks
  /\ drift \cap Visible = {}
  /\ stage = "check" => ~merging
Emptied == OwnParent /\ tree = "absent"
\* What is still in the directory when it is about to be removed.
ToRemove == OwnParent /\ ((hooks \/ tree # "absent") <=> LeavesDirectory)

QuietPlace ==
  /\ ~litter
  /\ pc \in {"create", "commit"} => Unmade
  /\ pc = "stat" => Made
  /\ pc \in {"inspect", "undo", "undoRemove", "hooks"} => Bare
  /\ pc = "add" => ToAdd
  /\ pc = "identify" => Added
  /\ pc \in InTree => Working
  /\ pc \in {"leaveStatus", "remove"} => ~merging
  /\ pc = "removeHooks" => Emptied /\ hooks
  /\ pc \in {"removeParent", "rmdirParent"} => ToRemove
  /\ pc \in {"returned", "raised"} => (parent # "absent" <=> LeavesDirectory)

CleanPlace == Quiet => QuietPlace

IInv ==
  /\ TypeOK /\ Stages /\ Exceptions /\ Written /\ Remembered /\ Came /\ CleanPlace
  /\ VerdictLeavesNothing

-----------------------------------------------------------------------------
(* The steps, by what they are for.                                        *)

Making ==
  \/ CreateParent \/ StatParent \/ InspectParent \/ CompareUndone \/ RemoveUndone
  \/ DisableHooks \/ AddWorktree \/ Identify
Looking ==
  \/ RefreshIndex \/ Probe \/ ProveClean \/ RewriteIndex \/ RetryMerge \/ WriteTree
  \/ VerifyCheckout \/ FingerprintAfter
Checking == FingerprintBefore \/ ExecuteChecks
Cleaning ==
  \/ LeaveIdentity \/ AbortMerge \/ LeaveStatus \/ RemoveWorktree \/ RemoveHooks
  \/ CompareParent \/ RemoveParent

\* Every step is one of these.
LEMMA Groups ==
  [Next]_vars =>
    Making \/ Looking \/ Merge \/ Checking \/ Cleaning \/ CommitTree \/ Kill \/ Intrude
      \/ UNCHANGED vars
  BY DEF Next, Step, Making, Looking, Checking, Cleaning

\* A step that only looks goes on to the next one or fails with its cause.
LEMMA Looks ==
  ASSUME Looking
  PROVE  /\ UNCHANGED <<fs, call, wrote, broken, replaced, intrusions>>
         /\ pc \in {"refresh", "probe", "proveClean", "rewrite", "status", "writeTree",
                    "checkout", "after"}
         /\ \/ /\ UNCHANGED <<error, primary>>
               /\ <<pc, pc'>> \in
                    {<<"refresh", "merge">>, <<"probe", "proveClean">>,
                     <<"proveClean", "rewrite">>, <<"rewrite", "status">>,
                     <<"status", "merge">>, <<"writeTree", "leave">>,
                     <<"checkout", "before">>, <<"after", "leave">>}
            \/ /\ pc' = "leave"
               /\ primary' \in {"index", "merge", "tree", "checkout", "changed"}
               /\ error' = {primary'}
  BY DEF Looking, RefreshIndex, Probe, ProveClean, RewriteIndex, RetryMerge, WriteTree,
     VerifyCheckout, FingerprintAfter, Look, Goto, Raise

\* A merge is counted and changes at most whether a merge is in progress.
LEMMA Merges ==
  ASSUME Merge
  PROVE  /\ pc = "merge" /\ attempts' = attempts + 1
         /\ UNCHANGED <<parent, litter, hooks, tree, drift, stage, bound, known, before,
                        wrote, broken, replaced, intrusions>>
         /\ \/ /\ pc' = "writeTree" \/ (pc' = "probe" /\ attempts = 0)
               /\ UNCHANGED <<error, primary>>
            \/ pc' = "leave" /\ error' = {"merge"} /\ primary' = "merge"
  BY DEF Merge, Goto, Raise, FirstMerge

\* How the call leaves its directory.
LEMMA Leaves ==
  ASSUME NEW e, Leave(e)
  PROVE  /\ error' = e
         /\ pc' \in {"raised", "commit", "returned"}
         /\ pc' = "raised" <=> e # {}
         /\ pc' = "commit" => stage = "merge"
         /\ pc' = "returned" => stage # "merge"
  BY DEF Leave

\* The initial state satisfies the inductive invariant.
LEMMA InitEstablishes == Init => IInv
<1> SUFFICES ASSUME Init PROVE IInv
  OBVIOUS
<1>1. TypeOK
  <2>1. intrusions \in 0..MaxIntrusions /\ attempts \in 0..2
    BY MaxIntrusionsAssumption DEF Init
  <2>2. {litter, hooks, merging, merged, broken} \subseteq BOOLEAN
    BY DEF Init
  <2>3. {drift, before, wrote} \subseteq SUBSET Changes /\ error \subseteq Causes
    BY DEF Init
  <2> QED
    BY <2>1, <2>2, <2>3 DEF Init, TypeOK, Steps, Owners
<1>2. Stages /\ Exceptions /\ Written /\ Remembered /\ Came
  BY DEF Init, Stages, MergeSteps, CheckSteps, Exceptions, Unguarded, Written, Remembered, Came
<1>3. CleanPlace /\ VerdictLeavesNothing
  BY DEF Init, CleanPlace, QuietPlace, Unmade, InTree, VerdictLeavesNothing
<1> QED
  BY <1>1, <1>2, <1>3 DEF IInv

-----------------------------------------------------------------------------
(* The parts of the invariant, one after the other.                        *)

\* Every step goes on to a step or ends the call, and remembers a step if it is
\* an intrusion.
LEMMA StepKeeps == ASSUME TypeOK, [Next]_vars
                   PROVE  pc' \in Steps \cup Ended /\ replaced' \in Steps \cup {"none"}
<1> USE DEF TypeOK, Goto, Raise, Steps, Ended
<1>1. CASE Making
  BY <1>1
  DEF Making, CreateParent, StatParent, InspectParent, Look, CompareUndone, RemoveUndone,
      DisableHooks, AddWorktree, Identify
<1>2. CASE Looking \/ Merge
  BY <1>2, Looks, Merges
<1>3. CASE Checking
  BY <1>3 DEF Checking, FingerprintBefore, ExecuteChecks
<1>4. CASE Cleaning
  BY <1>4
  DEF Cleaning, LeaveIdentity, AbortMerge, LeaveStatus, RemoveWorktree, RemoveHooks,
      CompareParent, RemoveParent, FailParent, FailCleanup, Leave, history
<1>5. CASE CommitTree \/ Kill
  BY <1>5 DEF CommitTree, Kill, history
<1>6. CASE Intrude
  BY <1>6 DEF Intrude, WriteInto, ReplaceTree, DropLitter, ReplaceParent
<1>7. CASE UNCHANGED vars
  BY <1>7 DEF vars, history
<1> QED
  BY <1>1, <1>2, <1>3, <1>4, <1>5, <1>6, <1>7, Groups

\* Every step keeps the types.
LEMMA TypeKeeps == ASSUME IInv, [Next]_vars PROVE TypeOK'
<1> DEFINE RestOK ==
      /\ stage \in {"merge", "check"}
      /\ {parent, tree, bound, known} \subseteq Owners
      /\ {litter, hooks, merging, merged, broken} \subseteq BOOLEAN
      /\ {drift, before, wrote} \subseteq SUBSET Changes
      /\ attempts \in 0..2
      /\ error \subseteq Causes
      /\ primary \in Causes \cup {"none"}
      /\ intrusions \in 0..MaxIntrusions
<1> SUFFICES RestOK'
  BY StepKeeps DEF IInv, TypeOK
<1>0. RestOK
  BY DEF IInv, TypeOK
<1> USE <1>0 DEF Goto, Raise, Owners, Causes
<1>1. CASE Making
  <2>1. CASE CreateParent
    BY <2>1 DEF CreateParent, call
  <2>2. CASE StatParent
    BY <2>2 DEF StatParent, fs
  <2>3. CASE InspectParent
    BY <2>3 DEF InspectParent, Look, fs, call
  <2>4. CASE CompareUndone
    BY <2>4 DEF CompareUndone, SameParent, fs, call
  <2>5. CASE RemoveUndone
    BY <2>5 DEF RemoveUndone, Removable, call
  <2>6. CASE DisableHooks
    BY <2>6 DEF DisableHooks, call
  <2>7. CASE AddWorktree
    BY <2>7 DEF AddWorktree, NewWorktree, call
  <2>8. CASE Identify
    BY <2>8 DEF Identify, fs
  <2> QED
    BY <1>1, <2>1, <2>2, <2>3, <2>4, <2>5, <2>6, <2>7, <2>8 DEF Making
<1>2. CASE Looking
  BY <1>2, Looks DEF fs, call
<1>3. CASE Merge
  <2>1. attempts' \in 0..2
    BY <1>3, Merges DEF IInv, Stages
  <2>2. merging' \in BOOLEAN /\ merged' \in BOOLEAN
    BY <1>3 DEF Merge, AtHome
  <2>3. /\ error' \subseteq Causes /\ primary' \in Causes \cup {"none"}
        /\ UNCHANGED <<parent, litter, hooks, tree, drift, stage, bound, known, before,
                       wrote, broken, intrusions>>
    BY <1>3, Merges
  <2> QED
    BY <2>1, <2>2, <2>3
<1>4. CASE Checking
  BY <1>4 DEF Checking, FingerprintBefore, ExecuteChecks, Fingerprint, fs, call
<1>5. CASE Cleaning
  <2>1. ASSUME NEW fault \in BOOLEAN, FailCleanup(fault) PROVE RestOK'
    BY <2>1 DEF FailCleanup, CleanupError, fs, call
  <2>2. CASE LeaveIdentity \/ LeaveStatus \/ RemoveHooks
    BY <2>1, <2>2
    DEF LeaveIdentity, LeaveStatus, RemoveHooks, StatusEmpty, SameTree, fs, call, history
  <2>3. CASE AbortMerge
    BY <2>1, <2>3 DEF AbortMerge, AfterMergeAbort, call, history
  <2>4. CASE RemoveWorktree
    BY <2>1, <2>4 DEF RemoveWorktree, StatusEmpty, call, history
  <2>5. CASE CompareParent \/ RemoveParent
    <3>1. /\ error' \subseteq Causes /\ primary' \in Causes \cup {"none"}
          /\ parent' \in Owners
      BY <2>5 DEF CompareParent, RemoveParent, FailParent, ParentError, Leave, fs
    <3>2. broken' \in BOOLEAN
      BY <2>5 DEF CompareParent, RemoveParent, FailParent, SameParent, Removable
    <3>3. UNCHANGED <<litter, hooks, merging, merged, drift, before, wrote, stage, tree,
                      bound, known, attempts, intrusions>>
      BY <2>5 DEF CompareParent, RemoveParent, fs, call
    <3> QED
      BY <3>1, <3>2, <3>3
  <2> QED
    BY <1>5, <2>2, <2>3, <2>4, <2>5 DEF Cleaning
<1>6. CASE CommitTree
  BY <1>6 DEF CommitTree, fs
<1>7. CASE Kill
  BY <1>7 DEF Kill, fs, call, history
<1>8. CASE Intrude
  <2>1. intrusions' \in 0..MaxIntrusions
    BY <1>8, MaxIntrusionsAssumption DEF Intrude
  <2>2. /\ parent' \in Owners /\ tree' \in Owners /\ drift' \subseteq Changes
        /\ {litter', hooks'} \subseteq BOOLEAN /\ UNCHANGED merging
    BY <1>8 DEF Intrude, WriteInto, ReplaceTree, DropLitter, ReplaceParent
  <2>3. UNCHANGED <<call, error, primary, wrote, broken>>
    BY <1>8 DEF Intrude
  <2> QED
    BY <2>1, <2>2, <2>3 DEF call
<1>9. CASE UNCHANGED vars
  BY <1>9 DEF vars, fs, call, history
<1> QED
  BY <1>1, <1>2, <1>3, <1>4, <1>5, <1>6, <1>7, <1>8, <1>9, Groups

\* Every step keeps to its stage, and counts the merges.
LEMMA StagesKeep == ASSUME IInv, [Next]_vars PROVE Stages'
<1> USE DEF IInv, Stages, Goto, Raise, MergeSteps, CheckSteps
<1>1. CASE Making
  <2>1. CASE CreateParent \/ StatParent \/ InspectParent \/ CompareUndone \/ RemoveUndone
    BY <2>1
    DEF CreateParent, StatParent, InspectParent, Look, CompareUndone, RemoveUndone, TypeOK, call
  <2>2. CASE DisableHooks \/ AddWorktree
    BY <2>2 DEF DisableHooks, AddWorktree, call
  <2>3. CASE Identify
    BY <2>3 DEF Identify, TypeOK
  <2> QED
    BY <1>1, <2>1, <2>2, <2>3 DEF Making
<1>2. CASE Looking \/ Merge
  BY <1>2, Looks, Merges DEF fs, call
<1>3. CASE Checking
  BY <1>3
  DEF Checking, FingerprintBefore, ExecuteChecks, fs, call
<1>4. CASE Cleaning
  BY <1>4
  DEF Cleaning, LeaveIdentity, AbortMerge, LeaveStatus, RemoveWorktree, RemoveHooks,
      CompareParent, RemoveParent, FailParent, FailCleanup, Leave, fs, call
<1>5. CASE CommitTree
  BY <1>5 DEF CommitTree
<1>6. CASE Kill
  BY <1>6 DEF Kill, call
<1>7. CASE Intrude
  BY <1>7 DEF Intrude, call
<1>8. CASE UNCHANGED vars
  BY <1>8 DEF vars, call
<1> QED
  BY <1>1, <1>2, <1>3, <1>4, <1>5, <1>6, <1>7, <1>8, Groups

\* A failing step says why, and the cleanup adds to what it finds.
LEMMA ExceptionsKeep == ASSUME IInv, [Next]_vars PROVE Exceptions'
<1> USE DEF IInv, Exceptions, Goto, Raise, CleanupPath, Unguarded, Stages
<1>1. CASE Making
  <2>1. CASE CreateParent \/ StatParent
    BY <2>1 DEF CreateParent, StatParent, fs, call
  <2>2. CASE InspectParent \/ CompareUndone \/ RemoveUndone
    BY <2>2 DEF InspectParent, Look, CompareUndone, RemoveUndone, Removable, fs, call
  <2>3. CASE DisableHooks \/ AddWorktree \/ Identify
    BY <2>3 DEF DisableHooks, AddWorktree, NewWorktree, Identify, fs, call
  <2> QED
    BY <1>1, <2>1, <2>2, <2>3 DEF Making
<1>2. CASE Looking \/ Merge
  BY <1>2, Looks, Merges DEF fs, call
<1>3. CASE Checking
  BY <1>3
  DEF Checking, FingerprintBefore, ExecuteChecks, fs, call
<1>4. CASE Cleaning
  <2>1. CASE CompareParent \/ RemoveParent
    <3>1. CASE Leave(error) /\ UNCHANGED primary
      BY <2>1, <3>1 DEF CompareParent, RemoveParent, Leave, call
    <3>2. CASE Leave(ParentError) /\ primary' = IF primary = "none" THEN "parent" ELSE primary
      BY <2>1, <3>2 DEF CompareParent, RemoveParent, Leave, ParentError, call
    <3>3. CASE pc' = "rmdirParent" /\ UNCHANGED <<error, primary>>
      BY <2>1, <3>3 DEF CompareParent, RemoveParent, Leave, call
    <3> QED
      BY <2>1, <3>1, <3>2, <3>3 DEF CompareParent, RemoveParent, FailParent
  <2>2. CASE LeaveIdentity \/ AbortMerge \/ LeaveStatus \/ RemoveWorktree \/ RemoveHooks
    BY <2>2
    DEF LeaveIdentity, AbortMerge, LeaveStatus, RemoveWorktree, RemoveHooks, FailCleanup,
        CleanupError, call, history, MergeSteps
  <2> QED
    BY <1>4, <2>1, <2>2 DEF Cleaning
<1>5. CASE CommitTree
  BY <1>5 DEF CommitTree, MergeSteps
<1>6. CASE Kill
  BY <1>6 DEF Kill, call, history
<1>7. CASE Intrude
  BY <1>7 DEF Intrude, call
<1>8. CASE UNCHANGED vars
  BY <1>8 DEF vars, call, history
<1> QED
  BY <1>1, <1>2, <1>3, <1>4, <1>5, <1>6, <1>7, <1>8, Groups

\* What the checks wrote stays known until the fingerprints were compared.
LEMMA WrittenKeeps == ASSUME IInv, [Next]_vars PROVE Written'
<1> USE DEF IInv, Written, Goto, Raise, Stages, MergeSteps, CheckSteps, Exceptions, CleanupPath
<1>1. CASE Making
  <2>1. CASE CreateParent \/ StatParent
    BY <2>1 DEF CreateParent, StatParent, fs, call
  <2>2. CASE InspectParent \/ CompareUndone \/ RemoveUndone
    BY <2>2 DEF InspectParent, Look, CompareUndone, RemoveUndone, Removable, fs, call
  <2>3. CASE DisableHooks \/ AddWorktree \/ Identify
    BY <2>3 DEF DisableHooks, AddWorktree, NewWorktree, Identify, fs, call
  <2> QED
    BY <1>1, <2>1, <2>2, <2>3 DEF Making
<1>2. CASE Looking \/ Merge
  <2>1. CASE FingerprintAfter
    BY <2>1 DEF FingerprintAfter, Look, Fingerprint, fs, call
  <2>2. CASE pc # "after"
    BY <1>2, <2>2, Looks, Merges DEF fs, call
  <2>3. pc = "after" => FingerprintAfter
    BY <1>2, Merges
    DEF Looking, RefreshIndex, Probe, ProveClean, RewriteIndex, RetryMerge, WriteTree,
        VerifyCheckout, Look
  <2> QED
    BY <2>1, <2>2, <2>3
<1>3. CASE Checking
  BY <1>3
  DEF Checking, FingerprintBefore, ExecuteChecks, Fingerprint, fs, call
<1>4. CASE Cleaning
  BY <1>4
  DEF Cleaning, LeaveIdentity, AbortMerge, LeaveStatus, RemoveWorktree, RemoveHooks,
      CompareParent, RemoveParent, FailParent, FailCleanup, CleanupError, Leave, ParentError,
      fs, call, history
<1>5. CASE CommitTree
  BY <1>5 DEF CommitTree
<1>6. CASE Kill
  BY <1>6 DEF Kill, call, history
<1>7. CASE Intrude
  BY <1>7
  DEF Intrude, WriteInto, ReplaceTree, ReplaceParent, DropLitter, call
<1>8. CASE UNCHANGED vars
  BY <1>8 DEF vars, fs, call, history
<1> QED
  BY <1>1, <1>2, <1>3, <1>4, <1>5, <1>6, <1>7, <1>8, Groups

\* A directory is forgotten before the next one is made, and removed only when
\* nothing was put into it.
LEMMA RememberedKeeps == ASSUME IInv, [Next]_vars PROVE Remembered'
<1> USE DEF IInv, Remembered, Goto, Raise, TypeOK
<1>1. CASE Making
  <2>1. CASE CreateParent \/ StatParent
    BY <2>1 DEF CreateParent, StatParent, fs, call
  <2>2. CASE InspectParent \/ CompareUndone \/ RemoveUndone
    BY <2>2 DEF InspectParent, Look, CompareUndone, RemoveUndone, Removable, fs, call
  <2>3. CASE DisableHooks \/ AddWorktree \/ Identify
    BY <2>3 DEF DisableHooks, AddWorktree, NewWorktree, Identify, fs, call
  <2> QED
    BY <1>1, <2>1, <2>2, <2>3 DEF Making
<1>2. CASE Looking \/ Merge
  BY <1>2, Looks, Merges DEF fs, call
<1>3. CASE Checking
  BY <1>3
  DEF Checking, FingerprintBefore, ExecuteChecks, fs, call
<1>4. CASE Cleaning
  <2>1. CASE CompareParent
    <3>1. pc' \in {"rmdirParent", "raised"}
      BY <2>1, Leaves DEF CompareParent, FailParent, ParentError
    <3> QED
      BY <2>1, <3>1 DEF CompareParent, fs, call
  <2>2. CASE RemoveParent
    <3>1. pc' = "raised" \/ (Removable /\ parent' = "absent" /\ pc' # "create" /\ pc' # "stat")
      BY <2>2, Leaves DEF RemoveParent, FailParent, ParentError
    <3>2. parent' \in {parent, "absent"} /\ UNCHANGED <<litter, bound>>
      BY <2>2 DEF RemoveParent, call
    <3>3. parent' = parent \/ ~litter
      BY <2>2 DEF RemoveParent, Removable
    <3> QED
      BY <3>1, <3>2, <3>3
  <2>3. CASE LeaveIdentity \/ AbortMerge \/ LeaveStatus \/ RemoveWorktree \/ RemoveHooks
    BY <2>3
    DEF LeaveIdentity, AbortMerge, LeaveStatus, RemoveWorktree, RemoveHooks, FailCleanup, fs, call
  <2> QED
    BY <1>4, <2>1, <2>2, <2>3 DEF Cleaning
<1>5. CASE CommitTree
  BY <1>5 DEF CommitTree, fs
<1>6. CASE Kill
  BY <1>6 DEF Kill, fs, call
<1>7. CASE Intrude
  BY <1>7
  DEF Intrude, WriteInto, ReplaceTree, ReplaceParent, DropLitter, call
<1>8. CASE UNCHANGED vars
  BY <1>8 DEF vars, fs, call
<1> QED
  BY <1>1, <1>2, <1>3, <1>4, <1>5, <1>6, <1>7, <1>8, Groups

\* Another program's directory takes the place of the own one, and which step it
\* came before is remembered.
LEMMA CameKeeps == ASSUME IInv, [Next]_vars PROVE Came'
<1> USE DEF IInv, Came, Remembered, Goto, Raise, TypeOK
<1>1. CASE Making
  <2>1. CASE CreateParent
    BY <2>1 DEF CreateParent, call
  <2>2. CASE StatParent
    BY <2>2 DEF StatParent, fs
  <2>3. CASE CompareUndone
    BY <2>3 DEF CompareUndone, SameParent, BlindSteps, fs, call
  <2>4. CASE RemoveUndone
    BY <2>4 DEF RemoveUndone, call
  <2>5. CASE InspectParent \/ DisableHooks \/ AddWorktree \/ Identify
    BY <2>5 DEF InspectParent, Look, DisableHooks, AddWorktree, NewWorktree, Identify, fs, call
  <2> QED
    BY <1>1, <2>1, <2>2, <2>3, <2>4, <2>5 DEF Making
<1>2. CASE Looking \/ Merge
  BY <1>2, Looks, Merges DEF fs, call
<1>3. CASE Checking
  BY <1>3 DEF Checking, FingerprintBefore, ExecuteChecks, fs, call
<1>4. CASE Cleaning
  <2>1. CASE CompareParent
    <3>1. UNCHANGED <<parent, bound, replaced>> /\ pc' # "stat" /\ pc' # "undoRemove"
      BY <2>1 DEF CompareParent, FailParent, Leave, fs, call
    <3>2. pc' = "rmdirParent" => SameParent
      BY <2>1 DEF CompareParent, ParentIsBound, FailParent, Leave
    <3> QED
      BY <3>1, <3>2 DEF SameParent, BlindSteps
  <2>2. CASE RemoveParent
    <3>1. /\ UNCHANGED <<bound, replaced>> /\ parent' \in {parent, "absent"}
          /\ pc' \notin {"stat", "undoRemove", "rmdirParent"}
      BY <2>2 DEF RemoveParent, FailParent, Leave, call
    <3> QED
      BY <3>1
  <2>3. CASE LeaveIdentity \/ AbortMerge \/ LeaveStatus \/ RemoveWorktree \/ RemoveHooks
    BY <2>3
    DEF LeaveIdentity, AbortMerge, LeaveStatus, RemoveWorktree, RemoveHooks, FailCleanup,
        fs, call, history
  <2> QED
    BY <1>4, <2>1, <2>2, <2>3 DEF Cleaning
<1>5. CASE CommitTree
  BY <1>5 DEF CommitTree, fs
<1>6. CASE Kill
  BY <1>6 DEF Kill, fs, call, history
<1>7. CASE Intrude
  <2>1. UNCHANGED <<pc, bound>> /\ parent # "absent"
    BY <1>7 DEF Intrude, call
  <2>2. CASE UNCHANGED <<parent, replaced>>
    BY <2>1, <2>2
  <2>3. CASE \E owner \in {"absent", "foreign"} : ReplaceParent(owner)
    BY <2>1, <2>3 DEF ReplaceParent, BlindSteps, Owners
  <2> QED
    BY <1>7, <2>2, <2>3 DEF Intrude, WriteInto, ReplaceTree, DropLitter
<1>8. CASE UNCHANGED vars
  BY <1>8 DEF vars, fs, call, history
<1> QED
  BY <1>1, <1>2, <1>3, <1>4, <1>5, <1>6, <1>7, <1>8, Groups

\* A verdict is given by the removal of the directory only.
LEMMA VerdictKeeps == ASSUME IInv, [Next]_vars PROVE VerdictLeavesNothing'
<1> USE DEF IInv, VerdictLeavesNothing, Goto, Raise
<1>1. CASE Making
  BY <1>1
  DEF Making, CreateParent, StatParent, InspectParent, Look, CompareUndone, RemoveUndone,
      DisableHooks, AddWorktree, NewWorktree, Identify
<1>2. CASE Looking \/ Merge
  BY <1>2, Looks, Merges DEF fs, call
<1>3. CASE Checking
  BY <1>3
  DEF Checking, FingerprintBefore, ExecuteChecks
<1>4. CASE Cleaning
  BY <1>4
  DEF Cleaning, LeaveIdentity, AbortMerge, LeaveStatus, RemoveWorktree, RemoveHooks,
      CompareParent, RemoveParent, FailParent, FailCleanup, Leave, Removable, ParentError
<1>5. CASE CommitTree \/ Kill
  BY <1>5 DEF CommitTree, Kill
<1>6. CASE Intrude
  BY <1>6 DEF Intrude, Ended
<1>7. CASE UNCHANGED vars
  BY <1>7 DEF vars, fs
<1> QED
  BY <1>1, <1>2, <1>3, <1>4, <1>5, <1>6, <1>7, Groups

-----------------------------------------------------------------------------
(* What a quiet call has in the checkout.                                  *)

\* A call that is quiet after a step was quiet before it.
LEMMA QuietBefore == ASSUME IInv, [Next]_vars, Quiet' PROVE Quiet
<1> USE DEF IInv, Quiet
<1>1. CASE Making
  <2>1. CASE CompareUndone \/ RemoveUndone
    <3>1. UNCHANGED <<wrote, intrusions>>
      BY <2>1 DEF CompareUndone, RemoveUndone
    <3>2. broken => broken'
      BY <2>1, Zenon DEF CompareUndone, RemoveUndone
    <3> QED
      BY <3>1, <3>2
  <2>2. CASE InspectParent
    BY <2>2 DEF InspectParent, Look
  <2>3. CASE CreateParent \/ StatParent \/ DisableHooks \/ AddWorktree \/ Identify
    BY <2>3 DEF CreateParent, StatParent, DisableHooks, AddWorktree, Identify
  <2> QED
    BY <1>1, <2>1, <2>2, <2>3 DEF Making
<1>2. CASE Looking \/ Merge
  BY <1>2, Looks, Merges
<1>3. CASE Checking
  BY <1>3 DEF Checking, FingerprintBefore, ExecuteChecks, Written, Exceptions, CleanupPath
<1>4. CASE Cleaning
  <2>1. ASSUME NEW fault, FailCleanup(fault)
        PROVE  UNCHANGED <<wrote, intrusions>> /\ (broken => broken')
    BY <2>1 DEF FailCleanup
  <2>2. CASE CompareParent \/ RemoveParent
    <3>1. UNCHANGED <<wrote, intrusions>>
      BY <2>2 DEF CompareParent, RemoveParent
    <3>2. broken => broken'
      BY <2>2, Zenon DEF CompareParent, RemoveParent, FailParent
    <3> QED
      BY <3>1, <3>2
  <2>3. CASE LeaveIdentity \/ AbortMerge \/ LeaveStatus \/ RemoveWorktree \/ RemoveHooks
    <3>1. UNCHANGED history \/ \E fault : FailCleanup(fault)
      BY <2>3 DEF LeaveIdentity, AbortMerge, LeaveStatus, RemoveWorktree, RemoveHooks
    <3> QED
      BY <2>1, <3>1 DEF history
  <2> QED
    BY <1>4, <2>2, <2>3 DEF Cleaning
<1>5. CASE CommitTree \/ Kill
  BY <1>5 DEF CommitTree, Kill, history
<1>6. CASE Intrude
  BY <1>6 DEF Intrude, TypeOK
<1>7. CASE UNCHANGED vars
  BY <1>7 DEF vars, history
<1> QED
  BY <1>1, <1>2, <1>3, <1>4, <1>5, <1>6, <1>7, Groups

\* Making the directory and the worktree in it: what fails is taken away, or is
\* the addition of the worktree.
LEMMA QuietMaking == ASSUME IInv, QuietPlace, Making, Quiet' PROVE QuietPlace'
<1> USE DEF IInv, QuietPlace, Goto, Raise, InTree, TypeOK, LeavesDirectory, Exceptions, Unguarded
<1>1. CASE CreateParent
  BY <1>1 DEF CreateParent, Unmade, Made, call
<1>2. CASE StatParent
  BY <1>2 DEF StatParent, Made, Bare, OwnParent, fs
<1>3. CASE InspectParent
  <2>1. /\ Bare /\ UNCHANGED <<fs, call>>
        /\ pc' = "undo" \/ pc' = IF stage = "merge" THEN "hooks" ELSE "add"
    BY <1>3 DEF InspectParent, Look
  <2> QED
    BY <2>1 DEF Bare, ToAdd, OwnParent, MergeHooks, fs, call
<1>4. CASE CompareUndone
  <2>1. Bare /\ pc' = "undoRemove" /\ UNCHANGED <<fs, call>>
    BY <1>4 DEF CompareUndone, Bare, OwnParent, SameParent, Quiet
  <2> QED
    BY <2>1 DEF Bare, OwnParent, fs, call
<1>5. CASE RemoveUndone
  <2>1. /\ pc' = "raised" /\ parent' = "absent"
        /\ UNCHANGED <<litter, hooks, tree, call, primary>>
    BY <1>5 DEF RemoveUndone, Bare, OwnParent, Removable, Quiet
  <2>2. primary \notin Unguarded
    BY <1>5 DEF RemoveUndone
  <2> QED
    BY <2>1, <2>2
<1>6. CASE DisableHooks
  <2>1. Bare /\ stage = "merge" /\ UNCHANGED <<parent, litter, tree, stage, bound>>
    BY <1>6 DEF DisableHooks, Stages, MergeSteps, call
  <2>2. \/ pc' = "add" /\ hooks' = TRUE
        \/ pc' = "removeParent" /\ primary' = "create" /\ UNCHANGED hooks
    BY <1>6 DEF DisableHooks
  <2>3. CASE pc' = "add" /\ hooks' = TRUE
    <3>1. ToAdd' /\ ~litter'
      BY <2>1, <2>3 DEF Bare, ToAdd, OwnParent, MergeHooks
    <3> QED
      BY <2>3, <3>1
  <2>4. CASE pc' = "removeParent" /\ primary' = "create" /\ UNCHANGED hooks
    <3>1. ToRemove' /\ ~litter'
      BY <2>1, <2>4 DEF Bare, ToRemove, OwnParent
    <3> QED
      BY <2>4, <3>1
  <2> QED
    BY <2>2, <2>3, <2>4
<1>7. CASE AddWorktree
  <2>1. ToAdd /\ UNCHANGED <<parent, litter, hooks, call>>
    BY <1>7 DEF AddWorktree
  <2>2. CASE pc' = "identify" /\ NewWorktree
    BY <2>1, <2>2 DEF NewWorktree, ToAdd, Added, OwnParent, MergeHooks, call
  <2>3. CASE /\ pc' = "removeParent" /\ primary' = "add"
             /\ tree' = tree \/ (stage = "check" /\ tree' = "own")
    BY <2>1, <2>3 DEF ToAdd, ToRemove, OwnParent, MergeHooks, call
  <2> QED
    BY <1>7, <2>2, <2>3 DEF AddWorktree, NewWorktree
<1>8. CASE Identify
  BY <1>8 DEF Identify, Added, Working, ToRemove, OwnParent, MergeHooks, fs
<1> QED
  BY <1>1, <1>2, <1>3, <1>4, <1>5, <1>6, <1>7, <1>8 DEF Making

\* The work in the worktree.
LEMMA QuietWork ==
  ASSUME IInv, QuietPlace, Looking \/ Merge \/ Checking, Quiet'
  PROVE  QuietPlace'
<1> USE DEF IInv, QuietPlace, InTree
<1>1. pc \in InTree /\ Working
  BY Looks, Merges DEF Checking, FingerprintBefore, ExecuteChecks
<1>2. UNCHANGED <<parent, litter, hooks, tree, stage, bound, known>>
  BY Looks, Merges DEF Checking, FingerprintBefore, ExecuteChecks, fs, call
<1>3. stage = "check" => UNCHANGED merging
  BY Looks, Merges DEF Checking, FingerprintBefore, ExecuteChecks, fs, Stages, MergeSteps
<1>4. drift' \cap Visible = {}
  BY <1>1, Looks, Merges DEF Checking, FingerprintBefore, ExecuteChecks, fs, Working, Quiet
<1>5. Working'
  BY <1>1, <1>2, <1>3, <1>4 DEF Working, OwnParent, MergeHooks
<1>6. pc' \in InTree \ {"leaveStatus", "remove"}
  BY Looks, Merges DEF Checking, FingerprintBefore, ExecuteChecks, Goto, Raise
<1> QED
  BY <1>2, <1>5, <1>6

\* The finally clauses: a command that does not fail by itself takes away what
\* it is for.
LEMMA QuietCleaning ==
  ASSUME IInv, QuietPlace, Quiet, Cleaning, Quiet'
  PROVE  QuietPlace'
<1> USE DEF IInv, QuietPlace, Goto, InTree, Quiet, LeavesDirectory, Exceptions, Unguarded
<1>1. CASE LeaveIdentity
  <2>1. SameTree /\ Working
    BY <1>1 DEF LeaveIdentity, Working, SameTree
  <2>2. UNCHANGED <<fs, call>> /\ pc' = IF stage = "merge" THEN "leaveMerge" ELSE "remove"
    BY <1>1, <2>1 DEF LeaveIdentity, FailCleanup
  <2> QED
    BY <2>1, <2>2 DEF Working, OwnParent, MergeHooks, fs, call, TypeOK
<1>2. CASE AbortMerge
  <2>1. Working /\ AtHome /\ "tracked" \notin drift
    BY <1>2 DEF AbortMerge, Working, AtHome, Visible
  <2>2. /\ pc' = "leaveStatus" /\ merging' = FALSE
        /\ UNCHANGED <<parent, litter, hooks, tree, drift, call>>
    BY <1>2, <2>1 DEF AbortMerge, AfterMergeAbort, FailCleanup
  <2> QED
    BY <2>1, <2>2 DEF Working, OwnParent, MergeHooks, call
<1>3. CASE LeaveStatus
  <2>1. Working /\ StatusEmpty
    BY <1>3 DEF LeaveStatus, Working, StatusEmpty, AtHome
  <2>2. pc' = "remove" /\ UNCHANGED <<fs, call>>
    BY <1>3, <2>1 DEF LeaveStatus, FailCleanup
  <2> QED
    BY <1>3, <2>1, <2>2 DEF Working, OwnParent, MergeHooks, fs, call, LeaveStatus
<1>4. CASE RemoveWorktree
  <2>1. Working /\ StatusEmpty
    BY <1>4 DEF RemoveWorktree, Working, StatusEmpty, AtHome
  <2>2. /\ tree' = "absent" /\ UNCHANGED <<parent, litter, hooks, call>>
        /\ pc' = IF stage = "merge" THEN "removeHooks" ELSE "removeParent"
    BY <1>4, <2>1 DEF RemoveWorktree, FailCleanup
  <2>3. primary \notin Unguarded /\ primary' = primary
    BY <1>4, <2>1 DEF RemoveWorktree, FailCleanup, history
  <2> QED
    BY <2>1, <2>2, <2>3 DEF Working, OwnParent, MergeHooks, Emptied, ToRemove, call
<1>5. CASE RemoveHooks
  <2>1. pc' = "removeParent" /\ hooks' = FALSE /\ UNCHANGED <<parent, litter, tree, call>>
    BY <1>5 DEF RemoveHooks, FailCleanup
  <2>2. primary \notin Unguarded /\ primary' = primary
    BY <1>5 DEF RemoveHooks, FailCleanup, history
  <2> QED
    BY <1>5, <2>1, <2>2 DEF RemoveHooks, Emptied, ToRemove, OwnParent, call
<1>6. CASE CompareParent
  <2>1. pc' = "rmdirParent" /\ ToRemove /\ UNCHANGED <<fs, call, primary>>
    BY <1>6 DEF CompareParent, FailParent, SameParent, ParentIsBound, ToRemove, OwnParent
  <2> QED
    BY <1>6, <2>1 DEF CompareParent, ToRemove, OwnParent, fs, call
<1>7. CASE RemoveParent
  <2>1. ToRemove /\ UNCHANGED <<litter, hooks, tree, call>>
    BY <1>7 DEF RemoveParent
  <2>2. CASE Removable
    <3>1. parent' = "absent" /\ Leave(error) /\ UNCHANGED primary
      BY <1>7, <2>2 DEF RemoveParent, FailParent
    <3>2. pc' \in {"raised", "commit", "returned"}
      BY <3>1 DEF Leave
    <3>3. ~LeavesDirectory /\ UNCHANGED <<tree, stage>>
      BY <2>1, <2>2 DEF Removable, ToRemove, call
    <3> QED
      BY <2>1, <2>2, <3>1, <3>2, <3>3 DEF Removable, Unmade
  <2>3. CASE ~Removable
    <3>1. LeavesDirectory /\ primary # "none"
      BY <2>1, <2>3 DEF Removable, ToRemove, OwnParent
    <3>2. Leave(ParentError) /\ UNCHANGED <<parent, primary, stage>>
      BY <1>7, <2>3, <3>1 DEF RemoveParent, FailParent, call
    <3>3. pc' = "raised"
      BY <3>2 DEF Leave, ParentError
    <3> QED
      BY <2>1, <3>1, <3>2, <3>3 DEF ToRemove, OwnParent
  <2> QED
    BY <2>2, <2>3
<1> QED
  BY <1>1, <1>2, <1>3, <1>4, <1>5, <1>6, <1>7 DEF Cleaning

\* Every step keeps what a quiet call has in the checkout.
LEMMA CleanPlaceKeeps == ASSUME IInv, [Next]_vars PROVE CleanPlace'
<1> SUFFICES ASSUME Quiet' PROVE QuietPlace'
  BY DEF CleanPlace
<1>1. Quiet /\ QuietPlace
  BY QuietBefore DEF IInv, CleanPlace
<1>2. CASE Making
  BY <1>1, <1>2, QuietMaking
<1>3. CASE Looking \/ Merge \/ Checking
  BY <1>1, <1>3, QuietWork
<1>4. CASE Cleaning
  BY <1>1, <1>4, QuietCleaning
<1>5. CASE CommitTree
  BY <1>1, <1>5 DEF CommitTree, Goto, Raise, QuietPlace, InTree, Unmade, LeavesDirectory, fs
<1>6. CASE Kill
  BY <1>1, <1>6 DEF Kill, Goto, QuietPlace, InTree, fs
<1>7. CASE Intrude
  BY <1>1, <1>7 DEF Intrude, Quiet, IInv, TypeOK
<1>8. CASE UNCHANGED vars
  BY <1>1, <1>8
  DEF vars, fs, call, history, QuietPlace, Unmade, Made, Bare, ToAdd, Added, Working, Emptied,
      ToRemove, LeavesDirectory, OwnParent, MergeHooks
<1> QED
  BY <1>2, <1>3, <1>4, <1>5, <1>6, <1>7, <1>8, Groups

-----------------------------------------------------------------------------
(* The theorems.                                                           *)

\* The inductive invariant holds in every reachable state.
THEOREM Invariance == Spec => []IInv
<1>1. IInv /\ [Next]_vars => IInv'
  BY TypeKeeps, StagesKeep, ExceptionsKeep, WrittenKeeps, RememberedKeeps, CameKeeps,
     VerdictKeeps, CleanPlaceKeeps
  DEF IInv
<1> QED
  BY InitEstablishes, <1>1, PTL DEF Spec

\* Every variable keeps its type, and at most two merges are tried.
THEOREM TypeCorrect == Spec => []TypeOK
<1>1. IInv => TypeOK
  BY DEF IInv
<1> QED
  BY <1>1, Invariance, PTL

\* execute_integration_checks: whatever others do to the directories, a verdict
\* is only given once nothing of the call is left in the checkout.
THEOREM EmptyVerdict == Spec => []VerdictLeavesNothing
<1>1. IInv => VerdictLeavesNothing
  BY DEF IInv
<1> QED
  BY <1>1, Invariance, PTL

\* integration_worktree_fingerprint: checks that changed anything in the worktree
\* never give a verdict, whoever else writes into it in between.
THEOREM PristineVerdict == Spec => []VerdictIsPristine
<1>1. IInv => VerdictIsPristine
  BY DEF IInv, Exceptions, CleanupPath, Written, VerdictIsPristine
<1> QED
  BY <1>1, Invariance, PTL

\* expected_integration_tree: no failure of the cleanup hides the error of the
\* merge.
THEOREM MergeErrors == Spec => []MergeErrorIsReported
<1>1. IInv => MergeErrorIsReported
  BY DEF IInv, Exceptions, MergeErrorIsReported
<1> QED
  BY <1>1, Invariance, PTL

\* The finally clauses: a call that nobody disturbs and whose cleanup works leaves
\* something in the checkout exactly if Git could not add the merge worktree or
\* left the other one behind, or an identity could not be read.
THEOREM CleanFailure == Spec => []FailedCallCleansUp
<1>1. IInv => FailedCallCleansUp
  BY DEF IInv, CleanPlace, Quiet, QuietPlace, FailedCallCleansUp, Undisturbed
<1> QED
  BY <1>1, Invariance, PTL

\* The identities of directories: whatever other programs do in between, no step
\* of the call removes what it did not make or what has visible changes, except an
\* empty directory that came at a blind step.
THEOREM ForeignStays == Spec => NothingForeignIsRemoved
<1> DEFINE Kept ==
      intrusions' = intrusions =>
        /\ parent = "foreign" /\ parent' = "absent" => replaced \in BlindSteps
        /\ litter => parent' # "absent" /\ litter'
        /\ tree = "foreign" => tree' = tree
        /\ tree = "own" /\ drift \cap Visible # {} => tree' = tree
<1>1. ASSUME IInv, [Next]_vars PROVE Kept
  <2> USE <1>1 DEF IInv, Remembered, Came
  <2>1. CASE Making
    BY <2>1
    DEF Making, CreateParent, StatParent, InspectParent, Look, CompareUndone, RemoveUndone,
        Removable, DisableHooks, AddWorktree, NewWorktree, Identify, Raise, fs
  <2>2. CASE Looking \/ Merge
    BY <2>2, Looks, Merges DEF fs
  <2>3. CASE Checking
    BY <2>3 DEF Checking, FingerprintBefore, ExecuteChecks, fs
  <2>4. CASE Cleaning
    BY <2>4
    DEF Cleaning, LeaveIdentity, AbortMerge, LeaveStatus, RemoveWorktree, RemoveHooks,
        CompareParent, RemoveParent, FailCleanup, Removable, StatusEmpty, AtHome, fs
  <2>5. CASE CommitTree \/ Kill
    BY <2>5 DEF CommitTree, Kill, fs
  <2>6. CASE Intrude
    BY <2>6 DEF Intrude, TypeOK
  <2>7. CASE UNCHANGED vars
    BY <2>7 DEF vars, fs
  <2> QED
    BY <2>1, <2>2, <2>3, <2>4, <2>5, <2>6, <2>7, Groups
<1>2. IInv /\ [Next]_vars => [Kept]_vars
  BY <1>1
<1> QED
  BY <1>2, Invariance, PTL DEF Spec, NothingForeignIsRemoved

=============================================================================
