------------------------------ MODULE PushReady ------------------------------
(***************************************************************************)
(* scripts/lit-push-ready.py: the commands push-ready, validate, review,   *)
(* verify and pre-push as concurrent processes of one clone, step by step  *)
(* as they read HEAD, the working tree, the base ref and the evidence file,*)
(* while the developer keeps using Git in the same checkout, other people  *)
(* push to the remote, and a process may fail or be killed at any point.   *)
(***************************************************************************)
EXTENDS Naturals

CONSTANTS
  Procs,      \* invocations of the script that may overlap
  Commands,   \* commands they run
  Commits,    \* commit objects
  Ancestor,   \* <<a, c>>: a is an ancestor of c, or c itself
  PolicyOf,   \* commit -> the tree entries of the executable check policy
  Mergeable,  \* <<base, head>>: git merge of head into base succeeds
  Branches,   \* refs/heads/* names
  Develop,    \* the governed base branch, one of Branches
  Detached,   \* HEAD is not attached to a branch
  NoCommit,   \* the all-zero object id: the ref does not exist
  NoValue,    \* a variable of a process that holds nothing
  NoFile,     \* there is no evidence file
  TornFile,   \* the evidence file is not one complete JSON document
  Clean,      \* the working tree and index are those of HEAD
  Edits,      \* contents of a modified working tree
  MaxMoves,   \* bound: moves of the developer and of other clones
  MaxRuns     \* bound: commands started

AllCommands == {"push-ready", "validate", "review", "verify", "pre-push"}
Contents == Edits \cup {Clean}
Refs == Branches \cup {Detached}
Features == Branches \ {Develop}

ASSUME ConstantsAssumption ==
  /\ Commands \subseteq AllCommands
  /\ Develop \in Branches
  /\ Detached \notin Branches
  /\ NoCommit \notin Commits
  /\ NoValue \notin Procs
  /\ MaxMoves \in Nat /\ MaxRuns \in Nat

\* A commit's parents exist before it: ancestry has no cycles.
ASSUME AncestorAssumption ==
  /\ \A a \in Commits : <<a, a>> \in Ancestor
  /\ \A a, b \in Commits :
       <<a, b>> \in Ancestor /\ <<b, a>> \in Ancestor => a = b
  /\ \A a, b, c \in Commits :
       <<a, b>> \in Ancestor /\ <<b, c>> \in Ancestor => <<a, c>> \in Ancestor

VARIABLES
  localTip,   \* local branch (or detached HEAD) -> commit
  branch,     \* what .git/HEAD names
  work,       \* working tree and index
  answer,     \* base tip the remote told the developer's own git fetch
  baseRef,    \* refs/remotes/origin/develop
  remote,     \* branch of the remote -> commit or NoCommit
  dirs,       \* processes whose .lit-integration-* worktree is in the checkout
  leaked,     \* a .lit-integration-* worktree nobody will remove is there
  evidence,   \* .git/lit-push-ready-evidence.json
  moves,      \* moves made so far by the developer and other clones
  runs,       \* commands started so far
  pc,         \* process -> its next step, or how its last command ended
  cmd,        \* process -> command
  phase,      \* process -> which planned change it is working on
  orig,       \* process -> HEAD, branch and fingerprint at its start
  adv,        \* process -> its fetch: tip the remote told, local ref it replaces
  chg,        \* process -> PlannedChange: fingerprint, base tip, head commit
  integ,      \* process -> integration commit its checks passed on
  payload,    \* process -> evidence document it writes or has read
  upd,        \* process -> the ref update Git hands to the pre-push hook
  passed,     \* history: integrations whose checks passed
  pushed,     \* history: updates this clone made on the remote
  seen,       \* history: process -> base tips the remote had since it started
  late,       \* history: processes under which an older answer was stored
  calm,       \* history: the last starter, while nobody disturbed it
  ready       \* history: it runs the hook right after its own push-ready

repo == <<localTip, branch, work, answer>>
shared == <<baseRef, remote, dirs, leaked, evidence, moves, runs>>
locals == <<cmd, phase, orig, adv, chg, integ, payload, upd>>
history == <<passed, pushed, seen, late, calm, ready>>
vars == <<repo, shared, pc, locals, history>>

Ended == {"idle", "ok", "refused", "interrupted"}
Running(p) == pc[p] \notin Ended
Fetching == {"push-ready", "validate", "pre-push"}
Head == localTip[branch]

-----------------------------------------------------------------------------
(* Reads of the checkout.                                                  *)

\* A worktree of another process, or a leaked one, is an untracked directory
\* of the checkout: the status is not empty and hashing it raises.
OnlyLiveWorktrees == dirs = {}  \* fault: a leaked one is not seen
NoForeignWorktree == dirs = {} /\ ~leaked
StatusEmpty == work = Clean /\ NoForeignWorktree
Fingerprint == [head |-> Head, work |-> work]

\* current_branch_ref: attached, and neither develop nor main.
OnFeatureBranch == branch \in Features

-----------------------------------------------------------------------------
(* Control of one process.                                                 *)

Goto(p, step) == pc' = [pc EXCEPT ![p] = step]
Undisturbed(p) ==
  /\ calm' = IF calm = p THEN p ELSE NoValue
  /\ ready' = (ready /\ calm = p)

\* A step of p that only reads shared state and then continues at step.
Proceed(p, step) ==
  /\ Goto(p, step)
  /\ Undisturbed(p)
  /\ UNCHANGED <<passed, pushed, seen, late>>

\* The command of p ends: its private state goes with it.
Leave(p, result) ==
  /\ Goto(p, result)
  /\ phase' = [phase EXCEPT ![p] = "first"]
  /\ orig' = [orig EXCEPT ![p] = NoValue]
  /\ adv' = [adv EXCEPT ![p] = NoValue]
  /\ chg' = [chg EXCEPT ![p] = NoValue]
  /\ integ' = [integ EXCEPT ![p] = NoValue]
  /\ payload' = [payload EXCEPT ![p] = NoValue]
  /\ upd' = [upd EXCEPT ![p] = NoValue]
  /\ seen' = [seen EXCEPT ![p] = {}]
  /\ late' = late \ {p}
  /\ Undisturbed(p)
  /\ UNCHANGED <<repo, baseRef, evidence, moves, runs, cmd, passed>>

Exit(p, result) == Leave(p, result) /\ UNCHANGED <<remote, dirs, leaked, pushed>>

\* A check of p on what it just read: go on, or raise RuntimeError.
Require(p, condition, step) ==
  \/ /\ condition
     /\ Proceed(p, step)
     /\ UNCHANGED <<repo, shared, locals>>
  \/ ~condition /\ Exit(p, "refused")

-----------------------------------------------------------------------------
(* main: which step follows which.                                         *)

Start(p, c, u) ==
  /\ ~Running(p)
  /\ runs < MaxRuns
  /\ runs' = runs + 1
  /\ Goto(p, CASE c = "verify" -> "read"
               [] c = "review" -> "planFp"
               [] OTHER -> "clean")
  /\ cmd' = [cmd EXCEPT ![p] = c]
  /\ phase' = [phase EXCEPT ![p] = IF c = "review" THEN "second" ELSE "first"]
  /\ upd' = [upd EXCEPT ![p] = u]
  /\ seen' = [seen EXCEPT ![p] = IF c \in Fetching THEN {remote[Develop]} ELSE {}]
  /\ late' = late \ {p}
  /\ calm' = p
  /\ ready' = (c = "pre-push" /\ calm = p /\ cmd[p] = "push-ready" /\ pc[p] = "ok")
  /\ UNCHANGED <<repo, baseRef, remote, dirs, leaked, evidence, moves,
                 orig, adv, chg, integ, payload, passed, pushed>>

\* Fault: the hook trusts the base ref of an earlier fetch.
AfterCleanWithoutFetch(p) ==
  CASE cmd[p] = "push-ready" -> "origHead"
    [] cmd[p] = "pre-push" -> "read"
    [] OTHER -> "advertise"
AfterClean(p) == IF cmd[p] = "push-ready" THEN "origHead" ELSE "advertise"
AfterFetch(p) == IF cmd[p] = "pre-push" THEN "read" ELSE "planFp"
AfterPlan(p) ==
  CASE phase[p] # "second" -> "policy"
    [] phase[p] = "second" /\ cmd[p] = "validate" -> "ok"
    [] OTHER -> "reviewFp"

RequireCleanHead(p) == pc[p] = "clean" /\ Require(p, StatusEmpty, AfterClean(p))

\* push-ready remembers HEAD, branch and fingerprint, one read after another.
OriginalHead(p) ==
  /\ pc[p] = "origHead"
  /\ orig' = [orig EXCEPT ![p] = [head |-> Head, branch |-> NoValue, fp |-> NoValue]]
  /\ Proceed(p, "origBranch")
  /\ UNCHANGED <<repo, shared, cmd, phase, adv, chg, integ, payload, upd>>

OriginalBranch(p) ==
  /\ pc[p] = "origBranch"
  /\ \/ /\ OnFeatureBranch
        /\ orig' = [orig EXCEPT ![p].branch = branch]
        /\ Proceed(p, "origFp")
        /\ UNCHANGED <<repo, shared, cmd, phase, adv, chg, integ, payload, upd>>
     \/ ~OnFeatureBranch /\ Exit(p, "refused")

OriginalFingerprint(p) ==
  /\ pc[p] = "origFp"
  /\ \/ /\ NoForeignWorktree
        /\ orig' = [orig EXCEPT ![p].fp = Fingerprint]
        /\ Proceed(p, "advertise")
        /\ UNCHANGED <<repo, shared, cmd, phase, adv, chg, integ, payload, upd>>
     \/ ~NoForeignWorktree /\ Exit(p, "refused")

-----------------------------------------------------------------------------
(* refresh_authoritative_base: git fetch origin +develop:baseRef.  Git     *)
(* asks the remote for its tip, later reads the local ref, and then moves  *)
(* that if it still has the value it had; the fetch fails when somebody    *)
(* else moved it meanwhile.  The refspec is forced: an answer that was     *)
(* given long ago replaces a newer one.                                    *)

Advertise(p) ==
  /\ pc[p] = "advertise"
  /\ adv' = [adv EXCEPT ![p] = [tip |-> remote[Develop], old |-> NoValue]]
  /\ Proceed(p, "oldRef")
  /\ UNCHANGED <<repo, shared, cmd, phase, orig, chg, integ, payload, upd>>

ReadTrackingRef(p) ==
  /\ pc[p] = "oldRef"
  /\ adv' = [adv EXCEPT ![p].old = baseRef]
  /\ Proceed(p, "fetch")
  /\ UNCHANGED <<repo, shared, cmd, phase, orig, chg, integ, payload, upd>>

\* Fault: an up-to-date base is reported as a failed fetch.
FetchMoves(p) == adv[p].tip # adv[p].old /\ baseRef = adv[p].old
FetchSucceeds(p) == adv[p].tip = adv[p].old \/ baseRef = adv[p].old

\* q is between its fetch's look at the tracking ref and the first read of the
\* base it then works with.
WaitsForBase(q) ==
  /\ pc[q] \in {"fetch", "read", "planFp", "planBase"}
  /\ cmd[q] \in Fetching
  /\ cmd[q] = "pre-push" \/ phase[q] = "first"

\* An answer from before the start of q is stored while q waits for its base.
Stores(tip) == late' = late \cup {q \in Procs : WaitsForBase(q) /\ tip \notin seen[q]}

Fetch(p) ==
  /\ pc[p] = "fetch"
  /\ \/ /\ FetchSucceeds(p)
        /\ \/ adv[p].tip = adv[p].old /\ UNCHANGED <<baseRef, late>>
           \/ adv[p].tip # adv[p].old /\ baseRef' = adv[p].tip /\ Stores(adv[p].tip)
        /\ adv' = [adv EXCEPT ![p] = NoValue]
        /\ Goto(p, AfterFetch(p))
        /\ Undisturbed(p)
        /\ UNCHANGED <<repo, remote, dirs, leaked, evidence, moves, runs,
                       cmd, phase, orig, chg, integ, payload, upd,
                       passed, pushed, seen>>
     \/ ~FetchSucceeds(p) /\ Exit(p, "refused")

-----------------------------------------------------------------------------
(* planned_change: fingerprint, base tip, HEAD, fingerprint again, and,    *)
(* when it also spools the patch, a third fingerprint after the scan.      *)

PlanFingerprint(p) ==
  /\ pc[p] = "planFp"
  /\ \/ /\ NoForeignWorktree
        /\ chg' = [chg EXCEPT ![p] =
                     [fp |-> Fingerprint, base |-> NoValue, head |-> NoValue]]
        /\ Proceed(p, "planBase")
        /\ UNCHANGED <<repo, shared, cmd, phase, orig, adv, integ, payload, upd>>
     \/ ~NoForeignWorktree /\ Exit(p, "refused")

PlanBase(p) ==
  /\ pc[p] = "planBase"
  /\ chg' = [chg EXCEPT ![p].base = baseRef]
  /\ Proceed(p, "planHead")
  /\ UNCHANGED <<repo, shared, cmd, phase, orig, adv, integ, payload, upd>>

PlanHead(p) ==
  /\ pc[p] = "planHead"
  /\ chg' = [chg EXCEPT ![p].head = Head]
  /\ Proceed(p, "planFpAgain")
  /\ UNCHANGED <<repo, shared, cmd, phase, orig, adv, integ, payload, upd>>

SameTree(fp) == NoForeignWorktree /\ Fingerprint = fp

PlanFingerprintAgain(p) ==
  /\ pc[p] = "planFpAgain"
  /\ Require(p, SameTree(chg[p].fp),
             IF phase[p] = "first" THEN "policy" ELSE "planScan")

PlanScan(p) ==
  /\ pc[p] = "planScan"
  /\ \/ /\ AfterPlan(p) # "ok"
        /\ Require(p, SameTree(chg[p].fp), AfterPlan(p))
     \/ /\ AfterPlan(p) = "ok"
        /\ Exit(p, IF SameTree(chg[p].fp) THEN "ok" ELSE "refused")

RequireTrustedCheckPolicy(p) ==
  /\ pc[p] = "policy"
  /\ Require(p, PolicyOf[chg[p].base] = PolicyOf[chg[p].head], "merge")

-----------------------------------------------------------------------------
(* expected_integration_tree and execute_integration_checks: a worktree    *)
(* appears in the checkout, is used, and is removed.                       *)

Integration(p) == <<chg[p].base, chg[p].head>>
KeepWorktree(p) == dirs' = dirs  \* fault: the worktree is not removed
RemoveWorktree(p) == dirs' = dirs \ {p}

AddMergeWorktree(p) ==
  /\ pc[p] = "merge"
  /\ dirs' = dirs \cup {p}
  /\ Proceed(p, "merging")
  /\ UNCHANGED <<repo, baseRef, remote, leaked, evidence, moves, runs, locals>>

AfterMerge(p) ==
  CASE phase[p] = "first" -> "addChecks"
    [] phase[p] = "second" -> "reviewFpAgain"
    [] OTHER -> "compare"

MergeInWorktree(p) ==
  /\ pc[p] = "merging"
  /\ RemoveWorktree(p)
  /\ \/ /\ Integration(p) \in Mergeable
        /\ Proceed(p, AfterMerge(p))
        /\ UNCHANGED <<repo, baseRef, remote, leaked, evidence, moves, runs, locals>>
     \/ /\ Integration(p) \notin Mergeable
        /\ Leave(p, "refused")
        /\ UNCHANGED <<remote, leaked, pushed>>

AddCheckWorktree(p) ==
  /\ pc[p] = "addChecks"
  /\ dirs' = dirs \cup {p}
  /\ Proceed(p, "checking")
  /\ UNCHANGED <<repo, baseRef, remote, leaked, evidence, moves, runs, locals>>

\* Every check exits 0, leaves the worktree as it was, and it is removed.
ChecksPass(p) ==
  /\ pc[p] = "checking"
  /\ passed' = passed \cup {Integration(p)}
  /\ integ' = [integ EXCEPT ![p] = Integration(p)]
  /\ RemoveWorktree(p)
  /\ phase' = [phase EXCEPT ![p] = "second"]
  /\ chg' = [chg EXCEPT ![p] = NoValue]
  /\ Goto(p, IF cmd[p] = "push-ready" THEN "reclean" ELSE "planFp")
  /\ Undisturbed(p)
  /\ UNCHANGED <<repo, baseRef, remote, leaked, evidence, moves, runs,
                 cmd, orig, adv, payload, upd, pushed, seen, late>>

\* A check fails, times out or changes the worktree; a changed worktree is
\* not removed, because git worktree remove runs without --force.
ChecksFail(p) ==
  /\ pc[p] = "checking"
  /\ dirs' = dirs \ {p}
  /\ leaked' \in {leaked, TRUE}
  /\ Leave(p, "refused")
  /\ UNCHANGED <<remote, pushed>>

-----------------------------------------------------------------------------
(* push-ready after the checks: nothing may have changed.                  *)

RequireCleanAgain(p) == pc[p] = "reclean" /\ Require(p, StatusEmpty, "reHead")
SameHead(p) == pc[p] = "reHead" /\ Require(p, Head = orig[p].head, "reBranch")
SameBranch(p) ==
  /\ pc[p] = "reBranch"
  /\ Require(p, OnFeatureBranch /\ branch = orig[p].branch, "reFp")
SameFingerprint(p) ==
  pc[p] = "reFp" /\ Require(p, SameTree(orig[p].fp), "planFp")

\* run_agent_reviews: the sanitized workspace merges again only when the
\* status was empty at its start.
ReviewFingerprint(p) ==
  pc[p] = "reviewFp" /\ Require(p, SameTree(chg[p].fp), "reviewStatus")

ReviewWorkspace(p) ==
  /\ pc[p] = "reviewStatus"
  /\ Proceed(p, IF StatusEmpty THEN "merge" ELSE "reviewFpAgain")
  /\ UNCHANGED <<repo, shared, locals>>

ReviewFingerprintAgain(p) ==
  /\ pc[p] = "reviewFpAgain"
  /\ \/ /\ cmd[p] = "push-ready"
        /\ Require(p, SameTree(chg[p].fp), "writeFp")
     \/ /\ cmd[p] # "push-ready"
        /\ Exit(p, IF SameTree(chg[p].fp) THEN "ok" ELSE "refused")

-----------------------------------------------------------------------------
(* write_evidence: build the document, truncate the file, write it.        *)

WriteFingerprint(p) ==
  pc[p] = "writeFp" /\ Require(p, SameTree(chg[p].fp), "writeBranch")

\* Fault: record the integration of the second planned change.
PlannedIntegration(p) == <<chg[p].base, chg[p].head>>
\* The value execute_integration_checks returned.
CheckedIntegration(p) == integ[p]

BuildEvidence(p) ==
  /\ pc[p] = "writeBranch"
  /\ \/ /\ OnFeatureBranch
        /\ payload' = [payload EXCEPT ![p] =
             [base |-> chg[p].base, head |-> chg[p].head, branch |-> branch,
              fp |-> chg[p].fp, integration |-> CheckedIntegration(p),
              expired |-> FALSE]]
        /\ Proceed(p, "truncate")
        /\ UNCHANGED <<repo, shared, cmd, phase, orig, adv, chg, integ, upd>>
     \/ ~OnFeatureBranch /\ Exit(p, "refused")

TruncateEvidence(p) ==
  /\ pc[p] = "truncate"
  /\ evidence' = TornFile
  /\ Proceed(p, "write")
  /\ UNCHANGED <<repo, baseRef, remote, dirs, leaked, moves, runs, locals>>

\* The tail of a longer document another writer put there may remain.
WriteEvidence(p) ==
  /\ pc[p] = "write"
  /\ evidence' \in IF evidence = TornFile THEN {payload[p]} ELSE {payload[p], TornFile}
  /\ Proceed(p, "read")
  /\ UNCHANGED <<repo, baseRef, remote, dirs, leaked, moves, runs, locals>>

-----------------------------------------------------------------------------
(* verify_evidence and verify_pre_push_updates.                            *)

Readable == evidence \notin {NoFile, TornFile} /\ ~evidence.expired

ReadEvidence(p) ==
  /\ pc[p] = "read"
  /\ \/ /\ Readable
        /\ payload' = [payload EXCEPT ![p] = evidence]
        /\ phase' = [phase EXCEPT ![p] = "verify"]
        /\ chg' = [chg EXCEPT ![p] = NoValue]
        /\ orig' = [orig EXCEPT ![p] = NoValue]
        /\ integ' = [integ EXCEPT ![p] = NoValue]
        /\ Proceed(p, "planFp")
        /\ UNCHANGED <<repo, shared, cmd, adv, upd>>
     \/ ~Readable /\ Exit(p, "refused")

\* Fault: the integration commit is not compared.
EvidenceMatchesHead(p) ==
  /\ payload[p].base = chg[p].base
  /\ payload[p].head = chg[p].head
  /\ OnFeatureBranch /\ payload[p].branch = branch
  /\ payload[p].fp = chg[p].fp

\* Every recorded value equals the recomputed one.
EvidenceMatches(p) ==
  /\ payload[p].base = chg[p].base
  /\ payload[p].head = chg[p].head
  /\ OnFeatureBranch /\ payload[p].branch = branch
  /\ payload[p].fp = chg[p].fp
  /\ payload[p].integration = Integration(p)

CompareEvidence(p) ==
  /\ pc[p] = "compare"
  /\ \/ /\ cmd[p] = "pre-push"
        /\ Require(p, EvidenceMatches(p), "updates")
     \/ /\ cmd[p] # "pre-push"
        /\ Exit(p, IF EvidenceMatches(p) THEN "ok" ELSE "refused")

\* Fault: the update is not bound to the reviewed commit.
BranchUpdateAuthorised(p) ==
  /\ ~upd[p].more
  /\ upd[p].src = payload[p].branch /\ upd[p].dst = payload[p].branch
  /\ upd[p].new # NoCommit
  /\ upd[p].old = NoCommit \/ <<upd[p].old, upd[p].new>> \in Ancestor

\* One update, from and to the reviewed branch, no deletion, the reviewed
\* commit, and fast-forward from what the remote advertised.
UpdateAuthorised(p) ==
  /\ ~upd[p].more
  /\ upd[p].src = payload[p].branch
  /\ upd[p].dst = payload[p].branch
  /\ upd[p].new # NoCommit
  /\ upd[p].new = payload[p].head
  /\ upd[p].old = NoCommit \/ <<upd[p].old, upd[p].new>> \in Ancestor

VerifyPrePushUpdates(p) ==
  pc[p] = "updates" /\ Require(p, UpdateAuthorised(p), "authorised")

\* git push after the hook's exit status 0: the remote takes the update only
\* if its ref still has the advertised value.
SendPack(p) ==
  /\ pc[p] = "authorised"
  /\ LET u == upd[p] IN
     \/ /\ remote[u.dst] = u.old
        /\ remote' = [remote EXCEPT ![u.dst] = u.new]
        /\ pushed' = pushed \cup
             {[ref |-> u.dst, old |-> u.old, new |-> u.new, base |-> payload[p].base]}
        /\ Leave(p, "ok")
        /\ UNCHANGED <<dirs, leaked>>
     \/ remote[u.dst] # u.old /\ Exit(p, "refused")

\* An exception (I/O, memory, a Git command, a content scan) ends the
\* command after its cleanup handlers; a kill ends it without them.
Interrupt(p) ==
  /\ Running(p)
  /\ dirs' = dirs \ {p}
  /\ leaked' \in {leaked, leaked \/ p \in dirs}
  /\ Leave(p, "interrupted")
  /\ UNCHANGED <<remote, pushed>>

-----------------------------------------------------------------------------
(* The developer and the remote, in the same checkout at the same time.    *)

\* git commit, commit --amend, reset, rebase: the current tip moves.
MoveHead(c) ==
  /\ c # Head
  /\ localTip' = [localTip EXCEPT ![branch] = c]
  /\ UNCHANGED <<branch, work, answer, baseRef, remote, leaked, evidence, seen, late>>

SwitchBranch(r) ==
  /\ r # branch
  /\ branch' = r
  /\ localTip' = IF r = Detached THEN [localTip EXCEPT ![Detached] = Head] ELSE localTip
  /\ UNCHANGED <<work, answer, baseRef, remote, leaked, evidence, seen, late>>

EditWork(w) ==
  /\ w # work
  /\ work' = w
  /\ UNCHANGED <<localTip, branch, answer, baseRef, remote, leaked, evidence, seen, late>>

\* A pull request is merged: the protected base only moves forward.
AdvanceBase(c) ==
  /\ c # remote[Develop]
  /\ <<remote[Develop], c>> \in Ancestor
  /\ remote' = [remote EXCEPT ![Develop] = c]
  /\ seen' = [p \in Procs |-> IF Running(p) /\ cmd[p] \in Fetching
                              THEN seen[p] \cup {c} ELSE seen[p]]
  /\ UNCHANGED <<repo, baseRef, leaked, evidence, late>>

\* Another clone updates or deletes a feature branch.
OtherClone(f, c) ==
  /\ c # remote[f]
  /\ remote' = [remote EXCEPT ![f] = c]
  /\ UNCHANGED <<repo, baseRef, leaked, evidence, seen, late>>

\* The developer runs git fetch, whose default refspec is forced as well: the
\* remote answers, and the answer is stored at some later moment.
AskRemote ==
  /\ answer # remote[Develop]
  /\ answer' = remote[Develop]
  /\ UNCHANGED <<localTip, branch, work, baseRef, remote, leaked, evidence, seen, late>>

StoreAnswer ==
  /\ answer # NoValue
  /\ answer' = NoValue
  /\ \/ answer = baseRef /\ UNCHANGED <<baseRef, late>>
     \/ answer # baseRef /\ baseRef' = answer /\ Stores(answer)
  /\ UNCHANGED <<localTip, branch, work, remote, leaked, evidence, seen>>

RemoveLeaked ==
  /\ leaked
  /\ leaked' = FALSE
  /\ UNCHANGED <<repo, baseRef, remote, evidence, seen, late>>

\* max_age_seconds pass.
ExpireEvidence ==
  /\ Readable
  /\ evidence' = [evidence EXCEPT !.expired = TRUE]
  /\ UNCHANGED <<repo, baseRef, remote, leaked, seen, late>>

Move ==
  \/ \E c \in Commits : MoveHead(c)
  \/ \E r \in Refs : SwitchBranch(r)
  \/ \E w \in Contents : EditWork(w)
  \/ \E c \in Commits : AdvanceBase(c)
  \/ \E f \in Features, c \in Commits \cup {NoCommit} : OtherClone(f, c)
  \/ AskRemote
  \/ RemoveLeaked
  \/ ExpireEvidence

\* Storing an answer is the end of a move that was counted.
Environment ==
  /\ calm' = NoValue
  /\ ready' = FALSE
  /\ \/ StoreAnswer /\ UNCHANGED moves
     \/ moves < MaxMoves /\ moves' = moves + 1 /\ Move
  /\ UNCHANGED <<dirs, runs, pc, locals, passed, pushed>>

-----------------------------------------------------------------------------
\* What git push tells the hook: it resolves the source and the remote ref
\* before it starts the hook; a deletion has no source (here: Detached).
HookInput(s, d, more) ==
  [src |-> s, dst |-> d, more |-> more,
   new |-> IF s = Detached THEN NoCommit ELSE localTip[s], old |-> remote[d]]

Begin(p) ==
  \/ \E c \in Commands \ {"pre-push"} : Start(p, c, NoValue)
  \/ /\ "pre-push" \in Commands
     /\ \E s \in Refs, d \in Branches, more \in BOOLEAN :
          (more => s = d) /\ Start(p, "pre-push", HookInput(s, d, more))

Step(p) ==
  \/ RequireCleanHead(p)
  \/ OriginalHead(p) \/ OriginalBranch(p) \/ OriginalFingerprint(p)
  \/ Advertise(p) \/ ReadTrackingRef(p) \/ Fetch(p)
  \/ PlanFingerprint(p) \/ PlanBase(p) \/ PlanHead(p)
  \/ PlanFingerprintAgain(p) \/ PlanScan(p) \/ RequireTrustedCheckPolicy(p)
  \/ AddMergeWorktree(p) \/ MergeInWorktree(p)
  \/ AddCheckWorktree(p) \/ ChecksPass(p) \/ ChecksFail(p)
  \/ RequireCleanAgain(p) \/ SameHead(p) \/ SameBranch(p) \/ SameFingerprint(p)
  \/ ReviewFingerprint(p) \/ ReviewWorkspace(p) \/ ReviewFingerprintAgain(p)
  \/ WriteFingerprint(p) \/ BuildEvidence(p)
  \/ TruncateEvidence(p) \/ WriteEvidence(p)
  \/ ReadEvidence(p) \/ CompareEvidence(p)
  \/ VerifyPrePushUpdates(p) \/ SendPack(p)

\* A clone and its remote, before any command.
CloneInit ==
  /\ localTip \in [Refs -> Commits]
  /\ branch \in Refs
  /\ work \in Contents
  /\ answer = NoValue
  /\ baseRef \in Commits
  /\ remote \in [Branches -> Commits \cup {NoCommit}]
  /\ remote[Develop] \in Commits
  /\ <<baseRef, remote[Develop]>> \in Ancestor
  /\ dirs = {}
  /\ leaked = FALSE
  /\ moves = 0

NoCommand ==
  /\ runs = 0
  /\ pc = [p \in Procs |-> "idle"]
  /\ cmd = [p \in Procs |-> NoValue]
  /\ phase = [p \in Procs |-> "first"]
  /\ orig = [p \in Procs |-> NoValue]
  /\ adv = [p \in Procs |-> NoValue]
  /\ chg = [p \in Procs |-> NoValue]
  /\ integ = [p \in Procs |-> NoValue]
  /\ payload = [p \in Procs |-> NoValue]
  /\ upd = [p \in Procs |-> NoValue]
  /\ pushed = {}
  /\ seen = [p \in Procs |-> {}]
  /\ late = {}
  /\ calm = NoValue
  /\ ready = FALSE

Init == CloneInit /\ NoCommand /\ evidence = NoFile /\ passed = {}

Next ==
  \/ \E p \in Procs : Begin(p) \/ Step(p) \/ Interrupt(p)
  \/ Environment

Spec == Init /\ [][Next]_vars

-----------------------------------------------------------------------------
(* Types.                                                                  *)

Fingerprints == [head : Commits, work : Contents]
Documents ==
  [base : Commits, head : Commits, branch : Features, fp : Fingerprints,
   integration : (Commits \X Commits) \cup {NoValue}, expired : BOOLEAN]
Updates ==
  [src : Refs, dst : Branches, more : BOOLEAN,
   new : Commits \cup {NoCommit}, old : Commits \cup {NoCommit}]
Originals ==
  [head : Commits, branch : Features \cup {NoValue},
   fp : Fingerprints \cup {NoValue}]
PlannedChanges == [fp : Fingerprints, base : Commits, head : Commits]
PartialChanges ==
  [fp : Fingerprints, base : Commits \cup {NoValue}, head : Commits \cup {NoValue}]
OrNone(S) == S \cup {NoValue}
Advertised == [tip : Commits, old : OrNone(Commits)]

\* A missing or torn file is not a document.
ASSUME FilesAssumption == NoFile \notin Documents /\ TornFile \notin Documents

\* The steps at which planned_change has returned and its result is in use.
Planned ==
  {"planFpAgain", "planScan", "policy", "merge", "merging", "addChecks",
   "checking", "reviewFp", "reviewStatus", "reviewFpAgain", "writeFp",
   "writeBranch", "compare"}
Holding == {"truncate", "write", "updates", "authorised"}
OtherSteps ==
  {"clean", "origHead", "origBranch", "origFp", "advertise", "oldRef", "fetch",
   "planFp", "planBase", "planHead", "reclean", "reHead", "reBranch", "reFp", "read"}

CloneOK ==
  /\ localTip \in [Refs -> Commits]
  /\ branch \in Refs
  /\ work \in Contents
  /\ answer \in OrNone(Commits)
  /\ baseRef \in Commits
  /\ remote \in [Branches -> Commits \cup {NoCommit}]
  /\ remote[Develop] \in Commits
  /\ dirs \subseteq Procs
  /\ leaked \in BOOLEAN
  /\ evidence \in Documents \cup {NoFile, TornFile}
  /\ moves \in 0..MaxMoves
  /\ runs \in 0..MaxRuns

ControlOK ==
  /\ pc \in [Procs -> Ended \cup Planned \cup Holding \cup OtherSteps]
  /\ cmd \in [Procs -> OrNone(Commands)]
  /\ phase \in [Procs -> {"first", "second", "verify"}]

LocalsOK ==
  /\ orig \in [Procs -> OrNone(Originals)]
  /\ adv \in [Procs -> OrNone(Advertised)]
  /\ chg \in [Procs -> OrNone(PartialChanges)]
  /\ integ \in [Procs -> OrNone(Commits \X Commits)]
  /\ payload \in [Procs -> OrNone(Documents)]
  /\ upd \in [Procs -> OrNone(Updates)]

HistoryOK ==
  /\ passed \subseteq Commits \X Commits
  /\ seen \in [Procs -> SUBSET Commits]
  /\ late \subseteq Procs
  /\ calm \in OrNone(Procs)
  /\ ready \in BOOLEAN

\* Every variable of the clone, the remote and the processes has its type.
TypeOK == CloneOK /\ ControlOK /\ LocalsOK /\ HistoryOK

-----------------------------------------------------------------------------
(* What a process p that is at step s holds: the strengthening that makes  *)
(* the types and the guarantees below inductive.                           *)

HoldsData(p, s) ==
  /\ s \in {"origBranch", "origFp"} => orig[p] \in Originals
  /\ s \in {"oldRef", "fetch"} => adv[p] \in Advertised
  /\ s = "fetch" => adv[p].old \in Commits
  /\ s \in {"planBase", "planHead"} => chg[p] \in PartialChanges
  /\ s = "planHead" => chg[p].base \in Commits
  /\ s \in Planned => chg[p] \in PlannedChanges
  /\ s \in Holding \/ phase[p] = "verify" => payload[p] \in Documents
  /\ cmd[p] = "pre-push" /\ s \notin Ended => upd[p] \in Updates

InPhase(p, s) ==
  /\ s \in {"reviewFp", "reviewStatus", "reviewFpAgain", "writeFp", "writeBranch"}
       => phase[p] = "second"
  /\ s \in {"writeFp", "writeBranch"} => cmd[p] = "push-ready"
  /\ s = "compare" => phase[p] = "verify"
  /\ s \in {"updates", "authorised"} =>
       cmd[p] = "pre-push" /\ phase[p] = "verify"

\* Only integrations whose checks passed are recorded, and what is authorised
\* is what the document records.
IsEarned(p, s) ==
  /\ cmd[p] = "push-ready" /\ phase[p] = "second" /\ s \notin Ended
       => integ[p] \in passed
  /\ s \in Holding \/ phase[p] = "verify" => payload[p].integration \in passed
  /\ s \in {"updates", "authorised"} =>
       payload[p].integration = <<payload[p].base, payload[p].head>>
  /\ s = "authorised" => UpdateAuthorised(p)

AtStep(p, s) == HoldsData(p, s) /\ InPhase(p, s) /\ IsEarned(p, s)

-----------------------------------------------------------------------------
(* What the gate must guarantee.                                           *)

\* write_evidence: a complete evidence file names an integration on which the
\* checks really passed, whatever moved HEAD, the branch or the base ref while
\* the run was going on.
EvidenceIsEarned ==
  evidence \notin {NoFile, TornFile} => evidence.integration \in passed

\* pre-push: when the hook lets Git send, the very commit that goes out passed
\* the checks merged with the base the hook has just verified against.
AuthorisedIsCertified ==
  \A p \in Procs :
    pc[p] = "authorised" => <<payload[p].base, upd[p].new>> \in passed

\* The base the checks run on, or the hook lets Git send on, is one that the
\* remote did not have after the command started.
StandsOnOldBase(p) ==
  \/ pc[p] = "checking" /\ chg[p].base \notin seen[p]
  \/ pc[p] = "authorised" /\ payload[p].base \notin seen[p]

\* refresh_authoritative_base: the checks of push-ready and validate, and the
\* decision of the hook, stand on a base the remote had after the command
\* started.  The one exception: another fetch of the clone was answered before
\* the command started, and stored its answer between the command's own fetch
\* and its read of the base.  A base of any earlier fetch never passes.
BaseIsFresh == \A p \in Procs : StandsOnOldBase(p) => p \in late

\* The docstring of refresh_authoritative_base, "so integration checks never
\* use stale state": without the exception.
BaseIsNeverStale == \A p \in Procs : ~StandsOnOldBase(p)

\* verify_pre_push_updates and current_branch_ref: an update that reached the
\* remote was on a feature branch and rewrote no history of that branch, even
\* if another clone pushed while the hook was running.
PushesAreFastForward ==
  \A u \in pushed :
    /\ u.ref \in Features
    /\ u.old = NoCommit \/ <<u.old, u.new>> \in Ancestor

\* The inductive invariant of the proofs.
IInv ==
  /\ TypeOK
  /\ \A p \in Procs : AtStep(p, pc[p])
  /\ EvidenceIsEarned
  /\ PushesAreFastForward

\* require_clean_head and tree_fingerprint: while a leaked integration worktree
\* lies in the checkout, no command gets past its first look at the checkout.
LeakFailsClosed ==
  \A p \in Procs :
    calm = p /\ leaked /\ Running(p) => pc[p] \in {"clean", "read", "planFp"}

RefusedAt(p, steps) ==
  pc[p] \in steps /\ pc'[p] = "refused" /\ calm = p

Decisions == {"clean", "origBranch", "policy", "merging", "checking"}

\* main: a push-ready run that nobody disturbs is refused only by a decision
\* about the repository (dirty tree, branch, policy, conflict, failed check),
\* never by its own re-reads, its own worktrees or its own evidence.
CalmRunIsAccepted ==
  [][\A p \in Procs : cmd[p] = "push-ready" =>
       ~RefusedAt(p, (Planned \cup Holding \cup OtherSteps) \ Decisions)]_vars

\* main: a pre-push hook that follows an undisturbed successful push-ready of
\* the same process, undisturbed itself, is refused only for the update Git
\* hands to it.
ReadyHookIsAccepted ==
  [][\A p \in Procs : ready =>
       ~RefusedAt(p, (Planned \cup Holding \cup OtherSteps) \ {"updates"})]_vars

Gate == INSTANCE PushGate WITH certified <- passed

\* The processes, files and re-reads implement the abstract gate.
ImplementsGate == Gate!Spec

=============================================================================
