-------------------------- MODULE PushReadyProofs --------------------------
(***************************************************************************)
(* Theorems about PushReady for every set of commits, branches and         *)
(* processes and every history of the repository and of the remote.        *)
(***************************************************************************)
EXTENDS PushReady, TLAPS

Steps == Planned \cup Holding \cup OtherSteps

\* What a step of p leaves alone: the other processes.
OthersKept(p) ==
  /\ passed \subseteq passed'
  /\ \A q \in Procs \ {p} :
       /\ pc'[q] = pc[q] /\ cmd'[q] = cmd[q] /\ phase'[q] = phase[q]
       /\ orig'[q] = orig[q] /\ adv'[q] = adv[q] /\ chg'[q] = chg[q]
       /\ integ'[q] = integ[q] /\ payload'[q] = payload[q] /\ upd'[q] = upd[q]

\* A step that keeps the types, its own data and the other processes keeps
\* the invariant.
LEMMA StepOfOne ==
  ASSUME IInv, NEW p \in Procs, TypeOK', OthersKept(p), AtStep(p, pc[p])',
         EvidenceIsEarned', PushesAreFastForward'
  PROVE  IInv'
<1>1. ASSUME NEW q \in Procs \ {p} PROVE AtStep(q, pc[q])'
  <2>1. AtStep(q, pc[q]) BY DEF IInv
  <2>2. HoldsData(q, pc[q])' BY <2>1 DEF OthersKept, AtStep, HoldsData
  <2>3. InPhase(q, pc[q])' BY <2>1 DEF OthersKept, AtStep, InPhase
  <2>4. IsEarned(q, pc[q])'
    BY <2>1 DEF OthersKept, AtStep, IsEarned, UpdateAuthorised
  <2> QED BY <2>2, <2>3, <2>4 DEF AtStep
<1> QED BY <1>1 DEF IInv

\* The end of a command, for whatever reason, keeps the invariant.
LEMMA LeaveKeeps ==
  ASSUME IInv, NEW p \in Procs, NEW r \in Ended, Leave(p, r),
         dirs' \subseteq Procs, leaked' \in BOOLEAN,
         remote' \in [Branches -> Commits \cup {NoCommit}],
         remote'[Develop] \in Commits, PushesAreFastForward'
  PROVE  IInv'
<1>1. TypeOK'
  <2>1. CloneOK' BY DEF IInv, TypeOK, CloneOK, Leave, repo
  <2>2. ControlOK' BY DEF IInv, TypeOK, ControlOK, Leave, Goto
  <2>3. LocalsOK' BY DEF IInv, TypeOK, LocalsOK, Leave, OrNone
  <2>4. HistoryOK' BY DEF IInv, TypeOK, HistoryOK, Leave, Undisturbed, OrNone
  <2> QED BY <2>1, <2>2, <2>3, <2>4 DEF TypeOK
<1>2. OthersKept(p)
  BY DEF IInv, TypeOK, ControlOK, LocalsOK, Leave, Goto, OthersKept
<1>3. AtStep(p, pc[p])'
  BY DEF IInv, TypeOK, ControlOK, Leave, Goto, AtStep, HoldsData, InPhase,
         IsEarned, Ended, Planned, Holding
<1>4. EvidenceIsEarned' BY DEF IInv, EvidenceIsEarned, Leave
<1> QED BY <1>1, <1>2, <1>3, <1>4, StepOfOne

\* main: an end that touches neither worktrees nor the remote keeps the invariant.
LEMMA ExitKeeps ==
  ASSUME IInv, NEW p \in Procs, NEW r \in Ended, Exit(p, r)
  PROVE  IInv'
<1>1. PushesAreFastForward' BY DEF IInv, PushesAreFastForward, Exit
<1> QED BY <1>1, LeaveKeeps DEF Exit, IInv, TypeOK, CloneOK

\* A step of p that goes on keeps the invariant when it keeps the types, the
\* other processes and a true evidence file, and what the next step needs holds.
LEMMA ProceedKeeps ==
  ASSUME IInv, NEW p \in Procs, NEW s \in Steps, Proceed(p, s),
         CloneOK', LocalsOK', cmd' = cmd,
         phase' \in [Procs -> {"first", "second", "verify"}],
         OthersKept(p), AtStep(p, s)', EvidenceIsEarned'
  PROVE  IInv'
<1>1. TypeOK'
  <2>1. ControlOK' BY DEF IInv, TypeOK, ControlOK, Proceed, Goto, Steps
  <2>2. HistoryOK'
    BY DEF IInv, TypeOK, HistoryOK, Proceed, Undisturbed, OrNone
  <2> QED BY <2>1, <2>2 DEF TypeOK
<1>2. pc'[p] = s
  BY DEF IInv, TypeOK, ControlOK, Proceed, Goto
<1>3. AtStep(p, pc[p])'
  BY <1>2
<1>4. PushesAreFastForward' BY DEF IInv, PushesAreFastForward, Proceed
<1> QED BY <1>1, <1>3, <1>4, StepOfOne

\* A check on what was read keeps the invariant when the next step's data are
\* there whenever it succeeds.
LEMMA RequireKeeps ==
  ASSUME IInv, NEW p \in Procs, NEW STATE condition, NEW s \in Steps,
         Require(p, condition, s), condition => AtStep(p, s)
  PROVE  IInv'
<1>1. CASE condition /\ Proceed(p, s) /\ UNCHANGED <<repo, shared, locals>>
  <2>1. CloneOK' BY <1>1 DEF IInv, TypeOK, CloneOK, repo, shared
  <2>2. LocalsOK' /\ phase' \in [Procs -> {"first", "second", "verify"}]
    BY <1>1 DEF IInv, TypeOK, ControlOK, LocalsOK, locals
  <2>3. OthersKept(p)
    BY <1>1 DEF IInv, TypeOK, ControlOK, Proceed, Goto, locals, OthersKept
  <2>4. AtStep(p, s)'
    <3>1. HoldsData(p, s)' BY <1>1 DEF AtStep, HoldsData, locals
    <3>2. InPhase(p, s)' BY <1>1 DEF AtStep, InPhase, locals
    <3>3. IsEarned(p, s)'
      BY <1>1 DEF AtStep, IsEarned, UpdateAuthorised, locals, Proceed
    <3> QED BY <3>1, <3>2, <3>3 DEF AtStep
  <2>5. EvidenceIsEarned' BY <1>1 DEF IInv, EvidenceIsEarned, shared, Proceed
  <2>6. cmd' = cmd BY <1>1 DEF locals
  <2> QED BY <1>1, <2>1, <2>2, <2>3, <2>4, <2>5, <2>6, ProceedKeeps
<1>2. CASE Exit(p, "refused")
  BY <1>2, ExitKeeps DEF Ended
<1> QED BY <1>1, <1>2 DEF Require

-----------------------------------------------------------------------------

\* The steps that only compare what they read and go on or refuse keep the
\* invariant: what holds at the old step holds at the new one.
LEMMA ReadsKeep ==
  ASSUME IInv, NEW p \in Procs,
         \/ RequireCleanHead(p) \/ PlanFingerprintAgain(p) \/ PlanScan(p)
         \/ RequireTrustedCheckPolicy(p)
         \/ RequireCleanAgain(p) \/ SameHead(p) \/ SameBranch(p)
         \/ SameFingerprint(p) \/ ReviewFingerprint(p)
         \/ ReviewFingerprintAgain(p) \/ WriteFingerprint(p)
         \/ CompareEvidence(p) \/ VerifyPrePushUpdates(p)
  PROVE  IInv'
<1> USE DEF AtStep, HoldsData, InPhase, IsEarned, Ended, Planned, Holding,
            OtherSteps, Steps
<1>0. AtStep(p, pc[p]) BY DEF IInv
<1>1. CASE RequireCleanHead(p)
  <2>1. AfterClean(p) \in Steps /\ AtStep(p, AfterClean(p))
    BY <1>0, <1>1 DEF RequireCleanHead, AfterClean
  <2> QED BY <1>1, <2>1, RequireKeeps DEF RequireCleanHead
<1>2. CASE PlanFingerprintAgain(p)
  <2> DEFINE s == IF phase[p] = "first" THEN "policy" ELSE "planScan"
  <2>1. s \in Steps /\ AtStep(p, s)
    BY <1>0, <1>2 DEF PlanFingerprintAgain
  <2> HIDE DEF s
  <2>2. Require(p, SameTree(chg[p].fp), s) BY <1>2 DEF PlanFingerprintAgain, s
  <2> QED BY <2>1, <2>2, RequireKeeps
<1>3. CASE PlanScan(p)
  <2>1. CASE AfterPlan(p) # "ok" /\ Require(p, SameTree(chg[p].fp), AfterPlan(p))
    <3>1. AfterPlan(p) \in Steps /\ AtStep(p, AfterPlan(p))
      BY <1>0, <1>3, <2>1 DEF PlanScan, AfterPlan
    <3> QED BY <2>1, <3>1, RequireKeeps
  <2>2. CASE Exit(p, IF SameTree(chg[p].fp) THEN "ok" ELSE "refused")
    BY <2>2, ExitKeeps
  <2> QED BY <1>3, <2>1, <2>2 DEF PlanScan
<1>4. CASE RequireTrustedCheckPolicy(p)
  <2>1. AtStep(p, "merge") BY <1>0, <1>4 DEF RequireTrustedCheckPolicy
  <2> QED BY <1>4, <2>1, RequireKeeps DEF RequireTrustedCheckPolicy
<1>5. CASE RequireCleanAgain(p)
  <2>1. AtStep(p, "reHead") BY <1>0, <1>5 DEF RequireCleanAgain
  <2> QED BY <1>5, <2>1, RequireKeeps DEF RequireCleanAgain
<1>6. CASE SameHead(p)
  <2>1. AtStep(p, "reBranch") BY <1>0, <1>6 DEF SameHead
  <2> QED BY <1>6, <2>1, RequireKeeps DEF SameHead
<1>7. CASE SameBranch(p)
  <2>1. AtStep(p, "reFp") BY <1>0, <1>7 DEF SameBranch
  <2> QED BY <1>7, <2>1, RequireKeeps DEF SameBranch
<1>8. CASE SameFingerprint(p)
  <2>1. AtStep(p, "planFp") BY <1>0, <1>8 DEF SameFingerprint
  <2> QED BY <1>8, <2>1, RequireKeeps DEF SameFingerprint
<1>9. CASE ReviewFingerprint(p)
  <2>1. AtStep(p, "reviewStatus") BY <1>0, <1>9 DEF ReviewFingerprint
  <2> QED BY <1>9, <2>1, RequireKeeps DEF ReviewFingerprint
<1>10. CASE ReviewFingerprintAgain(p)
  <2>1. CASE cmd[p] = "push-ready" /\ Require(p, SameTree(chg[p].fp), "writeFp")
    <3>1. AtStep(p, "writeFp") BY <1>0, <1>10, <2>1 DEF ReviewFingerprintAgain
    <3> QED BY <2>1, <3>1, RequireKeeps
  <2>2. CASE Exit(p, IF SameTree(chg[p].fp) THEN "ok" ELSE "refused")
    BY <2>2, ExitKeeps
  <2> QED BY <1>10, <2>1, <2>2 DEF ReviewFingerprintAgain
<1>11. CASE WriteFingerprint(p)
  <2>1. AtStep(p, "writeBranch") BY <1>0, <1>11 DEF WriteFingerprint
  <2> QED BY <1>11, <2>1, RequireKeeps DEF WriteFingerprint
<1>12. CASE CompareEvidence(p)
  <2>1. CASE cmd[p] = "pre-push" /\ Require(p, EvidenceMatches(p), "updates")
    <3>1. EvidenceMatches(p) => AtStep(p, "updates")
      BY <1>0, <1>12, <2>1 DEF CompareEvidence, EvidenceMatches, Integration
    <3> QED BY <2>1, <3>1, RequireKeeps
  <2>2. CASE Exit(p, IF EvidenceMatches(p) THEN "ok" ELSE "refused")
    BY <2>2, ExitKeeps
  <2> QED BY <1>12, <2>1, <2>2 DEF CompareEvidence
<1>13. CASE VerifyPrePushUpdates(p)
  <2>1. UpdateAuthorised(p) => AtStep(p, "authorised")
    BY <1>0, <1>13 DEF VerifyPrePushUpdates
  <2> QED BY <1>13, <2>1, RequireKeeps DEF VerifyPrePushUpdates
<1> QED BY <1>1, <1>2, <1>3, <1>4, <1>5, <1>6, <1>7, <1>8, <1>9, <1>10, <1>11,
           <1>12, <1>13

\* Steps that only record what they read in a variable of p.
LEMMA RecordsKeep ==
  ASSUME IInv, NEW p \in Procs,
         \/ OriginalHead(p) \/ OriginalBranch(p) \/ OriginalFingerprint(p)
         \/ Advertise(p) \/ ReadTrackingRef(p)
         \/ PlanFingerprint(p) \/ PlanBase(p) \/ PlanHead(p)
  PROVE  IInv'
<1> USE DEF Ended, Planned, Holding, OtherSteps, Steps
<1>0. AtStep(p, pc[p]) /\ CloneOK /\ ControlOK /\ LocalsOK
  BY DEF IInv, TypeOK
<1>1. ASSUME NEW s \in Steps, Proceed(p, s), UNCHANGED <<repo, shared>>,
             cmd' = cmd, phase' = phase, LocalsOK', OthersKept(p), AtStep(p, s)'
      PROVE  IInv'
  <2>1. CloneOK' BY <1>0, <1>1 DEF CloneOK, repo, shared
  <2>2. EvidenceIsEarned' BY <1>1 DEF IInv, EvidenceIsEarned, shared, Proceed
  <2>3. phase' \in [Procs -> {"first", "second", "verify"}]
    BY <1>0, <1>1 DEF ControlOK
  <2> QED BY <1>1, <2>1, <2>2, <2>3, ProceedKeeps
<1>2. CASE OriginalHead(p)
  <2>1. LocalsOK'
    BY <1>0, <1>2 DEF LocalsOK, OriginalHead, AtStep, HoldsData, OrNone,
           Originals, Head, CloneOK
  <2>2. OthersKept(p)
    BY <1>0, <1>2 DEF ControlOK, LocalsOK, OriginalHead, OthersKept, Proceed, Goto
  <2>3. AtStep(p, "origBranch")'
    BY <1>0, <1>2 DEF LocalsOK, OriginalHead, Proceed, AtStep, HoldsData,
           InPhase, IsEarned, Originals, Head, CloneOK
  <2> QED BY <1>1, <1>2, <2>1, <2>2, <2>3 DEF OriginalHead
<1>3. CASE OriginalBranch(p)
  <2>1. CASE OnFeatureBranch
    <3>1. LocalsOK'
      BY <1>0, <1>3, <2>1 DEF LocalsOK, OriginalBranch, AtStep, HoldsData, OrNone,
             Originals, OnFeatureBranch
    <3>2. OthersKept(p)
      BY <1>0, <1>3, <2>1 DEF ControlOK, LocalsOK, OriginalBranch, OthersKept, Proceed, Goto
    <3>3. AtStep(p, "origFp")'
      BY <1>0, <1>3, <2>1 DEF LocalsOK, OriginalBranch, Proceed, AtStep, HoldsData,
             InPhase, IsEarned, Originals, OnFeatureBranch
    <3> QED BY <1>1, <1>3, <2>1, <3>1, <3>2, <3>3 DEF OriginalBranch
  <2>2. CASE ~OnFeatureBranch
    BY <1>3, <2>2, ExitKeeps DEF OriginalBranch
  <2> QED BY <2>1, <2>2
<1>4. CASE OriginalFingerprint(p)
  <2>1. CASE NoForeignWorktree
    <3>1. LocalsOK'
      BY <1>0, <1>4, <2>1 DEF LocalsOK, OriginalFingerprint, AtStep, HoldsData, OrNone,
             Originals, Fingerprint, Fingerprints, Head, CloneOK
    <3>2. OthersKept(p)
      BY <1>0, <1>4, <2>1 DEF ControlOK, LocalsOK, OriginalFingerprint, OthersKept, Proceed, Goto
    <3>3. AtStep(p, "advertise")'
      BY <1>0, <1>4, <2>1 DEF LocalsOK, OriginalFingerprint, Proceed, AtStep, HoldsData,
             InPhase, IsEarned, Originals, Fingerprint, Fingerprints, Head, CloneOK
    <3> QED BY <1>1, <1>4, <2>1, <3>1, <3>2, <3>3 DEF OriginalFingerprint
  <2>2. CASE ~NoForeignWorktree
    BY <1>4, <2>2, ExitKeeps DEF OriginalFingerprint
  <2> QED BY <2>1, <2>2
<1>5. CASE Advertise(p)
  <2>1. LocalsOK'
    BY <1>0, <1>5 DEF LocalsOK, Advertise, AtStep, HoldsData, OrNone,
           Advertised, CloneOK
  <2>2. OthersKept(p)
    BY <1>0, <1>5 DEF ControlOK, LocalsOK, Advertise, OthersKept, Proceed, Goto
  <2>3. AtStep(p, "oldRef")'
    BY <1>0, <1>5 DEF LocalsOK, Advertise, Proceed, AtStep, HoldsData,
           InPhase, IsEarned, Advertised, CloneOK, OrNone
  <2> QED BY <1>1, <1>5, <2>1, <2>2, <2>3 DEF Advertise
<1>9. CASE ReadTrackingRef(p)
  <2>1. LocalsOK'
    BY <1>0, <1>9 DEF LocalsOK, ReadTrackingRef, AtStep, HoldsData, OrNone,
           Advertised, CloneOK
  <2>2. OthersKept(p)
    BY <1>0, <1>9 DEF ControlOK, LocalsOK, ReadTrackingRef, OthersKept, Proceed, Goto
  <2>3. AtStep(p, "fetch")'
    BY <1>0, <1>9 DEF LocalsOK, ReadTrackingRef, Proceed, AtStep, HoldsData,
           InPhase, IsEarned, Advertised, CloneOK, OrNone
  <2> QED BY <1>1, <1>9, <2>1, <2>2, <2>3 DEF ReadTrackingRef
<1>6. CASE PlanFingerprint(p)
  <2>1. CASE NoForeignWorktree
    <3>1. LocalsOK'
      BY <1>0, <1>6, <2>1 DEF LocalsOK, PlanFingerprint, AtStep, HoldsData, OrNone,
             PartialChanges, Fingerprint, Fingerprints, Head, CloneOK
    <3>2. OthersKept(p)
      BY <1>0, <1>6, <2>1 DEF ControlOK, LocalsOK, PlanFingerprint, OthersKept, Proceed, Goto
    <3>3. AtStep(p, "planBase")'
      BY <1>0, <1>6, <2>1 DEF LocalsOK, PlanFingerprint, Proceed, AtStep, HoldsData,
             InPhase, IsEarned, PartialChanges, Fingerprint, Fingerprints, Head, CloneOK
    <3> QED BY <1>1, <1>6, <2>1, <3>1, <3>2, <3>3 DEF PlanFingerprint
  <2>2. CASE ~NoForeignWorktree
    BY <1>6, <2>2, ExitKeeps DEF PlanFingerprint
  <2> QED BY <2>1, <2>2
<1>7. CASE PlanBase(p)
  <2>1. LocalsOK'
    BY <1>0, <1>7 DEF LocalsOK, PlanBase, AtStep, HoldsData, OrNone,
           PartialChanges, CloneOK
  <2>2. OthersKept(p)
    BY <1>0, <1>7 DEF ControlOK, LocalsOK, PlanBase, OthersKept, Proceed, Goto
  <2>3. AtStep(p, "planHead")'
    BY <1>0, <1>7 DEF LocalsOK, PlanBase, Proceed, AtStep, HoldsData,
           InPhase, IsEarned, PartialChanges, CloneOK
  <2> QED BY <1>1, <1>7, <2>1, <2>2, <2>3 DEF PlanBase
<1>8. CASE PlanHead(p)
  <2>1. LocalsOK'
    BY <1>0, <1>8 DEF LocalsOK, PlanHead, AtStep, HoldsData, OrNone,
           PartialChanges, PlannedChanges, Head, CloneOK
  <2>2. OthersKept(p)
    BY <1>0, <1>8 DEF ControlOK, LocalsOK, PlanHead, OthersKept, Proceed, Goto
  <2>3. AtStep(p, "planFpAgain")'
    BY <1>0, <1>8 DEF LocalsOK, PlanHead, Proceed, AtStep, HoldsData,
           InPhase, IsEarned, PartialChanges, PlannedChanges, Head, CloneOK
  <2> QED BY <1>1, <1>8, <2>1, <2>2, <2>3 DEF PlanHead
<1> QED BY <1>2, <1>3, <1>4, <1>5, <1>6, <1>7, <1>8, <1>9

\* Fetching, worktrees and the checks.
LEMMA WorktreesKeep ==
  ASSUME IInv, NEW p \in Procs,
         \/ Fetch(p) \/ AddMergeWorktree(p) \/ MergeInWorktree(p)
         \/ AddCheckWorktree(p) \/ ChecksPass(p) \/ ChecksFail(p)
         \/ ReviewWorkspace(p)
  PROVE  IInv'
<1> USE DEF Ended, Planned, Holding, OtherSteps, Steps
<1>0. AtStep(p, pc[p]) /\ CloneOK /\ ControlOK /\ LocalsOK /\ HistoryOK
  BY DEF IInv, TypeOK
<1>1. ASSUME NEW s \in Steps, Proceed(p, s), UNCHANGED <<evidence, locals>>,
             CloneOK', AtStep(p, s)
      PROVE  IInv'
  <2>1. LocalsOK' /\ phase' \in [Procs -> {"first", "second", "verify"}]
    BY <1>0, <1>1 DEF ControlOK, LocalsOK, locals
  <2>2. OthersKept(p)
    BY <1>0, <1>1 DEF ControlOK, Proceed, Goto, locals, OthersKept
  <2>3. AtStep(p, s)'
    BY <1>1 DEF AtStep, HoldsData, InPhase, IsEarned, UpdateAuthorised,
                locals, Proceed
  <2>4. EvidenceIsEarned' BY <1>1 DEF IInv, EvidenceIsEarned, Proceed
  <2>5. cmd' = cmd BY <1>1 DEF locals
  <2> QED BY <1>1, <2>1, <2>2, <2>3, <2>4, <2>5, ProceedKeeps
<1>2. CASE Fetch(p)
  <2>1. CASE FetchSucceeds(p)
    <3>0. PICK s \in Steps : s = AfterFetch(p) BY DEF AfterFetch
    <3>5. AtStep(p, s)'
      BY <1>0, <1>2, <2>1, <3>0
      DEF Fetch, AfterFetch, AtStep, HoldsData, InPhase, IsEarned
    <3>1. TypeOK'
      <4>1. CloneOK'
        BY <1>0, <1>2, <2>1 DEF CloneOK, Fetch, AtStep, HoldsData, Advertised, repo
      <4>2. ControlOK' BY <1>0, <1>2, <2>1, <3>0 DEF ControlOK, Fetch, Goto
      <4>3. LocalsOK' BY <1>0, <1>2, <2>1 DEF LocalsOK, Fetch, OrNone
      <4>4. HistoryOK'
        BY <1>0, <1>2, <2>1 DEF HistoryOK, Fetch, Stores, Undisturbed, OrNone
      <4> QED BY <4>1, <4>2, <4>3, <4>4 DEF TypeOK
    <3>2. OthersKept(p)
      BY <1>0, <1>2, <2>1 DEF ControlOK, LocalsOK, Fetch, OthersKept, Goto
    <3>3. pc'[p] = s BY <1>0, <1>2, <2>1, <3>0 DEF ControlOK, Fetch, Goto
    <3>4. EvidenceIsEarned' /\ PushesAreFastForward'
      BY <1>2, <2>1 DEF IInv, EvidenceIsEarned, PushesAreFastForward, Fetch
    <3> QED BY <3>5, <3>1, <3>2, <3>3, <3>4, StepOfOne
  <2>2. CASE ~FetchSucceeds(p)
    BY <1>2, <2>2, ExitKeeps DEF Fetch
  <2> QED BY <2>1, <2>2
<1>3. CASE AddMergeWorktree(p)
  <2>1. CloneOK' BY <1>0, <1>3 DEF CloneOK, AddMergeWorktree, repo
  <2>2. AtStep(p, "merging")
    BY <1>0, <1>3 DEF AddMergeWorktree, AtStep, HoldsData, InPhase, IsEarned
  <2> QED BY <1>1, <1>3, <2>1, <2>2 DEF AddMergeWorktree
<1>4. CASE MergeInWorktree(p)
  <2>1. CASE Integration(p) \in Mergeable
    <3>1. CloneOK' BY <1>0, <1>4, <2>1 DEF CloneOK, MergeInWorktree, RemoveWorktree, repo
    <3>2. AfterMerge(p) \in Steps /\ AtStep(p, AfterMerge(p))
      BY <1>0, <1>4, <2>1
      DEF MergeInWorktree, AfterMerge, ControlOK, AtStep, HoldsData, InPhase, IsEarned
    <3> QED BY <1>1, <1>4, <2>1, <3>1, <3>2 DEF MergeInWorktree
  <2>2. CASE Integration(p) \notin Mergeable
    <3>1. PushesAreFastForward'
      BY <1>4, <2>2 DEF IInv, PushesAreFastForward, MergeInWorktree
    <3> QED BY <1>0, <1>4, <2>2, <3>1, LeaveKeeps
          DEF MergeInWorktree, RemoveWorktree, CloneOK
  <2> QED BY <2>1, <2>2
<1>5. CASE AddCheckWorktree(p)
  <2>1. CloneOK' BY <1>0, <1>5 DEF CloneOK, AddCheckWorktree, repo
  <2>2. AtStep(p, "checking")
    BY <1>0, <1>5 DEF AddCheckWorktree, AtStep, HoldsData, InPhase, IsEarned
  <2> QED BY <1>1, <1>5, <2>1, <2>2 DEF AddCheckWorktree
<1>6. CASE ChecksPass(p)
  <2>1. Integration(p) \in Commits \X Commits
    BY <1>0, <1>6 DEF ChecksPass, AtStep, HoldsData, PlannedChanges, Integration
  <2>2. TypeOK'
    <3>1. CloneOK' BY <1>0, <1>6 DEF CloneOK, ChecksPass, RemoveWorktree, repo
    <3>2. ControlOK' BY <1>0, <1>6 DEF ControlOK, ChecksPass, Goto
    <3>3. LocalsOK' BY <1>0, <1>6, <2>1 DEF LocalsOK, ChecksPass, OrNone
    <3>4. HistoryOK'
      BY <1>0, <1>6, <2>1 DEF HistoryOK, ChecksPass, Undisturbed, OrNone
    <3> QED BY <3>1, <3>2, <3>3, <3>4 DEF TypeOK
  <2>3. OthersKept(p)
    BY <1>0, <1>6 DEF ControlOK, LocalsOK, ChecksPass, OthersKept, Goto
  <2>4. AtStep(p, pc[p])'
    BY <1>0, <1>6
    DEF ControlOK, LocalsOK, ChecksPass, Goto, AtStep, HoldsData, InPhase, IsEarned
  <2>5. EvidenceIsEarned' BY <1>6 DEF IInv, EvidenceIsEarned, ChecksPass
  <2>6. PushesAreFastForward' BY <1>6 DEF IInv, PushesAreFastForward, ChecksPass
  <2> QED BY <2>2, <2>3, <2>4, <2>5, <2>6, StepOfOne
<1>7. CASE ChecksFail(p)
  <2>1. PushesAreFastForward' BY <1>7 DEF IInv, PushesAreFastForward, ChecksFail
  <2> QED BY <1>0, <1>7, <2>1, LeaveKeeps DEF ChecksFail, CloneOK
<1>8. CASE ReviewWorkspace(p)
  <2> DEFINE s == IF StatusEmpty THEN "merge" ELSE "reviewFpAgain"
  <2>1. CloneOK' BY <1>0, <1>8 DEF CloneOK, ReviewWorkspace, repo, shared
  <2>2. s \in Steps /\ AtStep(p, s)
    BY <1>0, <1>8 DEF ReviewWorkspace, AtStep, HoldsData, InPhase, IsEarned
  <2>3. Proceed(p, s) /\ UNCHANGED <<evidence, locals>>
    BY <1>8 DEF ReviewWorkspace, shared
  <2> HIDE DEF s
  <2> QED BY <1>1, <2>1, <2>2, <2>3
<1> QED BY <1>2, <1>3, <1>4, <1>5, <1>6, <1>7, <1>8

\* The evidence file, the hook and the push.
LEMMA EvidenceKeeps ==
  ASSUME IInv, NEW p \in Procs,
         \/ BuildEvidence(p) \/ TruncateEvidence(p) \/ WriteEvidence(p)
         \/ ReadEvidence(p) \/ SendPack(p) \/ Interrupt(p)
  PROVE  IInv'
<1> USE DEF Ended, Planned, Holding, OtherSteps, Steps
<1>0. AtStep(p, pc[p]) /\ CloneOK /\ ControlOK /\ LocalsOK /\ HistoryOK
  BY DEF IInv, TypeOK
<1>1. CASE BuildEvidence(p)
  <2>1. CASE OnFeatureBranch
    <3> DEFINE d == [base |-> chg[p].base, head |-> chg[p].head, branch |-> branch,
                     fp |-> chg[p].fp, integration |-> CheckedIntegration(p),
                     expired |-> FALSE]
    <3>1. CheckedIntegration(p) \in passed
      BY <1>0, <1>1 DEF BuildEvidence, CheckedIntegration, AtStep, InPhase, IsEarned
    <3>2. d \in Documents
      BY <1>0, <1>1, <2>1, <3>1
      DEF BuildEvidence, AtStep, HoldsData, PlannedChanges, Documents,
          OnFeatureBranch, HistoryOK
    <3>3. payload' = [payload EXCEPT ![p] = d] /\ Proceed(p, "truncate")
          /\ UNCHANGED <<repo, shared, cmd, phase, orig, adv, chg, integ, upd>>
      BY <1>1, <2>1 DEF BuildEvidence
    <3>4. d.integration \in passed BY <3>1
    <3> HIDE DEF d
    <3>5. CloneOK' BY <1>0, <3>3 DEF CloneOK, repo, shared
    <3>6. LocalsOK' BY <1>0, <3>2, <3>3 DEF LocalsOK, OrNone
    <3>7. OthersKept(p)
      BY <1>0, <3>3 DEF ControlOK, LocalsOK, OthersKept, Proceed, Goto
    <3>8. payload'[p] = d BY <1>0, <3>3 DEF LocalsOK
    <3>9. AtStep(p, "truncate")'
      BY <1>0, <1>1, <3>2, <3>3, <3>4, <3>8
      DEF BuildEvidence, AtStep, HoldsData, InPhase, IsEarned, Proceed
    <3>10. EvidenceIsEarned' BY <3>3 DEF IInv, EvidenceIsEarned, shared, Proceed
    <3>11. phase' \in [Procs -> {"first", "second", "verify"}]
      BY <1>0, <3>3 DEF ControlOK
    <3> QED BY <3>3, <3>5, <3>6, <3>7, <3>9, <3>10, <3>11, ProceedKeeps
  <2>2. CASE ~OnFeatureBranch
    BY <1>1, <2>2, ExitKeeps DEF BuildEvidence
  <2> QED BY <2>1, <2>2
<1>2. ASSUME NEW s \in Steps, Proceed(p, s), CloneOK', UNCHANGED locals,
             AtStep(p, s), EvidenceIsEarned'
      PROVE  IInv'
  <2>1. LocalsOK' /\ phase' \in [Procs -> {"first", "second", "verify"}]
    BY <1>0, <1>2 DEF ControlOK, LocalsOK, locals
  <2>2. OthersKept(p)
    BY <1>0, <1>2 DEF ControlOK, Proceed, Goto, locals, OthersKept
  <2>3. AtStep(p, s)'
    BY <1>2 DEF AtStep, HoldsData, InPhase, IsEarned, UpdateAuthorised,
                locals, Proceed
  <2>4. cmd' = cmd BY <1>2 DEF locals
  <2> QED BY <1>2, <2>1, <2>2, <2>3, <2>4, ProceedKeeps
<1>3. CASE TruncateEvidence(p)
  <2>1. CloneOK' BY <1>0, <1>3 DEF CloneOK, TruncateEvidence, repo
  <2>2. AtStep(p, "write")
    BY <1>0, <1>3 DEF TruncateEvidence, AtStep, HoldsData, InPhase, IsEarned
  <2>3. EvidenceIsEarned' BY <1>3 DEF EvidenceIsEarned, TruncateEvidence
  <2> QED BY <1>2, <1>3, <2>1, <2>2, <2>3 DEF TruncateEvidence
<1>4. CASE WriteEvidence(p)
  <2>1. payload[p] \in Documents /\ payload[p].integration \in passed
    BY <1>0, <1>4 DEF WriteEvidence, AtStep, HoldsData, IsEarned
  <2>2. evidence' \in {payload[p], TornFile} BY <1>4 DEF WriteEvidence
  <2>3. CloneOK' BY <1>0, <1>4, <2>1, <2>2 DEF CloneOK, WriteEvidence, repo
  <2>4. AtStep(p, "read")
    BY <1>0, <1>4 DEF WriteEvidence, AtStep, HoldsData, InPhase, IsEarned
  <2>5. EvidenceIsEarned'
    BY <1>4, <2>1, <2>2 DEF EvidenceIsEarned, WriteEvidence, Proceed
  <2> QED BY <1>2, <1>4, <2>3, <2>4, <2>5 DEF WriteEvidence
<1>5. CASE ReadEvidence(p)
  <2>1. CASE Readable
    <3>1. Proceed(p, "planFp") /\ UNCHANGED <<repo, shared, cmd>>
      BY <1>5, <2>1 DEF ReadEvidence
    <3>2. evidence \in Documents /\ evidence.integration \in passed
      BY <1>0, <2>1 DEF Readable, CloneOK, IInv, EvidenceIsEarned
    <3>3. CloneOK' BY <1>0, <3>1 DEF CloneOK, repo, shared
    <3>4. LocalsOK' /\ phase' \in [Procs -> {"first", "second", "verify"}]
      BY <1>0, <1>5, <2>1, <3>2 DEF ControlOK, LocalsOK, ReadEvidence, OrNone
    <3>5. OthersKept(p)
      BY <1>0, <1>5, <2>1
      DEF ControlOK, LocalsOK, ReadEvidence, OthersKept, Proceed, Goto
    <3>6. AtStep(p, "planFp")'
      BY <1>0, <1>5, <2>1, <3>2
      DEF ControlOK, LocalsOK, ReadEvidence, Proceed, AtStep, HoldsData,
          InPhase, IsEarned
    <3>7. EvidenceIsEarned' BY <3>1 DEF IInv, EvidenceIsEarned, shared, Proceed
    <3>8. cmd' = cmd BY <3>1
    <3> QED BY <3>1, <3>3, <3>4, <3>5, <3>6, <3>7, <3>8, ProceedKeeps
  <2>2. CASE ~Readable
    BY <1>5, <2>2, ExitKeeps DEF ReadEvidence, Readable
  <2> QED BY <2>1, <2>2
<1>6. CASE SendPack(p)
  <2> DEFINE u == upd[p]
  <2>1. /\ u \in Updates /\ payload[p] \in Documents /\ UpdateAuthorised(p)
    BY <1>0, <1>6 DEF SendPack, AtStep, HoldsData, InPhase, IsEarned
  <2>2. /\ u.dst \in Features /\ u.new \in Commits
        /\ u.old = NoCommit \/ <<u.old, u.new>> \in Ancestor
    BY <2>1 DEF UpdateAuthorised, Documents, Updates
  <2>3. CASE remote[u.dst] = u.old
    <3>1. /\ remote' = [remote EXCEPT ![u.dst] = u.new]
          /\ pushed' = pushed \cup {[ref |-> u.dst, old |-> u.old, new |-> u.new,
                                     base |-> payload[p].base]}
          /\ Leave(p, "ok") /\ UNCHANGED <<dirs, leaked>>
      BY <1>6, <2>3 DEF SendPack
    <3> HIDE DEF u
    <3>2. PushesAreFastForward'
      <4>1. ASSUME NEW r \in pushed'
            PROVE  r.ref \in Features
                   /\ (r.old = NoCommit \/ <<r.old, r.new>> \in Ancestor)
        <5>1. CASE r \in pushed BY <5>1 DEF IInv, PushesAreFastForward
        <5>2. CASE r = [ref |-> u.dst, old |-> u.old, new |-> u.new,
                        base |-> payload[p].base]
          <6>1. r.ref = u.dst /\ r.old = u.old /\ r.new = u.new BY <5>2
          <6> QED BY <2>2, <6>1
        <5> QED BY <3>1, <4>1, <5>1, <5>2
      <4> QED BY <4>1 DEF PushesAreFastForward
    <3>3. remote' \in [Branches -> Commits \cup {NoCommit}]
          /\ remote'[Develop] \in Commits
      BY <1>0, <2>2, <3>1 DEF CloneOK, Features
    <3> QED BY <1>0, <3>1, <3>2, <3>3, LeaveKeeps DEF CloneOK
  <2>4. CASE remote[u.dst] # u.old
    BY <1>6, <2>4, ExitKeeps DEF SendPack
  <2> QED BY <2>3, <2>4
<1>7. CASE Interrupt(p)
  <2>1. PushesAreFastForward' BY <1>7 DEF IInv, PushesAreFastForward, Interrupt
  <2>2. leaked' \in BOOLEAN BY <1>0, <1>7 DEF CloneOK, Interrupt
  <2> QED BY <1>0, <1>7, <2>1, <2>2, LeaveKeeps DEF Interrupt, CloneOK
<1> QED BY <1>1, <1>3, <1>4, <1>5, <1>6, <1>7

\* What a command is started with: the hook gets the update Git describes.
LEMMA BeginStarts ==
  ASSUME IInv, NEW p \in Procs, Begin(p)
  PROVE  \E c \in Commands, u \in Updates \cup {NoValue} :
           /\ Start(p, c, u)
           /\ c = "pre-push" => u \in Updates /\ u.old = remote[u.dst]
<1>1. CASE \E c \in Commands \ {"pre-push"} : Start(p, c, NoValue)
  BY <1>1
<1>2. CASE /\ "pre-push" \in Commands
           /\ \E s \in Refs, d \in Branches, more \in BOOLEAN :
                (more => s = d) /\ Start(p, "pre-push", HookInput(s, d, more))
  <2>1. PICK s \in Refs, d \in Branches, more \in BOOLEAN :
          Start(p, "pre-push", HookInput(s, d, more))
    BY <1>2
  <2> DEFINE u == HookInput(s, d, more)
  <2>2. u \in Updates
    BY <2>1 DEF HookInput, Updates, IInv, TypeOK, CloneOK
  <2>3. u.old = remote[u.dst] BY DEF HookInput
  <2> HIDE DEF u
  <2> QED BY <1>2, <2>1, <2>2, <2>3 DEF u
<1> QED BY <1>1, <1>2 DEF Begin

\* The start of a command.
LEMMA BeginKeeps ==
  ASSUME IInv, NEW p \in Procs, Begin(p)
  PROVE  IInv'
<1>0. CloneOK /\ ControlOK /\ LocalsOK /\ HistoryOK
  BY DEF IInv, TypeOK
<1>1. PICK c \in Commands, u \in Updates \cup {NoValue} :
        Start(p, c, u) /\ (c = "pre-push" => u \in Updates)
  BY BeginStarts
<1>3. TypeOK'
  <2>1. CloneOK'
    BY <1>0, <1>1, ConstantsAssumption DEF CloneOK, Start, repo
  <2>2. ControlOK'
    BY <1>0, <1>1 DEF ControlOK, Start, Goto, OtherSteps, OrNone
  <2>3. LocalsOK' BY <1>0, <1>1 DEF LocalsOK, Start, OrNone
  <2>4. HistoryOK' BY <1>0, <1>1 DEF HistoryOK, CloneOK, Start, OrNone
  <2> QED BY <2>1, <2>2, <2>3, <2>4 DEF TypeOK
<1>4. OthersKept(p)
  BY <1>0, <1>1 DEF ControlOK, LocalsOK, Start, Goto, OthersKept
<1>5. AtStep(p, pc[p])'
  BY <1>0, <1>1
  DEF ControlOK, LocalsOK, Start, Goto, AtStep, HoldsData, InPhase, IsEarned,
      Ended, Planned, Holding
<1>6. EvidenceIsEarned' BY <1>1 DEF IInv, EvidenceIsEarned, Start
<1>7. PushesAreFastForward' BY <1>1 DEF IInv, PushesAreFastForward, Start
<1> QED BY <1>3, <1>4, <1>5, <1>6, <1>7, StepOfOne

\* The developer and the remote.
LEMMA EnvironmentKeeps ==
  ASSUME IInv, Environment
  PROVE  IInv'
<1>0. CloneOK /\ ControlOK /\ LocalsOK /\ HistoryOK
  BY DEF IInv, TypeOK
<1>1. /\ moves' \in {moves, moves + 1} /\ (moves' # moves => moves < MaxMoves)
      /\ calm' = NoValue /\ ready' = FALSE
      /\ UNCHANGED <<dirs, runs, pc, locals, passed, pushed>>
  BY DEF Environment
<1>2. /\ CloneOK' /\ EvidenceIsEarned'
      /\ seen' \in [Procs -> SUBSET Commits] /\ late' \subseteq Procs
  <2> USE DEF CloneOK, HistoryOK, IInv, EvidenceIsEarned
  <2>0. moves' \in 0..MaxMoves BY <1>0, <1>1, ConstantsAssumption
  <2>1. CASE \E c \in Commits : MoveHead(c)
    BY <1>0, <1>1, <2>0, <2>1 DEF MoveHead
  <2>2. CASE \E r \in Refs : SwitchBranch(r)
    BY <1>0, <1>1, <2>0, <2>2 DEF SwitchBranch, Head
  <2>3. CASE \E w \in Contents : EditWork(w)
    BY <1>0, <1>1, <2>0, <2>3 DEF EditWork
  <2>4. CASE \E c \in Commits : AdvanceBase(c)
    <3>1. PICK c \in Commits : AdvanceBase(c) BY <2>4
    <3>2. seen' \in [Procs -> SUBSET Commits] BY <1>0, <3>1 DEF AdvanceBase
    <3> QED BY <1>0, <1>1, <2>0, <3>1, <3>2, ConstantsAssumption
            DEF AdvanceBase, repo
  <2>5. CASE \E f \in Features, c \in Commits \cup {NoCommit} : OtherClone(f, c)
    BY <1>0, <1>1, <2>0, <2>5 DEF OtherClone, Features, repo
  <2>6. CASE AskRemote
    BY <1>0, <1>1, <2>0, <2>6 DEF AskRemote, OrNone
  <2>7. CASE StoreAnswer
    BY <1>0, <1>1, <2>0, <2>7 DEF StoreAnswer, Stores, OrNone
  <2>8. CASE RemoveLeaked
    BY <1>0, <1>1, <2>0, <2>8 DEF RemoveLeaked, repo
  <2>9. CASE ExpireEvidence
    <3>1. evidence \in Documents BY <1>0, <2>9 DEF ExpireEvidence, Readable
    <3>2. evidence' \in Documents /\ evidence'.integration = evidence.integration
      BY <2>9, <3>1 DEF ExpireEvidence, Documents
    <3>3. evidence.integration \in passed
      BY <2>9 DEF ExpireEvidence, Readable
    <3> QED BY <1>0, <1>1, <2>0, <2>9, <3>2, <3>3 DEF ExpireEvidence, repo
  <2> QED BY <2>1, <2>2, <2>3, <2>4, <2>5, <2>6, <2>7, <2>8, <2>9 DEF Environment, Move
<1>3. TypeOK'
  BY <1>0, <1>1, <1>2 DEF ControlOK, LocalsOK, HistoryOK, TypeOK, locals, OrNone
<1>4. ASSUME NEW p \in Procs PROVE AtStep(p, pc[p])'
  <2>1. AtStep(p, pc[p]) BY DEF IInv
  <2> QED BY <1>1, <2>1 DEF AtStep, HoldsData, InPhase, IsEarned,
                            UpdateAuthorised, locals
<1>5. PushesAreFastForward' BY <1>1 DEF IInv, PushesAreFastForward
<1> QED BY <1>2, <1>3, <1>4, <1>5 DEF IInv

-----------------------------------------------------------------------------

\* Before any command has run the inductive invariant holds.
LEMMA InitEstablishes == Init => IInv
<1> SUFFICES ASSUME Init PROVE IInv
  OBVIOUS
<1>1. TypeOK
  <2>1. 0 \in 0..MaxMoves /\ 0 \in 0..MaxRuns BY ConstantsAssumption
  <2>2. CloneOK BY <2>1 DEF Init, CloneInit, NoCommand, CloneOK, OrNone
  <2>3. ControlOK BY DEF Init, CloneInit, NoCommand, ControlOK, Ended, OrNone
  <2>4. LocalsOK BY DEF Init, CloneInit, NoCommand, LocalsOK, OrNone
  <2>5. HistoryOK BY DEF Init, CloneInit, NoCommand, HistoryOK, OrNone
  <2> QED BY <2>2, <2>3, <2>4, <2>5 DEF TypeOK
<1>2. ASSUME NEW p \in Procs PROVE AtStep(p, pc[p])
  BY DEF Init, CloneInit, NoCommand, AtStep, HoldsData, InPhase, IsEarned, Ended, Planned, Holding
<1>3. EvidenceIsEarned /\ PushesAreFastForward
  BY DEF Init, CloneInit, NoCommand, EvidenceIsEarned, PushesAreFastForward
<1> QED BY <1>1, <1>2, <1>3 DEF IInv

\* A step that changes nothing keeps the inductive invariant.
LEMMA StutterKeeps == IInv /\ UNCHANGED vars => IInv'
<1> SUFFICES ASSUME IInv, UNCHANGED vars PROVE IInv'
  OBVIOUS
<1> USE DEF vars, repo, shared, locals, history
<1>1. TypeOK'
  BY DEF IInv, TypeOK, CloneOK, ControlOK, LocalsOK, HistoryOK
<1>2. ASSUME NEW p \in Procs PROVE AtStep(p, pc[p])'
  <2>1. AtStep(p, pc[p]) BY DEF IInv
  <2> QED BY <2>1 DEF AtStep, HoldsData, InPhase, IsEarned, UpdateAuthorised
<1>3. EvidenceIsEarned' /\ PushesAreFastForward'
  BY DEF IInv, EvidenceIsEarned, PushesAreFastForward
<1> QED BY <1>1, <1>2, <1>3 DEF IInv

\* Every step of a process, of the developer and of the remote keeps the
\* inductive invariant.
LEMMA NextKeeps == IInv /\ [Next]_vars => IInv'
<1> SUFFICES ASSUME IInv, [Next]_vars PROVE IInv'
  OBVIOUS
<1>1. ASSUME NEW p \in Procs, Begin(p) \/ Step(p) \/ Interrupt(p) PROVE IInv'
  BY <1>1, BeginKeeps, ReadsKeep, RecordsKeep, WorktreesKeep, EvidenceKeeps DEF Step
<1> QED BY <1>1, EnvironmentKeeps, StutterKeeps DEF Next

\* The inductive invariant holds of every reachable state of the gate.
THEOREM Invariance == Spec => []IInv
BY InitEstablishes, NextKeeps, PTL DEF Spec

\* Every variable keeps its type in every reachable state.
THEOREM TypeCorrect == Spec => []TypeOK
<1>1. IInv => TypeOK BY DEF IInv
<1> QED BY <1>1, Invariance, PTL

\* write_evidence and verify_evidence: whatever HEAD, the branch, the base ref
\* and other runs did meanwhile, a complete evidence file names an integration
\* on which the checks passed.
THEOREM EvidenceTruth == Spec => []EvidenceIsEarned
<1>1. IInv => EvidenceIsEarned BY DEF IInv
<1> QED BY <1>1, Invariance, PTL

\* verify_pre_push_updates: what the hook lets out passed the checks, merged
\* with the base the hook verified against.
THEOREM AuthorisedTruth == Spec => []AuthorisedIsCertified
<1>1. IInv => AuthorisedIsCertified
  <2> SUFFICES ASSUME IInv, NEW p \in Procs, pc[p] = "authorised"
               PROVE  <<payload[p].base, upd[p].new>> \in passed
    BY DEF AuthorisedIsCertified
  <2>1. AtStep(p, "authorised") BY DEF IInv
  <2> QED BY <2>1 DEF AtStep, IsEarned, UpdateAuthorised, Holding
<1> QED BY <1>1, Invariance, PTL

\* verify_pre_push_updates: this clone never rewrites a branch of the remote
\* and never touches the base branch.
THEOREM FastForwardOnly == Spec => []PushesAreFastForward
<1>1. IInv => PushesAreFastForward BY DEF IInv
<1> QED BY <1>1, Invariance, PTL

-----------------------------------------------------------------------------
(* The detailed gate implements the abstract one.                          *)

\* The initial states of the commands are initial states of the abstract gate.
LEMMA GateInit == Init => Gate!Init
BY DEF Init, CloneInit, NoCommand, Gate!Init

\* Only passing checks, the push itself and the rest of the world are visible.
LEMMA GateStep == IInv /\ [Next]_vars => [Gate!Next]_Gate!vars
<1> SUFFICES ASSUME IInv, [Next]_vars
             PROVE  Gate!Next \/ UNCHANGED <<passed, remote, pushed>>
  BY DEF Gate!vars
<1>1. ASSUME NEW p \in Procs, Begin(p) PROVE UNCHANGED <<passed, remote, pushed>>
  BY <1>1 DEF Begin, Start
<1>2. ASSUME NEW p \in Procs, Interrupt(p)
      PROVE  UNCHANGED <<passed, remote, pushed>>
  BY <1>2 DEF Interrupt, Leave
<1>3. ASSUME NEW p \in Procs, ChecksPass(p) PROVE Gate!Next
  <2>1. AtStep(p, "checking") BY <1>3 DEF IInv, ChecksPass
  <2>2. chg[p].base \in Commits /\ chg[p].head \in Commits
    BY <2>1 DEF AtStep, HoldsData, Planned, PlannedChanges
  <2>3. Gate!Certify(chg[p].base, chg[p].head)
    BY <1>3 DEF ChecksPass, Integration, Gate!Certify
  <2> QED BY <2>2, <2>3 DEF Gate!Next
<1>4. ASSUME NEW p \in Procs, SendPack(p)
      PROVE  Gate!Next \/ UNCHANGED <<passed, remote, pushed>>
  <2> DEFINE u == upd[p]
  <2>1. AtStep(p, "authorised") BY <1>4 DEF IInv, SendPack
  <2>2. u \in Updates /\ payload[p] \in Documents
    BY <2>1 DEF AtStep, HoldsData, InPhase, Ended, Holding
  <2>3. u.dst \in Features /\ u.new \in Commits
        /\ (u.old = NoCommit \/ <<u.old, u.new>> \in Ancestor)
        /\ <<payload[p].base, u.new>> \in passed
    BY <2>1, <2>2 DEF AtStep, IsEarned, UpdateAuthorised, Documents, Updates, Holding
  <2>4. CASE remote[u.dst] = u.old
    <3>1. /\ remote' = [remote EXCEPT ![u.dst] = u.new]
          /\ pushed' = pushed \cup {[ref |-> u.dst, old |-> u.old, new |-> u.new,
                                     base |-> payload[p].base]}
          /\ passed' = passed
      BY <1>4, <2>4 DEF SendPack, Leave
    <3>2. u.dst \in Branches /\ u.dst # Develop /\ payload[p].base \in Commits
      BY <2>2, <2>3 DEF Features, Documents
    <3> HIDE DEF u
    <3>3. Gate!Push(u.dst, payload[p].base, u.new)
      BY <2>3, <2>4, <3>1, <3>2 DEF Gate!Push
    <3> QED BY <2>3, <3>2, <3>3 DEF Gate!Next
  <2>5. CASE remote[u.dst] # u.old
    BY <1>4, <2>5 DEF SendPack, Exit, Leave
  <2> QED BY <2>4, <2>5
<1>5. ASSUME NEW p \in Procs, Step(p), ~ChecksPass(p), ~SendPack(p)
      PROVE  UNCHANGED <<passed, remote, pushed>>
  <2> USE DEF Proceed, Exit, Leave, Require, shared
  <2>1. CASE RequireCleanHead(p) \/ OriginalHead(p) \/ OriginalBranch(p)
             \/ OriginalFingerprint(p) \/ Advertise(p) \/ ReadTrackingRef(p) \/ Fetch(p)
    BY <2>1 DEF RequireCleanHead, OriginalHead, OriginalBranch,
                OriginalFingerprint, Advertise, ReadTrackingRef, Fetch
  <2>2. CASE PlanFingerprint(p) \/ PlanBase(p) \/ PlanHead(p)
             \/ PlanFingerprintAgain(p) \/ PlanScan(p)
             \/ RequireTrustedCheckPolicy(p)
    BY <2>2 DEF PlanFingerprint, PlanBase, PlanHead, PlanFingerprintAgain,
                PlanScan, RequireTrustedCheckPolicy
  <2>3. CASE AddMergeWorktree(p) \/ MergeInWorktree(p) \/ AddCheckWorktree(p)
             \/ ChecksFail(p)
    BY <2>3 DEF AddMergeWorktree, MergeInWorktree, AddCheckWorktree, ChecksFail
  <2>4. CASE RequireCleanAgain(p) \/ SameHead(p) \/ SameBranch(p)
             \/ SameFingerprint(p) \/ ReviewFingerprint(p)
             \/ ReviewWorkspace(p) \/ ReviewFingerprintAgain(p)
    BY <2>4 DEF RequireCleanAgain, SameHead, SameBranch, SameFingerprint,
                ReviewFingerprint, ReviewWorkspace, ReviewFingerprintAgain
  <2>5. CASE WriteFingerprint(p) \/ BuildEvidence(p) \/ TruncateEvidence(p)
             \/ WriteEvidence(p) \/ ReadEvidence(p) \/ CompareEvidence(p)
             \/ VerifyPrePushUpdates(p)
    BY <2>5 DEF WriteFingerprint, BuildEvidence, TruncateEvidence,
                WriteEvidence, ReadEvidence, CompareEvidence, VerifyPrePushUpdates
  <2> QED BY <1>5, <2>1, <2>2, <2>3, <2>4, <2>5 DEF Step
<1>6. ASSUME Environment PROVE Gate!Next \/ UNCHANGED <<passed, remote, pushed>>
  <2>1. CloneOK' BY EnvironmentKeeps, <1>6 DEF IInv, TypeOK
  <2>2. passed' = passed /\ pushed' = pushed BY <1>6 DEF Environment
  <2>3. Gate!Elsewhere BY <2>1, <2>2 DEF Gate!Elsewhere, CloneOK
  <2> QED BY <2>3 DEF Gate!Next
<1>7. ASSUME UNCHANGED vars PROVE UNCHANGED <<passed, remote, pushed>>
  BY <1>7 DEF vars, shared, history
<1> QED BY <1>1, <1>2, <1>3, <1>4, <1>5, <1>6, <1>7 DEF Next

\* main: concurrent runs, crashes, a shared and torn evidence file and a
\* repository that changes under the script only ever certify and push as the
\* abstract gate allows.
THEOREM Implementation == Spec => ImplementsGate
<1>1. Spec => []IInv BY Invariance
<1> QED BY <1>1, GateInit, GateStep, PTL DEF Spec, ImplementsGate, Gate!Spec

-----------------------------------------------------------------------------
(* A leaked worktree stops every command at its first look.                *)

\* main: a process takes a step only while its command runs, and whatever it
\* does ends the calm of another one.
LEMMA StepsAreSeen ==
  ASSUME NEW p \in Procs, Step(p) \/ Interrupt(p)
  PROVE  Undisturbed(p) /\ Running(p) /\ cmd' = cmd
<1> USE DEF Proceed, Exit, Leave, Require, Running, Ended, locals
<1>1. CASE RequireCleanHead(p) \/ OriginalHead(p) \/ OriginalBranch(p)
           \/ OriginalFingerprint(p) \/ Advertise(p) \/ ReadTrackingRef(p) \/ Fetch(p)
  BY <1>1 DEF RequireCleanHead, OriginalHead, OriginalBranch,
              OriginalFingerprint, Advertise, ReadTrackingRef, Fetch
<1>2. CASE PlanFingerprint(p) \/ PlanBase(p) \/ PlanHead(p)
           \/ PlanFingerprintAgain(p) \/ PlanScan(p)
           \/ RequireTrustedCheckPolicy(p)
  BY <1>2 DEF PlanFingerprint, PlanBase, PlanHead, PlanFingerprintAgain,
              PlanScan, RequireTrustedCheckPolicy
<1>3. CASE AddMergeWorktree(p) \/ MergeInWorktree(p) \/ AddCheckWorktree(p)
           \/ ChecksPass(p) \/ ChecksFail(p)
  BY <1>3 DEF AddMergeWorktree, MergeInWorktree, AddCheckWorktree,
              ChecksPass, ChecksFail
<1>4. CASE RequireCleanAgain(p) \/ SameHead(p) \/ SameBranch(p)
           \/ SameFingerprint(p) \/ ReviewFingerprint(p)
           \/ ReviewWorkspace(p) \/ ReviewFingerprintAgain(p)
  BY <1>4 DEF RequireCleanAgain, SameHead, SameBranch, SameFingerprint,
              ReviewFingerprint, ReviewWorkspace, ReviewFingerprintAgain
<1>5. CASE WriteFingerprint(p) \/ BuildEvidence(p) \/ TruncateEvidence(p)
           \/ WriteEvidence(p) \/ ReadEvidence(p) \/ CompareEvidence(p)
           \/ VerifyPrePushUpdates(p) \/ SendPack(p)
  BY <1>5 DEF WriteFingerprint, BuildEvidence, TruncateEvidence, WriteEvidence,
              ReadEvidence, CompareEvidence, VerifyPrePushUpdates, SendPack
<1>6. CASE Interrupt(p)
  BY <1>6 DEF Interrupt
<1> QED BY <1>1, <1>2, <1>3, <1>4, <1>5, <1>6 DEF Step

\* execute_integration_checks: a command that leaks a worktree is over.
LEMMA LeakingEnds ==
  ASSUME IInv, NEW p \in Procs, Step(p) \/ Interrupt(p), Running(p)'
  PROVE  leaked' = leaked
<1> USE DEF Proceed, Exit, Leave, Require, shared
<1>1. CASE RequireCleanHead(p) \/ OriginalHead(p) \/ OriginalBranch(p)
           \/ OriginalFingerprint(p) \/ Advertise(p) \/ ReadTrackingRef(p) \/ Fetch(p)
  BY <1>1 DEF RequireCleanHead, OriginalHead, OriginalBranch,
              OriginalFingerprint, Advertise, ReadTrackingRef, Fetch
<1>2. CASE PlanFingerprint(p) \/ PlanBase(p) \/ PlanHead(p)
           \/ PlanFingerprintAgain(p) \/ PlanScan(p)
           \/ RequireTrustedCheckPolicy(p)
  BY <1>2 DEF PlanFingerprint, PlanBase, PlanHead, PlanFingerprintAgain,
              PlanScan, RequireTrustedCheckPolicy
<1>3. CASE AddMergeWorktree(p) \/ MergeInWorktree(p) \/ AddCheckWorktree(p)
           \/ ChecksPass(p)
  BY <1>3 DEF AddMergeWorktree, MergeInWorktree, AddCheckWorktree, ChecksPass
<1>4. CASE RequireCleanAgain(p) \/ SameHead(p) \/ SameBranch(p)
           \/ SameFingerprint(p) \/ ReviewFingerprint(p)
           \/ ReviewWorkspace(p) \/ ReviewFingerprintAgain(p)
  BY <1>4 DEF RequireCleanAgain, SameHead, SameBranch, SameFingerprint,
              ReviewFingerprint, ReviewWorkspace, ReviewFingerprintAgain
<1>5. CASE WriteFingerprint(p) \/ BuildEvidence(p) \/ TruncateEvidence(p)
           \/ WriteEvidence(p) \/ ReadEvidence(p) \/ CompareEvidence(p)
           \/ VerifyPrePushUpdates(p) \/ SendPack(p)
  BY <1>5 DEF WriteFingerprint, BuildEvidence, TruncateEvidence, WriteEvidence,
              ReadEvidence, CompareEvidence, VerifyPrePushUpdates, SendPack
<1>6. CASE ChecksFail(p) \/ Interrupt(p)
  <2>1. PICK r \in Ended : Leave(p, r)
    BY <1>6 DEF ChecksFail, Interrupt, Ended
  <2>2. pc'[p] \in Ended BY <2>1 DEF IInv, TypeOK, ControlOK, Goto
  <2> QED BY <2>2 DEF Running
<1> QED BY <1>1, <1>2, <1>3, <1>4, <1>5, <1>6 DEF Step

\* Every first look at the checkout sees the leaked worktree.
LEMMA LeakKeeps == IInv /\ LeakFailsClosed /\ [Next]_vars => LeakFailsClosed'
<1> SUFFICES ASSUME IInv, LeakFailsClosed, [Next]_vars,
                    NEW p \in Procs, calm' = p, leaked', Running(p)'
             PROVE  pc'[p] \in {"clean", "read", "planFp"}
  BY DEF LeakFailsClosed
<1>0. pc \in [Procs -> Ended \cup Steps]
  BY DEF IInv, TypeOK, ControlOK, Steps
<1>1. ASSUME NEW q \in Procs, Begin(q) PROVE pc'[p] \in {"clean", "read", "planFp"}
  <2>1. PICK c \in Commands, u \in Updates \cup {NoValue} : Start(q, c, u)
    BY <1>1, BeginStarts
  <2>2. q = p BY <2>1 DEF Start
  <2> QED BY <1>0, <2>1, <2>2 DEF Start, Goto
<1>2. ASSUME NEW q \in Procs, Step(q) \/ Interrupt(q)
      PROVE  pc'[p] \in {"clean", "read", "planFp"}
  <2>1. q = p /\ calm = p
    BY <1>2, StepsAreSeen, ConstantsAssumption DEF Undisturbed
  <2>2. leaked BY <1>2, <2>1, LeakingEnds
  <2>3. Running(p) BY <1>2, <2>1, StepsAreSeen
  <2>4. pc[p] \in {"clean", "read", "planFp"} BY <2>1, <2>2, <2>3 DEF LeakFailsClosed
  <2>5. RequireCleanHead(p) \/ ReadEvidence(p) \/ PlanFingerprint(p) \/ Interrupt(p)
    <3>1. ~(OriginalHead(p) \/ OriginalBranch(p) \/ OriginalFingerprint(p)
            \/ Advertise(p) \/ ReadTrackingRef(p) \/ Fetch(p)
            \/ PlanBase(p) \/ PlanHead(p)
            \/ PlanFingerprintAgain(p) \/ PlanScan(p)
            \/ RequireTrustedCheckPolicy(p))
      BY <2>4 DEF OriginalHead, OriginalBranch, OriginalFingerprint, Advertise,
                  ReadTrackingRef, Fetch, PlanBase, PlanHead, PlanFingerprintAgain, PlanScan,
                  RequireTrustedCheckPolicy
    <3>2. ~(AddMergeWorktree(p) \/ MergeInWorktree(p) \/ AddCheckWorktree(p)
            \/ ChecksPass(p) \/ ChecksFail(p) \/ RequireCleanAgain(p)
            \/ SameHead(p) \/ SameBranch(p) \/ SameFingerprint(p))
      BY <2>4 DEF AddMergeWorktree, MergeInWorktree, AddCheckWorktree, ChecksPass,
                  ChecksFail, RequireCleanAgain, SameHead, SameBranch, SameFingerprint
    <3>3. ~(ReviewFingerprint(p) \/ ReviewWorkspace(p) \/ ReviewFingerprintAgain(p)
            \/ WriteFingerprint(p) \/ BuildEvidence(p) \/ TruncateEvidence(p)
            \/ WriteEvidence(p) \/ CompareEvidence(p)
            \/ VerifyPrePushUpdates(p) \/ SendPack(p))
      BY <2>4 DEF ReviewFingerprint, ReviewWorkspace, ReviewFingerprintAgain,
                  WriteFingerprint, BuildEvidence, TruncateEvidence, WriteEvidence,
                  CompareEvidence, VerifyPrePushUpdates, SendPack
    <3> QED BY <1>2, <2>1, <3>1, <3>2, <3>3 DEF Step
  <2>6. CASE RequireCleanHead(p)
    <3>1. Exit(p, "refused")
      BY <2>2, <2>6 DEF RequireCleanHead, Require, StatusEmpty, NoForeignWorktree
    <3> QED BY <1>0, <3>1 DEF Exit, Leave, Goto, Running, Ended
  <2>7. CASE ReadEvidence(p)
    BY <1>0, <2>7 DEF ReadEvidence, Proceed, Exit, Leave, Goto, Running, Ended
  <2>8. CASE PlanFingerprint(p)
    BY <1>0, <2>2, <2>8 DEF PlanFingerprint, NoForeignWorktree, Exit, Leave, Goto, Running, Ended
  <2>9. CASE Interrupt(p)
    BY <1>0, <2>9 DEF Interrupt, Leave, Goto, Running, Ended
  <2> QED BY <2>5, <2>6, <2>7, <2>8, <2>9
<1>3. CASE Environment
  BY <1>3, ConstantsAssumption DEF Environment
<1>4. CASE UNCHANGED vars
  BY <1>4 DEF vars, shared, history, LeakFailsClosed, Running
<1> QED BY <1>1, <1>2, <1>3, <1>4 DEF Next

\* require_clean_head and tree_fingerprint: no command gets past its first look
\* at a checkout in which an integration worktree was left behind.
THEOREM LeaksAreSeen == Spec => []LeakFailsClosed
<1>1. Init => LeakFailsClosed
  BY ConstantsAssumption DEF Init, NoCommand, LeakFailsClosed
<1> QED BY <1>1, LeakKeeps, Invariance, PTL DEF Spec

-----------------------------------------------------------------------------
(* The base the checks and the hook stand on is fresh.                     *)

\* The steps of a hook until it has read the evidence, and all its steps; the
\* steps of push-ready and validate until the checks have passed.
HookFirst == {"clean", "advertise", "oldRef", "fetch", "read"}
HookSteps ==
  HookFirst \cup
  {"planFp", "planBase", "planHead", "planFpAgain", "planScan", "policy",
   "merge", "merging", "compare", "updates", "authorised"}
FirstSteps ==
  {"clean", "origHead", "origBranch", "origFp", "advertise", "oldRef", "fetch",
   "planFp", "planBase", "planHead", "planFpAgain", "planScan", "policy",
   "merge", "merging", "addChecks", "checking"}

\* The steps at which a planned change names a base.
WithBase == {"planHead"} \cup Planned

FirstStepsOf(c) ==
  CASE c = "pre-push" -> HookFirst
    [] c \in {"push-ready", "validate"} -> FirstSteps
    [] OTHER -> {"read"}

PathAt(p, s) ==
  /\ phase[p] = "first" => s \in FirstStepsOf(cmd[p])
  /\ s \in {"addChecks", "checking"} => phase[p] = "first"
  /\ cmd[p] = "pre-push" =>
       /\ s \in HookSteps /\ phase[p] # "second"
       /\ s \in HookFirst => phase[p] = "first"

\* The tracking ref until the base is read from it, then what was read, is a
\* tip of the remote since the start of p.
BaseAt(p, s) ==
  /\ s = "fetch" /\ adv[p].tip = adv[p].old => baseRef \in seen[p]
  /\ s \in {"read", "planFp", "planBase"} => baseRef \in seen[p]
  /\ s \in WithBase => chg[p].base \in seen[p]
  /\ s \in {"updates", "authorised"} => payload[p].base \in seen[p]

FirstUse(p) == cmd[p] = "pre-push" \/ phase[p] = "first"

FreshAt(p, s) ==
  s \notin Ended =>
    /\ PathAt(p, s)
    /\ cmd[p] \in Fetching =>
         /\ remote[Develop] \in seen[p]
         /\ s \in {"oldRef", "fetch"} => adv[p].tip \in seen[p]
         /\ FirstUse(p) /\ p \notin late => BaseAt(p, s)

Freshness == \A p \in Procs : FreshAt(p, pc[p])

\* A step of p that leaves the base alone on both sides keeps everybody fresh
\* when it keeps p fresh.
LEMMA FreshFrame ==
  ASSUME Freshness, NEW p \in Procs, OthersKept(p), baseRef' = baseRef,
         remote'[Develop] = remote[Develop], late \ {p} \subseteq late',
         \A q \in Procs \ {p} : seen'[q] = seen[q],
         FreshAt(p, pc[p])'
  PROVE  Freshness'
<1>1. ASSUME NEW q \in Procs \ {p} PROVE FreshAt(q, pc[q])'
  <2>1. FreshAt(q, pc[q]) BY DEF Freshness
  <2> QED BY <2>1 DEF FreshAt, PathAt, FirstStepsOf, BaseAt, FirstUse, OthersKept
<1> QED BY <1>1 DEF Freshness

\* The end of a command.
LEMMA FreshLeave ==
  ASSUME IInv, Freshness, NEW p \in Procs, NEW r \in Ended, Leave(p, r),
         remote'[Develop] = remote[Develop]
  PROVE  Freshness'
<1>1. OthersKept(p)
  BY DEF IInv, TypeOK, ControlOK, LocalsOK, Leave, Goto, OthersKept
<1>2. pc'[p] = r BY DEF IInv, TypeOK, ControlOK, Leave, Goto
<1>3. \A q \in Procs \ {p} : seen'[q] = seen[q]
  BY DEF IInv, TypeOK, HistoryOK, Leave
<1>4. FreshAt(p, pc[p])' BY <1>2 DEF FreshAt
<1> QED BY <1>1, <1>3, <1>4, FreshFrame DEF Leave

\* A step of p that goes on and moves no base.
LEMMA FreshProceed ==
  ASSUME IInv, Freshness, NEW p \in Procs, NEW s \in Steps,
         pc' = [pc EXCEPT ![p] = s], OthersKept(p),
         UNCHANGED <<baseRef, remote, seen, late>>, FreshAt(p, s)'
  PROVE  Freshness'
<1>1. pc'[p] = s BY DEF IInv, TypeOK, ControlOK
<1> QED BY <1>1, FreshFrame

\* No step of a process touches what another one holds.
LEMMA OthersAreKept ==
  ASSUME IInv, NEW p \in Procs, Step(p) \/ Interrupt(p)
  PROVE  OthersKept(p)
<1>0. ControlOK /\ LocalsOK BY DEF IInv, TypeOK
<1> USE DEF Proceed, Exit, Leave, Require, Goto, locals, ControlOK, LocalsOK, OthersKept
<1>1. CASE RequireCleanHead(p) \/ OriginalHead(p) \/ OriginalBranch(p)
           \/ OriginalFingerprint(p) \/ Advertise(p) \/ ReadTrackingRef(p) \/ Fetch(p)
  BY <1>0, <1>1 DEF RequireCleanHead, OriginalHead, OriginalBranch,
              OriginalFingerprint, Advertise, ReadTrackingRef, Fetch
<1>2. CASE PlanFingerprint(p) \/ PlanBase(p) \/ PlanHead(p)
           \/ PlanFingerprintAgain(p) \/ PlanScan(p)
           \/ RequireTrustedCheckPolicy(p)
  BY <1>0, <1>2 DEF PlanFingerprint, PlanBase, PlanHead, PlanFingerprintAgain,
              PlanScan, RequireTrustedCheckPolicy
<1>3. CASE AddMergeWorktree(p) \/ MergeInWorktree(p) \/ AddCheckWorktree(p)
           \/ ChecksPass(p) \/ ChecksFail(p)
  BY <1>0, <1>3 DEF AddMergeWorktree, MergeInWorktree, AddCheckWorktree,
              ChecksPass, ChecksFail
<1>4. CASE RequireCleanAgain(p) \/ SameHead(p) \/ SameBranch(p)
           \/ SameFingerprint(p) \/ ReviewFingerprint(p)
           \/ ReviewWorkspace(p) \/ ReviewFingerprintAgain(p)
  BY <1>0, <1>4 DEF RequireCleanAgain, SameHead, SameBranch, SameFingerprint,
              ReviewFingerprint, ReviewWorkspace, ReviewFingerprintAgain
<1>5. CASE WriteFingerprint(p) \/ BuildEvidence(p) \/ TruncateEvidence(p)
           \/ WriteEvidence(p) \/ ReadEvidence(p)
  BY <1>0, <1>5 DEF WriteFingerprint, BuildEvidence, TruncateEvidence, WriteEvidence,
              ReadEvidence
<1>6. CASE CompareEvidence(p) \/ VerifyPrePushUpdates(p) \/ SendPack(p)
           \/ Interrupt(p)
  BY <1>0, <1>6 DEF CompareEvidence, VerifyPrePushUpdates, SendPack, Interrupt
<1> QED BY <1>1, <1>2, <1>3, <1>4, <1>5, <1>6 DEF Step

\* A check on what was read keeps the freshness of what it read.
LEMMA FreshRequire ==
  ASSUME IInv, Freshness, NEW p \in Procs, OthersKept(p),
         NEW STATE condition, NEW s \in Steps, Require(p, condition, s),
         condition => FreshAt(p, s)
  PROVE  Freshness'
<1>1. CASE condition /\ Proceed(p, s) /\ UNCHANGED <<repo, shared, locals>>
  <2>1. FreshAt(p, s)'
    BY <1>1 DEF FreshAt, PathAt, FirstStepsOf, BaseAt, FirstUse, Proceed, shared, locals
  <2> QED BY <1>1, <2>1, FreshProceed DEF Proceed, Goto, shared
<1>2. CASE Exit(p, "refused")
  BY <1>2, FreshLeave DEF Exit, Ended
<1> QED BY <1>1, <1>2 DEF Require

\* The checks of a process on what it read: the next step needs no more of the
\* base than this one has.
LEMMA FreshChecks ==
  ASSUME IInv, Freshness, NEW p \in Procs,
         \/ RequireCleanHead(p) \/ PlanFingerprintAgain(p) \/ PlanScan(p)
         \/ RequireTrustedCheckPolicy(p) \/ RequireCleanAgain(p)
         \/ SameHead(p) \/ SameBranch(p) \/ SameFingerprint(p)
         \/ ReviewFingerprint(p) \/ ReviewFingerprintAgain(p)
         \/ WriteFingerprint(p) \/ CompareEvidence(p) \/ VerifyPrePushUpdates(p)
  PROVE  Freshness'
<1> USE DEF Planned, Holding, OtherSteps, Steps, HookFirst, HookSteps, FirstSteps,
            WithBase, Ended, FreshAt, PathAt, FirstStepsOf, BaseAt, FirstUse
<1>0. FreshAt(p, pc[p]) /\ OthersKept(p) /\ AtStep(p, pc[p]) /\ ControlOK
  BY OthersAreKept DEF Freshness, IInv, TypeOK, Step
<1>1. CASE RequireCleanHead(p)
  <2>1. FreshAt(p, AfterClean(p)) /\ AfterClean(p) \in Steps
    BY <1>0, <1>1 DEF RequireCleanHead, AfterClean, Fetching
  <2> HIDE DEF FreshAt, Steps
  <2> QED BY <1>0, <1>1, <2>1, FreshRequire DEF RequireCleanHead
<1>2. CASE PlanFingerprintAgain(p)
  <2> DEFINE s == IF phase[p] = "first" THEN "policy" ELSE "planScan"
  <2>1. FreshAt(p, s) /\ s \in Steps
    BY <1>0, <1>2 DEF PlanFingerprintAgain, Fetching
  <2>2. Require(p, SameTree(chg[p].fp), s) BY <1>2 DEF PlanFingerprintAgain
  <2> HIDE DEF FreshAt, Steps, s
  <2> QED BY <1>0, <2>1, <2>2, FreshRequire
<1>3. CASE PlanScan(p)
  <2>1. CASE AfterPlan(p) # "ok" /\ Require(p, SameTree(chg[p].fp), AfterPlan(p))
    <3>1. FreshAt(p, AfterPlan(p)) /\ AfterPlan(p) \in Steps
      BY <1>0, <1>3, <2>1 DEF PlanScan, AfterPlan, Fetching
    <3> HIDE DEF FreshAt, Steps
    <3> QED BY <1>0, <2>1, <3>1, FreshRequire
  <2>2. CASE Exit(p, IF SameTree(chg[p].fp) THEN "ok" ELSE "refused")
    BY <2>2, FreshLeave DEF Exit
  <2> QED BY <1>3, <2>1, <2>2 DEF PlanScan
<1>4. CASE RequireTrustedCheckPolicy(p)
  <2>1. FreshAt(p, "merge") BY <1>0, <1>4 DEF RequireTrustedCheckPolicy
  <2> QED BY <1>0, <1>4, <2>1, FreshRequire DEF RequireTrustedCheckPolicy
<1>5. CASE RequireCleanAgain(p)
  <2>1. FreshAt(p, "reHead") BY <1>0, <1>5 DEF RequireCleanAgain
  <2> QED BY <1>0, <1>5, <2>1, FreshRequire DEF RequireCleanAgain
<1>6. CASE SameHead(p)
  <2>1. FreshAt(p, "reBranch") BY <1>0, <1>6 DEF SameHead
  <2> QED BY <1>0, <1>6, <2>1, FreshRequire DEF SameHead
<1>7. CASE SameBranch(p)
  <2>1. FreshAt(p, "reFp") BY <1>0, <1>7 DEF SameBranch
  <2> QED BY <1>0, <1>7, <2>1, FreshRequire DEF SameBranch
<1>8. CASE SameFingerprint(p)
  <2>1. FreshAt(p, "planFp") BY <1>0, <1>8 DEF SameFingerprint
  <2> QED BY <1>0, <1>8, <2>1, FreshRequire DEF SameFingerprint
<1>9. CASE ReviewFingerprint(p)
  <2>1. FreshAt(p, "reviewStatus") BY <1>0, <1>9 DEF ReviewFingerprint
  <2> QED BY <1>0, <1>9, <2>1, FreshRequire DEF ReviewFingerprint
<1>10. CASE ReviewFingerprintAgain(p)
  <2>1. CASE Require(p, SameTree(chg[p].fp), "writeFp")
    <3>1. FreshAt(p, "writeFp") BY <1>0, <1>10 DEF ReviewFingerprintAgain
    <3> QED BY <1>0, <2>1, <3>1, FreshRequire
  <2>2. CASE Exit(p, IF SameTree(chg[p].fp) THEN "ok" ELSE "refused")
    BY <2>2, FreshLeave DEF Exit
  <2> QED BY <1>10, <2>1, <2>2 DEF ReviewFingerprintAgain
<1>11. CASE WriteFingerprint(p)
  <2>1. FreshAt(p, "writeBranch") BY <1>0, <1>11 DEF WriteFingerprint
  <2> QED BY <1>0, <1>11, <2>1, FreshRequire DEF WriteFingerprint
<1>12. CASE CompareEvidence(p)
  <2>1. CASE cmd[p] = "pre-push" /\ Require(p, EvidenceMatches(p), "updates")
    <3>1. EvidenceMatches(p) => FreshAt(p, "updates")
      BY <1>0, <1>12, <2>1 DEF CompareEvidence, EvidenceMatches
    <3> QED BY <1>0, <2>1, <3>1, FreshRequire
  <2>2. CASE Exit(p, IF EvidenceMatches(p) THEN "ok" ELSE "refused")
    BY <2>2, FreshLeave DEF Exit
  <2> QED BY <1>12, <2>1, <2>2 DEF CompareEvidence
<1>13. CASE VerifyPrePushUpdates(p)
  <2>1. FreshAt(p, "authorised") BY <1>0, <1>13 DEF VerifyPrePushUpdates
  <2> QED BY <1>0, <1>13, <2>1, FreshRequire DEF VerifyPrePushUpdates
<1> QED BY <1>1, <1>2, <1>3, <1>4, <1>5, <1>6, <1>7, <1>8, <1>9, <1>10, <1>11,
           <1>12, <1>13

\* The steps that record what they read: the answer of the remote, the old
\* value of the ref, the base.
LEMMA FreshRecords ==
  ASSUME IInv, Freshness, NEW p \in Procs,
         \/ OriginalHead(p) \/ OriginalBranch(p) \/ OriginalFingerprint(p)
         \/ Advertise(p) \/ ReadTrackingRef(p)
         \/ PlanFingerprint(p) \/ PlanBase(p) \/ PlanHead(p)
         \/ BuildEvidence(p) \/ ReadEvidence(p)
  PROVE  Freshness'
<1> USE DEF Planned, Holding, OtherSteps, Steps, HookFirst, HookSteps, FirstSteps,
            WithBase, Ended, FreshAt, PathAt, FirstStepsOf, BaseAt, FirstUse
<1>0. /\ FreshAt(p, pc[p]) /\ OthersKept(p) /\ AtStep(p, pc[p])
      /\ ControlOK /\ LocalsOK
  BY OthersAreKept DEF Freshness, IInv, TypeOK, Step
<1>1. ASSUME NEW s \in Steps, Proceed(p, s), UNCHANGED <<repo, shared>>, FreshAt(p, s)'
      PROVE  Freshness'
  BY <1>0, <1>1, FreshProceed DEF Proceed, Goto, shared
<1>2. CASE OriginalHead(p)
  <2>1. FreshAt(p, "origBranch")'
    BY <1>0, <1>2 DEF OriginalHead, Proceed, shared, Fetching
  <2> QED BY <1>1, <1>2, <2>1 DEF OriginalHead
<1>3. CASE OriginalBranch(p)
  <2>1. CASE OnFeatureBranch
    <3>1. FreshAt(p, "origFp")'
      BY <1>0, <1>3, <2>1 DEF OriginalBranch, Proceed, shared, Fetching
    <3> QED BY <1>1, <1>3, <2>1, <3>1 DEF OriginalBranch
  <2>2. CASE ~OnFeatureBranch
    BY <1>3, <2>2, FreshLeave DEF OriginalBranch, Exit
  <2> QED BY <2>1, <2>2
<1>4. CASE OriginalFingerprint(p)
  <2>1. CASE NoForeignWorktree
    <3>1. FreshAt(p, "advertise")'
      BY <1>0, <1>4, <2>1 DEF OriginalFingerprint, Proceed, shared, Fetching
    <3> QED BY <1>1, <1>4, <2>1, <3>1 DEF OriginalFingerprint
  <2>2. CASE ~NoForeignWorktree
    BY <1>4, <2>2, FreshLeave DEF OriginalFingerprint, Exit
  <2> QED BY <2>1, <2>2
<1>5. CASE Advertise(p)
  <2>1. adv'[p].tip = remote[Develop] BY <1>0, <1>5 DEF Advertise, LocalsOK
  <2>2. FreshAt(p, "oldRef")'
    BY <1>0, <1>5, <2>1 DEF Advertise, Proceed, shared, Fetching
  <2> QED BY <1>1, <1>5, <2>2 DEF Advertise
<1>6. CASE ReadTrackingRef(p)
  <2>1. adv'[p].tip = adv[p].tip /\ adv'[p].old = baseRef
    BY <1>0, <1>6 DEF ReadTrackingRef, LocalsOK, HoldsData, AtStep, Advertised
  <2>2. FreshAt(p, "fetch")'
    BY <1>0, <1>6, <2>1 DEF ReadTrackingRef, Proceed, shared, Fetching
  <2> QED BY <1>1, <1>6, <2>2 DEF ReadTrackingRef
<1>7. CASE PlanFingerprint(p)
  <2>1. CASE NoForeignWorktree
    <3>1. FreshAt(p, "planBase")'
      BY <1>0, <1>7, <2>1 DEF PlanFingerprint, Proceed, shared, Fetching
    <3> QED BY <1>1, <1>7, <2>1, <3>1 DEF PlanFingerprint
  <2>2. CASE ~NoForeignWorktree
    BY <1>7, <2>2, FreshLeave DEF PlanFingerprint, Exit
  <2> QED BY <2>1, <2>2
<1>8. CASE PlanBase(p)
  <2>1. chg'[p].base = baseRef
    BY <1>0, <1>8 DEF PlanBase, LocalsOK, AtStep, HoldsData, PartialChanges
  <2>2. FreshAt(p, "planHead")'
    BY <1>0, <1>8, <2>1 DEF PlanBase, Proceed, shared, Fetching
  <2> QED BY <1>1, <1>8, <2>2 DEF PlanBase
<1>9. CASE PlanHead(p)
  <2>1. chg'[p].base = chg[p].base
    BY <1>0, <1>9 DEF PlanHead, LocalsOK, AtStep, HoldsData, PartialChanges
  <2>2. FreshAt(p, "planFpAgain")'
    BY <1>0, <1>9, <2>1 DEF PlanHead, Proceed, shared, Fetching
  <2> QED BY <1>1, <1>9, <2>2 DEF PlanHead
<1>10. CASE BuildEvidence(p)
  <2>1. CASE OnFeatureBranch
    <3>1. FreshAt(p, "truncate")'
      BY <1>0, <1>10, <2>1 DEF BuildEvidence, Proceed, shared, Fetching
    <3> QED BY <1>1, <1>10, <2>1, <3>1 DEF BuildEvidence
  <2>2. CASE ~OnFeatureBranch
    BY <1>10, <2>2, FreshLeave DEF BuildEvidence, Exit
  <2> QED BY <2>1, <2>2
<1>11. CASE ReadEvidence(p)
  <2>1. CASE Readable
    <3>1. phase'[p] = "verify"
      BY <1>0, <1>11, <2>1 DEF ReadEvidence, ControlOK
    <3>2. FreshAt(p, "planFp")'
      BY <1>0, <1>11, <2>1, <3>1 DEF ReadEvidence, Proceed, shared, Fetching
    <3> QED BY <1>1, <1>11, <2>1, <3>2 DEF ReadEvidence
  <2>2. CASE ~Readable
    BY <1>11, <2>2, FreshLeave DEF ReadEvidence, Exit
  <2> QED BY <2>1, <2>2
<1> QED BY <1>2, <1>3, <1>4, <1>5, <1>6, <1>7, <1>8, <1>9, <1>10, <1>11

\* Worktrees, checks, the evidence file, the push and every other end.
LEMMA FreshSteps ==
  ASSUME IInv, Freshness, NEW p \in Procs,
         \/ AddMergeWorktree(p) \/ MergeInWorktree(p) \/ AddCheckWorktree(p)
         \/ ChecksPass(p) \/ ChecksFail(p) \/ ReviewWorkspace(p)
         \/ TruncateEvidence(p) \/ WriteEvidence(p) \/ SendPack(p) \/ Interrupt(p)
  PROVE  Freshness'
<1> USE DEF Planned, Holding, OtherSteps, Steps, HookFirst, HookSteps, FirstSteps,
            WithBase, Ended, FreshAt, PathAt, FirstStepsOf, BaseAt, FirstUse
<1>0. /\ FreshAt(p, pc[p]) /\ OthersKept(p) /\ AtStep(p, pc[p])
      /\ ControlOK /\ LocalsOK
  BY OthersAreKept DEF Freshness, IInv, TypeOK, Step
<1>1. ASSUME NEW s \in Steps, Proceed(p, s), UNCHANGED <<baseRef, remote, locals>>,
             FreshAt(p, s)
      PROVE  Freshness'
  <2>1. FreshAt(p, s)' BY <1>1 DEF Proceed, locals
  <2> QED BY <1>0, <1>1, <2>1, FreshProceed DEF Proceed, Goto
<1>2. CASE AddMergeWorktree(p)
  <2>1. FreshAt(p, "merging") BY <1>0, <1>2 DEF AddMergeWorktree
  <2> QED BY <1>1, <1>2, <2>1 DEF AddMergeWorktree
<1>3. CASE MergeInWorktree(p)
  <2>1. CASE Integration(p) \in Mergeable
    <3>1. FreshAt(p, AfterMerge(p)) /\ AfterMerge(p) \in Steps
      BY <1>0, <1>3 DEF MergeInWorktree, AfterMerge, Fetching
    <3> HIDE DEF FreshAt, Steps
    <3> QED BY <1>1, <1>3, <2>1, <3>1 DEF MergeInWorktree
  <2>2. CASE Integration(p) \notin Mergeable
    BY <1>3, <2>2, FreshLeave DEF MergeInWorktree
  <2> QED BY <2>1, <2>2
<1>4. CASE AddCheckWorktree(p)
  <2>1. FreshAt(p, "checking") BY <1>0, <1>4 DEF AddCheckWorktree
  <2> QED BY <1>1, <1>4, <2>1 DEF AddCheckWorktree
<1>5. CASE ChecksPass(p)
  <2>1. PICK s \in Steps : s = IF cmd[p] = "push-ready" THEN "reclean" ELSE "planFp"
    OBVIOUS
  <2>2. phase'[p] = "second" BY <1>0, <1>5 DEF ChecksPass, ControlOK
  <2>3. cmd[p] # "pre-push" BY <1>0, <1>5 DEF ChecksPass
  <2>4. FreshAt(p, s)' BY <1>0, <1>5, <2>1, <2>2, <2>3 DEF ChecksPass
  <2>5. pc' = [pc EXCEPT ![p] = s] /\ UNCHANGED <<baseRef, remote, seen, late>>
    BY <1>5, <2>1 DEF ChecksPass, Goto
  <2> HIDE DEF FreshAt, Steps
  <2> QED BY <1>0, <2>4, <2>5, FreshProceed
<1>6. CASE ChecksFail(p)
  BY <1>6, FreshLeave DEF ChecksFail
<1>7. CASE ReviewWorkspace(p)
  <2> DEFINE s == IF StatusEmpty THEN "merge" ELSE "reviewFpAgain"
  <2>1. FreshAt(p, s) /\ s \in Steps BY <1>0, <1>7 DEF ReviewWorkspace
  <2>2. Proceed(p, s) /\ UNCHANGED <<baseRef, remote, locals>>
    BY <1>7 DEF ReviewWorkspace, shared
  <2> HIDE DEF FreshAt, Steps, s
  <2> QED BY <1>1, <2>1, <2>2
<1>8. CASE TruncateEvidence(p)
  <2>1. FreshAt(p, "write") BY <1>0, <1>8 DEF TruncateEvidence
  <2> QED BY <1>1, <1>8, <2>1 DEF TruncateEvidence
<1>9. CASE WriteEvidence(p)
  <2>1. FreshAt(p, "read") BY <1>0, <1>9 DEF WriteEvidence
  <2> QED BY <1>1, <1>9, <2>1 DEF WriteEvidence
<1>10. CASE SendPack(p)
  <2>1. CASE remote[upd[p].dst] = upd[p].old
    <3>1. upd[p].dst # Develop
      BY <1>0, <1>10 DEF SendPack, AtStep, HoldsData, InPhase, IsEarned,
             UpdateAuthorised, Documents, Features
    <3>2. remote'[Develop] = remote[Develop]
      BY <1>10, <2>1, <3>1, ConstantsAssumption DEF SendPack, IInv, TypeOK, CloneOK
    <3> QED BY <1>10, <2>1, <3>2, FreshLeave DEF SendPack
  <2>2. CASE remote[upd[p].dst] # upd[p].old
    BY <1>10, <2>2, FreshLeave DEF SendPack, Exit
  <2> QED BY <2>1, <2>2
<1>11. CASE Interrupt(p)
  BY <1>11, FreshLeave DEF Interrupt
<1> QED BY <1>1, <1>2, <1>3, <1>4, <1>5, <1>6, <1>7, <1>8, <1>9, <1>10, <1>11

\* An answer that is stored leaves fresh whoever it does not make late.
LEMMA StoringKeeps ==
  ASSUME NEW tip, NEW q \in Procs, baseRef' = tip, Stores(tip), FreshAt(q, pc[q]),
         remote' = remote, seen' = seen,
         /\ pc'[q] = pc[q] /\ cmd'[q] = cmd[q] /\ phase'[q] = phase[q]
         /\ adv'[q] = adv[q] /\ chg'[q] = chg[q] /\ payload'[q] = payload[q]
  PROVE  FreshAt(q, pc[q])'
<1>1. late \subseteq late' BY DEF Stores
<1>2. q \notin late' /\ WaitsForBase(q) => baseRef' \in seen[q] BY DEF Stores
<1>3. cmd[q] \in Fetching /\ FirstUse(q) /\ q \notin late'
        /\ pc[q] \in {"fetch", "read", "planFp", "planBase"} => baseRef' \in seen[q]
  BY <1>2 DEF WaitsForBase, FirstUse
<1> QED BY <1>1, <1>3 DEF FreshAt, PathAt, FirstStepsOf, BaseAt, FirstUse

\* refresh_authoritative_base: git fetch moves the ref only from the value it
\* saw, and its own answer is one the remote gave after the start of p.
LEMMA FreshFetch ==
  ASSUME IInv, Freshness, NEW p \in Procs, Fetch(p)
  PROVE  Freshness'
<1> USE DEF HookFirst, HookSteps, FirstSteps, WithBase, Planned, Ended
<1>0. /\ ControlOK /\ LocalsOK /\ OthersKept(p) /\ FreshAt(p, "fetch")
      /\ pc[p] = "fetch"
  BY OthersAreKept DEF IInv, TypeOK, Freshness, Step, Fetch
<1>1. CASE ~FetchSucceeds(p)
  BY <1>1, FreshLeave DEF Fetch, Exit
<1>2. CASE FetchSucceeds(p)
  <2>1. PICK s : s = IF cmd[p] = "pre-push" THEN "read" ELSE "planFp"
    OBVIOUS
  <2>2. pc'[p] = s /\ UNCHANGED <<remote, seen, cmd, phase>>
    BY <1>0, <1>2, <2>1 DEF Fetch, AfterFetch, ControlOK, Goto
  <2>3. CASE adv[p].tip = adv[p].old
    <3>1. baseRef' = baseRef /\ late' = late BY <1>2, <2>3 DEF Fetch
    <3>2. FreshAt(p, s)'
      BY <1>0, <2>1, <2>2, <2>3, <3>1
      DEF FreshAt, PathAt, FirstStepsOf, BaseAt, FirstUse, Fetching
    <3>3. FreshAt(p, pc[p])' BY <2>2, <3>2
    <3> QED BY <1>0, <2>2, <3>1, <3>3, FreshFrame
  <2>4. CASE adv[p].tip # adv[p].old
    <3>1. baseRef' = adv[p].tip /\ Stores(adv[p].tip) BY <1>2, <2>4 DEF Fetch
    <3>2. late \subseteq late' BY <3>1 DEF Stores
    <3>3. FreshAt(p, s)'
      BY <1>0, <2>1, <2>2, <3>1, <3>2
      DEF FreshAt, PathAt, FirstStepsOf, BaseAt, FirstUse, Fetching
    <3>4. FreshAt(p, pc[p])' BY <2>2, <3>3
    <3>5. ASSUME NEW q \in Procs \ {p} PROVE FreshAt(q, pc[q])'
      BY <1>0, <2>2, <3>1, StoringKeeps DEF Freshness, OthersKept
    <3> QED BY <3>4, <3>5 DEF Freshness
  <2> QED BY <2>3, <2>4
<1> QED BY <1>1, <1>2

\* The start of a command: it starts from the tip the remote has now.
LEMMA FreshBegin ==
  ASSUME IInv, Freshness, NEW p \in Procs, Begin(p)
  PROVE  Freshness'
<1>0. CloneOK /\ ControlOK /\ LocalsOK /\ HistoryOK BY DEF IInv, TypeOK
<1>1. PICK c \in Commands, u \in Updates \cup {NoValue} : Start(p, c, u)
  BY BeginStarts
<1>2. OthersKept(p)
  BY <1>0, <1>1 DEF ControlOK, LocalsOK, Start, Goto, OthersKept
<1>3. /\ cmd'[p] = c
      /\ c \in Fetching => /\ pc'[p] = "clean" /\ phase'[p] = "first"
                           /\ seen'[p] = {remote[Develop]}
      /\ c = "verify" => pc'[p] = "read"
      /\ c = "review" => pc'[p] = "planFp" /\ phase'[p] = "second"
      /\ UNCHANGED <<baseRef, remote>> /\ late' = late \ {p}
      /\ \A q \in Procs \ {p} : seen'[q] = seen[q]
  BY <1>0, <1>1 DEF ControlOK, HistoryOK, Start, Goto, Fetching
<1>4. c \in Fetching \cup {"verify", "review"}
  BY ConstantsAssumption DEF AllCommands, Fetching
<1>5. FreshAt(p, pc[p])'
  BY <1>3, <1>4
  DEF Fetching, FreshAt, PathAt, FirstStepsOf, BaseAt, FirstUse, HookFirst,
      HookSteps, FirstSteps, WithBase, Planned
<1> QED BY <1>2, <1>3, <1>5, FreshFrame

\* The developer fetches, and the remote's base moves forward.
LEMMA FreshEnvironment ==
  ASSUME IInv, Freshness, Environment
  PROVE  Freshness'
<1>0. CloneOK /\ HistoryOK BY DEF IInv, TypeOK
<1>1. UNCHANGED <<pc, cmd, phase, adv, chg, payload>> BY DEF Environment, locals
<1>2. CASE StoreAnswer /\ answer # baseRef
  <2>1. /\ baseRef' = answer /\ Stores(answer) /\ UNCHANGED <<remote, seen>>
    BY <1>2 DEF StoreAnswer
  <2> QED BY <1>1, <2>1, StoringKeeps DEF Freshness
<1>3. ASSUME UNCHANGED <<baseRef, late>>,
             \A q \in Procs : seen[q] \subseteq seen'[q],
             \A q \in Procs : cmd[q] \in Fetching /\ pc[q] \notin Ended =>
               remote'[Develop] \in seen'[q]
      PROVE  Freshness'
  <2> SUFFICES ASSUME NEW q \in Procs PROVE FreshAt(q, pc[q])'
    BY DEF Freshness
  <2>1. FreshAt(q, pc[q]) BY DEF Freshness
  <2> QED BY <1>1, <1>3, <2>1 DEF FreshAt, PathAt, FirstStepsOf, BaseAt, FirstUse
<1>4. CASE \E c \in Commits : AdvanceBase(c)
  <2>1. PICK c \in Commits : AdvanceBase(c) BY <1>4
  <2>2. remote'[Develop] = c /\ UNCHANGED <<baseRef, late>>
    BY <1>0, <2>1, ConstantsAssumption DEF AdvanceBase, CloneOK
  <2>3. \A q \in Procs : seen'[q] =
          IF Running(q) /\ cmd[q] \in Fetching THEN seen[q] \cup {c} ELSE seen[q]
    BY <2>1 DEF AdvanceBase
  <2> QED BY <1>3, <2>2, <2>3 DEF Running
<1>5. ASSUME UNCHANGED <<baseRef, late, seen>>, remote'[Develop] = remote[Develop]
      PROVE  Freshness'
  BY <1>3, <1>5 DEF Freshness, FreshAt
<1>6. CASE \E f \in Features, c \in Commits \cup {NoCommit} : OtherClone(f, c)
  <2>1. remote'[Develop] = remote[Develop]
    BY <1>0, <1>6, ConstantsAssumption DEF OtherClone, CloneOK, Features
  <2> QED BY <1>5, <1>6, <2>1 DEF OtherClone
<1>7. CASE StoreAnswer /\ answer = baseRef
  BY <1>5, <1>7 DEF StoreAnswer
<1> QED BY <1>2, <1>4, <1>5, <1>6, <1>7 DEF Environment, Move, MoveHead, SwitchBranch,
           EditWork, AskRemote, RemoveLeaked, ExpireEvidence

\* Every step keeps whoever has fetched fresh.
LEMMA FreshKeeps == IInv /\ Freshness /\ [Next]_vars => Freshness'
<1> SUFFICES ASSUME IInv, Freshness, [Next]_vars PROVE Freshness'
  OBVIOUS
<1>1. CASE UNCHANGED vars
  BY <1>1 DEF vars, shared, history, locals, Freshness, FreshAt, PathAt, BaseAt,
              FirstUse
<1>2. ASSUME NEW p \in Procs, Step(p) \/ Interrupt(p) PROVE Freshness'
  BY <1>2, FreshChecks, FreshRecords, FreshFetch, FreshSteps DEF Step
<1> QED BY <1>1, <1>2, FreshBegin, FreshEnvironment DEF Next

\* refresh_authoritative_base: whatever other runs, the developer and the remote
\* do meanwhile, the checks run on, and the hook lets out, a base the remote had
\* after the command started, unless an answer from before its start was stored
\* between its fetch and its read of the base.
THEOREM BaseFreshness == Spec => []BaseIsFresh
<1>1. Init => Freshness
  BY DEF Init, NoCommand, Freshness, FreshAt, Ended
<1>2. IInv /\ Freshness => BaseIsFresh
  <2> SUFFICES ASSUME IInv, Freshness, NEW p \in Procs, p \notin late
               PROVE  ~StandsOnOldBase(p)
    BY DEF BaseIsFresh
  <2>1. FreshAt(p, pc[p]) /\ AtStep(p, pc[p]) BY DEF Freshness, IInv
  <2>2. pc[p] = "authorised" => payload[p].base \in seen[p]
    BY <2>1 DEF FreshAt, BaseAt, FirstUse, AtStep, InPhase, Fetching, Ended
  <2>3. pc[p] = "checking" => cmd[p] \in Fetching /\ phase[p] = "first"
    BY <2>1 DEF FreshAt, PathAt, FirstStepsOf, Fetching, Ended
  <2>4. pc[p] = "checking" => chg[p].base \in seen[p]
    BY <2>1, <2>3 DEF FreshAt, BaseAt, FirstUse, WithBase, Planned, Ended
  <2> QED BY <2>2, <2>4 DEF StandsOnOldBase
<1> QED BY <1>1, <1>2, FreshKeeps, Invariance, PTL DEF Spec

-----------------------------------------------------------------------------
(* Undisturbed, a run is refused only for what it decides.                 *)

\* The document an undisturbed run records: the clone as it is.
Current ==
  [base |-> baseRef, head |-> Head, branch |-> branch, fp |-> Fingerprint,
   integration |-> <<baseRef, Head>>, expired |-> FALSE]

BeforeFetch ==
  {"clean", "origHead", "origBranch", "origFp", "advertise", "oldRef", "fetch"}

\* Everything the gate decides about is in order.
WouldPass == PolicyOf[baseRef] = PolicyOf[Head] /\ <<baseRef, Head>> \in Mergeable
Certified == OnFeatureBranch /\ baseRef = remote[Develop] /\ evidence = Current /\ WouldPass

\* Nobody is in the checkout but p with its own worktree.
Quiet(p, s) ==
  /\ work = Clean /\ ~leaked
  /\ dirs = IF s \in {"merging", "checking"} THEN {p} ELSE {}

\* What p has read is what the clone and the remote still hold.
ReadsAreCurrent(p, s) ==
  /\ s \in {"planBase", "planHead"} \cup Planned => chg[p].fp = Fingerprint
  /\ s \in {"planHead"} \cup Planned => chg[p].base = baseRef
  /\ s \in Planned => chg[p].head = Head
  /\ phase[p] = "verify" => payload[p] = Current
  /\ s \in {"oldRef", "fetch"} => adv[p].tip = remote[Develop]
  /\ s = "fetch" => adv[p].old = baseRef

OriginIsCurrent(p, s) ==
  /\ s # "origHead" => orig[p].head = Head
  /\ s \notin {"origHead", "origBranch"} => orig[p].branch = branch
  /\ s \notin {"origHead", "origBranch", "origFp"} => orig[p].fp = Fingerprint

PhaseOfRun(p, s) ==
  /\ s \in BeforeFetch \cup {"addChecks", "checking"} => phase[p] = "first"
  /\ s \in {"reclean", "reHead", "reBranch", "reFp", "writeFp", "writeBranch",
            "truncate", "write", "read"} => phase[p] = "second"

CalmRun(p, s) ==
  /\ cmd[p] = "push-ready" => PhaseOfRun(p, s)
  /\ cmd[p] = "push-ready" /\ s \notin Ended \cup {"clean"} =>
      /\ Quiet(p, s)
      /\ ReadsAreCurrent(p, s)
      /\ s \notin {"origHead", "origBranch"} => OnFeatureBranch
      /\ s \notin BeforeFetch => baseRef = remote[Develop]
      /\ phase[p] # "verify" => OriginIsCurrent(p, s)
      /\ s \in {"merge", "merging", "addChecks", "checking"} =>
           PolicyOf[baseRef] = PolicyOf[Head]
      /\ s \in {"addChecks", "checking"} \/ phase[p] # "first" => WouldPass
      /\ phase[p] = "second" => integ[p] = <<baseRef, Head>>
      /\ s \in {"truncate", "write"} => payload[p] = Current
      /\ s = "write" => evidence = TornFile
      /\ s = "read" \/ phase[p] = "verify" => evidence = Current

CalmOk(p, s) == cmd[p] = "push-ready" /\ s = "ok" => Quiet(p, s) /\ Certified

CalmHook(p, s) ==
  ready /\ s \notin Ended =>
    /\ cmd[p] = "pre-push"
    /\ Quiet(p, s) /\ Certified /\ ReadsAreCurrent(p, s)
    /\ s \in HookSteps
    /\ s \notin HookFirst => phase[p] = "verify"
    /\ upd[p].old = remote[upd[p].dst]

CalmAt(p, s) == CalmRun(p, s) /\ CalmOk(p, s) /\ CalmHook(p, s)

Calm ==
  /\ ready => calm \in Procs /\ cmd[calm] = "pre-push"
  /\ \A p \in Procs : calm = p => CalmAt(p, pc[p])

\* A refused step of the undisturbed p was a decision about the repository.
Decided(p) ==
  pc'[p] = "refused" =>
    /\ cmd[p] = "push-ready" => pc[p] \in Decisions
    /\ ready => pc[p] = "updates"

\* What is read from an untouched clone does not change.
LEMMA CloneRead ==
  ASSUME UNCHANGED repo
  PROVE  Head' = Head /\ Fingerprint' = Fingerprint /\ OnFeatureBranch' = OnFeatureBranch
         /\ (baseRef' = baseRef => Current' = Current /\ WouldPass' = WouldPass)
BY DEF repo, Head, Fingerprint, OnFeatureBranch, Current, WouldPass

\* A step that only reads leaves an undisturbed run where its next step needs it.
LEMMA CalmReads ==
  ASSUME IInv, NEW p \in Procs, calm = p, NEW s \in Steps, Proceed(p, s),
         UNCHANGED <<repo, shared, locals>>, CalmAt(p, s)
  PROVE  CalmAt(p, pc[p])' /\ Decided(p)
<1>1. pc'[p] = s /\ ready' = ready
  BY DEF IInv, TypeOK, ControlOK, HistoryOK, Proceed, Goto, Undisturbed
<1>2. CalmRun(p, pc[p])'
  BY <1>1, CloneRead DEF CalmAt, CalmRun, PhaseOfRun, Quiet, ReadsAreCurrent, OriginIsCurrent,
                         repo, shared, locals
<1>3. CalmOk(p, pc[p])' /\ CalmHook(p, pc[p])'
  BY <1>1, CloneRead DEF CalmAt, CalmOk, CalmHook, Quiet, Certified,
                         ReadsAreCurrent, repo, shared, locals
<1>4. pc'[p] # "refused" BY <1>1 DEF Steps, Planned, Holding, OtherSteps
<1> QED BY <1>2, <1>3, <1>4 DEF CalmAt, Decided

\* An end that is no success of push-ready leaves nothing to be shown.
LEMMA CalmEnds ==
  ASSUME IInv, NEW p \in Procs, NEW r \in Ended, Leave(p, r),
         r = "ok" => cmd[p] # "push-ready"
  PROVE  CalmAt(p, pc[p])' /\ pc'[p] = r
BY DEF IInv, TypeOK, ControlOK, Leave, Goto, CalmAt, CalmRun, PhaseOfRun,
       CalmOk, CalmHook, Ended, BeforeFetch

\* A check that succeeds, unless it is one that may refuse.
LEMMA CalmRequire ==
  ASSUME IInv, NEW p \in Procs, calm = p, NEW STATE condition, NEW s \in Steps,
         Require(p, condition, s), condition => CalmAt(p, s),
         cmd[p] = "push-ready" /\ pc[p] \notin Decisions => condition,
         ready /\ pc[p] # "updates" => condition
  PROVE  CalmAt(p, pc[p])' /\ Decided(p)
<1>1. CASE condition /\ Proceed(p, s) /\ UNCHANGED <<repo, shared, locals>>
  BY <1>1, CalmReads
<1>2. CASE ~condition /\ Exit(p, "refused")
  BY <1>2, CalmEnds DEF Exit, Ended, Decided
<1> QED BY <1>1, <1>2 DEF Require

\* A check that always passes in an undisturbed run, at each of the steps that
\* compare what they read.
LEMMA CalmChecks ==
  ASSUME IInv, NEW p \in Procs, calm = p, CalmAt(p, pc[p]),
         \/ RequireCleanHead(p) \/ PlanFingerprintAgain(p) \/ PlanScan(p)
         \/ RequireTrustedCheckPolicy(p)
         \/ RequireCleanAgain(p) \/ SameHead(p) \/ SameBranch(p)
         \/ SameFingerprint(p) \/ ReviewFingerprint(p) \/ ReviewWorkspace(p)
         \/ ReviewFingerprintAgain(p) \/ WriteFingerprint(p)
         \/ CompareEvidence(p) \/ VerifyPrePushUpdates(p)
  PROVE  CalmAt(p, pc[p])' /\ Decided(p)
<1> USE DEF CalmAt, CalmRun, PhaseOfRun, CalmOk, CalmHook, Quiet, ReadsAreCurrent, Ended,
            Planned, Holding, OtherSteps, Steps, BeforeFetch, HookFirst, HookSteps, Decisions
<1>0. AtStep(p, pc[p]) BY DEF IInv
<1>1. CASE RequireCleanHead(p)
  <2>1. StatusEmpty => CalmAt(p, AfterClean(p))
    BY <1>1 DEF RequireCleanHead, AfterClean, StatusEmpty, NoForeignWorktree,
                OriginIsCurrent
  <2>2. ready => StatusEmpty
    BY <1>1 DEF RequireCleanHead, StatusEmpty, NoForeignWorktree
  <2>3. AfterClean(p) \in Steps BY DEF AfterClean
  <2> HIDE DEF CalmAt
  <2> QED BY <1>1, <2>1, <2>2, <2>3, CalmRequire DEF RequireCleanHead
<1>2. CASE PlanFingerprintAgain(p)
  <2> DEFINE s == IF phase[p] = "first" THEN "policy" ELSE "planScan"
  <2>1. s \in Steps /\ CalmAt(p, s)
    BY <1>2 DEF PlanFingerprintAgain, OriginIsCurrent
  <2>2. cmd[p] = "push-ready" \/ ready => SameTree(chg[p].fp)
    BY <1>2 DEF PlanFingerprintAgain, SameTree, NoForeignWorktree
  <2> HIDE DEF s, CalmAt
  <2>3. Require(p, SameTree(chg[p].fp), s) BY <1>2 DEF PlanFingerprintAgain, s
  <2> QED BY <2>1, <2>2, <2>3, CalmRequire
<1>3. CASE PlanScan(p)
  <2>1. CASE AfterPlan(p) # "ok" /\ Require(p, SameTree(chg[p].fp), AfterPlan(p))
    <3>1. AfterPlan(p) \in Steps /\ CalmAt(p, AfterPlan(p))
      BY <1>3, <2>1 DEF PlanScan, AfterPlan, OriginIsCurrent
    <3>2. cmd[p] = "push-ready" \/ ready => SameTree(chg[p].fp)
      BY <1>3 DEF PlanScan, SameTree, NoForeignWorktree
    <3> HIDE DEF CalmAt
    <3> QED BY <2>1, <3>1, <3>2, CalmRequire
  <2>2. CASE AfterPlan(p) = "ok" /\ Exit(p, IF SameTree(chg[p].fp) THEN "ok" ELSE "refused")
    <3>1. cmd[p] = "validate" BY <2>2 DEF AfterPlan
    <3>2. ~ready BY <1>3, <2>2, <3>1 DEF AfterPlan, PlanScan
    <3> HIDE DEF CalmAt
    <3> QED BY <2>2, <3>1, <3>2, CalmEnds DEF Exit, Decided
  <2> QED BY <1>3, <2>1, <2>2 DEF PlanScan
<1>4. CASE RequireTrustedCheckPolicy(p)
  <2>1. PolicyOf[chg[p].base] = PolicyOf[chg[p].head] => CalmAt(p, "merge")
    BY <1>4 DEF RequireTrustedCheckPolicy, OriginIsCurrent
  <2>2. ready => PolicyOf[chg[p].base] = PolicyOf[chg[p].head]
    BY <1>4 DEF RequireTrustedCheckPolicy, Certified, WouldPass
  <2> HIDE DEF CalmAt
  <2> QED BY <1>4, <2>1, <2>2, CalmRequire DEF RequireTrustedCheckPolicy
<1>5. CASE RequireCleanAgain(p)
  <2>1. CalmAt(p, "reHead") /\ ~ready
    BY <1>5 DEF RequireCleanAgain, OriginIsCurrent
  <2>2. cmd[p] = "push-ready" => StatusEmpty
    BY <1>5 DEF RequireCleanAgain, StatusEmpty, NoForeignWorktree
  <2> HIDE DEF CalmAt
  <2> QED BY <1>5, <2>1, <2>2, CalmRequire DEF RequireCleanAgain
<1>6. CASE SameHead(p) \/ SameBranch(p) \/ SameFingerprint(p)
  <2>0. ~ready BY <1>6 DEF SameHead, SameBranch, SameFingerprint
  <2>1. CASE SameHead(p)
    <3>1. CalmAt(p, "reBranch") /\ (cmd[p] = "push-ready" => Head = orig[p].head)
      BY <2>0, <2>1 DEF SameHead, OriginIsCurrent
    <3> HIDE DEF CalmAt
    <3> QED BY <2>0, <2>1, <3>1, CalmRequire DEF SameHead
  <2>2. CASE SameBranch(p)
    <3>1. CalmAt(p, "reFp")
          /\ (cmd[p] = "push-ready" => OnFeatureBranch /\ branch = orig[p].branch)
      BY <2>0, <2>2 DEF SameBranch, OriginIsCurrent
    <3> HIDE DEF CalmAt
    <3> QED BY <2>0, <2>2, <3>1, CalmRequire DEF SameBranch
  <2>3. CASE SameFingerprint(p)
    <3>1. CalmAt(p, "planFp") /\ (cmd[p] = "push-ready" => SameTree(orig[p].fp))
      BY <2>0, <2>3 DEF SameFingerprint, OriginIsCurrent, SameTree, NoForeignWorktree
    <3> HIDE DEF CalmAt
    <3> QED BY <2>0, <2>3, <3>1, CalmRequire DEF SameFingerprint
  <2> QED BY <1>6, <2>1, <2>2, <2>3
<1>7. CASE ReviewFingerprint(p) \/ WriteFingerprint(p)
  <2>1. CalmAt(p, "reviewStatus") /\ CalmAt(p, "writeBranch")
        /\ (cmd[p] = "push-ready" => SameTree(chg[p].fp)) /\ ~ready
    BY <1>0, <1>7
    DEF ReviewFingerprint, WriteFingerprint, OriginIsCurrent, SameTree,
        NoForeignWorktree, AtStep, InPhase
  <2> HIDE DEF CalmAt
  <2> QED BY <1>7, <2>1, CalmRequire DEF ReviewFingerprint, WriteFingerprint
<1>8. CASE ReviewWorkspace(p)
  <2> DEFINE s == IF StatusEmpty THEN "merge" ELSE "reviewFpAgain"
  <2>1. s \in Steps /\ CalmAt(p, s)
    BY <1>0, <1>8
    DEF ReviewWorkspace, OriginIsCurrent, AtStep, InPhase, StatusEmpty,
        NoForeignWorktree, WouldPass
  <2> HIDE DEF s, CalmAt
  <2>2. Proceed(p, s) BY <1>8 DEF ReviewWorkspace, s
  <2> QED BY <1>8, <2>1, <2>2, CalmReads DEF ReviewWorkspace
<1>9. CASE ReviewFingerprintAgain(p)
  <2>0. ~ready BY <1>9 DEF ReviewFingerprintAgain
  <2>1. CASE cmd[p] = "push-ready" /\ Require(p, SameTree(chg[p].fp), "writeFp")
    <3>1. CalmAt(p, "writeFp") /\ SameTree(chg[p].fp)
      BY <1>0, <1>9, <2>0, <2>1
      DEF ReviewFingerprintAgain, OriginIsCurrent, SameTree, NoForeignWorktree,
          AtStep, InPhase
    <3> HIDE DEF CalmAt
    <3> QED BY <2>0, <2>1, <3>1, CalmRequire
  <2>2. CASE cmd[p] # "push-ready" /\ Exit(p, IF SameTree(chg[p].fp) THEN "ok" ELSE "refused")
    <3> HIDE DEF CalmAt
    <3> QED BY <2>0, <2>2, CalmEnds DEF Exit, Decided
  <2> QED BY <1>9, <2>1, <2>2 DEF ReviewFingerprintAgain
<1>10. CASE CompareEvidence(p)
  <2>0. phase[p] = "verify" BY <1>0, <1>10 DEF AtStep, InPhase, CompareEvidence
  <2>1. cmd[p] = "push-ready" \/ ready => EvidenceMatches(p)
    BY <1>10, <2>0
    DEF CompareEvidence, EvidenceMatches, Current, Certified, Integration
  <2>2. CASE cmd[p] = "pre-push" /\ Require(p, EvidenceMatches(p), "updates")
    <3>1. CalmAt(p, "updates") BY <1>10, <2>0, <2>2 DEF CompareEvidence
    <3> HIDE DEF CalmAt
    <3> QED BY <2>1, <2>2, <3>1, CalmRequire
  <2>3. CASE cmd[p] # "pre-push" /\ Exit(p, IF EvidenceMatches(p) THEN "ok" ELSE "refused")
    <3>1. CASE cmd[p] = "push-ready"
      <4>1. Quiet(p, "ok") /\ Certified
        BY <1>10, <2>0, <3>1 DEF CompareEvidence, Certified
      <4>2. Leave(p, "ok") /\ UNCHANGED <<remote, dirs, leaked>>
        BY <2>1, <2>3, <3>1 DEF Exit
      <4>3. pc'[p] = "ok" BY <4>2 DEF IInv, TypeOK, ControlOK, Leave, Goto
      <4>4. UNCHANGED <<repo, baseRef, evidence>> BY <4>2 DEF Leave
      <4>5. (Quiet(p, "ok") /\ Certified)'
        BY <4>1, <4>2, <4>4, CloneRead DEF Certified, repo
      <4> QED BY <4>3, <4>5 DEF Decided
    <3>2. CASE cmd[p] # "push-ready"
      <4>1. ~ready \/ EvidenceMatches(p) BY <2>1
      <4> HIDE DEF CalmAt
      <4> QED BY <2>3, <3>2, <4>1, CalmEnds DEF Exit, Decided
    <3> QED BY <3>1, <3>2
  <2> QED BY <1>10, <2>2, <2>3 DEF CompareEvidence
<1>11. CASE VerifyPrePushUpdates(p)
  <2>0. cmd[p] = "pre-push" /\ phase[p] = "verify"
    BY <1>0, <1>11 DEF AtStep, InPhase, VerifyPrePushUpdates
  <2>1. CalmAt(p, "authorised") BY <1>11, <2>0 DEF VerifyPrePushUpdates
  <2> HIDE DEF CalmAt
  <2> QED BY <1>11, <2>0, <2>1, CalmRequire DEF VerifyPrePushUpdates
<1> QED BY <1>1, <1>2, <1>3, <1>4, <1>5, <1>6, <1>7, <1>8, <1>9, <1>10, <1>11

\* Recording what was read: a process that undisturbed reads HEAD, the branch,
\* the tree, the base and the remote holds what they still are.
LEMMA CalmRecords ==
  ASSUME IInv, NEW p \in Procs, calm = p, CalmAt(p, pc[p]),
         \/ OriginalHead(p) \/ OriginalBranch(p) \/ OriginalFingerprint(p)
         \/ Advertise(p) \/ ReadTrackingRef(p) \/ Fetch(p)
         \/ PlanFingerprint(p) \/ PlanBase(p) \/ PlanHead(p)
  PROVE  CalmAt(p, pc[p])' /\ Decided(p)
<1> USE DEF Ended, Planned, Holding, OtherSteps, Steps, BeforeFetch, HookFirst, HookSteps,
            PhaseOfRun, Decisions
<1>0. /\ AtStep(p, pc[p]) /\ CloneOK /\ ControlOK /\ LocalsOK /\ HistoryOK
      /\ CalmRun(p, pc[p]) /\ CalmHook(p, pc[p])
  BY DEF IInv, TypeOK, CalmAt
<1>11. ASSUME NEW s \in Steps \ {"clean"}, Goto(p, s), Undisturbed(p), cmd' = cmd,
              cmd[p] = "push-ready" => CalmRun(p, s)', ready => CalmHook(p, s)'
       PROVE  CalmAt(p, pc[p])' /\ Decided(p)
  <2>1. pc'[p] = s /\ ready' = ready
    BY <1>0, <1>11 DEF ControlOK, HistoryOK, Goto, Undisturbed
  <2>2. CalmRun(p, pc[p])' BY <1>11, <2>1 DEF CalmRun
  <2>3. CalmOk(p, pc[p])' BY <2>1 DEF CalmOk
  <2>4. CalmHook(p, pc[p])' BY <1>11, <2>1 DEF CalmHook
  <2> QED BY <2>1, <2>2, <2>3, <2>4 DEF CalmAt, Decided
<1>1. ASSUME NEW s \in Steps \ {"clean"}, Proceed(p, s), cmd' = cmd,
             cmd[p] = "push-ready" => CalmRun(p, s)', ready => CalmHook(p, s)'
      PROVE  CalmAt(p, pc[p])' /\ Decided(p)
  BY <1>1, <1>11 DEF Proceed
<1>2. CASE OriginalHead(p)
  <2>1. ~ready BY <1>0, <1>2 DEF OriginalHead, CalmHook
  <2>2. orig'[p].head = Head BY <1>0, <1>2 DEF OriginalHead, LocalsOK
  <2>3. cmd[p] = "push-ready" => CalmRun(p, "origBranch")'
    BY <1>0, <1>2, <2>2, CloneRead
    DEF OriginalHead, CalmRun, Quiet, ReadsAreCurrent, OriginIsCurrent, shared, repo
  <2> QED BY <1>1, <1>2, <2>1, <2>3 DEF OriginalHead
<1>3. CASE OriginalBranch(p)
  <2>0. ~ready BY <1>0, <1>3 DEF OriginalBranch, CalmHook
  <2>1. CASE OnFeatureBranch
    <3>1. orig'[p].head = orig[p].head /\ orig'[p].branch = branch
      BY <1>0, <1>3, <2>1 DEF OriginalBranch, LocalsOK, AtStep, HoldsData, Originals
    <3>2. cmd[p] = "push-ready" => CalmRun(p, "origFp")'
      BY <1>0, <1>3, <2>1, <3>1, CloneRead
      DEF OriginalBranch, CalmRun, Quiet, ReadsAreCurrent, OriginIsCurrent, shared, repo
    <3> QED BY <1>1, <1>3, <2>0, <2>1, <3>2 DEF OriginalBranch
  <2>2. CASE ~OnFeatureBranch
    BY <1>3, <2>0, <2>2, CalmEnds DEF OriginalBranch, Exit, Decided
  <2> QED BY <2>1, <2>2
<1>4. CASE OriginalFingerprint(p)
  <2>0. ~ready BY <1>0, <1>4 DEF OriginalFingerprint, CalmHook
  <2>1. CASE NoForeignWorktree
    <3>1. orig'[p].head = orig[p].head /\ orig'[p].branch = orig[p].branch
          /\ orig'[p].fp = Fingerprint
      BY <1>0, <1>4, <2>1 DEF OriginalFingerprint, LocalsOK, AtStep, HoldsData, Originals
    <3>2. cmd[p] = "push-ready" => CalmRun(p, "advertise")'
      BY <1>0, <1>4, <2>1, <3>1, CloneRead
      DEF OriginalFingerprint, CalmRun, Quiet, ReadsAreCurrent, OriginIsCurrent, shared, repo
    <3> QED BY <1>1, <1>4, <2>0, <2>1, <3>2 DEF OriginalFingerprint
  <2>2. CASE ~NoForeignWorktree
    <3>1. cmd[p] # "push-ready"
      BY <1>0, <1>4, <2>2 DEF OriginalFingerprint, CalmRun, Quiet, NoForeignWorktree
    <3> QED BY <1>4, <2>0, <2>2, <3>1, CalmEnds DEF OriginalFingerprint, Exit, Decided
  <2> QED BY <2>1, <2>2
<1>5. CASE Advertise(p)
  <2>1. adv'[p].tip = remote[Develop]
    BY <1>0, <1>5 DEF Advertise, LocalsOK
  <2>2. cmd[p] = "push-ready" => CalmRun(p, "oldRef")'
    BY <1>0, <1>5, <2>1, CloneRead
    DEF Advertise, CalmRun, Quiet, ReadsAreCurrent, OriginIsCurrent, shared, repo
  <2>3. ready => CalmHook(p, "oldRef")'
    BY <1>0, <1>5, <2>1, CloneRead
    DEF Advertise, CalmHook, Quiet, Certified, ReadsAreCurrent, shared, repo
  <2> QED BY <1>1, <1>5, <2>2, <2>3 DEF Advertise
<1>10. CASE ReadTrackingRef(p)
  <2>1. adv'[p].tip = adv[p].tip /\ adv'[p].old = baseRef
    BY <1>0, <1>10 DEF ReadTrackingRef, LocalsOK, AtStep, HoldsData, Advertised
  <2>2. cmd[p] = "push-ready" => CalmRun(p, "fetch")'
    BY <1>0, <1>10, <2>1, CloneRead
    DEF ReadTrackingRef, CalmRun, Quiet, ReadsAreCurrent, OriginIsCurrent, shared, repo
  <2>3. ready => CalmHook(p, "fetch")'
    BY <1>0, <1>10, <2>1, CloneRead
    DEF ReadTrackingRef, CalmHook, Quiet, Certified, ReadsAreCurrent, shared, repo
  <2> QED BY <1>1, <1>10, <2>2, <2>3 DEF ReadTrackingRef
<1>6. CASE Fetch(p)
  <2>1. CASE FetchSucceeds(p)
    <3>1. cmd[p] = "push-ready" \/ ready => baseRef' = remote[Develop]
      BY <1>0, <1>6, <2>1 DEF Fetch, CalmRun, CalmHook, ReadsAreCurrent
    <3>2. cmd[p] = "push-ready" => CalmRun(p, "planFp")'
      BY <1>0, <1>6, <2>1, <3>1, CloneRead
      DEF Fetch, CalmRun, Quiet, ReadsAreCurrent, OriginIsCurrent, repo
    <3>3. ready => CalmHook(p, "read")'
      <4>1. ready => baseRef' = baseRef BY <1>0, <1>6, <3>1 DEF CalmHook, Certified, Fetch
      <4> QED BY <1>0, <1>6, <2>1, <4>1, CloneRead
          DEF Fetch, CalmHook, Quiet, Certified, ReadsAreCurrent, repo
    <3>4. cmd[p] = "push-ready" => AfterFetch(p) = "planFp" BY DEF AfterFetch
    <3>5. ready => AfterFetch(p) = "read" BY <1>0, <1>6 DEF AfterFetch, CalmHook, Fetch
    <3>6. AfterFetch(p) \in Steps \ {"clean"} BY DEF AfterFetch
    <3> QED BY <1>11, <1>6, <2>1, <3>2, <3>3, <3>4, <3>5, <3>6 DEF Fetch
  <2>2. CASE ~FetchSucceeds(p)
    <3>1. cmd[p] # "push-ready" /\ ~ready
      BY <1>0, <1>6, <2>2 DEF Fetch, FetchSucceeds, CalmRun, CalmHook, ReadsAreCurrent
    <3> QED BY <1>6, <2>2, <3>1, CalmEnds DEF Fetch, Exit, Decided
  <2> QED BY <2>1, <2>2
<1>7. CASE PlanFingerprint(p)
  <2>1. CASE NoForeignWorktree
    <3>1. chg'[p].fp = Fingerprint
      BY <1>0, <1>7, <2>1 DEF PlanFingerprint, LocalsOK
    <3>2. cmd[p] = "push-ready" => CalmRun(p, "planBase")'
      BY <1>0, <1>7, <2>1, <3>1, CloneRead
      DEF PlanFingerprint, CalmRun, Quiet, ReadsAreCurrent, OriginIsCurrent, shared, repo
    <3>3. ready => CalmHook(p, "planBase")'
      BY <1>0, <1>7, <2>1, <3>1, CloneRead
      DEF PlanFingerprint, CalmHook, Quiet, Certified, ReadsAreCurrent, shared, repo
    <3> QED BY <1>1, <1>7, <2>1, <3>2, <3>3 DEF PlanFingerprint
  <2>2. CASE ~NoForeignWorktree
    <3>1. cmd[p] # "push-ready" /\ ~ready
      BY <1>0, <1>7, <2>2
      DEF PlanFingerprint, CalmRun, CalmHook, Quiet, NoForeignWorktree
    <3> QED BY <1>7, <2>2, <3>1, CalmEnds DEF PlanFingerprint, Exit, Decided
  <2> QED BY <2>1, <2>2
<1>8. CASE PlanBase(p)
  <2>1. chg'[p].fp = chg[p].fp /\ chg'[p].base = baseRef
    BY <1>0, <1>8 DEF PlanBase, LocalsOK, AtStep, HoldsData, PartialChanges
  <2>2. cmd[p] = "push-ready" => CalmRun(p, "planHead")'
    BY <1>0, <1>8, <2>1, CloneRead
    DEF PlanBase, CalmRun, Quiet, ReadsAreCurrent, OriginIsCurrent, shared, repo
  <2>3. ready => CalmHook(p, "planHead")'
    BY <1>0, <1>8, <2>1, CloneRead
    DEF PlanBase, CalmHook, Quiet, Certified, ReadsAreCurrent, shared, repo
  <2> QED BY <1>1, <1>8, <2>2, <2>3 DEF PlanBase
<1>9. CASE PlanHead(p)
  <2>1. chg'[p].fp = chg[p].fp /\ chg'[p].base = chg[p].base /\ chg'[p].head = Head
    BY <1>0, <1>9 DEF PlanHead, LocalsOK, AtStep, HoldsData, PartialChanges
  <2>2. cmd[p] = "push-ready" => CalmRun(p, "planFpAgain")'
    BY <1>0, <1>9, <2>1, CloneRead
    DEF PlanHead, CalmRun, Quiet, ReadsAreCurrent, OriginIsCurrent, shared, repo
  <2>3. ready => CalmHook(p, "planFpAgain")'
    BY <1>0, <1>9, <2>1, CloneRead
    DEF PlanHead, CalmHook, Quiet, Certified, ReadsAreCurrent, shared, repo
  <2> QED BY <1>1, <1>9, <2>2, <2>3 DEF PlanHead
<1> QED BY <1>2, <1>3, <1>4, <1>5, <1>6, <1>7, <1>8, <1>9, <1>10

\* expected_integration_tree and execute_integration_checks, undisturbed: the
\* worktree in the checkout is the run's own, and it is gone afterwards.
LEMMA CalmWorktrees ==
  ASSUME IInv, NEW p \in Procs, calm = p, CalmAt(p, pc[p]),
         \/ AddMergeWorktree(p) \/ MergeInWorktree(p) \/ AddCheckWorktree(p)
         \/ ChecksPass(p) \/ ChecksFail(p)
  PROVE  CalmAt(p, pc[p])' /\ Decided(p)
<1> USE DEF Ended, Planned, Holding, OtherSteps, Steps, BeforeFetch, HookFirst, HookSteps,
            PhaseOfRun, Decisions
<1>0. /\ AtStep(p, pc[p]) /\ CloneOK /\ ControlOK /\ LocalsOK /\ HistoryOK
      /\ CalmRun(p, pc[p]) /\ CalmHook(p, pc[p])
  BY DEF IInv, TypeOK, CalmAt
<1>1. ASSUME NEW s \in Steps \ {"clean"}, Proceed(p, s),
             UNCHANGED <<repo, baseRef, remote, leaked, evidence, locals>>,
             cmd[p] = "push-ready" => CalmRun(p, s)', ready => CalmHook(p, s)'
      PROVE  CalmAt(p, pc[p])' /\ Decided(p)
  <2>1. pc'[p] = s /\ ready' = ready /\ cmd' = cmd
    BY <1>0, <1>1 DEF ControlOK, HistoryOK, Proceed, Goto, Undisturbed, locals
  <2>2. CalmRun(p, pc[p])' BY <1>1, <2>1 DEF CalmRun
  <2>3. CalmOk(p, pc[p])' BY <2>1 DEF CalmOk
  <2>4. CalmHook(p, pc[p])' BY <1>1, <2>1 DEF CalmHook
  <2> QED BY <2>1, <2>2, <2>3, <2>4 DEF CalmAt, Decided
<1>2. CASE AddMergeWorktree(p)
  <2>1. cmd[p] = "push-ready" => CalmRun(p, "merging")'
    BY <1>0, <1>2, CloneRead
    DEF AddMergeWorktree, CalmRun, Quiet, ReadsAreCurrent, OriginIsCurrent, locals, repo
  <2>2. ready => CalmHook(p, "merging")'
    BY <1>0, <1>2, CloneRead
    DEF AddMergeWorktree, CalmHook, Quiet, Certified, ReadsAreCurrent, locals, repo
  <2> QED BY <1>1, <1>2, <2>1, <2>2 DEF AddMergeWorktree
<1>3. CASE MergeInWorktree(p)
  <2>1. CASE Integration(p) \in Mergeable
    <3>0. cmd[p] = "push-ready" \/ ready => dirs' = {}
      BY <1>0, <1>3 DEF MergeInWorktree, RemoveWorktree, CalmRun, CalmHook, Quiet
    <3>1. cmd[p] = "push-ready" => CalmRun(p, AfterMerge(p))'
      <4>1. cmd[p] = "push-ready" => WouldPass
        BY <1>0, <1>3, <2>1
        DEF MergeInWorktree, CalmRun, ReadsAreCurrent, WouldPass, Integration
      <4>2. AfterMerge(p) \in {"addChecks", "reviewFpAgain", "compare"}
        BY DEF AfterMerge
      <4>3. AfterMerge(p)' = AfterMerge(p)
        BY <1>3, <2>1 DEF MergeInWorktree, AfterMerge, locals
      <4>4. AfterMerge(p) = "addChecks" => phase[p] = "first"
        BY <1>0 DEF AfterMerge, ControlOK
      <4>5. ASSUME NEW s \in {"addChecks", "reviewFpAgain", "compare"}, cmd[p] = "push-ready",
                   s = "addChecks" => phase[p] = "first"
            PROVE  CalmRun(p, s)'
        <5>1. pc[p] = "merging"
              /\ UNCHANGED <<repo, baseRef, remote, leaked, evidence, locals>>
          BY <1>3, <2>1 DEF MergeInWorktree
        <5>2. WouldPass' /\ dirs' = {} BY <3>0, <4>1, <4>5, <5>1, CloneRead
        <5>3. s # "fetch" /\ s \notin Ended \cup BeforeFetch OBVIOUS
        <5>4. ReadsAreCurrent(p, s)' /\ Quiet(p, s)'
          BY <1>0, <4>5, <5>1, <5>2, <5>3, CloneRead
          DEF CalmRun, Quiet, ReadsAreCurrent, locals, repo
        <5>5. phase[p] # "verify" => OriginIsCurrent(p, s)'
          BY <1>0, <4>5, <5>1, <5>3, CloneRead
          DEF CalmRun, OriginIsCurrent, locals, repo
        <5>6. WouldPass' => (PolicyOf[baseRef] = PolicyOf[Head])' BY DEF WouldPass
        <5>7. cmd'[p] = "push-ready" /\ phase' = phase /\ integ' = integ /\ payload' = payload
          BY <4>5, <5>1 DEF locals
        <5> QED
          BY <1>0, <4>4, <4>5, <5>1, <5>2, <5>4, <5>5, <5>6, <5>7, CloneRead DEF CalmRun
      <4> QED BY <4>2, <4>3, <4>4, <4>5
    <3>2. ready => AfterMerge(p) = "compare"
      BY <1>0, <1>3 DEF MergeInWorktree, CalmHook, AfterMerge
    <3>3. ready => CalmHook(p, "compare")'
      BY <1>0, <1>3, <2>1, <3>0, CloneRead
      DEF MergeInWorktree, CalmHook, Quiet, Certified, ReadsAreCurrent, locals, repo
    <3>4. AfterMerge(p) \in Steps \ {"clean"} BY DEF AfterMerge
    <3>5. AfterMerge(p)' = AfterMerge(p)
      BY <1>3, <2>1 DEF MergeInWorktree, AfterMerge, locals
    <3> QED BY <1>1, <1>3, <2>1, <3>1, <3>2, <3>3, <3>4, <3>5 DEF MergeInWorktree
  <2>2. CASE Integration(p) \notin Mergeable
    <3>1. ~ready
      BY <1>0, <1>3, <2>2
      DEF MergeInWorktree, CalmHook, ReadsAreCurrent, Certified, WouldPass, Integration
    <3> QED BY <1>3, <2>2, <3>1, CalmEnds DEF MergeInWorktree, Decided
  <2> QED BY <2>1, <2>2
<1>4. CASE AddCheckWorktree(p)
  <2>1. cmd[p] = "push-ready" => CalmRun(p, "checking")'
    BY <1>0, <1>4, CloneRead
    DEF AddCheckWorktree, CalmRun, Quiet, ReadsAreCurrent, OriginIsCurrent, locals, repo
  <2>2. ~ready BY <1>0, <1>4 DEF AddCheckWorktree, CalmHook
  <2> QED BY <1>1, <1>4, <2>1, <2>2 DEF AddCheckWorktree
<1>5. CASE ChecksPass(p)
  <2>1. ~ready BY <1>0, <1>5 DEF ChecksPass, CalmHook
  <2>2. ~ready' BY <2>1, <1>5 DEF ChecksPass, Undisturbed
  <2>3. pc'[p] = (IF cmd[p] = "push-ready" THEN "reclean" ELSE "planFp")
        /\ cmd' = cmd /\ phase'[p] = "second" /\ integ'[p] = Integration(p)
    BY <1>0, <1>5 DEF ChecksPass, ControlOK, LocalsOK, Goto
  <2>4. cmd[p] = "push-ready" => CalmRun(p, "reclean")'
    <3> SUFFICES ASSUME cmd[p] = "push-ready" PROVE CalmRun(p, "reclean")'
      OBVIOUS
    <3>1. phase[p] # "verify" => OriginIsCurrent(p, "reclean")'
      BY <1>0, <1>5, CloneRead DEF ChecksPass, CalmRun, OriginIsCurrent, repo
    <3>2. Quiet(p, "reclean")'
      BY <1>0, <1>5 DEF ChecksPass, CalmRun, Quiet, repo, RemoveWorktree
    <3>3. Integration(p) = <<baseRef, Head>> /\ WouldPass /\ OnFeatureBranch
          /\ baseRef = remote[Develop]
      BY <1>0, <1>5 DEF ChecksPass, CalmRun, ReadsAreCurrent, Integration
    <3>4. UNCHANGED <<repo, baseRef, remote>> BY <1>5 DEF ChecksPass
    <3>5. ReadsAreCurrent(p, "reclean")' BY <2>3 DEF ReadsAreCurrent
    <3>6. phase[p] # "verify" BY <1>0, <1>5 DEF ChecksPass, CalmRun
    <3> QED BY <2>3, <3>1, <3>2, <3>3, <3>4, <3>5, <3>6, CloneRead DEF CalmRun
  <2>5. CalmRun(p, pc[p])' BY <2>3, <2>4 DEF CalmRun
  <2> QED BY <2>2, <2>3, <2>5 DEF CalmAt, CalmOk, CalmHook, Decided
<1>6. CASE ChecksFail(p)
  <2>1. ~ready BY <1>0, <1>6 DEF ChecksFail, CalmHook
  <2> QED BY <1>6, <2>1, CalmEnds DEF ChecksFail, Decided
<1> QED BY <1>2, <1>3, <1>4, <1>5, <1>6

\* write_evidence, verify_evidence and the push, undisturbed.
LEMMA CalmEvidence ==
  ASSUME IInv, NEW p \in Procs, calm = p, CalmAt(p, pc[p]),
         \/ BuildEvidence(p) \/ TruncateEvidence(p) \/ WriteEvidence(p)
         \/ ReadEvidence(p) \/ SendPack(p) \/ Interrupt(p)
  PROVE  CalmAt(p, pc[p])' /\ Decided(p)
<1> USE DEF Ended, Planned, Holding, OtherSteps, Steps, BeforeFetch, HookFirst, HookSteps,
            PhaseOfRun, Decisions
<1>0. /\ AtStep(p, pc[p]) /\ CloneOK /\ ControlOK /\ LocalsOK /\ HistoryOK
      /\ CalmRun(p, pc[p]) /\ CalmHook(p, pc[p])
  BY DEF IInv, TypeOK, CalmAt
<1>1. ASSUME NEW s \in Steps \ {"clean"}, Proceed(p, s), cmd' = cmd,
             cmd[p] = "push-ready" => CalmRun(p, s)', ready => CalmHook(p, s)'
      PROVE  CalmAt(p, pc[p])' /\ Decided(p)
  <2>1. pc'[p] = s /\ ready' = ready
    BY <1>0, <1>1 DEF ControlOK, HistoryOK, Proceed, Goto, Undisturbed
  <2>2. CalmRun(p, pc[p])' BY <1>1, <2>1 DEF CalmRun
  <2>3. CalmOk(p, pc[p])' BY <2>1 DEF CalmOk
  <2>4. CalmHook(p, pc[p])' BY <1>1, <2>1 DEF CalmHook
  <2> QED BY <2>1, <2>2, <2>3, <2>4 DEF CalmAt, Decided
<1>2. CASE BuildEvidence(p)
  <2>0. ~ready BY <1>0, <1>2 DEF BuildEvidence, CalmHook
  <2>1. CASE OnFeatureBranch
    <3>1. cmd[p] = "push-ready" => payload'[p] = Current
      BY <1>0, <1>2, <2>1
      DEF BuildEvidence, CalmRun, ReadsAreCurrent, Current, LocalsOK, CheckedIntegration
    <3>2. cmd[p] = "push-ready" => CalmRun(p, "truncate")'
      BY <1>0, <1>2, <2>1, <3>1, CloneRead
      DEF BuildEvidence, CalmRun, Quiet, ReadsAreCurrent, OriginIsCurrent, shared, repo
    <3> QED BY <1>1, <1>2, <2>0, <2>1, <3>2 DEF BuildEvidence
  <2>2. CASE ~OnFeatureBranch
    <3>1. cmd[p] # "push-ready" BY <1>0, <1>2, <2>2 DEF BuildEvidence, CalmRun
    <3> QED BY <1>2, <2>0, <2>2, <3>1, CalmEnds DEF BuildEvidence, Exit, Decided
  <2> QED BY <2>1, <2>2
<1>3. CASE TruncateEvidence(p)
  <2>0. ~ready /\ cmd' = cmd BY <1>0, <1>3 DEF TruncateEvidence, CalmHook, locals
  <2>1. cmd[p] = "push-ready" => CalmRun(p, "write")'
    BY <1>0, <1>3, CloneRead
    DEF TruncateEvidence, CalmRun, Quiet, ReadsAreCurrent, OriginIsCurrent, locals, repo
  <2> QED BY <1>1, <1>3, <2>0, <2>1 DEF TruncateEvidence
<1>4. CASE WriteEvidence(p)
  <2>0. ~ready /\ cmd' = cmd BY <1>0, <1>4 DEF WriteEvidence, CalmHook, locals
  <2>1. cmd[p] = "push-ready" => evidence' = Current
    BY <1>0, <1>4 DEF WriteEvidence, CalmRun
  <2>2. cmd[p] = "push-ready" => CalmRun(p, "read")'
    BY <1>0, <1>4, <2>1, CloneRead
    DEF WriteEvidence, CalmRun, Quiet, ReadsAreCurrent, OriginIsCurrent, locals, repo
  <2> QED BY <1>1, <1>4, <2>0, <2>2 DEF WriteEvidence
<1>5. CASE ReadEvidence(p)
  <2>0. cmd[p] = "push-ready" \/ ready => evidence = Current /\ OnFeatureBranch
    BY <1>0, <1>5 DEF ReadEvidence, CalmRun, CalmHook, Certified
  <2>1. CASE Readable
    <3>1. payload'[p] = evidence /\ phase'[p] = "verify"
      BY <1>0, <1>5, <2>1 DEF ReadEvidence, LocalsOK, ControlOK
    <3>2. cmd[p] = "push-ready" => CalmRun(p, "planFp")'
      BY <1>0, <1>5, <2>0, <2>1, <3>1, CloneRead
      DEF ReadEvidence, CalmRun, Quiet, ReadsAreCurrent, shared, repo
    <3>3. ready => CalmHook(p, "planFp")'
      BY <1>0, <1>5, <2>0, <2>1, <3>1, CloneRead
      DEF ReadEvidence, CalmHook, Quiet, Certified, ReadsAreCurrent, shared, repo
    <3> QED BY <1>1, <1>5, <2>1, <3>2, <3>3 DEF ReadEvidence
  <2>2. CASE ~Readable
    <3>1. OnFeatureBranch => Current \in Documents
      BY <1>0, ConstantsAssumption
      DEF CloneOK, Current, Documents, OnFeatureBranch, Fingerprint, Fingerprints, Head
    <3>2. ~Current.expired BY DEF Current
    <3>3. cmd[p] # "push-ready" /\ ~ready
      BY <2>0, <2>2, <3>1, <3>2, FilesAssumption DEF Readable
    <3> QED BY <1>5, <2>2, <3>3, CalmEnds DEF ReadEvidence, Exit, Decided
  <2> QED BY <2>1, <2>2
<1>6. CASE SendPack(p)
  <2>1. cmd[p] = "pre-push" BY <1>0, <1>6 DEF SendPack, AtStep, InPhase
  <2>2. CASE remote[upd[p].dst] = upd[p].old
    BY <1>6, <2>1, <2>2, CalmEnds DEF SendPack, Decided
  <2>3. CASE remote[upd[p].dst] # upd[p].old
    <3>1. ~ready BY <1>0, <1>6, <2>3 DEF SendPack, CalmHook
    <3> QED BY <1>6, <2>1, <2>3, <3>1, CalmEnds DEF SendPack, Exit, Decided
  <2> QED BY <2>2, <2>3
<1>7. CASE Interrupt(p)
  BY <1>7, CalmEnds DEF Interrupt, Decided
<1> QED BY <1>2, <1>3, <1>4, <1>5, <1>6, <1>7

\* Every step of an undisturbed command.
LEMMA CalmStep ==
  ASSUME IInv, Calm, NEW p \in Procs, calm = p, Step(p) \/ Interrupt(p)
  PROVE  CalmAt(p, pc[p])' /\ Decided(p)
<1>1. CalmAt(p, pc[p]) BY DEF Calm
<1> QED BY <1>1, CalmChecks, CalmRecords, CalmWorktrees, CalmEvidence DEF Step

\* A hook that starts right after its own push-ready finds what that recorded.
LEMMA CalmBegin ==
  ASSUME IInv, Calm, NEW p \in Procs, Begin(p)
  PROVE  Calm'
<1>0. ControlOK /\ LocalsOK BY DEF IInv, TypeOK
<1>1. PICK c \in Commands, u \in Updates \cup {NoValue} :
        Start(p, c, u) /\ (c = "pre-push" => u.old = remote[u.dst])
  BY BeginStarts
<1>2. /\ cmd'[p] = c /\ phase'[p] \in {"first", "second"} /\ upd'[p] = u
      /\ c \in {"push-ready", "pre-push"} => pc'[p] = "clean" /\ phase'[p] = "first"
      /\ pc'[p] # "ok" /\ calm' = p
      /\ ready' = (c = "pre-push" /\ calm = p /\ cmd[p] = "push-ready" /\ pc[p] = "ok")
      /\ UNCHANGED <<repo, baseRef, remote, dirs, leaked, evidence>>
  BY <1>0, <1>1 DEF ControlOK, LocalsOK, Start, Goto
<1>3. CalmRun(p, pc[p])'
  BY <1>2 DEF CalmRun, PhaseOfRun
<1>4. CalmOk(p, pc[p])' BY <1>2 DEF CalmOk
<1>5. CalmHook(p, pc[p])'
  <2> SUFFICES ASSUME ready' PROVE CalmHook(p, pc[p])'
    BY DEF CalmHook
  <2>1. Quiet(p, "ok") /\ Certified
    BY <1>2 DEF Calm, CalmAt, CalmOk
  <2>2. Quiet(p, "clean")' /\ Certified'
    BY <1>2, <2>1, CloneRead DEF Quiet, Certified, repo
  <2>3. ReadsAreCurrent(p, "clean")'
    BY <1>2 DEF ReadsAreCurrent, Planned
  <2> QED BY <1>1, <1>2, <2>2, <2>3 DEF CalmHook, HookFirst, HookSteps
<1> QED BY <1>2, <1>3, <1>4, <1>5 DEF Calm, CalmAt

\* Only the last starter, and only while nobody else does anything, is calm.
LEMMA CalmKeeps == IInv /\ Calm /\ [Next]_vars => Calm'
<1> SUFFICES ASSUME IInv, Calm, [Next]_vars PROVE Calm'
  OBVIOUS
<1>1. ASSUME NEW p \in Procs, Step(p) \/ Interrupt(p) PROVE Calm'
  <2>1. Undisturbed(p) /\ cmd' = cmd BY <1>1, StepsAreSeen
  <2>2. CASE calm = p
    <3>1. CalmAt(p, pc[p])' BY <1>1, <2>2, CalmStep
    <3>2. calm' = p /\ ready' = ready BY <2>1, <2>2 DEF Undisturbed, IInv, TypeOK, HistoryOK
    <3> QED BY <2>1, <2>2, <3>1, <3>2 DEF Calm
  <2>3. CASE calm # p
    BY <2>1, <2>3, ConstantsAssumption DEF Calm, Undisturbed
  <2> QED BY <2>2, <2>3
<1>2. CASE Environment
  BY <1>2, ConstantsAssumption DEF Environment, Calm
<1>3. CASE UNCHANGED vars
  <2> USE <1>3 DEF vars, repo, shared, locals, history
  <2>1. Current' = Current /\ WouldPass' = WouldPass /\ Head' = Head
        /\ Fingerprint' = Fingerprint /\ OnFeatureBranch' = OnFeatureBranch
    BY DEF Current, WouldPass, Head, Fingerprint, OnFeatureBranch
  <2>2. ASSUME NEW p \in Procs, CalmAt(p, pc[p]) PROVE CalmAt(p, pc[p])'
    BY <2>1, <2>2 DEF CalmAt, CalmRun, PhaseOfRun, CalmOk, CalmHook, Quiet,
                      Certified, ReadsAreCurrent, OriginIsCurrent
  <2> QED BY <2>2 DEF Calm
<1> QED BY <1>1, <1>2, <1>3, CalmBegin DEF Next

\* Whoever is refused undisturbed is refused for the repository.
LEMMA RefusalsAreDecisions ==
  ASSUME IInv, Calm, [Next]_vars, NEW p \in Procs, calm = p, pc'[p] = "refused",
         pc[p] # "refused"
  PROVE  Decided(p)
<1>0. pc \in [Procs -> Ended \cup Steps] BY DEF IInv, TypeOK, ControlOK, Steps
<1>1. ASSUME NEW q \in Procs, Begin(q) PROVE FALSE
  <2>1. PICK c \in Commands, u \in Updates \cup {NoValue} : Start(q, c, u)
    BY <1>1, BeginStarts
  <2> QED BY <1>0, <2>1 DEF Start, Goto
<1>2. ASSUME NEW q \in Procs, Step(q) \/ Interrupt(q) PROVE Decided(p)
  <2>1. CASE q = p BY <1>2, <2>1, CalmStep
  <2>2. CASE q # p BY <1>2, <2>2, OthersAreKept DEF OthersKept
  <2> QED BY <2>1, <2>2
<1>3. ~Environment BY DEF Environment
<1>4. ~UNCHANGED vars BY DEF vars
<1> QED BY <1>1, <1>2, <1>3, <1>4 DEF Next

\* An undisturbed process stays calm in the sense above in every behaviour.
LEMMA CalmInvariance == Spec => [](IInv /\ Calm)
<1>1. Init => Calm BY ConstantsAssumption DEF Init, NoCommand, Calm
<1> QED BY <1>1, CalmKeeps, Invariance, PTL DEF Spec

\* main: nothing push-ready itself does (its worktrees, its evidence file, the
\* tree it reads again and again) is ever a reason to refuse; undisturbed it is
\* refused only for what it decides about the repository.
THEOREM CalmRunAcceptance == Spec => CalmRunIsAccepted
<1>1. IInv /\ Calm /\ [Next]_vars =>
        [\A p \in Procs : cmd[p] = "push-ready" =>
           ~RefusedAt(p, (Planned \cup Holding \cup OtherSteps) \ Decisions)]_vars
  <2> SUFFICES ASSUME IInv, Calm, [Next]_vars, NEW p \in Procs,
                      cmd[p] = "push-ready", pc[p] \in Steps \ Decisions,
                      pc'[p] = "refused", calm = p
               PROVE  FALSE
    BY DEF RefusedAt, Steps
  <2>1. pc[p] # "refused" BY DEF Steps, Planned, Holding, OtherSteps
  <2>2. Decided(p) BY <2>1, RefusalsAreDecisions
  <2> QED BY <2>2 DEF Decided
<1> QED BY <1>1, CalmInvariance, PTL DEF Spec, CalmRunIsAccepted

\* main: what an undisturbed push-ready accepted its pre-push hook accepts; only
\* the ref update that Git hands to the hook can be a reason to refuse.
THEOREM ReadyHookAcceptance == Spec => ReadyHookIsAccepted
<1>1. IInv /\ Calm /\ [Next]_vars =>
        [\A p \in Procs : ready =>
           ~RefusedAt(p, (Planned \cup Holding \cup OtherSteps) \ {"updates"})]_vars
  <2> SUFFICES ASSUME IInv, Calm, [Next]_vars, NEW p \in Procs, ready,
                      pc[p] \in Steps \ {"updates"}, pc'[p] = "refused", calm = p
               PROVE  FALSE
    BY DEF RefusedAt, Steps
  <2>1. pc[p] # "refused" BY DEF Steps, Planned, Holding, OtherSteps
  <2>2. Decided(p) BY <2>1, RefusalsAreDecisions
  <2> QED BY <2>2 DEF Decided
<1> QED BY <1>1, CalmInvariance, PTL DEF Spec, ReadyHookIsAccepted

=============================================================================
