------------------------------ MODULE ReviewProofs ------------------------------
(***************************************************************************)
(* Proofs about what the push-ready gate does around a review.             *)
(*                                                                         *)
(* PlannedReview, for any paths and contents, any trees and any number of  *)
(* edits: what a review that passed has scanned is the planned change      *)
(* merged with the base, or the developer made more edits than Needed      *)
(* says.  Each part of the invariant says of one path how many edits it    *)
(* takes to be where it is.                                                *)
(*                                                                         *)
(* LineSplitter and StreamScan, for any text, documented lines and headers *)
(* and any way of reading the text in pieces: the lines are those of the   *)
(* text, and, with a machine that finds in a text what a search would, a   *)
(* scan finds what a search of the whole masked text would.  What it has   *)
(* seen so far is described by the lines that have ended; each definition  *)
(* that looks at them as a whole is followed from one line to the next.    *)
(***************************************************************************)
EXTENDS PlannedReview, StreamScan, SequenceTheorems, FiniteSetTheorems, TLAPS

Reviewing == {"apply", "compare", "snapshot", "topology", "scan tree", "reviewed"}
AfterPlan == {"scan patch", "scanned", "review", "status", "passed"} \cup Reviewing
Scanned == AfterPlan \ {"scan patch", "scanned"}
Matched == {"snapshot", "topology", "scan tree", "reviewed", "passed"}

TypeOK ==
  /\ pc \in {"initial", "patch", "final", "refused"} \cup AfterPlan
  /\ work \in Trees /\ view \in Trees /\ patch \in Trees /\ built \in Trees
  /\ expected \in [files : Trees, status : SUBSET Paths]
  /\ unread \subseteq Paths
  /\ dirty \in BOOLEAN
  /\ moves \in Nat

\* The path is read and was as the planned change has it.
Seen(p) == p \notin unread /\ view[p] = expected.files[p]
Back(p) == work[p] = expected.files[p]

\* A patch that is not of the planned tree takes an edit before the patch is read
\* and another one before the last fingerprint reads the same path.
TornPatch ==
  /\ pc = "initial" => \A p \in Paths \ unread : view[p] # work[p] => moves >= 1
  /\ pc = "patch" =>
       \A p \in Paths :
         /\ ~Back(p) => moves >= 1
         /\ p \notin unread /\ ~Seen(p) => moves >= 1 /\ (Back(p) => moves >= 2)
  /\ pc = "final" =>
       \A p \in Paths : patch[p] # expected.files[p] =>
         moves >= 1 /\ (Back(p) \/ Seen(p) => moves >= 2)
  /\ pc \in AfterPlan => \A p \in Paths : patch[p] # expected.files[p] => moves >= 2

\* A planned tree with an empty status that is not the one of HEAD: every
\* fingerprint takes an edit before and after it reads the path.
Hidden(p) == expected.status = {} /\ expected.files[p] # HeadCommit[p]

HiddenChange ==
  /\ pc \in {"patch", "final"} =>
       \A p \in Paths : Hidden(p) => moves >= 1 /\ (Back(p) => moves >= 2)
  /\ pc = "final" =>
       \A p \in Paths : Hidden(p) /\ Seen(p) =>
         moves >= 2 /\ (work[p] = HeadCommit[p] => moves >= 3)
  /\ pc \in {"scan patch", "scanned"} =>
       \A p \in Paths : Hidden(p) => moves >= 3 /\ (Back(p) => moves >= 4)
  /\ pc = "scanned" =>
       \A p \in Paths : Hidden(p) /\ Seen(p) => moves >= 4
  /\ pc \in Scanned => \A p \in Paths : Hidden(p) => moves >= 4

\* A torn patch of a clean checkout whose status was not empty when it was asked
\* for: an edit before that and another one after it.
TornClean == expected.status = {} /\ \E p \in Paths : patch[p] # expected.files[p]

HiddenStatus ==
  /\ pc = "status" /\ TornClean => Status = {} \/ moves >= 3
  /\ pc \in Reviewing /\ TornClean /\ dirty => moves >= 3 /\ (Status = {} => moves >= 4)
  /\ pc = "passed" /\ TornClean /\ dirty => moves >= 4

\* The tree that is scanned is built from the patch, and compared with the merge
\* of HEAD unless the status was not empty.
Built ==
  /\ pc \in Matched \cup {"compare"} => built = Merged(patch) /\ Conflicts(patch) = {}
  /\ pc \in Matched => dirty \/ built = Merged(HeadCommit)

\* When nobody edits, everything that is read is the checkout.
Still ==
  moves = 0 =>
    /\ pc \notin Ended => \A p \in Paths \ unread : view[p] = work[p]
    /\ pc \in {"patch", "final"} \cup AfterPlan => expected = [files |-> work, status |-> Status]
    /\ pc \in {"final"} \cup AfterPlan => patch = work
    /\ pc \in Reviewing => dirty = (Status # {})

OneRoot == pc = "topology" => HistoryFree

IInv ==
  /\ TypeOK /\ TornPatch /\ HiddenChange /\ HiddenStatus /\ Built /\ Still /\ OneRoot
  /\ SteadyReviewIsAccepted

-----------------------------------------------------------------------------
(* Every step keeps the types.                                             *)

LEMMA NothingIsTree == Nothing \in Trees
  BY DEF Nothing, Trees

LEMMA MergeIsTree ==
  ASSUME NEW tree \in Trees
  PROVE  Merged(tree) \in Trees
  BY ReviewAssumption DEF Merged, Trees

\* The initial states satisfy the inductive invariant.
LEMMA InitEstablishes == Init => IInv
<1> SUFFICES ASSUME Init PROVE IInv
  OBVIOUS
<1> USE DEF Init
<1>1. TypeOK
  BY NothingIsTree DEF TypeOK, NoFingerprint
<1>2. TornPatch /\ HiddenChange /\ HiddenStatus
  BY DEF TornPatch, HiddenChange, HiddenStatus, AfterPlan, Reviewing, Scanned
<1>3. Built /\ Still /\ OneRoot
  BY DEF Built, Still, OneRoot, AfterPlan, Reviewing, Matched, Ended
<1> QED
  BY <1>1, <1>2, <1>3 DEF IInv, SteadyReviewIsAccepted

LEMMA ReadKeepsInvariant ==
  ASSUME IInv, NEW p \in Paths, ReadPath(p)
  PROVE  IInv'
<1> USE DEF IInv, ReadPath, planned, workspace
<1>1. view' \in Trees /\ \A q \in Paths : view'[q] = IF q = p THEN work[q] ELSE view[q]
  BY DEF TypeOK, Trees
<1>2. TypeOK'
  BY <1>1 DEF TypeOK
<1>3. TornPatch'
  BY <1>1 DEF TornPatch, TypeOK, Seen, Back, Fingerprints, AfterPlan, Reviewing
<1>4. HiddenChange'
  <2>1. \A q \in Paths : Hidden(q)' = Hidden(q) /\ Back(q)' = Back(q)
    BY DEF Hidden, Back
  <2>2. \A q \in Paths : Seen(q)' => Seen(q) \/ Back(q)
    BY <1>1 DEF Seen, Back
  <2>3. \A q \in Paths : Hidden(q) /\ Back(q) => work[q] # HeadCommit[q]
    BY DEF Hidden, Back
  <2>4. CASE pc = "final"
    BY <2>1, <2>2, <2>3, <2>4 DEF HiddenChange, Scanned, AfterPlan, Reviewing
  <2>5. CASE pc = "scanned"
    BY <2>1, <2>2, <2>5 DEF HiddenChange, Scanned
  <2>6. CASE pc \notin {"final", "scanned"}
    BY <2>1, <2>6 DEF HiddenChange
  <2> QED
    BY <2>4, <2>5, <2>6
<1>5. HiddenStatus' /\ Built' /\ OneRoot'
  BY DEF HiddenStatus, TornClean, Status, Built, OneRoot, HistoryFree, Conflicts
<1>6. Still'
  <2>1. Status' = Status
    BY DEF Status
  <2>2. moves = 0 => \A q \in Paths \ unread' : view'[q] = work'[q]
    BY <1>1 DEF Still, Fingerprints, Ended
  <2> QED
    BY <2>1, <2>2 DEF Still
<1> QED
  BY <1>2, <1>3, <1>4, <1>5, <1>6 DEF SteadyReviewIsAccepted, Conflicts

LEMMA EditKeepsInvariant ==
  ASSUME IInv, NEW p \in Paths, EditFile(p)
  PROVE  IInv'
<1> USE DEF IInv, EditFile, planned, workspace
<1>1. work' \in Trees /\ moves \in Nat /\ moves' = moves + 1
  BY DEF TypeOK, Trees
<1>2. TypeOK'
  BY <1>1 DEF TypeOK
<1>3. TornPatch'
  BY <1>1 DEF TornPatch, Seen, Back
<1>4. HiddenChange'
  <2> SUFFICES ASSUME NEW q \in Paths, Hidden(q)
               PROVE  /\ pc \in {"patch", "final"} => moves' >= 1 /\ (Back(q)' => moves' >= 2)
                      /\ pc = "final" /\ Seen(q) =>
                           moves' >= 2 /\ (work'[q] = HeadCommit[q] => moves' >= 3)
                      /\ pc \in {"scan patch", "scanned"} =>
                           moves' >= 3 /\ (Back(q)' => moves' >= 4)
                      /\ pc = "scanned" /\ Seen(q) => moves' >= 4
                      /\ pc \in Scanned => moves' >= 4
    BY DEF HiddenChange, Hidden, Seen
  <2>1. ASSUME pc \in {"patch", "final"} PROVE moves >= 1
    BY <2>1 DEF HiddenChange
  <2>2. ASSUME pc = "final", Seen(q) PROVE moves >= 2
    BY <2>2 DEF HiddenChange
  <2>3. ASSUME pc \in {"scan patch", "scanned"} PROVE moves >= 3
    BY <2>3 DEF HiddenChange
  <2>4. ASSUME (pc = "scanned" /\ Seen(q)) \/ pc \in Scanned PROVE moves >= 4
    BY <2>4 DEF HiddenChange
  <2>5. /\ moves >= 1 => moves' >= 1 /\ moves' >= 2
        /\ moves >= 2 => moves' >= 2 /\ moves' >= 3
        /\ moves >= 3 => moves' >= 3 /\ moves' >= 4
        /\ moves >= 4 => moves' >= 4
    BY <1>1
  <2> QED
    BY ONLY <2>1, <2>2, <2>3, <2>4, <2>5, Zenon
<1>5. HiddenStatus'
  <2>1. TornClean' <=> TornClean
    BY DEF TornClean
  <2>2. pc \in AfterPlan /\ TornClean => moves >= 2
    BY DEF TornPatch, TornClean
  <2>3. CASE pc = "status"
    BY <1>1, <2>1, <2>2, <2>3 DEF HiddenStatus, AfterPlan, Reviewing
  <2>4. CASE pc # "status"
    BY <1>1, <2>1, <2>2, <2>4 DEF HiddenStatus, Ended
  <2> QED
    BY <2>3, <2>4
<1>6. Built' /\ OneRoot'
  BY DEF Built, OneRoot, HistoryFree, Conflicts
<1>7. Still' /\ SteadyReviewIsAccepted'
  BY <1>1 DEF Still, SteadyReviewIsAccepted
<1> QED
  BY <1>2, <1>3, <1>4, <1>5, <1>6, <1>7

-----------------------------------------------------------------------------
(* The steps of the review itself, one after the other.                    *)

\* A step that refuses has to show that it may.
LEMMA RefusalKeepsInvariant ==
  ASSUME TypeOK', pc' = "refused", SteadyReviewIsAccepted'
  PROVE  IInv'
  BY DEF IInv, TornPatch, HiddenChange, HiddenStatus, Built, Still, OneRoot,
         AfterPlan, Scanned, Reviewing, Matched, Ended

\* When nobody edits, a whole reading is the checkout.
LEMMA StillReading ==
  ASSUME IInv, pc \notin Ended, unread = {}, moves = 0
  PROVE  view = work
<1>1. \A p \in Paths : view[p] = work[p]
  BY DEF IInv, Still
<1> QED
  BY <1>1 DEF IInv, TypeOK, Trees

\* A fingerprint taken again differs only if somebody edits.
LEMMA StillFingerprint ==
  ASSUME IInv, pc \in {"final"} \cup AfterPlan, pc # "passed", unread = {}, ~SameTree
  PROVE  moves # 0
<1> SUFFICES ASSUME moves = 0 PROVE FALSE
  OBVIOUS
<1>1. view = work
  BY StillReading DEF Ended, AfterPlan, Reviewing
<1>2. expected = [files |-> work, status |-> Status]
  BY DEF IInv, Still
<1> QED
  BY <1>1, <1>2 DEF SameTree, Fingerprint

\* A whole reading that is the planned tree has the status of it.
LEMMA SameTreeIsSeen ==
  ASSUME IInv, unread = {}, SameTree
  PROVE  /\ expected.status = Status
         /\ \A p \in Paths : Seen(p)
         /\ \A p \in Paths : Hidden(p) => work[p] = HeadCommit[p] /\ ~Back(p)
<1>1. expected.files = view /\ expected.status = Status
  BY DEF SameTree, Fingerprint
<1> QED
  BY <1>1 DEF Seen, Hidden, Back, Status

LEMMA PlanFingerprintKeepsInvariant ==
  ASSUME IInv, PlanFingerprint
  PROVE  IInv'
<1> USE DEF IInv, PlanFingerprint, Goto, Fingerprint, workspace
<1>1. TypeOK'
  BY NothingIsTree DEF TypeOK, AfterPlan, Status
<1>2. TornPatch'
  BY DEF TornPatch, Back, AfterPlan, Reviewing
<1>3. HiddenChange'
  <2>1. ASSUME NEW p \in Paths, Hidden(p)' PROVE moves >= 1 /\ ~Back(p)'
    BY <2>1 DEF Hidden, Status, TornPatch, Back
  <2> QED
    BY <2>1 DEF HiddenChange, Scanned, AfterPlan, Reviewing
<1>4. HiddenStatus' /\ Built' /\ OneRoot' /\ SteadyReviewIsAccepted'
  BY DEF HiddenStatus, Built, OneRoot, SteadyReviewIsAccepted, Reviewing, Matched
<1>5. Still'
  BY StillReading DEF Still, AfterPlan, Reviewing, Ended, Status
<1> QED
  BY <1>1, <1>2, <1>3, <1>4, <1>5

LEMMA SpoolPatchKeepsInvariant ==
  ASSUME IInv, SpoolPatch
  PROVE  IInv'
<1> USE DEF IInv, SpoolPatch, Goto, workspace
<1>1. TypeOK'
  BY NothingIsTree DEF TypeOK, AfterPlan
<1>2. TornPatch'
  BY DEF TornPatch, Back, Seen, AfterPlan, Reviewing
<1>3. HiddenChange'
  BY DEF HiddenChange, Hidden, Back, Seen, Scanned, AfterPlan, Reviewing
<1>4. HiddenStatus' /\ Built' /\ OneRoot' /\ SteadyReviewIsAccepted'
  BY DEF HiddenStatus, Built, OneRoot, SteadyReviewIsAccepted, Reviewing, Matched
<1>5. Still'
  BY StillReading DEF Still, AfterPlan, Reviewing, Ended, Status
<1> QED
  BY <1>1, <1>2, <1>3, <1>4, <1>5

LEMMA PlanAgainKeepsInvariant ==
  ASSUME IInv, PlanFingerprintAgain
  PROVE  IInv'
<1> USE DEF PlanFingerprintAgain, Require, Goto, workspace
<1>1. TypeOK'
  BY NothingIsTree DEF IInv, TypeOK, AfterPlan, Fingerprint, Status
<1>2. CASE ~SameTree
  <2>1. pc' = "refused" /\ moves' # 0
    BY <1>2, StillFingerprint
  <2> QED
    BY <1>1, <2>1, RefusalKeepsInvariant DEF SteadyReviewIsAccepted
<1>3. CASE SameTree
  <2> USE DEF IInv
  <2>1. expected' = expected /\ pc' = "scan patch"
    BY <1>3 DEF SameTree
  <2>2. /\ expected.status = Status
        /\ \A p \in Paths : Seen(p)
        /\ \A p \in Paths : Hidden(p) => work[p] = HeadCommit[p] /\ ~Back(p)
    BY <1>3, SameTreeIsSeen
  <2>3. TornPatch'
    BY <2>1, <2>2 DEF TornPatch
  <2>4. HiddenChange'
    BY <2>1, <2>2 DEF HiddenChange, Hidden, Back, Scanned, AfterPlan, Reviewing
  <2>5. HiddenStatus' /\ Built' /\ OneRoot' /\ SteadyReviewIsAccepted'
    BY <2>1 DEF HiddenStatus, Built, OneRoot, SteadyReviewIsAccepted, Reviewing, Matched
  <2>6. Still'
    BY <2>1 DEF Still, AfterPlan, Reviewing, Ended, Status
  <2> QED
    BY <1>1, <2>3, <2>4, <2>5, <2>6
<1> QED
  BY <1>2, <1>3

LEMMA ScanPatchKeepsInvariant ==
  ASSUME IInv, ScanPatch
  PROVE  IInv'
<1> USE DEF ScanPatch, Require, Goto, planned, workspace
<1>1. TypeOK'
  BY NothingIsTree DEF IInv, TypeOK, AfterPlan
<1>2. CASE \E p \in Changed : patch[p] \in Unsafe
  <2>1. pc' = "refused"
    BY <1>2
  <2>2. moves = 0 => patch = work
    BY DEF IInv, Still, AfterPlan
  <2>3. SteadyReviewIsAccepted'
    BY <1>2, <2>2 DEF SteadyReviewIsAccepted, Changed
  <2> QED
    BY <1>1, <2>1, <2>3, RefusalKeepsInvariant
<1>3. CASE \A p \in Changed : patch[p] \notin Unsafe
  <2> USE DEF IInv
  <2>1. pc' = "scanned"
    BY <1>3
  <2>2. TornPatch'
    BY <2>1 DEF TornPatch, AfterPlan
  <2>3. HiddenChange'
    BY <2>1 DEF HiddenChange, Hidden, Back, Seen, Scanned, AfterPlan, Reviewing
  <2>4. HiddenStatus' /\ Built' /\ OneRoot' /\ SteadyReviewIsAccepted'
    BY <2>1 DEF HiddenStatus, Built, OneRoot, SteadyReviewIsAccepted, Reviewing, Matched
  <2>5. Still'
    BY <2>1 DEF Still, AfterPlan, Reviewing, Ended, Status
  <2> QED
    BY <1>1, <2>2, <2>3, <2>4, <2>5
<1> QED
  BY <1>2, <1>3

LEMMA CompareTreeKeepsInvariant ==
  ASSUME IInv, CompareTree
  PROVE  IInv'
<1> USE DEF CompareTree, Require, Goto, planned, workspace
<1>1. /\ pc' \in {"refused", "review", "status", "passed"}
      /\ SameTree =>
           /\ pc = "scanned" => pc' = "review"
           /\ pc = "review" => pc' = "status"
           /\ pc = "reviewed" => pc' = "passed"
      /\ ~SameTree => pc' = "refused"
  BY DEF NextOf
<1>2. TypeOK'
  BY <1>1, NothingIsTree DEF IInv, TypeOK, AfterPlan
<1>3. CASE ~SameTree
  <2>1. pc' = "refused" /\ moves' # 0
    BY <1>1, <1>3, StillFingerprint DEF AfterPlan, Reviewing
  <2> QED
    BY <1>2, <2>1, RefusalKeepsInvariant DEF SteadyReviewIsAccepted
<1>4. CASE SameTree
  <2> USE DEF IInv
  <2>1. /\ pc \in AfterPlan /\ pc' \in Scanned /\ pc' \notin Reviewing
        /\ pc = "reviewed" <=> pc' = "passed"
        /\ pc' \in Matched => pc' = "passed"
    BY <1>1, <1>4 DEF AfterPlan, Reviewing, Scanned, Matched
  <2>2. expected.status = Status /\ \A p \in Paths : Seen(p)
    BY <1>4, SameTreeIsSeen
  <2>3. TornPatch'
    BY <2>1 DEF TornPatch, AfterPlan, Scanned, Reviewing
  <2>4. ASSUME NEW p \in Paths, Hidden(p) PROVE moves >= 4
    <3>1. pc = "scanned" \/ pc \in Scanned
      BY DEF Scanned, AfterPlan, Reviewing
    <3> QED
      BY <2>2, <2>4, <3>1 DEF HiddenChange
  <2>5. HiddenChange'
    <3>1. pc' \notin {"patch", "final", "scan patch", "scanned"}
      BY <1>1, <1>4
    <3>2. \A p \in Paths : Hidden(p)' => moves' >= 4
      BY <2>4 DEF Hidden
    <3> QED
      BY <3>1, <3>2 DEF HiddenChange
  <2>6. HiddenStatus'
    <3>1. TornClean => Status = {}
      BY <2>2 DEF TornClean
    <3>2. Status' = Status /\ TornClean' = TornClean
      BY DEF Status, TornClean
    <3>3. pc = "reviewed" => pc \in Reviewing
      BY DEF Reviewing
    <3> QED
      BY <2>1, <3>1, <3>2, <3>3 DEF HiddenStatus
  <2>7. Built'
    BY <2>1 DEF Built, Conflicts, Matched, Scanned, AfterPlan, Reviewing
  <2>8. Still'
    BY <2>1 DEF Still, Scanned, Ended, Status
  <2>9. OneRoot' /\ SteadyReviewIsAccepted'
    BY <1>1, <1>4 DEF OneRoot, SteadyReviewIsAccepted
  <2> QED
    BY <1>2, <2>3, <2>5, <2>6, <2>7, <2>8, <2>9
<1> QED
  BY <1>3, <1>4

LEMMA SourceStatusKeepsInvariant ==
  ASSUME IInv, SourceStatus
  PROVE  IInv'
<1> USE DEF IInv, SourceStatus, Goto, planned
<1>1. TypeOK'
  BY NothingIsTree DEF TypeOK, AfterPlan, Reviewing
<1>2. TornPatch' /\ HiddenChange'
  BY DEF TornPatch, HiddenChange, Hidden, AfterPlan, Reviewing, Scanned
<1>3. HiddenStatus'
  BY DEF HiddenStatus, TornClean, Status, Reviewing
<1>4. Built' /\ OneRoot' /\ SteadyReviewIsAccepted'
  BY DEF Built, OneRoot, SteadyReviewIsAccepted, Matched
<1>5. Still'
  BY DEF Still, Status, AfterPlan, Reviewing
<1> QED
  BY <1>1, <1>2, <1>3, <1>4, <1>5

\* Steps of the builder after the status: what is known of the planned change
\* does not depend on where in the workspace the review is.
LEMMA WorkspaceFrame ==
  ASSUME IInv, pc \in Reviewing, pc' \in Reviewing,
         unread' = Paths, view' = Nothing, UNCHANGED <<work, planned, dirty, moves>>
  PROVE  /\ TornPatch' /\ HiddenChange' /\ HiddenStatus' /\ Still'
         /\ SteadyReviewIsAccepted'
<1> USE DEF IInv, planned
<1>1. TornPatch' /\ HiddenChange'
  BY DEF TornPatch, HiddenChange, Hidden, AfterPlan, Reviewing, Scanned
<1>2. HiddenStatus'
  <2>1. Status' = Status /\ TornClean' = TornClean
    BY DEF Status, TornClean
  <2>2. pc' # "status" /\ pc' # "passed"
    BY DEF Reviewing
  <2> QED
    BY <2>1, <2>2 DEF HiddenStatus
<1>3. Still'
  BY DEF Still, Status, AfterPlan
<1>4. SteadyReviewIsAccepted'
  BY DEF SteadyReviewIsAccepted, Reviewing
<1> QED
  BY <1>1, <1>2, <1>3, <1>4

LEMMA ApplyPatchKeepsInvariant ==
  ASSUME IInv, ApplyPatch
  PROVE  IInv'
<1> USE DEF ApplyPatch, Require, Goto, planned
<1>1. TypeOK'
  BY NothingIsTree, MergeIsTree DEF IInv, TypeOK, AfterPlan, Reviewing
<1>2. CASE Conflicts(patch) # {}
  <2>1. moves = 0 => patch = work
    BY DEF IInv, Still, AfterPlan, Reviewing
  <2>2. pc' = "refused" /\ SteadyReviewIsAccepted'
    BY <1>2, <2>1 DEF SteadyReviewIsAccepted, Conflicts
  <2> QED
    BY <1>1, <2>2, RefusalKeepsInvariant
<1>3. CASE Conflicts(patch) = {}
  <2>1. pc' = "compare"
    BY <1>3
  <2>2. Built' /\ OneRoot'
    BY <1>3, <2>1 DEF Built, OneRoot, Merged, Conflicts, Matched
  <2> QED
    BY <1>1, <2>1, <2>2, WorkspaceFrame DEF IInv, Reviewing
<1> QED
  BY <1>2, <1>3

LEMMA CompareIntegrationKeepsInvariant ==
  ASSUME IInv, CompareIntegration
  PROVE  IInv'
<1> USE DEF CompareIntegration, Require, Goto, planned, workspace
<1>1. TypeOK'
  BY NothingIsTree DEF IInv, TypeOK, AfterPlan, Reviewing
<1>2. CASE ~MatchesIntegration
  <2>1. pc' = "refused"
    BY <1>2
  <2>2. ASSUME moves = 0 PROVE FALSE
    <3>1. patch = work /\ dirty = (Status # {})
      BY <2>2 DEF IInv, Still, AfterPlan, Reviewing
    <3>2. Status = {}
      BY <1>2, <3>1 DEF MatchesIntegration
    <3>3. work = HeadCommit
      <4>1. \A p \in Paths : work[p] = HeadCommit[p]
        BY <3>2 DEF Status
      <4> QED
        BY <4>1, ReviewAssumption DEF IInv, TypeOK, Trees
    <3>4. built = Merged(patch) /\ Conflicts(patch) = {}
      BY DEF IInv, Built
    <3> QED
      BY <1>2, <3>1, <3>3, <3>4 DEF MatchesIntegration
  <2> QED
    BY <1>1, <2>1, <2>2, RefusalKeepsInvariant DEF SteadyReviewIsAccepted
<1>3. CASE MatchesIntegration
  <2>1. pc' = "snapshot"
    BY <1>3
  <2>2. Built' /\ OneRoot'
    BY <1>3, <2>1 DEF IInv, Built, OneRoot, Merged, Conflicts, Matched, MatchesIntegration
  <2> QED
    BY <1>1, <2>1, <2>2, WorkspaceFrame DEF IInv, Reviewing
<1> QED
  BY <1>2, <1>3

\* The history of the new commit: a root, and nothing below it.
LEMMA HistoryKeepsInvariant ==
  ASSUME IInv, CheckoutWorkspace \/ RequireHistoryFree
  PROVE  IInv'
<1> USE DEF Goto, Require, planned, workspace
<1>1. /\ pc \in {"snapshot", "topology"} /\ pc' \in {"topology", "scan tree"}
      /\ pc' = "topology" => HistoryFree'
      /\ UNCHANGED <<work, planned, dirty, built, moves>>
      /\ unread' = Paths /\ view' = Nothing
  BY DEF CheckoutWorkspace, RequireHistoryFree, SanitizedRootCommit, HistoryFree, IInv, OneRoot
<1>2. TypeOK' /\ OneRoot'
  BY <1>1, NothingIsTree DEF IInv, TypeOK, OneRoot, AfterPlan, Reviewing
<1>3. Built'
  BY <1>1 DEF IInv, Built, Conflicts, Merged, Matched
<1> QED
  BY <1>1, <1>2, <1>3, WorkspaceFrame DEF IInv, Reviewing

LEMMA ScanTreeKeepsInvariant ==
  ASSUME IInv, ScanTree
  PROVE  IInv'
<1> USE DEF ScanTree, Require, Goto, planned, workspace
<1>1. TypeOK'
  BY NothingIsTree DEF IInv, TypeOK, AfterPlan, Reviewing
<1>2. CASE \E p \in Paths : built[p] \in Unsafe
  <2>1. pc' = "refused"
    BY <1>2
  <2>2. ASSUME moves = 0 PROVE \E p \in Paths : {work[p], Tip[p]} \cap Unsafe # {}
    <3>1. built = Merged(work)
      BY <2>2 DEF IInv, Still, Built, AfterPlan, Reviewing, Matched
    <3> QED
      BY <1>2, <3>1 DEF Merged
  <2>3. SteadyReviewIsAccepted'
    BY <2>2 DEF SteadyReviewIsAccepted
  <2> QED
    BY <1>1, <2>1, <2>3, RefusalKeepsInvariant
<1>3. CASE \A p \in Paths : built[p] \notin Unsafe
  <2>1. pc' = "reviewed"
    BY <1>3
  <2>2. Built' /\ OneRoot'
    BY <2>1 DEF IInv, Built, OneRoot, Merged, Conflicts, Matched
  <2> QED
    BY <1>1, <2>1, <2>2, WorkspaceFrame DEF IInv, Reviewing
<1> QED
  BY <1>2, <1>3

\* Every step keeps the inductive invariant.
LEMMA StepKeepsInvariant == IInv /\ [Next]_vars => IInv'
<1> SUFFICES ASSUME IInv, [Next]_vars PROVE IInv'
  OBVIOUS
<1>1. CASE PlanFingerprint \/ SpoolPatch \/ PlanFingerprintAgain
  BY <1>1, PlanFingerprintKeepsInvariant, SpoolPatchKeepsInvariant, PlanAgainKeepsInvariant
<1>2. CASE ScanPatch \/ CompareTree \/ SourceStatus
  BY <1>2, ScanPatchKeepsInvariant, CompareTreeKeepsInvariant, SourceStatusKeepsInvariant
<1>3. CASE ApplyPatch \/ CompareIntegration \/ ScanTree
  BY <1>3, ApplyPatchKeepsInvariant, CompareIntegrationKeepsInvariant, ScanTreeKeepsInvariant
<1>4. CASE CheckoutWorkspace \/ RequireHistoryFree
  BY <1>4, HistoryKeepsInvariant
<1>5. ASSUME NEW p \in Paths, ReadPath(p) \/ EditFile(p) PROVE IInv'
  BY <1>5, ReadKeepsInvariant, EditKeepsInvariant
<1>6. CASE UNCHANGED vars
  <2> USE <1>6 DEF vars, planned, workspace, IInv
  <2>1. TypeOK' /\ TornPatch'
    BY DEF TypeOK, TornPatch, Seen, Back
  <2>2. HiddenChange' /\ OneRoot'
    BY DEF HiddenChange, Seen, Back, Hidden, OneRoot, HistoryFree
  <2>3. HiddenStatus' /\ Still'
    BY DEF HiddenStatus, TornClean, Status, Still
  <2>4. Built' /\ SteadyReviewIsAccepted'
    BY DEF Built, Conflicts, Merged, SteadyReviewIsAccepted
  <2> QED
    BY <2>1, <2>2, <2>3, <2>4
<1> QED
  BY <1>1, <1>2, <1>3, <1>4, <1>5, <1>6 DEF Next

\* The inductive invariant holds in every reachable state.
THEOREM Invariance == Spec => []IInv
  BY InitEstablishes, StepKeepsInvariant, PTL DEF Spec

-----------------------------------------------------------------------------
(* What the invariant says of a review that ended.                         *)

\* A patch that is of the planned tree, or of HEAD when that is the planned tree,
\* is what was reviewed.
LEMMA PassedIsPlanned ==
  ASSUME IInv, pc = "passed", moves < Needed
  PROVE  built = Merged(expected.files)
<1> USE DEF IInv, TypeOK
<1>1. pc \in AfterPlan /\ pc \in Scanned /\ pc \in Matched
  BY DEF AfterPlan, Scanned, Matched
<1>2. built = Merged(patch)
  BY <1>1 DEF Built
<1>3. CASE \A p \in Paths : patch[p] = expected.files[p]
  BY <1>2, <1>3 DEF Merged
<1>4. CASE \E p \in Paths : patch[p] # expected.files[p]
  <2>1. moves >= 2
    BY <1>1, <1>4 DEF TornPatch
  <2>2. expected.status = {} /\ moves < 4
    BY <2>1 DEF Needed
  <2>3. ~dirty
    BY <1>4, <2>2 DEF HiddenStatus, TornClean
  <2>4. built = Merged(HeadCommit)
    BY <1>1, <2>3 DEF Built
  <2>5. \A p \in Paths : ~Hidden(p)
    <3>1. ASSUME NEW p \in Paths, Hidden(p) PROVE moves >= 4
      BY <1>1, <3>1 DEF HiddenChange
    <3>2. ~(moves >= 4)
      BY <2>2
    <3> QED
      BY ONLY <3>1, <3>2
  <2>6. \A p \in Paths : expected.files[p] = HeadCommit[p]
    BY <2>2, <2>5 DEF Hidden
  <2> QED
    BY <2>4, <2>6 DEF Merged
<1> QED
  BY <1>3, <1>4

\* What sanitized_review_workspace scans is the planned change merged with the
\* base, unless the developer edits and undoes enough edits in time: two, or four
\* when the planned checkout is clean.
THEOREM PlannedReviewed == Spec => []ReviewedIsPlanned
<1>1. IInv => ReviewedIsPlanned
  BY PassedIsPlanned DEF ReviewedIsPlanned
<1> QED
  BY <1>1, Invariance, PTL

\* run_agent_reviews never refuses by its own re-reads when nobody edits.
THEOREM SteadyReviewAcceptance == Spec => []SteadyReviewIsAccepted
<1>1. IInv => SteadyReviewIsAccepted
  BY DEF IInv
<1> QED
  BY <1>1, Invariance, PTL

-----------------------------------------------------------------------------
(* LineSplitter: the lines of a text.                                      *)

\* The characters of the text that are in complete lines or in the present one.
Yielded ==
  IF pendingCr THEN start - 1
  ELSE IF pending \/ start \in Breaks \cup {0} THEN start ELSE start + 1

SplitTypes ==
  /\ text \in Seq(Alphabet)
  /\ fed \in 0..Len(text) /\ start \in 0..fed
  /\ pendingCr \in BOOLEAN /\ pending \in BOOLEAN
  /\ lineFile \in Seq(Alphabet) /\ complete \in Seq(Seq(Alphabet))

\* Where the generator stands: never between a CR and its LF unless the CR is
\* pending, and behind a break unless a line has begun or the text has ended.
BetweenBreaks ==
  /\ pendingCr => start > 0 /\ text[start] = "CR" /\ pending
  /\ ~pendingCr /\ start \in 1..(Len(text) - 1) => text[start] # "CR" \/ text[start + 1] # "LF"
  /\ pending /\ ~pendingCr => start \notin Breaks \cup {0}
  /\ ~pending /\ start \notin Breaks \cup {0} => start = Len(text)

LinesSoFar ==
  /\ EndBefore(Yielded + 1) \in 0..Yielded
  /\ lineFile = SubSeq(text, EndBefore(Yielded + 1) + 1, Yielded)
  /\ Len(complete) = NumberOf(Yielded)
  /\ \A e \in Ends : e <= Yielded => complete[NumberOf(e)] = TextLine(e)

SplitInv == SplitTypes /\ BetweenBreaks /\ LinesSoFar

-----------------------------------------------------------------------------
(* Ends and their numbers.                                                 *)

LEMMA EndsAreFinite ==
  ASSUME text \in Seq(Alphabet)
  PROVE  /\ Ends \subseteq 1..(Len(text) + 1)
         /\ IsFiniteSet(Ends)
         /\ \A p \in Int : /\ IsFiniteSet({e \in Ends : e <= p})
                           /\ NumberOf(p) \in Nat
                           /\ NumberOf(p) <= Cardinality(Ends)
<1>1. Len(text) \in Nat
  OBVIOUS
<1>2. Ends \subseteq 1..(Len(text) + 1)
  BY <1>1 DEF Ends, Breaks
<1>3. IsFiniteSet(Ends)
  <2>1. IsFiniteSet(1..(Len(text) + 1))
    BY <1>1, FS_Interval
  <2> QED
    BY <1>2, <2>1, FS_Subset
<1>4. ASSUME NEW p \in Int
      PROVE  /\ IsFiniteSet({e \in Ends : e <= p})
             /\ NumberOf(p) \in Nat
             /\ NumberOf(p) <= Cardinality(Ends)
  BY <1>3, FS_Subset, FS_CardinalityType DEF NumberOf
<1> QED
  BY <1>2, <1>3, <1>4

\* The number of an end is one more than that of the end before it.
LEMMA NextEnd ==
  ASSUME text \in Seq(Alphabet), NEW e \in Ends, NEW p \in Int, p < e,
         \A x \in Ends : x < e => x <= p
  PROVE  NumberOf(e) = NumberOf(p) + 1
<1>1. e \in Int /\ \A x \in Ends : x \in Int
  BY EndsAreFinite
<1>2. {x \in Ends : x <= e} = {x \in Ends : x <= p} \cup {e}
  <2>1. \A x \in Ends : x <= e <=> x <= p \/ x = e
    BY <1>1
  <2> QED
    BY <2>1
<1>3. e \notin {x \in Ends : x <= p}
  BY <1>1
<1>4. IsFiniteSet({x \in Ends : x <= p})
  BY EndsAreFinite
<1> QED
  BY <1>2, <1>3, <1>4, FS_AddElement DEF NumberOf

\* Later ends have greater numbers.
LEMMA EndsInOrder ==
  ASSUME text \in Seq(Alphabet), NEW e \in Ends, NEW p \in Int, p < e
  PROVE  NumberOf(p) < NumberOf(e)
<1>1. e \in Int /\ \A x \in Ends : x \in Int
  BY EndsAreFinite
<1> DEFINE upToP == {x \in Ends : x <= p}
           upToE == {x \in Ends : x <= e}
<1>2. IsFiniteSet(upToE) /\ NumberOf(p) \in Nat /\ NumberOf(e) \in Nat
  BY <1>1, EndsAreFinite
<1>3. upToP \subseteq upToE /\ e \in upToE /\ e \notin upToP
  <2>1. ~(e <= p) /\ e <= e /\ \A x \in Ends : x <= p => x <= e
    BY <1>1
  <2> QED
    BY <2>1
<1>4. Cardinality(upToP) <= Cardinality(upToE) /\ Cardinality(upToP) # Cardinality(upToE)
  BY <1>2, <1>3, FS_Subset
<1> QED
  BY <1>2, <1>4 DEF NumberOf

\* Between ends nothing changes.
LEMMA NoEndBetween ==
  ASSUME text \in Seq(Alphabet), NEW p \in Nat, NEW q \in Nat, p <= q,
         \A x \in Ends : x <= q => x <= p
  PROVE  NumberOf(q) = NumberOf(p) /\ EndBefore(q + 1) = EndBefore(p + 1)
<1>1. \A x \in Ends : x \in Int
  BY EndsAreFinite
<1>2. {x \in Ends : x <= q} = {x \in Ends : x <= p}
  BY <1>1
<1>3. Before(q + 1) = Before(p + 1)
  BY <1>1 DEF Before
<1> QED
  BY <1>2, <1>3 DEF NumberOf, EndBefore

\* The end before the next character is this end.
LEMMA EndBeforeNext ==
  ASSUME text \in Seq(Alphabet), NEW e \in {0} \cup Ends
  PROVE  EndBefore(e + 1) = e
<1>1. \A x \in {0} \cup Ends : x \in Nat
  BY EndsAreFinite
<1>2. e \in Before(e + 1) /\ \A x \in Before(e + 1) : x \in Nat /\ x <= e
  BY <1>1 DEF Before
<1> QED
  BY <1>2 DEF EndBefore

LEMMA NoEndsYet ==
  ASSUME text \in Seq(Alphabet)
  PROVE  NumberOf(0) = 0
<1>1. {x \in Ends : x <= 0} = {}
  BY EndsAreFinite
<1> QED
  BY <1>1, FS_EmptySet DEF NumberOf

LEMMA NumberRange ==
  ASSUME text \in Seq(Alphabet), NEW e \in Ends, NEW p \in Int, e <= p
  PROVE  NumberOf(e) \in 1..NumberOf(p)
<1>1. e \in Int /\ 0 < e /\ \A x \in Ends : x \in Int
  BY EndsAreFinite
<1>2. /\ NumberOf(0) < NumberOf(e)
      /\ NumberOf(0) \in Nat /\ NumberOf(e) \in Nat /\ NumberOf(p) \in Nat
  <2>1. 0 \in Int
    OBVIOUS
  <2>2. NumberOf(0) < NumberOf(e)
    BY <1>1, <2>1, EndsInOrder
  <2> QED
    BY <1>1, <2>1, <2>2, EndsAreFinite
<1> DEFINE upToE == {x \in Ends : x <= e}
           upToP == {x \in Ends : x <= p}
<1>3. upToE \subseteq upToP
  <2>1. \A x \in Ends : x <= e => x <= p
    BY <1>1
  <2> QED
    BY <2>1
<1>4. Cardinality(upToE) <= Cardinality(upToP)
  <2>1. IsFiniteSet(upToP)
    BY EndsAreFinite
  <2> QED
    BY <1>3, <2>1, FS_Subset
<1> QED
  BY <1>2, <1>4 DEF NumberOf

LEMMA TextLineIs ==
  ASSUME NEW e
  PROVE  /\ IsPair(e) => TextLine(e) = SubSeq(text, EndBefore(e) + 1, e - 2)
         /\ ~IsPair(e) => TextLine(e) = SubSeq(text, EndBefore(e) + 1, e - 1)
<1>1. CASE IsPair(e)
  BY <1>1 DEF TextLine
<1>2. CASE ~IsPair(e)
  BY <1>2 DEF TextLine
<1> QED
  BY <1>1, <1>2

-----------------------------------------------------------------------------
(* The generator.                                                          *)

LEMMA LeastElement ==
  ASSUME NEW T \in SUBSET Nat, T # {}
  PROVE  \E x \in T : \A y \in T : x <= y
<1>1. PICK x \in T : \A y \in T : ~(<<y, x>> \in OpToRel(<, Nat))
  BY NatLessThanWellFounded, WFMin
<1>2. \A y \in T : y < x => <<y, x>> \in OpToRel(<, Nat)
  BY DEF OpToRel
<1>3. \A y \in T : x <= y
  <2>1. \A y \in T : y \in Nat /\ x \in Nat /\ ~(y < x)
    BY <1>1, <1>2
  <2> QED
    BY <2>1
<1> QED
  BY <1>3

LEMMA FirstBreakIsFirst ==
  ASSUME SplitTypes, BreaksAhead # {}
  PROVE  /\ FirstBreak \in (start + 1)..fed /\ text[FirstBreak] \in Separators
         /\ \A i \in (start + 1)..(FirstBreak - 1) : text[i] \notin Separators
<1>1. start \in Nat /\ fed \in Nat
  BY DEF SplitTypes
<1>2. BreaksAhead \in SUBSET Nat
  BY <1>1 DEF BreaksAhead
<1>3. \E i \in BreaksAhead : \A j \in BreaksAhead : i <= j
  BY <1>2, LeastElement
<1>4. FirstBreak \in BreaksAhead /\ \A j \in BreaksAhead : FirstBreak <= j
  BY <1>3 DEF FirstBreak
<1>5. FirstBreak \in (start + 1)..fed /\ text[FirstBreak] \in Separators
  BY <1>4 DEF BreaksAhead
<1>6. ASSUME NEW i \in (start + 1)..(FirstBreak - 1), text[i] \in Separators
      PROVE  FALSE
  <2>1. i \in (start + 1)..fed /\ i < FirstBreak
    BY <1>1, <1>5
  <2>2. i \in BreaksAhead
    BY <1>6, <2>1 DEF BreaksAhead
  <2> QED
    BY <1>1, <1>4, <1>5, <2>1, <2>2
<1> QED
  BY <1>5, <1>6

\* What the generator yields, by positions.
LEMMA FragmentIs ==
  ASSUME SplitTypes
  PROVE  /\ pendingCr => Fragment = <<>>
         /\ ~pendingCr /\ BreaksAhead = {} => Fragment = SubSeq(text, start + 1, fed)
         /\ ~pendingCr /\ BreaksAhead # {} => Fragment = SubSeq(text, start + 1, FirstBreak - 1)
         /\ Fragment \in Seq(Alphabet)
<1>1. /\ start \in Nat /\ fed \in Nat /\ fed <= Len(text)
      /\ text \in Seq(Alphabet) /\ Len(text) \in Nat
  BY DEF SplitTypes
<1>2. ASSUME NEW n \in 0..fed
      PROVE  SubSeq(text, start + 1, n) \in Seq(Alphabet)
  <2>1. \A i \in (start + 1)..n : text[i] \in Alphabet
    BY <1>1, <1>2
  <2> QED
    BY <1>1, <2>1, SubSeqProperties
<1>3. BreaksAhead # {} => FirstBreak - 1 \in 0..fed
  BY <1>1, FirstBreakIsFirst
<1>4. pendingCr \in BOOLEAN /\ <<>> \in Seq(Alphabet)
  BY DEF SplitTypes
<1>5. fed \in 0..fed
  BY <1>1
<1> QED
  BY <1>2, <1>3, <1>4, <1>5 DEF Fragment

LEMMA SameText ==
  ASSUME text' = text
  PROVE  /\ Ends' = Ends /\ Breaks' = Breaks
         /\ \A e : NumberOf(e)' = NumberOf(e)
         /\ \A e : EndBefore(e)' = EndBefore(e)
         /\ \A e : TextLine(e)' = TextLine(e)
<1>1. Ends' = Ends /\ Breaks' = Breaks
  BY DEF Ends, Breaks
<1>2. \A e : NumberOf(e)' = NumberOf(e)
  BY <1>1 DEF NumberOf
<1>3. \A e : EndBefore(e)' = EndBefore(e)
  BY <1>1 DEF EndBefore, Before
<1>4. \A e : TextLine(e)' = TextLine(e)
  BY <1>3 DEF TextLine, IsPair
<1> QED
  BY <1>1, <1>2, <1>3, <1>4

\* A line is added when the next end is reached.
LEMMA LineEnded ==
  ASSUME SplitInv, NEW upTo, LineEnds(upTo),
         NEW e \in Ends, Yielded < e, \A x \in Ends : x < e => x <= Yielded,
         lineFile \o Fragment = TextLine(e), Yielded' = e
  PROVE  LinesSoFar'
<1>1. text \in Seq(Alphabet) /\ text' = text
  BY DEF SplitInv, SplitTypes, LineEnds, readVars
<1>2. Yielded \in Nat /\ e \in Nat /\ \A x \in Ends : x \in Nat
  BY <1>1, EndsAreFinite DEF SplitInv, SplitTypes, BetweenBreaks, Yielded
<1>3. NumberOf(e) = Len(complete) + 1
  BY <1>1, <1>2, NextEnd DEF SplitInv, LinesSoFar
<1>4. complete \in Seq(Seq(Alphabet)) /\ TextLine(e) \in Seq(Alphabet)
  <2>1. lineFile \in Seq(Alphabet) /\ complete \in Seq(Seq(Alphabet))
    BY DEF SplitInv, SplitTypes
  <2>2. Fragment \in Seq(Alphabet)
    BY FragmentIs DEF SplitInv
  <2> QED
    BY <2>1, <2>2, ConcatProperties
<1>5. complete' = Append(complete, TextLine(e)) /\ lineFile' = <<>>
  BY DEF LineEnds
<1>6. /\ Len(complete') = NumberOf(e) /\ complete'[NumberOf(e)] = TextLine(e)
      /\ \A i \in 1..Len(complete) : complete'[i] = complete[i]
  BY <1>3, <1>4, <1>5, AppendProperties
<1>7. ASSUME NEW x \in Ends, x <= e
      PROVE  complete'[NumberOf(x)] = TextLine(x)
  <2>1. CASE x = e
    BY <1>6, <2>1
  <2>2. CASE x # e
    <3>1. x <= Yielded
      BY <1>2, <1>7, <2>2
    <3>2. NumberOf(x) \in 1..Len(complete)
      BY <1>1, <1>2, <3>1, NumberRange DEF SplitInv, LinesSoFar
    <3> QED
      BY <1>6, <3>1, <3>2 DEF SplitInv, LinesSoFar
  <2> QED
    BY <2>1, <2>2
<1>8. EndBefore(e + 1) = e
  BY <1>1, EndBeforeNext
<1>9. SubSeq(text, e + 1, e) = <<>>
  BY <1>2, SubSeqEmpty
<1> QED
  <2>1. Ends' = Ends /\ EndBefore(e + 1)' = e /\ NumberOf(e)' = NumberOf(e)
    BY <1>1, <1>8, SameText
  <2>2. \A x \in Ends : NumberOf(x)' = NumberOf(x) /\ TextLine(x)' = TextLine(x)
    BY <1>1, SameText
  <2>3. EndBefore(Yielded + 1)' = e
    BY <2>1
  <2>4. EndBefore(Yielded + 1)' \in 0..Yielded'
    BY <1>2, <2>3
  <2>5. lineFile' = SubSeq(text', EndBefore(Yielded + 1)' + 1, Yielded')
    BY <1>1, <1>5, <1>9, <2>3
  <2>6. Len(complete') = NumberOf(Yielded)'
    BY <1>6, <2>1
  <2>7. \A x \in Ends' : x <= Yielded' => complete'[NumberOf(x)'] = TextLine(x)'
    BY <1>7, <2>1, <2>2
  <2> QED
    BY <2>4, <2>5, <2>6, <2>7 DEF LinesSoFar

-----------------------------------------------------------------------------
(* Every step keeps the invariant.                                         *)

LEMMA LinesUnchanged ==
  ASSUME SplitInv, text' = text, UNCHANGED lineVars
  PROVE  BetweenBreaks' /\ LinesSoFar'
<1>1. Ends' = Ends /\ Breaks' = Breaks /\ \A e : EndBefore(e)' = EndBefore(e)
  BY SameText
<1>2. \A e : NumberOf(e)' = NumberOf(e) /\ TextLine(e)' = TextLine(e)
  BY SameText
<1>3. /\ start' = start /\ pendingCr' = pendingCr /\ pending' = pending
      /\ lineFile' = lineFile /\ complete' = complete
  BY DEF lineVars
<1>4. BetweenBreaks'
  BY <1>1, <1>3 DEF SplitInv, BetweenBreaks
<1>5. Yielded' = Yielded
  BY <1>1, <1>3 DEF Yielded
<1> QED
  BY <1>1, <1>2, <1>3, <1>4, <1>5 DEF SplitInv, LinesSoFar

LEMMA SplitStarts == text \in Seq(Alphabet) /\ Unread => SplitInv
<1> SUFFICES ASSUME text \in Seq(Alphabet),
                    fed = 0, start = 0, pendingCr = FALSE,
                    lineFile = <<>>, pending = FALSE, complete = <<>>
             PROVE  SplitInv
  BY DEF Unread
<1>1. SplitTypes
  <2>1. fed \in 0..Len(text) /\ start \in 0..fed
    OBVIOUS
  <2>2. lineFile \in Seq(Alphabet) /\ complete \in Seq(Seq(Alphabet))
    BY EmptySeq
  <2> QED
    BY <2>1, <2>2 DEF SplitTypes
<1>2. BetweenBreaks
  BY DEF BetweenBreaks
<1>3. Yielded = 0
  BY DEF Yielded
<1>4. EndBefore(0 + 1) = 0
  BY EndBeforeNext
<1>5. NumberOf(0) = 0 /\ SubSeq(text, 1, 0) = <<>> /\ \A e \in Ends : ~(e <= 0)
  BY NoEndsYet, EndsAreFinite, SubSeqEmpty
<1> QED
  BY <1>1, <1>2, <1>3, <1>4, <1>5 DEF SplitInv, LinesSoFar

LEMMA ReadPieceStep ==
  ASSUME SplitInv, NEW n \in Nat, ReadPiece(n)
  PROVE  SplitInv'
<1>1. SplitTypes'
  BY DEF SplitInv, SplitTypes, ReadPiece, lineVars
<1>2. BetweenBreaks' /\ LinesSoFar'
  BY LinesUnchanged DEF ReadPiece
<1> QED
  BY <1>1, <1>2 DEF SplitInv

\* A step of the loop keeps the types.
LEMMA TypesKept ==
  ASSUME SplitTypes, NEW upTo \in 0..fed,
         LineEnds(upTo) \/ (Continue /\ upTo = fed)
  PROVE  SplitTypes'
<1>1. Fragment \in Seq(Alphabet) /\ lineFile \in Seq(Alphabet) /\ complete \in Seq(Seq(Alphabet))
  BY FragmentIs DEF SplitTypes
<1>2. lineFile \o Fragment \in Seq(Alphabet)
  BY <1>1, ConcatProperties
<1>3. Append(complete, lineFile \o Fragment) \in Seq(Seq(Alphabet))
  BY <1>1, <1>2, AppendProperties
<1>4. CASE LineEnds(upTo)
  <2>1. /\ text' = text /\ fed' = fed /\ start' = upTo /\ pendingCr' = FALSE /\ pending' = FALSE
        /\ lineFile' = <<>> /\ complete' = Append(complete, lineFile \o Fragment)
    BY <1>4 DEF LineEnds, readVars
  <2>2. lineFile' \in Seq(Alphabet)
    BY <2>1, EmptySeq
  <2> QED
    BY <1>3, <2>1, <2>2 DEF SplitTypes
<1>5. CASE Continue /\ upTo = fed
  <2>1. CrWaits \in BOOLEAN
    BY DEF CrWaits
  <2> QED
    BY <1>1, <1>2, <1>5, <2>1 DEF Continue, readVars, SplitTypes
<1> QED
  BY <1>4, <1>5

LEMMA EndUnterminatedStep ==
  ASSUME SplitInv, EndUnterminated
  PROVE  SplitInv'
<1> DEFINE e == Len(text) + 1
<1>1. /\ text \in Seq(Alphabet) /\ Len(text) \in Nat /\ text' = text
      /\ start = Len(text) /\ fed = Len(text) /\ Yielded = Len(text)
      /\ ~pendingCr /\ pending /\ Len(text) \notin Breaks \cup {0}
  BY DEF SplitInv, SplitTypes, BetweenBreaks, Yielded, EndUnterminated, LineEnds, readVars
<1>2. SplitTypes'
  BY <1>1, TypesKept DEF SplitInv, SplitTypes, EndUnterminated
<1>3. start' = Len(text) /\ ~pendingCr' /\ ~pending'
  BY <1>1 DEF EndUnterminated, LineEnds
<1>4. Breaks' = Breaks
  BY <1>1, SameText
<1>5. BetweenBreaks'
  BY <1>1, <1>3, <1>4 DEF BetweenBreaks
<1>6. Yielded' = e
  BY <1>1, <1>3, <1>4 DEF Yielded
<1>7. e \in Ends /\ Yielded < e /\ \A x \in Ends : x < e => x <= Yielded
  BY <1>1, EndsAreFinite DEF Ends
<1>8. BreaksAhead = {}
  BY <1>1 DEF BreaksAhead
<1>9. Fragment = <<>>
  BY <1>1, <1>8, FragmentIs, SubSeqEmpty DEF SplitInv
<1>10. lineFile \o Fragment = TextLine(e)
  <2>1. EndBefore(Yielded + 1) = EndBefore(e) /\ ~IsPair(e)
    BY <1>1 DEF IsPair
  <2>2. lineFile = SubSeq(text, EndBefore(e) + 1, Len(text))
    BY <1>1, <2>1 DEF SplitInv, LinesSoFar
  <2>3. TextLine(e) = SubSeq(text, EndBefore(e) + 1, Len(text))
    BY <1>1, <2>1, TextLineIs
  <2>4. lineFile \in Seq(Alphabet)
    BY DEF SplitInv, SplitTypes
  <2> QED
    BY <1>9, <2>2, <2>3, <2>4, ConcatEmptySeq
<1>11. LinesSoFar'
  BY <1>6, <1>7, <1>10, LineEnded DEF EndUnterminated
<1> QED
  BY <1>2, <1>5, <1>11 DEF SplitInv

LEMMA EndPendingStep ==
  ASSUME SplitInv, EndPending
  PROVE  SplitInv'
<1> DEFINE e == BreakUpTo(start)
<1>1. /\ text \in Seq(Alphabet) /\ Len(text) \in Nat /\ text' = text
      /\ start \in 1..fed /\ fed \in 1..Len(text)
      /\ start < fed \/ start = Len(text)
      /\ pendingCr /\ pending /\ text[start] = "CR"
  BY DEF SplitInv, SplitTypes, BetweenBreaks, EndPending, LineEnds, readVars
<1>2. \/ e = start /\ e \in 1..Len(text) /\ ~(start < Len(text) /\ text[start + 1] = "LF")
      \/ e = start + 1 /\ e \in 1..fed /\ text[e] = "LF"
  BY <1>1 DEF BreakUpTo
<1>3. e \in 1..fed /\ e \in Breaks
  BY <1>1, <1>2 DEF Breaks
<1>4. SplitTypes'
  BY <1>1, <1>3, TypesKept DEF SplitInv, EndPending
<1>5. start' = e /\ ~pendingCr' /\ ~pending' /\ Breaks' = Breaks
  BY <1>1, SameText DEF EndPending, LineEnds
<1>6. BetweenBreaks'
  BY <1>1, <1>2, <1>3, <1>5 DEF BetweenBreaks
<1>7. Yielded' = e /\ Yielded = start - 1
  BY <1>1, <1>3, <1>5 DEF Yielded
<1>8. e \in Ends /\ Yielded < e
  BY <1>1, <1>2, <1>3, <1>7 DEF Ends
<1>9. ASSUME NEW x \in Ends, x < e
      PROVE  x <= Yielded
  <2>1. x # start \/ e = start
    BY <1>1, <1>2 DEF Ends, Breaks
  <2> QED
    BY <1>1, <1>2, <1>7, <1>9, <2>1, EndsAreFinite
<1>10. lineFile \o Fragment = TextLine(e)
  <2>1. Yielded + 1 = start /\ lineFile = SubSeq(text, EndBefore(start) + 1, start - 1)
    BY <1>1, <1>7 DEF SplitInv, LinesSoFar
  <2>2. EndBefore(e) = EndBefore(start)
    <3>1. CASE e = start
      BY <3>1
    <3>2. CASE e = start + 1
      <4>1. \A x \in Ends : x <= start => x <= start - 1
        BY <1>1, <1>7, <1>9, <3>2, EndsAreFinite
      <4>2. start \in Nat /\ start - 1 \in Nat /\ start - 1 <= start
        BY <1>1
      <4>3. EndBefore(start + 1) = EndBefore(start - 1 + 1)
        BY <1>1, <4>1, <4>2, NoEndBetween
      <4>4. start - 1 + 1 = start
        BY <4>2
      <4> QED
        BY <3>2, <4>3, <4>4
    <3> QED
      BY <1>2, <3>1, <3>2
  <2>3. TextLine(e) = SubSeq(text, EndBefore(e) + 1, start - 1)
    <3>1. CASE e = start
      <4>1. ~IsPair(e)
        BY <1>1, <3>1 DEF IsPair
      <4> QED
        BY <3>1, <4>1, TextLineIs
    <3>2. CASE e = start + 1
      <4>1. IsPair(e) /\ e - 2 = start - 1
        BY <1>1, <1>2, <3>2 DEF IsPair
      <4> QED
        BY <4>1, TextLineIs
    <3> QED
      BY <1>2, <3>1, <3>2
  <2>4. Fragment = <<>> /\ lineFile \in Seq(Alphabet)
    BY <1>1, FragmentIs DEF SplitInv, SplitTypes
  <2> QED
    BY <2>1, <2>2, <2>3, <2>4, ConcatEmptySeq
<1>11. LinesSoFar'
  BY <1>7, <1>8, <1>9, <1>10, LineEnded DEF EndPending
<1> QED
  BY <1>4, <1>6, <1>11 DEF SplitInv

\* A fragment is added to the line.
LEMMA LineContinued ==
  ASSUME SplitInv, NEW q \in Nat, Yielded <= q, q <= Len(text), start = Yielded,
         \A x \in Ends : x <= q => x <= Yielded,
         Fragment = SubSeq(text, start + 1, q)
  PROVE  /\ lineFile \o Fragment = SubSeq(text, EndBefore(q + 1) + 1, q)
         /\ EndBefore(q + 1) = EndBefore(start + 1) /\ EndBefore(q + 1) \in 0..q
         /\ NumberOf(q) = Len(complete)
<1>1. text \in Seq(Alphabet) /\ Len(text) \in Nat /\ Yielded \in Nat
  BY DEF SplitInv, SplitTypes
<1>2. NumberOf(q) = NumberOf(Yielded) /\ EndBefore(q + 1) = EndBefore(Yielded + 1)
  BY <1>1, NoEndBetween
<1>3. EndBefore(start + 1) \in 0..start /\ lineFile = SubSeq(text, EndBefore(start + 1) + 1, start)
  BY DEF SplitInv, LinesSoFar
<1>4. lineFile \o Fragment = SubSeq(text, EndBefore(start + 1) + 1, q)
  <2> DEFINE m == EndBefore(start + 1) + 1
  <2>1. m \in 1..(Len(text) + 1) /\ start \in (m - 1)..Len(text) /\ q \in start..Len(text)
    BY <1>1, <1>3
  <2>2. SubSeq(text, m, start) \o SubSeq(text, start + 1, q) = SubSeq(text, m, q)
    BY <1>1, <2>1, ConcatAdjacentSubSeq
  <2> QED
    BY <1>3, <2>2
<1>5. EndBefore(q + 1) \in 0..q /\ EndBefore(q + 1) = EndBefore(start + 1)
  BY <1>1, <1>2, <1>3
<1>6. NumberOf(q) = Len(complete)
  BY <1>2 DEF SplitInv, LinesSoFar
<1> QED
  BY <1>4, <1>5, <1>6

LEMMA ContinueStep ==
  ASSUME SplitInv, Continue
  PROVE  SplitInv'
<1>1. /\ text \in Seq(Alphabet) /\ Len(text) \in Nat /\ text' = text
      /\ start \in 0..(fed - 1) /\ fed \in 1..Len(text) /\ ~pendingCr
  BY DEF SplitInv, SplitTypes, Continue, readVars
<1>2. Yielded = start
  BY <1>1 DEF SplitInv, BetweenBreaks, Yielded
<1>q. PICK q \in Nat : (CrWaits => q = fed - 1) /\ (~CrWaits => q = fed)
  BY <1>1
<1>3. q \in start..fed /\ \A i \in (start + 1)..q : text[i] \notin Separators
  <2>1. CASE CrWaits
    BY <1>q, <1>1, <2>1, FirstBreakIsFirst DEF SplitInv, CrWaits
  <2>2. CASE ~CrWaits
    <3>1. BreaksAhead = {}
      BY <2>2 DEF Continue
    <3> QED
      BY <1>q, <1>1, <2>2, <3>1 DEF BreaksAhead
  <2> QED
    BY <2>1, <2>2
<1>4. \A x \in Ends : x <= q => x <= Yielded
  BY <1>1, <1>2, <1>3 DEF Ends, Breaks, Separators
<1>5. Fragment = SubSeq(text, start + 1, q)
  <2>1. CASE CrWaits
    BY <1>q, <1>1, <2>1, FragmentIs DEF SplitInv, CrWaits
  <2>2. CASE ~CrWaits
    BY <1>q, <1>1, <2>2, FragmentIs DEF SplitInv, Continue
  <2> QED
    BY <2>1, <2>2
<1>6. /\ lineFile' = SubSeq(text, EndBefore(q + 1) + 1, q)
      /\ EndBefore(q + 1) = EndBefore(start + 1) /\ EndBefore(q + 1) \in 0..q
      /\ Len(complete) = NumberOf(q)
  <2>1. q \in Nat /\ Yielded <= q /\ q <= Len(text)
    BY <1>1, <1>2, <1>3
  <2> QED
    BY <1>2, <1>4, <1>5, <2>1, LineContinued DEF Continue
<1>7. SplitTypes'
  BY <1>1, TypesKept DEF SplitInv
<1>8. /\ start' = fed /\ pendingCr' = CrWaits /\ pending' = TRUE /\ complete' = complete
      /\ Breaks' = Breaks
  BY <1>1, SameText DEF Continue
<1>9. BetweenBreaks' /\ Yielded' = q
  <2>1. CASE CrWaits
    <3>1. pendingCr' /\ text[fed] = "CR"
      BY <1>8, <2>1 DEF CrWaits
    <3> QED
      BY <1>q, <1>1, <1>8, <2>1, <3>1 DEF BetweenBreaks, Yielded
  <2>2. CASE ~CrWaits
    <3>1. ~pendingCr' /\ text[fed] \notin Separators
      BY <1>q, <1>1, <1>3, <1>8, <2>2
    <3>2. fed \notin Breaks \cup {0} /\ text[fed] # "CR"
      BY <1>1, <3>1 DEF Breaks, Separators
    <3> QED
      BY <1>q, <1>1, <1>8, <2>2, <3>1, <3>2 DEF BetweenBreaks, Yielded
  <2> QED
    BY <2>1, <2>2
<1>10. LinesSoFar'
  <2>1. Ends' = Ends /\ EndBefore(q + 1)' = EndBefore(q + 1) /\ NumberOf(q)' = NumberOf(q)
    BY <1>1, SameText
  <2>2. \A x \in Ends : NumberOf(x)' = NumberOf(x) /\ TextLine(x)' = TextLine(x)
    BY <1>1, SameText
  <2>3. EndBefore(Yielded + 1)' = EndBefore(q + 1)
    BY <1>9, <2>1
  <2>4. EndBefore(Yielded + 1)' \in 0..Yielded'
    BY <1>6, <1>9, <2>3
  <2>5. lineFile' = SubSeq(text', EndBefore(Yielded + 1)' + 1, Yielded')
    BY <1>1, <1>6, <1>9, <2>3
  <2>6. Len(complete') = NumberOf(Yielded)'
    BY <1>6, <1>8, <1>9, <2>1
  <2>7. \A x \in Ends' : x <= Yielded' => complete'[NumberOf(x)'] = TextLine(x)'
    BY <1>4, <1>8, <1>9, <2>1, <2>2 DEF SplitInv, LinesSoFar
  <2> QED
    BY <2>4, <2>5, <2>6, <2>7 DEF LinesSoFar
<1> QED
  BY <1>7, <1>9, <1>10 DEF SplitInv

LEMMA EndAtBreakStep ==
  ASSUME SplitInv, EndAtBreak
  PROVE  SplitInv'
<1> DEFINE i == FirstBreak
           e == BreakUpTo(i)
<1>1. /\ text \in Seq(Alphabet) /\ Len(text) \in Nat /\ text' = text /\ fed \in 0..Len(text)
      /\ start \in 0..fed /\ ~pendingCr /\ BreaksAhead # {}
  BY DEF SplitInv, SplitTypes, EndAtBreak, LineEnds, readVars
<1>2. /\ i \in (start + 1)..fed /\ text[i] \in Separators
      /\ \A j \in (start + 1)..(i - 1) : text[j] \notin Separators
  BY <1>1, FirstBreakIsFirst DEF SplitInv
<1>3. text[i] = "CR" => i < fed
  BY <1>1, <1>2 DEF EndAtBreak, CrWaits
<1>4. Yielded = start
  BY <1>1, <1>2 DEF SplitInv, BetweenBreaks, Yielded
<1>5. \/ e = i /\ ~(text[i] = "CR" /\ i < Len(text) /\ text[i + 1] = "LF")
      \/ e = i + 1 /\ e <= fed /\ text[i] = "CR" /\ text[e] = "LF"
  BY <1>1, <1>2, <1>3 DEF BreakUpTo
<1>6. e \in (start + 1)..fed /\ e \in Breaks
  BY <1>1, <1>2, <1>5 DEF Breaks, Separators
<1>7. SplitTypes'
  BY <1>1, <1>6, TypesKept DEF SplitInv, EndAtBreak
<1>8. start' = e /\ ~pendingCr' /\ ~pending' /\ Breaks' = Breaks
  BY <1>1, SameText DEF EndAtBreak, LineEnds
<1>9. BetweenBreaks'
  BY <1>1, <1>6, <1>8 DEF BetweenBreaks, Breaks
<1>10. Yielded' = e
  BY <1>6, <1>8 DEF Yielded
<1>11. e \in Ends /\ Yielded < e
  BY <1>1, <1>4, <1>6 DEF Ends
<1>12. ASSUME NEW x \in Ends, x <= i - 1
       PROVE  x <= Yielded
  <2>1. x \in 1..Len(text) /\ text[x] \in Separators
    BY <1>1, <1>2, <1>12 DEF Ends, Breaks, Separators
  <2> QED
    BY <1>1, <1>2, <1>4, <1>12, <2>1
<1>13. ASSUME NEW x \in Ends, x < e
       PROVE  x <= Yielded
  <2>1. x # i \/ e = i
    BY <1>1, <1>2, <1>5 DEF Ends, Breaks
  <2>2. x <= i - 1
    BY <1>1, <1>2, <1>5, <1>13, <2>1, EndsAreFinite
  <2> QED
    BY <1>12, <2>2
<1>14. lineFile \o Fragment = TextLine(e)
  <2>1. i - 1 \in Nat /\ Yielded <= i - 1 /\ i - 1 <= Len(text) /\ i - 1 + 1 = i
    BY <1>1, <1>2, <1>4
  <2>2. Fragment = SubSeq(text, start + 1, i - 1)
    BY <1>1, FragmentIs DEF SplitInv
  <2>3. lineFile \o Fragment = SubSeq(text, EndBefore(i) + 1, i - 1)
    BY <1>4, <1>12, <2>1, <2>2, LineContinued
  <2>4. EndBefore(e) = EndBefore(i)
    <3>1. CASE e = i
      BY <3>1
    <3>2. CASE e = i + 1
      <4>1. \A x \in Ends : x <= i => x <= i - 1
        <5>1. i \in Nat /\ Ends \subseteq Nat
          BY <1>1, <1>2, EndsAreFinite
        <5>2. i < e /\ ~(i <= Yielded)
          BY <1>1, <1>2, <1>4, <3>2, <5>1
        <5>3. i \notin Ends
          BY <1>13, <5>2
        <5> QED
          BY <5>1, <5>3
      <4>2. i \in Nat /\ i - 1 <= i
        BY <1>1, <1>2
      <4>3. EndBefore(i + 1) = EndBefore(i - 1 + 1)
        BY <1>1, <2>1, <4>1, <4>2, NoEndBetween
      <4> QED
        BY <2>1, <3>2, <4>3
    <3> QED
      BY <1>5, <3>1, <3>2
  <2>5. TextLine(e) = SubSeq(text, EndBefore(e) + 1, i - 1)
    <3>1. CASE e = i
      <4>1. ASSUME IsPair(i)
            PROVE  FALSE
        <5>1. i \in 2..Len(text) /\ text[i] = "LF" /\ text[i - 1] = "CR"
          BY <4>1 DEF IsPair
        <5>2. i - 1 = start
          BY <1>1, <1>2, <5>1 DEF Separators
        <5>3. start \in 1..(Len(text) - 1) /\ text[start] = "CR" /\ text[start + 1] = "LF"
          BY <1>1, <5>1, <5>2
        <5> QED
          BY <1>1, <5>3 DEF SplitInv, BetweenBreaks
      <4> QED
        BY <3>1, <4>1, TextLineIs
    <3>2. CASE e = i + 1
      <4>1. IsPair(e) /\ e - 2 = i - 1
        BY <1>1, <1>2, <1>5, <3>2 DEF IsPair
      <4> QED
        BY <4>1, TextLineIs
    <3> QED
      BY <1>5, <3>1, <3>2
  <2> QED
    BY <2>3, <2>4, <2>5
<1>15. LinesSoFar'
  BY <1>10, <1>11, <1>13, <1>14, LineEnded DEF EndAtBreak
<1> QED
  BY <1>7, <1>9, <1>15 DEF SplitInv

-----------------------------------------------------------------------------
(* The theorems.                                                           *)

LEMMA SplitInvariance == SplitInv /\ [SplitNext]_splitVars => SplitInv'
<1> SUFFICES ASSUME SplitInv, [SplitNext]_splitVars
             PROVE  SplitInv'
  OBVIOUS
<1>1. ASSUME NEW n \in 1..Len(text), ReadPiece(n)
      PROVE  SplitInv'
  BY <1>1, ReadPieceStep
<1>2. CASE Continue
  BY <1>2, ContinueStep
<1>3. CASE EndPending
  BY <1>3, EndPendingStep
<1>4. CASE EndAtBreak
  BY <1>4, EndAtBreakStep
<1>5. CASE EndUnterminated
  BY <1>5, EndUnterminatedStep
<1>6. CASE StartOver
  <2>1. (text \in Seq(Alphabet) /\ Unread)'
    BY <1>6 DEF StartOver, Unread, SplitInv, SplitTypes
  <2>2. (text \in Seq(Alphabet) /\ Unread)' => SplitInv'
    BY SplitStarts, PTL
  <2> QED
    BY <2>1, <2>2
<1>7. CASE UNCHANGED splitVars
  <2>1. text' = text /\ fed' = fed /\ UNCHANGED lineVars
    BY <1>7 DEF splitVars, readVars
  <2>2. SplitTypes'
    BY <2>1 DEF SplitInv, SplitTypes, lineVars
  <2> QED
    BY <2>1, <2>2, LinesUnchanged DEF SplitInv
<1> QED
  BY <1>1, <1>2, <1>3, <1>4, <1>5, <1>6, <1>7 DEF SplitNext

LEMMA SplitInvariant == Splitting => []SplitInv
<1>1. text \in Texts /\ Unread => SplitInv
  BY TextsAssumption, SplitStarts
<1> QED
  BY <1>1, SplitInvariance, PTL DEF Splitting

LEMMA SplitInvSuffices == SplitInv => LinesAreExact
<1> SUFFICES ASSUME SplitInv
             PROVE  LinesAreExact
  OBVIOUS
<1>1. text \in Seq(Alphabet) /\ Len(text) \in Nat /\ Yielded \in Int /\ \A e \in Ends : e \in Int
  BY EndsAreFinite DEF SplitInv, SplitTypes, Yielded
<1>2. Len(complete) = NumberOf(Yielded) /\ NumberOf(Yielded) <= Cardinality(Ends)
  BY <1>1, EndsAreFinite DEF SplitInv, LinesSoFar
<1>3. ASSUME NEW e \in Ends, NumberOf(e) <= Len(complete)
      PROVE  complete[NumberOf(e)] = TextLine(e)
  <2>1. ~(Yielded < e)
    <3>1. NumberOf(Yielded) \in Nat /\ NumberOf(e) \in Nat
      BY <1>1, EndsAreFinite
    <3> QED
      BY <1>1, <1>2, <1>3, <3>1, EndsInOrder
  <2> QED
    BY <1>1, <2>1 DEF SplitInv, LinesSoFar
<1>4. ASSUME SplitEnded
      PROVE  Len(complete) = Cardinality(Ends)
  <2>1. \A e \in Ends : e <= Yielded
    BY <1>1, <1>4 DEF SplitEnded, Yielded, Ends, Breaks
  <2>2. {e \in Ends : e <= Yielded} = Ends
    BY <2>1
  <2> QED
    BY <1>2, <2>2 DEF NumberOf
<1> QED
  BY <1>2, <1>3, <1>4 DEF LinesAreExact

\* split_text_fragments and the loop over it: for every text and every way of
\* cutting it into chunks, the lines that have ended are those of the text.
THEOREM LinesTheorem == Splitting => []LinesAreExact
  BY SplitInvariant, SplitInvSuffices, PTL

-----------------------------------------------------------------------------
(* The greatest of some numbers.                                           *)

LEMMA GreatestIsUnique ==
  ASSUME NEW T \in SUBSET Nat, NEW g \in {0} \cup T, \A l \in {0} \cup T : l <= g
  PROVE  LastOf(T) = g
<1>1. \A k \in {0} \cup T : (\A l \in {0} \cup T : l <= k) => k = g
  <2>1. \A k \in {0} \cup T : k \in Nat /\ g \in Nat
    OBVIOUS
  <2> QED
    BY <2>1
<1> QED
  BY <1>1 DEF LastOf

LEMMA GreatestExists ==
  ASSUME NEW n \in Nat, NEW T \in SUBSET (1..n)
  PROVE  /\ LastOf(T) \in {0} \cup T /\ \A l \in {0} \cup T : l <= LastOf(T)
         /\ LastOf(T) \in 0..n
<1> DEFINE above == {n - k : k \in {0} \cup T}
<1>1. above \in SUBSET Nat /\ n \in above
  OBVIOUS
<1>2. PICK x \in above : \A y \in above : x <= y
  BY <1>1, LeastElement
<1>3. PICK g \in {0} \cup T : x = n - g
  OBVIOUS
<1>4. \A l \in {0} \cup T : l <= g
  <2>1. \A l \in {0} \cup T : n - l \in above
    OBVIOUS
  <2>2. \A l \in {0} \cup T : n - g <= n - l
    BY <1>2, <1>3, <2>1
  <2> QED
    BY <2>2
<1>5. LastOf(T) = g
  <2>1. T \in SUBSET Nat
    OBVIOUS
  <2> QED
    BY <1>4, <2>1, GreatestIsUnique
<1>6. g \in 0..n
  OBVIOUS
<1> QED
  BY <1>3, <1>4, <1>5, <1>6

\* One more line: it is the last one that counts, or the last one before it is.
LEMMA GreatestOfOneMore ==
  ASSUME NEW n \in Nat, NEW T \in SUBSET (1..(n + 1))
  PROVE  /\ n + 1 \in T => LastOf(T) = n + 1
         /\ n + 1 \notin T => T \in SUBSET (1..n)
<1>1. CASE n + 1 \in T
  <2>1. T \in SUBSET Nat /\ n + 1 \in {0} \cup T /\ \A l \in {0} \cup T : l <= n + 1
    BY <1>1
  <2> QED
    BY <1>1, <2>1, GreatestIsUnique
<1>2. CASE n + 1 \notin T
  BY <1>2
<1> QED
  BY <1>1, <1>2

-----------------------------------------------------------------------------
(* What precedes a line does not depend on what follows it.                *)

\* The lines up to n are the same.
Agree(a, b, n) == \A k \in 1..n : a[k] = b[k]

LEMMA SectionAndHunkPrefix ==
  ASSUME NEW n \in Nat, NEW a, NEW b, Agree(a, b, n)
  PROVE  /\ SectionOf(a, n) = SectionOf(b, n) /\ SectionOf(a, n) \in 0..n
         /\ HunkOf(a, n) = HunkOf(b, n) /\ HunkOf(a, n) \in 0..n
<1>1. ASSUME NEW beginnings
      PROVE  {k \in 1..n : BeginsWith(a[k], beginnings)}
               = {k \in 1..n : BeginsWith(b[k], beginnings)}
  <2>1. \A k \in 1..n : BeginsWith(a[k], beginnings) <=> BeginsWith(b[k], beginnings)
    BY DEF Agree
  <2> QED
    BY <2>1
<1>2. \A beginnings : LastOf({k \in 1..n : BeginsWith(a[k], beginnings)}) \in 0..n
  BY GreatestExists
<1> QED
  BY <1>1, <1>2 DEF SectionOf, HunkOf

LEMMA HeaderPrefix ==
  ASSUME NEW n \in Nat, NEW a, NEW b, Agree(a, b, n), NEW headers
  PROVE  /\ HeaderOf(a, n, headers) = HeaderOf(b, n, headers)
         /\ HeaderOf(a, n, headers) \in 0..n
<1> DEFINE Header(l) == {k \in (SectionOf(l, n) + 1)..n :
                           /\ BeginsWith(l[k], DOMAIN headers)
                           /\ HunkOf(l, k) <= SectionOf(l, n)}
<1>1. SectionOf(a, n) = SectionOf(b, n) /\ SectionOf(a, n) \in 0..n
  BY SectionAndHunkPrefix
<1>2. ASSUME NEW k \in 1..n
      PROVE  a[k] = b[k] /\ HunkOf(a, k) = HunkOf(b, k)
  <2>1. k \in Nat /\ Agree(a, b, k)
    BY DEF Agree
  <2>2. HunkOf(a, k) = HunkOf(b, k)
    BY <2>1, SectionAndHunkPrefix
  <2> QED
    BY <2>2 DEF Agree
<1>3. \A k \in (SectionOf(a, n) + 1)..n : k \in 1..n
  BY <1>1
<1>4. Header(a) = Header(b)
  BY <1>1, <1>2, <1>3
<1>5. Header(a) \in SUBSET (1..n)
  BY <1>3
<1>6. LastOf(Header(a)) \in 0..n
  BY <1>5, GreatestExists
<1> QED
  BY <1>4, <1>6 DEF HeaderOf

LEMMA PathPrefix ==
  ASSUME NEW n \in Nat, NEW a, NEW b, Agree(a, b, n)
  PROVE  /\ \A headers : PathIn(a, n, headers) = PathIn(b, n, headers)
         /\ SectionPathOf(a, n) = SectionPathOf(b, n)
<1>1. ASSUME NEW headers
      PROVE  PathIn(a, n, headers) = PathIn(b, n, headers)
  <2> DEFINE k == HeaderOf(a, n, headers)
  <2>1. HeaderOf(b, n, headers) = k /\ k \in 0..n
    BY HeaderPrefix
  <2>2. k # 0 => a[k] = b[k]
    BY <2>1 DEF Agree
  <2> QED
    BY <2>1, <2>2 DEF PathIn
<1>2. SectionPathOf(a, n) = SectionPathOf(b, n)
  <2>1. SectionOf(b, n) = SectionOf(a, n) /\ SectionOf(a, n) \in 0..n
    BY SectionAndHunkPrefix
  <2>2. SectionOf(a, n) # 0 => a[SectionOf(a, n)] = b[SectionOf(a, n)]
    BY <2>1 DEF Agree
  <2> QED
    BY <2>1, <2>2 DEF SectionPathOf
<1> QED
  BY <1>1, <1>2

LEMMA NumberPrefix ==
  ASSUME NEW n \in Nat, NEW a, NEW b, Agree(a, b, n), HunkOf(a, n) # 0
  PROVE  \A side, signs : NumberIn(a, n, side, signs) = NumberIn(b, n, side, signs)
<1>1. HunkOf(b, n) = HunkOf(a, n) /\ HunkOf(a, n) \in 1..n /\ a[HunkOf(a, n)] = b[HunkOf(a, n)]
  BY SectionAndHunkPrefix DEF Agree
<1>2. ASSUME NEW signs
      PROVE  {k \in (HunkOf(a, n) + 1)..(n - 1) : SignOf(a, k) \in signs}
               = {k \in (HunkOf(a, n) + 1)..(n - 1) : SignOf(b, k) \in signs}
  <2>1. \A k \in (HunkOf(a, n) + 1)..(n - 1) : k \in 1..n
    BY <1>1
  <2>2. \A k \in 1..n : SignOf(a, k) = SignOf(b, k)
    BY DEF Agree, SignOf
  <2> QED
    BY <2>1, <2>2
<1> QED
  BY <1>1, <1>2 DEF NumberIn

\* Whether a line is masked depends on the lines up to it.
LEMMA ExemptPrefix ==
  ASSUME NEW n \in Nat \ {0}, NEW a, NEW b, Agree(a, b, n)
  PROVE  Exempt(a, n) <=> Exempt(b, n)
<1>1. a[n] = b[n] /\ n \in Nat
  BY DEF Agree
<1>2. InHunk(a, n) <=> InHunk(b, n)
  BY SectionAndHunkPrefix DEF InHunk
<1>3. /\ Added(a, n) <=> Added(b, n)
      /\ Removed(a, n) <=> Removed(b, n)
      /\ Kept(a, n) <=> Kept(b, n)
  BY <1>1, <1>2 DEF Added, Removed, Kept, SignOf
<1>4. InHunk(a, n) => /\ NewPlace(a, n) = NewPlace(b, n)
                      /\ OldPlace(a, n) = OldPlace(b, n)
                      /\ KeptPlace(a, n) = KeptPlace(b, n)
  <2> SUFFICES ASSUME InHunk(a, n)
               PROVE  /\ NewPlace(a, n) = NewPlace(b, n)
                      /\ OldPlace(a, n) = OldPlace(b, n)
                      /\ KeptPlace(a, n) = KeptPlace(b, n)
    OBVIOUS
  <2>1. HunkOf(a, n) # 0
    BY <1>1, SectionAndHunkPrefix DEF InHunk
  <2>2. \A headers : PathIn(a, n, headers) = PathIn(b, n, headers)
    BY <1>1, PathPrefix
  <2>3. NewNumber(a, n) = NewNumber(b, n) /\ OldNumber(a, n) = OldNumber(b, n)
    <3>1. \A side, signs : NumberIn(a, n, side, signs) = NumberIn(b, n, side, signs)
      BY <1>1, <2>1, NumberPrefix
    <3> QED
      BY <3>1 DEF NewNumber, OldNumber
  <2>4. NewPlace(a, n) = NewPlace(b, n) /\ OldPlace(a, n) = OldPlace(b, n)
    BY <2>2, <2>3 DEF NewPlace, OldPlace
  <2> QED
    BY <2>4 DEF KeptPlace
<1>5. Place(a, n) = Place(b, n) /\ Content(a, n) = Content(b, n)
  <2>1. Content(a, n) = Content(b, n)
    BY <1>1 DEF Content
  <2>2. Place(a, n) = Place(b, n)
    BY <1>3, <1>4 DEF Place, Added, Removed, Kept
  <2> QED
    BY <2>1, <2>2
<1>6. SectionPathOf(a, n) = SectionPathOf(b, n)
  BY PathPrefix
<1> QED
  <2>1. IsDocumented(a, n) <=> IsDocumented(b, n)
    BY <1>5 DEF IsDocumented, IsAmong
  <2>2. IsRetired(a, n) <=> IsRetired(b, n)
    BY <1>3, <1>5, <1>6 DEF IsRetired, IsAmong
  <2>3. IsReference(a, n) <=> IsReference(b, n)
    BY <1>1, <1>5 DEF IsReference
  <2>4. IsRedacted(a, n) <=> IsRedacted(b, n)
    BY <1>1, <1>3, <1>5 DEF IsRedacted
  <2> QED
    BY <2>1, <2>2, <2>3, <2>4 DEF Exempt

-----------------------------------------------------------------------------
(* Lines one after the other.                                              *)

\* joined[n] are the first n lines.
IsJoined(joined, lines, n) ==
  joined = [k \in 0..n |-> IF k = 0 THEN <<>> ELSE joined[k - 1] \o Append(lines[k], "LF")]

LEMMA JoinedExists ==
  ASSUME NEW lines, NEW n \in Nat
  PROVE  \E joined : IsJoined(joined, lines, n)
<1> DEFINE Missing == {k \in Nat : \A joined : ~IsJoined(joined, lines, k)}
<1>1. Missing \in SUBSET Nat
  OBVIOUS
<1>2. ASSUME Missing # {}
      PROVE  FALSE
  <2>1. PICK k \in Missing : \A l \in Missing : k <= l
    BY <1>1, <1>2, LeastElement
  <2>2. k # 0
    <3>1. IsJoined([l \in 0..0 |-> <<>>], lines, 0)
      BY DEF IsJoined
    <3> QED
      BY <3>1
  <2>3. k - 1 \in Nat /\ k - 1 \notin Missing
    BY <2>1, <2>2
  <2>4. PICK joined : IsJoined(joined, lines, k - 1)
    BY <2>3
  <2> DEFINE more == [l \in 0..k |-> IF l = k THEN joined[k - 1] \o Append(lines[k], "LF")
                                     ELSE joined[l]]
  <2>5. \A l \in 0..(k - 1) : joined[l] = IF l = 0 THEN <<>>
                                          ELSE joined[l - 1] \o Append(lines[l], "LF")
    BY <2>4 DEF IsJoined
  <2>6. ASSUME NEW l \in 0..k
        PROVE  more[l] = IF l = 0 THEN <<>> ELSE more[l - 1] \o Append(lines[l], "LF")
    <3>1. CASE l = k
      <4>1. k - 1 \in 0..k /\ k - 1 # k
        BY <2>3
      <4>2. more[k - 1] = joined[k - 1]
        BY <4>1
      <4> QED
        BY <2>2, <3>1, <4>2
    <3>2. CASE l # k
      <4>1. l \in 0..(k - 1) /\ more[l] = joined[l]
        BY <2>3, <3>2
      <4>2. l # 0 => more[l - 1] = joined[l - 1]
        BY <2>3, <4>1
      <4> QED
        BY <2>5, <4>1, <4>2
    <3> QED
      BY <3>1, <3>2
  <2>7. IsJoined(more, lines, k)
    <3>1. more = [l \in 0..k |-> more[l]]
      OBVIOUS
    <3>2. [l \in 0..k |-> more[l]]
            = [l \in 0..k |-> IF l = 0 THEN <<>> ELSE more[l - 1] \o Append(lines[l], "LF")]
      BY <2>6
    <3> HIDE DEF more
    <3> QED
      BY <3>1, <3>2 DEF IsJoined
  <2> QED
    BY <2>1, <2>7
<1>3. n \notin Missing
  BY <1>2
<1> QED
  BY <1>3

LEMMA JoinedPrefix ==
  ASSUME NEW f, NEW g, NEW a, NEW b, NEW n \in Nat, NEW m \in Nat, n <= m,
         IsJoined(f, a, n), IsJoined(g, b, m), Agree(a, b, n)
  PROVE  f[n] = g[n]
<1> DEFINE Different == {k \in 0..n : f[k] # g[k]}
<1>1. Different \in SUBSET Nat
  OBVIOUS
<1>2. /\ \A k \in 0..n : f[k] = IF k = 0 THEN <<>> ELSE f[k - 1] \o Append(a[k], "LF")
      /\ \A k \in 0..m : g[k] = IF k = 0 THEN <<>> ELSE g[k - 1] \o Append(b[k], "LF")
  BY DEF IsJoined
<1>3. ASSUME Different # {}
      PROVE  FALSE
  <2>1. PICK k \in Different : \A l \in Different : k <= l
    BY <1>1, <1>3, LeastElement
  <2>2. k \in 0..m /\ k # 0
    <3>1. f[0] = g[0]
      <4>1. 0 \in 0..n /\ 0 \in 0..m
        OBVIOUS
      <4> QED
        BY <1>2, <4>1
    <3>2. k \in 0..n /\ f[k] # g[k]
      OBVIOUS
    <3> QED
      BY <3>1, <3>2
  <2>3. k - 1 \in 0..n /\ k - 1 \notin Different
    BY <2>1, <2>2
  <2>4. f[k - 1] = g[k - 1] /\ a[k] = b[k]
    BY <2>2, <2>3 DEF Agree
  <2>5. f[k] = g[k]
    BY <1>2, <2>2, <2>4
  <2> QED
    BY <2>5
<1> QED
  BY <1>3

\* The function that Joined stands for.
LEMMA JoinedIs ==
  ASSUME NEW lines, Len(lines) \in Nat
  PROVE  \E joined : IsJoined(joined, lines, Len(lines)) /\ Joined(lines) = joined[Len(lines)]
<1> DEFINE chosen == CHOOSE joined : IsJoined(joined, lines, Len(lines))
<1>1. IsJoined(chosen, lines, Len(lines))
  BY JoinedExists
<1>2. Joined(lines) = chosen[Len(lines)]
  BY DEF Joined, IsJoined
<1> QED
  BY <1>1, <1>2

LEMMA JoinedOfNone == Joined(<<>>) = <<>>
<1>1. Len(<<>>) = 0
  OBVIOUS
<1>2. PICK joined : IsJoined(joined, <<>>, 0) /\ Joined(<<>>) = joined[0]
  BY <1>1, JoinedIs
<1> QED
  BY <1>2 DEF IsJoined

LEMMA JoinedOfOneMore ==
  ASSUME NEW S, NEW lines \in Seq(S), NEW line \in S
  PROVE  Joined(Append(lines, line)) = Joined(lines) \o Append(line, "LF")
<1> DEFINE n == Len(lines)
           more == Append(lines, line)
<1>1. /\ n \in Nat /\ Len(more) = n + 1 /\ more[n + 1] = line
      /\ Agree(lines, more, n)
  BY AppendProperties DEF Agree
<1> HIDE DEF more
<1>2. PICK f : IsJoined(f, lines, n) /\ Joined(lines) = f[n]
  BY <1>1, JoinedIs
<1>3. PICK g : IsJoined(g, more, n + 1) /\ Joined(more) = g[n + 1]
  BY <1>1, JoinedIs
<1>4. f[n] = g[n]
  BY <1>1, <1>2, <1>3, JoinedPrefix
<1>5. g[n + 1] = g[n] \o Append(line, "LF")
  BY <1>1, <1>3 DEF IsJoined
<1> QED
  BY <1>2, <1>3, <1>4, <1>5 DEF more

-----------------------------------------------------------------------------
(* A diff and one line more: where the line stands.                        *)

LEMMA HeadersAreDistinct ==
  ASSUME NEW line
  PROVE  /\ BeginsWith(line, DOMAIN DiffHeaders) =>
              /\ ~BeginsWith(line, DOMAIN OldHeaders) /\ ~BeginsWith(line, DOMAIN NewHeaders)
              /\ ~BeginsWith(line, DOMAIN HunkHeaders)
         /\ BeginsWith(line, DOMAIN HunkHeaders) =>
              ~BeginsWith(line, DOMAIN OldHeaders) /\ ~BeginsWith(line, DOMAIN NewHeaders)
         /\ BeginsWith(line, DOMAIN OldHeaders) => ~BeginsWith(line, DOMAIN NewHeaders)
<1> DEFINE headers == <<DiffHeaders, OldHeaders, NewHeaders, HunkHeaders>>
<1>1. \A i, j \in 1..4 : i # j => DOMAIN headers[i] \cap DOMAIN headers[j] = {}
  BY HeadersAssumption
<1>2. /\ headers[1] = DiffHeaders /\ headers[2] = OldHeaders
      /\ headers[3] = NewHeaders /\ headers[4] = HunkHeaders
  OBVIOUS
<1> HIDE DEF headers
<1>3. /\ DOMAIN DiffHeaders \cap DOMAIN OldHeaders = {}
      /\ DOMAIN DiffHeaders \cap DOMAIN NewHeaders = {}
      /\ DOMAIN DiffHeaders \cap DOMAIN HunkHeaders = {}
      /\ DOMAIN OldHeaders \cap DOMAIN NewHeaders = {}
      /\ DOMAIN OldHeaders \cap DOMAIN HunkHeaders = {}
      /\ DOMAIN NewHeaders \cap DOMAIN HunkHeaders = {}
  <2>1. 1 \in 1..4 /\ 2 \in 1..4 /\ 3 \in 1..4 /\ 4 \in 1..4
    OBVIOUS
  <2> QED
    BY <1>1, <1>2, <2>1
<1> QED
  BY <1>3 DEF BeginsWith

\* The section and the hunk.
LEMMA SectionOfOneMore ==
  ASSUME NEW lines, NEW more, NEW n \in Nat, Agree(lines, more, n)
  PROVE  /\ SectionOf(more, n + 1) = IF BeginsWith(more[n + 1], DOMAIN DiffHeaders)
                                     THEN n + 1 ELSE SectionOf(lines, n)
         /\ HunkOf(more, n + 1) = IF BeginsWith(more[n + 1], DOMAIN HunkHeaders)
                                  THEN n + 1 ELSE HunkOf(lines, n)
<1>1. ASSUME NEW beginnings
      PROVE  LastOf({k \in 1..(n + 1) : BeginsWith(more[k], beginnings)})
               = IF BeginsWith(more[n + 1], beginnings) THEN n + 1
                 ELSE LastOf({k \in 1..n : BeginsWith(lines[k], beginnings)})
  <2> DEFINE T == {k \in 1..(n + 1) : BeginsWith(more[k], beginnings)}
  <2>1. T \in SUBSET (1..(n + 1)) /\ n + 1 \in 1..(n + 1)
    OBVIOUS
  <2>2. CASE BeginsWith(more[n + 1], beginnings)
    <3>1. n + 1 \in T
      BY <2>1, <2>2
    <3>2. LastOf(T) = n + 1
      BY <2>1, <3>1, GreatestOfOneMore
    <3> QED
      BY <2>2, <3>2
  <2>3. CASE ~BeginsWith(more[n + 1], beginnings)
    <3>1. \A k \in 1..(n + 1) : k \in 1..n \/ k = n + 1
      OBVIOUS
    <3>2. \A k \in 1..n : k \in 1..(n + 1) /\ more[k] = lines[k]
      BY DEF Agree
    <3>3. T = {k \in 1..n : BeginsWith(lines[k], beginnings)}
      BY <2>3, <3>1, <3>2
    <3> QED
      BY <2>3, <3>3
  <2> QED
    BY <2>2, <2>3
<1> QED
  BY <1>1 DEF SectionOf, HunkOf

\* Its headers.
LEMMA HeaderOfOneMore ==
  ASSUME NEW lines, NEW more, NEW n \in Nat, Agree(lines, more, n), NEW headers,
         BeginsWith(more[n + 1], DOMAIN headers) =>
           /\ ~BeginsWith(more[n + 1], DOMAIN DiffHeaders)
           /\ ~BeginsWith(more[n + 1], DOMAIN HunkHeaders)
  PROVE  HeaderOf(more, n + 1, headers)
           = IF BeginsWith(more[n + 1], DOMAIN DiffHeaders) THEN 0
             ELSE IF /\ BeginsWith(more[n + 1], DOMAIN headers)
                     /\ HunkOf(lines, n) <= SectionOf(lines, n) THEN n + 1
             ELSE HeaderOf(lines, n, headers)
<1> DEFINE section == SectionOf(more, n + 1)
           T == {k \in (section + 1)..(n + 1) : /\ BeginsWith(more[k], DOMAIN headers)
                                                /\ HunkOf(more, k) <= section}
<1>0. HeaderOf(more, n + 1, headers) = LastOf(T)
  BY DEF HeaderOf
<1>1. n + 1 \in Nat /\ Agree(more, more, n + 1) /\ SectionOf(lines, n) \in 0..n
  BY SectionAndHunkPrefix DEF Agree
<1>2. section \in 0..(n + 1)
  BY <1>1, SectionAndHunkPrefix
<1>3. T \in SUBSET (1..(n + 1)) /\ T \in SUBSET Nat
  BY <1>2
<1>4. CASE BeginsWith(more[n + 1], DOMAIN DiffHeaders)
  <2>1. section = n + 1
    BY <1>4, SectionOfOneMore
  <2>2. T = {}
    BY <2>1
  <2>3. LastOf(T) = 0
    BY <1>3, <2>2, GreatestIsUnique
  <2> QED
    BY <1>0, <1>4, <2>3
<1>5. CASE /\ ~BeginsWith(more[n + 1], DOMAIN DiffHeaders)
           /\ BeginsWith(more[n + 1], DOMAIN headers)
           /\ HunkOf(lines, n) <= SectionOf(lines, n)
  <2>1. section = SectionOf(lines, n) /\ HunkOf(more, n + 1) = HunkOf(lines, n)
    BY <1>5, SectionOfOneMore
  <2>2. n + 1 \in T
    BY <1>1, <1>5, <2>1
  <2>3. LastOf(T) = n + 1
    BY <1>3, <2>2, GreatestOfOneMore
  <2> QED
    BY <1>0, <1>5, <2>3
<1>6. CASE /\ ~BeginsWith(more[n + 1], DOMAIN DiffHeaders)
           /\ ~(/\ BeginsWith(more[n + 1], DOMAIN headers)
                /\ HunkOf(lines, n) <= SectionOf(lines, n))
  <2>1. section = SectionOf(lines, n)
    BY <1>6, SectionOfOneMore
  <2>2. n + 1 \notin T
    <3>1. BeginsWith(more[n + 1], DOMAIN headers) => HunkOf(more, n + 1) = HunkOf(lines, n)
      BY SectionOfOneMore
    <3> QED
      BY <1>6, <2>1, <3>1
  <2>3. \A k \in 1..n : more[k] = lines[k] /\ HunkOf(more, k) = HunkOf(lines, k)
    <3>1. ASSUME NEW k \in 1..n
          PROVE  HunkOf(more, k) = HunkOf(lines, k)
      <4>1. k \in Nat /\ Agree(lines, more, k)
        BY DEF Agree
      <4> QED
        BY <4>1, SectionAndHunkPrefix
    <3> QED
      BY <3>1 DEF Agree
  <2>4. \A k : k \in (section + 1)..(n + 1) /\ k # n + 1 <=> k \in (section + 1)..n
    BY <1>2
  <2>5. \A k \in (section + 1)..n : k \in 1..n
    BY <1>2
  <2>6. T = {k \in (section + 1)..n : /\ BeginsWith(lines[k], DOMAIN headers)
                                      /\ HunkOf(lines, k) <= section}
    BY <2>2, <2>3, <2>4, <2>5
  <2>7. LastOf(T) = HeaderOf(lines, n, headers)
    BY <2>1, <2>6 DEF HeaderOf
  <2> QED
    BY <1>0, <1>6, <2>7
<1> QED
  BY <1>4, <1>5, <1>6

LEMMA PathOfOneMore ==
  ASSUME NEW lines, NEW more, NEW n \in Nat, Agree(lines, more, n), NEW headers,
         BeginsWith(more[n + 1], DOMAIN headers) =>
           /\ ~BeginsWith(more[n + 1], DOMAIN DiffHeaders)
           /\ ~BeginsWith(more[n + 1], DOMAIN HunkHeaders)
  PROVE  PathIn(more, n + 1, headers)
           = IF BeginsWith(more[n + 1], DOMAIN DiffHeaders) THEN NoPath
             ELSE IF /\ BeginsWith(more[n + 1], DOMAIN headers)
                     /\ HunkOf(lines, n) <= SectionOf(lines, n)
             THEN IF Len(more[n + 1]) > 1 THEN Ungoverned ELSE headers[more[n + 1][1]]
             ELSE PathIn(lines, n, headers)
<1> DEFINE k == HeaderOf(more, n + 1, headers)
<1>1. PathIn(more, n + 1, headers)
        = IF k = 0 THEN NoPath
          ELSE IF Len(more[k]) > 1 THEN Ungoverned ELSE headers[more[k][1]]
  BY DEF PathIn
<1>2. HeaderOf(lines, n, headers) \in 0..n
  BY HeaderPrefix DEF Agree
<1>3. k = IF BeginsWith(more[n + 1], DOMAIN DiffHeaders) THEN 0
          ELSE IF /\ BeginsWith(more[n + 1], DOMAIN headers)
                  /\ HunkOf(lines, n) <= SectionOf(lines, n) THEN n + 1
          ELSE HeaderOf(lines, n, headers)
  BY HeaderOfOneMore
<1> HIDE DEF k
<1>4. k = HeaderOf(lines, n, headers) => PathIn(more, n + 1, headers) = PathIn(lines, n, headers)
  <2> SUFFICES ASSUME k = HeaderOf(lines, n, headers)
               PROVE  PathIn(more, n + 1, headers) = PathIn(lines, n, headers)
    OBVIOUS
  <2>1. k # 0 => more[k] = lines[k]
    BY <1>2 DEF Agree
  <2> QED
    BY <1>1, <2>1 DEF PathIn
<1> QED
  BY <1>1, <1>3, <1>4

\* The line numbers in one of the files, after the lines of a hunk so far.
NumberAfter(lines, n, side, signs) ==
  HunkHeaders[lines[HunkOf(lines, n)][1]][side]
    + Cardinality({k \in (HunkOf(lines, n) + 1)..n : SignOf(lines, k) \in signs})

LEMMA NumberIsNatural ==
  ASSUME NEW lines, NEW n \in Nat, HunkOf(lines, n) # 0, NEW side \in 1..2, NEW signs
  PROVE  /\ NumberAfter(lines, n, side, signs) \in Nat
         /\ HunkHeaders[lines[HunkOf(lines, n)][1]][side] \in Nat
<1>1. HunkOf(lines, n) \in {k \in 1..n : BeginsWith(lines[k], DOMAIN HunkHeaders)}
  <2>1. {k \in 1..n : BeginsWith(lines[k], DOMAIN HunkHeaders)} \in SUBSET (1..n)
    OBVIOUS
  <2> QED
    BY <2>1, GreatestExists DEF HunkOf
<1>2. HunkHeaders[lines[HunkOf(lines, n)][1]] \in Nat \X Nat
  BY <1>1, HeadersAssumption DEF BeginsWith
<1>3. HunkHeaders[lines[HunkOf(lines, n)][1]][side] \in Nat
  <2>1. side = 1 \/ side = 2
    OBVIOUS
  <2> QED
    BY <1>2, <2>1
<1>4. Cardinality({k \in (HunkOf(lines, n) + 1)..n : SignOf(lines, k) \in signs}) \in Nat
  <2>1. IsFiniteSet((HunkOf(lines, n) + 1)..n)
    BY <1>1, FS_Interval
  <2> QED
    BY <2>1, FS_Subset, FS_CardinalityType
<1> QED
  BY <1>3, <1>4 DEF NumberAfter

LEMMA NumberAtHunk ==
  ASSUME NEW lines, NEW more, NEW n \in Nat, Agree(lines, more, n), NEW side \in 1..2, NEW signs,
         BeginsWith(more[n + 1], DOMAIN HunkHeaders)
  PROVE  NumberAfter(more, n + 1, side, signs) = HunkHeaders[more[n + 1][1]][side]
<1>1. HunkOf(more, n + 1) = n + 1 /\ n + 1 \in Nat /\ n + 1 # 0
  BY SectionOfOneMore
<1>2. {k \in (n + 1 + 1)..(n + 1) : SignOf(more, k) \in signs} = {}
  OBVIOUS
<1>3. HunkHeaders[more[n + 1][1]][side] \in Nat
  BY <1>1, NumberIsNatural
<1>4. Cardinality({k \in (n + 1 + 1)..(n + 1) : SignOf(more, k) \in signs}) = 0
  BY <1>2, FS_EmptySet
<1> QED
  BY <1>1, <1>3, <1>4 DEF NumberAfter

LEMMA NumberOfOneMore ==
  ASSUME NEW lines, NEW more, NEW n \in Nat, Agree(lines, more, n), NEW side \in 1..2, NEW signs,
         ~BeginsWith(more[n + 1], DOMAIN HunkHeaders), HunkOf(lines, n) # 0
  PROVE  /\ SignOf(more, n + 1) \in signs =>
              NumberAfter(more, n + 1, side, signs) = NumberAfter(lines, n, side, signs) + 1
         /\ SignOf(more, n + 1) \notin signs =>
              NumberAfter(more, n + 1, side, signs) = NumberAfter(lines, n, side, signs)
         /\ NumberIn(more, n + 1, side, signs) = NumberAfter(lines, n, side, signs)
<1> DEFINE hunk == HunkOf(lines, n)
           counted == {k \in (hunk + 1)..n : SignOf(lines, k) \in signs}
           first == HunkHeaders[lines[hunk][1]][side]
<1>0. n + 1 \in Nat /\ n + 1 - 1 = n
  OBVIOUS
<1>1. HunkOf(more, n + 1) = hunk
  BY SectionOfOneMore
<1>2. hunk \in 1..n
  <2>1. hunk \in 0..n /\ hunk # 0
    BY SectionAndHunkPrefix
  <2> QED
    BY <2>1
<1>3. \A k \in 1..n : more[k] = lines[k] /\ SignOf(more, k) = SignOf(lines, k)
  BY DEF Agree, SignOf
<1>4. first \in Nat /\ HunkHeaders[more[hunk][1]][side] = first
  BY <1>2, <1>3, NumberIsNatural
<1>5. IsFiniteSet(counted) /\ Cardinality(counted) \in Nat /\ n + 1 \notin counted
  <2>0. counted \in SUBSET ((hunk + 1)..n) /\ hunk + 1 \in Int
    BY <1>2
  <2>1. IsFiniteSet((hunk + 1)..n)
    BY <2>0, FS_Interval
  <2>2. IsFiniteSet(counted)
    BY <2>0, <2>1, FS_Subset
  <2>3. n + 1 \notin (hunk + 1)..n
    OBVIOUS
  <2> QED
    BY <2>0, <2>2, <2>3, FS_CardinalityType
<1>6. \A k : /\ k \in (hunk + 1)..(n + 1) <=> k \in (hunk + 1)..n \/ k = n + 1
             /\ k \in (hunk + 1)..n => k \in 1..n
  BY <1>2
<1>7. {k \in (hunk + 1)..n : SignOf(more, k) \in signs} = counted
  BY <1>3, <1>6
<1>8. NumberIn(more, n + 1, side, signs) = first + Cardinality(counted)
  BY <1>0, <1>1, <1>4, <1>7 DEF NumberIn
<1>9. NumberAfter(lines, n, side, signs) = first + Cardinality(counted)
  BY DEF NumberAfter
<1>10. CASE SignOf(more, n + 1) \in signs
  <2>1. {k \in (hunk + 1)..(n + 1) : SignOf(more, k) \in signs} = counted \cup {n + 1}
    BY <1>3, <1>6, <1>10
  <2>2. Cardinality(counted \cup {n + 1}) = Cardinality(counted) + 1
    BY <1>5, FS_AddElement
  <2>3. NumberAfter(more, n + 1, side, signs) = first + (Cardinality(counted) + 1)
    BY <1>1, <1>4, <2>1, <2>2 DEF NumberAfter
  <2> QED
    BY <1>4, <1>5, <1>8, <1>9, <1>10, <2>3
<1>11. CASE SignOf(more, n + 1) \notin signs
  <2>1. {k \in (hunk + 1)..(n + 1) : SignOf(more, k) \in signs} = counted
    BY <1>3, <1>6, <1>11
  <2>2. NumberAfter(more, n + 1, side, signs) = first + Cardinality(counted)
    BY <1>1, <1>4, <2>1 DEF NumberAfter
  <2> QED
    BY <1>4, <1>5, <1>8, <1>9, <1>11, <2>2
<1> QED
  BY <1>10, <1>11

\* What the scan knows of a path.
Looked(path) == IF path = NoPath \/ path \in Governed THEN path ELSE Ungoverned

\* The state after n lines of a diff.
StandsAfter(d, lines, n) ==
  /\ d = [old |-> d.old, new |-> d.new, oldNumber |-> d.oldNumber, newNumber |-> d.newNumber,
          inHunk |-> d.inHunk, section |-> d.section]
  /\ d.old = Looked(PathIn(lines, n, OldHeaders))
  /\ d.new = Looked(PathIn(lines, n, NewHeaders))
  /\ d.section = SectionPathOf(lines, n)
  /\ d.inHunk \in BOOLEAN
  /\ d.inHunk <=> HunkOf(lines, n) > SectionOf(lines, n)
  /\ d.inHunk => /\ d.oldNumber = NumberAfter(lines, n, 1, {"-", " "})
                 /\ d.newNumber = NumberAfter(lines, n, 2, {"+", " "})

LEMMA StandsAtStart == StandsAfter(DiffStart, <<>>, 0)
<1>1. SectionOf(<<>>, 0) = 0 /\ HunkOf(<<>>, 0) = 0
  <2>1. 0 \in Nat /\ Agree(<<>>, <<>>, 0)
    BY DEF Agree
  <2>2. SectionOf(<<>>, 0) \in 0..0 /\ HunkOf(<<>>, 0) \in 0..0
    BY <2>1, SectionAndHunkPrefix
  <2> QED
    BY <2>2
<1>2. \A headers : PathIn(<<>>, 0, headers) = NoPath
  <2>1. 0 \in Nat /\ Agree(<<>>, <<>>, 0)
    BY DEF Agree
  <2>2. \A headers : HeaderOf(<<>>, 0, headers) \in 0..0
    BY <2>1, HeaderPrefix
  <2>3. \A headers : HeaderOf(<<>>, 0, headers) = 0
    BY <2>2
  <2> QED
    BY <2>3 DEF PathIn
<1>3. SectionPathOf(<<>>, 0) = NoPath
  BY <1>1 DEF SectionPathOf
<1> QED
  <2>1. ~(HunkOf(<<>>, 0) > SectionOf(<<>>, 0))
    BY <1>1
  <2> QED
    BY <1>2, <1>3, <2>1 DEF StandsAfter, DiffStart, Looked

\* The headers and the hunk of each kind of line.
LEMMA PlaceOfOneMore ==
  ASSUME NEW lines, NEW more, NEW n \in Nat, Agree(lines, more, n)
  PROVE  /\ BeginsWith(more[n + 1], DOMAIN DiffHeaders) =>
              /\ PathIn(more, n + 1, OldHeaders) = NoPath
              /\ PathIn(more, n + 1, NewHeaders) = NoPath
              /\ SectionPathOf(more, n + 1) = SectionPath(more[n + 1])
              /\ ~(HunkOf(more, n + 1) > SectionOf(more, n + 1))
         /\ ~BeginsWith(more[n + 1], DOMAIN DiffHeaders) =>
              /\ SectionPathOf(more, n + 1) = SectionPathOf(lines, n)
              /\ BeginsWith(more[n + 1], DOMAIN HunkHeaders) =>
                   HunkOf(more, n + 1) > SectionOf(more, n + 1)
              /\ ~BeginsWith(more[n + 1], DOMAIN HunkHeaders) =>
                   HunkOf(more, n + 1) = HunkOf(lines, n)
                   /\ SectionOf(more, n + 1) = SectionOf(lines, n)
<1>1. /\ SectionOf(lines, n) \in 0..n /\ HunkOf(lines, n) \in 0..n
      /\ BeginsWith(more[n + 1], DOMAIN DiffHeaders) =>
           ~BeginsWith(more[n + 1], DOMAIN HunkHeaders)
           /\ ~BeginsWith(more[n + 1], DOMAIN OldHeaders)
           /\ ~BeginsWith(more[n + 1], DOMAIN NewHeaders)
  BY SectionAndHunkPrefix, HeadersAreDistinct DEF Agree
<1>2. CASE BeginsWith(more[n + 1], DOMAIN DiffHeaders)
  <2>1. SectionOf(more, n + 1) = n + 1 /\ HunkOf(more, n + 1) = HunkOf(lines, n)
    BY <1>1, <1>2, SectionOfOneMore
  <2>2. PathIn(more, n + 1, OldHeaders) = NoPath
    BY <1>1, <1>2, PathOfOneMore
  <2>3. PathIn(more, n + 1, NewHeaders) = NoPath
    BY <1>1, <1>2, PathOfOneMore
  <2>4. SectionPathOf(more, n + 1) = SectionPath(more[n + 1])
    BY <2>1 DEF SectionPathOf
  <2> QED
    BY <1>1, <1>2, <2>1, <2>2, <2>3, <2>4
<1>3. CASE ~BeginsWith(more[n + 1], DOMAIN DiffHeaders)
  <2>1. SectionOf(more, n + 1) = SectionOf(lines, n)
    BY <1>3, SectionOfOneMore
  <2>2. HunkOf(more, n + 1) = IF BeginsWith(more[n + 1], DOMAIN HunkHeaders)
                              THEN n + 1 ELSE HunkOf(lines, n)
    BY SectionOfOneMore
  <2>3. SectionOf(lines, n) # 0 => more[SectionOf(lines, n)] = lines[SectionOf(lines, n)]
    BY <1>1 DEF Agree
  <2>4. SectionPathOf(more, n + 1) = SectionPathOf(lines, n)
    BY <2>1, <2>3 DEF SectionPathOf
  <2> QED
    BY <1>1, <1>3, <2>1, <2>2, <2>4
<1> QED
  BY <1>2, <1>3

LEMMA HeaderIsLooked ==
  ASSUME NEW line \in Seq(Alphabet), NEW headers \in {OldHeaders, NewHeaders},
         BeginsWith(line, DOMAIN headers)
  PROVE  HeaderPath(headers, line)
           = Looked(IF Len(line) > 1 THEN Ungoverned ELSE headers[line[1]])
<1>1. headers[line[1]] # NoPath /\ Len(line) \in Nat /\ Len(line) # 0
  BY HeadersAssumption DEF BeginsWith
<1>2. Ungoverned # NoPath /\ Looked(Ungoverned) = Ungoverned
  BY DEF Ungoverned, NoPath, Looked
<1>3. CASE Len(line) > 1
  <2>1. Len(line) # 1
    BY <1>1, <1>3
  <2> QED
    BY <1>2, <1>3, <2>1 DEF HeaderPath
<1>4. CASE Len(line) = 1
  BY <1>1, <1>4 DEF HeaderPath, Looked
<1>5. Len(line) > 1 \/ Len(line) = 1
  <2>1. \A k \in Nat : k # 0 => k > 1 \/ k = 1
    OBVIOUS
  <2> QED
    BY <1>1, <2>1
<1> QED
  BY <1>3, <1>4, <1>5

LEMMA StandsAfterOneMore ==
  ASSUME NEW lines, NEW more, NEW n \in Nat, Agree(lines, more, n), more[n + 1] \in Seq(Alphabet),
         NEW d, StandsAfter(d, lines, n)
  PROVE  StandsAfter(AfterLine(d, more[n + 1]), more, n + 1)
<1> DEFINE line == more[n + 1]
           e == AfterLine(d, line)
           signed == Sign(line[1])
<1>1. /\ BeginsWith(line, DOMAIN DiffHeaders) =>
           /\ ~BeginsWith(line, DOMAIN OldHeaders) /\ ~BeginsWith(line, DOMAIN NewHeaders)
           /\ ~BeginsWith(line, DOMAIN HunkHeaders)
      /\ BeginsWith(line, DOMAIN HunkHeaders) =>
           ~BeginsWith(line, DOMAIN OldHeaders) /\ ~BeginsWith(line, DOMAIN NewHeaders)
      /\ BeginsWith(line, DOMAIN OldHeaders) => ~BeginsWith(line, DOMAIN NewHeaders)
  BY HeadersAreDistinct
<1>2. ASSUME NEW headers \in {OldHeaders, NewHeaders}
      PROVE  PathIn(more, n + 1, headers)
               = IF BeginsWith(line, DOMAIN DiffHeaders) THEN NoPath
                 ELSE IF /\ BeginsWith(line, DOMAIN headers)
                         /\ HunkOf(lines, n) <= SectionOf(lines, n)
                 THEN IF Len(line) > 1 THEN Ungoverned ELSE headers[line[1]]
                 ELSE PathIn(lines, n, headers)
  <2>1. BeginsWith(line, DOMAIN headers) =>
          ~BeginsWith(line, DOMAIN DiffHeaders) /\ ~BeginsWith(line, DOMAIN HunkHeaders)
    BY <1>1, <1>2
  <2> QED
    BY <2>1, PathOfOneMore
<1>3. HunkOf(lines, n) \in Nat /\ SectionOf(lines, n) \in Nat
  <2>1. HunkOf(lines, n) \in 0..n /\ SectionOf(lines, n) \in 0..n
    BY SectionAndHunkPrefix
  <2> QED
    BY <2>1
<1>s. /\ d.inHunk \in BOOLEAN
      /\ d.inHunk => HunkOf(lines, n) > SectionOf(lines, n)
      /\ ~d.inHunk => ~(HunkOf(lines, n) > SectionOf(lines, n))
  BY DEF StandsAfter
<1>4. CASE BeginsWith(line, DOMAIN DiffHeaders)
  <2>1. e = [d EXCEPT !.old = NoPath, !.new = NoPath, !.inHunk = FALSE,
                      !.section = SectionPath(line)]
    BY <1>4 DEF AfterLine
  <2>2. /\ e.old = NoPath /\ e.new = NoPath /\ e.inHunk = FALSE /\ e.section = SectionPath(line)
        /\ e = [old |-> e.old, new |-> e.new, oldNumber |-> e.oldNumber,
                newNumber |-> e.newNumber, inHunk |-> e.inHunk, section |-> e.section]
    BY <2>1 DEF StandsAfter
  <2> HIDE DEF e
  <2>3. /\ PathIn(more, n + 1, OldHeaders) = NoPath
        /\ PathIn(more, n + 1, NewHeaders) = NoPath
        /\ SectionPathOf(more, n + 1) = SectionPath(line)
        /\ ~(HunkOf(more, n + 1) > SectionOf(more, n + 1))
    BY <1>4, PlaceOfOneMore
  <2>4. Looked(NoPath) = NoPath
    BY DEF Looked
  <2> QED
    BY <2>2, <2>3, <2>4 DEF StandsAfter, e
<1>5. CASE /\ ~d.inHunk
           /\ BeginsWith(line, DOMAIN OldHeaders) \/ BeginsWith(line, DOMAIN NewHeaders)
  <2>1. HunkOf(lines, n) <= SectionOf(lines, n) /\ ExpectsHeader(d)
    <3>1. ~(HunkOf(lines, n) > SectionOf(lines, n))
      BY <1>s, <1>5
    <3>2. ExpectsHeader(d)
      BY <1>5 DEF ExpectsHeader
    <3> QED
      BY <1>3, <3>1, <3>2
  <2>2. ~BeginsWith(line, DOMAIN DiffHeaders) /\ ~BeginsWith(line, DOMAIN HunkHeaders)
    BY <1>1, <1>5
  <2>3. /\ HunkOf(more, n + 1) = HunkOf(lines, n) /\ SectionOf(more, n + 1) = SectionOf(lines, n)
        /\ SectionPathOf(more, n + 1) = SectionPathOf(lines, n)
    BY <2>2, PlaceOfOneMore
  <2>4. CASE BeginsWith(line, DOMAIN OldHeaders)
    <3>1. e = [d EXCEPT !.old = HeaderPath(OldHeaders, line)]
      BY <2>1, <2>2, <2>4 DEF AfterLine
    <3>2. /\ e.old = HeaderPath(OldHeaders, line) /\ e.new = d.new
          /\ e.inHunk = d.inHunk /\ e.section = d.section
          /\ e = [old |-> e.old, new |-> e.new, oldNumber |-> e.oldNumber,
                  newNumber |-> e.newNumber, inHunk |-> e.inHunk, section |-> e.section]
      BY <3>1 DEF StandsAfter
    <3>3. /\ e.old = Looked(PathIn(more, n + 1, OldHeaders))
          /\ PathIn(more, n + 1, NewHeaders) = PathIn(lines, n, NewHeaders)
      BY <1>1, <1>2, <2>1, <2>2, <2>4, <3>2, HeaderIsLooked
    <3> HIDE DEF e
    <3> QED
      BY <1>5, <2>3, <3>2, <3>3 DEF StandsAfter, e
  <2>5. CASE BeginsWith(line, DOMAIN NewHeaders)
    <3>1. e = [d EXCEPT !.new = HeaderPath(NewHeaders, line)]
      BY <1>1, <2>1, <2>2, <2>5 DEF AfterLine
    <3>2. /\ e.new = HeaderPath(NewHeaders, line) /\ e.old = d.old
          /\ e.inHunk = d.inHunk /\ e.section = d.section
          /\ e = [old |-> e.old, new |-> e.new, oldNumber |-> e.oldNumber,
                  newNumber |-> e.newNumber, inHunk |-> e.inHunk, section |-> e.section]
      BY <3>1 DEF StandsAfter
    <3>3. /\ e.new = Looked(PathIn(more, n + 1, NewHeaders))
          /\ PathIn(more, n + 1, OldHeaders) = PathIn(lines, n, OldHeaders)
      BY <1>1, <1>2, <2>1, <2>2, <2>5, <3>2, HeaderIsLooked
    <3> HIDE DEF e
    <3> QED
      BY <1>5, <2>3, <3>2, <3>3 DEF StandsAfter, e
  <2> QED
    BY <1>5, <2>4, <2>5
<1>6. ASSUME ~BeginsWith(line, DOMAIN DiffHeaders),
             ~(~d.inHunk /\ (BeginsWith(line, DOMAIN OldHeaders)
                               \/ BeginsWith(line, DOMAIN NewHeaders)))
      PROVE  /\ SectionPathOf(more, n + 1) = SectionPathOf(lines, n)
             /\ PathIn(more, n + 1, OldHeaders) = PathIn(lines, n, OldHeaders)
             /\ PathIn(more, n + 1, NewHeaders) = PathIn(lines, n, NewHeaders)
  <2>1. SectionPathOf(more, n + 1) = SectionPathOf(lines, n)
    BY <1>6, PlaceOfOneMore
  <2>2. \A headers \in {OldHeaders, NewHeaders} :
          ~(/\ BeginsWith(line, DOMAIN headers)
            /\ HunkOf(lines, n) <= SectionOf(lines, n))
    <3>1. CASE d.inHunk
      <4>1. HunkOf(lines, n) > SectionOf(lines, n)
        BY <1>s, <3>1
      <4> QED
        BY <1>3, <4>1
    <3>2. CASE ~d.inHunk
      BY <1>6, <3>2
    <3> QED
      BY <3>1, <3>2
  <2>3. \A headers \in {OldHeaders, NewHeaders} :
          PathIn(more, n + 1, headers) = PathIn(lines, n, headers)
    BY <1>2, <1>6, <2>2
  <2> QED
    BY <2>1, <2>3
<1>7. CASE BeginsWith(line, DOMAIN HunkHeaders)
  <2>1. e = [d EXCEPT !.oldNumber = HunkHeaders[line[1]][1], !.newNumber = HunkHeaders[line[1]][2],
                      !.inHunk = TRUE]
    BY <1>1, <1>7 DEF AfterLine
  <2>2. /\ e.oldNumber = HunkHeaders[line[1]][1] /\ e.newNumber = HunkHeaders[line[1]][2]
        /\ e.inHunk = TRUE /\ e.old = d.old /\ e.new = d.new /\ e.section = d.section
        /\ e = [old |-> e.old, new |-> e.new, oldNumber |-> e.oldNumber,
                newNumber |-> e.newNumber, inHunk |-> e.inHunk, section |-> e.section]
    BY <2>1 DEF StandsAfter
  <2> HIDE DEF e
  <2>3. /\ NumberAfter(more, n + 1, 1, {"-", " "}) = HunkHeaders[line[1]][1]
        /\ NumberAfter(more, n + 1, 2, {"+", " "}) = HunkHeaders[line[1]][2]
    <3>1. \A side \in 1..2 : \A signs :
            NumberAfter(more, n + 1, side, signs) = HunkHeaders[line[1]][side]
      <4> SUFFICES ASSUME NEW side \in 1..2, NEW signs
                   PROVE  NumberAfter(more, n + 1, side, signs) = HunkHeaders[line[1]][side]
        OBVIOUS
      <4> QED
        BY <1>7, NumberAtHunk
    <3>2. 1 \in 1..2 /\ 2 \in 1..2
      OBVIOUS
    <3> QED
      BY <3>1, <3>2
  <2>4. HunkOf(more, n + 1) > SectionOf(more, n + 1)
    BY <1>1, <1>7, PlaceOfOneMore
  <2> QED
    BY <1>1, <1>6, <1>7, <2>2, <2>3, <2>4 DEF StandsAfter, e
<1>8. CASE /\ ~BeginsWith(line, DOMAIN DiffHeaders) /\ ~BeginsWith(line, DOMAIN HunkHeaders)
           /\ ~(~d.inHunk /\ (BeginsWith(line, DOMAIN OldHeaders)
                                \/ BeginsWith(line, DOMAIN NewHeaders)))
  <2>1. HunkOf(more, n + 1) = HunkOf(lines, n) /\ SectionOf(more, n + 1) = SectionOf(lines, n)
    BY <1>8, PlaceOfOneMore
  <2>2. d.inHunk => HunkOf(lines, n) # 0
    <3>1. HunkOf(lines, n) > SectionOf(lines, n) => HunkOf(lines, n) # 0
      BY <1>3
    <3> QED
      BY <1>s, <3>1
  <2>3. ASSUME d.inHunk, NEW side \in 1..2, NEW signs
        PROVE  /\ SignOf(more, n + 1) \in signs =>
                    NumberAfter(more, n + 1, side, signs) = NumberAfter(lines, n, side, signs) + 1
               /\ SignOf(more, n + 1) \notin signs =>
                    NumberAfter(more, n + 1, side, signs) = NumberAfter(lines, n, side, signs)
    BY <1>8, <2>2, <2>3, NumberOfOneMore
  <2>4. CASE IsContent(d, line)
    <3>1. e = [d EXCEPT !.oldNumber = IF signed = "+" THEN @ ELSE @ + 1,
                        !.newNumber = IF signed = "-" THEN @ ELSE @ + 1]
      BY <1>8, <2>4 DEF AfterLine, ExpectsHeader
    <3>2. /\ e.oldNumber = (IF signed = "+" THEN d.oldNumber ELSE d.oldNumber + 1)
          /\ e.newNumber = (IF signed = "-" THEN d.newNumber ELSE d.newNumber + 1)
          /\ e.inHunk = d.inHunk /\ e.old = d.old /\ e.new = d.new /\ e.section = d.section
          /\ e = [old |-> e.old, new |-> e.new, oldNumber |-> e.oldNumber,
                  newNumber |-> e.newNumber, inHunk |-> e.inHunk, section |-> e.section]
      BY <3>1 DEF StandsAfter
    <3> HIDE DEF e
    <3>3. signed \in {"+", "-", " "} /\ SignOf(more, n + 1) = signed /\ d.inHunk
      BY <2>4 DEF IsContent, Signs, SignOf
    <3>4. /\ e.oldNumber = NumberAfter(more, n + 1, 1, {"-", " "})
          /\ e.newNumber = NumberAfter(more, n + 1, 2, {"+", " "})
      <4>1. 1 \in 1..2 /\ 2 \in 1..2
        OBVIOUS
      <4>2. /\ d.oldNumber = NumberAfter(lines, n, 1, {"-", " "})
            /\ d.newNumber = NumberAfter(lines, n, 2, {"+", " "})
        BY <3>3 DEF StandsAfter
      <4>3. e.oldNumber = NumberAfter(more, n + 1, 1, {"-", " "})
        <5>1. CASE signed = "+"
          <6>1. SignOf(more, n + 1) \notin {"-", " "}
            BY <3>3, <5>1
          <6>2. NumberAfter(more, n + 1, 1, {"-", " "}) = NumberAfter(lines, n, 1, {"-", " "})
            BY <2>3, <3>3, <4>1, <6>1
          <6> QED
            BY <3>2, <4>2, <5>1, <6>2
        <5>2. CASE signed # "+"
          <6>1. SignOf(more, n + 1) \in {"-", " "}
            BY <3>3, <5>2
          <6>2. NumberAfter(more, n + 1, 1, {"-", " "}) = NumberAfter(lines, n, 1, {"-", " "}) + 1
            BY <2>3, <3>3, <4>1, <6>1
          <6> QED
            BY <3>2, <4>2, <5>2, <6>2
        <5> QED
          BY <5>1, <5>2
      <4>4. e.newNumber = NumberAfter(more, n + 1, 2, {"+", " "})
        <5>1. CASE signed = "-"
          <6>1. SignOf(more, n + 1) \notin {"+", " "}
            BY <3>3, <5>1
          <6>2. NumberAfter(more, n + 1, 2, {"+", " "}) = NumberAfter(lines, n, 2, {"+", " "})
            BY <2>3, <3>3, <4>1, <6>1
          <6> QED
            BY <3>2, <4>2, <5>1, <6>2
        <5>2. CASE signed # "-"
          <6>1. SignOf(more, n + 1) \in {"+", " "}
            BY <3>3, <5>2
          <6>2. NumberAfter(more, n + 1, 2, {"+", " "}) = NumberAfter(lines, n, 2, {"+", " "}) + 1
            BY <2>3, <3>3, <4>1, <6>1
          <6> QED
            BY <3>2, <4>2, <5>2, <6>2
        <5> QED
          BY <5>1, <5>2
      <4> QED
        BY <4>3, <4>4
    <3> QED
      BY <1>6, <1>8, <2>1, <3>2, <3>4 DEF StandsAfter, e
  <2>5. CASE ~IsContent(d, line)
    <3>1. e = d
      BY <1>8, <2>5 DEF AfterLine, ExpectsHeader
    <3>2. d.inHunk => SignOf(more, n + 1) \notin {"+", "-", " "}
      BY <2>5 DEF IsContent, Signs, SignOf
    <3>3. d.inHunk => /\ d.oldNumber = NumberAfter(more, n + 1, 1, {"-", " "})
                      /\ d.newNumber = NumberAfter(more, n + 1, 2, {"+", " "})
      <4>1. 1 \in 1..2 /\ 2 \in 1..2
        OBVIOUS
      <4> SUFFICES ASSUME d.inHunk
                   PROVE  /\ d.oldNumber = NumberAfter(more, n + 1, 1, {"-", " "})
                          /\ d.newNumber = NumberAfter(more, n + 1, 2, {"+", " "})
        OBVIOUS
      <4>2. SignOf(more, n + 1) \notin {"-", " "} /\ SignOf(more, n + 1) \notin {"+", " "}
        BY <3>2
      <4>3. /\ NumberAfter(more, n + 1, 1, {"-", " "}) = NumberAfter(lines, n, 1, {"-", " "})
            /\ NumberAfter(more, n + 1, 2, {"+", " "}) = NumberAfter(lines, n, 2, {"+", " "})
        BY <2>3, <4>1, <4>2
      <4> QED
        BY <4>3 DEF StandsAfter
    <3> QED
      BY <1>6, <1>8, <2>1, <3>1, <3>3 DEF StandsAfter
  <2> QED
    BY <2>4, <2>5
<1> QED
  BY <1>1, <1>4, <1>5, <1>7, <1>8

-----------------------------------------------------------------------------
(* Masking a line as it is read, and in the whole text.                    *)

\* after[n] is the scanner that has read the first n characters.
IsFed(after, kind, s, t, n) ==
  after = [k \in 0..n |-> IF k = 0 THEN s ELSE advance(kind, after[k - 1], t[k])]

LEMMA FedExists ==
  ASSUME NEW kind, NEW s, NEW t, NEW n \in Nat
  PROVE  \E after : IsFed(after, kind, s, t, n)
<1> DEFINE Missing == {k \in Nat : \A after : ~IsFed(after, kind, s, t, k)}
<1>1. Missing \in SUBSET Nat
  OBVIOUS
<1>2. ASSUME Missing # {}
      PROVE  FALSE
  <2>1. PICK k \in Missing : \A l \in Missing : k <= l
    BY <1>1, <1>2, LeastElement
  <2>2. k # 0
    <3>1. IsFed([l \in 0..0 |-> s], kind, s, t, 0)
      BY DEF IsFed
    <3> QED
      BY <3>1
  <2>3. k - 1 \in Nat /\ k - 1 \notin Missing
    BY <2>1, <2>2
  <2>4. PICK after : IsFed(after, kind, s, t, k - 1)
    BY <2>3
  <2> DEFINE more == [l \in 0..k |-> IF l = k THEN advance(kind, after[k - 1], t[k])
                                     ELSE after[l]]
  <2>5. \A l \in 0..(k - 1) : after[l] = IF l = 0 THEN s ELSE advance(kind, after[l - 1], t[l])
    BY <2>4 DEF IsFed
  <2>6. ASSUME NEW l \in 0..k
        PROVE  more[l] = IF l = 0 THEN s ELSE advance(kind, more[l - 1], t[l])
    <3>1. CASE l = k
      <4>1. k - 1 \in 0..k /\ k - 1 # k
        BY <2>3
      <4>2. more[k - 1] = after[k - 1]
        BY <4>1
      <4> QED
        BY <2>2, <3>1, <4>2
    <3>2. CASE l # k
      <4>1. l \in 0..(k - 1) /\ more[l] = after[l]
        BY <2>3, <3>2
      <4>2. l # 0 => more[l - 1] = after[l - 1]
        BY <2>3, <4>1
      <4> QED
        BY <2>5, <4>1, <4>2
    <3> QED
      BY <3>1, <3>2
  <2>7. IsFed(more, kind, s, t, k)
    <3>1. more = [l \in 0..k |-> more[l]]
      OBVIOUS
    <3>2. [l \in 0..k |-> more[l]]
            = [l \in 0..k |-> IF l = 0 THEN s ELSE advance(kind, more[l - 1], t[l])]
      BY <2>6
    <3> HIDE DEF more
    <3> QED
      BY <3>1, <3>2 DEF IsFed
  <2> QED
    BY <2>1, <2>7
<1>3. n \notin Missing
  BY <1>2
<1> QED
  BY <1>3

LEMMA FedPrefix ==
  ASSUME NEW kind, NEW s, NEW f, NEW g, NEW a, NEW b, NEW n \in Nat, NEW m \in Nat, n <= m,
         IsFed(f, kind, s, a, n), IsFed(g, kind, s, b, m), Agree(a, b, n)
  PROVE  f[n] = g[n]
<1> DEFINE Different == {k \in 0..n : f[k] # g[k]}
<1>1. Different \in SUBSET Nat
  OBVIOUS
<1>2. /\ \A k \in 0..n : f[k] = IF k = 0 THEN s ELSE advance(kind, f[k - 1], a[k])
      /\ \A k \in 0..m : g[k] = IF k = 0 THEN s ELSE advance(kind, g[k - 1], b[k])
  BY DEF IsFed
<1>3. ASSUME Different # {}
      PROVE  FALSE
  <2>1. PICK k \in Different : \A l \in Different : k <= l
    BY <1>1, <1>3, LeastElement
  <2>2. k \in 0..m /\ k # 0
    <3>1. f[0] = g[0]
      <4>1. 0 \in 0..n /\ 0 \in 0..m
        OBVIOUS
      <4> QED
        BY <1>2, <4>1
    <3>2. k \in 0..n /\ f[k] # g[k]
      OBVIOUS
    <3> QED
      BY <3>1, <3>2
  <2>3. k - 1 \in 0..n /\ k - 1 \notin Different
    BY <2>1, <2>2
  <2>4. f[k - 1] = g[k - 1] /\ a[k] = b[k]
    BY <2>2, <2>3 DEF Agree
  <2>5. f[k] = g[k]
    BY <1>2, <2>2, <2>4
  <2> QED
    BY <2>5
<1> QED
  BY <1>3

\* The function that feed stands for.
LEMMA FedIs ==
  ASSUME NEW kind, NEW s, NEW t, Len(t) \in Nat
  PROVE  \E after : IsFed(after, kind, s, t, Len(t)) /\ feed(kind, s, t) = after[Len(t)]
<1> DEFINE chosen == CHOOSE after : IsFed(after, kind, s, t, Len(t))
<1>1. IsFed(chosen, kind, s, t, Len(t))
  BY FedExists
<1>2. feed(kind, s, t) = chosen[Len(t)]
  BY DEF feed, IsFed
<1> QED
  BY <1>1, <1>2

LEMMA FedNothing ==
  ASSUME NEW kind, NEW s
  PROVE  feed(kind, s, <<>>) = s
<1>1. Len(<<>>) = 0
  OBVIOUS
<1>2. PICK after : IsFed(after, kind, s, <<>>, 0) /\ feed(kind, s, <<>>) = after[0]
  BY <1>1, FedIs
<1> QED
  BY <1>2 DEF IsFed

\* It makes no difference where a text is cut into pieces.
LEMMA FedInTwo ==
  ASSUME NEW kind, NEW s, NEW t \in Seq(Alphabet), NEW u \in Seq(Alphabet)
  PROVE  feed(kind, feed(kind, s, t), u) = feed(kind, s, t \o u)
<1> DEFINE n == Len(t)
           m == Len(u)
           whole == t \o u
<1>1. /\ n \in Nat /\ m \in Nat /\ Len(whole) = n + m
      /\ Agree(t, whole, n)
      /\ \A k \in 1..m : u[k] = whole[n + k]
  BY ConcatProperties DEF Agree
<1> HIDE DEF whole
<1>2. PICK f : IsFed(f, kind, s, t, n) /\ feed(kind, s, t) = f[n]
  BY <1>1, FedIs
<1>3. PICK g : IsFed(g, kind, s, whole, n + m) /\ feed(kind, s, whole) = g[n + m]
  <2>1. Len(whole) \in Nat
    BY <1>1
  <2>2. \E g : IsFed(g, kind, s, whole, Len(whole)) /\ feed(kind, s, whole) = g[Len(whole)]
    BY <2>1, FedIs
  <2> QED
    BY <1>1, <2>2
<1> HIDE DEF n, m
<1>4. f[n] = g[n]
  <2>1. n + m \in Nat /\ n <= n + m
    BY <1>1
  <2> QED
    BY <1>1, <1>2, <1>3, <2>1, FedPrefix
<1>5. PICK h : IsFed(h, kind, f[n], u, m) /\ feed(kind, f[n], u) = h[m]
  BY <1>1, FedIs DEF m
<1> DEFINE rest == [k \in 0..m |-> g[n + k]]
<1>6. ASSUME NEW k \in 0..m
      PROVE  rest[k] = IF k = 0 THEN f[n] ELSE advance(kind, rest[k - 1], u[k])
  <2>1. CASE k = 0
    <3>1. rest[0] = g[n]
      BY <1>1
    <3> QED
      BY <1>4, <2>1, <3>1
  <2>2. CASE k # 0
    <3>1. n + k \in 0..(n + m) /\ n + k # 0 /\ k \in 1..m /\ k - 1 \in 0..m
          /\ (n + k) - 1 = n + (k - 1)
      BY <1>1, <2>2
    <3>2. g[n + k] = advance(kind, g[(n + k) - 1], whole[n + k])
      BY <1>3, <3>1 DEF IsFed
    <3>3. rest[k] = g[n + k] /\ rest[k - 1] = g[n + (k - 1)]
      BY <3>1
    <3>4. u[k] = whole[n + k]
      BY <1>1, <3>1
    <3> HIDE DEF rest
    <3> QED
      BY <2>2, <3>1, <3>2, <3>3, <3>4
  <2> QED
    BY <2>1, <2>2
<1>7. IsFed(rest, kind, f[n], u, m)
  <2>1. rest = [k \in 0..m |-> rest[k]]
    OBVIOUS
  <2>2. [k \in 0..m |-> rest[k]]
          = [k \in 0..m |-> IF k = 0 THEN f[n] ELSE advance(kind, rest[k - 1], u[k])]
    BY <1>6
  <2> HIDE DEF rest
  <2> QED
    BY <2>1, <2>2 DEF IsFed
<1>8. h[m] = rest[m]
  <2> HIDE DEF rest
  <2>1. m <= m /\ Agree(u, u, m)
    BY <1>1 DEF Agree
  <2> QED
    BY <1>1, <1>5, <1>7, <2>1, FedPrefix
<1>9. rest[m] = g[n + m]
  BY <1>1
<1> QED
  BY <1>2, <1>3, <1>5, <1>8, <1>9 DEF n, m, whole

LEMMA ScannersFind ==
  ASSUME ScannersAreExact(Seq(Alphabet)), NEW kind \in {"content", "packer", "embedded"},
         NEW t \in Seq(Alphabet)
  PROVE  finish(kind, feed(kind, NewScanner, t)) = FoundIn(kind, t)
BY DEF ScannersAreExact

\* A path that is not looked up anywhere need not be known.
LEMMA LookedPaths ==
  ASSUME documented \in Documents, NEW path
  PROVE  /\ Looked(path) \in DOMAIN DocumentedNow <=> path \in DOMAIN DocumentedNow
         /\ Looked(path) \in DOMAIN RetiredNow <=> path \in DOMAIN RetiredNow
         /\ path \in DOMAIN DocumentedNow \cup DOMAIN RetiredNow => Looked(path) = path
         /\ OfDiff => (MayBePacker(Looked(path)) <=> MayBePacker(path))
         /\ Looked(path) = NoPath <=> path = NoPath
<1>1. /\ Ungoverned \notin DOMAIN documented /\ Ungoverned \notin DOMAIN Retired
      /\ Ungoverned \notin PackerPaths /\ Ungoverned # NoPath
  BY PathsAssumption DEF Ungoverned, NoPath
<1>2. DOMAIN <<>> = {}
  OBVIOUS
<1>3. Ungoverned \notin DOMAIN DocumentedNow
  BY <1>1, <1>2 DEF DocumentedNow
<1>4. Ungoverned \notin DOMAIN RetiredNow
  BY <1>1, <1>2 DEF RetiredNow
<1>5. CASE path = NoPath \/ path \in Governed
  <2>1. Looked(path) = path
    BY <1>5 DEF Looked
  <2> QED
    BY <2>1
<1>6. CASE path # NoPath /\ path \notin Governed
  <2>1. Looked(path) = Ungoverned
    BY <1>6 DEF Looked
  <2>2. path \notin DOMAIN DocumentedNow /\ path \notin DOMAIN RetiredNow
    BY <1>6 DEF Governed
  <2>3. scan = "secrets" => path \notin PackerPaths
    BY <1>6 DEF Governed
  <2>4. OfDiff => ~MayBePacker(path) /\ ~MayBePacker(Ungoverned)
    BY <1>1, <2>3 DEF MayBePacker
  <2> QED
    BY <1>1, <1>3, <1>4, <1>6, <2>1, <2>2, <2>4
<1> QED
  BY <1>5, <1>6

\* The content of a hunk.
LEMMA ContentOfHunk ==
  ASSUME NEW lines, NEW more, NEW n \in Nat, Agree(lines, more, n),
         NEW d, StandsAfter(d, lines, n)
  PROVE  /\ IsContent(d, more[n + 1]) <=> InHunk(more, n + 1) /\ SignOf(more, n + 1) \in Signs
         /\ IsContent(d, more[n + 1]) =>
              /\ SignOf(more, n + 1) = Sign(more[n + 1][1])
              /\ HunkOf(lines, n) > SectionOf(lines, n)
              /\ ~BeginsWith(more[n + 1], DOMAIN DiffHeaders)
              /\ ~BeginsWith(more[n + 1], DOMAIN HunkHeaders)
<1> DEFINE line == more[n + 1]
<1>1. /\ SectionOf(lines, n) \in 0..n /\ HunkOf(lines, n) \in 0..n
  BY SectionAndHunkPrefix
<1>2. /\ d.inHunk \in BOOLEAN
      /\ d.inHunk => HunkOf(lines, n) > SectionOf(lines, n)
      /\ HunkOf(lines, n) > SectionOf(lines, n) => d.inHunk
  BY DEF StandsAfter
<1>3. /\ SectionOf(more, n + 1) = IF BeginsWith(line, DOMAIN DiffHeaders)
                                  THEN n + 1 ELSE SectionOf(lines, n)
      /\ HunkOf(more, n + 1) = IF BeginsWith(line, DOMAIN HunkHeaders)
                               THEN n + 1 ELSE HunkOf(lines, n)
  BY SectionOfOneMore
<1>4. ASSUME BeginsWith(line, DOMAIN DiffHeaders) \/ BeginsWith(line, DOMAIN HunkHeaders)
      PROVE  Sign(line[1]) \notin Signs
  <2>1. ~BeginsWith(line, DOMAIN OldHeaders) /\ ~BeginsWith(line, DOMAIN NewHeaders)
    BY <1>4, HeadersAreDistinct
  <2>2. line[1] \notin DOMAIN OldHeaders /\ line[1] \notin DOMAIN NewHeaders
    BY <1>4, <2>1 DEF BeginsWith
  <2>3. line[1] \in DOMAIN DiffHeaders \/ line[1] \in DOMAIN HunkHeaders
    BY <1>4 DEF BeginsWith
  <2>4. DOMAIN DiffHeaders \cap Signs = {} /\ DOMAIN HunkHeaders \cap Signs = {}
    <3> DEFINE headers == <<DiffHeaders, OldHeaders, NewHeaders, HunkHeaders>>
    <3>1. \A i \in 1..4 : DOMAIN headers[i] \cap (Signs \cup {MalformedHunk}) = {}
      BY HeadersAssumption
    <3>2. headers[1] = DiffHeaders /\ headers[4] = HunkHeaders /\ 1 \in 1..4 /\ 4 \in 1..4
      OBVIOUS
    <3> HIDE DEF headers
    <3> QED
      BY <3>1, <3>2
  <2> QED
    BY <2>2, <2>3, <2>4 DEF Sign
<1>5. ASSUME IsContent(d, line)
      PROVE  /\ InHunk(more, n + 1) /\ SignOf(more, n + 1) \in Signs
             /\ SignOf(more, n + 1) = Sign(line[1])
             /\ HunkOf(lines, n) > SectionOf(lines, n)
             /\ ~BeginsWith(line, DOMAIN DiffHeaders)
             /\ ~BeginsWith(line, DOMAIN HunkHeaders)
  <2>1. d.inHunk /\ line # <<>> /\ Sign(line[1]) \in Signs
    BY <1>5 DEF IsContent
  <2>2. SignOf(more, n + 1) = Sign(line[1])
    BY <2>1 DEF SignOf
  <2>3. ~BeginsWith(line, DOMAIN DiffHeaders) /\ ~BeginsWith(line, DOMAIN HunkHeaders)
    BY <1>4, <2>1
  <2>4. HunkOf(lines, n) > SectionOf(lines, n)
    BY <1>2, <2>1
  <2>5. InHunk(more, n + 1)
    BY <1>1, <1>3, <2>3, <2>4 DEF InHunk
  <2> QED
    BY <2>1, <2>2, <2>3, <2>4, <2>5
<1>6. ASSUME InHunk(more, n + 1), SignOf(more, n + 1) \in Signs
      PROVE  IsContent(d, line)
  <2>1. HunkOf(more, n + 1) > SectionOf(more, n + 1) /\ HunkOf(more, n + 1) < n + 1
    BY <1>6 DEF InHunk
  <2>2. ~BeginsWith(line, DOMAIN HunkHeaders)
    BY <1>3, <2>1
  <2>3. ~BeginsWith(line, DOMAIN DiffHeaders)
    BY <1>1, <1>3, <2>1, <2>2
  <2>4. HunkOf(lines, n) > SectionOf(lines, n)
    BY <1>3, <2>1, <2>2, <2>3
  <2>5. line # <<>> /\ Sign(line[1]) \in Signs
    BY <1>6 DEF SignOf, Signs
  <2>6. d.inHunk
    BY <1>2, <2>4
  <2> QED
    BY <2>5, <2>6 DEF IsContent
<1> QED
  BY <1>5, <1>6

\* Where a line of a diff is looked up.
LEMMA PlaceIsLooked ==
  ASSUME documented \in Documents, OfDiff,
         NEW lines, NEW more, NEW n \in Nat, Agree(lines, more, n),
         NEW d, StandsAfter(d, lines, n)
  PROVE  LET place == PlaceOf(d, more[n + 1])
             found == Place(more, n + 1)
         IN  /\ place.path = Looked(found[1]) /\ place.number = found[2]
             /\ place.removed <=> Removed(more, n + 1)
             /\ Removed(more, n + 1) =>
                  d.old = Looked(found[1]) /\ d.section = SectionPathOf(more, n + 1)
<1> DEFINE line == more[n + 1]
           place == PlaceOf(d, line)
           found == Place(more, n + 1)
<1>1. /\ IsContent(d, line) <=> InHunk(more, n + 1) /\ SignOf(more, n + 1) \in Signs
      /\ IsContent(d, line) =>
           /\ SignOf(more, n + 1) = Sign(line[1])
           /\ HunkOf(lines, n) > SectionOf(lines, n)
           /\ ~BeginsWith(line, DOMAIN DiffHeaders)
           /\ ~BeginsWith(line, DOMAIN HunkHeaders)
  BY ContentOfHunk
<1>2. CASE ~IsContent(d, line)
  <2>1. place = Unplaced
    BY <1>2 DEF PlaceOf
  <2>2. ~Added(more, n + 1) /\ ~Removed(more, n + 1) /\ ~Kept(more, n + 1)
    BY <1>1, <1>2 DEF Added, Removed, Kept, Signs
  <2>3. found = <<NoPath, 0>>
    BY <2>2 DEF Place
  <2>4. Looked(NoPath) = NoPath
    BY DEF Looked
  <2>5. place.path = NoPath /\ place.number = 0 /\ place.removed = FALSE
    BY <2>1 DEF Unplaced
  <2>6. found[1] = NoPath /\ found[2] = 0
    BY <2>3
  <2> QED
    BY <2>2, <2>4, <2>5, <2>6
<1>3. CASE IsContent(d, line)
  <2> DEFINE signed == Sign(line[1])
             old == PathIn(more, n + 1, OldHeaders)
             new == PathIn(more, n + 1, NewHeaders)
             oldNumber == OldNumber(more, n + 1)
             newNumber == NewNumber(more, n + 1)
  <2>1. signed \in {"+", "-", " "} /\ SignOf(more, n + 1) = signed /\ InHunk(more, n + 1)
    BY <1>1, <1>3 DEF Signs
  <2>2. SectionOf(lines, n) \in 0..n /\ HunkOf(lines, n) \in 0..n
    BY SectionAndHunkPrefix
  <2>3. ~(HunkOf(lines, n) <= SectionOf(lines, n)) /\ HunkOf(lines, n) # 0
    BY <1>1, <1>3, <2>2
  <2>4. \A headers \in {OldHeaders, NewHeaders} :
          PathIn(more, n + 1, headers) = PathIn(lines, n, headers)
    BY <1>1, <1>3, <2>3, PathOfOneMore
  <2>5. d.old = Looked(old) /\ d.new = Looked(new)
    BY <2>4 DEF StandsAfter
  <2>6. d.oldNumber = oldNumber /\ d.newNumber = newNumber
    <3>1. \A side \in 1..2 : \A signs :
            NumberIn(more, n + 1, side, signs) = NumberAfter(lines, n, side, signs)
      BY <1>1, <1>3, <2>3, NumberOfOneMore
    <3>2. 1 \in 1..2 /\ 2 \in 1..2
      OBVIOUS
    <3>3. d.inHunk
      BY <1>3 DEF IsContent
    <3>4. /\ d.oldNumber = NumberAfter(lines, n, 1, {"-", " "})
          /\ d.newNumber = NumberAfter(lines, n, 2, {"+", " "})
      BY <3>3 DEF StandsAfter
    <3> QED
      BY <3>1, <3>2, <3>4 DEF OldNumber, NewNumber
  <2>7. d.old = NoPath <=> old = NoPath
    BY <2>5, LookedPaths
  <2>8. d.section = SectionPathOf(more, n + 1)
    BY <1>1, <1>3, PlaceOfOneMore DEF StandsAfter
  <2>9. place = [path |-> IF signed = "+" \/ (signed = " " /\ d.old = NoPath)
                          THEN d.new ELSE d.old,
                 number |-> IF signed = "+" \/ (signed = " " /\ d.oldNumber = 0)
                            THEN d.newNumber ELSE d.oldNumber,
                 removed |-> signed = "-"]
    BY <1>3 DEF PlaceOf
  <2>10. /\ Added(more, n + 1) <=> signed = "+"
         /\ Removed(more, n + 1) <=> signed = "-"
         /\ Kept(more, n + 1) <=> signed = " "
    BY <2>1 DEF Added, Removed, Kept
  <2> HIDE DEF signed, place, found
  <2>p. /\ place.path = IF signed = "+" \/ (signed = " " /\ d.old = NoPath)
                        THEN d.new ELSE d.old
        /\ place.number = IF signed = "+" \/ (signed = " " /\ d.oldNumber = 0)
                          THEN d.newNumber ELSE d.oldNumber
    BY <2>9
  <2>r. place.removed <=> signed = "-"
    BY <2>9
  <2>11. ASSUME signed = "+"
         PROVE  /\ place.path = Looked(found[1]) /\ place.number = found[2]
                /\ place.removed <=> Removed(more, n + 1)
                /\ Removed(more, n + 1) =>
                    d.old = Looked(found[1]) /\ d.section = SectionPathOf(more, n + 1)
    <3>1. place.path = d.new /\ place.number = d.newNumber /\ ~place.removed
      BY <2>p, <2>r, <2>11
    <3>2. found = <<new, newNumber>>
      BY <2>10, <2>11 DEF Place, NewPlace, found
    <3> QED
      BY <2>5, <2>6, <2>10, <2>11, <3>1, <3>2
  <2>12. ASSUME signed = "-"
         PROVE  /\ place.path = Looked(found[1]) /\ place.number = found[2]
                /\ place.removed <=> Removed(more, n + 1)
                /\ Removed(more, n + 1) =>
                    d.old = Looked(found[1]) /\ d.section = SectionPathOf(more, n + 1)
    <3>1. place.path = d.old /\ place.number = d.oldNumber /\ place.removed
      BY <2>p, <2>r, <2>12
    <3>2. found = <<old, oldNumber>>
      BY <2>10, <2>12 DEF Place, OldPlace, found
    <3> QED
      BY <2>5, <2>6, <2>8, <2>10, <2>12, <3>1, <3>2
  <2>13. ASSUME signed = " "
         PROVE  /\ place.path = Looked(found[1]) /\ place.number = found[2]
                /\ place.removed <=> Removed(more, n + 1)
                /\ Removed(more, n + 1) =>
                    d.old = Looked(found[1]) /\ d.section = SectionPathOf(more, n + 1)
    <3>1. /\ place.path = IF d.old = NoPath THEN d.new ELSE d.old
          /\ place.number = IF d.oldNumber = 0 THEN d.newNumber ELSE d.oldNumber
          /\ ~place.removed
      BY <2>p, <2>r, <2>13
    <3>2. /\ found[1] = IF old = NoPath THEN new ELSE old
          /\ found[2] = IF oldNumber = 0 THEN newNumber ELSE oldNumber
      <4>1. found = KeptPlace(more, n + 1)
        BY <2>10, <2>13 DEF Place, found
      <4>2. OldPlace(more, n + 1)[1] = old /\ NewPlace(more, n + 1)[1] = new
        BY DEF OldPlace, NewPlace
      <4>3. OldPlace(more, n + 1)[2] = oldNumber /\ NewPlace(more, n + 1)[2] = newNumber
        BY DEF OldPlace, NewPlace
      <4> QED
        BY <4>1, <4>2, <4>3 DEF KeptPlace
    <3> QED
      BY <2>5, <2>6, <2>7, <2>10, <2>13, <3>1, <3>2
  <2> QED
    BY <2>1, <2>11, <2>12, <2>13 DEF signed, place, found
<1> QED
  BY <1>2, <1>3

\* What of a line is content, and the scanners that have read the line.
ContentOf(line) == IF OfDiff THEN WithoutSign(line) ELSE line
AfterFragments(line) ==
  [content |-> ContentOf(line),
   scan |-> feed("content", NewScanner, line),
   packer |-> feed("packer", NewScanner, ContentOf(line)),
   embedded |-> feed("embedded", NewScanner, ContentOf(line))]

\* Where EndLine looks the line up.
PlaceAt(d, line, n) ==
  IF OfDiff THEN PlaceOf(d, line) ELSE [path |-> Path, number |-> n, removed |-> FALSE]

\* A line is masked exactly if it is exempt in the whole text.
LEMMA MaskedIsExempt ==
  ASSUME ScannersAreExact(Seq(Alphabet)), documented \in Documents,
         NEW lines, NEW more, NEW n \in Nat, Agree(lines, more, n), more[n + 1] \in Seq(Alphabet),
         Content(more, n + 1) \in Seq(Alphabet),
         NEW d, OfDiff => StandsAfter(d, lines, n)
  PROVE  Masked(PlaceAt(d, more[n + 1], n + 1), d, AfterFragments(more[n + 1]))
           <=> Exempt(more, n + 1)
<1> PICK place : place = PlaceAt(d, more[n + 1], n + 1)
  OBVIOUS
<1> PICK last : last = AfterFragments(more[n + 1])
  OBVIOUS
<1>a. /\ OfDiff => place = PlaceOf(d, more[n + 1])
      /\ ~OfDiff => place = [path |-> Path, number |-> n + 1, removed |-> FALSE]
  BY DEF PlaceAt
<1>b. last = [content |-> Content(more, n + 1),
              scan |-> feed("content", NewScanner, more[n + 1]),
              packer |-> feed("packer", NewScanner, Content(more, n + 1)),
              embedded |-> feed("embedded", NewScanner, Content(more, n + 1))]
  BY DEF AfterFragments, ContentOf, Content
<1> DEFINE line == more[n + 1]
           content == Content(more, n + 1)
           found == Place(more, n + 1)
<1>1. /\ last.content = content
      /\ finish("content", last.scan) = FoundIn("content", line)
      /\ finish("packer", last.packer) = FoundIn("packer", content)
      /\ finish("embedded", last.embedded) = FoundIn("embedded", content)
  <2>1. /\ last.scan = feed("content", NewScanner, line)
        /\ last.packer = feed("packer", NewScanner, content)
        /\ last.embedded = feed("embedded", NewScanner, content)
        /\ last.content = content
    BY <1>b
  <2>2. finish("content", feed("content", NewScanner, line)) = FoundIn("content", line)
    BY ScannersFind
  <2>3. finish("packer", feed("packer", NewScanner, content)) = FoundIn("packer", content)
    BY ScannersFind
  <2>4. finish("embedded", feed("embedded", NewScanner, content)) = FoundIn("embedded", content)
    BY ScannersFind
  <2> QED
    BY <2>1, <2>2, <2>3, <2>4
<1> HIDE DEF line, content, found
<1>2. CASE OfDiff
  <2>1. /\ place.path = Looked(found[1]) /\ place.number = found[2]
        /\ place.removed <=> Removed(more, n + 1)
        /\ Removed(more, n + 1) =>
             d.old = Looked(found[1]) /\ d.section = SectionPathOf(more, n + 1)
    <3>1. place = PlaceOf(d, more[n + 1])
      BY <1>2, <1>a
    <3> QED
      BY <1>2, <3>1, PlaceIsLooked DEF found
  <2>2. /\ Looked(found[1]) \in DOMAIN DocumentedNow <=> found[1] \in DOMAIN DocumentedNow
        /\ Looked(found[1]) \in DOMAIN RetiredNow <=> found[1] \in DOMAIN RetiredNow
        /\ found[1] \in DOMAIN DocumentedNow \cup DOMAIN RetiredNow => Looked(found[1]) = found[1]
        /\ MayBePacker(Looked(found[1])) <=> MayBePacker(found[1])
    BY <1>2, LookedPaths
  <2>3. DocumentedLine(place, last.content) <=> IsDocumented(more, n + 1)
    BY <1>1, <2>1, <2>2 DEF DocumentedLine, IsDocumented, IsAmong, IsLine, found, content
  <2>4. RetiredLine(place, d.section, last.content) <=> IsRetired(more, n + 1)
    <3>1. IsLine(RetiredNow, place.path, place.number, last.content)
            <=> IsAmong(RetiredNow, more, n + 1)
      BY <1>1, <2>1, <2>2 DEF IsAmong, IsLine, found, content
    <3>2. IsAmong(RetiredNow, more, n + 1) => place.path = found[1]
      BY <2>1, <2>2 DEF IsAmong, IsLine, found
    <3> QED
      BY <1>2, <2>1, <3>1, <3>2 DEF RetiredLine, IsRetired, found
  <2>5. RemovedSecret(place, d.old, finish("content", last.scan)) <=> IsRedacted(more, n + 1)
    BY <1>1, <2>1, <2>2 DEF RemovedSecret, IsRedacted, found, line
  <2>6. PackerLine(place, last) <=> IsReference(more, n + 1)
    BY <1>1, <2>1, <2>2 DEF PackerLine, IsReference, found, line, content
  <2> QED
    BY <2>3, <2>4, <2>5, <2>6 DEF Masked, Exempt
<1>3. CASE ~OfDiff
  <2>1. place.path = Path /\ place.number = n + 1 /\ ~place.removed
    BY <1>3, <1>a
  <2>2. found = <<Path, n + 1>>
    BY <1>3 DEF Place, found
  <2>3. found[1] = Path /\ found[2] = n + 1
    BY <2>2
  <2>4. DocumentedLine(place, last.content) <=> IsDocumented(more, n + 1)
    BY <1>1, <2>1, <2>3 DEF DocumentedLine, IsDocumented, IsAmong, IsLine, found, content
  <2>5. ~RetiredLine(place, d.section, last.content) /\ ~IsRetired(more, n + 1)
    BY <1>3, <2>1 DEF RetiredLine, IsRetired
  <2>6. /\ ~RemovedSecret(place, d.old, finish("content", last.scan))
        /\ ~IsRedacted(more, n + 1)
    BY <1>3 DEF RemovedSecret, IsRedacted, Redacting, OfDiff
  <2>7. PackerLine(place, last) <=> IsReference(more, n + 1)
    BY <1>1, <2>1, <2>3 DEF PackerLine, IsReference, found, line, content
  <2> QED
    BY <2>4, <2>5, <2>6, <2>7 DEF Masked, Exempt
<1>4. Masked(place, d, last) <=> Exempt(more, n + 1)
  BY <1>2, <1>3
<1> QED
  BY <1>4

LEMMA FunctionIsSequence ==
  ASSUME NEW S, NEW n \in Nat, NEW f \in [1..n -> S]
  PROVE  f \in Seq(S) /\ Len(f) = n
  OBVIOUS

LEMMA ShownOfOneMore ==
  ASSUME NEW lines \in Seq(Seq(Alphabet)), NEW line \in Seq(Alphabet)
  PROVE  LET more == Append(lines, line)
             shown == IF Exempt(more, Len(lines) + 1) THEN Placeholder ELSE line
         IN  /\ ShownLines(more) = Append(ShownLines(lines), shown)
             /\ ShownLines(lines) \in Seq(Seq(Alphabet)) /\ shown \in Seq(Alphabet)
             /\ Joined(ShownLines(more)) = Joined(ShownLines(lines)) \o Append(shown, "LF")
<1> DEFINE more == Append(lines, line)
           n == Len(lines)
           shown == IF Exempt(more, n + 1) THEN Placeholder ELSE line
<1>1. /\ n \in Nat /\ more \in Seq(Seq(Alphabet)) /\ DOMAIN more = 1..(n + 1)
      /\ DOMAIN lines = 1..n /\ more[n + 1] = line /\ \A k \in 1..n : more[k] = lines[k]
  BY AppendProperties, LenProperties
<1>2. Placeholder \in Seq(Alphabet)
  <2>1. Placeholder[1] \in Alphabet
    BY AlphabetAssumption
  <2>2. PICK mask : Placeholder = <<mask>> /\ Placeholder[1] = mask
    BY DEF Placeholder
  <2>3. <<mask>> = Append(<<>>, mask)
    OBVIOUS
  <2>4. <<>> \in Seq(Alphabet)
    BY EmptySeq
  <2> QED
    BY <2>1, <2>2, <2>3, <2>4, AppendProperties
<1>3. shown \in Seq(Alphabet)
  BY <1>2
<1> HIDE DEF more
<1>4. ASSUME NEW k \in 1..n
      PROVE  Exempt(more, k) <=> Exempt(lines, k)
  <2>1. k \in Nat \ {0} /\ Agree(more, lines, k)
    BY <1>1 DEF Agree
  <2> QED
    BY <2>1, ExemptPrefix
<1>5. ShownLines(lines) \in Seq(Seq(Alphabet)) /\ Len(ShownLines(lines)) = n
  <2>1. \A k \in 1..n : ShownLines(lines)[k] \in Seq(Alphabet)
    BY <1>1, <1>2, ElementOfSeq DEF ShownLines
  <2>2. ShownLines(lines) = [k \in 1..n |-> ShownLines(lines)[k]]
    BY <1>1 DEF ShownLines
  <2>3. ShownLines(lines) \in [1..n -> Seq(Alphabet)]
    BY <2>1, <2>2
  <2> QED
    BY <1>1, <2>3, FunctionIsSequence
<1>6. ShownLines(more) \in Seq(Seq(Alphabet)) /\ Len(ShownLines(more)) = n + 1
  <2>1. \A k \in 1..(n + 1) : ShownLines(more)[k] \in Seq(Alphabet)
    <3>1. Len(more) = n + 1
      BY <1>1, LenProperties
    <3>2. \A k \in 1..(n + 1) : more[k] \in Seq(Alphabet)
      BY <1>1, <3>1, ElementOfSeq
    <3> QED
      BY <1>1, <1>2, <3>2 DEF ShownLines
  <2>2. ShownLines(more) = [k \in 1..(n + 1) |-> ShownLines(more)[k]]
    BY <1>1 DEF ShownLines
  <2>3. ShownLines(more) \in [1..(n + 1) -> Seq(Alphabet)] /\ n + 1 \in Nat
    BY <1>1, <2>1, <2>2
  <2> QED
    BY <2>3
<1>7. ShownLines(more) = Append(ShownLines(lines), shown)
  <2> DEFINE other == Append(ShownLines(lines), shown)
  <2>1. /\ other \in Seq(Seq(Alphabet)) /\ Len(other) = n + 1 /\ other[n + 1] = shown
        /\ \A k \in 1..n : other[k] = ShownLines(lines)[k]
    BY <1>3, <1>5, AppendProperties
  <2> HIDE DEF other
  <2>2. \A k \in 1..n : ShownLines(more)[k] = ShownLines(lines)[k]
    BY <1>1, <1>4 DEF ShownLines
  <2>3. ShownLines(more)[n + 1] = shown
    BY <1>1 DEF ShownLines
  <2>4. \A k \in 1..(n + 1) : ShownLines(more)[k] = other[k]
    <3>1. \A k \in 1..(n + 1) : k \in 1..n \/ k = n + 1
      BY <1>1
    <3> QED
      BY <2>1, <2>2, <2>3, <3>1
  <2>5. ShownLines(more) = other
    BY <1>6, <2>1, <2>4, SeqEqual
  <2> QED
    BY <2>5 DEF other
<1>8. Joined(ShownLines(more)) = Joined(ShownLines(lines)) \o Append(shown, "LF")
  BY <1>3, <1>5, <1>7, JoinedOfOneMore
<1> QED
  BY <1>3, <1>5, <1>7, <1>8 DEF more

-----------------------------------------------------------------------------
(* The content of a line that is read in fragments.                        *)

LEMMA HeadTailConcat ==
  ASSUME NEW S, NEW a \in Seq(S), NEW b \in Seq(S), a # <<>>
  PROVE  a \o b # <<>> /\ Head(a \o b) = Head(a) /\ Tail(a \o b) = Tail(a) \o b
<1> DEFINE n == Len(a)
           m == Len(b)
           c == a \o b
<1>1. n \in Nat /\ n # 0 /\ m \in Nat
  BY EmptySeq, LenProperties
<1>2. /\ c \in Seq(S) /\ Len(c) = n + m
      /\ \A i \in 1..(n + m) : c[i] = IF i <= n THEN a[i] ELSE b[i - n]
  BY ConcatProperties
<1> HIDE DEF c
<1>3. c # <<>>
  BY <1>1, <1>2, EmptySeq
<1>4. Head(c) = c[1] /\ Head(a) = a[1] /\ c[1] = a[1]
  BY <1>1, <1>2
<1>5. \A s \in Seq(S) : s # <<>> =>
        /\ Tail(s) \in Seq(S) /\ Len(Tail(s)) = Len(s) - 1
        /\ \A i \in 1..(Len(s) - 1) : Tail(s)[i] = s[i + 1]
  <2> SUFFICES ASSUME NEW s \in Seq(S), s # <<>>
               PROVE  /\ Tail(s) \in Seq(S) /\ Len(Tail(s)) = Len(s) - 1
                      /\ \A i \in 1..(Len(s) - 1) : Tail(s)[i] = s[i + 1]
    OBVIOUS
  <2>1. Tail(s) \in Seq(S) /\ Len(Tail(s)) = Len(s) - 1
    BY HeadTailProperties
  <2>2. Tail(s) = SubSeq(s, 2, Len(s)) /\ Len(s) \in Nat /\ Len(s) # 0
    BY TailIsSubSeq, EmptySeq, LenProperties
  <2>3. \A i \in 2..Len(s) : s[i] \in S
    BY <2>2, ElementOfSeq
  <2>4. \A i \in 1..(Len(s) - 2 + 1) : SubSeq(s, 2, Len(s))[i] = s[2 + i - 1]
    BY <2>2, <2>3, SubSeqProperties
  <2>5. \A i \in 1..(Len(s) - 1) : i \in 1..(Len(s) - 2 + 1) /\ 2 + i - 1 = i + 1
    BY <2>2
  <2> QED
    BY <2>1, <2>2, <2>4, <2>5
<1>6. /\ Tail(c) \in Seq(S) /\ Len(Tail(c)) = n + m - 1
      /\ \A i \in 1..(n + m - 1) : Tail(c)[i] = c[i + 1]
  BY <1>2, <1>3, <1>5
<1>7. /\ Tail(a) \in Seq(S) /\ Len(Tail(a)) = n - 1
      /\ \A i \in 1..(n - 1) : Tail(a)[i] = a[i + 1]
  BY <1>5
<1> DEFINE d == Tail(a) \o b
<1>8. /\ d \in Seq(S) /\ Len(d) = n - 1 + m
      /\ \A i \in 1..(n - 1 + m) : d[i] = IF i <= n - 1 THEN Tail(a)[i] ELSE b[i - (n - 1)]
  BY <1>7, ConcatProperties
<1> HIDE DEF d
<1>9. ASSUME NEW i \in 1..(n + m - 1)
      PROVE  Tail(c)[i] = d[i]
  <2>1. i \in 1..(n - 1 + m) /\ i + 1 \in 1..(n + m) /\ Tail(c)[i] = c[i + 1]
    BY <1>1, <1>6
  <2>2. CASE i <= n - 1
    <3>1. i \in 1..(n - 1) /\ i + 1 <= n
      BY <1>1, <2>2
    <3> QED
      BY <1>2, <1>7, <1>8, <2>1, <2>2, <3>1
  <2>3. CASE ~(i <= n - 1)
    <3>1. ~(i + 1 <= n) /\ i + 1 - n = i - (n - 1)
      BY <1>1, <2>3
    <3> QED
      <4>1. c[i + 1] = b[i + 1 - n]
        BY <1>2, <2>1, <3>1
      <4>2. d[i] = b[i - (n - 1)]
        BY <1>8, <2>1, <2>3
      <4> QED
        BY <2>1, <3>1, <4>1, <4>2
  <2> QED
    BY <2>2, <2>3
<1>10. Tail(c) = d
  <2>1. Len(Tail(c)) = n + m - 1 /\ Len(d) = n + m - 1
    BY <1>1, <1>6, <1>8
  <2> QED
    BY <1>6, <1>8, <1>9, <2>1, SeqEqual
<1> QED
  BY <1>3, <1>4, <1>10 DEF c, d

LEMMA SignIsOfLine ==
  /\ WithoutSign(<<>>) = <<>>
  /\ \A a, b \in Seq(Alphabet) :
       /\ WithoutSign(a) \in Seq(Alphabet)
       /\ a # <<>> => WithoutSign(a \o b) = WithoutSign(a) \o b
<1>1. WithoutSign(<<>>) = <<>>
  BY DEF WithoutSign
<1>2. \A character : AfterSign(character) \in Seq(Alphabet)
  <2>1. "-- " \in Alphabet /\ "++ " \in Alphabet /\ <<>> \in Seq(Alphabet)
    BY AlphabetAssumption, EmptySeq
  <2>2. ASSUME NEW character \in Alphabet
        PROVE  <<character>> \in Seq(Alphabet)
    <3>1. <<character>> = Append(<<>>, character)
      OBVIOUS
    <3> QED
      BY <2>1, <3>1, AppendProperties
  <2>3. <<"-- ">> \in Seq(Alphabet) /\ <<"++ ">> \in Seq(Alphabet)
    BY <2>1, <2>2
  <2> QED
    BY <2>1, <2>3 DEF AfterSign
<1>3. ASSUME NEW a \in Seq(Alphabet), a # <<>>
      PROVE  Tail(a) \in Seq(Alphabet)
  BY <1>3, HeadTailProperties
<1>4. ASSUME NEW a \in Seq(Alphabet)
      PROVE  WithoutSign(a) \in Seq(Alphabet)
  <2>1. CASE a = <<>>
    BY <1>1, <2>1, EmptySeq
  <2>2. CASE a # <<>>
    <3>1. WithoutSign(a) = AfterSign(Head(a)) \o Tail(a)
      BY <2>2 DEF WithoutSign
    <3> QED
      BY <1>2, <1>3, <2>2, <3>1, ConcatProperties
  <2> QED
    BY <2>1, <2>2
<1>5. ASSUME NEW a \in Seq(Alphabet), NEW b \in Seq(Alphabet), a # <<>>
      PROVE  WithoutSign(a \o b) = WithoutSign(a) \o b
  <2>1. a \o b # <<>> /\ Head(a \o b) = Head(a) /\ Tail(a \o b) = Tail(a) \o b
    BY <1>5, HeadTailConcat
  <2> DEFINE c == a \o b
  <2>2. WithoutSign(c) = AfterSign(Head(c)) \o Tail(c)
    <3> HIDE DEF c
    <3>1. c # <<>>
      BY <2>1 DEF c
    <3> QED
      BY <3>1 DEF WithoutSign
  <2>3. WithoutSign(a) = AfterSign(Head(a)) \o Tail(a)
    BY <1>5 DEF WithoutSign
  <2>4. AfterSign(Head(a)) \o (Tail(a) \o b) = (AfterSign(Head(a)) \o Tail(a)) \o b
    <3>1. ASSUME NEW x \in Seq(Alphabet), NEW y \in Seq(Alphabet), NEW z \in Seq(Alphabet)
          PROVE  (x \o y) \o z = x \o (y \o z)
      BY ConcatAssociative
    <3>2. AfterSign(Head(a)) \in Seq(Alphabet) /\ Tail(a) \in Seq(Alphabet)
      BY <1>2, <1>3, <1>5
    <3> QED
      BY <3>1, <3>2
  <2> QED
    BY <2>1, <2>2, <2>3, <2>4
<1> QED
  BY <1>1, <1>4, <1>5

LEMMA FragmentsAreRead ==
  ASSUME ScannersAreExact(Seq(Alphabet)), lineFile \in Seq(Alphabet), Fragment \in Seq(Alphabet),
         current = AfterFragments(lineFile)
  PROVE  /\ WithFragment = AfterFragments(lineFile \o Fragment)
         /\ ContentOf(lineFile \o Fragment) \in Seq(Alphabet)
<1> DEFINE content == IF OfDiff /\ lineFile = <<>> THEN WithoutSign(Fragment) ELSE Fragment
           before == ContentOf(lineFile)
           line == lineFile \o Fragment
<1>1. content \in Seq(Alphabet) /\ before \in Seq(Alphabet) /\ line \in Seq(Alphabet)
  BY SignIsOfLine, ConcatProperties DEF ContentOf
<1>2. ContentOf(line) = before \o content
  <2>1. CASE OfDiff /\ lineFile = <<>>
    <3>1. line = Fragment /\ before = <<>> /\ content = WithoutSign(Fragment)
      BY <2>1, SignIsOfLine, ConcatEmptySeq DEF ContentOf
    <3>2. <<>> \o WithoutSign(Fragment) = WithoutSign(Fragment)
      BY SignIsOfLine, ConcatEmptySeq
    <3> QED
      BY <2>1, <3>1, <3>2 DEF ContentOf
  <2>2. CASE OfDiff /\ lineFile # <<>>
    BY <2>2, SignIsOfLine DEF ContentOf
  <2>3. CASE ~OfDiff
    BY <2>3 DEF ContentOf
  <2> QED
    BY <2>1, <2>2, <2>3
<1>3. /\ feed("content", current.scan, Fragment) = feed("content", NewScanner, line)
      /\ feed("packer", current.packer, content) = feed("packer", NewScanner, before \o content)
      /\ feed("embedded", current.embedded, content)
           = feed("embedded", NewScanner, before \o content)
  <2>1. /\ current.scan = feed("content", NewScanner, lineFile)
        /\ current.packer = feed("packer", NewScanner, before)
        /\ current.embedded = feed("embedded", NewScanner, before)
    BY DEF AfterFragments
  <2> HIDE DEF content, before
  <2>2. feed("content", feed("content", NewScanner, lineFile), Fragment)
          = feed("content", NewScanner, lineFile \o Fragment)
    BY FedInTwo
  <2>3. feed("packer", feed("packer", NewScanner, before), content)
          = feed("packer", NewScanner, before \o content)
    BY <1>1, FedInTwo
  <2>4. feed("embedded", feed("embedded", NewScanner, before), content)
          = feed("embedded", NewScanner, before \o content)
    BY <1>1, FedInTwo
  <2> QED
    BY <2>1, <2>2, <2>3, <2>4
<1>4. current.content = before
  BY DEF AfterFragments
<1>5. WithFragment = [content |-> current.content \o content,
                      scan |-> feed("content", current.scan, Fragment),
                      packer |-> feed("packer", current.packer, content),
                      embedded |-> feed("embedded", current.embedded, content)]
  BY DEF WithFragment
<1>6. ContentOf(line) \in Seq(Alphabet)
  BY <1>1, SignIsOfLine DEF ContentOf
<1> HIDE DEF content, before
<1> QED
  BY <1>2, <1>3, <1>4, <1>5, <1>6 DEF AfterFragments

-----------------------------------------------------------------------------
(* The inductive invariant of the scan.                                    *)

Shown == Joined(ShownLines(complete))

ScanTypes ==
  /\ documented \in Documents
  /\ scan \in {"file", "keys", "secrets", "npmrc"}
  /\ outcome \in {"scanning", "scanned", "refused", "accepted"}

ScanSoFar ==
  /\ current = AfterFragments(lineFile)
  /\ OfDiff => StandsAfter(diff, complete, Len(complete))
  /\ ShownLines(complete) \in Seq(Seq(Alphabet)) /\ Shown \in Seq(Alphabet)
  /\ outcome = "scanning" => total = feed("content", NewScanner, Shown)
  /\ outcome \in {"scanned", "accepted"} =>
       SplitEnded /\ flags = FoundIn("content", Shown)

ScanInv == SplitInv /\ ScanTypes /\ ScanSoFar

LEMMA SameInputs ==
  ASSUME UNCHANGED inputs
  PROVE  /\ DocumentedNow' = DocumentedNow /\ RetiredNow' = RetiredNow
         /\ OfDiff' <=> OfDiff
         /\ \A d, lines, n : StandsAfter(d, lines, n)' <=> StandsAfter(d, lines, n)
         /\ \A line : AfterFragments(line)' = AfterFragments(line)
         /\ \A lines, n : Exempt(lines, n)' <=> Exempt(lines, n)
         /\ \A lines : ShownLines(lines)' = ShownLines(lines)
<1>1. /\ documented' = documented /\ scan' = scan
  BY DEF inputs
<1>2. /\ DocumentedNow' = DocumentedNow /\ RetiredNow' = RetiredNow
      /\ OfDiff' <=> OfDiff
      /\ Redacting' <=> Redacting
      /\ \A path : MayBePacker(path)' <=> MayBePacker(path)
  BY <1>1 DEF DocumentedNow, RetiredNow, OfDiff, Redacting, MayBePacker
<1>3. \A path : Looked(path)' = Looked(path)
  BY <1>1, <1>2 DEF Looked, Governed
<1>4. \A lines, n : SectionPathOf(lines, n)' = SectionPathOf(lines, n)
  BY <1>2 DEF SectionPathOf, SectionPath
<1>5. \A d, lines, n : StandsAfter(d, lines, n)' <=> StandsAfter(d, lines, n)
  <2>1. \A lines, n, headers :
          Looked(PathIn(lines, n, headers))' = Looked(PathIn(lines, n, headers))
    BY <1>3
  <2>2. ASSUME NEW d, NEW lines, NEW n
        PROVE  StandsAfter(d, lines, n)' <=> StandsAfter(d, lines, n)
    <3>1. SectionPathOf(lines, n)' = SectionPathOf(lines, n)
      BY <1>4
    <3>2. Looked(PathIn(lines, n, OldHeaders))' = Looked(PathIn(lines, n, OldHeaders))
      BY <2>1
    <3>3. Looked(PathIn(lines, n, NewHeaders))' = Looked(PathIn(lines, n, NewHeaders))
      BY <2>1
    <3> QED
      BY <3>1, <3>2, <3>3 DEF StandsAfter
  <2> QED
    BY <2>2
<1>6. \A line : AfterFragments(line)' = AfterFragments(line)
  BY <1>2 DEF AfterFragments, ContentOf
<1>7. \A lines, n : Place(lines, n)' = Place(lines, n) /\ Content(lines, n)' = Content(lines, n)
  BY <1>2 DEF Place, Content
<1>8. \A lines, n : Exempt(lines, n)' <=> Exempt(lines, n)
  <2>1. \A lines, n : IsDocumented(lines, n)' <=> IsDocumented(lines, n)
    BY <1>2, <1>7 DEF IsDocumented, IsAmong
  <2>2. \A lines, n : IsRetired(lines, n)' <=> IsRetired(lines, n)
    BY <1>2, <1>4, <1>7 DEF IsRetired, IsAmong
  <2>3. \A lines, n : IsReference(lines, n)' <=> IsReference(lines, n)
    BY <1>2, <1>7 DEF IsReference
  <2>4. \A lines, n : IsRedacted(lines, n)' <=> IsRedacted(lines, n)
    BY <1>2, <1>7 DEF IsRedacted
  <2> QED
    BY <2>1, <2>2, <2>3, <2>4 DEF Exempt
<1>9. \A lines : ShownLines(lines)' = ShownLines(lines)
  BY <1>8 DEF ShownLines
<1> QED
  BY <1>2, <1>5, <1>6, <1>8, <1>9

LEMMA NothingShown == ShownLines(<<>>) = <<>> /\ Joined(ShownLines(<<>>)) = <<>>
<1>1. DOMAIN <<>> = 1..0 /\ <<>> \in Seq({}) /\ Len(<<>>) = 0
  BY EmptySeq
<1>2. ShownLines(<<>>) \in [1..0 -> {}] /\ 0 \in Nat
  BY <1>1 DEF ShownLines
<1>3. ShownLines(<<>>) \in Seq({}) /\ Len(ShownLines(<<>>)) = 0
  BY <1>2, FunctionIsSequence
<1>4. ShownLines(<<>>) = <<>>
  BY <1>1, <1>3, SeqEqual
<1> QED
  BY <1>4, JoinedOfNone

\* As a text is read for the first time, or once more.
AtStart ==
  /\ text \in Seq(Alphabet) /\ Unread
  /\ documented \in Documents /\ scan \in {"file", "keys", "secrets", "npmrc"}
  /\ current = NewLine /\ total = NewScanner /\ diff = DiffStart
  /\ outcome = "scanning"

LEMMA NewLineIs == NewLine = AfterFragments(<<>>)
<1>1. ContentOf(<<>>) = <<>>
  BY SignIsOfLine DEF ContentOf
<1>2. \A kind \in {"content", "packer", "embedded"} : feed(kind, NewScanner, <<>>) = NewScanner
  BY FedNothing
<1> QED
  BY <1>1, <1>2 DEF NewLine, AfterFragments

LEMMA ScanStarts == AtStart => ScanInv
<1> SUFFICES ASSUME AtStart
             PROVE  ScanInv
  OBVIOUS
<1>1. SplitInv
  BY SplitStarts DEF AtStart
<1>2. ScanTypes
  BY DEF AtStart, ScanTypes
<1>3. lineFile = <<>> /\ complete = <<>> /\ Len(complete) = 0
  BY DEF AtStart, Unread
<1>4. current = AfterFragments(lineFile)
  BY <1>3, NewLineIs DEF AtStart
<1>5. StandsAfter(diff, complete, Len(complete))
  BY <1>3, StandsAtStart DEF AtStart
<1>6. ShownLines(complete) = <<>> /\ Shown = <<>>
  BY <1>3, NothingShown DEF Shown
<1>7. ShownLines(complete) \in Seq(Seq(Alphabet)) /\ Shown \in Seq(Alphabet)
  BY <1>6, EmptySeq
<1>8. feed("content", NewScanner, <<>>) = NewScanner
  BY FedNothing
<1>9. total = feed("content", NewScanner, Shown) /\ outcome = "scanning"
  BY <1>6, <1>8 DEF AtStart
<1> QED
  BY <1>1, <1>2, <1>4, <1>5, <1>7, <1>9 DEF ScanInv, ScanSoFar

\* A step that ends no line leaves what has been scanned as it is.
LEMMA LinesAreKept ==
  ASSUME UNCHANGED <<inputs, complete, diff>>,
         OfDiff => StandsAfter(diff, complete, Len(complete)),
         ShownLines(complete) \in Seq(Seq(Alphabet)), Shown \in Seq(Alphabet)
  PROVE  /\ OfDiff' => StandsAfter(diff, complete, Len(complete))'
         /\ ShownLines(complete)' \in Seq(Seq(Alphabet))
         /\ Shown' = Shown
<1> PICK lines, d : lines = complete /\ d = diff
  OBVIOUS
<1>1. complete' = lines /\ diff' = d /\ Len(complete)' = Len(lines)
  OBVIOUS
<1>2. ShownLines(lines)' = ShownLines(lines)
  BY SameInputs
<1>3. OfDiff' <=> OfDiff
  BY SameInputs
<1>4. StandsAfter(d, lines, Len(lines))' <=> StandsAfter(d, lines, Len(lines))
  BY SameInputs
<1>5. ShownLines(complete)' = ShownLines(complete)
  BY <1>1, <1>2
<1>6. Shown' = Shown
  BY <1>5 DEF Shown
<1>7. StandsAfter(diff, complete, Len(complete))' <=> StandsAfter(diff, complete, Len(complete))
  BY <1>1, <1>4
<1> QED
  BY <1>3, <1>5, <1>6, <1>7

\* A step of the scan is one of the generator, or none.
LEMMA ScanSplits ==
  ASSUME SplitInv, [ScanNext]_scanningVars
  PROVE  [SplitNext]_splitVars /\ SplitInv'
<1>1. ASSUME NEW n, ReadPiece(n)
      PROVE  SplitNext
  <2>1. n \in 1..Len(text)
    BY <1>1 DEF ReadPiece, SplitInv, SplitTypes
  <2> QED
    BY <1>1, <2>1 DEF SplitNext
<1>2. ReadChunk => SplitNext
  BY <1>1 DEF ReadChunk
<1>3. KeepFragment => SplitNext
  BY DEF KeepFragment, SplitNext
<1>4. EndLine => SplitNext
  BY DEF EndLine, SplitNext
<1>5. ScanAgain => SplitNext
  BY DEF ScanAgain, SplitNext
<1>6. EndOfText \/ Refuse \/ Accept \/ UNCHANGED scanningVars => UNCHANGED splitVars
  BY DEF EndOfText, Refuse, Accept, scanningVars
<1>7. [SplitNext]_splitVars
  BY <1>2, <1>3, <1>4, <1>5, <1>6 DEF ScanNext
<1> QED
  BY <1>7, SplitInvariance

\* The line that ends, and all that is done with it.
LEMMA EndLineStep ==
  ASSUME ScannersAreExact(Seq(Alphabet)), ScanInv, EndLine, SplitInv'
  PROVE  ScanInv'
<1> PICK line : line = lineFile \o Fragment
  OBVIOUS
<1> PICK lines : lines = complete
  OBVIOUS
<1> PICK more : more = Append(lines, line)
  OBVIOUS
<1> PICK n : n = Len(lines)
  OBVIOUS
<1> PICK d : d = diff
  OBVIOUS
<1> PICK last : last = WithFragment
  OBVIOUS
<1> PICK place : place = PlaceAt(d, line, n + 1)
  OBVIOUS
<1> PICK shown : shown = IF Masked(place, d, last) THEN Placeholder ELSE line
  OBVIOUS
<1>1. /\ lines \in Seq(Seq(Alphabet)) /\ lineFile \in Seq(Alphabet)
      /\ Fragment \in Seq(Alphabet) /\ line \in Seq(Alphabet)
  BY FragmentIs, ConcatProperties DEF ScanInv, SplitInv, SplitTypes
<1>2. /\ n \in Nat /\ more \in Seq(Seq(Alphabet)) /\ Len(more) = n + 1
      /\ more[n + 1] = line /\ Agree(lines, more, n)
  BY <1>1, AppendProperties DEF Agree
<1>3. /\ outcome = "scanning" /\ UNCHANGED inputs
      /\ lineFile' = <<>> /\ complete' = more
      /\ current' = NewLine
  BY DEF EndLine, EndPending, EndAtBreak, EndUnterminated, LineEnds
<1>4. /\ OfDiff => diff' = AfterLine(d, line)
      /\ outcome' \in {"scanning", "refused"}
      /\ outcome' = "scanning" => total' = feed("content", total, Append(shown, "LF"))
  <2>1. CASE OfDiff /\ BadHunk(diff, line)
    BY <1>3, <2>1 DEF EndLine, PlaceAt
  <2>2. CASE ~(OfDiff /\ BadHunk(diff, line))
    BY <1>3, <2>2 DEF EndLine, PlaceAt
  <2> QED
    BY <2>1, <2>2
<1>5. last = AfterFragments(line) /\ ContentOf(line) \in Seq(Alphabet)
  BY <1>1, FragmentsAreRead DEF ScanInv, ScanSoFar
<1>6. Content(more, n + 1) = ContentOf(line)
  BY <1>2 DEF Content, ContentOf
<1>7. OfDiff => StandsAfter(d, lines, n)
  BY DEF ScanInv, ScanSoFar
<1>8. documented \in Documents
  BY DEF ScanInv, ScanTypes
<1>9. Masked(place, d, last) <=> Exempt(more, n + 1)
  <2>1. place = PlaceAt(d, more[n + 1], n + 1) /\ last = AfterFragments(more[n + 1])
    BY <1>2, <1>5
  <2>3. more[n + 1] \in Seq(Alphabet)
    BY <1>1, <1>2
  <2>4. Content(more, n + 1) \in Seq(Alphabet)
    BY <1>5, <1>6
  <2>5. n \in Nat /\ Agree(lines, more, n)
    BY <1>2
  <2>6. Masked(PlaceAt(d, more[n + 1], n + 1), d, AfterFragments(more[n + 1]))
          <=> Exempt(more, n + 1)
    BY <1>7, <1>8, <2>3, <2>4, <2>5, MaskedIsExempt
  <2> QED
    BY <2>1, <2>6
<1>10. /\ ShownLines(more) = Append(ShownLines(lines), shown) /\ shown \in Seq(Alphabet)
       /\ Joined(ShownLines(more)) = Joined(ShownLines(lines)) \o Append(shown, "LF")
       /\ ShownLines(lines) \in Seq(Seq(Alphabet))
  <2>1. shown = IF Exempt(more, n + 1) THEN Placeholder ELSE line
    BY <1>9
  <2> QED
    BY <1>1, <2>1, ShownOfOneMore
<1>11. ShownLines(more) \in Seq(Seq(Alphabet)) /\ Joined(ShownLines(more)) \in Seq(Alphabet)
  <2>1. Joined(ShownLines(lines)) \in Seq(Alphabet)
    BY DEF ScanInv, ScanSoFar, Shown
  <2>2. Append(shown, "LF") \in Seq(Alphabet)
    BY <1>10, AlphabetAssumption, AppendProperties
  <2>3. Joined(ShownLines(lines)) \o Append(shown, "LF") \in Seq(Alphabet)
    BY <2>1, <2>2, ConcatProperties
  <2>4. Append(ShownLines(lines), shown) \in Seq(Seq(Alphabet))
    BY <1>10, AppendProperties
  <2> QED
    BY <1>10, <2>3, <2>4
<1>12. feed("content", total, Append(shown, "LF"))
         = feed("content", NewScanner, Joined(ShownLines(more)))
  <2>1. total = feed("content", NewScanner, Joined(ShownLines(lines)))
    BY <1>3 DEF ScanInv, ScanSoFar, Shown
  <2>2. Joined(ShownLines(lines)) \in Seq(Alphabet) /\ Append(shown, "LF") \in Seq(Alphabet)
    BY <1>10, AlphabetAssumption, AppendProperties DEF ScanInv, ScanSoFar, Shown
  <2>3. \A a, b \in Seq(Alphabet) :
          feed("content", feed("content", NewScanner, a), b) = feed("content", NewScanner, a \o b)
    BY FedInTwo
  <2>4. feed("content", feed("content", NewScanner, Joined(ShownLines(lines))), Append(shown, "LF"))
          = feed("content", NewScanner, Joined(ShownLines(lines)) \o Append(shown, "LF"))
    BY <2>2, <2>3
  <2> QED
    BY <1>10, <2>1, <2>4
<1>13. OfDiff => StandsAfter(AfterLine(d, line), more, n + 1)
  BY <1>1, <1>2, <1>7, StandsAfterOneMore
<1>14. ScanTypes'
  <2>1. documented' = documented /\ scan' = scan
    BY <1>3 DEF inputs
  <2> QED
    BY <1>4, <2>1 DEF ScanInv, ScanTypes
<1>15. current' = AfterFragments(lineFile)'
  <2>1. AfterFragments(<<>>)' = AfterFragments(<<>>)
    BY <1>3, SameInputs
  <2>2. NewLine = AfterFragments(<<>>)
    BY NewLineIs
  <2> QED
    BY <1>3, <2>1, <2>2
<1>16. OfDiff' => StandsAfter(diff, complete, Len(complete))'
  <2> PICK e : e = AfterLine(d, line)
    OBVIOUS
  <2>1. (OfDiff' <=> OfDiff) /\ (StandsAfter(e, more, n + 1)' <=> StandsAfter(e, more, n + 1))
    BY <1>3, SameInputs
  <2>2. OfDiff => diff' = e /\ complete' = more /\ Len(complete)' = n + 1
    BY <1>2, <1>3, <1>4
  <2> QED
    BY <1>13, <2>1, <2>2
<1>17. ShownLines(complete)' = ShownLines(more) /\ Shown' = Joined(ShownLines(more))
  <2>1. ShownLines(more)' = ShownLines(more)
    BY <1>3, SameInputs
  <2>2. ShownLines(complete)' = ShownLines(more)
    BY <1>3, <2>1
  <2> QED
    BY <2>2 DEF Shown
<1>18. outcome' = "scanning" => total' = feed("content", NewScanner, Shown')
  BY <1>4, <1>12, <1>17
<1>19. outcome' \notin {"scanned", "accepted"}
  BY <1>4
<1> QED
  BY <1>11, <1>14, <1>15, <1>16, <1>17, <1>18, <1>19 DEF ScanInv, ScanSoFar


LEMMA KeepFragmentStep ==
  ASSUME ScannersAreExact(Seq(Alphabet)), ScanInv, KeepFragment, SplitInv'
  PROVE  ScanInv'
<1>1. /\ outcome = "scanning" /\ outcome' = outcome /\ total' = total
      /\ UNCHANGED <<inputs, complete, diff>>
      /\ current' = WithFragment /\ lineFile' = lineFile \o Fragment
  BY DEF KeepFragment, Continue
<1>2. WithFragment = AfterFragments(lineFile \o Fragment)
  BY FragmentIs, FragmentsAreRead DEF ScanInv, ScanSoFar, SplitInv, SplitTypes
<1>3. current' = AfterFragments(lineFile)'
  <2> PICK line : line = lineFile \o Fragment
    OBVIOUS
  <2>1. AfterFragments(line)' = AfterFragments(line)
    BY <1>1, SameInputs
  <2> QED
    BY <1>1, <1>2, <2>1
<1>4. /\ OfDiff' => StandsAfter(diff, complete, Len(complete))'
      /\ ShownLines(complete)' \in Seq(Seq(Alphabet))
      /\ Shown' = Shown
  BY <1>1, LinesAreKept DEF ScanInv, ScanSoFar
<1>5. ScanTypes'
  BY <1>1 DEF ScanInv, ScanTypes, inputs
<1> QED
  BY <1>1, <1>3, <1>4, <1>5 DEF ScanInv, ScanSoFar

\* A step that reads on, or that ends, judges or merely watches a scan.
LEMMA QuietStep ==
  ASSUME ScannersAreExact(Seq(Alphabet)), ScanInv, SplitInv',
         ReadChunk \/ EndOfText \/ Refuse \/ Accept \/ UNCHANGED scanningVars
  PROVE  ScanInv'
<1>1. UNCHANGED <<inputs, lineVars, current, total, diff>>
  BY DEF ReadChunk, ReadPiece, EndOfText, Refuse, Accept, scanningVars, scanVars, splitVars
<1>2. UNCHANGED <<inputs, complete, diff>> /\ UNCHANGED <<lineFile, current, total>>
  BY <1>1 DEF lineVars
<1>3. current' = AfterFragments(lineFile)'
  <2> PICK line : line = lineFile
    OBVIOUS
  <2>1. AfterFragments(line)' = AfterFragments(line)
    BY <1>2, SameInputs
  <2>2. current = AfterFragments(line)
    BY DEF ScanInv, ScanSoFar
  <2> QED
    BY <1>2, <2>1, <2>2
<1>4. /\ OfDiff' => StandsAfter(diff, complete, Len(complete))'
      /\ ShownLines(complete)' \in Seq(Seq(Alphabet))
      /\ Shown' = Shown
  BY <1>2, LinesAreKept DEF ScanInv, ScanSoFar
<1>5. ScanTypes'
  <2>1. outcome' \in {"scanning", "scanned", "refused", "accepted"}
    BY DEF ScanInv, ScanTypes, ReadChunk, EndOfText, Refuse, Accept, scanningVars
  <2> QED
    BY <1>2, <2>1 DEF ScanInv, ScanTypes, inputs
<1>6. outcome' = "scanning" => total' = feed("content", NewScanner, Shown')
  <2>1. outcome' = "scanning" => outcome = "scanning"
    BY DEF ReadChunk, EndOfText, Refuse, Accept, scanningVars
  <2> QED
    BY <1>2, <1>4, <2>1 DEF ScanInv, ScanSoFar
<1>7. outcome' \in {"scanned", "accepted"} => SplitEnded' /\ flags' = FoundIn("content", Shown')
  <2>1. CASE ReadChunk
    BY <2>1 DEF ReadChunk
  <2>2. CASE EndOfText
    <3>1. total = feed("content", NewScanner, Shown) /\ Shown \in Seq(Alphabet)
      BY <2>2 DEF EndOfText, ScanInv, ScanSoFar
    <3> PICK shown : shown = Shown
      OBVIOUS
    <3>2. finish("content", feed("content", NewScanner, shown)) = FoundIn("content", shown)
      BY <3>1, ScannersFind
    <3>3. SplitEnded' /\ flags' = finish("content", total)
      BY <2>2 DEF EndOfText, SplitEnded, splitVars, readVars, lineVars
    <3> QED
      BY <1>4, <3>1, <3>2, <3>3
  <2>3. CASE Refuse
    BY <2>3 DEF Refuse
  <2>4. CASE Accept
    <3>1. SplitEnded /\ flags = FoundIn("content", Shown)
      BY <2>4 DEF Accept, ScanInv, ScanSoFar
    <3>2. flags' = flags /\ (SplitEnded' <=> SplitEnded)
      BY <2>4 DEF Accept, scanVars, SplitEnded, splitVars, readVars, lineVars
    <3> QED
      BY <1>4, <3>1, <3>2
  <2>5. CASE UNCHANGED scanningVars
    <3>1. outcome' = outcome /\ flags' = flags /\ (SplitEnded' <=> SplitEnded)
      BY <2>5 DEF scanningVars, scanVars, SplitEnded, splitVars, readVars, lineVars
    <3> QED
      BY <1>4, <3>1 DEF ScanInv, ScanSoFar
  <2> QED
    BY <2>1, <2>2, <2>3, <2>4, <2>5
<1> QED
  BY <1>3, <1>4, <1>5, <1>6, <1>7 DEF ScanInv, ScanSoFar

LEMMA ScanAgainStarts ==
  ASSUME ScanInv, ScanAgain
  PROVE  AtStart'
<1>1. text' = text /\ text \in Seq(Alphabet) /\ Unread'
  BY DEF ScanAgain, StartOver, Unread, ScanInv, SplitInv, SplitTypes
<1>2. documented' \in Documents /\ scan' \in {"file", "keys", "secrets", "npmrc"}
  BY DEF ScanAgain, NextScan, ScanInv, ScanTypes
<1>3. current' = NewLine /\ total' = NewScanner /\ diff' = DiffStart /\ outcome' = "scanning"
  BY DEF ScanAgain
<1>4. NewLine' = NewLine /\ DiffStart' = DiffStart
  BY DEF NewLine, DiffStart
<1> QED
  BY <1>1, <1>2, <1>3, <1>4 DEF AtStart

LEMMA ScanInitStarts == ScanInit => AtStart
<1> SUFFICES ASSUME ScanInit
             PROVE  AtStart
  OBVIOUS
<1>1. text \in Seq(Alphabet)
  BY TextsAreRead, TextsAssumption DEF ScanInit
<1> QED
  BY <1>1 DEF ScanInit, AtStart

LEMMA ScanInvariant ==
  ASSUME ScannersAreExact(Seq(Alphabet))
  PROVE  Scanning => []ScanInv
<1>1. AtStart => ScanInv
  BY ScanStarts
<1>2. ScanInv /\ ScanAgain => ScanInv'
  <2>1. ScanInv /\ ScanAgain => AtStart'
    BY ScanAgainStarts
  <2> QED
    BY <1>1, <2>1, PTL
<1>3. ScanInv /\ [ScanNext]_scanningVars => ScanInv'
  <2> SUFFICES ASSUME ScanInv, [ScanNext]_scanningVars
               PROVE  ScanInv'
    OBVIOUS
  <2>1. SplitInv'
    BY ScanSplits DEF ScanInv
  <2>2. CASE KeepFragment
    BY <2>1, <2>2, KeepFragmentStep
  <2>3. CASE EndLine
    BY <2>1, <2>3, EndLineStep
  <2>4. CASE ScanAgain
    BY <1>2, <2>4
  <2>5. CASE ReadChunk \/ EndOfText \/ Refuse \/ Accept \/ UNCHANGED scanningVars
    BY <2>1, <2>5, QuietStep
  <2> QED
    BY <2>2, <2>3, <2>4, <2>5 DEF ScanNext
<1> QED
  BY <1>1, <1>3, ScanInitStarts, PTL DEF Scanning

\* filtered_scan_chunks reads a text as split_text_fragments cuts it, once or
\* more than once, and does nothing else to the fragments.
THEOREM ScanReadsLines == Scanning => Splitting
<1>1. ScanInit => text \in Texts /\ Unread
  BY TextsAreRead DEF ScanInit
<1>2. ScanInit => SplitInv
  BY ScanInitStarts, SplitStarts DEF AtStart
<1>3. SplitInv /\ [ScanNext]_scanningVars => [SplitNext]_splitVars /\ SplitInv'
  BY ScanSplits
<1> QED
  BY <1>1, <1>2, <1>3, PTL DEF Scanning, Splitting

\* filtered_scan_chunks, split_text_fragments: the lines of a scan are those of
\* its text, however it is read and however often.
THEOREM ScannedLinesTheorem == Scanning => []LinesAreExact
  BY ScanReadsLines, LinesTheorem, PTL

\* filtered_scan_chunks, scan_chunks: with a machine that finds in a text what a
\* search would, a scan that reads it in fragments and line by line finds what a
\* search of the whole masked text would.
THEOREM ScanTheorem ==
  ASSUME ScannersAreExact(Seq(Alphabet))
  PROVE  Scanning => []ScanIsExact
<1>1. ScanInv => ScanIsExact
  BY DEF ScanInv, ScanSoFar, ScanIsExact, Shown
<1> QED
  BY <1>1, ScanInvariant, PTL

-----------------------------------------------------------------------------
(* The lines of a text are one sequence only.                              *)

IsSplit(lines) ==
  /\ lines \in Seq(Seq(Alphabet)) /\ Len(lines) = Cardinality(Ends)
  /\ \A e \in Ends : lines[NumberOf(e)] = TextLine(e)

LEMMA EveryLineEnds ==
  ASSUME text \in Seq(Alphabet), NEW k \in 1..Cardinality(Ends)
  PROVE  \E e \in Ends : NumberOf(e) = k
<1> DEFINE T == 1..Cardinality(Ends)
           f == [e \in Ends |-> NumberOf(e)]
<1>1. /\ IsFiniteSet(Ends) /\ Cardinality(Ends) \in Nat /\ Len(text) \in Nat
      /\ \A e \in Ends : e \in Int /\ 0 < e
  <2>1. IsFiniteSet(Ends) /\ Ends \subseteq 1..(Len(text) + 1)
    BY EndsAreFinite
  <2> QED
    BY <2>1, FS_CardinalityType
<1>2. ASSUME NEW e \in Ends
      PROVE  NumberOf(e) \in T
  <2>1. NumberOf(0) \in Nat /\ NumberOf(e) \in Nat /\ NumberOf(e) <= Cardinality(Ends)
    <3>1. 0 \in Int /\ e \in Int
      BY <1>1
    <3> QED
      BY <3>1, EndsAreFinite
  <2>2. NumberOf(0) < NumberOf(e)
    BY <1>1, EndsInOrder
  <2> QED
    BY <1>1, <2>1, <2>2
<1>3. ASSUME NEW d \in Ends, NEW e \in Ends, NumberOf(d) = NumberOf(e)
      PROVE  d = e
  <2>1. NumberOf(d) \in Nat /\ NumberOf(e) \in Nat
    BY <1>1, EndsAreFinite
  <2>2. ~(d < e) /\ ~(e < d)
    BY <1>1, <1>3, <2>1, EndsInOrder
  <2> QED
    BY <1>1, <2>2
<1>4. f \in Injection(Ends, T)
  BY <1>2, <1>3 DEF Injection, IsInjective
<1>5. IsFiniteSet(T) /\ Cardinality(T) = Cardinality(Ends)
  <2> PICK c : c = Cardinality(Ends)
    OBVIOUS
  <2>1. c \in Nat /\ 1 \in Int /\ c \in Int
    BY <1>1
  <2>2. IsFiniteSet(1..c) /\ Cardinality(1..c) = IF 1 > c THEN 0 ELSE c - 1 + 1
    BY <2>1, FS_Interval
  <2> QED
    BY <2>1, <2>2
<1>6. f \in Surjection(Ends, T)
  BY <1>4, <1>5, FS_Injection
<1> QED
  BY <1>6 DEF Surjection

LEMMA SplitIsUnique ==
  ASSUME text \in Seq(Alphabet), NEW a, NEW b, IsSplit(a), IsSplit(b)
  PROVE  a = b
<1>1. /\ a \in Seq(Seq(Alphabet)) /\ b \in Seq(Seq(Alphabet))
      /\ Len(a) = Cardinality(Ends) /\ Len(b) = Cardinality(Ends)
  BY DEF IsSplit
<1>2. ASSUME NEW k \in 1..Len(a)
      PROVE  a[k] = b[k]
  <2>1. PICK e \in Ends : NumberOf(e) = k
    BY <1>1, EveryLineEnds
  <2>2. a[NumberOf(e)] = TextLine(e) /\ b[NumberOf(e)] = TextLine(e)
    BY DEF IsSplit
  <2> QED
    BY <2>1, <2>2
<1> QED
  BY <1>1, <1>2, SeqEqual

LEMMA CompleteIsSplit ==
  ASSUME SplitInv, SplitEnded
  PROVE  IsSplit(complete)
<1>1. LinesAreExact
  BY SplitInvSuffices
<1>2. text \in Seq(Alphabet) /\ complete \in Seq(Seq(Alphabet))
  BY DEF SplitInv, SplitTypes
<1>3. Len(complete) = Cardinality(Ends)
  BY <1>1 DEF LinesAreExact
<1>4. ASSUME NEW e \in Ends
      PROVE  complete[NumberOf(e)] = TextLine(e)
  <2>1. e \in Int
    BY <1>2, EndsAreFinite
  <2>2. NumberOf(e) <= Cardinality(Ends)
    BY <1>2, <2>1, EndsAreFinite
  <2> QED
    BY <1>1, <1>3, <2>2 DEF LinesAreExact
<1> QED
  BY <1>2, <1>3, <1>4 DEF IsSplit

\* What stands before an end is text.
LEMMA TextLineIsText ==
  ASSUME text \in Seq(Alphabet), NEW e \in Ends
  PROVE  TextLine(e) \in Seq(Alphabet)
<1>1. Ends \subseteq 1..(Len(text) + 1) /\ Len(text) + 1 \in Nat
  BY EndsAreFinite
<1> DEFINE T == {x \in Ends : x < e}
<1>2. EndBefore(e) = LastOf(T)
  BY DEF EndBefore, Before, LastOf
<1>3. LastOf(T) \in 0..(Len(text) + 1)
  <2>1. T \in SUBSET (1..(Len(text) + 1))
    BY <1>1
  <2> HIDE DEF T
  <2> QED
    BY <1>1, <2>1, GreatestExists
<1>4. EndBefore(e) + 1 >= 1 /\ EndBefore(e) + 1 \in Int
  BY <1>2, <1>3
<1>5. e - 1 \in Int /\ e - 2 \in Int /\ e - 1 <= Len(text) /\ e - 2 <= Len(text)
  BY <1>1
<1>6. \A m, n \in Int : m >= 1 /\ n <= Len(text) => SubSeq(text, m, n) \in Seq(Alphabet)
  OBVIOUS
<1> HIDE DEF T
<1> QED
  BY <1>4, <1>5, <1>6, TextLineIs

\* Where no CR breaks a line by itself, the lines of the scan are those of Git.
LEMMA GitLinesAreSplit ==
  ASSUME text \in Seq(Alphabet), ~BareBreak
  PROVE  IsSplit(GitLines)
<1>1. GitEnds = Ends
  <2>1. Len(text) \in Nat /\ (text = <<>> <=> Len(text) = 0)
    OBVIOUS
  <2>2. Breaks = {i \in 1..Len(text) : text[i] = "LF"}
    BY DEF BareBreak, Breaks
  <2>3. Len(text) \notin Breaks \cup {0} <=> text # <<>> /\ text[Len(text)] # "LF"
    BY <2>1, <2>2
  <2> QED
    BY <2>2, <2>3 DEF GitEnds, Ends
<1>2. \A e : GitNumber(e) = NumberOf(e)
  BY <1>1 DEF GitNumber, NumberOf
<1>3. \A e : GitBefore(e) = EndBefore(e)
  BY <1>1 DEF GitBefore, LastOf, EndBefore, Before
<1>4. \A e : GitLine(e) = TextLine(e)
  BY <1>3 DEF GitLine, TextLine
<1>5. \A e \in Ends : e \in Int /\ e \in 1..(Len(text) + 1)
  BY EndsAreFinite
<1>6. Cardinality(Ends) \in Nat
  BY EndsAreFinite, FS_CardinalityType
<1>7. ASSUME NEW e \in Ends
      PROVE  TextLine(e) \in Seq(Alphabet)
  BY TextLineIsText
<1>8. ASSUME NEW e \in Ends
      PROVE  /\ NumberOf(e) \in 1..Cardinality(Ends)
             /\ GitLines[NumberOf(e)] = TextLine(e)
  <2>1. NumberOf(0) \in Nat /\ NumberOf(e) \in Nat /\ NumberOf(e) <= Cardinality(Ends)
    <3>1. 0 \in Int /\ e \in Int
      BY <1>5
    <3> QED
      BY <3>1, EndsAreFinite
  <2>2. NumberOf(0) < NumberOf(e)
    BY <1>5, EndsInOrder
  <2>3. ASSUME NEW d \in Ends, NumberOf(d) = NumberOf(e)
        PROVE  d = e
    <3>1. NumberOf(d) \in Nat /\ d \in Int /\ e \in Int
      BY <1>5, EndsAreFinite
    <3>2. ~(d < e) /\ ~(e < d)
      BY <2>1, <2>3, <3>1, EndsInOrder
    <3> QED
      BY <3>1, <3>2
  <2>4. NumberOf(e) \in 1..Cardinality(Ends)
    BY <1>6, <2>1, <2>2
  <2>5. (CHOOSE end \in GitEnds : GitNumber(end) = NumberOf(e)) = e
    BY <1>1, <1>2, <2>3
  <2>6. GitLines[NumberOf(e)] = GitLine(CHOOSE end \in GitEnds : GitNumber(end) = NumberOf(e))
    BY <1>1, <2>4 DEF GitLines
  <2> QED
    BY <1>4, <2>4, <2>5, <2>6
<1>9. GitLines = [n \in 1..Cardinality(Ends) |-> GitLines[n]]
  BY <1>1 DEF GitLines
<1>10. ASSUME NEW n \in 1..Cardinality(Ends)
       PROVE  GitLines[n] \in Seq(Alphabet)
  <2>1. PICK e \in Ends : NumberOf(e) = n
    BY EveryLineEnds
  <2> QED
    BY <1>7, <1>8, <2>1
<1>11. GitLines \in Seq(Seq(Alphabet)) /\ Len(GitLines) = Cardinality(Ends)
  <2>1. GitLines \in [1..Cardinality(Ends) -> Seq(Alphabet)]
    BY <1>9, <1>10
  <2> QED
    BY <1>6, <2>1, FunctionIsSequence
<1>12. \A e \in Ends : GitLines[NumberOf(e)] = TextLine(e)
  BY <1>8
<1> QED
  BY <1>11, <1>12 DEF IsSplit

-----------------------------------------------------------------------------
(* What a scan that refuses nothing says of the lines.                     *)

LEMMA FoundOrExempt ==
  ASSUME FoundWithinLines(Seq(Seq(Alphabet))), ScanInv, outcome \in {"scanned", "accepted"},
         NEW n \in DOMAIN complete, NEW secret \in FoundIn("content", complete[n]),
         secret \notin flags
  PROVE  Exempt(complete, n)
<1> SUFFICES ASSUME ~Exempt(complete, n)
             PROVE  FALSE
  OBVIOUS
<1> PICK lines : lines = ShownLines(complete)
  OBVIOUS
<1>1. lines \in Seq(Seq(Alphabet)) /\ flags = FoundIn("content", Joined(lines))
  BY DEF ScanInv, ScanSoFar, Shown
<1>2. n \in DOMAIN lines /\ lines[n] = complete[n]
  BY DEF ShownLines
<1>3. FoundIn("content", lines[n]) \subseteq FoundIn("content", Joined(lines))
  BY <1>1, <1>2 DEF FoundWithinLines
<1> QED
  BY <1>1, <1>2, <1>3

LEMMA KeysScanClean ==
  ASSUME FoundWithinLines(Seq(Seq(Alphabet))), ScanInv, outcome \in {"scanned", "accepted"},
         scan = "keys", "pem" \notin flags
  PROVE  NoKeys(complete)
<1> SUFFICES ASSUME NEW n \in DOMAIN complete, "pem" \in FoundIn("content", complete[n])
             PROVE  \/ IsAmong(documented, complete, n) /\ ~BeginsKey(Content(complete, n))
                    \/ IsAmong(Retired, complete, n) /\ Removed(complete, n)
  BY DEF NoKeys
<1>1. Exempt(complete, n)
  BY FoundOrExempt
<1>2. DocumentedNow = documented /\ RetiredNow = Retired
  BY DEF DocumentedNow, RetiredNow
<1>3. ~IsReference(complete, n)
  BY DEF IsReference
<1>4. ~IsRedacted(complete, n)
  BY DEF IsRedacted, Redacting
<1>5. CASE IsDocumented(complete, n)
  BY <1>2, <1>5 DEF IsDocumented
<1>6. CASE IsRetired(complete, n)
  BY <1>2, <1>6 DEF IsRetired
<1> QED
  BY <1>1, <1>3, <1>4, <1>5, <1>6 DEF Exempt

LEMMA SecretsScanClean ==
  ASSUME FoundWithinLines(Seq(Seq(Alphabet))), ScanInv, outcome \in {"scanned", "accepted"},
         scan = "secrets", "password" \notin flags, "token" \notin flags
  PROVE  NoSecrets(complete)
<1> SUFFICES ASSUME NEW n \in DOMAIN complete,
                    FoundIn("content", complete[n]) \cap {"password", "token"} # {}
             PROVE  \/ IsAmong(documented, complete, n)
                    \/ Removed(complete, n)
                    \/ /\ Place(complete, n)[1] \in PackerPaths
                       /\ FoundIn("content", complete[n]) \subseteq {"password"}
  BY DEF NoSecrets
<1>1. Exempt(complete, n)
  <2>1. PICK secret \in {"password", "token"} : secret \in FoundIn("content", complete[n])
    OBVIOUS
  <2>2. secret \notin flags
    BY <2>1
  <2> QED
    BY <2>1, <2>2, FoundOrExempt
<1>2. DocumentedNow = documented /\ OfDiff
  BY DEF DocumentedNow, OfDiff
<1>3. CASE IsDocumented(complete, n)
  BY <1>2, <1>3 DEF IsDocumented
<1>4. CASE IsRetired(complete, n)
  BY <1>4 DEF IsRetired
<1>5. CASE IsReference(complete, n)
  BY <1>2, <1>5 DEF IsReference, MayBePacker
<1>6. CASE IsRedacted(complete, n)
  BY <1>6 DEF IsRedacted
<1> QED
  BY <1>1, <1>3, <1>4, <1>5, <1>6 DEF Exempt

LEMMA NpmrcScanClean ==
  ASSUME FoundWithinLines(Seq(Seq(Alphabet))), ScanInv, outcome \in {"scanned", "accepted"},
         scan = "npmrc", "npmrc" \notin flags
  PROVE  NoNpmrcSecrets(complete)
<1> SUFFICES ASSUME NEW n \in DOMAIN complete, "npmrc" \in FoundIn("content", complete[n])
             PROVE  Removed(complete, n)
  BY DEF NoNpmrcSecrets
<1>1. Exempt(complete, n)
  BY FoundOrExempt
<1>2. DOMAIN DocumentedNow = {} /\ DOMAIN RetiredNow = {} /\ OfDiff
  BY DEF DocumentedNow, RetiredNow, OfDiff
<1>3. ~IsDocumented(complete, n) /\ ~IsRetired(complete, n)
  BY <1>2 DEF IsDocumented, IsRetired, IsAmong, IsLine
<1>4. ~IsReference(complete, n)
  BY <1>2 DEF IsReference, MayBePacker
<1> QED
  BY <1>1, <1>3, <1>4 DEF Exempt, IsRedacted

\* A later scan of a diff has only begun because the ones before it were clean,
\* and a diff is accepted only by the last.
Cleared ==
  /\ scan \in {"secrets", "npmrc"} => \A lines : IsSplit(lines) => NoKeys(lines)
  /\ scan = "npmrc" => \A lines : IsSplit(lines) => NoSecrets(lines)
  /\ outcome = "accepted" => flags \cap Forbidden[scan] = {} /\ NextScan = scan

LEMMA LaterScan ==
  ASSUME NEW s \in {"file", "keys", "secrets", "npmrc"}
  PROVE  /\ s = "keys" => Forbidden[s] = {"pem"}
         /\ s = "secrets" => Forbidden[s] = {"pem", "password", "token"}
         /\ s = "npmrc" => Forbidden[s] = {"npmrc"}
  BY DEF Forbidden, Secrets

LEMMA ClearedSuffices ==
  ASSUME FoundWithinLines(Seq(Seq(Alphabet))), ScanInv, Cleared
  PROVE  AcceptedDiffIsClean
<1> SUFFICES ASSUME outcome = "accepted", OfDiff
             PROVE  IsClean(complete)
  <2> SUFFICES ASSUME outcome = "accepted", OfDiff, ~BareBreak
               PROVE  GitLines = complete
    BY DEF AcceptedDiffIsClean
  <2>1. text \in Seq(Alphabet) /\ IsSplit(complete)
    BY CompleteIsSplit DEF ScanInv, ScanSoFar, SplitInv, SplitTypes
  <2> QED
    BY <2>1, GitLinesAreSplit, SplitIsUnique
<1>1. flags \cap Forbidden[scan] = {} /\ NextScan = scan
  BY DEF Cleared
<1>2. scan \in {"keys", "secrets", "npmrc"}
  BY DEF OfDiff, ScanInv, ScanTypes
<1>3. IsSplit(complete)
  BY CompleteIsSplit DEF ScanInv, ScanSoFar
<1>4. CASE scan = "keys"
  BY <1>1, <1>4 DEF NextScan
<1>5. CASE scan = "secrets"
  <2>1. NoKeys(complete)
    BY <1>3, <1>5 DEF Cleared
  <2>2. "password" \notin flags /\ "token" \notin flags
    BY <1>1, <1>5, LaterScan
  <2>3. NoSecrets(complete)
    BY <1>5, <2>2, SecretsScanClean
  <2>4. ChangedPaths \cap NpmrcPaths = {}
    BY <1>1, <1>5 DEF NextScan
  <2> QED
    BY <2>1, <2>3, <2>4 DEF IsClean
<1>6. CASE scan = "npmrc"
  <2>1. NoKeys(complete) /\ NoSecrets(complete)
    BY <1>3, <1>6 DEF Cleared
  <2>2. "npmrc" \notin flags
    BY <1>1, <1>6, LaterScan
  <2>3. NoNpmrcSecrets(complete)
    BY <1>6, <2>2, NpmrcScanClean
  <2> QED
    BY <2>1, <2>3 DEF IsClean
<1> QED
  BY <1>2, <1>4, <1>5, <1>6 DEF IsClean

\* Nothing that was said of the lines of a diff depends on which scan it is.
LEMMA ClearedIsKept ==
  ASSUME text' = text, documented' = documented, OfDiff' <=> OfDiff
  PROVE  /\ \A lines : IsSplit(lines)' <=> IsSplit(lines)
         /\ \A lines : NoKeys(lines)' <=> NoKeys(lines)
         /\ \A lines : NoSecrets(lines)' <=> NoSecrets(lines)
<1>1. /\ Ends' = Ends /\ Cardinality(Ends)' = Cardinality(Ends)
      /\ \A e : NumberOf(e)' = NumberOf(e) /\ TextLine(e)' = TextLine(e)
  <2>1. Ends' = Ends
    BY DEF Ends, Breaks
  <2>2. \A e : NumberOf(e)' = NumberOf(e)
    BY <2>1 DEF NumberOf
  <2>3. \A e : Before(e)' = Before(e)
    BY <2>1 DEF Before
  <2>4. \A e : EndBefore(e)' = EndBefore(e)
    BY <2>3 DEF EndBefore
  <2>5. \A e : IsPair(e)' <=> IsPair(e)
    BY DEF IsPair
  <2>6. \A e : TextLine(e)' = TextLine(e)
    BY <2>4, <2>5 DEF TextLine
  <2> QED
    BY <2>1, <2>2, <2>6
<1>2. \A lines : IsSplit(lines)' <=> IsSplit(lines)
  BY <1>1 DEF IsSplit
<1>3. \A lines, n : Place(lines, n)' = Place(lines, n) /\ Content(lines, n)' = Content(lines, n)
  BY DEF Place, Content
<1>4. \A lines : NoKeys(lines)' <=> NoKeys(lines)
  BY <1>3 DEF NoKeys, IsAmong
<1>5. \A lines : NoSecrets(lines)' <=> NoSecrets(lines)
  BY <1>3 DEF NoSecrets, IsAmong
<1> QED
  BY <1>2, <1>4, <1>5

LEMMA ClearedInvariance ==
  ASSUME FoundWithinLines(Seq(Seq(Alphabet))), ScanInv, Cleared, [ScanNext]_scanningVars
  PROVE  Cleared'
<1>1. text' = text /\ documented' = documented
  BY DEF ScanNext, ReadChunk, ReadPiece, KeepFragment, Continue, EndLine, EndPending, EndAtBreak,
         EndUnterminated, LineEnds, EndOfText, Refuse, ScanAgain, StartOver, Accept,
         scanningVars, splitVars, readVars, inputs
<1>2. CASE ScanAgain
  <2>1. /\ outcome = "scanned" /\ outcome' = "scanning" /\ scan' = NextScan /\ NextScan # scan
        /\ flags \cap Forbidden[scan] = {}
    BY <1>2 DEF ScanAgain
  <2>2. \/ scan = "keys" /\ scan' = "secrets"
        \/ scan = "secrets" /\ scan' = "npmrc"
    BY <2>1 DEF NextScan
  <2>3. OfDiff' <=> OfDiff
    BY <2>2 DEF OfDiff
  <2>4. IsSplit(complete) /\ text \in Seq(Alphabet)
    BY <2>1, CompleteIsSplit DEF ScanInv, ScanSoFar, SplitInv, SplitTypes
  <2>5. \A lines : IsSplit(lines) => lines = complete
    BY <2>4, SplitIsUnique
  <2>6. CASE scan = "keys"
    <3>1. NoKeys(complete)
      BY <2>1, <2>6, LaterScan, KeysScanClean
    <3>2. \A lines : IsSplit(lines)' => NoKeys(lines)'
      BY <1>1, <2>3, <2>5, <3>1, ClearedIsKept
    <3> QED
      BY <2>1, <2>2, <2>6, <3>2 DEF Cleared
  <2>7. CASE scan = "secrets"
    <3>1. NoSecrets(complete)
      BY <2>1, <2>7, LaterScan, SecretsScanClean
    <3>2. \A lines : IsSplit(lines)' => NoSecrets(lines)'
      BY <1>1, <2>3, <2>5, <3>1, ClearedIsKept
    <3>3. \A lines : IsSplit(lines)' => NoKeys(lines)'
      BY <1>1, <2>3, <2>7, ClearedIsKept DEF Cleared
    <3> QED
      BY <2>1, <3>2, <3>3 DEF Cleared
  <2> QED
    BY <2>2, <2>6, <2>7
<1>3. CASE ~ScanAgain
  <2>1. UNCHANGED inputs /\ scan' = scan
    BY <1>3 DEF ScanNext, ReadChunk, KeepFragment, EndLine, EndOfText, Refuse, Accept,
                scanningVars, inputs
  <2>2. OfDiff' <=> OfDiff
    BY <2>1 DEF OfDiff
  <2>3. /\ scan' \in {"secrets", "npmrc"} => \A lines : IsSplit(lines)' => NoKeys(lines)'
        /\ scan' = "npmrc" => \A lines : IsSplit(lines)' => NoSecrets(lines)'
    BY <1>1, <2>1, <2>2, ClearedIsKept DEF Cleared
  <2>4. NextScan' = NextScan
    BY <1>1, <2>1 DEF NextScan, ChangedPaths
  <2>5. outcome' = "accepted" => flags' \cap Forbidden[scan'] = {} /\ NextScan' = scan'
    <3>1. CASE Accept
      BY <2>1, <2>4, <3>1 DEF Accept, scanVars
    <3>2. CASE UNCHANGED scanningVars
      BY <2>1, <2>4, <3>2 DEF scanningVars, scanVars, Cleared
    <3>3. CASE ReadChunk \/ KeepFragment \/ EndLine \/ EndOfText \/ Refuse
      BY <3>3 DEF ReadChunk, KeepFragment, EndLine, EndOfText, Refuse
    <3> QED
      BY <1>3, <3>1, <3>2, <3>3 DEF ScanNext
  <2> QED
    BY <2>3, <2>5 DEF Cleared
<1> QED
  BY <1>2, <1>3

\* streaming_review_safe: a diff of which the three scans refuse nothing has no
\* key, no secret it adds or keeps and no authentication for an .npmrc file,
\* but for what the scan that looks for it exempts; said of the lines as Git
\* ends them, where none of them has a CR within.
THEOREM AcceptedDiffTheorem ==
  ASSUME ScannersAreExact(Seq(Alphabet)), FoundWithinLines(Seq(Seq(Alphabet)))
  PROVE  Scanning => []AcceptedDiffIsClean
<1>1. ScanInit => Cleared
  BY DEF ScanInit, Cleared
<1>2. ScanInv /\ Cleared /\ [ScanNext]_scanningVars => Cleared'
  BY ClearedInvariance
<1>3. ScanInv /\ Cleared => AcceptedDiffIsClean
  BY ClearedSuffices
<1> QED
  BY <1>1, <1>2, <1>3, ScanInvariant, PTL DEF Scanning

===============================================================================
