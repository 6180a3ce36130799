-------------------------- MODULE ReleasePublishProofs --------------------------
(***************************************************************************)
(* Proofs about ReleasePublish, for any runs, releases, files and attempts: *)
(* what a run holds is what its tags denote unless another run moved them. *)
(***************************************************************************)
EXTENDS ReleasePublish, TLAPS

\* The steps before the platform jobs are over, and those after the signature.
Unbuilt == {"waiting", "platforms", "platforms failed"}
Kept == {"list", "attach", "attach failed", "done"}

\* A run that has started has a release, and has what its next step reads.
RunTyped(r) ==
  /\ pc[r] # "waiting" => release[r] \in Releases
  /\ pc[r] = "tags" => \A t \in TagsOf(r) \ todo[r] : tagged[t] \in Indices
  /\ pc[r] \in {"verify", "scan", "sbom"} => tagged[ReleaseTag(r)] \in Indices
  /\ pc[r] \in {"verify", "scan", "sbom", "sign"} => digest[r] \in Indices
  /\ pc[r] \in Kept \cup {"sign"} => dist[r] \in Evidence

\* The images of a run are its own, and those of its jobs were built since all
\* the jobs were last run.
RunBuilds(r) ==
  /\ \A n \in wholes[r] : n <= attempt[r]
  /\ pc[r] \notin Unbuilt => jobs[r] = Arches
  /\ \A a \in Arches : images[r][a] # None =>
       /\ images[r][a].run = r /\ images[r][a].arch = a
       /\ images[r][a].attempt <= attempt[r] /\ pc[r] # "waiting"
       /\ a \in jobs[r] => \A n \in wholes[r] : n <= images[r][a].attempt

\* A run pushes verified images to its own tags; a tag that was pushed and not
\* moved denotes them.
RunPushes(r) == pc[r] = "tags" =>
  /\ DescriptorsVerified(r) /\ todo[r] \subseteq TagsOf(r)
  /\ \A t \in TagsOf(r) \ todo[r] : t \in disturbed[r] \/ tagged[t] = images[r]

\* The release tag denotes the digest until another run moves it, and a scan that
\* read it before that was of the digest.
RunReads(r) ==
  /\ pc[r] \in {"verify", "scan"} /\ "scan" \notin swapped[r] => tagged[ReleaseTag(r)] = digest[r]
  /\ pc[r] \in {"verify", "scan", "sbom"} /\ "sbom" \notin swapped[r] =>
       tagged[ReleaseTag(r)] = digest[r]
  /\ pc[r] = "sbom" /\ "scan" \notin swapped[r] => PlatformOf(digest[r]) \in scanned
  /\ pc[r] = "verify" /\ ReleaseTag(r) \notin disturbed[r] =>
       \A t \in todo[r] \ disturbed[r] : tagged[t] = digest[r]

Sound(e) ==
  /\ "scan" \in e.swapped \/ PlatformOf(e.image) \in scanned
  /\ "sbom" \in e.swapped \/ e.sbom = PlatformOf(e.image)

\* The evidence of a run is sound before it signs, and its image signed after.
RunTells(r) ==
  /\ pc[r] = "sign" => dist[r].run = r /\ dist[r].image = digest[r] /\ Sound(dist[r])
  /\ pc[r] \in Kept => dist[r].run = r /\ dist[r].image \in signed /\ Sound(dist[r])

RunInv(r) == RunTyped(r) /\ RunBuilds(r) /\ RunPushes(r) /\ RunReads(r) /\ RunTells(r)

\* The run whose images a tag denotes has started, and not built them since.
TaggedIsStarted ==
  \A t \in Tags : tagged[t] # None => \A a \in Arches :
    /\ tagged[t][a].run \in Runs /\ pc[tagged[t][a].run] # "waiting"
    /\ tagged[t][a].attempt <= attempt[tagged[t][a].run]

\* The run whose evidence is attached has started.
AttachedIsStarted ==
  \A v \in Releases : \A f \in Files : assets[v][f] # None =>
    assets[v][f].evidence.run \in Runs /\ pc[assets[v][f].evidence.run] # "waiting"

\* A run that attaches alone is the only one of its release, and what it is done
\* with is its own.
AloneHolds == \A r \in alone :
  /\ pc[r] = "attach"
  /\ \A q \in Runs : pc[q] = "attach" /\ release[q] = release[r] => q = r
  /\ \A f \in Files \ todo[r] :
       assets[release[r]][f] # None /\ assets[release[r]][f].evidence = dist[r]

\* A release that a run attaches to is not whole.
AttachedIsTorn == \A r \in Runs : pc[r] = "attach" => release[r] \in torn

TagsInv == TaggedIsStarted /\ TaggedIsComplete
RecordInv == SignedIsScanned /\ AttachedIsStarted /\ AttachedEvidenceIsTrue
PageInv == AloneHolds /\ AttachedIsTorn /\ EvidenceIsWhole
IInv == TypeOK /\ (\A r \in Runs : RunInv(r)) /\ TagsInv /\ RecordInv /\ PageInv
-----------------------------------------------------------------------------
(* What a step of one run leaves to the others.                             *)

\* A step of a run changes no variable of another one, but for what PushTag
\* records of the tags they share.
Others(r) == \A q \in Runs : q # r =>
  /\ pc'[q] = pc[q] /\ release'[q] = release[q]
  /\ attempt'[q] = attempt[q] /\ wholes'[q] = wholes[q]
  /\ jobs'[q] = jobs[q] /\ images'[q] = images[q]
  /\ todo'[q] = todo[q] /\ digest'[q] = digest[q] /\ dist'[q] = dist[q]

\* Nor what is recorded of its tags.
Calm(r) == \A q \in Runs : q # r => disturbed'[q] = disturbed[q] /\ swapped'[q] = swapped[q]

\* A run keeps its release, its attempts grow, and a whole one is a new one.
Forward(r) ==
  /\ pc[r] # "waiting" => pc'[r] # "waiting" /\ release'[r] = release[r]
  /\ attempt[r] <= attempt'[r]
  /\ \A n \in wholes'[r] : n \in wholes[r] \/ attempt[r] < n

LEMMA OthersStep ==
  ASSUME TypeOK, NEW r \in Runs,
         \/ \E v \in Releases : Start(r, v)
         \/ Fail(r) \/ Rerun(r) \/ MergePlatforms(r) \/ InspectDigest(r)
         \/ ScanPasses(r) \/ GenerateSbom(r) \/ Sign(r) \/ ListAssets(r)
         \/ \E arch \in Arches : ExpireDigest(r, arch) \/ BuildPlatform(r, arch)
         \/ \E t \in Tags : VerifyTag(r, t) \/ TagMismatch(r, t)
         \/ \E f \in Files : DeleteAsset(r, f) \/ UploadAsset(r, f)
  PROVE  Others(r) /\ Calm(r)
<1> USE DEF TypeOK, Others, Calm, registry, page, build, job, races, Goto, Discard
<1>1. CASE \E v \in Releases : Start(r, v)
  BY <1>1 DEF Start
<1>2. CASE Fail(r)
  BY <1>2 DEF Fail
<1>3. CASE Rerun(r)
  BY <1>3 DEF Rerun
<1>4. CASE MergePlatforms(r) \/ InspectDigest(r)
  BY <1>4 DEF MergePlatforms, InspectDigest
<1>5. CASE ScanPasses(r) \/ GenerateSbom(r) \/ Sign(r)
  BY <1>5 DEF ScanPasses, GenerateSbom, Sign
<1>6. CASE ListAssets(r) \/ \E f \in Files : DeleteAsset(r, f) \/ UploadAsset(r, f)
  BY <1>6 DEF ListAssets, DeleteAsset, UploadAsset
<1>7. CASE \E arch \in Arches : ExpireDigest(r, arch) \/ BuildPlatform(r, arch)
  BY <1>7 DEF ExpireDigest, BuildPlatform
<1>8. CASE \E t \in Tags : VerifyTag(r, t) \/ TagMismatch(r, t)
  <2>1. CASE \E t \in Tags : VerifyTag(r, t)
    BY <2>1 DEF VerifyTag
  <2>2. CASE \E t \in Tags : TagMismatch(r, t)
    BY <2>2 DEF TagMismatch
  <2> QED
    BY <1>8, <2>1, <2>2
<1> QED
  BY <1>1, <1>2, <1>3, <1>4, <1>5, <1>6, <1>7, <1>8

\* What holds of another run still does.
LEMMA OthersKeep ==
  ASSUME NEW r \in Runs, NEW q \in Runs, q # r, RunInv(q), Others(r), Calm(r),
         UNCHANGED tagged, scanned \subseteq scanned', signed \subseteq signed'
  PROVE  RunInv(q)'
<1> USE DEF Others, Calm
<1>1. /\ ReleaseTag(q)' = ReleaseTag(q) /\ TagsOf(q)' = TagsOf(q)
      /\ DescriptorsVerified(q)' = DescriptorsVerified(q)
  BY DEF ReleaseTag, VersionTag, ShaTag, Latest, TagsOf, DescriptorsVerified
<1>2. RunTyped(q)'
  BY <1>1 DEF RunInv, RunTyped
<1>3. RunBuilds(q)'
  BY DEF RunInv, RunBuilds
<1>4. RunPushes(q)'
  BY <1>1 DEF RunInv, RunPushes
<1>5. RunReads(q)'
  BY <1>1 DEF RunInv, RunReads, PlatformOf
<1>6. RunTells(q)'
  BY DEF RunInv, RunTells, Sound
<1> QED
  BY <1>2, <1>3, <1>4, <1>5, <1>6 DEF RunInv

\* So it is enough to look at the run itself.
LEMMA RunsKeep ==
  ASSUME IInv, NEW r \in Runs, Others(r), Calm(r),
         UNCHANGED tagged, scanned \subseteq scanned', signed \subseteq signed', RunInv(r)'
  PROVE  \A q \in Runs : RunInv(q)'
BY OthersKeep DEF IInv

\* The image of a complete index has a number of its attempt.
LEMMA TaggedImages ==
  ASSUME IInv, NEW t \in Tags, tagged[t] # None, NEW a \in Arches
  PROVE  tagged[t][a] \in Images /\ tagged[t][a].attempt \in Nat /\ tagged[t][a].run \in Runs
<1>1. tagged[t] \in Indices /\ tagged[t][a] # None
  BY DEF IInv, TypeOK, TagsInv, TaggedIsComplete
<1> QED
  BY <1>1 DEF Indices, Images

\* Tags that no step moves stay complete.
LEMMA TagsFrame ==
  ASSUME IInv, TypeOK', NEW r \in Runs, Others(r), Forward(r), UNCHANGED tagged
  PROVE  TagsInv'
<1> USE DEF Others, Forward
<1>1. \A q \in Runs : pc[q] # "waiting" =>
        /\ pc'[q] # "waiting" /\ release'[q] = release[q] /\ attempt[q] <= attempt'[q]
        /\ \A n \in wholes'[q] : n \in wholes[q] \/ attempt[q] < n
  BY DEF IInv, TypeOK
<1>2. TaggedIsStarted'
  <2> SUFFICES ASSUME NEW t \in Tags, tagged[t] # None, NEW a \in Arches
               PROVE  /\ tagged[t][a].run \in Runs /\ pc'[tagged[t][a].run] # "waiting"
                      /\ tagged[t][a].attempt <= attempt'[tagged[t][a].run]
    BY DEF TaggedIsStarted
  <2> DEFINE q == tagged[t][a].run
  <2>1. q \in Runs /\ pc[q] # "waiting" /\ tagged[t][a].attempt <= attempt[q]
    BY DEF IInv, TagsInv, TaggedIsStarted
  <2>2. tagged[t][a].attempt \in Nat /\ attempt[q] \in Nat /\ attempt'[q] \in Nat
    BY <2>1, TaggedImages DEF IInv, TypeOK
  <2>3. pc'[q] # "waiting" /\ attempt[q] <= attempt'[q]
    BY <1>1, <2>1
  <2> QED
    BY <2>1, <2>2, <2>3
<1>3. TaggedIsComplete'
  <2> SUFFICES ASSUME NEW t \in Tags, tagged[t] # None
               PROVE  /\ OneBuild(tagged[t])'
                      /\ t[1] \in {"release", "version"} =>
                           release'[tagged[t]["amd64"].run] = t[2]
    BY DEF IInv, TagsInv, TaggedIsComplete
  <2> DEFINE q == tagged[t]["amd64"].run
             m == tagged[t]["amd64"].attempt
             k == tagged[t]["arm64"].attempt
  <2>1. /\ tagged[t]["arm64"].run = q
        /\ \A n \in wholes[q] : m < n <=> k < n
        /\ t[1] \in {"release", "version"} => release[q] = t[2]
    BY DEF IInv, TagsInv, TaggedIsComplete, OneBuild
  <2>2. q \in Runs /\ pc[q] # "waiting" /\ m <= attempt[q] /\ k <= attempt[q]
    BY <2>1 DEF IInv, TagsInv, TaggedIsStarted, Arches
  <2>3. m \in Nat /\ k \in Nat /\ attempt[q] \in Nat /\ wholes'[q] \subseteq Nat
    BY <2>2, TaggedImages DEF IInv, TypeOK, Arches
  <2>4. ASSUME NEW n \in wholes'[q] PROVE m < n <=> k < n
    <3>1. CASE n \in wholes[q]
      BY <2>1, <3>1
    <3>2. CASE attempt[q] < n
      BY <2>2, <2>3, <3>2
    <3> QED
      BY <1>1, <2>2, <3>1, <3>2
  <2> QED
    BY <1>1, <2>1, <2>2, <2>4 DEF OneBuild
<1> QED
  BY <1>2, <1>3 DEF TagsInv

\* Evidence that no step attaches, and images that none signs, stay what they were.
LEMMA RecordFrame ==
  ASSUME IInv, NEW r \in Runs, Others(r), Forward(r),
         UNCHANGED <<signed, contested>>, scanned \subseteq scanned',
         \A v \in Releases : \A f \in Files :
           assets'[v][f] # None => assets'[v][f] = assets[v][f]
  PROVE  RecordInv'
<1> USE DEF Others, Forward
<1>1. \A q \in Runs : pc[q] # "waiting" => pc'[q] # "waiting" /\ release'[q] = release[q]
  OBVIOUS
<1>2. SignedIsScanned'
  BY DEF IInv, RecordInv, SignedIsScanned, PlatformOf
<1>3. AttachedIsStarted'
  BY <1>1 DEF IInv, RecordInv, AttachedIsStarted
<1>4. AttachedEvidenceIsTrue'
  <2> SUFFICES ASSUME NEW v \in Releases, NEW f \in Files, assets'[v][f] # None
               PROVE  EvidenceIsTrue(assets[v][f].evidence, v)'
    BY DEF AttachedEvidenceIsTrue
  <2>1. assets'[v][f] = assets[v][f]
    OBVIOUS
  <2> DEFINE e == assets[v][f].evidence
  <2>2. EvidenceIsTrue(e, v) /\ e.run \in Runs /\ pc[e.run] # "waiting"
    BY <2>1 DEF IInv, RecordInv, AttachedEvidenceIsTrue, AttachedIsStarted
  <2>3. release'[e.run] = release[e.run]
    BY <1>1, <2>2
  <2> QED
    BY <2>1, <2>2, <2>3 DEF EvidenceIsTrue, PlatformOf
<1> QED
  BY <1>2, <1>3, <1>4 DEF RecordInv

\* A step of a run that neither begins to attach nor does it.
LEMMA PageFrame ==
  ASSUME IInv, NEW r \in Runs, Others(r), pc'[r] # "attach",
         UNCHANGED <<assets, torn>>, alone' = alone \/ (alone' = alone \ {r}),
         pc[r] = "attach" => r \notin alone'
  PROVE  PageInv'
<1> USE DEF Others
<1>1. \A q \in alone' : q \in alone /\ q # r /\ q \in Runs
  BY DEF IInv, TypeOK, PageInv, AloneHolds
<1>2. AloneHolds'
  BY <1>1 DEF IInv, PageInv, AloneHolds
<1>3. AttachedIsTorn'
  BY DEF IInv, PageInv, AttachedIsTorn
<1>4. EvidenceIsWhole'
  BY DEF IInv, PageInv, EvidenceIsWhole, Verifies
<1> QED
  BY <1>2, <1>3, <1>4 DEF PageInv

-----------------------------------------------------------------------------
(* Each step keeps the invariant.                                           *)

LEMMA InitHolds == Init => IInv
<1> SUFFICES ASSUME Init PROVE IInv
  OBVIOUS
<1>1. TypeOK
  BY DEF Init, TypeOK, Ended, Indices
<1>2. ASSUME NEW r \in Runs PROVE RunInv(r)
  <2>1. pc[r] = "waiting" /\ \A a \in Arches : images[r][a] = None
    BY DEF Init
  <2>2. \A n \in wholes[r] : n <= attempt[r]
    BY DEF Init
  <2> QED
    BY <2>1, <2>2 DEF RunInv, RunTyped, RunBuilds, RunPushes, RunReads, RunTells, Unbuilt, Kept
<1>3. TagsInv
  BY DEF Init, TagsInv, TaggedIsStarted, TaggedIsComplete
<1>4. RecordInv
  BY DEF Init, RecordInv, SignedIsScanned, AttachedIsStarted, AttachedEvidenceIsTrue
<1>5. PageInv
  BY DEF Init, PageInv, AloneHolds, AttachedIsTorn, EvidenceIsWhole
<1> QED
  BY <1>1, <1>2, <1>3, <1>4, <1>5 DEF IInv

\* A run that moves no tag, signs nothing and is not about to attach, and for
\* which the invariant holds after the step.
LEMMA QuietStep ==
  ASSUME IInv, TypeOK', NEW r \in Runs, Others(r), Calm(r), Forward(r), RunInv(r)',
         UNCHANGED <<tagged, signed, contested, assets, torn>>, scanned \subseteq scanned',
         pc'[r] # "attach", alone' = alone \/ (alone' = alone \ {r}),
         pc[r] = "attach" => r \notin alone'
  PROVE  IInv'
<1>1. \A q \in Runs : RunInv(q)'
  BY RunsKeep
<1>2. TagsInv'
  BY TagsFrame
<1>3. RecordInv'
  BY RecordFrame
<1>4. PageInv'
  BY PageFrame
<1> QED
  BY <1>1, <1>2, <1>3, <1>4 DEF IInv

LEMMA GoesForward ==
  ASSUME IInv, NEW r \in Runs, UNCHANGED <<release, attempt, wholes>>, pc'[r] # "waiting"
  PROVE  Forward(r)
<1>1. attempt[r] \in Nat
  BY DEF IInv, TypeOK
<1> QED
  BY <1>1 DEF Forward

LEMMA StartKeeps ==
  ASSUME IInv, NEW r \in Runs, NEW v \in Releases, Start(r, v)
  PROVE  IInv'
<1> USE DEF Start, Goto, registry, page, build, job, races
<1>1. TypeOK'
  BY DEF IInv, TypeOK, Steps
<1>2. Others(r) /\ Calm(r)
  BY OthersStep DEF IInv
<1>3. pc[r] = "waiting" /\ pc'[r] = "platforms" /\ release'[r] = v /\ attempt[r] \in Nat
  BY DEF IInv, TypeOK
<1>4. Forward(r)
  BY <1>3 DEF Forward
<1>5. RunInv(r)'
  <2>1. RunBuilds(r)
    BY DEF IInv, RunInv
  <2> QED
    BY <1>3, <2>1 DEF RunInv, RunTyped, RunBuilds, RunPushes, RunReads, RunTells, Unbuilt, Kept
<1> QED
  BY <1>1, <1>2, <1>3, <1>4, <1>5, QuietStep

LEMMA FailKeeps ==
  ASSUME IInv, NEW r \in Runs, Fail(r)
  PROVE  IInv'
<1>1. FailedJob(r) \in Failed
  BY DEF FailedJob, Failed
<1>2. TypeOK'
  BY <1>1 DEF Fail, Goto, Discard, registry, build, IInv, TypeOK, Ended
<1>3. Others(r) /\ Calm(r)
  BY OthersStep DEF IInv
<1>4. /\ pc[r] \notin Ended /\ pc'[r] = FailedJob(r) /\ alone' = alone \ {r}
      /\ UNCHANGED <<tagged, scanned, signed, contested, assets, torn, release, attempt,
                     wholes, jobs, images, dist>>
      /\ attempt[r] \in Nat
  BY DEF Fail, Goto, registry, build, IInv, TypeOK
<1>5. /\ pc'[r] \in Failed /\ pc'[r] \notin {"attach", "waiting"} /\ pc[r] # "waiting"
      /\ pc[r] = "platforms" => pc'[r] = "platforms failed"
      /\ pc'[r] = "attach failed" => pc[r] \in {"list", "attach"}
      /\ pc[r] \in Unbuilt => pc[r] = "platforms"
  BY <1>1, <1>4 DEF FailedJob, Ended, Failed, Unbuilt
<1>6. Forward(r)
  BY <1>4, <1>5, GoesForward
<1>7. RunInv(r)'
  <2>1. RunTyped(r) /\ RunBuilds(r) /\ RunTells(r)
    BY DEF IInv, RunInv
  <2>2. RunTyped(r)'
    BY <1>4, <1>5, <2>1 DEF RunTyped, Kept, Failed
  <2>3. RunBuilds(r)'
    BY <1>4, <1>5, <2>1 DEF RunBuilds, Unbuilt, Failed
  <2>4. RunTells(r)'
    BY <1>4, <1>5, <2>1 DEF RunTells, Kept, Failed, Sound, PlatformOf
  <2> QED
    BY <1>5, <2>2, <2>3, <2>4 DEF RunInv, RunPushes, RunReads, Failed
<1> QED
  BY <1>2, <1>3, <1>4, <1>5, <1>6, <1>7, QuietStep

\* A run that starts again keeps its images and its evidence.
LEMMA RerunKeeps ==
  ASSUME IInv, NEW r \in Runs, Rerun(r)
  PROVE  IInv'
<1>1. UNCHANGED <<tagged, scanned, signed, contested, assets, listed, alone, torn, release,
                  images, todo, digest, dist, disturbed, swapped>>
  BY DEF Rerun, registry, page, job, races
<1>2. attempt' = [attempt EXCEPT ![r] = attempt[r] + 1] /\ pc[r] \in Failed \cup {"done"}
  BY DEF Rerun
<1>3. attempt[r] \in Nat /\ attempt'[r] = attempt[r] + 1 /\ attempt' \in [Runs -> Nat]
  BY <1>2 DEF IInv, TypeOK
<1>4. PICK step \in {"platforms", "merge", "list"} :
        /\ pc' = [pc EXCEPT ![r] = step]
        /\ step = "merge" => pc[r] # "platforms failed"
        /\ step = "list" => pc[r] \in {"attach failed", "done"}
        /\ \/ UNCHANGED <<jobs, wholes>>
           \/ /\ step = "platforms"
              /\ \/ /\ jobs' = [jobs EXCEPT ![r] = {}]
                    /\ wholes' = [wholes EXCEPT ![r] = @ \cup {attempt[r] + 1}]
                 \/ /\ \E arch \in Arches : jobs' = [jobs EXCEPT ![r] = @ \ {arch}]
                    /\ UNCHANGED wholes
  BY DEF Rerun, Goto
<1>5. /\ pc'[r] = step /\ pc' \in [Runs -> Steps \cup Ended]
      /\ step = "merge" => pc[r] \notin Unbuilt
      /\ step = "list" => pc[r] \in Kept /\ pc[r] \notin Unbuilt
      /\ pc[r] \notin {"attach", "waiting"}
  BY <1>2, <1>4 DEF IInv, TypeOK, Failed, Unbuilt, Kept, Steps
<1>6. /\ jobs' \in [Runs -> SUBSET Arches] /\ jobs'[r] \subseteq jobs[r]
      /\ step # "platforms" => jobs'[r] = jobs[r]
  <2>1. jobs \in [Runs -> SUBSET Arches]
    BY DEF IInv, TypeOK
  <2>2. CASE UNCHANGED jobs
    BY <2>1, <2>2
  <2>3. CASE step = "platforms" /\ jobs' = [jobs EXCEPT ![r] = {}]
    BY <2>1, <2>3
  <2>4. ASSUME NEW arch \in Arches, jobs' = [jobs EXCEPT ![r] = @ \ {arch}], step = "platforms"
        PROVE  jobs' \in [Runs -> SUBSET Arches] /\ jobs'[r] \subseteq jobs[r]
    BY <2>1, <2>4
  <2> QED
    BY <1>4, <2>2, <2>3, <2>4
<1>7. /\ wholes' \in [Runs -> SUBSET Nat]
      /\ \/ wholes'[r] = wholes[r]
         \/ wholes'[r] = wholes[r] \cup {attempt[r] + 1} /\ jobs'[r] = {}
  <2>1. jobs \in [Runs -> SUBSET Arches] /\ wholes \in [Runs -> SUBSET Nat]
    BY DEF IInv, TypeOK
  <2>2. attempt[r] + 1 \in Nat
    BY <1>3
  <2>3. CASE UNCHANGED wholes
    BY <2>1, <2>3
  <2>4. CASE /\ jobs' = [jobs EXCEPT ![r] = {}]
             /\ wholes' = [wholes EXCEPT ![r] = @ \cup {attempt[r] + 1}]
    BY <2>1, <2>2, <2>4
  <2> QED
    BY <1>4, <2>3, <2>4
<1>8. TypeOK'
  BY <1>1, <1>3, <1>5, <1>6, <1>7 DEF IInv, TypeOK
<1>9. Others(r) /\ Calm(r)
  BY OthersStep DEF IInv
<1>10. Forward(r)
  BY <1>1, <1>3, <1>5, <1>7 DEF Forward
<1>11. RunInv(r)'
  <2>1. RunTyped(r) /\ RunBuilds(r) /\ RunTells(r)
    BY DEF IInv, RunInv
  <2>2. RunTyped(r)'
    BY <1>1, <1>5, <2>1 DEF RunTyped, Kept
  <2>3. RunBuilds(r)'
    <3>1. \A n \in wholes'[r] : n <= attempt'[r]
      <4>1. wholes[r] \subseteq Nat /\ \A n \in wholes[r] : n <= attempt[r]
        BY <2>1 DEF RunBuilds, IInv, TypeOK
      <4> QED
        BY <1>3, <1>7, <4>1
    <3>2. pc'[r] \notin Unbuilt => jobs'[r] = Arches
      BY <1>5, <1>6, <2>1 DEF RunBuilds, Unbuilt
    <3>3. ASSUME NEW a \in Arches, images[r][a] # None
          PROVE  /\ images[r][a].run = r /\ images[r][a].arch = a
                 /\ images[r][a].attempt <= attempt'[r] /\ pc'[r] # "waiting"
                 /\ a \in jobs'[r] => \A n \in wholes'[r] : n <= images[r][a].attempt
      <4>1. images[r][a] \in Images
        BY <3>3 DEF IInv, TypeOK
      <4>2. /\ images[r][a].run = r /\ images[r][a].arch = a
            /\ images[r][a].attempt \in Nat /\ images[r][a].attempt <= attempt[r]
            /\ a \in jobs[r] => \A n \in wholes[r] : n <= images[r][a].attempt
        BY <2>1, <3>3, <4>1 DEF RunBuilds, Images
      <4>3. images[r][a].attempt <= attempt'[r]
        BY <1>3, <4>2
      <4>4. a \in jobs'[r] => \A n \in wholes'[r] : n <= images[r][a].attempt
        BY <1>6, <1>7, <4>2
      <4> QED
        BY <1>5, <4>2, <4>3, <4>4
    <3> QED
      BY <1>1, <3>1, <3>2, <3>3 DEF RunBuilds
  <2>4. RunTells(r)'
    BY <1>1, <1>5, <2>1 DEF RunTells, Kept, Sound, PlatformOf
  <2> QED
    BY <1>5, <2>2, <2>3, <2>4 DEF RunInv, RunPushes, RunReads
<1> QED
  BY <1>1, <1>5, <1>8, <1>9, <1>10, <1>11, QuietStep

\* Nothing that holds of a run is about a digest that has expired.
LEMMA ExpireKeeps ==
  ASSUME IInv, NEW r \in Runs, NEW arch \in Arches, ExpireDigest(r, arch)
  PROVE  IInv'
<1>1. /\ UNCHANGED <<tagged, scanned, signed, contested, assets, listed, alone, torn, release,
                     pc, attempt, wholes, jobs, todo, digest, dist, disturbed, swapped>>
      /\ images' = [images EXCEPT ![r][arch] = None] /\ pc[r] \notin {"tags", "attach"}
  BY DEF ExpireDigest, registry, page, job, races, Ended, Failed
<1>2. /\ images' \in [Runs -> [Arches -> Images \cup {None}]]
      /\ \A a \in Arches : images'[r][a] = images[r][a] \/ images'[r][a] = None
  BY <1>1 DEF IInv, TypeOK
<1>3. TypeOK'
  BY <1>1, <1>2 DEF IInv, TypeOK
<1>4. Others(r) /\ Calm(r)
  BY OthersStep DEF IInv
<1>5. Forward(r)
  <2>1. attempt[r] \in Nat
    BY DEF IInv, TypeOK
  <2> QED
    BY <1>1, <2>1 DEF Forward
<1>6. RunInv(r)'
  <2>1. RunInv(r)
    BY DEF IInv
  <2>2. RunTyped(r)' /\ RunReads(r)' /\ RunTells(r)'
    BY <1>1, <2>1 DEF RunInv, RunTyped, RunReads, RunTells, Sound, PlatformOf, ReleaseTag, TagsOf,
                      VersionTag, ShaTag, Latest
  <2>3. RunBuilds(r)'
    BY <1>1, <1>2, <2>1 DEF RunInv, RunBuilds
  <2> QED
    BY <1>1, <2>2, <2>3 DEF RunInv, RunPushes
<1> QED
  BY <1>1, <1>3, <1>4, <1>5, <1>6, QuietStep

LEMMA BuildKeeps ==
  ASSUME IInv, NEW r \in Runs, NEW arch \in Arches, BuildPlatform(r, arch)
  PROVE  IInv'
<1>1. /\ UNCHANGED <<tagged, scanned, signed, contested, assets, listed, alone, torn, release,
                     attempt, wholes, todo, digest, dist, disturbed, swapped>>
      /\ pc[r] = "platforms" /\ jobs' = [jobs EXCEPT ![r] = @ \cup {arch}]
      /\ pc' = [pc EXCEPT ![r] = IF jobs[r] \cup {arch} = Arches THEN "merge" ELSE "platforms"]
  BY DEF BuildPlatform, Goto, registry, page, job, races, AllBuilt
<1>2. PICK good \in BOOLEAN :
        images' = [images EXCEPT ![r][arch] =
          [run |-> r, attempt |-> attempt[r], arch |-> arch, good |-> good]]
  BY DEF BuildPlatform
<1>3. [run |-> r, attempt |-> attempt[r], arch |-> arch, good |-> good] \in Images
  BY DEF Images, IInv, TypeOK
<1>4. /\ images' \in [Runs -> [Arches -> Images \cup {None}]]
      /\ images'[r][arch].run = r /\ images'[r][arch].arch = arch
      /\ images'[r][arch].attempt = attempt[r]
      /\ \A a \in Arches : a # arch => images'[r][a] = images[r][a]
  BY <1>2, <1>3 DEF IInv, TypeOK
<1>5. /\ jobs' \in [Runs -> SUBSET Arches] /\ jobs'[r] = jobs[r] \cup {arch}
      /\ pc' \in [Runs -> Steps \cup Ended]
      /\ pc'[r] = IF jobs'[r] = Arches THEN "merge" ELSE "platforms"
  BY <1>1 DEF IInv, TypeOK, Steps
<1>6. TypeOK'
  BY <1>1, <1>4, <1>5 DEF IInv, TypeOK
<1>7. Others(r) /\ Calm(r)
  BY OthersStep DEF IInv
<1>8. attempt[r] \in Nat
  BY DEF IInv, TypeOK
<1>9. Forward(r)
  BY <1>1, <1>5, <1>8, GoesForward
<1>10. RunInv(r)'
  <2>1. RunTyped(r) /\ RunBuilds(r)
    BY DEF IInv, RunInv
  <2>2. RunTyped(r)'
    BY <1>1, <1>5, <2>1 DEF RunTyped, Kept
  <2>3. RunBuilds(r)'
    <3>1. ASSUME NEW a \in Arches, images'[r][a] # None
          PROVE  /\ images'[r][a].run = r /\ images'[r][a].arch = a
                 /\ images'[r][a].attempt <= attempt[r]
                 /\ a \in jobs'[r] => \A n \in wholes[r] : n <= images'[r][a].attempt
      <4>1. CASE a = arch
        BY <1>4, <1>8, <2>1, <4>1 DEF RunBuilds
      <4>2. CASE a # arch
        BY <1>4, <1>5, <2>1, <3>1, <4>2 DEF RunBuilds
      <4> QED
        BY <4>1, <4>2
    <3> QED
      BY <1>1, <1>5, <2>1, <3>1 DEF RunBuilds, Unbuilt
  <2> QED
    BY <1>5, <2>2, <2>3 DEF RunInv, RunPushes, RunReads, RunTells, Kept
<1>11. pc'[r] # "attach" /\ pc[r] # "attach"
  BY <1>1, <1>5
<1> QED
  BY <1>1, <1>6, <1>7, <1>9, <1>10, <1>11, QuietStep

LEMMA TagsAreTags ==
  ASSUME NEW r \in Runs, release[r] \in Releases
  PROVE  TagsOf(r) \subseteq Tags /\ ReleaseTag(r) \in TagsOf(r)
BY DEF TagsOf, Tags, ReleaseTag, VersionTag, ShaTag, Latest

LEMMA MergeKeeps ==
  ASSUME IInv, NEW r \in Runs, MergePlatforms(r)
  PROVE  IInv'
<1>1. /\ UNCHANGED <<tagged, scanned, signed, contested, assets, listed, alone, torn, release,
                     attempt, wholes, jobs, images, digest, disturbed, swapped>>
      /\ pc[r] = "merge" /\ DescriptorsVerified(r) /\ pc' = [pc EXCEPT ![r] = "tags"]
      /\ todo' = [todo EXCEPT ![r] = TagsOf(r)] /\ dist' = [dist EXCEPT ![r] = None]
  BY DEF MergePlatforms, Goto, registry, page, build, races
<1>2. release[r] \in Releases /\ RunBuilds(r)
  BY <1>1 DEF IInv, RunInv, RunTyped
<1>3. TagsOf(r) \subseteq Tags
  BY <1>2, TagsAreTags
<1>4. pc'[r] = "tags" /\ todo'[r] = TagsOf(r) /\ attempt[r] \in Nat
  BY <1>1 DEF IInv, TypeOK
<1>5. TypeOK'
  BY <1>1, <1>3 DEF IInv, TypeOK, Steps
<1>6. Others(r) /\ Calm(r)
  BY OthersStep DEF IInv
<1>7. Forward(r)
  BY <1>1, <1>4, GoesForward
<1>8. RunInv(r)'
  <2>1. TagsOf(r)' = TagsOf(r) /\ DescriptorsVerified(r)'
    BY <1>1 DEF TagsOf, ReleaseTag, VersionTag, ShaTag, Latest, DescriptorsVerified
  <2>2. RunTyped(r)' /\ RunPushes(r)'
    BY <1>1, <1>2, <1>4, <2>1 DEF RunTyped, RunPushes, Kept
  <2>3. RunBuilds(r)'
    BY <1>1, <1>2, <1>4 DEF RunBuilds, Unbuilt
  <2> QED
    BY <1>4, <2>2, <2>3 DEF RunInv, RunReads, RunTells, Kept
<1> QED
  BY <1>1, <1>4, <1>5, <1>6, <1>7, <1>8, QuietStep

LEMMA InspectKeeps ==
  ASSUME IInv, NEW r \in Runs, InspectDigest(r)
  PROVE  IInv'
<1>1. /\ UNCHANGED <<tagged, scanned, signed, contested, assets, listed, alone, torn, release,
                     attempt, wholes, jobs, images, dist, disturbed, swapped>>
      /\ pc[r] = "tags" /\ todo[r] = {} /\ pc' = [pc EXCEPT ![r] = "verify"]
      /\ todo' = [todo EXCEPT ![r] = TagsOf(r)]
      /\ digest' = [digest EXCEPT ![r] = tagged[ReleaseTag(r)]]
  BY DEF InspectDigest, AllTagsPushed, Goto, registry, page, build, races
<1>2. release[r] \in Releases /\ RunBuilds(r) /\ RunTyped(r) /\ RunPushes(r)
  BY <1>1 DEF IInv, RunInv, RunTyped
<1>3. TagsOf(r) \subseteq Tags /\ ReleaseTag(r) \in TagsOf(r)
  BY <1>2, TagsAreTags
<1>4. /\ pc'[r] = "verify" /\ todo'[r] = TagsOf(r) /\ digest'[r] = tagged[ReleaseTag(r)]
      /\ attempt[r] \in Nat
  BY <1>1 DEF IInv, TypeOK
<1>5. tagged[ReleaseTag(r)] \in Indices
  BY <1>1, <1>2, <1>3 DEF RunTyped
<1>6. TypeOK'
  BY <1>1, <1>3, <1>5 DEF IInv, TypeOK, Steps
<1>7. Others(r) /\ Calm(r)
  BY OthersStep DEF IInv
<1>8. Forward(r)
  BY <1>1, <1>4, GoesForward
<1>9. RunInv(r)'
  <2>1. ReleaseTag(r)' = ReleaseTag(r)
    BY <1>1 DEF ReleaseTag
  <2>2. RunTyped(r)'
    BY <1>1, <1>2, <1>4, <1>5, <2>1 DEF RunTyped, Kept
  <2>3. RunBuilds(r)'
    BY <1>1, <1>2, <1>4 DEF RunBuilds, Unbuilt
  <2>4. \A t \in TagsOf(r) : t \in disturbed[r] \/ tagged[t] = images[r]
    BY <1>1, <1>2 DEF RunPushes
  <2>5. RunReads(r)'
    BY <1>1, <1>3, <1>4, <2>1, <2>4 DEF RunReads
  <2> QED
    BY <1>4, <2>2, <2>3, <2>5 DEF RunInv, RunPushes, RunTells, Kept
<1> QED
  BY <1>1, <1>4, <1>6, <1>7, <1>8, <1>9, QuietStep

LEMMA VerifyKeeps ==
  ASSUME IInv, NEW r \in Runs, NEW t \in Tags, VerifyTag(r, t)
  PROVE  IInv'
<1>1. /\ UNCHANGED <<tagged, scanned, signed, contested, assets, listed, alone, torn, release,
                     attempt, wholes, jobs, images, digest, dist, swapped>>
      /\ pc[r] = "verify" /\ todo' = [todo EXCEPT ![r] = @ \ {t}]
      /\ pc' = [pc EXCEPT ![r] = IF todo[r] = {t} THEN "scan" ELSE "verify"]
      /\ disturbed' = [disturbed EXCEPT ![r] =
           IF todo[r] = {t} THEN {} ELSE @ \ ({t} \ {ReleaseTag(r)})]
  BY DEF VerifyTag, Goto, registry, page, build
<1>2. /\ pc'[r] \in {"verify", "scan"} /\ todo'[r] = todo[r] \ {t}
      /\ disturbed'[r] \subseteq disturbed[r] /\ attempt[r] \in Nat
      /\ pc'[r] = "verify" => disturbed'[r] = disturbed[r] \ ({t} \ {ReleaseTag(r)})
  BY <1>1 DEF IInv, TypeOK
<1>3. TypeOK'
  BY <1>1, <1>2 DEF IInv, TypeOK, Steps
<1>4. Others(r) /\ Calm(r)
  BY OthersStep DEF IInv
<1>5. Forward(r)
  BY <1>1, <1>2, GoesForward
<1>6. RunInv(r)'
  <2>1. RunTyped(r) /\ RunBuilds(r) /\ RunReads(r)
    BY DEF IInv, RunInv
  <2>2. ReleaseTag(r)' = ReleaseTag(r)
    BY <1>1 DEF ReleaseTag
  <2>3. RunTyped(r)'
    BY <1>1, <1>2, <2>1, <2>2 DEF RunTyped, Kept
  <2>4. RunBuilds(r)'
    BY <1>1, <1>2, <2>1 DEF RunBuilds, Unbuilt
  <2>5. RunReads(r)'
    BY <1>1, <1>2, <2>1, <2>2 DEF RunReads, PlatformOf
  <2> QED
    BY <1>2, <2>3, <2>4, <2>5 DEF RunInv, RunPushes, RunTells, Kept
<1> QED
  BY <1>1, <1>2, <1>3, <1>4, <1>5, <1>6, QuietStep

LEMMA MismatchKeeps ==
  ASSUME IInv, NEW r \in Runs, NEW t \in Tags, TagMismatch(r, t)
  PROVE  IInv'
<1>1. /\ UNCHANGED <<tagged, scanned, signed, contested, assets, listed, alone, torn, release,
                     attempt, wholes, jobs, images, dist>>
      /\ pc[r] = "verify" /\ pc' = [pc EXCEPT ![r] = "build failed"]
  BY DEF TagMismatch, Goto, registry, page, build
<1>2. pc'[r] = "build failed" /\ attempt[r] \in Nat
  BY <1>1 DEF IInv, TypeOK
<1>3. TypeOK'
  BY DEF TagMismatch, Goto, Discard, registry, page, build, IInv, TypeOK, Ended, Failed
<1>4. Others(r) /\ Calm(r)
  BY OthersStep DEF IInv
<1>5. Forward(r)
  BY <1>1, <1>2, GoesForward
<1>6. RunInv(r)'
  <2>1. RunTyped(r) /\ RunBuilds(r)
    BY DEF IInv, RunInv
  <2> QED
    BY <1>1, <1>2, <2>1
    DEF RunInv, RunTyped, RunBuilds, RunPushes, RunReads, RunTells, Unbuilt, Kept
<1> QED
  BY <1>1, <1>2, <1>3, <1>4, <1>5, <1>6, QuietStep

LEMMA ScanKeeps ==
  ASSUME IInv, NEW r \in Runs, ScanPasses(r)
  PROVE  IInv'
<1>1. /\ UNCHANGED <<tagged, signed, contested, assets, listed, alone, torn, release, attempt,
                     wholes, jobs, images, todo, digest, dist, disturbed, swapped>>
      /\ pc[r] = "scan" /\ pc' = [pc EXCEPT ![r] = "sbom"]
      /\ scanned' = scanned \cup {PlatformOf(tagged[ReleaseTag(r)])}
  BY DEF ScanPasses, ScannedReference, Goto, page, build, job, races
<1>2. pc'[r] = "sbom" /\ attempt[r] \in Nat
  BY <1>1 DEF IInv, TypeOK
<1>3. RunTyped(r) /\ RunBuilds(r) /\ RunReads(r)
  BY DEF IInv, RunInv
<1>4. PlatformOf(tagged[ReleaseTag(r)]) \in Images \cup {None}
  BY <1>1, <1>3 DEF RunTyped, PlatformOf, Indices, Arches
<1>5. TypeOK'
  BY <1>1, <1>4 DEF IInv, TypeOK, Steps
<1>6. Others(r) /\ Calm(r)
  BY OthersStep DEF IInv
<1>7. Forward(r)
  BY <1>1, <1>2, GoesForward
<1>8. RunInv(r)'
  <2>1. ReleaseTag(r)' = ReleaseTag(r)
    BY <1>1 DEF ReleaseTag
  <2>2. RunTyped(r)'
    BY <1>1, <1>2, <1>3, <2>1 DEF RunTyped, Kept
  <2>3. RunBuilds(r)'
    BY <1>1, <1>2, <1>3 DEF RunBuilds, Unbuilt
  <2>4. RunReads(r)'
    BY <1>1, <1>2, <1>3, <2>1 DEF RunReads, PlatformOf
  <2> QED
    BY <1>2, <2>2, <2>3, <2>4 DEF RunInv, RunPushes, RunTells, Kept
<1> QED
  BY <1>1, <1>2, <1>5, <1>6, <1>7, <1>8, QuietStep

LEMMA SbomKeeps ==
  ASSUME IInv, NEW r \in Runs, GenerateSbom(r)
  PROVE  IInv'
<1> DEFINE e == [run |-> r, attempt |-> attempt[r], image |-> digest[r],
                 sbom |-> PlatformOf(tagged[ReleaseTag(r)]), swapped |-> swapped[r]]
<1>1. /\ UNCHANGED <<tagged, scanned, signed, contested, assets, listed, alone, torn, release,
                     attempt, wholes, jobs, images, todo, digest, disturbed, swapped>>
      /\ pc[r] = "sbom" /\ pc' = [pc EXCEPT ![r] = "sign"] /\ dist' = [dist EXCEPT ![r] = e]
  BY DEF GenerateSbom, ScannedReference, Goto, registry, page, build, races
<1>2. RunTyped(r) /\ RunBuilds(r) /\ RunReads(r)
  BY DEF IInv, RunInv
<1>3. PlatformOf(tagged[ReleaseTag(r)]) \in Images \cup {None}
  BY <1>1, <1>2 DEF RunTyped, PlatformOf, Indices, Arches
<1>4. e \in Evidence
  BY <1>1, <1>2, <1>3 DEF RunTyped, Evidence, IInv, TypeOK
<1>5. pc'[r] = "sign" /\ dist'[r] = e /\ attempt[r] \in Nat
  BY <1>1 DEF IInv, TypeOK
<1>6. TypeOK'
  BY <1>1, <1>4 DEF IInv, TypeOK, Steps
<1>7. Others(r) /\ Calm(r)
  BY OthersStep DEF IInv
<1>8. Forward(r)
  BY <1>1, <1>5, GoesForward
<1>9. RunInv(r)'
  <2>1. RunTyped(r)'
    BY <1>1, <1>2, <1>4, <1>5 DEF RunTyped
  <2>2. RunBuilds(r)'
    BY <1>1, <1>2, <1>5 DEF RunBuilds, Unbuilt
  <2>3. RunTells(r)'
    <3>1. "scan" \in swapped[r] \/ PlatformOf(digest[r]) \in scanned
      BY <1>1, <1>2 DEF RunReads
    <3>2. "sbom" \in swapped[r] \/ tagged[ReleaseTag(r)] = digest[r]
      BY <1>1, <1>2 DEF RunReads
    <3>3. Sound(e) /\ e.run = r /\ e.image = digest[r]
      BY <3>1, <3>2 DEF Sound, PlatformOf
    <3>4. Sound(dist[r])' /\ dist'[r].run = r /\ dist'[r].image = digest'[r]
      <4> HIDE DEF e
      <4> QED
        BY <1>1, <1>5, <3>3 DEF Sound, PlatformOf
    <3> QED
      BY <1>5, <3>4 DEF RunTells, Kept
  <2> QED
    BY <1>5, <2>1, <2>2, <2>3 DEF RunInv, RunPushes, RunReads
<1> QED
  BY <1>1, <1>5, <1>6, <1>7, <1>8, <1>9, QuietStep

\* Only the tags of a release carry its name.
LEMMA TagsNamed ==
  ASSUME NEW r \in Runs, NEW t \in TagsOf(r), t[1] \in {"release", "version"}
  PROVE  t[2] = release[r]
BY DEF TagsOf, ReleaseTag, VersionTag, ShaTag, Latest

\* The images that a run pushes are complete, and of one build.
LEMMA PushedIsComplete ==
  ASSUME IInv, NEW r \in Runs, pc[r] = "tags"
  PROVE  /\ \A a \in Arches :
              /\ images[r][a] # None /\ images[r][a].good /\ images[r][a].arch = a
              /\ images[r][a].run = r /\ images[r][a].attempt <= attempt[r]
         /\ OneBuild(images[r])
<1>1. \A a \in Arches : images[r][a] # None /\ images[r][a].good
  BY DEF IInv, RunInv, RunPushes, DescriptorsVerified
<1>2. RunBuilds(r) /\ jobs[r] = Arches
  BY DEF IInv, RunInv, RunBuilds, Unbuilt
<1>3. \A a \in Arches :
        /\ images[r][a].arch = a /\ images[r][a].run = r /\ images[r][a].attempt <= attempt[r]
        /\ \A n \in wholes[r] : n <= images[r][a].attempt
  BY <1>1, <1>2 DEF RunBuilds
<1>4. \A a \in Arches : images[r][a].attempt \in Nat
  BY <1>1 DEF IInv, TypeOK, Images
<1>5. wholes[r] \subseteq Nat
  BY DEF IInv, TypeOK
<1>6. \A n \in wholes[r] : ~(images[r]["amd64"].attempt < n) /\ ~(images[r]["arm64"].attempt < n)
  BY <1>3, <1>4, <1>5 DEF Arches
<1>7. OneBuild(images[r])
  BY <1>3, <1>6 DEF OneBuild, Arches
<1> QED
  BY <1>1, <1>3, <1>7

LEMMA PushKeeps ==
  ASSUME IInv, NEW r \in Runs, NEW t \in Tags, PushTag(r, t)
  PROVE  IInv'
<1>1. /\ UNCHANGED <<scanned, signed, contested, assets, listed, alone, torn, release, pc,
                     attempt, wholes, jobs, images, digest, dist>>
      /\ pc[r] = "tags" /\ t \in todo[r]
      /\ tagged' = [tagged EXCEPT ![t] = images[r]] /\ todo' = [todo EXCEPT ![r] = @ \ {t}]
  BY DEF PushTag, page, build
<1>2. \A q \in Runs :
        /\ disturbed'[q] = IF q # r /\ t \in Watched(q) THEN disturbed[q] \cup {t} ELSE disturbed[q]
        /\ swapped'[q] = IF q # r /\ t = ReleaseTag(q) THEN swapped[q] \cup Ahead(q) ELSE swapped[q]
  BY DEF PushTag
<1>3. /\ tagged'[t] = images[r] /\ \A u \in Tags : u # t => tagged'[u] = tagged[u]
      /\ todo'[r] = todo[r] \ {t} /\ \A q \in Runs : q # r => todo'[q] = todo[q]
      /\ images[r] \in Indices
  BY <1>1 DEF IInv, TypeOK, Indices
<1>4. TypeOK'
  <2>1. tagged' \in [Tags -> Indices \cup {None}] /\ todo' \in [Runs -> SUBSET (Tags \cup Files)]
    BY <1>1, <1>3 DEF IInv, TypeOK
  <2>2. disturbed' \in [Runs -> SUBSET Tags]
    BY DEF PushTag, IInv, TypeOK
  <2>3. \A q \in Runs : swapped[q] \cup Ahead(q) \subseteq {"scan", "sbom"}
    BY DEF Ahead, IInv, TypeOK
  <2>4. swapped' \in [Runs -> SUBSET {"scan", "sbom"}]
    BY <2>3 DEF PushTag, IInv, TypeOK
  <2> QED
    BY <1>1, <2>1, <2>2, <2>4 DEF IInv, TypeOK
<1>5. t \in TagsOf(r) /\ release[r] \in Releases
  BY <1>1 DEF IInv, RunInv, RunPushes, RunTyped
<1>6. \A q \in Runs : RunInv(q)'
  <2> SUFFICES ASSUME NEW q \in Runs PROVE RunInv(q)'
    OBVIOUS
  <2>1. RunInv(q)
    BY DEF IInv
  <2>2. /\ TagsOf(q)' = TagsOf(q) /\ ReleaseTag(q)' = ReleaseTag(q)
        /\ DescriptorsVerified(q)' = DescriptorsVerified(q)
    BY <1>1 DEF TagsOf, ReleaseTag, VersionTag, ShaTag, Latest, DescriptorsVerified
  <2>3. pc[q] # "waiting" => TagsOf(q) \subseteq Tags /\ ReleaseTag(q) \in Tags
    BY <2>1, TagsAreTags DEF RunInv, RunTyped
  <2>4. RunTyped(q)'
    BY <1>1, <1>3, <2>1, <2>2, <2>3 DEF RunInv, RunTyped
  <2>5. RunBuilds(q)'
    BY <1>1, <2>1 DEF RunInv, RunBuilds
  <2>6. RunPushes(q)'
    <3> SUFFICES ASSUME pc[q] = "tags"
                 PROVE  /\ DescriptorsVerified(q) /\ todo'[q] \subseteq TagsOf(q)
                        /\ \A u \in TagsOf(q) \ todo'[q] :
                             u \in disturbed'[q] \/ tagged'[u] = images[q]
      BY <1>1, <2>2 DEF RunPushes
    <3>1. DescriptorsVerified(q) /\ todo'[q] \subseteq TagsOf(q)
      BY <1>3, <2>1 DEF RunInv, RunPushes
    <3>2. ASSUME NEW u \in TagsOf(q) \ todo'[q] PROVE u \in disturbed'[q] \/ tagged'[u] = images[q]
      <4>1. CASE u # t
        BY <1>2, <1>3, <2>1, <2>3, <4>1 DEF RunInv, RunPushes
      <4>2. CASE u = t /\ q = r
        BY <1>3, <4>2
      <4>3. CASE u = t /\ q # r
        BY <1>2, <1>3, <4>3 DEF Watched
      <4> QED
        BY <4>1, <4>2, <4>3
    <3> QED
      BY <3>1, <3>2
  <2>7. RunReads(q)'
    <3>1. pc[q] \in {"verify", "scan", "sbom"} =>
            /\ q # r /\ todo'[q] = todo[q]
            /\ disturbed[q] \subseteq disturbed'[q] /\ swapped[q] \subseteq swapped'[q]
            /\ t = ReleaseTag(q) => "sbom" \in swapped'[q]
            /\ t = ReleaseTag(q) /\ pc[q] \in {"verify", "scan"} => "scan" \in swapped'[q]
            /\ t = ReleaseTag(q) \/ t \in todo[q] => pc[q] # "verify" \/ t \in disturbed'[q]
      BY <1>1, <1>2, <1>3 DEF Ahead, Watched
    <3>2. pc[q] \in {"verify", "scan"} /\ "scan" \notin swapped'[q] =>
            tagged'[ReleaseTag(q)] = digest[q]
      BY <1>3, <2>1, <2>3, <3>1 DEF RunInv, RunReads
    <3>3. pc[q] \in {"verify", "scan", "sbom"} /\ "sbom" \notin swapped'[q] =>
            tagged'[ReleaseTag(q)] = digest[q]
      BY <1>3, <2>1, <2>3, <3>1 DEF RunInv, RunReads
    <3>4. pc[q] = "sbom" /\ "scan" \notin swapped'[q] => PlatformOf(digest[q]) \in scanned
      BY <2>1, <3>1 DEF RunInv, RunReads
    <3>5. ASSUME pc[q] = "verify", ReleaseTag(q) \notin disturbed'[q],
                 NEW u \in todo[q] \ disturbed'[q]
          PROVE  tagged'[u] = digest[q]
      <4>1. u # t /\ u \notin disturbed[q] /\ ReleaseTag(q) \notin disturbed[q]
        BY <3>1, <3>5
      <4>2. tagged[u] = digest[q]
        BY <2>1, <3>5, <4>1 DEF RunInv, RunReads
      <4> QED
        BY <1>1, <4>1, <4>2
    <3>6. pc[q] = "verify" => todo'[q] = todo[q]
      BY <3>1
    <3> QED
      BY <1>1, <2>2, <3>2, <3>3, <3>4, <3>5, <3>6 DEF RunReads, PlatformOf
  <2>8. RunTells(q)'
    BY <1>1, <2>1 DEF RunInv, RunTells, Sound, PlatformOf
  <2> QED
    BY <2>4, <2>5, <2>6, <2>7, <2>8 DEF RunInv
<1>7. TagsInv'
  <2>1. TaggedIsStarted'
    <3> SUFFICES ASSUME NEW u \in Tags, tagged'[u] # None, NEW a \in Arches
                 PROVE  /\ tagged'[u][a].run \in Runs /\ pc[tagged'[u][a].run] # "waiting"
                        /\ tagged'[u][a].attempt <= attempt[tagged'[u][a].run]
      BY <1>1 DEF TaggedIsStarted
    <3>1. CASE u # t
      BY <1>3, <3>1 DEF IInv, TagsInv, TaggedIsStarted
    <3>2. CASE u = t
      BY <1>1, <1>3, <3>2, PushedIsComplete
    <3> QED
      BY <3>1, <3>2
  <2>2. TaggedIsComplete'
    <3> SUFFICES ASSUME NEW u \in Tags, tagged'[u] # None
                 PROVE  /\ \A a \in Arches :
                             tagged'[u][a] # None /\ tagged'[u][a].good /\ tagged'[u][a].arch = a
                        /\ OneBuild(tagged[u])'
                        /\ u[1] \in {"release", "version"} =>
                             release[tagged'[u]["amd64"].run] = u[2]
      BY <1>1 DEF TaggedIsComplete
    <3>1. CASE u # t
      BY <1>1, <1>3, <3>1 DEF IInv, TagsInv, TaggedIsComplete, OneBuild
    <3>2. CASE u = t
      <4>1. u[1] \in {"release", "version"} => release[r] = u[2]
        BY <1>5, <3>2, TagsNamed
      <4>2. OneBuild(images[r])'
        BY <1>1, PushedIsComplete DEF OneBuild
      <4>3. OneBuild(tagged[u])'
        BY <1>1, <1>3, <3>2, <4>2 DEF OneBuild
      <4> QED
        BY <1>1, <1>3, <3>2, <4>1, <4>3, PushedIsComplete DEF Arches
    <3> QED
      BY <3>1, <3>2
  <2> QED
    BY <2>1, <2>2 DEF TagsInv
<1>8. RecordInv'
  BY <1>1 DEF IInv, RecordInv, SignedIsScanned, AttachedIsStarted, AttachedEvidenceIsTrue,
              EvidenceIsTrue, PlatformOf
<1>9. PageInv'
  <2>1. alone \subseteq Runs \ {r}
    BY <1>1 DEF IInv, TypeOK, PageInv, AloneHolds
  <2>2. AloneHolds'
    BY <1>1, <1>3, <2>1 DEF IInv, PageInv, AloneHolds
  <2> QED
    BY <1>1, <2>2 DEF IInv, PageInv, AttachedIsTorn, EvidenceIsWhole, Verifies
<1> QED
  BY <1>4, <1>6, <1>7, <1>8, <1>9 DEF IInv

LEMMA SignKeeps ==
  ASSUME IInv, NEW r \in Runs, Sign(r)
  PROVE  IInv'
<1>1. /\ UNCHANGED <<tagged, scanned, assets, listed, alone, torn, release, attempt, wholes,
                     jobs, images, todo, dist>>
      /\ pc[r] = "sign" /\ pc' = [pc EXCEPT ![r] = "list"] /\ signed' = signed \cup {digest[r]}
      /\ contested' = IF "scan" \in dist[r].swapped THEN contested \cup {digest[r]} ELSE contested
  BY DEF Sign, SignedIndex, Goto, page, build
<1>2. pc'[r] = "list" /\ pc[r] # "attach"
  BY <1>1 DEF IInv, TypeOK
<1>3. RunTyped(r) /\ RunBuilds(r) /\ RunTells(r)
  BY DEF IInv, RunInv
<1>4. TypeOK'
  <2>1. digest[r] \in Indices
    BY <1>1, <1>3 DEF RunTyped
  <2> QED
    BY <1>1, <2>1 DEF Sign, Discard, IInv, TypeOK, Steps
<1>5. Others(r) /\ Calm(r)
  BY OthersStep DEF IInv
<1>6. Forward(r)
  BY <1>1, <1>2, GoesForward
<1>7. RunInv(r)'
  <2>1. RunTyped(r)'
    BY <1>1, <1>2, <1>3 DEF RunTyped, Kept
  <2>2. RunBuilds(r)'
    BY <1>1, <1>2, <1>3 DEF RunBuilds, Unbuilt
  <2>3. RunTells(r)'
    BY <1>1, <1>2, <1>3 DEF RunTells, Sound, PlatformOf, Kept
  <2> QED
    BY <1>2, <2>1, <2>2, <2>3 DEF RunInv, RunPushes, RunReads
<1>8. RecordInv'
  <2>1. dist[r].image = digest[r] /\ Sound(dist[r])
    BY <1>1, <1>3 DEF RunTells
  <2>2. SignedIsScanned'
    BY <1>1, <2>1 DEF IInv, RecordInv, SignedIsScanned, Sound, PlatformOf
  <2>3. AttachedIsStarted'
    BY <1>1, <1>5, <1>6 DEF IInv, RecordInv, AttachedIsStarted, Others, Forward
  <2>4. AttachedEvidenceIsTrue'
    BY <1>1 DEF IInv, RecordInv, AttachedEvidenceIsTrue, EvidenceIsTrue, PlatformOf
  <2> QED
    BY <2>2, <2>3, <2>4 DEF RecordInv
<1>9. \A q \in Runs : RunInv(q)'
  BY <1>1, <1>5, <1>7, RunsKeep
<1>10. TagsInv'
  BY <1>1, <1>4, <1>5, <1>6, TagsFrame
<1>11. PageInv'
  BY <1>1, <1>2, <1>5, PageFrame
<1> QED
  BY <1>4, <1>8, <1>9, <1>10, <1>11 DEF IInv

\* A run that goes from one step of the attaching job to another.
LEMMA AttachingStep ==
  ASSUME IInv, NEW r \in Runs, pc[r] \in {"list", "attach"}, pc'[r] \in {"attach", "done"},
         UNCHANGED <<tagged, scanned, signed, release, attempt, wholes, jobs, images, dist>>
  PROVE  RunInv(r)'
<1>1. RunTyped(r) /\ RunBuilds(r) /\ RunTells(r)
  BY DEF IInv, RunInv
<1>2. RunTyped(r)'
  BY <1>1 DEF RunTyped, Kept
<1>3. RunBuilds(r)'
  BY <1>1 DEF RunBuilds, Unbuilt
<1>4. RunTells(r)'
  BY <1>1 DEF RunTells, Sound, PlatformOf, Kept
<1> QED
  BY <1>2, <1>3, <1>4 DEF RunInv, RunPushes, RunReads

LEMMA ListKeeps ==
  ASSUME IInv, NEW r \in Runs, ListAssets(r)
  PROVE  IInv'
<1>1. /\ UNCHANGED <<tagged, scanned, signed, contested, assets, release, attempt, wholes, jobs,
                     images, digest, dist, disturbed, swapped>>
      /\ pc[r] = "list" /\ pc' = [pc EXCEPT ![r] = "attach"]
      /\ listed' = [listed EXCEPT ![r] = assets[release[r]]]
      /\ todo' = [todo EXCEPT ![r] = Files] /\ torn' = torn \cup {release[r]}
      /\ alone' = (alone \ {q \in Runs : release[q] = release[r]})
                    \cup (IF Attaching(release[r]) = {} THEN {r} ELSE {})
  BY DEF ListAssets, FilesToAttach, Goto, registry, build, races
<1>2. /\ pc'[r] = "attach" /\ todo'[r] = Files /\ release[r] \in Releases
      /\ \A q \in Runs : q # r => pc'[q] = pc[q] /\ todo'[q] = todo[q]
  BY <1>1 DEF IInv, TypeOK, RunInv, RunTyped
<1>3. TypeOK'
  BY <1>1, <1>2 DEF IInv, TypeOK, Steps
<1>4. Others(r) /\ Calm(r)
  BY OthersStep DEF IInv
<1>5. Forward(r)
  BY <1>1, <1>2, GoesForward
<1>6. RunInv(r)'
  BY <1>1, <1>2, AttachingStep
<1>7. \A q \in Runs : RunInv(q)'
  BY <1>1, <1>4, <1>6, RunsKeep
<1>8. TagsInv'
  BY <1>1, <1>3, <1>4, <1>5, TagsFrame
<1>9. RecordInv'
  BY <1>1, <1>4, <1>5, RecordFrame
<1>10. AloneHolds'
  <2> SUFFICES ASSUME NEW q \in alone'
               PROVE  /\ pc'[q] = "attach"
                      /\ \A p \in Runs : pc'[p] = "attach" /\ release[p] = release[q] => p = q
                      /\ \A f \in Files \ todo'[q] :
                           assets[release[q]][f] # None /\ assets[release[q]][f].evidence = dist[q]
    BY <1>1 DEF AloneHolds
  <2>1. CASE q = r
    <3>1. Attaching(release[r]) = {}
      BY <1>1, <2>1
    <3> QED
      BY <1>2, <2>1, <3>1 DEF Attaching
  <2>2. CASE q # r
    <3>1. q \in alone /\ q \in Runs /\ release[q] # release[r]
      BY <1>1, <2>2 DEF IInv, TypeOK
    <3> QED
      BY <1>2, <2>2, <3>1 DEF IInv, PageInv, AloneHolds
  <2> QED
    BY <2>1, <2>2
<1>11. AttachedIsTorn'
  BY <1>1, <1>2 DEF IInv, PageInv, AttachedIsTorn
<1>12. EvidenceIsWhole'
  BY <1>1 DEF IInv, PageInv, EvidenceIsWhole, Verifies
<1> QED
  BY <1>3, <1>7, <1>8, <1>9, <1>10, <1>11, <1>12 DEF IInv, PageInv

LEMMA DeleteKeeps ==
  ASSUME IInv, NEW r \in Runs, NEW f \in Files, DeleteAsset(r, f)
  PROVE  IInv'
<1>1. /\ UNCHANGED <<tagged, scanned, signed, contested, alone, torn, release, pc, attempt,
                     wholes, jobs, images, todo, digest, dist, disturbed, swapped>>
      /\ pc[r] = "attach" /\ f \in todo[r]
      /\ assets' = [assets EXCEPT ![release[r]][f] = None]
      /\ listed' = [listed EXCEPT ![r][f] = None]
  BY DEF DeleteAsset, registry, build, job, races
<1>2. release[r] \in Releases /\ release[r] \in torn
  BY <1>1 DEF IInv, RunInv, RunTyped, PageInv, AttachedIsTorn
<1>3. \A v \in Releases : \A g \in Files :
        /\ assets'[v][g] = IF v = release[r] /\ g = f THEN None ELSE assets[v][g]
  BY <1>1, <1>2 DEF IInv, TypeOK
<1>4. TypeOK'
  BY <1>1 DEF IInv, TypeOK
<1>5. Others(r) /\ Calm(r)
  BY OthersStep DEF IInv
<1>6. Forward(r)
  BY <1>1, GoesForward
<1>7. RunInv(r)'
  BY <1>1, AttachingStep
<1>8. \A q \in Runs : RunInv(q)'
  BY <1>1, <1>5, <1>7, RunsKeep
<1>9. TagsInv'
  BY <1>1, <1>4, <1>5, <1>6, TagsFrame
<1>10. RecordInv'
  BY <1>1, <1>3, <1>5, <1>6, RecordFrame
<1>11. AloneHolds'
  <2> SUFFICES ASSUME NEW q \in alone, NEW g \in Files \ todo[q]
               PROVE  assets'[release[q]][g] # None /\ assets'[release[q]][g].evidence = dist[q]
    BY <1>1 DEF IInv, PageInv, AloneHolds
  <2>1. /\ q \in Runs /\ release[q] \in Releases /\ (release[r] = release[q] => r = q)
        /\ assets[release[q]][g] # None /\ assets[release[q]][g].evidence = dist[q]
    BY <1>1 DEF IInv, TypeOK, PageInv, AloneHolds, RunInv, RunTyped
  <2>2. ~(release[q] = release[r] /\ g = f)
    BY <1>1, <2>1
  <2>3. assets'[release[q]][g] = assets[release[q]][g]
    BY <1>3, <2>1, <2>2
  <2> QED
    BY <2>1, <2>3
<1>12. AttachedIsTorn'
  BY <1>1 DEF IInv, PageInv, AttachedIsTorn
<1>13. EvidenceIsWhole'
  <2>1. \A v \in Releases \ torn : \A g \in Files : assets'[v][g] = assets[v][g]
    BY <1>2, <1>3
  <2> QED
    BY <1>1, <2>1 DEF IInv, PageInv, EvidenceIsWhole, Verifies
<1> QED
  BY <1>4, <1>8, <1>9, <1>10, <1>11, <1>12, <1>13 DEF IInv, PageInv

LEMMA UploadKeeps ==
  ASSUME IInv, NEW r \in Runs, NEW f \in Files, UploadAsset(r, f)
  PROVE  IInv'
<1> DEFINE u == [evidence |-> dist[r], by |-> r, during |-> attempt[r]]
           last == todo[r] = {f}
<1>1. /\ UNCHANGED <<tagged, scanned, signed, contested, listed, release, attempt, wholes, jobs,
                     images, digest, dist, disturbed, swapped>>
      /\ pc[r] = "attach" /\ f \in todo[r]
      /\ assets' = [assets EXCEPT ![release[r]][f] = u]
      /\ todo' = [todo EXCEPT ![r] = @ \ {f}]
      /\ pc' = [pc EXCEPT ![r] = IF last THEN "done" ELSE "attach"]
      /\ torn' = IF last /\ r \in alone THEN torn \ {release[r]} ELSE torn
      /\ alone' = IF last THEN alone \ {r} ELSE alone
  BY DEF UploadAsset, Goto, registry, build, races
<1>2. /\ release[r] \in Releases /\ release[r] \in torn /\ dist[r] \in Evidence
      /\ dist[r].run = r /\ dist[r].image \in signed /\ Sound(dist[r])
  BY <1>1 DEF IInv, RunInv, RunTyped, RunTells, Kept, PageInv, AttachedIsTorn
<1>3. u \in Uploads /\ u # None /\ u.evidence = dist[r]
  BY <1>2, NoneAssumption DEF Uploads, IInv, TypeOK
<1>4. \A v \in Releases : \A g \in Files :
        assets'[v][g] = IF v = release[r] /\ g = f THEN u ELSE assets[v][g]
  BY <1>1, <1>2 DEF IInv, TypeOK
<1>5. /\ pc'[r] = IF last THEN "done" ELSE "attach"
      /\ todo'[r] = todo[r] \ {f}
      /\ \A q \in Runs : q # r => pc'[q] = pc[q] /\ todo'[q] = todo[q]
  BY <1>1 DEF IInv, TypeOK
<1>6. TypeOK'
  <2>1. assets' \in [Releases -> [Files -> Uploads \cup {None}]]
    BY <1>1, <1>2, <1>3 DEF IInv, TypeOK
  <2>2. /\ pc' \in [Runs -> Steps \cup Ended] /\ todo' \in [Runs -> SUBSET (Tags \cup Files)]
        /\ torn' \subseteq Releases /\ alone' \subseteq Runs
    BY <1>1 DEF IInv, TypeOK, Steps, Ended
  <2> QED
    BY <1>1, <2>1, <2>2 DEF IInv, TypeOK
<1>7. Others(r) /\ Calm(r)
  BY OthersStep DEF IInv
<1>8. Forward(r)
  BY <1>1, <1>5, GoesForward
<1>9. RunInv(r)'
  BY <1>1, <1>5, AttachingStep
<1>10. \A q \in Runs : RunInv(q)'
  BY <1>1, <1>7, <1>9, RunsKeep
<1>11. TagsInv'
  BY <1>1, <1>6, <1>7, <1>8, TagsFrame
<1>12. RecordInv'
  <2>1. SignedIsScanned'
    BY <1>1 DEF IInv, RecordInv, SignedIsScanned, PlatformOf
  <2>2. \A q \in Runs : pc[q] # "waiting" => pc'[q] # "waiting"
    BY <1>5
  <2>3. AttachedIsStarted'
    <3> SUFFICES ASSUME NEW v \in Releases, NEW g \in Files, assets'[v][g] # None
                 PROVE  /\ assets'[v][g].evidence.run \in Runs
                        /\ pc'[assets'[v][g].evidence.run] # "waiting"
      BY DEF AttachedIsStarted
    <3>1. CASE v = release[r] /\ g = f
      <4>1. assets'[v][g].evidence = dist[r]
        BY <1>3, <1>4, <3>1
      <4> QED
        BY <1>1, <1>2, <2>2, <4>1
    <3>2. CASE ~(v = release[r] /\ g = f)
      BY <1>4, <2>2, <3>2 DEF IInv, RecordInv, AttachedIsStarted
    <3> QED
      BY <3>1, <3>2
  <2>4. AttachedEvidenceIsTrue'
    <3> SUFFICES ASSUME NEW v \in Releases, NEW g \in Files, assets'[v][g] # None
                 PROVE  EvidenceIsTrue(assets[v][g].evidence, v)'
      BY DEF AttachedEvidenceIsTrue
    <3>1. CASE v = release[r] /\ g = f
      <4>1. assets'[v][g].evidence = dist[r]
        BY <1>3, <1>4, <3>1
      <4> QED
        BY <1>1, <1>2, <3>1, <4>1 DEF EvidenceIsTrue, Sound, PlatformOf
    <3>2. CASE ~(v = release[r] /\ g = f)
      <4>1. assets'[v][g] = assets[v][g]
        BY <1>4, <3>2
      <4>2. EvidenceIsTrue(assets[v][g].evidence, v)
        BY <4>1 DEF IInv, RecordInv, AttachedEvidenceIsTrue
      <4> QED
        BY <1>1, <4>1, <4>2 DEF EvidenceIsTrue, PlatformOf
    <3> QED
      BY <3>1, <3>2
  <2> QED
    BY <2>1, <2>3, <2>4 DEF RecordInv
<1>13. AloneHolds'
  <2> SUFFICES ASSUME NEW q \in alone'
               PROVE  /\ pc'[q] = "attach"
                      /\ \A p \in Runs : pc'[p] = "attach" /\ release[p] = release[q] => p = q
                      /\ \A g \in Files \ todo'[q] :
                           /\ assets'[release[q]][g] # None
                           /\ assets'[release[q]][g].evidence = dist[q]
    BY <1>1 DEF AloneHolds
  <2>1. /\ q \in alone /\ q \in Runs /\ pc[q] = "attach" /\ release[q] \in Releases
        /\ \A p \in Runs : pc[p] = "attach" /\ release[p] = release[q] => p = q
        /\ \A g \in Files \ todo[q] :
             assets[release[q]][g] # None /\ assets[release[q]][g].evidence = dist[q]
    BY <1>1 DEF IInv, TypeOK, PageInv, AloneHolds, RunInv, RunTyped
  <2>2. q = r => ~last
    BY <1>1
  <2>3. pc'[q] = "attach" /\ \A p \in Runs : pc'[p] = "attach" => pc[p] = "attach"
    BY <1>1, <1>5, <2>1, <2>2
  <2>4. ASSUME NEW g \in Files \ todo'[q]
        PROVE  assets'[release[q]][g] # None /\ assets'[release[q]][g].evidence = dist[q]
    <3>1. CASE q = r /\ g = f
      BY <1>3, <1>4, <2>1, <3>1
    <3>2. CASE q = r /\ g # f
      BY <1>4, <1>5, <2>1, <3>2
    <3>3. CASE q # r
      <4>1. release[q] # release[r]
        BY <1>1, <2>1, <3>3
      <4> QED
        BY <1>4, <1>5, <2>1, <3>3, <4>1
    <3> QED
      BY <3>1, <3>2, <3>3
  <2> QED
    BY <2>1, <2>3, <2>4
<1>14. AttachedIsTorn'
  <2> SUFFICES ASSUME NEW q \in Runs, pc'[q] = "attach" PROVE release[q] \in torn'
    BY <1>1 DEF AttachedIsTorn
  <2>1. pc[q] = "attach" /\ release[q] \in torn
    BY <1>1, <1>5 DEF IInv, PageInv, AttachedIsTorn
  <2>2. ASSUME last, r \in alone PROVE release[q] # release[r]
    BY <1>5, <2>1, <2>2 DEF IInv, PageInv, AloneHolds
  <2> QED
    BY <1>1, <2>1, <2>2
<1>15. EvidenceIsWhole'
  <2> SUFFICES ASSUME NEW v \in Releases \ torn', NEW h \in Files, assets'[v][h] # None,
                      NEW g \in Files, NEW k \in Files
               PROVE  assets'[v][g] # None /\ assets'[v][g].evidence = assets'[v][k].evidence
    BY DEF EvidenceIsWhole, Verifies
  <2>1. CASE v \notin torn
    <3>1. \A i \in Files : assets'[v][i] = assets[v][i]
      BY <1>2, <1>4, <2>1
    <3> QED
      BY <2>1, <3>1 DEF IInv, PageInv, EvidenceIsWhole, Verifies
  <2>2. CASE v \in torn
    <3>1. last /\ r \in alone /\ v = release[r]
      BY <1>1, <2>2
    <3>2. ASSUME NEW i \in Files PROVE assets'[v][i] # None /\ assets'[v][i].evidence = dist[r]
      <4>1. CASE i = f
        BY <1>3, <1>4, <3>1, <4>1
      <4>2. CASE i # f
        <5>1. i \in Files \ todo[r]
          BY <3>1, <4>2
        <5>2. assets[v][i] # None /\ assets[v][i].evidence = dist[r]
          BY <3>1, <5>1 DEF IInv, PageInv, AloneHolds
        <5> QED
          BY <1>4, <4>2, <5>2
      <4> QED
        BY <4>1, <4>2
    <3> QED
      BY <3>2
  <2> QED
    BY <2>1, <2>2
<1> QED
  BY <1>6, <1>10, <1>11, <1>12, <1>13, <1>14, <1>15 DEF IInv, PageInv

-----------------------------------------------------------------------------
(* The theorems.                                                            *)

LEMMA NextKeeps == IInv /\ Next => IInv'
<1> SUFFICES ASSUME IInv, Next PROVE IInv'
  OBVIOUS
<1>1. PICK r \in Runs : \/ \E v \in Releases : Start(r, v)
                       \/ Work(r) \/ Fail(r) \/ Rerun(r)
                       \/ \E arch \in Arches : ExpireDigest(r, arch)
  BY DEF Next
<1>2. CASE \E v \in Releases : Start(r, v)
  BY <1>2, StartKeeps
<1>3. CASE Fail(r) \/ Rerun(r) \/ \E arch \in Arches : ExpireDigest(r, arch)
  BY <1>3, FailKeeps, RerunKeeps, ExpireKeeps
<1>4. CASE Work(r)
  <2>1. CASE (\E arch \in Arches : BuildPlatform(r, arch)) \/ MergePlatforms(r)
    BY <2>1, BuildKeeps, MergeKeeps
  <2>2. CASE \E t \in Tags : PushTag(r, t) \/ VerifyTag(r, t) \/ TagMismatch(r, t)
    BY <2>2, PushKeeps, VerifyKeeps, MismatchKeeps
  <2>3. CASE InspectDigest(r) \/ ScanPasses(r) \/ GenerateSbom(r) \/ Sign(r)
    BY <2>3, InspectKeeps, ScanKeeps, SbomKeeps, SignKeeps
  <2>4. CASE ListAssets(r) \/ \E f \in Files : DeleteAsset(r, f) \/ UploadAsset(r, f)
    BY <2>4, ListKeeps, DeleteKeeps, UploadKeeps
  <2> QED
    BY <1>4, <2>1, <2>2, <2>3, <2>4 DEF Work
<1> QED
  BY <1>1, <1>2, <1>3, <1>4

LEMMA StutterKeeps == IInv /\ UNCHANGED vars => IInv'
<1> SUFFICES ASSUME IInv, UNCHANGED vars PROVE IInv'
  OBVIOUS
<1> USE DEF vars, registry, page, build, job, races
<1>1. TypeOK'
  BY DEF IInv, TypeOK
<1>2. \A q \in Runs : RunInv(q)'
  <2> SUFFICES ASSUME NEW q \in Runs PROVE RunInv(q)'
    OBVIOUS
  <2>1. RunInv(q)
    BY DEF IInv
  <2>2. /\ ReleaseTag(q)' = ReleaseTag(q) /\ TagsOf(q)' = TagsOf(q)
        /\ DescriptorsVerified(q)' = DescriptorsVerified(q)
    BY DEF ReleaseTag, VersionTag, ShaTag, Latest, TagsOf, DescriptorsVerified
  <2> QED
    BY <2>1, <2>2 DEF RunInv, RunTyped, RunBuilds, RunPushes, RunReads, RunTells, Sound, PlatformOf
<1>3. TagsInv'
  BY DEF IInv, TagsInv, TaggedIsStarted, TaggedIsComplete, OneBuild
<1>4. RecordInv'
  BY DEF IInv, RecordInv, SignedIsScanned, AttachedIsStarted, AttachedEvidenceIsTrue,
         EvidenceIsTrue, PlatformOf
<1>5. PageInv'
  BY DEF IInv, PageInv, AloneHolds, AttachedIsTorn, EvidenceIsWhole, Verifies
<1> QED
  BY <1>1, <1>2, <1>3, <1>4, <1>5 DEF IInv

\* The inductive invariant holds however the runs interleave, fail and repeat.
THEOREM Inductive == Spec => []IInv
<1>1. IInv /\ [Next]_vars => IInv'
  BY NextKeeps, StutterKeeps
<1> QED
  BY <1>1, InitHolds, PTL DEF Spec

\* Every variable keeps its type.
THEOREM TypeCorrect == Spec => []TypeOK
<1>1. IInv => TypeOK
  BY DEF IInv
<1> QED
  BY <1>1, Inductive, PTL

\* devtools-container-release-verify.sh: of an index that is signed, the image of
\* the runner's platform was scanned, unless another run moved the release tag
\* between the reading of the digest and the scan.
THEOREM SignedTheorem == Spec => []SignedIsScanned
<1>1. IInv => SignedIsScanned
  BY DEF IInv, RecordInv
<1> QED
  BY <1>1, Inductive, PTL

\* devtools-merge-platform-images.sh: a public tag denotes a good image of each
\* architecture, of one build, and a version tag one of its release, whichever
\* jobs are run again and whichever digests have expired.
THEOREM TaggedTheorem == Spec => []TaggedIsComplete
<1>1. IInv => TaggedIsComplete
  BY DEF IInv, TagsInv
<1> QED
  BY <1>1, Inductive, PTL

\* attach-release-evidence: each attached file is true evidence of its release,
\* whichever runs attach, replace or fail.
THEOREM EvidenceTheorem == Spec => []AttachedEvidenceIsTrue
<1>1. IInv => AttachedEvidenceIsTrue
  BY DEF IInv, RecordInv
<1> QED
  BY <1>1, Inductive, PTL

\* attach-release-evidence: the files of a release are all of one set, unless a
\* run that began to replace them did not end or was not alone.
THEOREM WholeTheorem == Spec => []EvidenceIsWhole
<1>1. IInv => EvidenceIsWhole
  BY DEF IInv, PageInv
<1> QED
  BY <1>1, Inductive, PTL

\* verify_tag_digest: a run whose tags were left alone is not refused by them.
THEOREM UndisturbedTheorem == Spec => []UndisturbedTagsVerify
<1>1. ASSUME IInv PROVE UndisturbedTagsVerify
  BY <1>1 DEF IInv, RunInv, RunReads, UndisturbedTagsVerify
<1> QED
  BY <1>1, Inductive, PTL

=============================================================================
