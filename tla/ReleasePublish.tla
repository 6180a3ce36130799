---------------------------- MODULE ReleasePublish ----------------------------
(***************************************************************************)
(* .github/workflows/container-build-publish.yml with the scripts it runs: *)
(* every publication of a release starts a workflow run that builds one    *)
(* image per architecture, assembles an index, moves four registry tags,   *)
(* verifies, scans and signs it, and attaches evidence to the release.     *)
(* Runs share the registry, nothing serialises them, not even those of one *)
(* release, any step may fail, and a run that ended may be run again,      *)
(* wholly, from its failed jobs or from one job.                           *)
(***************************************************************************)
EXTENDS Naturals

CONSTANTS
  Runs,         \* workflow runs
  Releases,
  CommitOf,     \* release -> the commit of its Git tag
  None,         \* nothing there yet
  Files,        \* the evidence assets of a release
  MaxAttempts   \* bound: run -> its attempts

ASSUME ConstantsAssumption ==
  /\ None \notin Releases
  /\ MaxAttempts \in [Runs -> Nat]

Arches == {"amd64", "arm64"}

VARIABLES
  tagged,    \* registry tag -> the index it denotes
  scanned,   \* history: the platform images a scan has passed
  signed,    \* indices with a signature of this workflow
  contested, \* history: those whose run may have scanned another one
  assets,    \* release -> file -> the upload there
  listed,    \* run -> file -> the upload it is going to replace
  alone,     \* history: runs that attach without another one of the release
  torn,      \* history: releases whose files may be of more than one set
  release,   \* run -> the release whose publication started it
  pc,        \* run -> its next step
  attempt,   \* run -> number of its attempt
  wholes,    \* history: run -> attempts that ran every job
  jobs,      \* run -> architectures whose build has succeeded
  images,    \* run -> architecture -> platform digest kept of it
  todo,      \* run -> tags to push or to verify, or files to attach
  digest,    \* run -> IMAGE_DIGEST
  dist,      \* run -> the evidence its build job wrote
  disturbed, \* history: run -> tags another run moved before it verified them
  swapped    \* history: run -> what it may have read of another run's image

registry == <<tagged, scanned, signed, contested>>
page == <<assets, listed, alone, torn>>
build == <<attempt, wholes, jobs, images>>
job == <<todo, digest, dist>>
races == <<disturbed, swapped>>
vars == <<registry, page, release, pc, build, job, races>>

ReleaseTag(r) == <<"release", release[r]>>
VersionTag(r) == <<"version", release[r]>>
ShaTag(r) == <<"sha", CommitOf[release[r]]>>
Latest == <<"latest", None>>
TagsOf(r) == {ReleaseTag(r), VersionTag(r), ShaTag(r), Latest}
Tags == ({"release", "version"} \X Releases)
        \cup {<<"sha", CommitOf[v]>> : v \in Releases} \cup {Latest}

\* A run that has ended, and the step at which its failed jobs start again.
Failed == {"platforms failed", "build failed", "attach failed"}
Ended == Failed \cup {"waiting", "done"}
Goto(r, step) == pc' = [pc EXCEPT ![r] = step]

-----------------------------------------------------------------------------
(* Starting, failing and running again.                                    *)

\* There is no concurrency group: another run of the release may be going on.
Start(r, v) ==
  /\ pc[r] = "waiting"
  /\ release' = [release EXCEPT ![r] = v]
  /\ Goto(r, "platforms")
  /\ UNCHANGED <<registry, page, build, job, races>>

FailedJob(r) ==
  CASE pc[r] = "platforms" -> "platforms failed"
    [] pc[r] \in {"list", "attach"} -> "attach failed"
    [] OTHER -> "build failed"

\* What a job holds is gone when it ends; its images and its evidence are kept.
Discard(r) ==
  /\ digest' = [digest EXCEPT ![r] = None]
  /\ disturbed' = [disturbed EXCEPT ![r] = {}]
  /\ swapped' = [swapped EXCEPT ![r] = {}]

\* A command, a runner or a timeout ends the job; jobs that need it are skipped.
Fail(r) ==
  /\ pc[r] \notin Ended
  /\ Goto(r, FailedJob(r))
  /\ todo' = [todo EXCEPT ![r] = {}]
  /\ listed' = [listed EXCEPT ![r] = [f \in Files |-> None]]
  /\ alone' = alone \ {r}
  /\ Discard(r)
  /\ UNCHANGED <<registry, assets, torn, release, build, dist>>

\* "Re-run all jobs", "Re-run failed jobs", or one job, with all those that need
\* it.  The other jobs keep their result (a platform job that failed has none), and
\* the digests of an earlier attempt stay until they are replaced or expire.
Rerun(r) ==
  /\ pc[r] \in Failed \cup {"done"}
  /\ attempt[r] < MaxAttempts[r]
  /\ attempt' = [attempt EXCEPT ![r] = @ + 1]
  /\ \/ /\ Goto(r, "platforms")
        /\ jobs' = [jobs EXCEPT ![r] = {}]
        /\ wholes' = [wholes EXCEPT ![r] = @ \cup {attempt[r] + 1}]
     \/ /\ \E arch \in Arches : jobs' = [jobs EXCEPT ![r] = @ \ {arch}]
        /\ Goto(r, "platforms")
        /\ UNCHANGED wholes
     \/ pc[r] # "platforms failed" /\ Goto(r, "merge") /\ UNCHANGED <<jobs, wholes>>
     \/ pc[r] \in {"attach failed", "done"} /\ Goto(r, "list") /\ UNCHANGED <<jobs, wholes>>
  /\ UNCHANGED <<registry, page, release, images, job, races>>

\* Each digest is an artifact of its own and kept for a day only.  Bound: those of
\* a run that has no attempt left stay, as nothing reads them.
ExpireDigest(r, arch) ==
  /\ pc[r] \in {"platforms", "merge"} \/ (pc[r] \in Ended /\ attempt[r] < MaxAttempts[r])
  /\ images[r][arch] # None
  /\ images' = [images EXCEPT ![r][arch] = None]
  /\ UNCHANGED <<registry, page, release, pc, attempt, wholes, jobs, job, races>>

-----------------------------------------------------------------------------
(* Job build-platform: one native build per architecture, pushed by digest.*)
(* The result may not be what the job asked for.                           *)

\* Fault: the job build does not need every platform.
AnyBuilt(r, arch) == TRUE
AllBuilt(r, arch) == jobs[r] \cup {arch} = Arches

BuildPlatform(r, arch) ==
  /\ pc[r] = "platforms" /\ arch \notin jobs[r]
  /\ \E good \in BOOLEAN :
       images' = [images EXCEPT ![r][arch] =
                    [run |-> r, attempt |-> attempt[r], arch |-> arch, good |-> good]]
  /\ jobs' = [jobs EXCEPT ![r] = @ \cup {arch}]
  /\ Goto(r, IF AllBuilt(r, arch) THEN "merge" ELSE "platforms")
  /\ UNCHANGED <<registry, page, release, attempt, wholes, job, races>>

-----------------------------------------------------------------------------
(* Job build: devtools-merge-platform-images.sh.                           *)

\* Fault: the digests that are there are merged.
PresentVerified(r) == \A a \in Arches : images[r][a] # None => images[r][a].good
\* Both digests are there and denote one image of the right architecture with
\* its attestations.
DescriptorsVerified(r) == \A a \in Arches : images[r][a] # None /\ images[r][a].good

MergePlatforms(r) ==
  /\ pc[r] = "merge" /\ DescriptorsVerified(r)
  /\ todo' = [todo EXCEPT ![r] = TagsOf(r)]
  /\ dist' = [dist EXCEPT ![r] = None]
  /\ Goto(r, "tags")
  /\ UNCHANGED <<registry, page, release, build, digest, races>>

\* The tags whose change by another run still matters to the verification, and
\* the steps that read the release tag after it.
Watched(r) ==
  CASE pc[r] = "tags" -> TagsOf(r) \ todo[r]
    [] pc[r] = "verify" -> todo[r] \cup {ReleaseTag(r)}
    [] OTHER -> {}
Ahead(r) ==
  CASE pc[r] \in {"verify", "scan"} -> {"scan", "sbom"}
    [] pc[r] = "sbom" -> {"sbom"}
    [] OTHER -> {}

\* imagetools create moves the tags one by one.
PushTag(r, t) ==
  /\ pc[r] = "tags" /\ t \in todo[r]
  /\ tagged' = [tagged EXCEPT ![t] = images[r]]
  /\ todo' = [todo EXCEPT ![r] = @ \ {t}]
  /\ disturbed' = [q \in Runs |->
       IF q # r /\ t \in Watched(q) THEN disturbed[q] \cup {t} ELSE disturbed[q]]
  /\ swapped' = [q \in Runs |->
       IF q # r /\ t = ReleaseTag(q) THEN swapped[q] \cup Ahead(q) ELSE swapped[q]]
  /\ UNCHANGED <<scanned, signed, contested, page, release, pc, build, digest, dist>>

\* Fault: the digest is read as soon as the release tag is there.
ReleaseTagPushed(r) == ReleaseTag(r) \notin todo[r]
AllTagsPushed(r) == todo[r] = {}

\* The digest every later step works on is read back from the release tag.
InspectDigest(r) ==
  /\ pc[r] = "tags" /\ AllTagsPushed(r)
  /\ digest' = [digest EXCEPT ![r] = tagged[ReleaseTag(r)]]
  /\ todo' = [todo EXCEPT ![r] = TagsOf(r)]
  /\ Goto(r, "verify")
  /\ UNCHANGED <<registry, page, release, build, dist, races>>

-----------------------------------------------------------------------------
(* Job build: devtools-container-release-verify.sh.                        *)

\* The tag the script looks at next.
Order(r) == [t \in TagsOf(r) |->
  CASE t = ReleaseTag(r) -> 1 [] t = VersionTag(r) -> 2 [] t = ShaTag(r) -> 3 [] OTHER -> 4]
IsNext(r, t) == t \in todo[r] /\ \A u \in todo[r] : Order(r)[t] <= Order(r)[u]

VerifyTag(r, t) ==
  /\ pc[r] = "verify" /\ IsNext(r, t)
  /\ tagged[t] = digest[r]
  /\ todo' = [todo EXCEPT ![r] = @ \ {t}]
  /\ disturbed' = [disturbed EXCEPT ![r] = IF todo[r] = {t} THEN {} ELSE @ \ ({t} \ {ReleaseTag(r)})]
  /\ Goto(r, IF todo[r] = {t} THEN "scan" ELSE "verify")
  /\ UNCHANGED <<registry, page, release, build, digest, dist, swapped>>

TagMismatch(r, t) ==
  /\ pc[r] = "verify" /\ IsNext(r, t)
  /\ tagged[t] # digest[r]
  /\ Goto(r, "build failed")
  /\ todo' = [todo EXCEPT ![r] = {}]
  /\ Discard(r)
  /\ UNCHANGED <<registry, page, release, build, dist>>

\* Trivy is given the release tag, which denotes an index, and no platform: it
\* takes the image for the platform of the runner, ubuntu-latest.  Fault: it is
\* given the moving tag.
LatestReference(r) == Latest
ScannedReference(r) == ReleaseTag(r)
PlatformOf(index) == index["amd64"]

ScanPasses(r) ==
  /\ pc[r] = "scan"
  /\ scanned' = scanned \cup {PlatformOf(tagged[ScannedReference(r)])}
  /\ Goto(r, "sbom")
  /\ UNCHANGED <<tagged, signed, contested, page, release, build, job, races>>

GenerateSbom(r) ==
  /\ pc[r] = "sbom"
  /\ dist' = [dist EXCEPT ![r] =
       [run |-> r, attempt |-> attempt[r], image |-> digest[r],
        sbom |-> PlatformOf(tagged[ScannedReference(r)]), swapped |-> swapped[r]]]
  /\ Goto(r, "sign")
  /\ UNCHANGED <<registry, page, release, build, todo, digest, races>>

LatestIndex(r) == tagged[Latest]  \* fault: a tag is signed
SignedIndex(r) == digest[r]

\* cosign sign and verify, then the evidence, provenance, checksums and their
\* bundle are written below dist and kept as an artifact of the run.
Sign(r) ==
  /\ pc[r] = "sign"
  /\ signed' = signed \cup {SignedIndex(r)}
  /\ contested' = IF "scan" \in dist[r].swapped THEN contested \cup {digest[r]} ELSE contested
  /\ Discard(r)
  /\ Goto(r, "list")
  /\ UNCHANGED <<tagged, scanned, page, release, build, todo, dist>>

-----------------------------------------------------------------------------
(* Job attach-release-evidence: gh release upload --clobber.               *)

Attaching(v) == {q \in Runs : pc[q] = "attach" /\ release[q] = v}

\* Fault: what is there already is left.
MissingFiles(r) == {f \in Files : assets[release[r]][f] = None}
FilesToAttach(r) == Files

\* gh asks for the assets of the release once, before it uploads any.
ListAssets(r) ==
  /\ pc[r] = "list"
  /\ listed' = [listed EXCEPT ![r] = assets[release[r]]]
  /\ todo' = [todo EXCEPT ![r] = FilesToAttach(r)]
  /\ alone' = (alone \ {q \in Runs : release[q] = release[r]})
                \cup (IF Attaching(release[r]) = {} THEN {r} ELSE {})
  /\ torn' = torn \cup {release[r]}
  /\ Goto(r, "attach")
  /\ UNCHANGED <<registry, assets, release, build, digest, dist, races>>

\* An asset is deleted by its identity: one that was replaced is not found, and
\* the command fails.
DeleteAsset(r, f) ==
  /\ pc[r] = "attach" /\ f \in todo[r]
  /\ listed[r][f] # None /\ assets[release[r]][f] = listed[r][f]
  /\ assets' = [assets EXCEPT ![release[r]][f] = None]
  /\ listed' = [listed EXCEPT ![r][f] = None]
  /\ UNCHANGED <<registry, alone, torn, release, pc, build, job, races>>

\* A name that is taken is refused, and the command fails.
UploadAsset(r, f) ==
  /\ pc[r] = "attach" /\ f \in todo[r]
  /\ listed[r][f] = None /\ assets[release[r]][f] = None
  /\ assets' = [assets EXCEPT ![release[r]][f] =
                  [evidence |-> dist[r], by |-> r, during |-> attempt[r]]]
  /\ todo' = [todo EXCEPT ![r] = @ \ {f}]
  /\ Goto(r, IF todo[r] = {f} THEN "done" ELSE "attach")
  /\ torn' = IF todo[r] = {f} /\ r \in alone THEN torn \ {release[r]} ELSE torn
  /\ alone' = IF todo[r] = {f} THEN alone \ {r} ELSE alone
  /\ UNCHANGED <<registry, listed, release, build, digest, dist, races>>

-----------------------------------------------------------------------------
Init ==
  /\ tagged = [t \in Tags |-> None]
  /\ scanned = {} /\ signed = {} /\ contested = {}
  /\ assets = [v \in Releases |-> [f \in Files |-> None]]
  /\ listed = [r \in Runs |-> [f \in Files |-> None]]
  /\ alone = {} /\ torn = {}
  /\ release = [r \in Runs |-> None]
  /\ pc = [r \in Runs |-> "waiting"]
  /\ attempt = [r \in Runs |-> 1]
  /\ wholes = [r \in Runs |-> {1}]
  /\ jobs = [r \in Runs |-> {}]
  /\ images = [r \in Runs |-> [a \in Arches |-> None]]
  /\ todo = [r \in Runs |-> {}]
  /\ digest = [r \in Runs |-> None]
  /\ dist = [r \in Runs |-> None]
  /\ disturbed = [r \in Runs |-> {}] /\ swapped = [r \in Runs |-> {}]

Work(r) ==
  \/ \E arch \in Arches : BuildPlatform(r, arch)
  \/ MergePlatforms(r)
  \/ \E t \in Tags : PushTag(r, t) \/ VerifyTag(r, t) \/ TagMismatch(r, t)
  \/ InspectDigest(r)
  \/ ScanPasses(r) \/ GenerateSbom(r) \/ Sign(r)
  \/ ListAssets(r)
  \/ \E f \in Files : DeleteAsset(r, f) \/ UploadAsset(r, f)

Next == \E r \in Runs :
  \/ \E v \in Releases : Start(r, v)
  \/ Work(r) \/ Fail(r) \/ Rerun(r)
  \/ \E arch \in Arches : ExpireDigest(r, arch)

Spec == Init /\ [][Next]_vars

Images == [run : Runs, attempt : Nat, arch : Arches, good : BOOLEAN]
Indices == [Arches -> Images \cup {None}]
Evidence == [run : Runs, attempt : Nat, image : Indices, sbom : Images \cup {None},
             swapped : SUBSET {"scan", "sbom"}]
Uploads == [evidence : Evidence, by : Runs, during : Nat]
Steps == {"platforms", "merge", "tags", "verify", "scan", "sbom", "sign", "list", "attach"}

\* An asset is there or not.
ASSUME NoneAssumption == None \notin Uploads

\* Every variable has its type.
TypeOK ==
  /\ tagged \in [Tags -> Indices \cup {None}]
  /\ scanned \subseteq Images \cup {None}
  /\ signed \cup contested \subseteq Indices
  /\ assets \in [Releases -> [Files -> Uploads \cup {None}]]
  /\ listed \in [Runs -> [Files -> Uploads \cup {None}]]
  /\ alone \subseteq Runs /\ torn \subseteq Releases
  /\ release \in [Runs -> Releases \cup {None}]
  /\ pc \in [Runs -> Steps \cup Ended]
  /\ attempt \in [Runs -> Nat]
  /\ wholes \in [Runs -> SUBSET Nat]
  /\ jobs \in [Runs -> SUBSET Arches]
  /\ images \in [Runs -> [Arches -> Images \cup {None}]]
  /\ todo \in [Runs -> SUBSET (Tags \cup Files)]
  /\ digest \in [Runs -> Indices \cup {None}]
  /\ dist \in [Runs -> Evidence \cup {None}]
  /\ disturbed \in [Runs -> SUBSET Tags]
  /\ swapped \in [Runs -> SUBSET {"scan", "sbom"}]

-----------------------------------------------------------------------------
(* What a release must guarantee.                                          *)

\* devtools-container-release-verify.sh scans by tag and signs by digest: of an
\* index with a signature of the workflow, the image of the runner's platform is
\* one that passed the scan, unless another run of the release moved its tag
\* after this one had read the digest from it and before it was scanned.
SignedIsScanned == \A index \in signed \ contested : PlatformOf(index) \in scanned

\* "Container validation includes ... vulnerability scanning": of every image
\* that is signed.
EveryImageIsScanned == \A index \in signed : \A a \in Arches : index[a] \in scanned

\* The images of an index are of one run, and of attempts between which no other
\* one has built both again.
OneBuild(index) ==
  LET r == index["amd64"].run IN
  /\ index["arm64"].run = r
  /\ \A n \in wholes[r] : index["amd64"].attempt < n <=> index["arm64"].attempt < n

\* devtools-merge-platform-images.sh: a public tag denotes one good image per
\* architecture, whatever jobs are repeated and whichever digests expire; they
\* are of one build, and a version tag only has images of its own release.
TaggedIsComplete ==
  \A t \in Tags : tagged[t] # None =>
    /\ \A a \in Arches :
         tagged[t][a] # None /\ tagged[t][a].good /\ tagged[t][a].arch = a
    /\ OneBuild(tagged[t])
    /\ t[1] \in {"release", "version"} => release[tagged[t]["amd64"].run] = t[2]

\* The evidence is of a run of the release, about an index that was signed; its
\* scan and its SBOM are of the runner's image of that index, but for what a run
\* that moved the tag meanwhile may have changed.
EvidenceIsTrue(e, v) ==
  /\ release[e.run] = v /\ e.image \in signed
  /\ "scan" \in e.swapped \/ PlatformOf(e.image) \in scanned
  /\ "sbom" \in e.swapped \/ e.sbom = PlatformOf(e.image)

\* attach-release-evidence: whatever runs attach to a release at once, replace
\* with --clobber or leave half replaced, every file there is true evidence.
AttachedEvidenceIsTrue ==
  \A v \in Releases : \A f \in Files :
    assets[v][f] # None => EvidenceIsTrue(assets[v][f].evidence, v)

\* sha256sum -c SHA256SUMS: no file is missing and all are of one set.
Verifies(files) ==
  \A f, g \in Files : files[f] # None /\ files[f].evidence = files[g].evidence

\* attach-release-evidence: the files of a release are those of one set, or there
\* are none, unless a run has begun to replace them that did not end, or did so
\* while another one was replacing them too.
EvidenceIsWhole ==
  \A v \in Releases \ torn : (\E f \in Files : assets[v][f] # None) => Verifies(assets[v])

\* "immutable version tags", "consumer-verifiable evidence assets": once a run has
\* published a release, and whenever none is going on, the files of the release
\* verify and its version tag denotes the image they name.
PublishedReleaseVerifies ==
  \A r \in Runs :
    pc[r] = "done" /\ (\A q \in Runs : release[q] = release[r] => pc[q] \in Ended) =>
      /\ Verifies(assets[release[r]])
      /\ \A f \in Files :
           tagged[VersionTag(r)] = assets[release[r]][f].evidence.image

\* verify_tag_digest fails a release only for a tag that another run moved since
\* this one pushed it, or when that was the release tag.
UndisturbedTagsVerify ==
  \A r \in Runs : pc[r] = "verify" /\ ReleaseTag(r) \notin disturbed[r] =>
    \A t \in todo[r] \ disturbed[r] : tagged[t] = digest[r]

=============================================================================
