# Verification of container-ee-wunder-devtools-ubi9

TLA+ models, TLC runs and TLAPS proofs about the programs of this repository:
what they promise, and why they keep it when processes overlap, commands fail,
files are replaced and somebody pulls the plug. `PROJECT.json` maps every
definition to the lines it translates, and lists the runs, the faults each
property detects, the hazards, the findings and the theorems.

    tlc -workers 2 -config PushReady.cfg MCPushReady.tla
    tlapm PushReadyProofs.tla

## 1. The system

The repository builds a container image with pinned developer tools. Most of its
logic is in the programs around that image.

| Part | State it keeps | Operations | Talks to |
| --- | --- | --- | --- |
| **Push-ready gate** `scripts/lit-push-ready.py` | evidence file in the Git directory; private directories in the checkout; tracking ref of the base | `push-ready`, `validate`, `review`, `verify`, `pre-push` | Git, the remote, the configured checks, its own other invocations through the clone |
| **Integration worktree** (same file) | two private directories one after the other, a worktree in each | create, merge, retry, run the checks, remove | Git, the checks |
| **Streaming secret scan** (same file) | a line, three pattern machines | split, mask, scan, piece by piece | the files and diffs of a plan |
| **Configuration and evidence** (same file) | `.lit/push-ready.json` of the checkout, the evidence file, a wall clock | loaded at the start, hashed at the end, compared by the hook | the developer's editor and branches |
| **Planning and review workspace** (same file) | a spooled patch, a temporary repository | `planned_change`, build a history-free tree, compare, scan | Git, the developer's editor; agent programs, forbidden by policy |
| **Exact-revision review** `scripts/materialize-exact-revision-review.py` | a review directory with a patch and its metadata | `materialize`, `bind-assets`, `verify` | GitHub, Git, protected assets |
| **Protected files** (same file) | one file, temporary files beside it | atomic write, bounded read | the file system |
| **Bounded Git output** (same file) | a child process and its pipes | read up to a limit, against a deadline | Git |
| **Release workflow** `.github/workflows/container-build-publish.yml` and two scripts | registry tags, signatures, release assets | build, merge, tag, verify, scan, sign, attach | the registry, Trivy, cosign, other runs |
| **Collection installation** `scripts/install_devtools_collections.py`, `scripts/devtools_collection_inventory.py` | a staging directory, the collections path | download with retries, install, compare with the lock | the Galaxy server, `ansible-galaxy` |
| **Go module prefetch** `scripts/download_go_modules.py` | the module cache of a build stage | download in three attempts, then an offline build | Go, proxies, the Dockerfile |
| Go tool builds, Galaxy content, curl downloads | files of the image | download, compare a checksum | proxies |
| Repository-quality profile `scripts/lit-ci-profile.sh` | none | fingerprint, container contract, fingerprint | Git, Docker |
| Evidence and provenance generators | documents below `dist` | validate inputs, write documents | the release workflow |
| Wrapper, entry points, validators, Dockerfile, managed workflows | none of their own | assemble a command line, set up, check one thing | Docker, GitHub |

What is hard in it, and a test hardly reaches:

- *Interleaving.* The gate reads HEAD, the branch, the tree, the base ref and the
  evidence at different instants of a run of many minutes, while the developer
  uses the same checkout and other invocations use the same clone. Release runs
  share a registry and nothing serialises them.
- *Partial failure.* The integration worktree is left through two `finally`
  clauses whose own commands can fail. A release moves four tags, then scans.
- *Crash.* A killed run leaves a worktree or a torn evidence file; a killed write
  must not leave a torn file.
- *Pieces.* A file is scanned for secrets in pieces, line by line and character by
  character; neither a line nor the text is ever looked at whole.
- *Stale reads.* The configuration that names the base and the maximum age is read
  before the checkout is proven clean, and hashed from the file long after. A change
  is fingerprinted, spooled and scanned file by file. The clock that ages evidence
  may be set.
- *Boundaries.* The byte limit of a diff is exclusive and found by one sentinel
  byte; downloads stop after three attempts and must not retry a local error.

What makes each part correct:

- gate: what leaves the clone through the hook passed the checks, merged with a
  base that is fresh; nothing else is certified by any interleaving; an
  undisturbed run is not refused by its own re-reads;
- configuration, evidence and clock: what the hook accepts was made under the
  configuration of the pushed commit and is no older than that allows;
- review workspace: what was scanned is what was planned;
- integration worktree: a verdict means an unmodified worktree and nothing left
  behind; errors are not lost; nothing foreign is deleted;
- scan: however a text is cut, the result is that of a search in the whole text, and a
  diff that passes its three scans adds no secret and has no key anywhere;
- review: what `verify` accepts is what is on the disk and was live; a failing
  command changes nothing; a bound review stays as it is;
- files: writes and reads are atomic; bounded output is complete or refused;
- release: public tags denote complete images of one build, what is signed was scanned,
  attached evidence is true and one set;
- prefetch: success means the offline build finds every module;
- installation: only verified archives, and exactly the locked set.

## 2. The modules

An action is one handler or one system-visible step of the source; a guard is
the condition or the early return, an alternative is the error path. Data is
abstracted to what the properties tell apart. Definitions marked *fault* in a
comment are the plausible bugs that the properties were tested against; no
action uses them.

### PushGate, PushReady, PushReadyProofs, MCPushReady

`PushGate` is what the gate promises: there is a set of certified pairs (base,
head); this clone pushes only the head of a certified pair, to a feature branch,
fast-forward. Everything else may happen on the remote.

`PushReady` is `main` of `lit-push-ready.py`, step by step. `Procs` are
invocations that overlap in one clone; `pc[p]` is the next read or write of an
invocation. Its state is the repository (`localTip`, `branch`, `work`), what
invocations share (`baseRef`, `remote`, `dirs` and `leaked` for the worktrees in
the checkout, `evidence`) and the local variables of an invocation (`orig`,
`chg`, `integ`, `payload`, `upd`). `phase` says which of the repeated calls of
`planned_change` an invocation is in. `MoveHead`, `SwitchBranch`, `EditWork`,
`AdvanceBase`, `OtherClone`, `AskRemote`, `StoreAnswer`, `RemoveLeaked` and
`ExpireEvidence` are the world. A fetch is three steps, as in Git: the remote answers
(`Advertise`), the local ref is read (`ReadTrackingRef`), and if it still has that value
it is set to the answer, however old that is, because the refspec is forced (`Fetch`).
The developer's own `git fetch` has a forced refspec too; it is the remote's answer
(`AskRemote`, kept in `answer`) and, at any later moment, its storing (`StoreAnswer`). A
push is a compare-and-swap of the remote branch. Writing the evidence is two steps,
truncation and content, because the code uses `write_text`. A worktree of another
invocation is an untracked directory of the checkout, which every status and every
fingerprint sees. `Interrupt` is a failure or a kill at any step; both it and a failed
check may leave a worktree, as a failing `post-checkout` hook does.

`passed`, `pushed`, `seen`, `late`, `calm` and `ready` are history variables: `seen` is
the base tips the remote had since a command started, `late` the commands under which an
answer from before that was stored between their fetch's look at the ref and their read
of the base.

`MCPushReady` has three parts. They differ in the clone they start from and in what
`Within` bounds: *overlap* (two runs of the gate, then a third), *calm* (any two of the
five commands in a clone behind its remote) and *fetches* (a reviewed commit, two commands
that fetch and a developer who fetches while the base advances). `PushGate` starts with
any certified pairs, because the last part starts after a successful run.

### EvidenceLife, EvidenceLifeProofs, MCEvidenceLife

What `PushReady` takes as part of a commit, the configuration file, and as a single
step, the expiry of evidence, is a system of its own here. One command at a time:
`push-ready` loads the configuration (`LoadConfig`), proves the checkout clean
(`RequireCleanHead`), plans and checks against the base that configuration names
(`PlanChecks`, `ExecuteChecks`, `PlanReview`), and writes a document with the hash
of the file as it is *then*; the hook loads, proves, measures the age on the wall
clock, plans and compares. `EditFile` and `SwitchBranch` are the developer; `Tick`
is true time, `SetClock` sets the wall clock by up to `Skew`, so that the
boundaries of `verify_evidence` (exactly the maximum age, exactly the tolerance in
the future) are reached. `still` and `calm` remember that nothing moved during the
command, or since the run that wrote the evidence; `age`, `back` and `ahead` what
the clock hid.

### PlannedReview, ReviewProofs, MCReviewSafety

`planned_change` and `sanitized_review_workspace` file by file: every fingerprint
and the patch read one path after the other (`ReadPath`), the status comes last,
and the developer edits between any two reads. The patch is applied to the base in
a repository of its own; the result is compared with the integration tree if the
status was empty, committed without parents, fetched into the workspace, proven
history-free and scanned. `Merged` and `Conflicts` are Git's three-way merge path
by path. What the scans refuse is the constant `Unsafe`, so that the review shares nothing
with the scan below; `MCReviewSafety` runs one after the other.

### IntegrationWorkspace, IntegrationWorkspaceProofs

One call of `execute_integration_checks`, which `PushReady` takes in a few steps,
with every command of it: the private directory, the merge worktree, the single
retry after an index race, the clean-up, the synthetic commit, the second
directory and the checks. `stage` tells the two halves apart, because they share
the clean-up. `error` is the set of causes the exception in flight names,
`primary` the first of them. Every command may fail by itself, `Kill` may happen
anywhere, and `Intrude` lets another program write into, remove or replace the
directories up to `MaxIntrusions` times. `parent` and `tree` say whose directory
a name denotes, `bound` and `known` the identity the call has remembered.

Making and removing a directory are the calls they are in the code, and others run
between them: `CreateParent` (`mkdtemp`), `StatParent` (the identity; when that fails the
`finally` clause compares with `None` and removes nothing), `InspectParent`,
`CompareUndone` and `RemoveUndone` for the clean-up of the constructor, `CompareParent`
and `RemoveParent` for `remove_integration_directory`. `replaced` is the step before
which a foreign directory came. The second `git worktree add` runs with the hooks of the
clone, so it may fail and have added the worktree. Identities are not reused, there is
one foreign directory at a time, and `git worktree remove`, being Git's, is one step.

### AtomicFile, ProtectedWrite, ProtectedWriteProofs

`AtomicFile` is a register: a write takes effect at one instant or never, a read
sees one instant. `ProtectedWrite` has writers that inspect, create a temporary
file, write pieces of which the disk may store something else, read back,
compare and rename, and readers that open, stat and read. Each may fail at any
step or be killed. The refinement maps a rename to the abstract write and an
open to the abstract read.

### ExactRevisionReview, ExactRevisionReviewProofs, MCExactRevisionReview

`materialize`, `bind-assets` and `verify`, one after another in any order on one
directory, each step by step. Files are atomic here, by `ProtectedWrite`; a write
may still report a failure after it took effect, as closing the directory can.
The pull request, the assets and the directory change between any two steps, up
to `MaxMoves` times. `verify` makes a review of its own in a private directory;
that one is represented by `pair` and `copy`. The commands take the length and the success
of a diff from the constant `Reviewable`; `MCExactRevisionReview` has a call of
`BoundedGitOutput` before them, with which they share no variable.

### LineSplitter, StreamingPatterns, SecretPatterns, StreamScan, ReviewProofs, MCStreamScan

`LineSplitter` is `split_text_fragments` and the line that `filtered_scan_chunks` puts
together from it: a piece of the text is read (`ReadPiece`), a fragment has no break yet
(`Continue`), or its line ends at a CR that was waiting (`EndPending`), at a break
(`EndAtBreak`) or at the end of the text (`EndUnterminated`). One step is one fragment,
and nothing is recursive. Beside it stand the ends of the lines of a whole text (`Ends`).

`StreamScan` extends it with what is done to a fragment (`KeepFragment`) and to a line
(`EndLine`) in the loop of `filtered_scan_chunks`, for a file of the workspace and for a
diff: the section, the two paths, the hunk and its two line numbers (`AfterLine`), the
place a line is looked up at (`PlaceOf`), and the four exceptions (`DocumentedLine`,
`RetiredLine`, `RemovedSecret`, `PackerLine`). What is left goes through a second scanner.
`streaming_review_safe` scans a diff for keys without masking what is removed, then for
all secrets, then for `.npmrc` authentication with nothing documented: `ScanAgain`
starts the next scan, `Refuse` and `Accept` end it. The same lines, places and exceptions
are also defined of the text as a whole (`HunkOf`, `Place`, `Exempt` and the rest), of any
lines given. What an accepted diff must satisfy (`IsClean`) is asked of `GitLines`, the
lines of the text as Git ends them, at LF, and not of the lines of the scan, which also
end at a bare CR (`BareBreak`): where the two agree is what the code has to get right,
where they differ is a finding.

What a character does to a scanner and what the scanner has found at the end are constants
of `StreamScan` (`advance`, `finish`), and so is the search it stands for (`FoundIn`);
`feed` is the loop over a fragment. `StreamingPatterns` has what the code gives for them: the
compilation of a parsed regular expression to a finite-state machine, its step and the
scanner, and `Search`, what a search in a whole text means. `SecretPatterns` has the
patterns, and `MCStreamScan` puts them together.

The patterns of the gate are represented by four that use each construct it uses
(classes, optional parts, loops, counted repetitions, branches, all four
assertions), over five kinds of characters: two letters, punctuation, CR, LF. CR
and LF stand for the other line breaks too. A diff has its signs as characters, and
the beginning of a header, with its path or its line numbers, as one. Matching of a
digest is equality.

### BoundedGitOutput

The loop of `git_output`: how much one read asks for, what is kept, the end of a
stream, the deadline inside and after the loop, the reaping in `finally`. Git
writes as it likes and may exit while a descendant keeps the pipe open. The diff it
delivers is what `ComputeDiff` of `ExactRevisionReview` takes as one step; the proofs
about both are in `ExactRevisionReviewProofs`.

### ReleasePublish, ReleasePublishProofs, MCReleasePublish

The jobs of the publishing workflow for several runs: two platform builds, the
index, four tags pushed one by one, the digest read back from the release tag,
the tags compared in the script's order, the scan, the SBOM, the signature by digest, and
the assets attached file by file. A run is of any release, also of one another run is
publishing: the workflow has no concurrency group.

Scan and SBOM are given the release tag and no platform, so they take, of the index it
denotes then, the image for the platform of the runner (`PlatformOf`). The digests of the
two builds are artifacts of their own: `ExpireDigest` takes one of them at any moment
before it is read, or between attempts. `Fail` ends a job at any step; `Rerun` is
GitHub's re-run of all jobs, of the failed ones, or of one job, whose other digests may be
of an earlier attempt (`wholes` are the attempts that ran every job). An upload with
`--clobber` is what `gh` does: it lists the assets once (`ListAssets`), deletes one by
its identity (`DeleteAsset`) and uploads the file (`UploadAsset`), so that a failure leaves
a release without a file or with files of two sets.

History: `disturbed` is the tags another run moved after this one pushed them
(`Watched`), as long as that can matter; `swapped` is which of scan and SBOM may have read
another run's image, and evidence carries it; `contested` is the indices signed by such a
run; `alone` and `torn` say which releases may have files of more than one set.

### CollectionInstall

The download loop with its three attempts, the staging directory, the installer that
installs some or all of what it is given, and the inventory check. `Responses` is
everything a server can send: a wrong or missing length, a short, a long or another body.
An error has an origin and a look. The origin is the step that fails: the request or a
read (`NetworkFails`), a rejected artifact (`Reject`), a local operation (`LocalFails`). The
look, temporary or not, is what the classification sees of it, and a local error may look
like anything. `network` is `network_operation`: set where a network operation fails,
reset by each that ends. A file that cannot be closed after a failed read replaces the
error, as part of `ReadFails`.

### GoModules, ImageBuild, ImageBuildProofs, MCImageBuild

`GoModules` is the prefetch: an attempt asks for `all` or for the pins that failed;
each module is stored or fails in a way the script recognises (zip, `.mod` file), does
not recognise, or Go tells on stderr only; Go may also be killed. `Reach` is what Go
finds of the module graph when it cannot read some `go.mod` files. `BuildOffline` is
the rest of the stage under `GOPROXY=off`. `ImageBuild` composes it with
`CollectionInstall` as the Dockerfile does: a stage starts only when the one before
succeeded.

## 3. The runs

`CHECK_DEADLOCK FALSE` stands in every configuration because each of these
systems may really stop: commands end, and bounds on the world run out.

Some runs check two or three small instances at once, side by side (`part` in
`MCPushReady`) or one after the other (`MCReviewSafety`, `MCExactRevisionReview`). In the
first case they are different behaviours, in the others they have no variable in common,
so each part is checked as it would be alone.

| Run | Question | Bounds, and why they are enough |
| --- | --- | --- |
| `push_ready` | evidence is earned, what is authorised is certified and fresh, refinement of `PushGate`, a leak fails closed, calm runs and hooks are accepted | 2 invocations. *Overlap:* 3 commands of which the first two overlap, 1 move: two runs write the evidence, a hook reads it, the base advances. *Calm:* all 5 commands, 2 started, no moves, from a clone behind its remote, with a policy change and a conflict among the commits. *Fetches:* 2 overlapping commands that fetch, on reviewed evidence, and 2 moves: the developer asks the remote, the base advances, and the answer is stored at any step of a hook. That more moves change nothing is shown by the theorems |
| `push_ready_stale` | *violated:* the base is never stale | the third part with one command |
| `evidence_life` | configuration and age of accepted evidence, a steady hook is accepted | 3 moves, 2 settings of the clock by up to 2, 4 time units, maximum ages 2 and 3, tolerance 1: edit, restore and edit again; evidence at, below and above its age and in the future |
| `integration_worktree` | verdicts, errors and clean-up of the worktree, foreign directories | 3 intrusions: replace, put back and write; none is enough for the clean-up |
| `protected_write` | the file is atomic | 3 writers, 1 reader, 2 pieces: a reader can be overtaken twice, a write can stop half way |
| `exact_revision_review` | bounded output is complete, legal or refused, and ends; what verifies is true, was live, and is kept | output: limit 5, reads of 3, pipe of 4, outputs to 8: below, at and above the limit, a read that ends at it. Review: 4 commands, 2 changes, 2 bases and heads, 2 assets: materialize, bind, verify and one more |
| `review_safety` | lines, places, exceptions and findings are those of the whole text; an accepted diff is clean; the reviewed tree is the planned one, a steady review is accepted | every file of at most 5 characters, every way of cutting it, 3 sets of documented lines: a match needs 3 or 4 characters, so that one can be cut, be preceded by a failed one, or span two lines. 478 diffs, in pieces of 3: one file with two changed lines or two files with one each, of 11 lines that are or look like secrets, halves of a key, references and headers; lines that end with CR LF, and lines with a CR of their own; also a new file, a malformed hunk and one without a file. Before it starts, what the theorems suppose of scanners and patterns is evaluated for any text of at most 5 characters and any line of at most 4 between empty ones and of at most 3 between two of at most 1. Review: 2 paths (one tracked, one untracked), 3 contents, 4 edits, enough to undo an edit on both sides of the patch |
| `stream_scan_bare` | *violated:* only what a diff removes is masked | the diffs with a CR within a line |
| `release_runs` | tags, signatures and evidence | 2 runs of 2 releases or of one, 3 attempts in total, 2 assets: one run overtakes another at every step, fails and is repeated in each way; one file is there and the other not, or of another set. The two releases are symmetric |
| `release_platforms` | *violated:* every image that is signed was scanned | 1 run |
| `release_again` | *violated:* a published release verifies | 2 runs of one release, 1 attempt each |
| `image_build` | whole prefetch, only verified archives, the locked set, no retry of a refusal, every build ends | 3 modules of which one is named only by another's `go.mod`, 2 artifacts, 2 pieces, 3 attempts each |

### Fairness

- `exact_revision_review`, for a call of `git_output`: the caller runs and the clock ticks.
  Git is not fair: it may hang, and so may a descendant. That the call ends is the
  deadline's doing.
- `image_build`: `WF_buildVars(BuildNext)`; a request for a collection has a timeout of
  60 seconds and the installer one of 900. The prefetch gives Go no timeout of its
  own; Go ends or `timeout-minutes` of its job ends the build. The server and the
  proxies are free to fail for ever.

No run says that a command of the gate ends: `run` gives most of its Git commands no
timeout, so nothing in the code makes that true of a Git that hangs.

## 4. What is proved

### The gate (`PushReadyProofs`)

For any sets of invocations, commits and branches, any ancestry, policy and
merge relation, any number of moves and commands:

| Theorem | Statement |
| --- | --- |
| `TypeCorrect` | `Spec => []TypeOK` |
| `EvidenceTruth` | `Spec => []EvidenceIsEarned` |
| `AuthorisedTruth` | `Spec => []AuthorisedIsCertified` |
| `FastForwardOnly` | `Spec => []PushesAreFastForward` |
| `Implementation` | `Spec => ImplementsGate` |
| `LeaksAreSeen` | `Spec => []LeakFailsClosed` |
| `BaseFreshness` | `Spec => []BaseIsFresh` |
| `CalmRunAcceptance` | `Spec => CalmRunIsAccepted` |
| `ReadyHookAcceptance` | `Spec => ReadyHookIsAccepted` |

The assumptions: the base is a branch, a detached HEAD is not, the all-zero id is no
commit, and the value of a variable that is not set is no invocation
(`ConstantsAssumption`); ancestry is a partial order, because the id of a commit covers
those of its parents (`AncestorAssumption`); an absent and a truncated evidence file are
not documents (`FilesAssumption`).

`EvidenceIsEarned` is not inductive: a run builds its document many steps before
it writes it, and the hook reads a document many steps before it authorises a
push, while the file may have been rewritten. The inductive invariant `IInv`
therefore says, for each invocation and each of its steps (`AtStep`), which local
variables are set (`HoldsData`), in which phase the step can occur (`InPhase`),
and that what it holds is earned (`IsEarned`): after the checks its integration
is in `passed`, a document it holds records such an integration, after the
comparison that integration is the pair of base and head in the document, and at
the push the update is for that head. `passed` only grows, so other invocations
disturb none of it (`StepOfOne`); the world changes no local variable. The proof
has one lemma per kind of step, then one case per action. The refinement maps
`passed` to `certified`; only the end of the checks and `SendPack` are not
stutters, and the latter is an abstract push because `IsEarned` holds of its
step.

`BaseIsFresh` needs an invariant of its own (`Freshness`), since the tracking ref is
shared: after a command has fetched, another fetch of the clone may store an answer that
the remote gave long ago. It says of each command that fetches, as long as its base is the
one it fetched for (`FirstUse`), which steps lie ahead of it (`PathAt`), and that the ref
until the base is read from it, and then what was read, is among the tips the remote had
since the command started (`BaseAt`), unless the command is in `late`. Its own fetch
establishes that, also when the ref was up to date already; any later storing either
keeps it or makes the command late (`StoringKeeps`), and only between the fetch's look at
the ref and the read of the base, which is a local value from then on. So the exception is
no wider than this window, for any number of commands and fetches; the run
`push_ready_stale` shows that it is needed.

The two acceptance properties are about what an undisturbed invocation knows. `Calm` says,
at every step of it, that what it has read is still what is there (`ReadsAreCurrent`,
`OriginIsCurrent`), that its own worktrees and nothing else lies in the checkout
(`Quiet`), and, after a successful `push-ready`, that the evidence is the document a hook
would compare with (`Certified`, `Current`). So each comparison with a second reading
succeeds, and what is left are the decisions (`RefusalsAreDecisions`).

### Atomic files (`ProtectedWriteProofs`)

For any sets of writers and readers and any payload size:

| Theorem | Statement |
| --- | --- |
| `TypeCorrect` | `Spec => []TypeOK` |
| `FileIsWhole` | `Spec => []TargetIsWhole` |
| `ReadingsAreWhole` | `Spec => []ReadsAreWhole` |
| `NothingIsLeft` | `Spec => []TemporaryIsRemoved` |
| `FailureChangesNothing` | `Spec => []FailedWriteKeepsFile` |
| `Implementation` | `Spec => ImplementsAtomicFile` |

It assumes that the writers, the readers, the first file and the absent file are
different things. `TargetIsWhole` is not inductive, as a rename would have to
know that its file is whole and a later write that its own file is not the
target. `IInv` adds what a writer has reached (`WriterInv`: whole before the
rename, committed only after it), that the name denotes the first file or a
committed one (`FileInv`), and the same of what a reader has open
(`ReaderInv`). Then every inode a reader could see is whole, so the refinement
mapping is the identity on what it shows (`ViewIsDirect`), a rename is an
abstract write and an open is an abstract read.

### Image build (`ImageBuildProofs`)

For any lock, any finite responses and any number of attempts, any module graph and
anything Go reports:

| Theorem | Statement |
| --- | --- |
| `WholePrefetch` | `GoSpec => []PrefetchIsWhole` |
| `TypeCorrect` | `Spec => []TypeOK` |
| `VerifiedOnly` | `Spec => []InstalledIsVerified` |
| `LockedImage` | `Spec => []BuiltImageIsLocked` |
| `FinalRefusal` | `Spec => []RefusedIsFinal` |
| `BuildPrefetches`, `BuildInstalls` | `BuildSpec => GoSpec`, `BuildSpec => Spec` |
| `OrderedStages` | `BuildSpec => []StagesInOrder` |
| `BuildIsSafe` | `BuildSpec => []`(the four properties) |

`Spec` is that of `CollectionInstall`; it assumes that `None` is neither an artifact nor
an archive. Its invariant says how far a download has come (`Reading`), that everything
staged and no longer being written is verified (`Staged`), and that a refusal leaves the
loop (`Refusal`): by then `network_operation` is off, because every network operation
before a local one has reset it (`Reading`), so whatever the error looks like it is not
tried again. `GoAssumption` says that the coordinate `all` is no set of pins; the
invariant, that all the prefetch knows of is in the cache or about to be asked for
(`Accounted`): an attempt stores what it asked for or lists what failed, and a retry
asks for exactly that. Errors that Go only writes to stderr are why it needs
`diagnostics`. A step of the build is a step of one stage and leaves the variables of
the other alone, so that it implements both, and what is proved of them holds of it.

### Integration worktree (`IntegrationWorkspaceProofs`)

For any number of intrusions:

| Theorem | Statement |
| --- | --- |
| `TypeCorrect` | `Spec => []TypeOK` |
| `EmptyVerdict` | `Spec => []VerdictLeavesNothing` |
| `PristineVerdict` | `Spec => []VerdictIsPristine` |
| `MergeErrors` | `Spec => []MergeErrorIsReported` |
| `CleanFailure` | `Spec => []FailedCallCleansUp` |
| `ForeignStays` | `Spec => NothingForeignIsRemoved` |

`Exceptions` says where an exception can be in flight, that it names its first cause as
long as the call is in its merge half, and after which failures no `finally` clause looks
into the directory (`Unguarded`). `Written`: what the checks wrote is in the worktree and
not in the fingerprint taken before. `Remembered`: nothing is known of a directory before
it was made. `Came`: a foreign directory whose identity the call remembers came before the
identity was taken, and one that was compared already came after the comparison
(`BlindSteps`), which is `ForeignStays`.

`CleanFailure` is about a call that nobody disturbs and needs `QuietPlace`, what such a call
has in the checkout at each step. It is an equivalence: something stays exactly if the
identity of a directory could not be read, the merge worktree could not be added (the hooks
directory is in the way), or the second one was added and reported as failed
(`LeavesDirectory`); and `ToRemove` says the same of the moment before the `rmdir`.

### Evidence and its configuration (`EvidenceLifeProofs`)

For any branches, configurations, edits, clocks and numbers of moves:

| Theorem | Statement |
| --- | --- |
| `TypeCorrect` | `Spec => []TypeInv` |
| `OneSwitchTheorem` | `Spec => []OneSwitchIsCaught` |
| `AgeTheorem` | `Spec => []AuthorisedIsYoung` |
| `SteadyTheorem` | `Spec => []SteadyHookIsAccepted` |

`TypeInv` also says which step holds a configuration, a plan and a document
(`Holds`). The invariant on top of it: a command that nothing disturbed holds the
configuration of HEAD (`StillIsOwn`), a document written so is its own
(`StillDocumentIsOwn`), and truth, wall clock and settings add up
(`ClockIsAccounted`). The argument for `OneSwitchIsCaught` has two halves: if the
run was undisturbed the document is right and the hook can only confirm it; if the
hook was, what it compares with is right.

`SteadyTheorem` has a second invariant (`Steady`): evidence from a calm run is what the
hook would plan (`SteadyDocument`), its dates are in order (`DatedInOrder`), and the wall
clock is true time, plus what it was set forward, minus what it was set back
(`ClockIsExact`), with which a refusal by age is one of the two in the property.

### Planned and reviewed tree (`ReviewProofs`)

For any paths, contents and trees and any number of edits:

| Theorem | Statement |
| --- | --- |
| `PlannedReviewed` | `Spec => []ReviewedIsPlanned` |
| `SteadyReviewAcceptance` | `Spec => []SteadyReviewIsAccepted` |

`ReviewedIsPlanned` counts edits, so its invariant does, path by path. A patch that
differs from the planned tree took an edit before the patch read that path and one after
it (`TornPatch`). With a clean status, a planned tree that is not HEAD took an edit
before and after each of the two fingerprints read the path (`HiddenChange`), and a patch
of the wrong kind that escaped the comparison with the integration tree, one before the
status and one after it (`HiddenStatus`): four in both cases. Otherwise the tree that was
scanned is the merge of HEAD, which is then the planned tree (`PassedIsPlanned`). `Still`
is the same for no edits at all: everything read is the checkout, so no comparison fails.

### Streaming secret scan (`ReviewProofs`)

For any alphabet and texts, any way of reading them in pieces, any documented lines,
fixtures, paths and headers:

| Theorem | Statement |
| --- | --- |
| `LinesTheorem` | `Splitting => []LinesAreExact` |
| `ScanReadsLines` | `Scanning => Splitting` |
| `ScannedLinesTheorem` | `Scanning => []LinesAreExact` |
| `ScanTheorem` | `Scanning => []ScanIsExact`, if `ScannersAreExact(Seq(Alphabet))` |
| `AcceptedDiffTheorem` | `Scanning => []AcceptedDiffIsClean`, if also `FoundWithinLines(Seq(Seq(Alphabet)))` |

The two hypotheses say what the scan rests on. `ScannersAreExact`: a machine that reads a
text from its start has found, at its end, what a search would. That it makes no
difference where the text is cut into fragments is proved, whatever the machine does with
a character (`FedInTwo`). `FoundWithinLines`: what is found in a line is found in a text
with this line, so no pattern looks beyond a line break for a reason not to match. Both
are about the patterns and the machine compiled from them, which are recursive, for every
text; TLC evaluates both for short texts each time `review_safety` runs. `LinesAreExact`
needs neither.

The assumptions on the constants are facts of the code: `diff --git `, `--- `, `+++ ` and
`@@` are distinct and none is a sign of a line (`HeadersAssumption`); neither `None` nor the
object that stands for an ungoverned path is a path in a manifest (`PathsAssumption`); the
placeholder and what follows a sign are text (`AlphabetAssumption`).

`SplitInv`: the characters yielded so far are the lines that have ended and the present
one (`LinesSoFar`), and the generator stands behind a break, in a line, or at a CR of
which it does not know whether an LF follows (`BetweenBreaks`). Each step moves it to the
next end of a line or to none, and ends are numbered in their order (`EndsInOrder`,
`NextEnd`).

`ScanInv`: with `complete` the lines so far, `current` is what their scanners make of the
fragments of the present line, `diff` is where a reader of the whole of `complete` would
be (`StandsAfter`), and `total` has read the joined lines with the exempt ones masked.
The core is `StandsAfterOneMore` and `MaskedIsExempt`: the last header, hunk and section
before a line, and the number of lines since, change with one more line as the loop
changes its variables; a path that nobody looks up may be forgotten (`Looked`); and then
the loop masks a line exactly if it is exempt by its place in the whole text.

`Cleared`, for the acceptance: a later scan was only started by a clean one. What that
one said was of lines that have since been read again; they are the same because a text
has one splitting only (`SplitIsUnique`). What a scan did not find it exempted
(`FoundOrExempt`), and its exemptions are those the property allows. All this is about the
lines of the scan. Those of Git are a splitting too if the text has no bare break
(`GitLinesAreSplit`), and then, again by uniqueness, the same one.

Induction over lines is by the least counterexample (`LeastElement`), which needs no
operator as a parameter; `Joined` is a recursive function, so it stays in reach.

### Exact-revision review (`ExactRevisionReviewProofs`)

For any commits, assets, and numbers of commands and changes:

| Theorem | Statement |
| --- | --- |
| `TypeCorrect` | `Spec => []TypeOK` |
| `VerifiedTheorem` | `Spec => []VerifiedIsTrue` |
| `LiveTheorem` | `Spec => []ReviewWasLive` |
| `FailureTheorem` | `Spec => []FailedCommandChangesNothing` |
| `BoundTheorem` | `Spec => BoundReviewIsKept` |

Each step belongs to a command (`CommandOfStep`). `LiveWasSeen` carries the second
answer of GitHub to the end; `VerifyInv` says, as long as nothing else touched the
directory or an asset, that the document and the digests held are those on the disk,
so that after both comparisons the whole workspace is the expected one; `FileInv` that
a command has changed nothing before it writes, and that what it writes over is not
bound. The last is also why a bound review is kept.

### Bounded output (`ExactRevisionReviewProofs`)

For any limit, any size of a read and of the pipe, any output of Git:

| Theorem | Statement |
| --- | --- |
| `OutputTypeCorrect` | `OutputSpec => []OutputTypeOK` |
| `CompleteOutput` | `OutputSpec => []OutputIsComplete` |
| `LegalOutput` | `OutputSpec => []LegalOutputIsAccepted` |
| `GitEnds` | `OutputSpec => []GitIsReaped` |

That the output returned is all of it rests on facts no single step can see: below
the limit the caller has kept every byte it took, and the limit counts as exceeded
exactly when it took that many (`Kept`); a stream not watched any more is closed
and was drained (`Drained`); a child that ended well has written everything, and it
is killed only when the limit is exceeded or the call is over (`ChildEnd`). The
sentinel byte enters where a read returns nothing: a read asks for at least one
byte, so nothing means the end.

### Releases (`ReleasePublishProofs`)

For any runs, releases, files and numbers of attempts:

| Theorem | Statement |
| --- | --- |
| `TypeCorrect` | `Spec => []TypeOK` |
| `TaggedTheorem` | `Spec => []TaggedIsComplete` |
| `UndisturbedTheorem` | `Spec => []UndisturbedTagsVerify` |
| `SignedTheorem` | `Spec => []SignedIsScanned` |
| `EvidenceTheorem` | `Spec => []AttachedEvidenceIsTrue` |
| `WholeTheorem` | `Spec => []EvidenceIsWhole` |

The invariant has a part for a run alone (`RunInv`) and three for what runs share.
`RunBuilds`: the images of a run are its own, and those of its present jobs were built
since all jobs were last run, so that two of them are of one build whatever expired and
was built again. `RunPushes`: only verified images reach a tag, and a tag it pushed denotes
them unless it is disturbed. `RunReads`: the release tag denotes the digest until another
run moves it, and a scan that read it before that was of the digest. `RunTells`: the
evidence a run holds is sound before it signs, and its image is signed after.

`TagsInv` is about the registry: the run whose images a tag denotes has started, and a new
whole attempt of it is newer than they are. `RecordInv` is about signatures and evidence:
no release of a started run changes, and `scanned` and `signed` only grow, which is why
attached evidence stays true. `PageInv` is about the release page: a run that attaches
alone has uploaded what it is done with (`AloneHolds`), and a release somebody attaches to
is torn (`AttachedIsTorn`). Frame lemmas (`TagsFrame`, `RecordFrame`, `PageFrame`,
`OthersKeep`) say which steps leave which of the parts alone.

### Only model-checked

- Liveness (`EveryCallEnds`, `EveryBuildEnds`) is beyond the prover.
- `ScannersAreExact` and `FoundWithinLines` of the machine that `StreamingPatterns` compiles:
  its compiler and its closure are recursive operators, which the prover cannot reason about.
  They are evaluated for short texts, and `ScanIsExact` and `AcceptedDiffIsClean` are
  model-checked with that machine.

Every other property of a passing run is proved. Where a type invariant is proved, the runs
do not check it again; `GitIsReaped`, `TemporaryIsRemoved`, `ReadsAreWhole` and
`PushesAreFastForward` are stated by theorems only. The inductive invariants were checked
by TLC on small instances before they were proved.

## 5. What the runs found

- **`push_ready_stale`**: `refresh_authoritative_base` fetches the base so that checks
  "never use stale state" (lit-push-ready.py:1728), but nobody uses the commit it returns;
  the shared tracking ref is read again later (2127). A `git fetch` of the clone that the
  remote answered before the base advanced may store its answer in between, because both
  refspecs are forced, and the hook then stands on the old base. `BaseIsFresh` shows that
  this window is the only one.
- **`stream_scan_bare`**: the scan of a diff ends a line where `str.splitlines` does (422),
  Git only at LF. What follows a CR within an added line begins a line of the scan; when
  it begins with `-` it counts as removed, and it is masked and not found (775, 800). For
  the files the scan of the whole workspace reads, that one still refuses the content.
  `AcceptedDiffIsClean` shows that without such a CR an accepted diff is clean.
- **`release_platforms`**: Trivy is given an index and no platform
  (devtools-container-release-verify.sh:101), so the arm64 image of every release is signed
  without a scan, although RELEASE.md:46 lists scanning as part of container validation.
- **`release_again`**: RELEASE.md:42 calls version tags immutable. A second run for a
  published version moves its tag to new images; when it then fails, the attached evidence
  names an image the tag does not denote. A run that fails between two files that `gh`
  replaces leaves files of two sets as well.

Short of a violated run, modelling also showed:

- A worktree that could not be added, or identified, leaves its directory in the checkout. In
  the merge half the directory is not empty: `disabled-hooks` is in it, and no clause
  removes that; in the check half the worktree itself may be in it, because a
  `post-checkout` hook may fail after the checkout. Two empty directories are nothing `git
  status` lists, so later runs are not refused by them; a worktree is, and they are
  (`LeakFailsClosed`).
- `isolated_integration_directory` promises to "clean up only its verified inode" (2724);
  `remove_integration_directory` compares (2703) and removes by name (2712) in two calls,
  and an empty directory of somebody else that comes in between is removed. `NothingForeignIsRemoved` shows that there are two more such moments, and
  that a directory with anything in it stays.
- When a read of a download fails and closing the file fails too, the error of the close is
  what `download_artifact` classifies, with `network_operation` still set
  (install_devtools_collections.py:83): a local error may be tried again. No byte of that
  attempt is used.
- `NPMRC_AUTH_PATTERN` finds its keys after `+` and at the beginning of a line, so that an
  unchanged line of a diff (after its space) counts and a removed one does not, unless
  the key follows a `:`; only then has the masking of removed lines something to mask.
- Scan and SBOM go by tag, the signature by digest. When two runs of one release
  overlap, an index can be signed whose image for the runner was not scanned either: the
  exception `contested` of `SignedIsScanned`, and `swapped` in evidence, is exactly this
  case. Two runs that attach at once, or one that stops half way, mix two sets of files
  (`torn`), each of which is true.
- It takes four edits of a clean checkout, two on either side of the patch, or two of a
  dirty one, to have a tree reviewed that was not planned (`Needed`). The dirty
  checkout is cheaper since its tree is not compared with an integration tree.
- It takes a change of the configuration during `push-ready` and another one during
  the hook to have evidence accepted for a base the pushed commit does not name.
- download_go_modules.py:123-124 speaks of the whole module graph. When the first
  attempt cannot read a `go.mod`, what only that file names is not asked for by the
  retries (`hidden`); the offline build after it fails if it needs such a module.

## 6. What is not modelled

- The commands `policy`, `instructions` and `sync-instructions`, the `--base` override and
  the bootstrap of the secret-fixture manifest: read-only, or a variant of the
  modelled commands.
- The agents: local egress is prohibited by the repository's policy, and their
  answers are recorded as reviews without authority. `PlannedReview` assumes them
  disabled, as in the repository's configuration.
- What decides which lines of a diff may be masked: the secret-fixture manifest and the
  authentication of a retired fixture, both given as constants; the quoting of paths in
  headers; the parser of regular expressions (Python's own).
- The order of publishing and scanning as a fault: the workflow moves the public
  tags before it scans the image, by design, and they stay when the scan fails.
- `container-build-go-tool.sh` and `container-download-verified.sh`: straight-line, a failure
  ends the build. `install-galaxy-content.sh`: nothing in the repository runs it.
- The inputs of the evidence and provenance generators: one step of the build job.
- The validators, wrappers, entry points, the rest of the Dockerfile and the managed
  workflows: sequential, without state that outlives them.
- An exchange of the temporary file between its comparison and its rename by a
  program that guesses a random name of 128 bits; two directories with one inode number.
- Two `bind-assets` of one review at the same time; commands of `ExactRevisionReview`
  run one after another.
- In `PlannedReview`, an error of the clean-up of a temporary directory after the
  workspace was written: the review is refused although it passed.
- That a failing close of the directory after a rename reports a failure although the
  file is new is modelled, and an exception of `FailedWriteKeepsFile` and
  `FailedCommandChangesNothing`: the code has no way to take the rename back.

## 7. Plan

What is left, in this order:

1. `retired_source_fixture_lines` and the secret-fixture manifest as what decides the
   constants of `StreamScan`; `unquote_diff_path` against the quoting it undoes.
2. `QualityProfile`: `lit-ci-profile.sh`, what its two fingerprints see.
3. `ReleaseEvidence`: the inputs the generators accept, against what the workflow
   hands them.
4. Proofs: `StreamingPatterns` with recursive functions in place of operators, so that the
   step of the machine, and from it `ScannersAreExact`, can be proved from the edges; the
   theorems of one component used in those of another, where the models abstract from
   it: the atomic file in `ExactRevisionReview`, the integration worktree and the reviewed
   tree in `PushReady`.
