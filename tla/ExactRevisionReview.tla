------------------------- MODULE ExactRevisionReview -------------------------
(***************************************************************************)
(* scripts/materialize-exact-revision-review.py: the commands materialize, *)
(* bind-assets and verify, run one after another in any order on one       *)
(* review directory.  GitHub's answer about the pull request, the          *)
(* protected assets and the directory may change between any two steps,    *)
(* any step may fail, and a command may be killed.  Files are replaced     *)
(* atomically (ProtectedWrite).                                            *)
(***************************************************************************)
EXTENDS Naturals

CONSTANTS
  Bases, Heads,  \* commits
  Reviewable,    \* pairs that merge into a tree with a diff of 1..199999 bytes
  Assets,        \* the protected files bound to a review
  None,
  MaxCommands,   \* bound: commands run
  MaxMoves       \* bound: changes made by anything else

ASSUME ConstantsAssumption ==
  /\ Reviewable \subseteq Bases \X Heads
  /\ MaxCommands \in Nat /\ MaxMoves \in Nat
  /\ None \notin Bases \X Heads

Pairs == Bases \X Heads
Commands == {"materialize", "bind-assets", "verify"}

VARIABLES
  live,      \* the pull request: base and head, and open, ready and the bot's
  asset,     \* asset -> version of the file
  workspace, \* the review directory: there, its patch and its metadata
  pc,        \* the next step
  command,   \* the command of the last start
  pair,      \* its expected base and head
  document,  \* the metadata it has read from the directory
  copy,      \* asset -> the version it has hashed
  commands,  \* commands started
  moves,     \* changes made by anything else
  since,     \* history: pull requests seen since the diff was computed
  found,     \* history: the workspace at the start
  touched,   \* history: something else changed the files meanwhile
  broken     \* history: a clean-up failed, or only the closing of a write

world == <<live, asset, moves>>
local == <<command, pair, document, copy>>
history == <<since, found, touched, broken>>
vars == <<world, workspace, pc, local, commands, history>>

Ended == {"ok", "failed", "killed"}
Idle == pc \in Ended

\* The patch of a pair is named by the pair, so is the metadata; digests are
\* None until they are bound.
Unbound == [a \in Assets |-> None]
Metadata(p, digests) == [of |-> p, digests |-> digests]
IsBound(m) == m.digests # Unbound
Empty == [there |-> FALSE, patch |-> None, metadata |-> None]

Goto(step) == pc' = step

\* A command that fails before it has written anything.
Fail ==
  /\ ~Idle
  /\ pc \notin {"write patch", "write metadata", "clean up", "close"}
  /\ Goto("failed")
  /\ UNCHANGED <<world, workspace, local, commands, history>>

\* A step that only looks.
Check(step, condition, next) ==
  /\ pc = step /\ condition
  /\ Goto(next)
  /\ UNCHANGED <<world, workspace, local, commands, history>>

-----------------------------------------------------------------------------
Start(c, p) ==
  /\ Idle /\ commands < MaxCommands
  /\ commands' = commands + 1
  /\ command' = c /\ pair' = p
  /\ document' = None /\ copy' = Unbound
  /\ since' = {} /\ found' = workspace /\ touched' = FALSE /\ broken' = FALSE
  /\ Goto(CASE c = "materialize" -> "exists" [] c = "verify" -> "inspect"
            [] OTHER -> "read metadata")
  /\ UNCHANGED <<world, workspace>>

-----------------------------------------------------------------------------
(* materialize; verify runs it in a directory of its own.                  *)

DirectoryIsNew == Check("exists", ~workspace.there, "live")

Live(p) == [base |-> p[1], head |-> p[2], ready |-> TRUE]

ReadLiveBefore == Check("live", live = Live(pair), "diff")

\* Fetch both commits, merge them, and read the diff up to its limit.
ComputeDiff ==
  /\ pc = "diff" /\ pair \in Reviewable
  /\ since' = {live}
  /\ Goto("live again")
  /\ UNCHANGED <<world, workspace, local, commands, found, touched, broken>>

\* Fault: the second answer of GitHub is not compared.
NotCompared == TRUE
StillLive == live = Live(pair)

ReadLiveAfter ==
  Check("live again", StillLive, IF command = "verify" THEN "assets" ELSE "mkdir")

MakeDirectory ==
  /\ pc = "mkdir" /\ ~workspace.there
  /\ workspace' = [Empty EXCEPT !.there = TRUE]
  /\ Goto("write patch")
  /\ UNCHANGED <<world, local, commands, history>>

\* A write either takes effect or not; it may report a failure in both cases.
WritePatch ==
  /\ pc = "write patch"
  /\ \/ workspace.there /\ workspace' = [workspace EXCEPT !.patch = pair]
     \/ UNCHANGED workspace /\ pc' = "clean up"
  /\ pc' \in {"write metadata", "clean up"}
  /\ UNCHANGED <<world, local, commands, history>>

WriteMetadata ==
  /\ pc = "write metadata"
  /\ \/ /\ workspace.there
        /\ workspace' = [workspace EXCEPT !.metadata = Metadata(pair, Unbound)]
     \/ UNCHANGED workspace /\ pc' = "clean up"
  /\ pc' \in {"ok", "clean up"}
  /\ UNCHANGED <<world, local, commands, history>>

\* Fault: nothing but the patch is unlinked.
WithoutPatch == [workspace EXCEPT !.patch = None]
Cleaned == Empty

\* Both files are unlinked, then the empty directory is removed.
CleanUp ==
  /\ pc = "clean up"
  /\ \/ workspace' = Cleaned /\ UNCHANGED broken
     \/ /\ \E files \in SUBSET {"patch", "metadata"} :
             workspace' = [workspace EXCEPT
               !.patch = IF "patch" \in files THEN @ ELSE None,
               !.metadata = IF "metadata" \in files THEN @ ELSE None]
        /\ broken' = TRUE
  /\ Goto("failed")
  /\ UNCHANGED <<world, local, commands, since, found, touched>>

-----------------------------------------------------------------------------
(* bind-assets and the binding that verify makes for itself.               *)

InspectWorkspace ==
  Check("inspect", workspace.patch # None /\ workspace.metadata # None, "read metadata")

\* Fault: metadata that is bound already is bound again.
AnyDocument(m) == command = "verify" => IsBound(m)
\* bind-assets takes unbound metadata only, verify bound metadata only.
RightDocument(m) == IF command = "verify" THEN IsBound(m) ELSE ~IsBound(m)

ReadMetadata ==
  /\ pc = "read metadata" /\ workspace.metadata # None
  /\ RightDocument(workspace.metadata)
  /\ document' = workspace.metadata
  /\ Goto(IF command = "verify" THEN "live" ELSE "assets")
  /\ UNCHANGED <<world, workspace, command, pair, copy, commands, history>>

\* One asset after another is read and hashed.
HashAsset(a) ==
  /\ pc = "assets" /\ copy[a] = None
  /\ copy' = [copy EXCEPT ![a] = asset[a]]
  /\ UNCHANGED <<world, workspace, pc, command, pair, document, commands, history>>

AssetsHashed ==
  Check("assets", \A a \in Assets : copy[a] # None,
        IF command = "verify" THEN "compare patch" ELSE "write binding")

WriteBinding ==
  /\ pc = "write binding" /\ workspace.there
  /\ workspace' = [workspace EXCEPT !.metadata = Metadata(document.of, copy)]
  /\ Goto("close")
  /\ UNCHANGED <<world, local, commands, history>>

CloseBinding ==
  /\ pc = "close"
  /\ \/ Goto("ok") /\ UNCHANGED broken
     \/ Goto("failed") /\ broken' = TRUE
  /\ UNCHANGED <<world, workspace, local, commands, since, found, touched>>

-----------------------------------------------------------------------------
(* verify: what it has made itself against what the directory holds.       *)

ComparePatch == Check("compare patch", workspace.patch = pair, "compare metadata")

\* Fault: the digests of the assets are not compared.
SamePair == document.of = pair
SameDocument == document = Metadata(pair, copy)

CompareMetadata == Check("compare metadata", SameDocument, "ok")

-----------------------------------------------------------------------------
Kill ==
  /\ ~Idle
  /\ Goto("killed")
  /\ UNCHANGED <<world, workspace, local, commands, history>>

\* A push, a move of the base, a close or a conversion to a draft.
MovePullRequest ==
  /\ live' \in [base : Bases, head : Heads, ready : BOOLEAN]
  /\ since' = IF since = {} THEN {} ELSE since \cup {live'}
  /\ UNCHANGED <<asset, workspace, touched>>

EditAsset(a) ==
  /\ asset' = [asset EXCEPT ![a] = @ + 1]
  /\ touched' = TRUE
  /\ UNCHANGED <<live, workspace, since>>

\* Another program removes the directory, or puts another patch or another
\* unbound document into it.
EditWorkspace ==
  /\ \/ workspace' = Empty
     \/ \E p \in Pairs :
          /\ workspace.there
          /\ \/ workspace' = [workspace EXCEPT !.patch = p]
             \/ workspace' = [workspace EXCEPT !.metadata = Metadata(p, Unbound)]
  /\ touched' = TRUE
  /\ UNCHANGED <<live, asset, since>>

Environment ==
  /\ moves < MaxMoves
  /\ moves' = moves + 1
  /\ MovePullRequest \/ EditWorkspace \/ \E a \in Assets : EditAsset(a)
  /\ UNCHANGED <<pc, local, commands, found, broken>>

Init ==
  /\ live \in [base : Bases, head : Heads, ready : {TRUE}]
  /\ asset = [a \in Assets |-> 0]
  /\ workspace = Empty /\ found = Empty
  /\ pc = "ok" /\ command = "none" /\ pair = None
  /\ document = None /\ copy = Unbound
  /\ commands = 0 /\ moves = 0
  /\ since = {} /\ touched = FALSE /\ broken = FALSE

Step ==
  \/ Fail \/ Kill
  \/ DirectoryIsNew \/ ReadLiveBefore \/ ComputeDiff \/ ReadLiveAfter
  \/ MakeDirectory \/ WritePatch \/ WriteMetadata \/ CleanUp
  \/ InspectWorkspace \/ ReadMetadata \/ (\E a \in Assets : HashAsset(a))
  \/ AssetsHashed \/ WriteBinding \/ CloseBinding
  \/ ComparePatch \/ CompareMetadata

Next ==
  \/ \E c \in Commands, p \in Pairs : Start(c, p)
  \/ Step
  \/ Environment

Spec == Init /\ [][Next]_vars

Digests == [Assets -> Nat \cup {None}]
Documents == [of : Pairs, digests : Digests]
Workspaces ==
  [there : BOOLEAN, patch : Pairs \cup {None}, metadata : Documents \cup {None}]
PullRequests == [base : Bases, head : Heads, ready : BOOLEAN]
Steps == {"exists", "live", "diff", "live again", "mkdir", "write patch",
          "write metadata", "clean up", "inspect", "read metadata", "assets",
          "write binding", "close", "compare patch", "compare metadata"}

\* Every variable has its type, and only a directory that is there has files.
TypeOK ==
  /\ live \in PullRequests
  /\ asset \in [Assets -> Nat]
  /\ {workspace, found} \subseteq Workspaces
  /\ ~workspace.there => workspace = Empty
  /\ pc \in Steps \cup Ended
  /\ command \in Commands \cup {"none"}
  /\ pair \in Pairs \cup {None}
  /\ document \in Documents \cup {None}
  /\ copy \in Digests
  /\ commands \in 0..MaxCommands /\ moves \in 0..MaxMoves
  /\ since \subseteq PullRequests
  /\ {touched, broken} \subseteq BOOLEAN

-----------------------------------------------------------------------------
(* What the commands must guarantee.                                       *)

\* verify: when nothing else changed the files meanwhile, a success means that
\* the directory holds, right now, the diff and the metadata of the expected
\* pair, bound to the assets as they are on disk.  A directory left by a
\* killed or failed command, an asset changed since bind-assets, or a changed
\* patch never verifies.
VerifiedIsTrue ==
  pc = "ok" /\ command = "verify" /\ ~touched =>
    workspace = [there |-> TRUE, patch |-> pair, metadata |-> Metadata(pair, asset)]

\* read_live_pull_request: a command that succeeds saw the pull request ready
\* and at the expected commits after it had computed the diff.
ReviewWasLive ==
  pc = "ok" /\ command \in {"materialize", "verify"} => Live(pair) \in since

\* write_materialized_workspace, bind_assets: a command that reports a failure
\* leaves the directory as it found it, unless its clean-up failed too.
FailedCommandChangesNothing ==
  pc = "failed" /\ ~touched /\ ~broken => workspace = found

\* bind_assets, write_materialized_workspace: no command changes a bound
\* review, or the patch it belongs to.
BoundReviewIsKept ==
  [][moves' = moves /\ workspace.metadata # None /\ IsBound(workspace.metadata)
       => UNCHANGED workspace]_vars

=============================================================================
