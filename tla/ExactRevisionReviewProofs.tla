----------------------- MODULE ExactRevisionReviewProofs -----------------------
(***************************************************************************)
(* Proofs about ExactRevisionReview, for any commits, any assets and any   *)
(* number of commands and of changes: what a command holds is what the     *)
(* directory, the assets and GitHub had, unless something else moved them. *)
(* Then about BoundedGitOutput, which reads the diff, for every limit,     *)
(* chunk, pipe and deadline and any size of the diff.                      *)
(***************************************************************************)
EXTENDS ExactRevisionReview, BoundedGitOutput, TLAPS

\* Which command a step belongs to.
CommandOfStep ==
  /\ pc \in {"exists", "mkdir", "write patch", "write metadata", "clean up"} =>
       command = "materialize"
  /\ pc \in {"inspect", "compare patch", "compare metadata"} => command = "verify"
  /\ pc \in {"live", "diff", "live again"} => command \in {"materialize", "verify"}
  /\ pc \in {"read metadata", "assets"} => command \in {"bind-assets", "verify"}
  /\ pc \in {"write binding", "close"} => command = "bind-assets"

\* The pull request as it is has been recorded since the diff, and the second
\* answer of GitHub was the expected one.
LiveWasSeen ==
  /\ pc = "live again" => live \in since
  /\ \/ pc \in {"mkdir", "write patch", "write metadata"}
     \/ pc \in {"assets", "compare patch", "compare metadata", "ok"} /\ command = "verify"
     \/ pc = "ok" /\ command = "materialize"
     => Live(pair) \in since

\* What verify has read is what is there.
DocumentIsThere ==
  /\ command = "verify" /\ ~touched
  /\ pc \in {"live", "diff", "live again", "assets", "compare patch", "compare metadata", "ok"}
  => workspace.metadata # None /\ document = workspace.metadata

CopyIsCurrent == ~touched => \A a \in Assets : copy[a] # None => copy[a] = asset[a]

CopyIsWhole ==
  pc \in {"compare patch", "compare metadata", "ok"} /\ command = "verify" =>
    \A a \in Assets : copy[a] # None

PatchIsRight ==
  pc \in {"compare metadata", "ok"} /\ command = "verify" /\ ~touched => workspace.patch = pair

DocumentIsRight == pc = "ok" /\ command = "verify" => document = Metadata(pair, copy)

\* A command has changed nothing before it writes, and a new directory was none.
NothingWritten ==
  ~touched =>
    /\ pc \in {"exists", "live", "diff", "live again", "mkdir", "inspect", "read metadata",
               "assets", "write binding", "compare patch", "compare metadata"} =>
         workspace = found
    /\ pc \in {"write patch", "write metadata", "clean up"} => found = Empty

\* What a command is about to write over is not bound.
Unfinished ==
  \/ pc \in {"write patch", "write metadata", "clean up", "write binding"}
  \/ pc = "assets" /\ command = "bind-assets"
  => workspace.metadata = None \/ ~IsBound(workspace.metadata)

\* A command has been given a pair, and bind-assets a document.
InputIsKnown ==
  /\ command # "none" => pair \in Pairs
  /\ command = "bind-assets" /\ pc \in {"assets", "write binding"} => document \in Documents

TypeInv == TypeOK /\ CommandOfStep /\ InputIsKnown
VerifyInv ==
  DocumentIsThere /\ CopyIsCurrent /\ CopyIsWhole /\ PatchIsRight /\ DocumentIsRight
FileInv == NothingWritten /\ FailedCommandChangesNothing /\ Unfinished

IInv == TypeInv /\ LiveWasSeen /\ VerifyInv /\ FileInv

-----------------------------------------------------------------------------
(* Types.                                                                   *)

\* The steps that only look, and those that end a command early.
Looks ==
  \/ Fail \/ Kill \/ DirectoryIsNew \/ ReadLiveBefore \/ ReadLiveAfter \/ InspectWorkspace
  \/ AssetsHashed \/ ComparePatch \/ CompareMetadata

LEMMA LooksChangeNothing ==
  ASSUME Looks
  PROVE  /\ UNCHANGED <<world, workspace, local, commands, history>>
         /\ pc' \in Steps \cup Ended
<1>1. UNCHANGED <<world, workspace, local, commands, history>>
  BY DEF Looks, Fail, Kill, DirectoryIsNew, ReadLiveBefore, ReadLiveAfter, InspectWorkspace,
         AssetsHashed, ComparePatch, CompareMetadata, Check
<1>2. pc' \in Steps \cup Ended
  BY DEF Looks, Fail, Kill, DirectoryIsNew, ReadLiveBefore, ReadLiveAfter, InspectWorkspace,
         AssetsHashed, ComparePatch, CompareMetadata, Check, Goto, Steps, Ended
<1> QED
  BY <1>1, <1>2

LEMMA UnboundType == Unbound \in Digests
BY DEF Unbound, Digests

LEMMA EmptyType == Empty \in Workspaces
BY DEF Empty, Workspaces

LEMMA InitType == Init => TypeOK
<1> SUFFICES ASSUME Init PROVE TypeOK
  OBVIOUS
<1>1. /\ live \in PullRequests /\ asset \in [Assets -> Nat]
      /\ copy \in Digests /\ pair = None /\ document = None /\ since = {}
  BY UnboundType DEF Init, PullRequests
<1>2. workspace = Empty /\ found = Empty
  BY DEF Init
<1>3. pc \in Ended /\ command = "none"
  BY DEF Init, Ended
<1>4. commands \in 0..MaxCommands /\ moves \in 0..MaxMoves
  BY ConstantsAssumption DEF Init
<1>5. touched \in BOOLEAN /\ broken \in BOOLEAN
  BY Zenon DEF Init
<1> QED
  BY <1>1, <1>2, <1>3, <1>4, <1>5, EmptyType DEF TypeOK

\* The variables that a step leaves alone keep their types.
LEMMA LooksType ==
  ASSUME TypeOK, Looks
  PROVE  TypeOK'
BY LooksChangeNothing DEF TypeOK, world, local, history

\* A bounded counter that has not reached its bound may count on.
LEMMA CountType ==
  ASSUME NEW max \in Nat, NEW n \in 0..max, n < max
  PROVE  n + 1 \in 0..max
OBVIOUS

LEMMA StartType ==
  ASSUME TypeOK, NEW c \in Commands, NEW p \in Pairs, Start(c, p)
  PROVE  TypeOK'
<1>1. commands' \in 0..MaxCommands
  <2>1. commands \in 0..MaxCommands /\ MaxCommands \in Nat
    BY ConstantsAssumption DEF TypeOK
  <2>2. commands < MaxCommands /\ commands' = commands + 1
    BY DEF Start
  <2> QED
    BY <2>1, <2>2, CountType
<1>2. /\ command' = c /\ pair' = p /\ document' = None /\ copy' \in Digests
      /\ since' = {} /\ found' = workspace
  BY UnboundType DEF Start
<1>3. touched' \in BOOLEAN /\ broken' \in BOOLEAN
  BY Zenon DEF Start
<1>4. pc' \in Steps
  BY DEF Start, Goto, Steps
<1>5. UNCHANGED <<live, asset, moves, workspace>>
  BY DEF Start, world
<1> QED
  BY <1>1, <1>2, <1>3, <1>4, <1>5 DEF TypeOK

LEMMA DiffType ==
  ASSUME TypeOK, ComputeDiff
  PROVE  TypeOK'
BY DEF TypeOK, ComputeDiff, Goto, world, local, Steps

\* A file of a directory that is there is replaced.
LEMMA WorkspaceType ==
  ASSUME NEW w \in Workspaces, NEW patch \in Pairs \cup {None},
         NEW metadata \in Documents \cup {None}
  PROVE  /\ [w EXCEPT !.patch = patch] \in Workspaces
         /\ [w EXCEPT !.metadata = metadata] \in Workspaces
         /\ [w EXCEPT !.patch = patch, !.metadata = metadata] \in Workspaces
         /\ [w EXCEPT !.patch = patch].there = w.there
         /\ [w EXCEPT !.metadata = metadata].there = w.there
         /\ [w EXCEPT !.patch = patch].metadata = w.metadata
         /\ [w EXCEPT !.metadata = metadata].patch = w.patch
         /\ [w EXCEPT !.patch = patch].patch = patch
         /\ [w EXCEPT !.metadata = metadata].metadata = metadata
BY DEF Workspaces

\* What is needed of it for one of the two files.
LEMMA PatchType ==
  ASSUME NEW w \in Workspaces, NEW patch \in Pairs
  PROVE  [w EXCEPT !.patch = patch] \in Workspaces /\ [w EXCEPT !.patch = patch].there = w.there
BY WorkspaceType

LEMMA MetadataType ==
  ASSUME NEW w \in Workspaces, NEW metadata \in Documents
  PROVE  /\ [w EXCEPT !.metadata = metadata] \in Workspaces
         /\ [w EXCEPT !.metadata = metadata].there = w.there
BY WorkspaceType

LEMMA MakeType ==
  ASSUME TypeOK, MakeDirectory
  PROVE  TypeOK'
<1>1. workspace' = [there |-> TRUE, patch |-> None, metadata |-> None]
  BY DEF MakeDirectory, Empty
<1>2. workspace' \in Workspaces /\ workspace'.there
  BY <1>1 DEF Workspaces
<1> QED
  BY <1>2 DEF TypeOK, MakeDirectory, Goto, world, local, history, Steps

LEMMA DocumentType ==
  ASSUME NEW p \in Pairs, NEW digests \in Digests
  PROVE  Metadata(p, digests) \in Documents
BY DEF Metadata, Documents

LEMMA WriteType ==
  ASSUME TypeInv, WritePatch \/ WriteMetadata
  PROVE  TypeOK'
<1>1. pair \in Pairs /\ workspace \in Workspaces
  BY DEF TypeInv, TypeOK, CommandOfStep, InputIsKnown, WritePatch, WriteMetadata
<1>2. workspace' \in Workspaces /\ (~workspace'.there => workspace' = Empty)
  <2>1. CASE UNCHANGED workspace
    BY <2>1 DEF TypeInv, TypeOK
  <2>2. CASE workspace.there /\ workspace' = [workspace EXCEPT !.patch = pair]
    BY <2>2, <1>1, PatchType
  <2>3. CASE /\ workspace.there
             /\ workspace' = [workspace EXCEPT !.metadata = Metadata(pair, Unbound)]
    <3>1. Metadata(pair, Unbound) \in Documents
      BY <1>1, DocumentType, UnboundType
    <3> QED
      BY <2>3, <3>1, <1>1, MetadataType
  <2> QED
    BY <2>1, <2>2, <2>3 DEF WritePatch, WriteMetadata
<1>3. pc' \in Steps \cup Ended
  BY DEF WritePatch, WriteMetadata, Steps, Ended
<1> QED
  BY <1>2, <1>3 DEF TypeInv, TypeOK, WritePatch, WriteMetadata, world, local, history

LEMMA CleanUpType ==
  ASSUME TypeOK, CleanUp
  PROVE  TypeOK'
<1>1. workspace' \in Workspaces /\ (~workspace'.there => workspace' = Empty)
  <2>1. CASE workspace' = Cleaned
    BY <2>1, EmptyType DEF Cleaned
  <2>2. ASSUME NEW files \in SUBSET {"patch", "metadata"},
               workspace' = [workspace EXCEPT
                 !.patch = IF "patch" \in files THEN @ ELSE None,
                 !.metadata = IF "metadata" \in files THEN @ ELSE None]
        PROVE  workspace' \in Workspaces /\ (~workspace'.there => workspace' = Empty)
    <3>1. workspace' \in Workspaces /\ workspace'.there = workspace.there
      BY <2>2 DEF TypeOK, Workspaces
    <3>2. ~workspace.there => workspace' = Empty
      <4> SUFFICES ASSUME ~workspace.there PROVE workspace' = Empty
        OBVIOUS
      <4>1. workspace = [there |-> FALSE, patch |-> None, metadata |-> None]
        BY Zenon DEF TypeOK, Empty
      <4>2. workspace' = [there |-> FALSE, patch |-> None, metadata |-> None]
        BY <2>2, <4>1
      <4> QED
        BY <4>2 DEF Empty
    <3> QED
      BY <3>1, <3>2
  <2> QED
    BY <2>1, <2>2 DEF CleanUp
<1>2. broken' \in BOOLEAN
  BY Zenon DEF CleanUp, TypeOK
<1>3. UNCHANGED <<live, asset, moves, found, command, pair, document, copy, commands, since,
                  touched>>
  BY DEF CleanUp, world, local
<1>4. pc' \in Steps \cup Ended
  BY DEF CleanUp, Goto, Ended
<1> QED
  BY <1>1, <1>2, <1>3, <1>4 DEF TypeOK

LEMMA ReadType ==
  ASSUME TypeOK, ReadMetadata
  PROVE  TypeOK'
<1>1. document' \in Documents
  BY DEF ReadMetadata, TypeOK, Workspaces
<1>2. UNCHANGED <<world, workspace, command, pair, copy, commands, history>>
  BY DEF ReadMetadata
<1>3. pc' \in Steps
  BY DEF ReadMetadata, Goto, Steps
<1> QED
  BY <1>1, <1>2, <1>3 DEF TypeOK, world, history

LEMMA HashType ==
  ASSUME TypeOK, NEW a \in Assets, HashAsset(a)
  PROVE  TypeOK'
<1>1. copy' \in Digests
  BY DEF HashAsset, TypeOK, Digests
<1>2. UNCHANGED <<world, workspace, pc, command, pair, document, commands, history>>
  BY DEF HashAsset
<1> QED
  BY <1>1, <1>2 DEF TypeOK, world, history

LEMMA BindType ==
  ASSUME TypeInv, WriteBinding
  PROVE  TypeOK'
<1>1. document \in Documents /\ copy \in Digests /\ workspace \in Workspaces
  BY DEF TypeInv, TypeOK, CommandOfStep, InputIsKnown, WriteBinding
<1>2. Metadata(document.of, copy) \in Documents
  BY <1>1, DocumentType DEF Documents
<1>3. workspace' \in Workspaces /\ workspace'.there
  <2>1. workspace.there /\ workspace' = [workspace EXCEPT !.metadata = Metadata(document.of, copy)]
    BY DEF WriteBinding
  <2> QED
    BY <1>1, <1>2, <2>1, MetadataType
<1> QED
  BY <1>3 DEF TypeInv, TypeOK, WriteBinding, Goto, world, local, history, Steps

LEMMA CloseType ==
  ASSUME TypeOK, CloseBinding
  PROVE  TypeOK'
<1>1. broken' \in BOOLEAN
  BY Zenon DEF CloseBinding, TypeOK
<1>2. UNCHANGED <<world, workspace, local, commands, since, found, touched>>
  BY DEF CloseBinding
<1>3. pc' \in Ended
  BY DEF CloseBinding, Goto, Ended
<1> QED
  BY <1>1, <1>2, <1>3 DEF TypeOK, world, local

LEMMA EnvironmentType ==
  ASSUME TypeOK, Environment
  PROVE  TypeOK'
<1>1. moves' \in 0..MaxMoves
  <2>1. moves \in 0..MaxMoves /\ MaxMoves \in Nat
    BY ConstantsAssumption DEF TypeOK
  <2>2. moves < MaxMoves /\ moves' = moves + 1
    BY DEF Environment
  <2> QED
    BY <2>1, <2>2, CountType
<1>2. UNCHANGED <<pc, local, commands, found, broken>>
  BY DEF Environment
<1>3. /\ live' \in PullRequests /\ asset' \in [Assets -> Nat] /\ since' \subseteq PullRequests
      /\ workspace' \in Workspaces /\ (~workspace'.there => workspace' = Empty)
  <2>1. CASE MovePullRequest
    BY <2>1 DEF MovePullRequest, TypeOK, PullRequests
  <2>2. CASE EditWorkspace
    <3>1. UNCHANGED <<live, asset, since>>
      BY <2>2 DEF EditWorkspace
    <3>2. CASE workspace' = Empty
      BY <3>1, <3>2, EmptyType DEF TypeOK
    <3>3. ASSUME NEW p \in Pairs, workspace.there,
                 \/ workspace' = [workspace EXCEPT !.patch = p]
                 \/ workspace' = [workspace EXCEPT !.metadata = Metadata(p, Unbound)]
          PROVE  workspace' \in Workspaces /\ workspace'.there
      <4>1. Metadata(p, Unbound) \in Documents
        BY DocumentType, UnboundType
      <4>2. workspace \in Workspaces
        BY DEF TypeOK
      <4>3. CASE workspace' = [workspace EXCEPT !.patch = p]
        BY <3>3, <4>2, <4>3, PatchType
      <4>4. CASE workspace' = [workspace EXCEPT !.metadata = Metadata(p, Unbound)]
        BY <3>3, <4>1, <4>2, <4>4, MetadataType
      <4> QED
        BY <3>3, <4>3, <4>4
    <3> QED
      BY <2>2, <3>1, <3>2, <3>3 DEF EditWorkspace, TypeOK
  <2>3. CASE \E a \in Assets : EditAsset(a)
    BY <2>3 DEF EditAsset, TypeOK
  <2> QED
    BY <2>1, <2>2, <2>3 DEF Environment
<1>4. touched' \in BOOLEAN
  <2>1. touched' = TRUE \/ touched' = touched
    BY Zenon DEF Environment, MovePullRequest, EditWorkspace, EditAsset
  <2> QED
    BY <2>1, Zenon DEF TypeOK
<1> QED
  BY <1>1, <1>2, <1>3, <1>4 DEF TypeOK, local

LEMMA NextType ==
  ASSUME TypeInv, Next
  PROVE  TypeOK'
<1>1. CASE \E c \in Commands, p \in Pairs : Start(c, p)
  BY <1>1, StartType DEF TypeInv
<1>2. CASE Environment
  BY <1>2, EnvironmentType DEF TypeInv
<1>3. CASE Step
  <2>1. CASE Looks
    BY <2>1, LooksType DEF TypeInv
  <2>2. CASE ComputeDiff
    BY <2>2, DiffType DEF TypeInv
  <2>3. CASE MakeDirectory
    BY <2>3, MakeType DEF TypeInv
  <2>4. CASE WritePatch \/ WriteMetadata
    BY <2>4, WriteType
  <2>5. CASE CleanUp
    BY <2>5, CleanUpType DEF TypeInv
  <2>6. CASE ReadMetadata
    BY <2>6, ReadType DEF TypeInv
  <2>7. CASE \E a \in Assets : HashAsset(a)
    BY <2>7, HashType DEF TypeInv
  <2>8. CASE WriteBinding
    BY <2>8, BindType
  <2>9. CASE CloseBinding
    BY <2>9, CloseType DEF TypeInv
  <2> QED
    BY <1>3, <2>1, <2>2, <2>3, <2>4, <2>5, <2>6, <2>7, <2>8, <2>9 DEF Step, Looks
<1> QED
  BY <1>1, <1>2, <1>3 DEF Next

-----------------------------------------------------------------------------
(* Each step keeps the rest of the invariant.                               *)

\* How the steps that only look go on, and what they have looked at.
Onward ==
  \/ pc' \in {"failed", "killed"}
  \/ pc = "exists" /\ pc' = "live"
  \/ pc = "live" /\ pc' = "diff"
  \/ pc = "live again" /\ live = Live(pair)
     /\ pc' = IF command = "verify" THEN "assets" ELSE "mkdir"
  \/ pc = "inspect" /\ pc' = "read metadata"
  \/ pc = "assets" /\ (\A a \in Assets : copy[a] # None)
     /\ pc' = IF command = "verify" THEN "compare patch" ELSE "write binding"
  \/ pc = "compare patch" /\ workspace.patch = pair /\ pc' = "compare metadata"
  \/ pc = "compare metadata" /\ document = Metadata(pair, copy) /\ pc' = "ok"

LEMMA LooksOnward ==
  ASSUME Looks
  PROVE  Onward
BY DEF Looks, Onward, Fail, Kill, DirectoryIsNew, ReadLiveBefore, ReadLiveAfter,
       InspectWorkspace, AssetsHashed, ComparePatch, CompareMetadata, Check, Goto,
       StillLive, SameDocument

LEMMA LooksRest ==
  ASSUME IInv, Looks
  PROVE  IInv'
<1>1. UNCHANGED <<live, asset, moves, workspace, command, pair, document, copy, commands,
                  since, found, touched, broken>>
  BY LooksChangeNothing DEF world, local, history
<1>2. Onward
  BY LooksOnward
<1>3. TypeOK'
  BY LooksType DEF IInv, TypeInv
<1>4. CommandOfStep' /\ InputIsKnown'
  BY <1>1, <1>2 DEF IInv, TypeInv, CommandOfStep, InputIsKnown, Onward, Commands
<1>5. LiveWasSeen'
  BY <1>1, <1>2 DEF IInv, TypeInv, CommandOfStep, LiveWasSeen, Onward, Live
<1>6. VerifyInv'
  <2>1. DocumentIsThere'
    BY <1>1, <1>2 DEF IInv, TypeInv, CommandOfStep, VerifyInv, DocumentIsThere, Onward
  <2>2. CopyIsCurrent'
    BY <1>1 DEF IInv, VerifyInv, CopyIsCurrent
  <2>3. CopyIsWhole'
    BY <1>1, <1>2 DEF IInv, TypeInv, CommandOfStep, VerifyInv, CopyIsWhole, Onward
  <2>4. PatchIsRight'
    BY <1>1, <1>2 DEF IInv, VerifyInv, PatchIsRight, Onward
  <2>5. DocumentIsRight'
    BY <1>1, <1>2 DEF DocumentIsRight, Onward, Metadata
  <2> QED
    BY <2>1, <2>2, <2>3, <2>4, <2>5 DEF VerifyInv
<1>7. FileInv'
  <2>1. NothingWritten'
    BY <1>1, <1>2 DEF IInv, FileInv, NothingWritten, Onward
  <2>2. FailedCommandChangesNothing'
    <3>1. CASE Fail
      BY <3>1, <1>1 DEF IInv, TypeInv, TypeOK, FileInv, NothingWritten,
                        FailedCommandChangesNothing, Fail, Idle, Steps, Ended
    <3>2. CASE ~Fail
      <4>1. pc' # "failed"
        BY <3>2, <1>2 DEF Looks, Kill, DirectoryIsNew, ReadLiveBefore, ReadLiveAfter,
            InspectWorkspace, AssetsHashed, ComparePatch, CompareMetadata, Check, Goto
      <4> QED
        BY <4>1 DEF FailedCommandChangesNothing
    <3> QED
      BY <3>1, <3>2
  <2>3. Unfinished'
    BY <1>1, <1>2 DEF IInv, TypeInv, CommandOfStep, FileInv, Unfinished, Onward, IsBound
  <2> QED
    BY <2>1, <2>2, <2>3 DEF FileInv
<1> QED
  BY <1>3, <1>4, <1>5, <1>6, <1>7 DEF IInv, TypeInv

LEMMA StartRest ==
  ASSUME IInv, NEW c \in Commands, NEW p \in Pairs, Start(c, p)
  PROVE  IInv'
<1>1. TypeOK'
  BY StartType DEF IInv, TypeInv
<1>2. /\ command' = c /\ pair' = p /\ copy' = Unbound /\ since' = {} /\ found' = workspace
      /\ UNCHANGED <<workspace, asset, live>>
  BY DEF Start, world
<1>3. /\ c = "materialize" => pc' = "exists"
      /\ c = "verify" => pc' = "inspect"
      /\ c = "bind-assets" => pc' = "read metadata"
  BY DEF Start, Goto
<1>4. CommandOfStep' /\ InputIsKnown'
  BY <1>2, <1>3 DEF CommandOfStep, InputIsKnown, Commands
<1>5. LiveWasSeen'
  BY <1>3 DEF LiveWasSeen, Commands
<1>6. VerifyInv'
  BY <1>2, <1>3 DEF VerifyInv, DocumentIsThere, CopyIsCurrent, CopyIsWhole, PatchIsRight,
                    DocumentIsRight, Commands, Unbound
<1>7. FileInv'
  BY <1>2, <1>3 DEF FileInv, NothingWritten, FailedCommandChangesNothing, Unfinished, Commands
<1> QED
  BY <1>1, <1>4, <1>5, <1>6, <1>7 DEF IInv, TypeInv

LEMMA DiffRest ==
  ASSUME IInv, ComputeDiff
  PROVE  IInv'
<1>1. UNCHANGED <<live, asset, workspace, command, pair, document, copy, found, touched, broken>>
  BY DEF ComputeDiff, world, local
<1>2. pc = "diff" /\ pc' = "live again" /\ since' = {live}
  BY DEF ComputeDiff, Goto
<1>3. TypeOK'
  BY DiffType DEF IInv, TypeInv
<1>4. CommandOfStep' /\ InputIsKnown'
  BY <1>1, <1>2 DEF IInv, TypeInv, CommandOfStep, InputIsKnown
<1>5. LiveWasSeen'
  BY <1>1, <1>2 DEF LiveWasSeen
<1>6. VerifyInv'
  BY <1>1, <1>2 DEF IInv, VerifyInv, DocumentIsThere, CopyIsCurrent, CopyIsWhole, PatchIsRight,
                    DocumentIsRight
<1>7. FileInv'
  BY <1>1, <1>2 DEF IInv, FileInv, NothingWritten, FailedCommandChangesNothing, Unfinished
<1> QED
  BY <1>3, <1>4, <1>5, <1>6, <1>7 DEF IInv, TypeInv

LEMMA MakeRest ==
  ASSUME IInv, MakeDirectory
  PROVE  IInv'
<1>1. UNCHANGED <<live, asset, command, pair, document, copy, since, found, touched, broken>>
  BY DEF MakeDirectory, world, local, history
<1>2. pc = "mkdir" /\ pc' = "write patch" /\ command = "materialize"
  BY DEF MakeDirectory, Goto, IInv, TypeInv, CommandOfStep
<1>3. workspace = Empty /\ workspace'.metadata = None
  BY DEF MakeDirectory, IInv, TypeInv, TypeOK, Empty
<1>4. TypeOK'
  BY MakeType DEF IInv, TypeInv
<1>5. CommandOfStep' /\ InputIsKnown'
  BY <1>1, <1>2 DEF IInv, TypeInv, CommandOfStep, InputIsKnown
<1>6. LiveWasSeen'
  BY <1>1, <1>2 DEF IInv, LiveWasSeen, Live
<1>7. VerifyInv'
  BY <1>1, <1>2 DEF IInv, VerifyInv, DocumentIsThere, CopyIsCurrent, CopyIsWhole, PatchIsRight,
                    DocumentIsRight
<1>8. FileInv'
  BY <1>1, <1>2, <1>3 DEF IInv, FileInv, NothingWritten, FailedCommandChangesNothing, Unfinished
<1> QED
  BY <1>4, <1>5, <1>6, <1>7, <1>8 DEF IInv, TypeInv

LEMMA WriteRest ==
  ASSUME IInv, WritePatch \/ WriteMetadata
  PROVE  IInv'
<1>1. UNCHANGED <<live, asset, command, pair, document, copy, since, found, touched, broken>>
  BY DEF WritePatch, WriteMetadata, world, local, history
<1>2. /\ pc \in {"write patch", "write metadata"} /\ command = "materialize"
      /\ pc' \in {"write metadata", "ok", "clean up"}
  BY DEF WritePatch, WriteMetadata, IInv, TypeInv, CommandOfStep
<1>3. workspace'.metadata = None \/ ~IsBound(workspace'.metadata)
  <2>1. workspace \in Workspaces /\ pair \in Pairs
    BY <1>2 DEF IInv, TypeInv, TypeOK, InputIsKnown
  <2>2. CASE UNCHANGED workspace
    BY <2>2, <1>2 DEF IInv, FileInv, Unfinished
  <2>3. CASE workspace' = [workspace EXCEPT !.patch = pair]
    <3>1. workspace'.metadata = workspace.metadata
      BY <2>1, <2>3, WorkspaceType
    <3> QED
      BY <3>1, <1>2 DEF IInv, FileInv, Unfinished
  <2>4. CASE workspace' = [workspace EXCEPT !.metadata = Metadata(pair, Unbound)]
    <3>1. workspace'.metadata = Metadata(pair, Unbound)
      BY <2>1, <2>4 DEF Workspaces
    <3> QED
      BY <3>1 DEF IsBound, Metadata
  <2> QED
    BY <2>2, <2>3, <2>4 DEF WritePatch, WriteMetadata
<1>4. TypeOK'
  BY WriteType DEF IInv
<1>5. CommandOfStep' /\ InputIsKnown'
  BY <1>1, <1>2 DEF IInv, TypeInv, CommandOfStep, InputIsKnown
<1>6. LiveWasSeen'
  BY <1>1, <1>2 DEF IInv, LiveWasSeen, Live
<1>7. VerifyInv'
  BY <1>1, <1>2 DEF IInv, VerifyInv, DocumentIsThere, CopyIsCurrent, CopyIsWhole, PatchIsRight,
                    DocumentIsRight
<1>8. FileInv'
  BY <1>1, <1>2, <1>3 DEF IInv, FileInv, NothingWritten, FailedCommandChangesNothing, Unfinished
<1> QED
  BY <1>4, <1>5, <1>6, <1>7, <1>8 DEF IInv, TypeInv

LEMMA CleanUpRest ==
  ASSUME IInv, CleanUp
  PROVE  IInv'
<1>1. UNCHANGED <<live, asset, command, pair, document, copy, since, found, touched>>
  BY DEF CleanUp, world, local
<1>2. pc = "clean up" /\ pc' = "failed" /\ command = "materialize"
  BY DEF CleanUp, Goto, IInv, TypeInv, CommandOfStep
<1>3. workspace' = Empty \/ broken'
  BY DEF CleanUp, Cleaned
<1>4. TypeOK'
  BY CleanUpType DEF IInv, TypeInv
<1>5. CommandOfStep' /\ InputIsKnown'
  BY <1>1, <1>2 DEF IInv, TypeInv, CommandOfStep, InputIsKnown
<1>6. LiveWasSeen'
  BY <1>2 DEF LiveWasSeen
<1>7. VerifyInv'
  BY <1>1, <1>2 DEF IInv, VerifyInv, DocumentIsThere, CopyIsCurrent, CopyIsWhole, PatchIsRight,
                    DocumentIsRight
<1>8. FileInv'
  BY <1>1, <1>2, <1>3 DEF IInv, FileInv, NothingWritten, FailedCommandChangesNothing, Unfinished
<1> QED
  BY <1>4, <1>5, <1>6, <1>7, <1>8 DEF IInv, TypeInv

LEMMA ReadRest ==
  ASSUME IInv, ReadMetadata
  PROVE  IInv'
<1>1. UNCHANGED <<live, asset, workspace, command, pair, copy, since, found, touched, broken>>
  BY DEF ReadMetadata, world, history
<1>2. /\ pc = "read metadata" /\ command \in {"bind-assets", "verify"}
      /\ pc' = IF command = "verify" THEN "live" ELSE "assets"
  BY DEF ReadMetadata, Goto, IInv, TypeInv, CommandOfStep
<1>3. /\ workspace.metadata # None /\ document' = workspace.metadata
      /\ command = "bind-assets" => ~IsBound(workspace.metadata)
  BY DEF ReadMetadata, RightDocument
<1>4. document' \in Documents
  BY <1>3 DEF IInv, TypeInv, TypeOK, Workspaces
<1>5. TypeOK'
  BY ReadType DEF IInv, TypeInv
<1>6. CommandOfStep' /\ InputIsKnown'
  BY <1>1, <1>2, <1>4 DEF IInv, TypeInv, CommandOfStep, InputIsKnown
<1>7. LiveWasSeen'
  <2>1. pc' = "assets" => command' = "bind-assets"
    BY <1>1, <1>2
  <2> QED
    BY <1>2, <2>1 DEF LiveWasSeen
<1>8. VerifyInv'
  BY <1>1, <1>2, <1>3 DEF IInv, VerifyInv, DocumentIsThere, CopyIsCurrent, CopyIsWhole,
                          PatchIsRight, DocumentIsRight
<1>9. FileInv'
  BY <1>1, <1>2, <1>3 DEF IInv, FileInv, NothingWritten, FailedCommandChangesNothing, Unfinished
<1> QED
  BY <1>5, <1>6, <1>7, <1>8, <1>9 DEF IInv, TypeInv

LEMMA HashRest ==
  ASSUME IInv, NEW a \in Assets, HashAsset(a)
  PROVE  IInv'
<1>1. UNCHANGED <<live, asset, workspace, pc, command, pair, document, since, found, touched,
                  broken>>
  BY DEF HashAsset, world, history
<1>2. pc = "assets" /\ copy' = [copy EXCEPT ![a] = asset[a]]
  BY DEF HashAsset
<1>3. copy'[a] = asset[a] /\ \A b \in Assets : b # a => copy'[b] = copy[b]
  BY <1>2 DEF IInv, TypeInv, TypeOK, Digests
<1>4. TypeOK'
  BY HashType DEF IInv, TypeInv
<1>5. CommandOfStep' /\ InputIsKnown'
  BY <1>1 DEF IInv, TypeInv, CommandOfStep, InputIsKnown
<1>6. LiveWasSeen'
  BY <1>1 DEF IInv, LiveWasSeen, Live
<1>7. VerifyInv'
  BY <1>1, <1>2, <1>3 DEF IInv, VerifyInv, DocumentIsThere, CopyIsCurrent, CopyIsWhole,
                          PatchIsRight, DocumentIsRight
<1>8. FileInv'
  BY <1>1 DEF IInv, FileInv, NothingWritten, FailedCommandChangesNothing, Unfinished, IsBound
<1> QED
  BY <1>4, <1>5, <1>6, <1>7, <1>8 DEF IInv, TypeInv

LEMMA BindRest ==
  ASSUME IInv, WriteBinding \/ CloseBinding
  PROVE  IInv'
<1>1. UNCHANGED <<live, asset, command, pair, document, copy, since, found, touched>>
  BY DEF WriteBinding, CloseBinding, world, local, history
<1>2. /\ pc \in {"write binding", "close"} /\ command = "bind-assets"
      /\ pc' \in {"close", "ok", "failed"} /\ (pc' = "failed" => broken')
  BY DEF WriteBinding, CloseBinding, Goto, IInv, TypeInv, CommandOfStep
<1>3. TypeOK'
  BY BindType, CloseType DEF IInv, TypeInv
<1>4. CommandOfStep' /\ InputIsKnown'
  BY <1>1, <1>2 DEF IInv, TypeInv, CommandOfStep, InputIsKnown
<1>5. LiveWasSeen'
  BY <1>1, <1>2 DEF LiveWasSeen
<1>6. VerifyInv'
  BY <1>1, <1>2 DEF IInv, VerifyInv, DocumentIsThere, CopyIsCurrent, CopyIsWhole, PatchIsRight,
                    DocumentIsRight
<1>7. FileInv'
  BY <1>1, <1>2 DEF FileInv, NothingWritten, FailedCommandChangesNothing, Unfinished
<1> QED
  BY <1>3, <1>4, <1>5, <1>6, <1>7 DEF IInv, TypeInv

LEMMA EnvironmentRest ==
  ASSUME IInv, Environment
  PROVE  IInv'
<1>1. UNCHANGED <<pc, command, pair, document, copy, found, broken>>
  BY DEF Environment, local
<1>2. touched' \/ UNCHANGED <<asset, workspace, touched>>
  BY DEF Environment, MovePullRequest, EditWorkspace, EditAsset
<1>3. since \subseteq since' /\ (live \in since => live' \in since')
  <2>1. CASE MovePullRequest
    BY <2>1 DEF MovePullRequest
  <2>2. CASE ~MovePullRequest
    BY <2>2 DEF Environment, EditWorkspace, EditAsset
  <2> QED
    BY <2>1, <2>2
<1>4. workspace' = workspace \/ workspace'.metadata = workspace.metadata
      \/ workspace'.metadata = None \/ ~IsBound(workspace'.metadata)
  <2>1. workspace \in Workspaces
    BY DEF IInv, TypeInv, TypeOK
  <2>2. CASE UNCHANGED workspace
    BY <2>2
  <2>3. CASE workspace' = Empty
    BY <2>3 DEF Empty
  <2>4. ASSUME NEW p \in Pairs, workspace' = [workspace EXCEPT !.patch = p]
        PROVE  workspace'.metadata = workspace.metadata
    BY <2>1, <2>4 DEF Workspaces
  <2>5. ASSUME NEW p \in Pairs, workspace' = [workspace EXCEPT !.metadata = Metadata(p, Unbound)]
        PROVE  ~IsBound(workspace'.metadata)
    BY <2>1, <2>5 DEF Workspaces, IsBound, Metadata
  <2> QED
    BY <2>2, <2>3, <2>4, <2>5 DEF Environment, MovePullRequest, EditWorkspace, EditAsset
<1>5. TypeOK'
  BY EnvironmentType DEF IInv, TypeInv
<1>6. CommandOfStep' /\ InputIsKnown'
  BY <1>1 DEF IInv, TypeInv, CommandOfStep, InputIsKnown
<1>7. LiveWasSeen'
  BY <1>1, <1>3 DEF IInv, LiveWasSeen, Live
<1>8. VerifyInv'
  BY <1>1, <1>2 DEF IInv, VerifyInv, DocumentIsThere, CopyIsCurrent, CopyIsWhole, PatchIsRight,
                    DocumentIsRight
<1>9. FileInv'
  BY <1>1, <1>2, <1>4 DEF IInv, FileInv, NothingWritten, FailedCommandChangesNothing, Unfinished,
                          IsBound
<1> QED
  BY <1>5, <1>6, <1>7, <1>8, <1>9 DEF IInv, TypeInv

LEMMA InitRest == Init => IInv
<1> SUFFICES ASSUME Init PROVE IInv
  OBVIOUS
<1>1. TypeOK
  BY InitType
<1>2. CommandOfStep /\ InputIsKnown /\ LiveWasSeen
  BY DEF Init, CommandOfStep, InputIsKnown, LiveWasSeen
<1>3. VerifyInv
  BY DEF Init, VerifyInv, DocumentIsThere, CopyIsCurrent, CopyIsWhole, PatchIsRight,
         DocumentIsRight, Unbound
<1>4. FileInv
  BY DEF Init, FileInv, NothingWritten, FailedCommandChangesNothing, Unfinished
<1> QED
  BY <1>1, <1>2, <1>3, <1>4 DEF IInv, TypeInv

LEMMA NextKeeps ==
  ASSUME IInv, Next
  PROVE  IInv'
<1>1. CASE \E c \in Commands, p \in Pairs : Start(c, p)
  BY <1>1, StartRest
<1>2. CASE Environment
  BY <1>2, EnvironmentRest
<1>3. CASE Step
  <2>1. CASE Looks
    BY <2>1, LooksRest
  <2>2. CASE ComputeDiff
    BY <2>2, DiffRest
  <2>3. CASE MakeDirectory
    BY <2>3, MakeRest
  <2>4. CASE WritePatch \/ WriteMetadata
    BY <2>4, WriteRest
  <2>5. CASE CleanUp
    BY <2>5, CleanUpRest
  <2>6. CASE ReadMetadata
    BY <2>6, ReadRest
  <2>7. CASE \E a \in Assets : HashAsset(a)
    BY <2>7, HashRest
  <2>8. CASE WriteBinding \/ CloseBinding
    BY <2>8, BindRest
  <2> QED
    BY <1>3, <2>1, <2>2, <2>3, <2>4, <2>5, <2>6, <2>7, <2>8 DEF Step, Looks
<1> QED
  BY <1>1, <1>2, <1>3 DEF Next

LEMMA StutterKeeps ==
  ASSUME IInv, UNCHANGED vars
  PROVE  IInv'
<1> USE DEF IInv, vars, world, local, history
<1>1. TypeOK'
  BY DEF TypeInv, TypeOK
<1>2. CommandOfStep' /\ InputIsKnown'
  BY DEF TypeInv, CommandOfStep, InputIsKnown
<1>3. LiveWasSeen'
  BY DEF LiveWasSeen, Live
<1>4. VerifyInv'
  BY DEF VerifyInv, DocumentIsThere, CopyIsCurrent, CopyIsWhole, PatchIsRight, DocumentIsRight
<1>5. FileInv'
  BY DEF FileInv, NothingWritten, FailedCommandChangesNothing, Unfinished, IsBound
<1> QED
  BY <1>1, <1>2, <1>3, <1>4, <1>5 DEF TypeInv

-----------------------------------------------------------------------------
(* The theorems.                                                            *)

\* The inductive invariant holds whatever the commands meet.
THEOREM Inductive == Spec => []IInv
<1>1. Init => IInv
  BY InitRest
<1>2. IInv /\ [Next]_vars => IInv'
  BY NextKeeps, StutterKeeps
<1> QED
  BY <1>1, <1>2, PTL DEF Spec

\* Every variable keeps its type.
THEOREM TypeCorrect == Spec => []TypeOK
<1>1. IInv => TypeOK
  BY DEF IInv, TypeInv
<1> QED
  BY <1>1, Inductive, PTL

\* verify: a success means that the directory holds the expected review, bound
\* to the assets as they are.
LEMMA Verified == IInv => VerifiedIsTrue
<1> SUFFICES ASSUME IInv, pc = "ok", command = "verify", ~touched
             PROVE  workspace =
                      [there |-> TRUE, patch |-> pair, metadata |-> Metadata(pair, asset)]
  BY DEF VerifiedIsTrue
<1>1. \A a \in Assets : copy[a] = asset[a]
  BY DEF IInv, VerifyInv, CopyIsWhole, CopyIsCurrent
<1>2. copy = asset
  BY <1>1 DEF IInv, TypeInv, TypeOK, Digests
<1>3. workspace.metadata = Metadata(pair, asset) /\ workspace.metadata # None
  BY <1>2 DEF IInv, VerifyInv, DocumentIsThere, DocumentIsRight
<1>4. workspace.patch = pair
  BY DEF IInv, VerifyInv, PatchIsRight
<1>5. workspace.there = TRUE
  <2>1. workspace # Empty
    BY <1>3 DEF Empty
  <2>2. workspace.there \in BOOLEAN /\ workspace.there
    BY <2>1 DEF IInv, TypeInv, TypeOK, Workspaces
  <2> QED
    BY <2>2, Zenon
<1>6. workspace = [there |-> workspace.there, patch |-> workspace.patch,
                   metadata |-> workspace.metadata]
  BY DEF IInv, TypeInv, TypeOK, Workspaces
<1> QED
  BY <1>3, <1>4, <1>5, <1>6

THEOREM VerifiedTheorem == Spec => []VerifiedIsTrue
BY Verified, Inductive, PTL

\* read_live_pull_request: a command that succeeds saw the pull request as
\* expected after it had computed the diff.
THEOREM LiveTheorem == Spec => []ReviewWasLive
<1>1. IInv => ReviewWasLive
  BY DEF IInv, LiveWasSeen, ReviewWasLive
<1> QED
  BY <1>1, Inductive, PTL

\* write_materialized_workspace, bind_assets: a command that fails leaves the
\* directory as it was.
THEOREM FailureTheorem == Spec => []FailedCommandChangesNothing
<1>1. IInv => FailedCommandChangesNothing
  BY DEF IInv, FileInv
<1> QED
  BY <1>1, Inductive, PTL

\* No command changes a bound review.
LEMMA StepKeepsBound ==
  ASSUME IInv, Next, moves' = moves, workspace.metadata # None, IsBound(workspace.metadata)
  PROVE  UNCHANGED workspace
<1>1. ~Environment
  BY DEF Environment, IInv, TypeInv, TypeOK
<1>2. CASE \E c \in Commands, p \in Pairs : Start(c, p)
  BY <1>2 DEF Start
<1>3. CASE Looks
  BY <1>3, LooksChangeNothing
<1>4. CASE ComputeDiff \/ ReadMetadata \/ CloseBinding \/ \E a \in Assets : HashAsset(a)
  BY <1>4 DEF ComputeDiff, ReadMetadata, CloseBinding, HashAsset
<1>5. ~MakeDirectory
  BY DEF MakeDirectory, Empty, IInv, TypeInv, TypeOK
<1>6. ~(WritePatch \/ WriteMetadata \/ CleanUp \/ WriteBinding)
  BY DEF WritePatch, WriteMetadata, CleanUp, WriteBinding, IInv, FileInv, Unfinished
<1> QED
  BY <1>1, <1>2, <1>3, <1>4, <1>5, <1>6 DEF Next, Step, Looks

THEOREM BoundTheorem == Spec => BoundReviewIsKept
<1>1. IInv /\ [Next]_vars =>
        [moves' = moves /\ workspace.metadata # None /\ IsBound(workspace.metadata)
           => UNCHANGED workspace]_vars
  BY StepKeepsBound
<1> QED
  BY <1>1, Inductive, PTL DEF Spec, BoundReviewIsKept

-----------------------------------------------------------------------------
(* git_output, which reads the diff of ComputeDiff.  The invariant relates *)
(* what was taken from the pipe to what was kept, and says what it means   *)
(* that a stream is no longer watched or no longer open.                   *)


\* What is kept is what was taken, cut below the limit; reaching the limit is
\* remembered.
Kept ==
  /\ taken < MaxBytes => stdout = taken
  /\ taken >= MaxBytes => stdout = MaxBytes - 1
  /\ exceeded <=> taken >= MaxBytes

\* A stream that is not watched any more was closed and is empty.
Drained ==
  /\ "stdout" \notin registered => "stdout" \notin open /\ taken = sent
  /\ step = "wait" => registered = {}

\* How Git may have ended.
ChildEnd ==
  /\ child = "zero" => sent = output
  /\ child = "killed" => exceeded \/ step = "ended"
  /\ step = "ended" => ~Running
  /\ step # "ended" => result = "none"

OutputIInv ==
  /\ OutputTypeOK /\ Kept /\ Drained /\ ChildEnd
  /\ OutputIsComplete /\ LegalOutputIsAccepted

\* The smaller of two numbers.
LEMMA MinOfTwo ==
  ASSUME NEW a \in Int, NEW b \in Int
  PROVE  Min({a, b}) = IF a <= b THEN a ELSE b
<1> DEFINE m == IF a <= b THEN a ELSE b
<1>1. m \in {a, b} /\ \A y \in {a, b} : m <= y
  OBVIOUS
<1>2. \A x \in {a, b} : (\A y \in {a, b} : x <= y) => x = m
  OBVIOUS
<1> QED
  BY <1>1, <1>2 DEF Min

\* In every state of the invariant at least one byte can be asked for, and at
\* most one more than may be kept.
LEMMA Room ==
  ASSUME OutputTypeOK, Kept
  PROVE  /\ Allowed \in Nat /\ ReadSize \in Nat \ {0}
         /\ ReadSize <= Allowed + 1
<1>1. stdout \in Nat /\ stdout <= MaxBytes - 1
  BY OutputAssumption DEF OutputTypeOK, Kept
<1>2. Allowed \in Nat
  BY <1>1, OutputAssumption DEF Allowed
<1>3. Chunk \in Int /\ Allowed + 1 \in Int
  BY <1>2, OutputAssumption
<1>4. ReadSize = IF Chunk <= Allowed + 1 THEN Chunk ELSE Allowed + 1
  BY <1>3, MinOfTwo DEF ReadSize
<1> QED
  BY <1>2, <1>4, OutputAssumption

\* The initial states satisfy the inductive invariant.
LEMMA OutputInitEstablishes == OutputInit => OutputIInv
<1> SUFFICES ASSUME OutputInit PROVE OutputIInv
  OBVIOUS
<1> USE OutputAssumption DEF OutputInit, Streams
<1>1. OutputTypeOK
  <2>1. output \in 0..MaxOutput /\ sent \in 0..output /\ taken \in 0..sent
    OBVIOUS
  <2>2. stdout \in 0..taken /\ stdout < MaxBytes /\ time \in 0..Timeout
    OBVIOUS
  <2>3. open \subseteq Streams /\ registered \subseteq Streams
    OBVIOUS
  <2> QED
    BY <2>1, <2>2, <2>3 DEF OutputTypeOK
<1>2. Kept
  BY DEF Kept
<1>3. Drained /\ ChildEnd
  BY DEF Drained, ChildEnd, Running
<1> QED
  BY <1>1, <1>2, <1>3 DEF OutputIInv, OutputIsComplete, LegalOutputIsAccepted

\* A piece read keeps the invariant: it is kept up to the limit, and the first
\* byte too many is remembered and kills Git.
LEMMA ReadKeepsInvariant ==
  ASSUME OutputIInv, ReadOutput
  PROVE  OutputIInv'
<1>1. PICK n \in 1..Min({ReadSize, InPipe}) :
         /\ taken' = taken + n
         /\ stdout' = stdout + Min({n, Allowed})
         /\ exceeded' = (exceeded \/ n > Allowed)
         /\ child' = IF n > Allowed THEN Killed ELSE child
  BY DEF ReadOutput
<1>2. /\ taken \in Nat /\ stdout \in Nat /\ sent \in Nat /\ output \in Nat
      /\ taken <= sent /\ sent <= output /\ stdout <= taken /\ stdout < MaxBytes
      /\ MaxBytes \in Nat
  BY OutputAssumption DEF OutputIInv, OutputTypeOK
<1>3. Allowed \in Nat /\ ReadSize \in Nat \ {0} /\ ReadSize <= Allowed + 1
  BY Room DEF OutputIInv
<1>4. InPipe \in Nat
  BY <1>2 DEF InPipe
<1>5. n \in Nat \ {0} /\ n <= ReadSize /\ n <= InPipe
  BY <1>3, <1>4, MinOfTwo
<1>6. Min({n, Allowed}) = IF n <= Allowed THEN n ELSE Allowed
  BY <1>3, <1>5, MinOfTwo
<1>7. taken' \in Nat /\ taken' <= sent
  BY <1>1, <1>2, <1>4, <1>5 DEF InPipe
<1>8. /\ stdout' \in Nat /\ stdout' <= taken' /\ stdout' < MaxBytes
      /\ stdout' = IF n <= Allowed THEN stdout + n ELSE MaxBytes - 1
  BY <1>1, <1>2, <1>3, <1>5, <1>6 DEF Allowed
<1>9. Kept'
  <2>1. CASE n <= Allowed
    <3>1. taken < MaxBytes
      BY <1>2, <1>5, <2>1 DEF OutputIInv, Kept, Allowed
    <3>2. taken' < MaxBytes /\ stdout' = taken' /\ ~exceeded'
      BY <1>1, <1>2, <1>5, <1>8, <2>1, <3>1 DEF OutputIInv, Kept, OutputTypeOK, Allowed
    <3> QED
      BY <1>2, <1>7, <3>2 DEF Kept
  <2>2. CASE n > Allowed
    <3>1. taken' >= MaxBytes
      BY <1>1, <1>2, <1>5, <2>2 DEF OutputIInv, Kept, Allowed
    <3>2. stdout' = MaxBytes - 1
      BY <1>3, <1>5, <1>8, <2>2
    <3>3. exceeded' = TRUE
      BY <1>1, <2>2
    <3> QED
      BY <1>2, <1>7, <3>1, <3>2, <3>3 DEF Kept
  <2> QED
    BY <1>3, <1>5, <2>1, <2>2
<1>10. OutputTypeOK'
  BY <1>1, <1>2, <1>7, <1>8 DEF OutputIInv, OutputTypeOK, ReadOutput, Killed
<1>11. Drained'
  BY DEF OutputIInv, Drained, ReadOutput
<1>12. ChildEnd'
  BY <1>1 DEF OutputIInv, ChildEnd, ReadOutput, Killed, Running
<1> QED
  BY <1>9, <1>10, <1>11, <1>12
  DEF OutputIInv, ChildEnd, ReadOutput, OutputIsComplete, LegalOutputIsAccepted

\* The end of a stream is reached when it is closed and empty: a read of no
\* bytes cannot happen.
LEMMA EndOfStreamKeepsInvariant ==
  ASSUME OutputIInv, NEW s \in Streams, EndOfStream(s)
  PROVE  OutputIInv'
<1>1. ReadSize # 0
  BY Room DEF OutputIInv
<1>2. s = "stdout" => s \notin open /\ taken = sent
  BY <1>1 DEF EndOfStream, InPipe, OutputIInv, OutputTypeOK
<1>3. OutputTypeOK' /\ Kept' /\ ChildEnd'
  BY DEF OutputIInv, OutputTypeOK, Kept, ChildEnd, EndOfStream, git, Running
<1>4. Drained'
  BY <1>2 DEF OutputIInv, Drained, EndOfStream, git
<1> QED
  BY <1>3, <1>4 DEF OutputIInv, EndOfStream, git, OutputIsComplete, LegalOutputIsAccepted, Expired

\* Git and its descendants disturb none of it.
LEMMA GitKeepsInvariant ==
  ASSUME OutputIInv, Git
  PROVE  OutputIInv'
<1> USE DEF OutputIInv, caller
<1>1. CASE WriteOutput
  <2>1. PICK n \in 1..Min({output - sent, Capacity - InPipe}) : sent' = sent + n
    BY <1>1 DEF WriteOutput
  <2>2. /\ taken \in Nat /\ sent \in Nat /\ output \in Nat
        /\ taken <= sent /\ sent <= output
    BY DEF OutputTypeOK
  <2>3. output - sent \in Int /\ Capacity - InPipe \in Int
    BY <2>2, OutputAssumption DEF InPipe
  <2>4. n \in Nat /\ n <= output - sent
    BY <2>3, MinOfTwo
  <2>5. OutputTypeOK'
    BY <1>1, <2>1, <2>2, <2>4 DEF OutputTypeOK, WriteOutput
  <2>6. Kept' /\ Drained' /\ ChildEnd'
    BY <1>1 DEF WriteOutput, Kept, Drained, ChildEnd, Running
  <2> QED
    BY <1>1, <2>5, <2>6
    DEF WriteOutput, OutputIsComplete, LegalOutputIsAccepted, ChildEnd, Expired, Running
<1>2. ASSUME NEW status \in {"zero", "nonzero"}, Exit(status) PROVE OutputIInv'
  BY <1>2 DEF Exit, OutputTypeOK, Kept, Drained, ChildEnd, OutputIsComplete, LegalOutputIsAccepted,
             Running, Expired
<1>3. ASSUME NEW s \in Streams, CloseStream(s) PROVE OutputIInv'
  BY <1>3 DEF CloseStream, OutputTypeOK, Kept, Drained, ChildEnd, OutputIsComplete,
             LegalOutputIsAccepted, Running, Expired
<1> QED
  BY <1>1, <1>2, <1>3 DEF Git

\* Every step keeps the inductive invariant.
LEMMA OutputStepKeepsInvariant == OutputIInv /\ [OutputNext]_outputVars => OutputIInv'
<1> SUFFICES ASSUME OutputIInv, [OutputNext]_outputVars PROVE OutputIInv'
  OBVIOUS
<1>1. CASE Git
  BY <1>1, GitKeepsInvariant
<1>2. CASE ReadOutput
  BY <1>2, ReadKeepsInvariant
<1>3. ASSUME NEW s \in Streams, EndOfStream(s) PROVE OutputIInv'
  BY <1>3, EndOfStreamKeepsInvariant
<1>4. CASE TimeOut
  BY <1>4 DEF TimeOut, DeadlinePassed, OutputIInv, OutputTypeOK, Kept, Drained, ChildEnd,
             OutputIsComplete, LegalOutputIsAccepted, Running, Killed, Expired
<1>5. CASE LeaveLoop
  BY <1>5 DEF LeaveLoop, git, OutputIInv, OutputTypeOK, Kept, Drained, ChildEnd, OutputIsComplete,
             LegalOutputIsAccepted, Running, Expired
<1>6. CASE WaitForGit
  <2> USE <1>6 DEF WaitForGit, git, OutputIInv
  <2>1. OutputTypeOK' /\ Kept' /\ Drained' /\ ChildEnd'
    BY DEF OutputTypeOK, Kept, Drained, ChildEnd, Running
  <2>2. OutputIsComplete'
    BY OutputAssumption DEF OutputIsComplete, Accepted, OutputTypeOK, Kept, Drained, ChildEnd
  <2>3. LegalOutputIsAccepted'
    BY OutputAssumption
    DEF LegalOutputIsAccepted, Accepted, OutputTypeOK, Kept, ChildEnd, Running, Expired
  <2> QED
    BY <2>1, <2>2, <2>3
<1>7. CASE Raise
  BY <1>7 DEF Raise, Reaped, OutputIInv, OutputTypeOK, Kept, Drained, ChildEnd, OutputIsComplete,
             LegalOutputIsAccepted, Running, Killed
<1>8. CASE Tick
  BY <1>8, OutputAssumption
  DEF Tick, git, caller, OutputIInv, OutputTypeOK, Kept, Drained, ChildEnd, OutputIsComplete,
      LegalOutputIsAccepted, Running
<1>9. CASE UNCHANGED outputVars
  BY <1>9 DEF outputVars, git, caller, OutputIInv, OutputTypeOK, Kept, Drained, ChildEnd,
             OutputIsComplete, LegalOutputIsAccepted, Running, Expired
<1> QED
  BY <1>1, <1>2, <1>3, <1>4, <1>5, <1>6, <1>7, <1>8, <1>9 DEF OutputNext, Call

\* The inductive invariant holds in every reachable state.
THEOREM OutputInvariance == OutputSpec => []OutputIInv
  BY OutputInitEstablishes, OutputStepKeepsInvariant, PTL DEF OutputSpec

\* Every variable keeps its type, and what is kept stays below the limit.
THEOREM OutputTypeCorrect == OutputSpec => []OutputTypeOK
<1>1. OutputIInv => OutputTypeOK
  BY DEF OutputIInv
<1> QED
  BY <1>1, OutputInvariance, PTL

\* git_output never returns a truncated diff, nor one at or above the limit.
THEOREM CompleteOutput == OutputSpec => []OutputIsComplete
<1>1. OutputIInv => OutputIsComplete
  BY DEF OutputIInv
<1> QED
  BY <1>1, OutputInvariance, PTL

\* git_output refuses no diff below the limit of a Git that succeeds in time.
THEOREM LegalOutput == OutputSpec => []LegalOutputIsAccepted
<1>1. OutputIInv => LegalOutputIsAccepted
  BY DEF OutputIInv
<1> QED
  BY <1>1, OutputInvariance, PTL

\* However the call ends, Git has ended.
THEOREM GitEnds == OutputSpec => []GitIsReaped
<1>1. OutputIInv => GitIsReaped
  BY DEF OutputIInv, ChildEnd, GitIsReaped
<1> QED
  BY <1>1, OutputInvariance, PTL

=============================================================================
