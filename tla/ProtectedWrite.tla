---------------------------- MODULE ProtectedWrite ----------------------------
(***************************************************************************)
(* scripts/materialize-exact-revision-review.py: writers that replace one  *)
(* file below an owned directory, each through a temporary file with a     *)
(* random name, and readers of that file.  Any system call may fail, a     *)
(* write may store something else than it was given, and a process may be  *)
(* killed anywhere.                                                        *)
(***************************************************************************)
EXTENDS Naturals

CONSTANTS
  Writers, Readers,  \* one call each
  Initial,           \* the inode the file may have at first
  None,
  Size               \* bound: pieces os.write splits a payload into

ASSUME ConstantsAssumption ==
  /\ Size \in Nat \ {0}
  /\ Initial \notin Writers /\ None \notin Writers /\ Initial # None
  /\ Writers \cap Readers = {}

\* Every call creates one inode; it is named after its writer.
Inodes == Writers \cup {Initial}

VARIABLES
  target,  \* the inode the file name denotes
  names,   \* writers whose temporary name exists
  stored,  \* inode -> pieces in it
  sound,   \* inode -> the pieces in it are those of the payload
  pc,      \* call -> next step
  fd,      \* reader -> the inode it has open
  size,    \* reader -> pieces fstat saw
  got,     \* reader -> what it read: pieces, and whether they are a payload's
  broken,    \* history: calls of which a clean-up command failed
  committed  \* history: writers that have replaced the file

disk == <<target, names, stored, sound>>
reads == <<fd, size, got>>
history == <<broken, committed>>
vars == <<disk, pc, reads, history>>

Ended == {"done", "failed", "killed"}
Goto(c, step) == pc' = [pc EXCEPT ![c] = step]
Whole(i) == stored[i] = Size /\ sound[i]

-----------------------------------------------------------------------------
(* write_owned_regular_file.                                               *)

\* Fault: a failing fsync of the directory is reported.
DurabilitySteps == {"target", "create", "write", "compare", "replace", "close"}
FallibleSteps == {"target", "create", "write", "compare", "replace"}

\* A condition that does not hold or a call that fails: the finally clause
\* unlinks the temporary name whether it was created or not.
FailWrite(w) ==
  /\ pc[w] \in FallibleSteps
  /\ Goto(w, "unlink")
  /\ UNCHANGED <<disk, reads, history>>

OpenParent(w) ==
  /\ pc[w] = "parent"
  /\ Goto(w, "target") \/ Goto(w, "failed")
  /\ UNCHANGED <<disk, reads, history>>

\* The file must not be there, or be a single regular file of the user.
InspectTarget(w) ==
  /\ pc[w] = "target"
  /\ Goto(w, "create")
  /\ UNCHANGED <<disk, reads, history>>

CreateTemporary(w) ==
  /\ pc[w] = "create"
  /\ names' = names \cup {w}
  /\ Goto(w, "write")
  /\ UNCHANGED <<target, stored, sound, reads, history>>

Remaining(w) == Size - stored[w]
\* os.write stores a part and says how much; fsync follows the last one.
WritePiece(w) ==
  /\ pc[w] = "write"
  /\ \E n \in 1..Remaining(w), good \in BOOLEAN :
       /\ stored' = [stored EXCEPT ![w] = @ + n]
       /\ sound' = [sound EXCEPT ![w] = @ /\ good]
       /\ Goto(w, IF stored[w] + n = Size THEN "compare" ELSE "write")
  /\ UNCHANGED <<target, names, reads, history>>

\* Fault: only the size of the temporary file is checked.
SameSize(w) == stored[w] = Size
\* The file is read back and compared before it is renamed.
SameContent(w) == Whole(w)

CompareTemporary(w) ==
  /\ pc[w] = "compare" /\ SameContent(w)
  /\ Goto(w, "replace")
  /\ UNCHANGED <<disk, reads, history>>

\* os.replace: the commit point.
Replace(w) ==
  /\ pc[w] = "replace"
  /\ target' = w
  /\ names' = names \ {w}
  /\ committed' = committed \cup {w}
  /\ Goto(w, "close")
  /\ UNCHANGED <<stored, sound, reads, broken>>

\* A failing fsync of the directory is ignored, a failing close is not.
CloseParent(w) ==
  /\ pc[w] = "close"
  /\ \/ Goto(w, "done") /\ UNCHANGED broken
     \/ Goto(w, "failed") /\ broken' = broken \cup {w}
  /\ UNCHANGED <<disk, reads, committed>>

CleanedNames(w) == names \ {w}

UnlinkTemporary(w) ==
  /\ pc[w] = "unlink"
  /\ \/ names' = CleanedNames(w) /\ UNCHANGED broken
     \/ w \in names /\ UNCHANGED names /\ broken' = broken \cup {w}
  /\ Goto(w, "failed")
  /\ UNCHANGED <<target, stored, sound, reads, committed>>

-----------------------------------------------------------------------------
(* protected_asset_bytes.                                                  *)

FailRead(r) ==
  /\ pc[r] \in {"open", "fstat", "read", "check"}
  /\ Goto(r, "failed")
  /\ UNCHANGED <<disk, reads, history>>

\* The descriptor stays with the inode when the name is replaced.
OpenFile(r) ==
  /\ pc[r] = "open" /\ target # None
  /\ fd' = [fd EXCEPT ![r] = target]
  /\ Goto(r, "fstat")
  /\ UNCHANGED <<disk, size, got, history>>

StatFile(r) ==
  /\ pc[r] = "fstat"
  /\ size' = [size EXCEPT ![r] = stored[fd[r]]]
  /\ Goto(r, "read")
  /\ UNCHANGED <<disk, fd, got, history>>

\* Fault: the name is opened again for reading.
NamedInode(r) == target
OpenInode(r) == fd[r]

ReadFile(r) ==
  /\ pc[r] = "read"
  /\ got' = [got EXCEPT ![r] = [inode |-> OpenInode(r), stored |-> stored[OpenInode(r)],
                                 sound |-> sound[OpenInode(r)]]]
  /\ Goto(r, "check")
  /\ UNCHANGED <<disk, fd, size, history>>

CheckSize(r) ==
  /\ pc[r] = "check" /\ got[r].stored = size[r]
  /\ \/ Goto(r, "done") /\ UNCHANGED broken
     \/ Goto(r, "failed") /\ broken' = broken \cup {r}
  /\ UNCHANGED <<disk, reads, committed>>

-----------------------------------------------------------------------------
Kill(c) ==
  /\ pc[c] \notin Ended
  /\ Goto(c, "killed")
  /\ UNCHANGED <<disk, reads, history>>

Init ==
  /\ target \in {Initial, None}
  /\ names = {}
  /\ stored = [i \in Inodes |-> IF i = Initial THEN Size ELSE 0]
  /\ sound = [i \in Inodes |-> TRUE]
  /\ pc = [c \in Writers \cup Readers |-> IF c \in Writers THEN "parent" ELSE "open"]
  /\ fd = [r \in Readers |-> None]
  /\ size = [r \in Readers |-> 0]
  /\ got = [r \in Readers |-> None]
  /\ broken = {} /\ committed = {}

WriteStep(w) ==
  \/ FailWrite(w) \/ OpenParent(w) \/ InspectTarget(w) \/ CreateTemporary(w)
  \/ WritePiece(w) \/ CompareTemporary(w) \/ Replace(w) \/ CloseParent(w)
  \/ UnlinkTemporary(w)

ReadStep(r) ==
  FailRead(r) \/ OpenFile(r) \/ StatFile(r) \/ ReadFile(r) \/ CheckSize(r)

Next ==
  \/ \E w \in Writers : WriteStep(w)
  \/ \E r \in Readers : ReadStep(r)
  \/ \E c \in Writers \cup Readers : Kill(c)

Spec == Init /\ [][Next]_vars

WriteSteps == {"parent", "target", "create", "write", "compare", "replace",
               "close", "unlink"}
ReadSteps == {"open", "fstat", "read", "check"}
Readings == [inode : Inodes, stored : 0..Size, sound : BOOLEAN]

\* Every variable has its type.
TypeOK ==
  /\ target \in Inodes \cup {None}
  /\ names \subseteq Writers
  /\ stored \in [Inodes -> 0..Size]
  /\ sound \in [Inodes -> BOOLEAN]
  /\ pc \in [Writers \cup Readers -> WriteSteps \cup ReadSteps \cup Ended]
  /\ fd \in [Readers -> Inodes \cup {None}]
  /\ size \in [Readers -> 0..Size]
  /\ got \in [Readers -> Readings \cup {None}]
  /\ broken \subseteq Writers \cup Readers /\ committed \subseteq Writers

-----------------------------------------------------------------------------
(* What the two functions must guarantee.                                  *)

\* write_owned_regular_file: the file never holds a part of a payload or
\* something else than a payload, also when a writer is killed.
TargetIsWhole == target # None => Whole(target)

\* protected_asset_bytes: a read that succeeds returns one whole payload,
\* also when the file is replaced while it is read.
ReadsAreWhole ==
  \A r \in Readers : pc[r] = "done" => got[r].stored = Size /\ got[r].sound

\* The finally clause: a call that ended by itself leaves no temporary file,
\* unless unlinking it failed.
TemporaryIsRemoved ==
  \A w \in Writers : pc[w] \in {"done", "failed"} /\ w \notin broken => w \notin names

\* A write that reports a failure has not replaced the file, unless only
\* closing the directory failed: a caller may try again.
FailedWriteKeepsFile ==
  \A w \in Writers : pc[w] = "failed" /\ w \notin broken => w \notin committed

\* What the file holds, as a reader could tell.
Holds(i) == IF i # None /\ ~Whole(i) THEN "torn" ELSE i

Promise == INSTANCE AtomicFile WITH
  content <- Holds(target),
  written <- committed,
  seen <- [r \in Readers |-> IF got[r] # None THEN got[r].inode ELSE Holds(fd[r])]

\* Writes and reads of the file are atomic: a write takes effect when it
\* renames, a read when it opens the file, whatever fails or is killed.
ImplementsAtomicFile == Promise!Spec

=============================================================================
