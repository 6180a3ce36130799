------------------------- MODULE ProtectedWriteProofs -------------------------
(***************************************************************************)
(* Proofs about ProtectedWrite for any number of writers and readers and   *)
(* any payload size.  The inductive invariant says what a call has reached *)
(* at each of its steps; a file that is named or open was committed whole. *)
(***************************************************************************)
EXTENDS ProtectedWrite, TLAPS

\* What a writer has reached: it renames a whole file only, has committed only
\* from there on, and its temporary name goes before it ends by itself.
WriterInv ==
  \A w \in Writers :
    /\ pc[w] = "replace" => Whole(w)
    /\ w \in committed => /\ Whole(w)
                          /\ pc[w] \in {"close", "done", "failed", "killed"}
                          /\ pc[w] = "failed" => w \in broken
    /\ w \in names => \/ pc[w] \in {"write", "compare", "replace", "unlink", "killed"}
                      \/ w \in broken

\* The file name denotes nothing, the first file or a committed one.
FileInv ==
  /\ Whole(Initial)
  /\ target \in committed \cup {Initial, None}

\* What a reader has reached: the inode it has open was named once.
ReaderInv ==
  \A r \in Readers :
    /\ fd[r] \in committed \cup {Initial, None}
    /\ pc[r] = "open" => fd[r] = None
    /\ pc[r] \in {"open", "fstat", "read"} => got[r] = None
    /\ pc[r] \in {"fstat", "read", "check", "done"} => fd[r] # None
    /\ pc[r] \in {"check", "done"} => got[r].stored = Size /\ got[r].sound
    /\ got[r] # None => got[r].inode = fd[r]

IInv == TypeOK /\ WriterInv /\ FileInv /\ ReaderInv

\* The initial states satisfy the inductive invariant.
LEMMA InitEstablishes == Init => IInv
  BY ConstantsAssumption
  DEF Init, IInv, TypeOK, WriterInv, FileInv, ReaderInv, Whole, Inodes, WriteSteps,
      ReadSteps, Ended, Readings

\* A step of a writer keeps every variable in its type.
LEMMA WriteKeepsType ==
  ASSUME TypeOK, NEW w \in Writers, WriteStep(w)
  PROVE  TypeOK'
<1> USE ConstantsAssumption DEF TypeOK, Goto, Inodes
<1>1. CASE FailWrite(w)
  BY <1>1 DEF FailWrite, disk, reads, history, WriteSteps
<1>2. CASE OpenParent(w)
  BY <1>2 DEF OpenParent, disk, reads, history, WriteSteps, Ended
<1>3. CASE InspectTarget(w)
  BY <1>3 DEF InspectTarget, disk, reads, history, WriteSteps
<1>4. CASE CreateTemporary(w)
  BY <1>4 DEF CreateTemporary, reads, history, WriteSteps
<1>5. CASE WritePiece(w)
  <2> USE <1>5 DEF WritePiece, reads, history, WriteSteps
  <2>1. PICK n \in 1..Remaining(w), good \in BOOLEAN :
           /\ stored' = [stored EXCEPT ![w] = @ + n]
           /\ sound' = [sound EXCEPT ![w] = @ /\ good]
           /\ Goto(w, IF stored[w] + n = Size THEN "compare" ELSE "write")
    OBVIOUS
  <2>2. stored' \in [Inodes -> 0..Size]
    BY <2>1 DEF Remaining
  <2>3. sound' \in [Inodes -> BOOLEAN]
    <3>1. (sound[w] /\ good) \in BOOLEAN
      OBVIOUS
    <3>2. QED
      BY <2>1, <3>1
  <2>4. pc' \in [Writers \cup Readers -> WriteSteps \cup ReadSteps \cup Ended]
    BY <2>1
  <2>5. QED
    BY <2>2, <2>3, <2>4
<1>6. CASE CompareTemporary(w)
  BY <1>6 DEF CompareTemporary, disk, reads, history, WriteSteps
<1>7. CASE Replace(w)
  BY <1>7 DEF Replace, reads, WriteSteps
<1>8. CASE CloseParent(w)
  BY <1>8 DEF CloseParent, disk, reads, Ended
<1>9. CASE UnlinkTemporary(w)
  BY <1>9 DEF UnlinkTemporary, CleanedNames, reads, Ended
<1>10. QED
  BY <1>1, <1>2, <1>3, <1>4, <1>5, <1>6, <1>7, <1>8, <1>9 DEF WriteStep

\* A step of a reader keeps every variable in its type; what it opens is there.
LEMMA ReadKeepsType ==
  ASSUME IInv, NEW r \in Readers, ReadStep(r)
  PROVE  TypeOK'
<1> USE ConstantsAssumption DEF TypeOK, IInv, Goto, Inodes
<1>1. CASE FailRead(r)
  BY <1>1 DEF FailRead, disk, reads, history, Ended
<1>2. CASE OpenFile(r)
  BY <1>2 DEF OpenFile, disk, history, ReadSteps
<1>3. CASE StatFile(r)
  <2>1. fd[r] \in Inodes
    BY <1>3 DEF StatFile, ReaderInv
  <2>2. QED
    BY <1>3, <2>1 DEF StatFile, disk, history, ReadSteps
<1>4. CASE ReadFile(r)
  <2>1. fd[r] \in Inodes
    BY <1>4 DEF ReadFile, ReaderInv
  <2>2. [inode |-> fd[r], stored |-> stored[fd[r]], sound |-> sound[fd[r]]] \in Readings
    BY <2>1 DEF Readings
  <2>3. QED
    BY <1>4, <2>2 DEF ReadFile, OpenInode, disk, history, ReadSteps
<1>5. CASE CheckSize(r)
  BY <1>5 DEF CheckSize, disk, reads, Ended
<1>6. QED
  BY <1>1, <1>2, <1>3, <1>4, <1>5 DEF ReadStep

\* A step of a writer keeps what every writer has reached: it writes into its
\* own inode only, and before it commits it.
LEMMA WriteKeepsWriters ==
  ASSUME IInv, NEW w \in Writers, WriteStep(w)
  PROVE  WriterInv'
<1> USE ConstantsAssumption DEF IInv, TypeOK, Goto, Inodes, Whole
<1> SUFFICES ASSUME NEW v \in Writers
             PROVE  /\ pc'[v] = "replace" => Whole(v)'
                    /\ v \in committed' => /\ Whole(v)'
                                           /\ pc'[v] \in {"close", "done", "failed", "killed"}
                                           /\ pc'[v] = "failed" => v \in broken'
                    /\ v \in names' =>
                         \/ pc'[v] \in {"write", "compare", "replace", "unlink", "killed"}
                         \/ v \in broken'
  BY DEF WriterInv
<1>0. /\ pc[v] = "replace" => Whole(v)
      /\ v \in committed => /\ Whole(v)
                            /\ pc[v] \in {"close", "done", "failed", "killed"}
                            /\ pc[v] = "failed" => v \in broken
      /\ v \in names => \/ pc[v] \in {"write", "compare", "replace", "unlink", "killed"}
                        \/ v \in broken
  BY DEF WriterInv
<1>1. CASE FailWrite(w)
  BY <1>0, <1>1 DEF FailWrite, FallibleSteps, disk, history
<1>2. CASE OpenParent(w)
  BY <1>0, <1>2 DEF OpenParent, disk, history
<1>3. CASE InspectTarget(w)
  BY <1>0, <1>3 DEF InspectTarget, disk, history
<1>4. CASE CreateTemporary(w)
  BY <1>0, <1>4 DEF CreateTemporary, history
<1>5. CASE WritePiece(w)
  <2>1. PICK n \in 1..Remaining(w), good \in BOOLEAN :
           /\ stored' = [stored EXCEPT ![w] = @ + n]
           /\ sound' = [sound EXCEPT ![w] = @ /\ good]
           /\ Goto(w, IF stored[w] + n = Size THEN "compare" ELSE "write")
    BY <1>5 DEF WritePiece
  <2>2. v # w => stored'[v] = stored[v] /\ sound'[v] = sound[v] /\ pc'[v] = pc[v]
    BY <2>1
  <2>3. pc'[w] \in {"compare", "write"} /\ w \notin committed
    BY <2>1, <1>0, <1>5 DEF WritePiece, WriterInv
  <2>4. QED
    BY <1>0, <1>5, <2>2, <2>3 DEF WritePiece, history
<1>6. CASE CompareTemporary(w)
  BY <1>0, <1>6 DEF CompareTemporary, SameContent, disk, history
<1>7. CASE Replace(w)
  BY <1>0, <1>7 DEF Replace
<1>8. CASE CloseParent(w)
  BY <1>0, <1>8 DEF CloseParent, disk
<1>9. CASE UnlinkTemporary(w)
  BY <1>0, <1>9 DEF UnlinkTemporary, CleanedNames
<1>10. QED
  BY <1>1, <1>2, <1>3, <1>4, <1>5, <1>6, <1>7, <1>8, <1>9 DEF WriteStep

\* A step of a writer changes neither the first file nor a committed one, and
\* names its own inode only.
LEMMA WriteKeepsFile ==
  ASSUME IInv, NEW w \in Writers, WriteStep(w)
  PROVE  /\ FileInv'
         /\ committed \subseteq committed'
         /\ UNCHANGED reads
         /\ \A r \in Readers : pc'[r] = pc[r]
<1> USE ConstantsAssumption DEF IInv, TypeOK, Goto, Inodes
<1>1. CASE FailWrite(w)
  BY <1>1 DEF FailWrite, disk, history, FileInv, Whole
<1>2. CASE OpenParent(w)
  BY <1>2 DEF OpenParent, disk, history, FileInv, Whole
<1>3. CASE InspectTarget(w)
  BY <1>3 DEF InspectTarget, disk, history, FileInv, Whole
<1>4. CASE CreateTemporary(w)
  BY <1>4 DEF CreateTemporary, history, FileInv, Whole
<1>5. CASE WritePiece(w)
  <2>1. Whole(Initial)'
    BY <1>5 DEF WritePiece, FileInv, Whole
  <2>2. QED
    BY <1>5, <2>1 DEF WritePiece, history, FileInv
<1>6. CASE CompareTemporary(w)
  BY <1>6 DEF CompareTemporary, disk, history, FileInv, Whole
<1>7. CASE Replace(w)
  BY <1>7 DEF Replace, FileInv, Whole
<1>8. CASE CloseParent(w)
  BY <1>8 DEF CloseParent, disk, FileInv, Whole
<1>9. CASE UnlinkTemporary(w)
  BY <1>9 DEF UnlinkTemporary, FileInv, Whole
<1>10. QED
  BY <1>1, <1>2, <1>3, <1>4, <1>5, <1>6, <1>7, <1>8, <1>9 DEF WriteStep

\* A step of a writer leaves every reader with what it has reached.
LEMMA WriteKeepsReaders ==
  ASSUME IInv, NEW w \in Writers, WriteStep(w)
  PROVE  ReaderInv'
BY WriteKeepsFile DEF IInv, ReaderInv, reads

\* A step of a reader keeps what every reader has reached: it reads the inode
\* it opened, which is whole.
LEMMA ReadKeepsReaders ==
  ASSUME IInv, NEW r \in Readers, ReadStep(r)
  PROVE  ReaderInv'
<1> USE ConstantsAssumption DEF IInv, TypeOK, Goto, Inodes
<1>1. CASE FailRead(r)
  BY <1>1 DEF FailRead, disk, reads, history, ReaderInv
<1>2. CASE OpenFile(r)
  BY <1>2 DEF OpenFile, disk, history, FileInv, ReaderInv
<1>3. CASE StatFile(r)
  BY <1>3 DEF StatFile, disk, history, ReaderInv
<1>4. CASE ReadFile(r)
  <2>1. Whole(fd[r])
    BY <1>4 DEF ReadFile, ReaderInv, FileInv, WriterInv
  <2>2. got' = [got EXCEPT ![r] = [inode |-> fd[r], stored |-> Size, sound |-> TRUE]]
    BY <1>4, <2>1 DEF ReadFile, OpenInode, Whole, ReaderInv
  <2>3. QED
    BY <1>4, <2>2 DEF ReadFile, disk, history, ReaderInv
<1>5. CASE CheckSize(r)
  BY <1>5 DEF CheckSize, disk, reads, ReaderInv
<1>6. QED
  BY <1>1, <1>2, <1>3, <1>4, <1>5 DEF ReadStep

\* A step of a reader leaves the files and every writer alone.
LEMMA ReadKeepsRest ==
  ASSUME IInv, NEW r \in Readers, ReadStep(r)
  PROVE  WriterInv' /\ FileInv' /\ UNCHANGED <<target, committed>>
<1>1. /\ UNCHANGED <<disk, committed>>
      /\ broken \subseteq broken'
      /\ \A w \in Writers : pc'[w] = pc[w]
  BY ConstantsAssumption
  DEF IInv, TypeOK, Goto, ReadStep, FailRead, OpenFile, StatFile, ReadFile, CheckSize, history,
      disk
<1>2. QED
  BY <1>1 DEF IInv, WriterInv, FileInv, Whole, disk

\* Killing a call and a stuttering step keep the inductive invariant.
LEMMA KillKeeps ==
  ASSUME IInv, NEW c \in Writers \cup Readers, Kill(c)
  PROVE  IInv' /\ UNCHANGED <<target, committed, reads>>
<1> USE ConstantsAssumption DEF IInv, Kill, Goto, disk, reads, history
<1>1. TypeOK'
  BY DEF TypeOK, Ended
<1>2. WriterInv'
  BY DEF TypeOK, WriterInv, Whole, Ended
<1>3. FileInv'
  BY DEF FileInv, Whole
<1>4. ReaderInv'
  BY DEF TypeOK, ReaderInv
<1>5. QED
  BY <1>1, <1>2, <1>3, <1>4

\* Every step keeps the inductive invariant.
LEMMA NextKeeps == IInv /\ [Next]_vars => IInv'
<1> SUFFICES ASSUME IInv, [Next]_vars PROVE IInv'
  OBVIOUS
<1>1. ASSUME NEW w \in Writers, WriteStep(w) PROVE IInv'
  BY <1>1, WriteKeepsType, WriteKeepsWriters, WriteKeepsFile, WriteKeepsReaders DEF IInv
<1>2. ASSUME NEW r \in Readers, ReadStep(r) PROVE IInv'
  BY <1>2, ReadKeepsType, ReadKeepsReaders, ReadKeepsRest DEF IInv
<1>3. ASSUME NEW c \in Writers \cup Readers, Kill(c) PROVE IInv'
  BY <1>3, KillKeeps
<1>4. CASE UNCHANGED vars
  BY <1>4
  DEF vars, disk, reads, history, IInv, TypeOK, WriterInv, FileInv, ReaderInv, Whole
<1>5. QED
  BY <1>1, <1>2, <1>3, <1>4 DEF Next

\* The inductive invariant holds of every reachable state.
THEOREM Invariance == Spec => []IInv
<1>1. QED
  BY InitEstablishes, NextKeeps, PTL DEF Spec

\* write_owned_regular_file and protected_asset_bytes: every variable keeps its
\* type.
THEOREM TypeCorrect == Spec => []TypeOK
<1>1. IInv => TypeOK
  BY DEF IInv
<1>2. QED
  BY <1>1, Invariance, PTL

\* write_owned_regular_file: whoever is killed and whatever a write stores, the
\* file name denotes nothing or a whole payload.
THEOREM FileIsWhole == Spec => []TargetIsWhole
<1>1. IInv => TargetIsWhole
  BY DEF IInv, FileInv, WriterInv, TypeOK, TargetIsWhole
<1>2. QED
  BY <1>1, Invariance, PTL

\* protected_asset_bytes: a read that succeeds returns a whole payload.
THEOREM ReadingsAreWhole == Spec => []ReadsAreWhole
<1>1. IInv => ReadsAreWhole
  BY DEF IInv, ReaderInv, ReadsAreWhole
<1>2. QED
  BY <1>1, Invariance, PTL

\* write_owned_regular_file (finally clause): no temporary file outlives a call
\* that ended by itself, unless unlinking it failed.
THEOREM NothingIsLeft == Spec => []TemporaryIsRemoved
<1>1. IInv => TemporaryIsRemoved
  BY DEF IInv, WriterInv, TemporaryIsRemoved
<1>2. QED
  BY <1>1, Invariance, PTL

\* write_owned_regular_file: a failure before os.replace leaves the file alone.
THEOREM FailureChangesNothing == Spec => []FailedWriteKeepsFile
<1>1. IInv => FailedWriteKeepsFile
  BY DEF IInv, WriterInv, FailedWriteKeepsFile
<1>2. QED
  BY <1>1, Invariance, PTL

\* Every inode that is named or open is whole, so a reader sees whose it is.
LEMMA ViewIsDirect ==
  ASSUME IInv
  PROVE  /\ Holds(target) = target
         /\ [r \in Readers |-> IF got[r] # None THEN got[r].inode ELSE Holds(fd[r])]
              = [r \in Readers |-> fd[r]]
<1>1. \A i \in committed \cup {Initial, None} : Holds(i) = i
  BY DEF IInv, TypeOK, WriterInv, FileInv, Holds
<1>2. QED
  BY <1>1 DEF IInv, FileInv, ReaderInv

\* The initial states are initial states of the atomic file.
LEMMA InitMaps == Init => Promise!Init
<1> SUFFICES ASSUME Init PROVE Promise!Init
  OBVIOUS
<1>1. IInv
  BY InitEstablishes
<1>2. QED
  BY <1>1, ViewIsDirect DEF Init, Promise!Init

\* Renaming is the abstract write, opening the abstract read, and every other
\* step changes nothing a reader could tell.
LEMMA StepMaps == IInv /\ IInv' /\ [Next]_vars => [Promise!Next]_(Promise!vars)
<1> SUFFICES ASSUME IInv, IInv', [Next]_vars
             PROVE  [Promise!Next]_(Promise!vars)
  OBVIOUS
<1> DEFINE Seen == [r \in Readers |->
                      IF got[r] # None THEN got[r].inode ELSE Holds(fd[r])]
           Opened == [r \in Readers |-> fd[r]]
<1>1. Holds(target) = target /\ Seen = Opened
  BY ViewIsDirect
<1>2. Holds(target)' = target' /\ Seen' = Opened'
  <2>1. \A i \in committed' \cup {Initial, None} : Holds(i)' = i
    BY DEF IInv, TypeOK, WriterInv, FileInv, Holds
  <2>2. QED
    BY <2>1 DEF IInv, FileInv, ReaderInv
<1>3. ASSUME NEW w \in Writers, WriteStep(w)
      PROVE  [Promise!Next]_(Promise!vars)
  <2>1. UNCHANGED reads
    BY <1>3, WriteKeepsFile
  <2>2. CASE Replace(w)
    <3>1. w \notin committed /\ committed' = committed \cup {w} /\ target' = w
      BY <2>2 DEF Replace, IInv, WriterInv
    <3>2. Promise!Write(w)
      BY <3>1, <2>1, <1>1, <1>2 DEF Promise!Write, reads
    <3>3. QED
      BY <3>2 DEF Promise!Next
  <2>3. CASE ~Replace(w)
    <3>1. UNCHANGED <<target, committed>>
      BY <1>3, <2>3
      DEF WriteStep, FailWrite, OpenParent, InspectTarget, CreateTemporary, WritePiece,
          CompareTemporary, CloseParent, UnlinkTemporary, disk, history
    <3>2. QED
      BY <3>1, <2>1, <1>1, <1>2 DEF Promise!vars, reads
  <2>4. QED
    BY <2>2, <2>3
<1>4. ASSUME NEW r \in Readers, ReadStep(r)
      PROVE  [Promise!Next]_(Promise!vars)
  <2>1. UNCHANGED <<target, committed>>
    BY <1>4, ReadKeepsRest
  <2>2. CASE OpenFile(r)
    <3>1. fd[r] = None /\ target # None /\ fd' = [fd EXCEPT ![r] = target]
      BY <2>2 DEF OpenFile, IInv, ReaderInv
    <3>2. Opened' = [Opened EXCEPT ![r] = target]
      BY <3>1 DEF IInv, TypeOK
    <3>3. Promise!Read(r)
      BY <3>1, <3>2, <2>1, <1>1, <1>2 DEF Promise!Read
    <3>4. QED
      BY <3>3 DEF Promise!Next
  <2>3. CASE ~OpenFile(r)
    <3>1. UNCHANGED fd
      BY <1>4, <2>3 DEF ReadStep, FailRead, StatFile, ReadFile, CheckSize, reads
    <3>2. QED
      BY <3>1, <2>1, <1>1, <1>2 DEF Promise!vars
  <2>4. QED
    BY <2>2, <2>3
<1>5. ASSUME NEW c \in Writers \cup Readers, Kill(c)
      PROVE  [Promise!Next]_(Promise!vars)
  BY <1>5, <1>1, <1>2, KillKeeps DEF Promise!vars, reads
<1>6. CASE UNCHANGED vars
  BY <1>6, <1>1, <1>2 DEF vars, disk, reads, history, Promise!vars
<1>7. QED
  BY <1>3, <1>4, <1>5, <1>6 DEF Next

\* Writes and reads of the file are atomic: the calls implement AtomicFile.
THEOREM Implementation == Spec => ImplementsAtomicFile
<1>1. QED
  BY Invariance, InitMaps, StepMaps, PTL DEF Spec, ImplementsAtomicFile, Promise!Spec

=============================================================================
