-------------------------- MODULE EvidenceLifeProofs --------------------------
(***************************************************************************)
(* Theorems about EvidenceLife: its type invariant, and what evidence the  *)
(* hook accepts means, for every set of branches and configurations and    *)
(* however often the file changes and the clock is set.                    *)
(***************************************************************************)
EXTENDS EvidenceLife, TLAPS

\* The steps at which a command holds a configuration that was proven clean,
\* a planned change, and an evidence file.
Loaded == {"clean", "original", "plan", "checks", "plan again", "tree", "write",
           "age", "replan", "compare"}
Proven == Loaded \ {"clean"}
Tested == {"checks", "plan again", "tree", "write"}
Writing == {"tree", "write"}
Verifying == {"age", "replan", "compare"}

NumbersOK ==
  /\ truth \in Int /\ offset \in Int /\ moves \in Nat /\ jumps \in Nat
  /\ started \in Int /\ age \in Int /\ back \in Nat /\ ahead \in Nat

ValuesOK ==
  /\ head \in Heads /\ file \in Configs
  /\ pc \in Ended \cup Loaded \cup {"load"}
  /\ command \in {"push-ready", "pre-push"}
  /\ config \in Configs \cup {None}
  /\ original \in Trees \cup {None}
  /\ change \in Plans \cup {None}
  /\ tested \in Merges \cup {None}
  /\ evidence \in Documents \cup {None}
  /\ still \in BOOLEAN /\ calm \in BOOLEAN

TypeOK == NumbersOK /\ ValuesOK

\* A step that needs a value has it.
Holds ==
  /\ pc \in Loaded => config \in Configs
  /\ pc \in Writing \cup {"compare"} => change \in Plans
  /\ pc \in Verifying \cup {"authorised"} => evidence \in Documents
  /\ pc \in {"load", "clean"} /\ command = "pre-push" => evidence \in Documents
  /\ pc \in Tested => tested \in Merges
  /\ pc \in {"original", "plan"} \cup Tested => command = "push-ready"

TypeInv == TypeOK /\ Holds

USE DEF Ended, Loaded, Proven, Tested, Writing, Verifying

\* What a checkout can hold is a configuration.
LEMMA ConfigTypes == Edits \subseteq Configs /\ \A h \in Heads : ConfigOf[h] \in Configs
BY ConstantsAssumption

LEMMA InitType == Init => TypeInv
<1> SUFFICES ASSUME Init PROVE TypeInv
  OBVIOUS
<1>1. NumbersOK
  <2>1. truth = 0 /\ offset = 0 /\ moves = 0 /\ jumps = 0 /\ started = 0
        /\ age = 0 /\ back = 0 /\ ahead = 0
    BY Zenon DEF Init
  <2> QED
    BY <2>1 DEF NumbersOK
<1>2. ValuesOK
  <2>1. head \in Heads /\ file \in Configs
    BY ConfigTypes DEF Init
  <2>2. still \in BOOLEAN /\ calm \in BOOLEAN
    BY Zenon DEF Init
  <2>3. /\ pc = "idle" /\ command = "push-ready"
        /\ config = None /\ original = None /\ change = None /\ tested = None
        /\ evidence = None
    BY Zenon DEF Init
  <2> QED
    BY <2>1, <2>2, <2>3 DEF ValuesOK
<1>3. Holds
  BY DEF Init, Holds
<1> QED
  BY <1>1, <1>2, <1>3 DEF TypeInv, TypeOK

LEMMA SkewType == Skew \in Nat
BY ConstantsAssumption

LEMMA ClockType ==
  ASSUME TypeOK, Holds, Tick \/ SetClock
  PROVE  TypeInv'
<1>1. NumbersOK'
  BY SkewType DEF TypeOK, NumbersOK, Tick, SetClock, local, history
<1>2. UNCHANGED <<head, file, pc, command, local, evidence, still, calm>>
  BY DEF Tick, SetClock, history
<1>3. ValuesOK'
  <2>1. UNCHANGED <<head, file, pc, command, config, original, change, tested,
                    evidence, still, calm>>
    BY <1>2 DEF local
  <2>2. /\ head' \in Heads /\ file' \in Configs
        /\ pc' \in Ended \cup Loaded \cup {"load"}
        /\ command' \in {"push-ready", "pre-push"}
        /\ config' \in Configs \cup {None}
        /\ original' \in Trees \cup {None}
        /\ change' \in Plans \cup {None}
        /\ tested' \in Merges \cup {None}
        /\ evidence' \in Documents \cup {None}
    BY <2>1 DEF TypeOK, ValuesOK
  <2>3. still' \in BOOLEAN /\ calm' \in BOOLEAN
    BY <2>1, Zenon DEF TypeOK, ValuesOK
  <2> QED
    BY <2>2, <2>3, Zenon DEF ValuesOK
<1>4. Holds'
  BY <1>2 DEF Holds, local
<1> QED
  BY <1>1, <1>3, <1>4 DEF TypeInv, TypeOK

LEMMA MoveType ==
  ASSUME TypeOK, Holds, EditFile \/ SwitchBranch
  PROVE  TypeInv'
<1>1. head' \in Heads /\ file' \in Configs
  <2>1. CASE EditFile
    BY <2>1, ConfigTypes DEF EditFile, TypeOK, ValuesOK
  <2>2. CASE SwitchBranch
    BY <2>2, ConfigTypes DEF SwitchBranch, TypeOK, ValuesOK
  <2> QED
    BY <2>1, <2>2
<1>2. moves' = moves + 1 /\ still' \in BOOLEAN /\ calm' \in BOOLEAN
  <2>1. moves' = moves + 1 /\ still' = FALSE /\ calm' = FALSE
    BY Zenon DEF EditFile, SwitchBranch, Moved
  <2> QED
    BY <2>1, Zenon
<1>3. UNCHANGED <<truth, offset, jumps, pc, command, local, evidence, age, back, ahead>>
  BY DEF EditFile, SwitchBranch
<1>4. NumbersOK'
  BY <1>2, <1>3 DEF TypeOK, NumbersOK, local
<1>5. ValuesOK'
  BY <1>1, <1>2, <1>3 DEF TypeOK, ValuesOK, local
<1>6. Holds'
  BY <1>3 DEF Holds, local
<1> QED
  BY <1>4, <1>5, <1>6 DEF TypeInv, TypeOK

LEMMA RefuseType ==
  ASSUME TypeOK, Refuse
  PROVE  TypeInv'
<1> USE DEF Refuse, Finish, Goto, world
<1>1. NumbersOK'
  BY DEF TypeOK, NumbersOK
<1>2. ValuesOK' /\ Holds'
  BY DEF TypeOK, ValuesOK, Holds
<1> QED
  BY <1>1, <1>2 DEF TypeInv, TypeOK

LEMMA StartType ==
  ASSUME TypeOK, NEW c \in {"push-ready", "pre-push"}, Start(c)
  PROVE  TypeInv'
<1> USE DEF Start, Goto, world, local
<1>1. NumbersOK'
  BY DEF TypeOK, NumbersOK
<1>2. ValuesOK'
  BY DEF TypeOK, ValuesOK
<1>3. Holds'
  BY DEF TypeOK, ValuesOK, Holds
<1> QED
  BY <1>1, <1>2, <1>3 DEF TypeInv, TypeOK

\* A plan has its type.
LEMMA PlanType ==
  ASSUME TypeOK
  PROVE  /\ Fingerprint \in Trees
         /\ config \in Configs => Planned \in Plans
         /\ config \in Configs => [base |-> config.base, head |-> head] \in Merges
<1>1. Fingerprint \in Trees
  BY DEF TypeOK, ValuesOK, Fingerprint, Trees
<1> QED
  BY <1>1 DEF TypeOK, ValuesOK, Planned, Configs, Plans, Merges

\* A step that leaves the world, the evidence and the history alone.
LEMMA QuietType ==
  ASSUME TypeOK, UNCHANGED <<world, command, evidence, history>>,
         started' \in Int, pc' \in Loaded,
         config' \in Configs, original' \in Trees \cup {None},
         change' \in Plans \cup {None}, tested' \in Merges \cup {None},
         Holds'
  PROVE  TypeInv'
<1>1. NumbersOK'
  BY DEF TypeOK, NumbersOK, world, history
<1>2. ValuesOK'
  BY DEF TypeOK, ValuesOK, world, history
<1> QED
  BY <1>1, <1>2 DEF TypeInv, TypeOK

LEMMA ReadType ==
  ASSUME TypeOK, Holds, ~Refuse,
         LoadConfig \/ RequireCleanHead \/ ReadOriginal \/ ExecuteChecks \/ CompareTree
  PROVE  TypeInv'
<1> USE DEF Goto, Require, local
<1>1. started \in Int
  BY DEF TypeOK, NumbersOK
<1>2. CASE LoadConfig
  <2> USE <1>2 DEF LoadConfig
  <2>1. Holds' /\ config' \in Configs
    BY DEF Holds, TypeOK, ValuesOK
  <2> QED
    BY <1>1, <2>1, QuietType DEF TypeOK, ValuesOK
<1>3. CASE RequireCleanHead
  <2> USE <1>3 DEF RequireCleanHead
  <2>1. Holds' /\ config' \in Configs
    BY DEF Holds, TypeOK, ValuesOK
  <2> QED
    BY <1>1, <2>1, QuietType DEF TypeOK, ValuesOK
<1>4. CASE ReadOriginal
  <2> USE <1>4 DEF ReadOriginal
  <2>1. Holds' /\ config' \in Configs
    BY DEF Holds
  <2> QED
    BY <1>1, <2>1, PlanType, QuietType DEF TypeOK, ValuesOK
<1>5. CASE ExecuteChecks \/ CompareTree
  <2> USE <1>5 DEF ExecuteChecks, CompareTree
  <2>1. Holds' /\ config' \in Configs
    BY DEF Holds
  <2> QED
    BY <1>1, <2>1, QuietType DEF TypeOK, ValuesOK
<1> QED
  BY <1>2, <1>3, <1>4, <1>5

LEMMA PlanningType ==
  ASSUME TypeOK, Holds, ~Refuse, PlanChecks \/ PlanReview \/ PlanEvidence
  PROVE  TypeInv'
<1> USE DEF Goto
<1>1. started \in Int /\ Wall \in Int
  BY DEF TypeOK, NumbersOK, Wall
<1>2. CASE PlanChecks
  <2> USE <1>2 DEF PlanChecks
  <2>1. config \in Configs /\ tested' \in Merges
    BY PlanType DEF Holds
  <2>2. Holds'
    BY <2>1 DEF Holds
  <2> QED
    BY <1>1, <2>1, <2>2, QuietType DEF TypeOK, ValuesOK
<1>3. CASE PlanReview \/ PlanEvidence
  <2> USE <1>3 DEF PlanReview, PlanEvidence
  <2>1. config \in Configs /\ change' \in Plans
    BY PlanType DEF Holds
  <2>2. Holds'
    BY <2>1 DEF Holds, history
  <2> QED
    BY <1>1, <2>1, <2>2, QuietType DEF TypeOK, ValuesOK
<1> QED
  BY <1>2, <1>3

LEMMA VerifyType ==
  ASSUME TypeOK, Holds, ~Refuse, WriteEvidence \/ CheckAge \/ CompareEvidence
  PROVE  TypeInv'
<1> USE DEF Goto, world, local
<1>1. CASE WriteEvidence
  <2> USE <1>1 DEF WriteEvidence
  <2>1. NumbersOK'
    BY DEF TypeOK, NumbersOK
  <2>2. started \in Int /\ Wall \in Int /\ truth \in Int
    BY DEF TypeOK, NumbersOK, Wall
  <2>3. evidence' \in Documents
    <3>1. /\ change \in Plans /\ tested \in Merges /\ file \in Configs
          /\ calm \in BOOLEAN
      BY DEF Holds, TypeOK, ValuesOK
    <3>2. evidence' = [started |-> started, completed |-> Wall, change |-> change,
                       tested |-> tested, hash |-> file, at |-> truth, still |-> calm]
      OBVIOUS
    <3> HIDE DEF WriteEvidence
    <3> QED
      BY <2>2, <3>1, <3>2, Zenon DEF Documents
  <2>4. ValuesOK'
    BY <2>3 DEF TypeOK, ValuesOK
  <2>5. Holds'
    BY <2>3 DEF Holds
  <2> QED
    BY <2>1, <2>4, <2>5 DEF TypeInv, TypeOK
<1>2. CASE CheckAge
  <2> USE <1>2 DEF CheckAge
  <2>1. evidence \in Documents
    BY DEF Holds
  <2>2. truth - evidence.at \in Int
    BY <2>1 DEF TypeOK, NumbersOK, Documents
  <2>3. NumbersOK'
    BY <2>2 DEF TypeOK, NumbersOK
  <2>4. ValuesOK'
    BY DEF TypeOK, ValuesOK
  <2>5. Holds'
    BY DEF Holds
  <2> QED
    BY <2>3, <2>4, <2>5 DEF TypeInv, TypeOK
<1>3. CASE CompareEvidence
  <2> USE <1>3 DEF CompareEvidence, Finish
  <2>1. NumbersOK'
    BY DEF TypeOK, NumbersOK
  <2>2. ValuesOK'
    BY DEF TypeOK, ValuesOK
  <2>3. Holds'
    BY DEF Holds
  <2> QED
    BY <2>1, <2>2, <2>3 DEF TypeInv, TypeOK
<1> QED
  BY <1>1, <1>2, <1>3

\* Every variable has its type, and a step that needs a value has it.
THEOREM TypeCorrect == Spec => []TypeInv
<1>1. TypeInv /\ [Next]_vars => TypeInv'
  <2> SUFFICES ASSUME TypeInv, [Next]_vars PROVE TypeInv'
    OBVIOUS
  <2>0. TypeOK /\ Holds
    BY DEF TypeInv
  <2>1. CASE UNCHANGED vars
    <3>1. NumbersOK'
      BY <2>0, <2>1 DEF TypeOK, NumbersOK, vars, world, local, history
    <3>2. UNCHANGED <<head, file, pc, command, config, original, change, tested,
                      evidence, still, calm>>
      BY <2>1 DEF vars, world, local, history
    <3>3. ValuesOK'
      BY <2>0, <3>2, ZenonT(30) DEF TypeOK, ValuesOK
    <3>4. Holds'
      BY <2>0, <3>2 DEF Holds
    <3> QED
      BY <3>1, <3>3, <3>4 DEF TypeInv, TypeOK
  <2>2. ASSUME NEW c \in {"push-ready", "pre-push"}, Start(c) PROVE TypeInv'
    BY <2>0, <2>2, StartType
  <2> QED
    BY <2>0, <2>1, <2>2, RefuseType, ClockType, MoveType, ReadType, PlanningType, VerifyType
       DEF Next
<1> QED
  BY <1>1, InitType, PTL DEF Spec

-----------------------------------------------------------------------------
(* A command during which nothing moved used the configuration of HEAD.    *)

StillIsOwn ==
  still =>
    /\ pc = "clean" => config = file
    /\ pc \in Proven => config = file /\ FileIsClean
    /\ pc \in Writing => change = Planned
    /\ pc = "compare" => change = Planned

\* In a calm command nothing has moved.
CalmIsStill == pc \notin Ended /\ calm => still

Names(document) ==
  /\ document.change.base = ConfigOf[document.change.head].base
  /\ document.hash = ConfigOf[document.change.head]

StillDocumentIsOwn == evidence # None /\ evidence.still => Names(evidence)

\* The document is dated on the wall clock of its write.
ClockIsAccounted ==
  evidence # None => evidence.completed - evidence.at <= offset + back

CheckedIsYoung ==
  pc \in {"replan", "compare"} => age <= config.maxAge + back

IInv ==
  /\ TypeInv
  /\ StillIsOwn /\ CalmIsStill /\ StillDocumentIsOwn
  /\ ClockIsAccounted /\ CheckedIsYoung
  /\ OneSwitchIsCaught /\ AuthorisedIsYoung

Rest == StillIsOwn /\ CalmIsStill /\ StillDocumentIsOwn /\ ClockIsAccounted
          /\ CheckedIsYoung /\ OneSwitchIsCaught /\ AuthorisedIsYoung

LEMMA RestOfRefuse ==
  ASSUME IInv, Refuse
  PROVE  Rest'
BY DEF IInv, Rest, StillIsOwn, CalmIsStill, StillDocumentIsOwn, ClockIsAccounted,
       CheckedIsYoung, OneSwitchIsCaught, AuthorisedIsYoung, Names, Refuse, Finish,
       Goto, world

\* Setting the clock from o to p adds at least o - p to what it was set back.
LEMMA SetBack ==
  ASSUME NEW o \in Int, NEW p \in Int, NEW b \in Nat, NEW c,
         c = IF p < o THEN b + (o - p) ELSE b
  PROVE  c \in Nat /\ b <= c /\ o + b <= p + c
<1>1. CASE p < o
  BY <1>1
<1>2. CASE ~(p < o)
  BY <1>2
<1> QED
  BY <1>1, <1>2

LEMMA Weaken ==
  ASSUME NEW x \in Int, NEW a \in Int, NEW b \in Int, x <= a, a <= b
  PROVE  x <= b
OBVIOUS

LEMMA RestOfClock ==
  ASSUME IInv, Tick \/ SetClock
  PROVE  Rest'
<1>0. NumbersOK /\ ValuesOK /\ Holds /\ Rest
  BY DEF IInv, TypeInv, TypeOK, Rest
<1>1. back' \in Nat /\ offset' \in Int /\ back <= back' /\ offset + back <= offset' + back'
  <2>1. CASE Tick
    BY <1>0, <2>1 DEF NumbersOK, Tick, history
  <2>2. CASE SetClock
    <3>1. offset' \in Int /\ offset \in Int /\ back \in Nat
      BY <1>0, <2>2, SkewType DEF NumbersOK, SetClock
    <3>2. back' = IF offset' < offset THEN back + (offset - offset') ELSE back
      BY <2>2 DEF SetClock
    <3> QED
      BY <3>1, <3>2, SetBack
  <2> QED
    BY <2>1, <2>2
<1>2. UNCHANGED <<pc, command, config, change, head, file, evidence, still, calm, age>>
  BY DEF Tick, SetClock, history, local
<1>3. (StillIsOwn /\ CalmIsStill /\ StillDocumentIsOwn /\ OneSwitchIsCaught)'
  BY <1>0, <1>2
     DEF Rest, StillIsOwn, CalmIsStill, StillDocumentIsOwn, OneSwitchIsCaught, Names, Own,
         FileIsClean, Planned, Fingerprint
<1>4. ClockIsAccounted'
  <2> SUFFICES ASSUME evidence # None
               PROVE  evidence.completed - evidence.at <= offset' + back'
    BY <1>2 DEF ClockIsAccounted
  <2>1. evidence.completed \in Int /\ evidence.at \in Int
    <3>1. evidence \in Documents
      BY <1>0 DEF ValuesOK
    <3> QED
      BY <3>1 DEF Documents
  <2>2. evidence.completed - evidence.at <= offset + back
    BY <1>0 DEF Rest, ClockIsAccounted
  <2>3. /\ evidence.completed - evidence.at \in Int
        /\ offset + back \in Int /\ offset' + back' \in Int
    BY <1>0, <1>1, <2>1 DEF NumbersOK
  <2> QED
    BY <1>1, <2>2, <2>3, Weaken
<1>5. CheckedIsYoung'
  <2> SUFFICES ASSUME pc \in {"replan", "compare"}
               PROVE  age <= config.maxAge + back'
    BY <1>2 DEF CheckedIsYoung
  <2>1. config.maxAge \in Nat
    BY <1>0 DEF Holds, Configs
  <2>2. age <= config.maxAge + back
    BY <1>0 DEF Rest, CheckedIsYoung
  <2>3. age \in Int /\ back \in Nat
    BY <1>0 DEF NumbersOK
  <2> QED
    BY <1>1, <2>1, <2>2, <2>3
<1>6. AuthorisedIsYoung'
  <2> SUFFICES ASSUME pc = "authorised", still
               PROVE  age <= Own.maxAge + back'
    BY <1>2 DEF AuthorisedIsYoung, Own
  <2>1. Own.maxAge \in Nat
    <3>1. evidence.change.head \in Heads
      BY <1>0 DEF Holds, Documents, Plans
    <3> QED
      BY <3>1, ConfigTypes DEF Own, Configs
  <2>2. age <= Own.maxAge + back
    BY <1>0 DEF Rest, AuthorisedIsYoung
  <2>3. age \in Int /\ back \in Nat
    BY <1>0 DEF NumbersOK
  <2> QED
    BY <1>1, <2>1, <2>2, <2>3
<1> QED
  BY <1>3, <1>4, <1>5, <1>6 DEF Rest

LEMMA RestOfMove ==
  ASSUME IInv, EditFile \/ SwitchBranch
  PROVE  Rest'
<1>1. ~still' /\ ~calm'
  BY DEF EditFile, SwitchBranch, Moved
<1>2. UNCHANGED <<pc, command, config, change, evidence, age, back, offset>>
  BY DEF EditFile, SwitchBranch, local
<1> QED
  BY <1>1, <1>2
     DEF IInv, Rest, StillIsOwn, CalmIsStill, StillDocumentIsOwn, ClockIsAccounted,
         CheckedIsYoung, OneSwitchIsCaught, AuthorisedIsYoung, Names, Own

LEMMA RestOfStart ==
  ASSUME IInv, NEW c \in {"push-ready", "pre-push"}, Start(c)
  PROVE  Rest'
BY DEF IInv, Rest, StillIsOwn, CalmIsStill, StillDocumentIsOwn, ClockIsAccounted,
       CheckedIsYoung, OneSwitchIsCaught, AuthorisedIsYoung, Names, Start, Running,
       Goto, world, local

\* Reading the configuration, the clean check, both plans and the checks.
LEMMA RestOfRead ==
  ASSUME IInv, ~Refuse,
         LoadConfig \/ RequireCleanHead \/ ReadOriginal \/ PlanChecks \/ ExecuteChecks
           \/ PlanReview \/ CompareTree \/ PlanEvidence
  PROVE  Rest'
<1> USE DEF IInv, Goto, world, history, local
<1>1. UNCHANGED <<head, file, offset, evidence, still, calm, command, age, back>>
      /\ pc' \notin {"authorised"}
  BY DEF LoadConfig, RequireCleanHead, ReadOriginal, PlanChecks, ExecuteChecks,
         PlanReview, CompareTree, PlanEvidence, Require
<1>2. StillIsOwn'
  BY <1>1 DEF StillIsOwn, LoadConfig, RequireCleanHead, ReadOriginal, PlanChecks,
              ExecuteChecks, PlanReview, CompareTree, PlanEvidence, Require, Planned,
              FileIsClean, Fingerprint
<1>3. CalmIsStill'
  BY <1>1 DEF CalmIsStill, LoadConfig, RequireCleanHead, ReadOriginal, PlanChecks,
              ExecuteChecks, PlanReview, CompareTree, PlanEvidence, Require
<1>4. CheckedIsYoung'
  BY <1>1 DEF CheckedIsYoung, LoadConfig, RequireCleanHead, ReadOriginal, PlanChecks,
              ExecuteChecks, PlanReview, CompareTree, PlanEvidence, Require
<1> QED
  BY <1>1, <1>2, <1>3, <1>4
     DEF Rest, StillDocumentIsOwn, ClockIsAccounted, Names, OneSwitchIsCaught,
         AuthorisedIsYoung

LEMMA RestOfWrite ==
  ASSUME IInv, WriteEvidence
  PROVE  Rest'
<1> USE DEF Goto, world, local
<1>0. NumbersOK /\ ValuesOK /\ Holds /\ StillIsOwn /\ CalmIsStill
  BY DEF IInv, TypeInv, TypeOK
<1>1. StillDocumentIsOwn'
  <2>1. command = "push-ready" /\ config \in Configs /\ change \in Plans
    BY <1>0 DEF Holds, WriteEvidence
  <2>2. calm => change = Planned /\ config = file /\ FileIsClean
    BY <1>0, <2>1 DEF WriteEvidence, CalmIsStill, StillIsOwn
  <2>3. calm => change.base = ConfigOf[change.head].base /\ file = ConfigOf[change.head]
    BY <2>2 DEF Planned, FileIsClean
  <2>4. /\ evidence'.still = calm /\ evidence'.change = change /\ evidence'.hash = file
    BY DEF WriteEvidence
  <2> QED
    BY <2>3, <2>4 DEF StillDocumentIsOwn, Names
<1>2. ClockIsAccounted'
  <2>1. /\ evidence'.completed = truth + offset /\ evidence'.at = truth
        /\ offset' = offset /\ back' = 0
    BY DEF WriteEvidence, Wall
  <2>2. truth \in Int /\ offset \in Int
    BY <1>0 DEF NumbersOK
  <2>3. /\ evidence'.completed \in Int /\ evidence'.at \in Int
        /\ offset' \in Int /\ back' \in Int
    BY <2>1, <2>2
  <2> HIDE DEF Goto, world, local
  <2>4. evidence'.completed - evidence'.at <= offset' + back'
    BY <2>1, <2>2, <2>3
  <2> QED
    BY <2>4 DEF ClockIsAccounted
<1>3. (StillIsOwn /\ CalmIsStill)'
  BY <1>0 DEF WriteEvidence, StillIsOwn, CalmIsStill, FileIsClean
<1> QED
  BY <1>1, <1>2, <1>3
     DEF Rest, WriteEvidence, CheckedIsYoung, OneSwitchIsCaught, AuthorisedIsYoung

LEMMA RestOfCheckAge ==
  ASSUME IInv, ~Refuse, CheckAge
  PROVE  Rest'
<1> USE DEF Goto, world, local, CheckAge
<1>0. NumbersOK /\ ValuesOK /\ Holds /\ Rest
  BY DEF IInv, TypeInv, TypeOK, Rest
<1>1. CheckedIsYoung'
  <2>1. evidence \in Documents /\ evidence # None /\ config \in Configs
    BY <1>0, ConstantsAssumption DEF Holds
  <2>2. /\ truth \in Int /\ offset \in Int /\ back \in Nat /\ config.maxAge \in Nat
        /\ evidence.completed \in Int /\ evidence.at \in Int
    <3>1. truth \in Int /\ offset \in Int /\ back \in Nat
      BY <1>0 DEF NumbersOK
    <3>2. evidence.completed \in Int /\ evidence.at \in Int
      BY <2>1 DEF Documents
    <3>3. config.maxAge \in Nat
      BY <2>1 DEF Configs
    <3> QED
      BY <3>1, <3>2, <3>3
  <2>3. Tolerance \in Nat
    BY ConstantsAssumption
  <2>4. YoungEnough
    OBVIOUS
  <2>5. truth + offset - evidence.completed <= config.maxAge
    BY <2>2, <2>3, <2>4 DEF YoungEnough, Wall
  <2>6. evidence.completed - evidence.at <= offset + back
    BY <1>0, <2>1 DEF Rest, ClockIsAccounted
  <2>7. truth - evidence.at <= config.maxAge + back
    BY <2>2, <2>5, <2>6
  <2>8. age' = truth - evidence.at /\ config' = config /\ back' = back
    OBVIOUS
  <2> QED
    BY <2>7, <2>8 DEF CheckedIsYoung
<1>2. StillIsOwn'
  BY <1>0 DEF Rest, StillIsOwn, FileIsClean
<1>3. CalmIsStill'
  BY <1>0 DEF Rest, CalmIsStill
<1> QED
  BY <1>0, <1>1, <1>2, <1>3
     DEF Rest, StillDocumentIsOwn, ClockIsAccounted, Names, OneSwitchIsCaught,
         AuthorisedIsYoung

LEMMA RestOfCompare ==
  ASSUME IInv, ~Refuse, CompareEvidence
  PROVE  Rest'
<1> USE DEF IInv, TypeInv, TypeOK, ValuesOK, Holds, Goto, world, CompareEvidence, Finish
<1>1. EvidenceMatches /\ evidence \in Documents /\ evidence # None
      /\ UNCHANGED <<evidence, still, calm, age, back, offset, command>>
      /\ pc' \in {"written", "authorised"}
  BY ConstantsAssumption
<1>2. still => Names(evidence) /\ config = ConfigOf[evidence.change.head]
  BY <1>1 DEF StillIsOwn, EvidenceMatches, Names, Planned, FileIsClean, Plans, Documents
<1>3. OneSwitchIsCaught'
  BY <1>1, <1>2 DEF OneSwitchIsCaught, Own, Names, StillDocumentIsOwn
<1>4. AuthorisedIsYoung'
  BY <1>1, <1>2 DEF AuthorisedIsYoung, Own, CheckedIsYoung
<1> QED
  BY <1>1, <1>3, <1>4
     DEF Rest, StillIsOwn, CalmIsStill, StillDocumentIsOwn, ClockIsAccounted, Names,
         CheckedIsYoung

\* The inductive invariant: what a command that nothing disturbed knows, what
\* an undisturbed document says, and how far the clock was set back.
THEOREM Inductive == Spec => []IInv
<1>1. Init => IInv
  BY InitType
     DEF Init, IInv, StillIsOwn, CalmIsStill, StillDocumentIsOwn, ClockIsAccounted,
         CheckedIsYoung, OneSwitchIsCaught, AuthorisedIsYoung
<1>2. IInv /\ TypeInv' /\ [Next]_vars => IInv'
  <2> SUFFICES ASSUME IInv, TypeInv', [Next]_vars PROVE Rest'
    BY DEF IInv, Rest
  <2>1. CASE UNCHANGED vars
    BY <2>1
       DEF vars, world, local, history, IInv, Rest, StillIsOwn, CalmIsStill,
           StillDocumentIsOwn, ClockIsAccounted, CheckedIsYoung, OneSwitchIsCaught,
           AuthorisedIsYoung, Names, Own, FileIsClean, Planned, Fingerprint
  <2>2. ASSUME NEW c \in {"push-ready", "pre-push"}, Start(c) PROVE Rest'
    BY <2>2, RestOfStart
  <2> QED
    BY <2>1, <2>2, RestOfRefuse, RestOfClock, RestOfMove, RestOfRead, RestOfWrite,
       RestOfCheckAge, RestOfCompare
       DEF Next
<1> QED
  BY <1>1, <1>2, TypeCorrect, PTL DEF Spec

\* load_config before require_clean_head: one change of the configuration, in
\* push-ready or in the hook, is always caught.
THEOREM OneSwitchTheorem == Spec => []OneSwitchIsCaught
BY Inductive, PTL DEF IInv

\* verify_evidence: evidence outlives its maximum age by no more than the clock
\* was set back.
THEOREM AgeTheorem == Spec => []AuthorisedIsYoung
BY Inductive, PTL DEF IInv

-----------------------------------------------------------------------------
(* A hook after a push-ready during which, and since which, nothing moved. *)

\* What push-ready tested is what it reads again, and the base trusts it.
Planning ==
  still /\ pc \in Tested =>
    tested = [base |-> config.base, head |-> head] /\ Trusted

\* A push-ready that is over leaves nothing to accept but what it wrote.
EndedIsMoved == command = "push-ready" /\ pc \in Ended \ {"written"} => ~calm

\* A calm run has written the evidence file that is there.
Wrote(steps) == calm /\ (command = "pre-push" \/ pc \in steps)

\* It is what the hook is going to compute.
SteadyDocument ==
  Wrote(Verifying \cup {"written"}) =>
    /\ evidence # None
    /\ FileIsClean /\ ConfigOf[head] = ConfigAt[file.base]
    /\ evidence.hash = file
    /\ evidence.change = [base |-> file.base, head |-> head, tree |-> Fingerprint]
    /\ evidence.tested = [base |-> file.base, head |-> head]

DatedInOrder ==
  Wrote({"replan", "compare", "written"}) => evidence.started <= evidence.completed

\* The wall clock now and at the write differ by what it was set.
ClockIsExact ==
  evidence # None =>
    /\ evidence.at <= truth
    /\ evidence.completed - evidence.at = offset + back - ahead

Steady ==
  /\ Planning /\ EndedIsMoved /\ SteadyDocument /\ DatedInOrder /\ ClockIsExact
  /\ SteadyHookIsAccepted

\* The numbers of a document.
LEMMA DocumentNumbers ==
  ASSUME TypeInv, evidence # None
  PROVE  /\ evidence \in Documents
         /\ evidence.at \in Int /\ evidence.completed \in Int /\ evidence.started \in Int
         /\ Own.maxAge \in Nat
<1>1. evidence \in Documents
  BY DEF TypeInv, TypeOK, ValuesOK
<1>2. evidence.change.head \in Heads
  BY <1>1 DEF Documents, Plans
<1>3. Own.maxAge \in Nat
  BY <1>2, ConfigTypes DEF Own, Configs
<1> QED
  BY <1>1, <1>3 DEF Documents

\* A difference of clocks outside its bounds: the evidence is old, or the clock was
\* set back.
LEMMA OldOrSetBack ==
  ASSUME NEW t \in Int, NEW o \in Int, NEW a \in Int, NEW c \in Int,
         NEW b \in Nat, NEW d \in Nat, NEW max \in Nat, NEW tolerance \in Nat,
         a <= t, c - a = o + b - d,
         t + o - c \notin (0 - tolerance)..max
  PROVE  t - a + d > max \/ b > tolerance
<1>1. t + o - c \in Int /\ t + o - c = t - a + d - b
  OBVIOUS
<1>2. t + o - c < 0 - tolerance \/ t + o - c > max
  BY <1>1
<1> QED
  BY <1>1, <1>2

\* A calm hook meets a document that was dated in order: it refuses it only for
\* its age.
LEMMA AgeIsJustified ==
  ASSUME IInv, Steady, CheckAge, Refuse, calm, command = "pre-push"
  PROVE  truth - evidence.at + ahead > Own.maxAge \/ back > Tolerance
<1>1. TypeInv /\ still /\ config = file /\ ~YoungEnough /\ pc = "age"
  BY DEF IInv, CalmIsStill, StillIsOwn, CheckAge, Refuse, Finish, Goto
<1>2. evidence # None /\ evidence.started <= evidence.completed /\ Own = file
  BY DEF Steady, SteadyDocument, DatedInOrder, Wrote, FileIsClean, Own
<1>3. /\ evidence.at \in Int /\ evidence.completed \in Int /\ file.maxAge \in Nat
      /\ truth \in Int /\ offset \in Int /\ back \in Nat /\ ahead \in Nat
      /\ Tolerance \in Nat
  BY <1>1, <1>2, DocumentNumbers, ConstantsAssumption DEF TypeInv, TypeOK, NumbersOK
<1>4. evidence.at <= truth /\ evidence.completed - evidence.at = offset + back - ahead
  BY <1>2 DEF Steady, ClockIsExact
<1>5. Wall - evidence.completed \notin (0 - Tolerance)..file.maxAge
  BY <1>1, <1>2 DEF YoungEnough
<1>6. truth + offset - evidence.completed \notin (0 - Tolerance)..file.maxAge
  BY <1>3, <1>5 DEF Wall
<1>7. truth - evidence.at + ahead > file.maxAge \/ back > Tolerance
  BY <1>3, <1>4, <1>6, OldOrSetBack
<1> QED
  BY <1>2, <1>7

\* A refused push-ready is not calm, and a calm hook refuses only for the age.
LEMMA SteadyRefuse ==
  ASSUME IInv, Steady, Refuse,
         RequireCleanHead \/ PlanChecks \/ ExecuteChecks \/ CompareTree
           \/ CheckAge \/ PlanEvidence \/ CompareEvidence
  PROVE  Steady'
<1>1. /\ UNCHANGED <<head, file, truth, offset, evidence, command, back, ahead>>
      /\ pc' = "refused" /\ calm' = (calm /\ command = "pre-push")
  BY DEF Refuse, Finish, Goto, world
<1>2. ASSUME calm, command = "pre-push"
      PROVE  truth - evidence.at + ahead > Own.maxAge \/ back > Tolerance
  <2>1. /\ evidence # None /\ FileIsClean /\ ConfigOf[head] = ConfigAt[file.base]
        /\ evidence.hash = file
        /\ evidence.change = [base |-> file.base, head |-> head, tree |-> Fingerprint]
        /\ evidence.tested = [base |-> file.base, head |-> head]
    BY <1>2 DEF Steady, SteadyDocument, Wrote
  <2>2. pc \in {"clean", "age", "replan", "compare"}
    BY <1>2
    DEF IInv, TypeInv, Holds, RequireCleanHead, PlanChecks, ExecuteChecks, CompareTree,
        CheckAge, PlanEvidence, CompareEvidence
  <2>3. CASE pc = "clean"
    BY <2>1, <2>3, <1>1
    DEF RequireCleanHead, Require, Refuse, Finish, Goto, PlanChecks, ExecuteChecks,
        CompareTree, CheckAge, PlanEvidence, CompareEvidence
  <2>4. CASE pc = "age"
    BY <1>2, <2>4, AgeIsJustified
    DEF RequireCleanHead, PlanChecks, ExecuteChecks, CompareTree, PlanEvidence,
        CompareEvidence
  <2>5. CASE pc = "replan"
    <3>1. still /\ config = file
      BY <1>2, <2>5 DEF IInv, CalmIsStill, StillIsOwn
    <3>2. Trusted
      BY <2>1, <3>1 DEF Trusted, FileIsClean
    <3> QED
      BY <2>5, <3>2, <1>1
      DEF RequireCleanHead, PlanChecks, ExecuteChecks, CompareTree, CheckAge, PlanEvidence,
          CompareEvidence, Goto
  <2>6. CASE pc = "compare"
    <3>1. still /\ config = file /\ change = Planned
      BY <1>2, <2>6 DEF IInv, CalmIsStill, StillIsOwn
    <3>2. EvidenceMatches
      BY <2>1, <3>1 DEF EvidenceMatches, Planned
    <3> QED
      BY <1>1, <1>2, <2>6, <3>2
      DEF RequireCleanHead, PlanChecks, ExecuteChecks, CompareTree, CheckAge, PlanEvidence,
          CompareEvidence, Finish, Goto
  <2> QED
    BY <2>2, <2>3, <2>4, <2>5, <2>6
<1>3. Planning' /\ EndedIsMoved' /\ SteadyHookIsAccepted'
  BY <1>1, <1>2 DEF Planning, EndedIsMoved, SteadyHookIsAccepted, Own
<1>4. SteadyDocument' /\ DatedInOrder' /\ ClockIsExact'
  BY <1>1
  DEF Steady, SteadyDocument, DatedInOrder, ClockIsExact, Wrote, FileIsClean, Fingerprint
<1> QED
  BY <1>3, <1>4 DEF Steady

\* A command that starts: push-ready is not judged by what is there, and the hook
\* is calm only after a push-ready that wrote what is there.
LEMMA SteadyStart ==
  ASSUME IInv, Steady, NEW c \in {"push-ready", "pre-push"}, Start(c)
  PROVE  Steady'
<1> USE DEF Steady, Start, Goto, world, local
<1>1. Planning' /\ EndedIsMoved' /\ SteadyHookIsAccepted' /\ ClockIsExact'
  BY DEF Planning, EndedIsMoved, SteadyHookIsAccepted, ClockIsExact
<1>2. calm' /\ command' = "pre-push" => Wrote({"written"})
  BY DEF Wrote, EndedIsMoved, Running, IInv, TypeInv, TypeOK, ValuesOK
<1>3. Wrote({"written"})
        => Wrote(Verifying \cup {"written"}) /\ Wrote({"replan", "compare", "written"})
  BY DEF Wrote
<1>4. SteadyDocument'
  BY <1>2, <1>3 DEF SteadyDocument, Wrote, FileIsClean, Fingerprint
<1>5. DatedInOrder'
  BY <1>2, <1>3 DEF DatedInOrder, Wrote
<1> QED
  BY <1>1, <1>4, <1>5

\* A sum to which a positive difference is added.
LEMMA Added ==
  ASSUME NEW p \in Int, NEW o \in Int, NEW a \in Nat, NEW c,
         c = IF p < o THEN a + (o - p) ELSE a
  PROVE  (p < o => c = a + (o - p)) /\ (~(p < o) => c = a)
OBVIOUS

\* Any move ends the calm, and time only makes the evidence older.
LEMMA SteadyMove ==
  ASSUME IInv, Steady, EditFile \/ SwitchBranch
  PROVE  Steady'
<1>1. ~still' /\ ~calm'
  BY DEF EditFile, SwitchBranch, Moved
<1>2. UNCHANGED <<truth, offset, evidence, back, ahead>>
  BY DEF EditFile, SwitchBranch
<1> QED
  BY <1>1, <1>2
  DEF Steady, Planning, EndedIsMoved, SteadyDocument, DatedInOrder, ClockIsExact, Wrote,
      SteadyHookIsAccepted

LEMMA SteadyClock ==
  ASSUME IInv, Steady, Tick \/ SetClock
  PROVE  Steady'
<1>1. UNCHANGED <<pc, command, config, original, change, tested, head, file, evidence,
                  still, calm>>
  BY DEF Tick, SetClock, history, local
<1>2. /\ truth' \in Int /\ offset' \in Int /\ back' \in Nat /\ ahead' \in Nat
      /\ truth <= truth' /\ back <= back' /\ ahead <= ahead'
      /\ offset' + back' - ahead' = offset + back - ahead
  <2>1. truth \in Int /\ offset \in Int /\ back \in Nat /\ ahead \in Nat
    BY DEF IInv, TypeInv, TypeOK, NumbersOK
  <2>2. CASE Tick
    BY <2>1, <2>2 DEF Tick, history
  <2>3. CASE SetClock
    <3>1. offset' \in Int /\ truth' = truth
      BY <2>3, SkewType DEF SetClock
    <3>2. /\ back' = IF offset' < offset THEN back + (offset - offset') ELSE back
          /\ ahead' = IF offset' > offset THEN ahead + (offset' - offset) ELSE ahead
      BY <2>3 DEF SetClock
    <3>3. /\ back' \in Nat /\ ahead' \in Nat /\ back <= back' /\ ahead <= ahead'
          /\ offset' + back' - ahead' = offset + back - ahead
      <4>1. offset \in Int /\ offset' \in Int /\ back \in Nat /\ ahead \in Nat
        BY <2>1, <3>1
      <4>2. /\ offset' < offset => back' = back + (offset - offset')
            /\ ~(offset' < offset) => back' = back
        BY <3>2, <4>1, Added
      <4>3. /\ offset < offset' => ahead' = ahead + (offset' - offset)
            /\ ~(offset < offset') => ahead' = ahead
        BY <3>2, <4>1, Added
      <4> QED
        BY <4>1, <4>2, <4>3
    <3>4. truth <= truth'
      BY <2>1, <3>1
    <3> QED
      BY <2>1, <3>1, <3>3, <3>4
  <2> QED
    BY <2>2, <2>3
<1>3. (Planning /\ EndedIsMoved /\ SteadyDocument /\ DatedInOrder)'
  BY <1>1
  DEF Steady, Planning, EndedIsMoved, SteadyDocument, DatedInOrder, Wrote, FileIsClean,
      Fingerprint, Trusted
<1>4. ClockIsExact'
  <2> SUFFICES ASSUME evidence # None
               PROVE  /\ evidence.at <= truth'
                      /\ evidence.completed - evidence.at = offset' + back' - ahead'
    BY <1>1 DEF ClockIsExact
  <2>1. evidence.at \in Int /\ truth \in Int
    BY DocumentNumbers DEF IInv, TypeInv, TypeOK, NumbersOK
  <2> QED
    BY <1>2, <2>1 DEF Steady, ClockIsExact
<1>5. SteadyHookIsAccepted'
  <2> SUFFICES ASSUME pc = "refused", command = "pre-push", calm
               PROVE  truth' - evidence.at + ahead' > Own.maxAge \/ back' > Tolerance
    BY <1>1 DEF SteadyHookIsAccepted, Own
  <2>1. evidence # None
    BY DEF Steady, SteadyDocument, Wrote
  <2>2. evidence.at \in Int /\ Own.maxAge \in Nat
    BY <2>1, DocumentNumbers DEF IInv
  <2>3. truth - evidence.at + ahead > Own.maxAge \/ back > Tolerance
    BY DEF Steady, SteadyHookIsAccepted
  <2>4. truth \in Int /\ back \in Nat /\ ahead \in Nat /\ Tolerance \in Nat
    BY ConstantsAssumption DEF IInv, TypeInv, TypeOK, NumbersOK
  <2> QED
    BY <1>2, <2>2, <2>3, <2>4
<1> QED
  BY <1>3, <1>4, <1>5 DEF Steady

\* The steps that change neither the world nor the evidence.
LEMMA SteadyRead ==
  ASSUME IInv, Steady, ~Refuse,
         LoadConfig \/ RequireCleanHead \/ ReadOriginal \/ PlanChecks \/ ExecuteChecks
           \/ PlanReview \/ CompareTree \/ CheckAge \/ PlanEvidence
  PROVE  Steady'
<1> USE DEF Goto
<1>1. UNCHANGED <<head, file, truth, offset, evidence, still, calm, command, back, ahead>>
  BY DEF LoadConfig, RequireCleanHead, ReadOriginal, PlanChecks, ExecuteChecks, PlanReview,
         CompareTree, CheckAge, PlanEvidence, Require, world, history
<1>2. /\ pc' \notin Ended
      /\ pc \notin Verifying => pc' \notin Verifying \/ (pc = "clean" /\ command = "pre-push")
      /\ pc \notin {"replan", "compare"} /\ pc' \in {"replan", "compare"}
           => evidence.started <= evidence.completed
  BY DEF LoadConfig, RequireCleanHead, ReadOriginal, PlanChecks, ExecuteChecks, PlanReview,
         CompareTree, CheckAge, PlanEvidence, Require, YoungEnough, IInv, TypeInv, TypeOK,
         ValuesOK
<1>3. EndedIsMoved' /\ SteadyHookIsAccepted' /\ ClockIsExact'
  BY <1>1, <1>2 DEF Steady, EndedIsMoved, SteadyHookIsAccepted, ClockIsExact
<1>4. SteadyDocument'
  BY <1>1, <1>2 DEF Steady, SteadyDocument, Wrote, FileIsClean, Fingerprint
<1>5. DatedInOrder'
  BY <1>1, <1>2 DEF Steady, DatedInOrder, Wrote
<1>6. Planning'
  <2>1. CASE PlanChecks
    BY <1>1, <2>1 DEF PlanChecks, Planning, Trusted
  <2>2. CASE ~PlanChecks
    <3>1. pc' \in Tested => pc \in Tested /\ UNCHANGED <<config, tested>>
      BY <2>2
      DEF LoadConfig, RequireCleanHead, ReadOriginal, ExecuteChecks, PlanReview, CompareTree,
          CheckAge, PlanEvidence, Require, local
    <3> QED
      BY <1>1, <3>1 DEF Steady, Planning, Trusted
  <2> QED
    BY <2>1, <2>2
<1> QED
  BY <1>3, <1>4, <1>5, <1>6 DEF Steady

\* push-ready writes what the hook is going to compute.
LEMMA SteadyWrite ==
  ASSUME IInv, Steady, WriteEvidence
  PROVE  Steady'
<1>0. NumbersOK /\ ValuesOK /\ Holds
  BY DEF IInv, TypeInv, TypeOK
<1>1. /\ pc = "write" /\ pc' = "age" /\ command = "push-ready"
      /\ UNCHANGED <<head, file, truth, offset, command, config, change, tested, still, calm>>
      /\ back' = 0 /\ ahead' = 0
  BY <1>0 DEF WriteEvidence, Goto, world, local, Holds
<1>2. /\ evidence'.change = change /\ evidence'.tested = tested /\ evidence'.hash = file
      /\ evidence'.at = truth /\ evidence'.completed = truth + offset
  BY DEF WriteEvidence, Wall
<1>3. Planning' /\ EndedIsMoved' /\ SteadyHookIsAccepted' /\ DatedInOrder'
  BY <1>1 DEF Planning, EndedIsMoved, SteadyHookIsAccepted, DatedInOrder, Wrote
<1>4. SteadyDocument'
  <2> SUFFICES ASSUME calm
               PROVE  /\ evidence' # None
                      /\ FileIsClean /\ ConfigOf[head] = ConfigAt[file.base]
                      /\ file = file
                      /\ change = [base |-> file.base, head |-> head, tree |-> Fingerprint]
                      /\ tested = [base |-> file.base, head |-> head]
    BY <1>1, <1>2 DEF SteadyDocument, Wrote, FileIsClean, Fingerprint
  <2>1. still /\ config = file /\ FileIsClean /\ change = Planned
    BY <1>1 DEF IInv, CalmIsStill, StillIsOwn
  <2>2. tested = [base |-> config.base, head |-> head] /\ Trusted
    BY <1>1, <2>1 DEF Steady, Planning
  <2>3. evidence' # None
    <3>1. evidence' \in Documents
      BY VerifyType, <1>0, <1>1 DEF IInv, TypeInv, TypeOK, Holds, Refuse, Finish, Goto
    <3> QED
      BY <3>1, ConstantsAssumption
  <2> QED
    BY <2>1, <2>2, <2>3 DEF Planned, Trusted
<1>5. ClockIsExact'
  <2>1. truth \in Int /\ offset \in Int
    BY <1>0 DEF NumbersOK
  <2>2. evidence'.completed - evidence'.at = offset' + back' - ahead' /\ evidence'.at <= truth'
    BY <1>1, <1>2, <2>1
  <2> QED
    BY <2>2 DEF ClockIsExact
<1> QED
  BY <1>3, <1>4, <1>5 DEF Steady

\* A comparison that succeeds ends the command as it is.
LEMMA SteadyCompare ==
  ASSUME IInv, Steady, ~Refuse, CompareEvidence
  PROVE  Steady'
<1>1. /\ UNCHANGED <<head, file, truth, offset, evidence, still, calm, command, back, ahead>>
      /\ pc = "compare" /\ pc' = IF command = "push-ready" THEN "written" ELSE "authorised"
  BY DEF CompareEvidence, Finish, Goto, world
<1>2. command \in {"push-ready", "pre-push"}
  BY DEF IInv, TypeInv, TypeOK, ValuesOK
<1>3. Planning' /\ EndedIsMoved' /\ SteadyHookIsAccepted' /\ ClockIsExact'
  BY <1>1 DEF Steady, Planning, EndedIsMoved, SteadyHookIsAccepted, ClockIsExact
<1>4. SteadyDocument'
  BY <1>1, <1>2 DEF Steady, SteadyDocument, Wrote, FileIsClean, Fingerprint
<1>5. DatedInOrder'
  BY <1>1, <1>2 DEF Steady, DatedInOrder, Wrote
<1> QED
  BY <1>3, <1>4, <1>5 DEF Steady

\* The second inductive invariant: what a calm run wrote, and the clock since.
THEOREM SteadyInvariance == Spec => []Steady
<1>1. Init => Steady
  BY DEF Init, Steady, Planning, EndedIsMoved, SteadyDocument, DatedInOrder, ClockIsExact,
         Wrote, SteadyHookIsAccepted
<1>2. IInv /\ Steady /\ [Next]_vars => Steady'
  <2> SUFFICES ASSUME IInv, Steady, [Next]_vars PROVE Steady'
    OBVIOUS
  <2>1. CASE UNCHANGED vars
    BY <2>1
    DEF vars, world, local, history, Steady, Planning, EndedIsMoved, SteadyDocument,
        DatedInOrder, ClockIsExact, Wrote, SteadyHookIsAccepted, FileIsClean, Fingerprint,
        Trusted, Own
  <2>2. ASSUME NEW c \in {"push-ready", "pre-push"}, Start(c) PROVE Steady'
    BY <2>2, SteadyStart
  <2>3. ASSUME Refuse,
               RequireCleanHead \/ PlanChecks \/ ExecuteChecks \/ CompareTree
                 \/ CheckAge \/ PlanEvidence \/ CompareEvidence
        PROVE  Steady'
    BY <2>3, SteadyRefuse
  <2>4. LoadConfig \/ ReadOriginal \/ PlanReview => ~Refuse
    BY DEF LoadConfig, ReadOriginal, PlanReview, Refuse, Finish, Goto
  <2> QED
    BY <2>1, <2>2, <2>3, <2>4, SteadyMove, SteadyClock, SteadyRead, SteadyWrite, SteadyCompare
    DEF Next
<1> QED
  BY <1>1, <1>2, Inductive, PTL DEF Spec

\* verify_evidence: a hook after a push-ready, with nothing moved since that one
\* started, refuses its evidence only when it is old or the clock was set back
\* further than the tolerance, however the clock was set.
THEOREM SteadyTheorem == Spec => []SteadyHookIsAccepted
<1>1. Steady => SteadyHookIsAccepted
  BY DEF Steady
<1> QED
  BY <1>1, SteadyInvariance, PTL

=============================================================================
