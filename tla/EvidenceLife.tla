----------------------------- MODULE EvidenceLife -----------------------------
(***************************************************************************)
(* scripts/lit-push-ready.py: what becomes of .lit/push-ready.json and of  *)
(* the clock between the run of push-ready that writes an evidence file    *)
(* and the pre-push hook that accepts it.  Both commands load the          *)
(* configuration before they prove the checkout clean, and use it to the   *)
(* end; the file is hashed much later, once by each.  The age of the       *)
(* evidence is measured on a wall clock that is set back and forth.        *)
(* Overlapping commands, other files and the base ref are in PushReady.    *)
(***************************************************************************)
EXTENDS Integers

CONSTANTS
  Heads,       \* commits the developer switches between
  Bases,       \* AUTHORITATIVE_BASE_REFS
  ConfigOf,    \* commit -> its .lit/push-ready.json
  ConfigAt,    \* base -> the file at the tip of the base
  Edits,       \* contents the developer gives the file
  None,
  Tolerance,   \* 300 seconds: how far in the future evidence may be dated
  Skew,        \* bound: how far the wall clock is from the true time
  MaxTime,     \* bound: the true time
  MaxMoves,    \* bound: edits of the file and switches of the branch
  MaxJumps     \* bound: times the clock is set

Configs == [base : Bases, maxAge : Nat \ {0}]

\* The checkout as tree_fingerprint sees it, a planned change, what is merged
\* for the checks, and the evidence file.
Trees == [head : Heads, file : Configs]
Plans == [base : Bases, head : Heads, tree : Trees]
Merges == [base : Bases, head : Heads]
Documents == [started : Int, completed : Int, change : Plans, tested : Merges,
              hash : Configs, at : Int, still : BOOLEAN]

ASSUME ConstantsAssumption ==
  /\ ConfigOf \in [Heads -> Configs] /\ ConfigAt \in [Bases -> Configs]
  /\ Edits \subseteq Configs
  /\ Heads # {} /\ None \notin Configs \cup Trees \cup Plans \cup Merges \cup Documents
  /\ {Tolerance, Skew, MaxTime, MaxMoves, MaxJumps} \subseteq Nat

VARIABLES
  head,       \* HEAD of the checkout
  file,       \* .lit/push-ready.json in the checkout
  truth,      \* the true time
  offset,     \* what the wall clock adds to it
  moves,      \* edits and switches so far
  jumps,      \* times the clock was set
  pc,         \* the next step of the command, or how it ended
  command,    \* "push-ready" or "pre-push"
  config,     \* the configuration it loaded
  original,   \* the checkout when push-ready found it clean
  change,     \* its planned change
  tested,     \* base and commit the checks ran on
  started,    \* started_at
  evidence,   \* .git/lit-push-ready-evidence.json
  still,      \* history: nothing moved since this command started
  calm,       \* history: nor since the push-ready that wrote the evidence
  age,        \* history: the true age of the evidence when it was checked
  back,       \* history: by how much the clock was set back since the write
  ahead       \* history: and forward

world == <<head, file, truth, offset, moves, jumps>>
local == <<config, original, change, tested, started>>
history == <<still, calm, age, back, ahead>>
vars == <<world, pc, command, local, evidence, history>>

Wall == truth + offset
Ended == {"idle", "refused", "written", "authorised"}
Running == pc \notin Ended

\* require_clean_head, tree_fingerprint: the file is the one of HEAD.
FileIsClean == file = ConfigOf[head]
Fingerprint == [head |-> head, file |-> file]

Goto(step) == pc' = step

\* The command ends: what it holds goes with it.
Finish(result) ==
  /\ Goto(result)
  /\ config' = None /\ original' = None /\ change' = None
  /\ tested' = None /\ started' = 0
  /\ UNCHANGED <<world, command, evidence, still, back, ahead>>

\* RuntimeError: the evidence stays as it is.
Refuse ==
  /\ Finish("refused")
  /\ calm' = (calm /\ command = "pre-push")
  /\ age' = 0

Require(condition, step) ==
  \/ /\ condition /\ Goto(step)
     /\ UNCHANGED <<world, command, local, evidence, history>>
  \/ ~condition /\ Refuse

-----------------------------------------------------------------------------
(* main: both commands.                                                    *)

Start(c) ==
  /\ ~Running
  /\ c = "pre-push" => evidence # None
  /\ Goto("load")
  /\ command' = c
  /\ still' = TRUE
  /\ calm' = (c = "push-ready" \/ calm)
  /\ age' = 0
  /\ UNCHANGED <<world, local, evidence, back, ahead>>

\* load_config comes before require_clean_head.
LoadConfig ==
  /\ pc = "load"
  /\ config' = file
  /\ Goto("clean")
  /\ UNCHANGED <<world, command, original, change, tested, started, evidence, history>>

RequireCleanHead ==
  /\ pc = "clean"
  /\ Require(FileIsClean, IF command = "push-ready" THEN "original" ELSE "age")

\* original_head, original_branch, original_tree_fingerprint.
ReadOriginal ==
  /\ pc = "original"
  /\ original' = Fingerprint
  /\ Goto("plan")
  /\ UNCHANGED <<world, command, config, change, tested, started, evidence, history>>

\* planned_change: the base is the one the loaded configuration names.
\* require_trusted_check_policy: base and commit have the same file.
Planned == [base |-> config.base, head |-> head, tree |-> Fingerprint]
Trusted == ConfigOf[head] = ConfigAt[config.base]

PlanChecks ==
  /\ pc = "plan"
  /\ \/ /\ Trusted
        /\ tested' = [base |-> config.base, head |-> head]
        /\ started' = Wall
        /\ Goto("checks")
        /\ UNCHANGED <<world, command, config, original, change, evidence, history>>
     \/ ~Trusted /\ Refuse

\* Nothing may be different after the checks.
ExecuteChecks ==
  pc = "checks" /\ Require(FileIsClean /\ Fingerprint = original, "plan again")

\* The second planned_change, for the review and the evidence.
PlanReview ==
  /\ pc = "plan again"
  /\ change' = Planned
  /\ Goto("tree")
  /\ UNCHANGED <<world, command, config, original, tested, started, evidence, history>>

-----------------------------------------------------------------------------
(* write_evidence.                                                         *)

CompareTree ==
  pc = "tree" /\ Require(Fingerprint = change.tree, "write")

\* config_sha256 reads the file again.  at and still are not in the document.
WriteEvidence ==
  /\ pc = "write"
  /\ evidence' = [started |-> started, completed |-> Wall, change |-> change,
                  tested |-> tested, hash |-> file, at |-> truth, still |-> calm]
  /\ back' = 0 /\ ahead' = 0
  /\ Goto("age")
  /\ UNCHANGED <<world, command, local, still, calm, age>>

-----------------------------------------------------------------------------
(* verify_evidence, at the end of push-ready and in the hook.              *)

\* Faults: one second too many; nothing dated in the future.
NearlyYoung ==
  evidence.started <= evidence.completed
  /\ Wall - evidence.completed \in (0 - Tolerance)..(config.maxAge + 1)
NeverFuture ==
  evidence.started <= evidence.completed
  /\ Wall - evidence.completed \in 0..config.maxAge
YoungEnough ==
  evidence.started <= evidence.completed
  /\ Wall - evidence.completed \in (0 - Tolerance)..config.maxAge

CheckAge ==
  /\ pc = "age"
  /\ \/ /\ YoungEnough
        /\ Goto("replan")
        /\ age' = truth - evidence.at
        /\ UNCHANGED <<world, command, local, evidence, still, calm, back, ahead>>
     \/ ~YoungEnough /\ Refuse

PlanEvidence ==
  /\ pc = "replan"
  /\ \/ /\ Trusted
        /\ change' = Planned
        /\ Goto("compare")
        /\ UNCHANGED <<world, command, config, original, tested, started, evidence, history>>
     \/ ~Trusted /\ Refuse

\* Fault: of the change only the commit is compared.
HeadMatches == evidence.hash = file /\ evidence.change.head = change.head
EvidenceMatches ==
  /\ evidence.hash = file /\ evidence.change = change
  /\ evidence.tested = [base |-> change.base, head |-> change.head]

CompareEvidence ==
  /\ pc = "compare"
  /\ \/ /\ EvidenceMatches
        /\ Finish(IF command = "push-ready" THEN "written" ELSE "authorised")
        /\ UNCHANGED <<calm, age>>
     \/ ~EvidenceMatches /\ Refuse

-----------------------------------------------------------------------------
(* The developer and the clock.                                            *)

Moved == still' = FALSE /\ calm' = FALSE /\ moves < MaxMoves /\ moves' = moves + 1

EditFile ==
  /\ Moved
  /\ file' \in (Edits \cup {ConfigOf[head]}) \ {file}
  /\ UNCHANGED <<head, truth, offset, jumps, pc, command, local, evidence, age, back, ahead>>

SwitchBranch ==
  /\ Moved
  /\ FileIsClean
  /\ head' \in Heads \ {head}
  /\ file' = ConfigOf[head']
  /\ UNCHANGED <<truth, offset, jumps, pc, command, local, evidence, age, back, ahead>>

Tick ==
  /\ truth < MaxTime
  /\ truth' = truth + 1
  /\ UNCHANGED <<head, file, offset, moves, jumps, pc, command, local, evidence, history>>

SetClock ==
  /\ jumps < MaxJumps /\ jumps' = jumps + 1
  /\ offset' \in ((0 - Skew)..Skew) \ {offset}
  /\ back' = IF offset' < offset THEN back + (offset - offset') ELSE back
  /\ ahead' = IF offset' > offset THEN ahead + (offset' - offset) ELSE ahead
  /\ UNCHANGED <<head, file, truth, moves, pc, command, local, evidence, still, calm, age>>

-----------------------------------------------------------------------------
Init ==
  /\ head \in Heads /\ file = ConfigOf[head]
  /\ truth = 0 /\ offset = 0 /\ moves = 0 /\ jumps = 0
  /\ pc = "idle" /\ command = "push-ready"
  /\ config = None /\ original = None /\ change = None /\ tested = None /\ started = 0
  /\ evidence = None
  /\ still = TRUE /\ calm = FALSE /\ age = 0 /\ back = 0 /\ ahead = 0

Next ==
  \/ \E c \in {"push-ready", "pre-push"} : Start(c)
  \/ LoadConfig \/ RequireCleanHead \/ ReadOriginal \/ PlanChecks \/ ExecuteChecks
  \/ PlanReview \/ CompareTree \/ WriteEvidence
  \/ CheckAge \/ PlanEvidence \/ CompareEvidence
  \/ EditFile \/ SwitchBranch \/ Tick \/ SetClock

Spec == Init /\ [][Next]_vars

-----------------------------------------------------------------------------
(* What accepted evidence must mean.                                       *)

Own == ConfigOf[evidence.change.head]

\* load_config before require_clean_head: evidence the hook accepts was made
\* for the base the pushed commit itself names, and records the hash of its
\* own configuration file, although both were read from files nobody had
\* proven clean.  It takes a change of the file during push-ready and another
\* one during the hook to get past this.
OneSwitchIsCaught ==
  pc = "authorised" /\ (evidence.still \/ still) =>
    evidence.change.base = Own.base /\ evidence.hash = Own

\* verify_evidence: evidence outlives the age its commit allows by no more than
\* the clock was set back since it was written; setting the clock forward or
\* evidence dated in the future gains nothing.
AuthorisedIsYoung ==
  pc = "authorised" /\ still => age <= Own.maxAge + back

\* verify_evidence: the hook after a push-ready, with nothing moved since it
\* started, refuses only evidence that is old, on a clock that was set forward
\* or not, or a clock set back further than the tolerance.
SteadyHookIsAccepted ==
  pc = "refused" /\ command = "pre-push" /\ calm =>
    truth - evidence.at + ahead > Own.maxAge \/ back > Tolerance

=============================================================================
