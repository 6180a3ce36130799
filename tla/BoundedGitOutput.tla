--------------------------- MODULE BoundedGitOutput ---------------------------
(***************************************************************************)
(* scripts/materialize-exact-revision-review.py: git_output with a byte    *)
(* limit.  A Git process writes to a pipe while the caller reads it in     *)
(* pieces, against a deadline; a descendant of Git may keep the pipes open *)
(* after Git has gone.                                                     *)
(***************************************************************************)
EXTENDS Integers, FiniteSetsExt

CONSTANTS
  MaxBytes,   \* MAX_REVIEW_BYTES, an exclusive limit
  Chunk,      \* most bytes one read asks for
  Capacity,   \* bytes a pipe holds
  MaxOutput,  \* bound: bytes Git would like to write
  Timeout     \* bound: instants until the deadline

ASSUME OutputAssumption ==
  /\ MaxBytes \in Nat \ {0} /\ Chunk \in Nat \ {0} /\ Capacity \in Nat \ {0}
  /\ MaxOutput \in Nat /\ Timeout \in Nat

Streams == {"stdout", "stderr"}

VARIABLES
  output,      \* bytes Git means to write to stdout
  sent,        \* bytes written so far
  open,        \* streams some process can still write to
  child,       \* "running", or how it ended: "zero", "nonzero", "killed"
  registered,  \* streams the selector still watches
  taken,       \* bytes read from the pipe
  stdout,      \* bytes kept
  exceeded,    \* limit_exceeded
  time,        \* instants passed
  step,          \* the caller's next step
  result       \* "returned" with stdout, or "failed"

git == <<output, sent, open, child>>
caller == <<registered, taken, stdout, exceeded, step, result>>
outputVars == <<git, caller, time>>

Running == child = "running"
InPipe == sent - taken
Expired == time = Timeout

\* SIGKILL, then wait: Git is gone, a descendant may hold on to the streams.
Killed == IF Running THEN "killed" ELSE child

-----------------------------------------------------------------------------
(* Git and its descendants.                                                *)

WriteOutput ==
  /\ Running /\ "stdout" \in open
  /\ \E n \in 1..Min({output - sent, Capacity - InPipe}) : sent' = sent + n
  /\ UNCHANGED <<output, open, child, caller, time>>

\* Git that exits with 0 has written everything.
Exit(status) ==
  /\ Running
  /\ status = "zero" => sent = output
  /\ child' = status
  /\ UNCHANGED <<output, sent, open, caller, time>>

CloseStream(s) ==
  /\ s \in open
  /\ ~Running \/ s = "stderr" \/ sent = output
  /\ open' = open \ {s}
  /\ UNCHANGED <<output, sent, child, caller, time>>

-----------------------------------------------------------------------------
(* The loop over the selector.                                             *)

\* Fault: the last allowed byte is not allowed.
StrictAllowed == MaxBytes - 2 - stdout
Allowed == MaxBytes - 1 - stdout

\* Fault: no byte beyond the limit is asked for.
ReadWithoutSentinel == Min({Chunk, Allowed})
ReadSize == Min({Chunk, Allowed + 1})

\* A piece: kept as far as it is allowed; the first byte too many kills Git.
ReadOutput ==
  /\ step = "select"
  /\ "stdout" \in registered
  /\ \E n \in 1..Min({ReadSize, InPipe}) :
       /\ taken' = taken + n
       /\ stdout' = stdout + Min({n, Allowed})
       /\ exceeded' = (exceeded \/ n > Allowed)
       /\ child' = IF n > Allowed THEN Killed ELSE child
  /\ UNCHANGED <<output, sent, open, registered, time, step, result>>

\* A read of no bytes looks like the end of the stream.
EndOfStream(s) ==
  /\ step = "select"
  /\ s \in registered
  /\ \/ s \notin open /\ (s = "stdout" => InPipe = 0)
     \/ s = "stdout" /\ ReadSize = 0 /\ InPipe > 0
  /\ registered' = registered \ {s}
  /\ UNCHANGED <<git, taken, stdout, exceeded, time, step, result>>

\* Fault: a silent stream is waited for without a limit.
NeverExpires == FALSE
DeadlinePassed == Expired

\* Past the deadline, in the loop or after it: Git is killed.
TimeOut ==
  /\ step \in {"select", "wait"} /\ DeadlinePassed
  /\ child' = Killed
  /\ step' = "ended" /\ result' = "failed"
  /\ UNCHANGED <<output, sent, open, registered, taken, stdout, exceeded, time>>

LeaveLoop ==
  /\ step = "select" /\ registered = {}
  /\ step' = "wait"
  /\ UNCHANGED <<git, registered, taken, stdout, exceeded, time, result>>

Accepted == ~exceeded /\ child = "zero"

WaitForGit ==
  /\ step = "wait" /\ ~Running
  /\ step' = "ended"
  /\ result' = IF Accepted THEN "returned" ELSE "failed"
  /\ UNCHANGED <<git, registered, taken, stdout, exceeded, time>>

\* An error of the caller itself: the finally clause kills Git.
Reaped == Killed

Raise ==
  /\ step # "ended"
  /\ child' = Reaped
  /\ step' = "ended" /\ result' = "raised"
  /\ UNCHANGED <<output, sent, open, registered, taken, stdout, exceeded, time>>

Tick ==
  /\ step # "ended" /\ time < Timeout
  /\ time' = time + 1
  /\ UNCHANGED <<git, caller>>

-----------------------------------------------------------------------------
OutputInit ==
  /\ output \in 0..MaxOutput /\ sent = 0
  /\ open = Streams /\ registered = Streams
  /\ child = "running"
  /\ taken = 0 /\ stdout = 0 /\ exceeded = FALSE
  /\ time = 0 /\ step = "select" /\ result = "none"

Git == WriteOutput \/ Exit("zero") \/ Exit("nonzero") \/ \E s \in Streams : CloseStream(s)

Call ==
  \/ ReadOutput \/ (\E s \in Streams : EndOfStream(s)) \/ TimeOut
  \/ LeaveLoop \/ WaitForGit

OutputNext == Git \/ Call \/ Raise \/ Tick

OutputSpec == OutputInit /\ [][OutputNext]_outputVars

\* The caller runs and time passes; Git may do nothing at all.
FairOutputSpec == OutputSpec /\ WF_outputVars(Call) /\ WF_outputVars(Tick)

\* Every variable has its type; what is kept never reaches the limit.
OutputTypeOK ==
  /\ output \in 0..MaxOutput /\ sent \in 0..output /\ taken \in 0..sent
  /\ stdout \in 0..taken /\ stdout < MaxBytes
  /\ open \subseteq Streams /\ registered \subseteq Streams
  /\ child \in {"running", "zero", "nonzero", "killed"}
  /\ exceeded \in BOOLEAN /\ time \in 0..Timeout
  /\ step \in {"select", "wait", "ended"}
  /\ result \in {"none", "returned", "failed", "raised"}

-----------------------------------------------------------------------------
(* What the function must guarantee.                                       *)

\* git_output: what it returns is everything Git wrote, from a Git that
\* succeeded, and below the limit: never a truncated diff.
OutputIsComplete ==
  result = "returned" => stdout = output /\ output < MaxBytes /\ child = "zero"

\* A diff below the limit is never refused: a failure means a diff at or above
\* it, a Git that failed, or the deadline.
LegalOutputIsAccepted ==
  result = "failed" => output >= MaxBytes \/ child = "nonzero" \/ Expired

\* However the call ends, Git does not outlive it.
GitIsReaped == step = "ended" => ~Running

\* The call ends, also when Git hangs or a descendant keeps a stream open.
EveryCallEnds == <>(step = "ended")

=============================================================================
