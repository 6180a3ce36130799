------------------------------ MODULE AtomicFile ------------------------------
(***************************************************************************)
(* What write_owned_regular_file and protected_asset_bytes promise about   *)
(* one file: it always holds one payload as a whole, a write takes effect  *)
(* at one instant or never, and a read returns what the file held at one   *)
(* instant of the call.                                                    *)
(***************************************************************************)
CONSTANTS Writers, Readers, Initial, None

VARIABLES
  content,  \* whose payload the file holds: a writer's, Initial's, or None
  written,  \* writers whose write has taken effect
  seen      \* reader -> the payload its read is bound to

vars == <<content, written, seen>>

Init ==
  /\ content \in {Initial, None}
  /\ written = {}
  /\ seen = [r \in Readers |-> None]

Write(w) ==
  /\ w \notin written
  /\ content' = w
  /\ written' = written \cup {w}
  /\ UNCHANGED seen

Read(r) ==
  /\ seen[r] = None /\ content # None
  /\ seen' = [seen EXCEPT ![r] = content]
  /\ UNCHANGED <<content, written>>

Next == (\E w \in Writers : Write(w)) \/ (\E r \in Readers : Read(r))

Spec == Init /\ [][Next]_vars

=============================================================================
