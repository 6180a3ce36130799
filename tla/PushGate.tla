------------------------------ MODULE PushGate ------------------------------
(***************************************************************************)
(* What the push-ready gate of scripts/lit-push-ready.py promises, without *)
(* evidence files, processes or Git plumbing: a clone updates a branch of  *)
(* the governed remote only with a commit whose merge with an              *)
(* authoritative base passed the configured checks, only on a feature      *)
(* branch, and only fast-forward.  PushReady implements this module.       *)
(***************************************************************************)

CONSTANTS
  Commits,    \* commit objects
  Branches,   \* refs/heads/* names
  Develop,    \* the governed base branch, refs/heads/develop
  NoCommit,   \* the all-zero object id: the ref does not exist
  Ancestor    \* <<a, c>>: a is an ancestor of c, or c itself

VARIABLES
  certified,  \* <<base, head>> pairs whose integration passed every check
  remote,     \* branch of the remote -> commit or NoCommit
  pushed      \* the updates this clone made: [ref, old, new, base]

vars == <<certified, remote, pushed>>

\* What passed before the clone is looked at counts too.
Init ==
  /\ certified \subseteq Commits \X Commits
  /\ remote \in [Branches -> Commits \cup {NoCommit}]
  /\ pushed = {}

\* The checks pass on the merge of head h into base b.
Certify(b, h) ==
  /\ certified' = certified \cup {<<b, h>>}
  /\ UNCHANGED <<remote, pushed>>

\* This clone updates branch f of the remote to commit h, certified against b.
Push(f, b, h) ==
  /\ f # Develop
  /\ <<b, h>> \in certified
  /\ remote[f] = NoCommit \/ <<remote[f], h>> \in Ancestor
  /\ pushed' = pushed \cup {[ref |-> f, old |-> remote[f], new |-> h, base |-> b]}
  /\ remote' = [remote EXCEPT ![f] = h]
  /\ UNCHANGED certified

\* Everybody else: merged pull requests and other clones.
Elsewhere ==
  /\ remote' \in [Branches -> Commits \cup {NoCommit}]
  /\ UNCHANGED <<certified, pushed>>

Next ==
  \/ \E b, h \in Commits : Certify(b, h)
  \/ \E f \in Branches, b, h \in Commits : Push(f, b, h)
  \/ Elsewhere

Spec == Init /\ [][Next]_vars

=============================================================================
