---------------------------- MODULE MCPushReady ----------------------------
(***************************************************************************)
(* Small instances of PushReady: three parts, which differ in the clone    *)
(* they start from and in what is bounded.                                 *)
(***************************************************************************)
EXTENDS PushReady, TLC

VARIABLE part  \* the instance a behaviour belongs to

\* b0 <- b1 is the base; f1 <- f2 and g grow feature branches from b0.
\* g changes the check policy, and f2 conflicts with b1.
MCCommits == {"b0", "b1", "f1", "f2"}
MCAllCommits == MCCommits \cup {"g"}
MCAncestor ==
  {<<c, c>> : c \in MCAllCommits} \cup {<<"b0", c>> : c \in MCAllCommits}
    \cup {<<"f1", "f2">>}
MCPolicyOf == [c \in MCAllCommits |-> IF c = "g" THEN "new" ELSE "old"]
MCMergeable == MCAllCommits \X MCAllCommits \ {<<"b1", "f2">>}
MCBranches == {"develop", "topic"}

\* A developer with f1 checked out, clean, on a branch not pushed yet.
AtWork ==
  /\ localTip = [r \in Refs |-> IF r = Develop THEN "b0" ELSE "f1"]
  /\ branch = "topic"
  /\ work = Clean
  /\ baseRef = "b0"

\* The base moved since the last fetch, and another clone may have pushed.
Behind ==
  /\ Init
  /\ AtWork
  /\ remote \in [Branches -> {"b1", "b0", "f1", "f2"}]
  /\ remote[Develop] = "b1"

NotPushedYet == remote = [b \in Branches |-> IF b = Develop THEN "b0" ELSE NoCommit]

\* A push-ready run on f1 and base b0 ended with success.
MCEvidence ==
  [base |-> "b0", head |-> "f1", branch |-> "topic",
   fp |-> [head |-> "f1", work |-> Clean],
   integration |-> <<"b0", "f1">>, expired |-> FALSE]

Reviewed ==
  /\ CloneInit
  /\ NoCommand
  /\ AtWork
  /\ NotPushedYet
  /\ evidence = MCEvidence
  /\ passed = {MCEvidence.integration}

MCInit ==
  \/ part = "overlap" /\ Init /\ AtWork /\ NotPushedYet
  \/ part = "calm" /\ Behind
  \/ part = "fetches" /\ Reviewed

Bounded(commands, moved, started) ==
  /\ \A p \in Procs : cmd[p] \in commands \cup {NoValue}
  /\ moves <= moved /\ runs <= started

\* Two runs of push-ready or the hook overlap and a third one runs on what they
\* left; one move.
Overlap ==
  /\ Bounded({"push-ready", "pre-push"}, 1, 3)
  /\ runs = 3 => \E p \in Procs : ~Running(p)
  /\ \A r \in Refs : localTip[r] # "g"
  /\ \A b \in Branches : remote[b] # "g"

\* Any two commands; nobody else does anything.
OnlyCommands == Bounded(Commands, 0, 2)

\* Two commands that fetch, and a developer who only fetches; Git hands the
\* plain push of the feature branch to the hook.
OnlyFetches ==
  /\ Bounded({"validate", "pre-push"}, 2, 2)
  /\ localTip["topic"] = "f1" /\ branch = "topic" /\ work = Clean
  /\ remote["topic"] = NoCommit
  /\ \A p \in Procs : upd[p] # NoValue =>
       upd[p].src = "topic" /\ upd[p].dst = "topic" /\ ~upd[p].more

Within ==
  CASE part = "overlap" -> Overlap
    [] part = "calm" -> OnlyCommands
    [] part = "fetches" -> OnlyFetches

\* Steps out of the bounds are not taken.
MCNext == Next /\ UNCHANGED part /\ Within'

MCSpec == MCInit /\ [][MCNext]_<<vars, part>>
MCFetchSpec == part = "fetches" /\ Reviewed /\ [][MCNext]_<<vars, part>>

SymmetryProcs == Permutations(Procs)
=============================================================================
