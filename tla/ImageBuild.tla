------------------------------- MODULE ImageBuild -------------------------------
(***************************************************************************)
(* The Dockerfile, as far as it fetches things with control of its own: a  *)
(* stage that prefetches Go modules and builds a program without the       *)
(* network, then the last stage, which copies the program and installs the *)
(* locked collections.  A stage starts only when the one before succeeded. *)
(***************************************************************************)
EXTENDS CollectionInstall, GoModules

buildVars == <<vars, goVars>>

BuildInit == Init /\ GoInit

GoStage == GoNext /\ UNCHANGED vars

CollectionStage == goPc = "built" /\ Next /\ UNCHANGED goVars

BuildNext == GoStage \/ CollectionStage

\* Requests and the installer have time limits, Go ends or its job is ended.
BuildSpec == BuildInit /\ [][BuildNext]_buildVars /\ WF_buildVars(BuildNext)

-----------------------------------------------------------------------------
\* Whatever Go, the proxies and the Galaxy server report, the build ends.
EveryBuildEnds == <>(pc \in {"built", "failed"} \/ goPc = "failed")

=============================================================================
