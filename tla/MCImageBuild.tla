----------------------------- MODULE MCImageBuild -----------------------------
(***************************************************************************)
(* ImageBuild for TLC: a program that names two modules, one of which is   *)
(* the only one to name a third.                                           *)
(***************************************************************************)
EXTENDS ImageBuild

CONSTANTS m1, m2, m3

MCModules == {m1, m2, m3}
MCRoots == {m1, m2}
MCRequires == [m \in MCModules |-> IF m = m1 THEN {m3} ELSE {}]

=============================================================================
