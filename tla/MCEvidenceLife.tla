---------------------------- MODULE MCEvidenceLife ----------------------------
(***************************************************************************)
(* EvidenceLife for TLC: a feature branch whose configuration is the one   *)
(* of both governed bases, and another branch that names main as its base. *)
(***************************************************************************)
EXTENDS EvidenceLife

CONSTANTS feature, other, develop, main

Reviewed == [base |-> develop, maxAge |-> 2]
MCHeads == {feature, other}
MCBases == {develop, main}
MCConfigOf == [h \in MCHeads |-> IF h = feature THEN Reviewed ELSE [base |-> main, maxAge |-> 2]]
MCConfigAt == [b \in MCBases |-> Reviewed]
MCEdits == {[base |-> main, maxAge |-> 2], [base |-> develop, maxAge |-> 3]}

=============================================================================
