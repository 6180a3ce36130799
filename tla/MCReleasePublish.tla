--------------------------- MODULE MCReleasePublish ---------------------------
(***************************************************************************)
(* ReleasePublish for TLC: two runs, of two releases or of the same one.   *)
(***************************************************************************)
EXTENDS ReleasePublish, TLC

CONSTANTS r1, r2, v1, v2

MCAttempts == r1 :> 2 @@ r2 :> 1
MCOneAttempt == [r \in Runs |-> 1]
MCTwoAttempts == [r \in Runs |-> 2]
\* The evidence documents with the SBOM, and the signed checksum manifest.
MCFiles == {"file"} \X {"evidence", "checksums"}
MCSymmetry == Permutations({v1, v2})
MCCommitOf == [v \in {v1, v2} |-> v]

=============================================================================
