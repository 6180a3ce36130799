------------------------ MODULE MCExactRevisionReview ------------------------
(***************************************************************************)
(* A call of git_output, and after a call that read nothing commands that  *)
(* materialize, bind and verify reviews.  The commands take the length and *)
(* the success of a diff from Reviewable, so they share nothing with the   *)
(* call.  One pair of commits does not merge.                              *)
(***************************************************************************)
EXTENDS ExactRevisionReview, BoundedGitOutput

CONSTANTS b1, b2, h1, h2

MCReviewable == {<<b1, h1>>, <<b2, h1>>, <<b2, h2>>}

NothingWasRead ==
  output = 0 /\ open = {} /\ registered = {} /\ time = 0 /\ result = "returned"

MCInit == Init /\ OutputInit

MCNext ==
  \/ OutputNext /\ UNCHANGED vars
  \/ NothingWasRead /\ Next /\ UNCHANGED outputVars

\* The fairness of FairOutputSpec; none of the commands is fair.
MCSpec ==
  /\ MCInit
  /\ [][MCNext]_<<vars, outputVars>>
  /\ WF_outputVars(Call) /\ WF_outputVars(Tick)
=============================================================================
