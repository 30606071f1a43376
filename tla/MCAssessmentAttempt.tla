------------------------- MODULE MCAssessmentAttempt -------------------------
(* TLC instance of AssessmentAttempt. *)
EXTENDS AssessmentAttempt

AllOps == {"save", "clear", "submit", "solve", "recalculate", "autoFail", "list"}

\* Everything answered and solved, and flags that do not say so.
UnmarkedWork ==
    {[answers |-> [q \in Question |-> Right], marked |-> {},
      solved |-> Test, paid |-> {}]}
=============================================================================
