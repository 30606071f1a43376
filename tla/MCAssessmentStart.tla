-------------------------- MODULE MCAssessmentStart --------------------------
(* TLC instance of AssessmentStart. *)
EXTENDS AssessmentStart, TLC

Symmetry == Permutations(Proc)
=============================================================================
