------------------------ MODULE MCAssessmentCatalogue ------------------------
(* TLC instances of AssessmentCatalogue. *)
EXTENDS AssessmentCatalogue, TLC

\* Requests that carry no lists of their own.
KeepingOps == AllOps \ {"assign"}

StartOps == {"create", "deactivate", "activate", "start", "view"}

Symmetry == Permutations(Student) \cup Permutations(Request)
=============================================================================
