--------------------------- MODULE AttemptLifecycle ---------------------------
(***************************************************************************)
(* What AssessmentResultService promises of one user's attempt at an       *)
(* assessment: the states it goes through, whatever requests interleave.   *)
(* AssessmentAttempt implements it.                                        *)
(***************************************************************************)
EXTENDS Naturals

CONSTANTS
    PassMarks,    \* marks that pass the assessment
    MaxMarks      \* marks of all its questions

VARIABLES
    state,    \* "none", or the status of the attempt
    marks,    \* totalMarksObtained
    touched,  \* an administrator wrote the attempt since it was last graded
    over      \* the end date has passed, or a process takes it for passed

lifecycleVars == <<state, marks, touched, over>>

LifecycleInit ==
    /\ state = "none" /\ marks = 0
    /\ touched = FALSE
    /\ over \in BOOLEAN

Started == state # "none"

Start ==
    /\ ~Started
    /\ state' = "in_progress"
    /\ UNCHANGED <<marks, touched, over>>

\* An attempt is graded, or graded again: its status and its marks change
\* together and agree.
GradeAttempt ==
    /\ Started
    /\ marks' \in 0..MaxMarks
    /\ state' = IF marks' >= PassMarks THEN "completed" ELSE "failed"
    /\ touched' = FALSE
    /\ UNCHANGED over

\* A time limit fails the attempt, which keeps its marks or loses them all.
Lapse ==
    /\ Started
    /\ state' = "failed"
    /\ marks' \in {marks, 0}
    /\ UNCHANGED <<touched, over>>

\* The end date completes the attempt, graded or not.
CloseAtEnd ==
    /\ Started /\ over
    /\ state' = "completed"
    /\ UNCHANGED <<marks, touched, over>>

\* An administrator creates the attempt or writes it, as he likes.
SetByHand ==
    /\ state' # "none"
    /\ marks' \in Nat
    /\ touched' = TRUE
    /\ UNCHANGED over

Remove ==
    /\ Started
    /\ state' = "none"
    /\ marks' = 0
    /\ touched' = FALSE
    /\ UNCHANGED over

EndDatePasses ==
    /\ over' = TRUE
    /\ UNCHANGED <<state, marks, touched>>

LifecycleNext ==
    \/ Start \/ GradeAttempt \/ Lapse \/ CloseAtEnd
    \/ SetByHand \/ Remove \/ EndDatePasses

LifecycleSpec == LifecycleInit /\ [][LifecycleNext]_lifecycleVars

=============================================================================
