-------------------------- MODULE SubmissionPromise --------------------------
(***************************************************************************)
(* What a student may rely on once code is submitted: one run decides the  *)
(* result of a submission, once; the database only ever holds that result; *)
(* and the browser only ever shows what the database holds.  A submission  *)
(* may stay undecided for ever.  SubmissionPipeline implements this.       *)
(***************************************************************************)
CONSTANTS
    Submission,  \* submissionIds
    Result,      \* results a run can end with
    Failures,    \* those whose status is 'failed'
    NoResult     \* no result yet

VARIABLES
    outcome,  \* the result decided
    stored,   \* the result in the database
    shown     \* the result the browser shows

promiseVars == <<outcome, stored, shown>>

Nothing == [s \in Submission |-> NoResult]

PromiseInit == outcome = Nothing /\ stored = Nothing /\ shown = Nothing

Decide(s) ==
    /\ outcome[s] = NoResult
    /\ \E r \in Result : outcome' = [outcome EXCEPT ![s] = r]
    /\ UNCHANGED <<stored, shown>>

Publish(s) ==
    /\ outcome[s] # NoResult
    /\ stored' = [stored EXCEPT ![s] = outcome[s]]
    /\ UNCHANGED <<outcome, shown>>

Show(s) ==
    /\ stored[s] \in Result \ Failures
    /\ shown[s] = NoResult
    /\ shown' = [shown EXCEPT ![s] = stored[s]]
    /\ UNCHANGED <<outcome, stored>>

PromiseNext == \E s \in Submission : Decide(s) \/ Publish(s) \/ Show(s)

PromiseSpec == PromiseInit /\ [][PromiseNext]_promiseVars

=============================================================================
