---------------------------- MODULE AssessmentStart ----------------------------
(***************************************************************************)
(* AssessmentResultService.startAssessment for one user and one            *)
(* assessment: the function it runs under RedisLock's withLock, the        *)
(* attempts it leaves in MongoDB and the unique index that may guard them. *)
(*                                                                         *)
(* findByUserAndAssessment matches _id against the assessment's id, so the *)
(* model looks attempts up by document id.  No attempt has that id: the    *)
(* branches of startAssessment for an existing attempt (lines 101 to 158)  *)
(* and of canUserRetakeAssessment after its first return never run, and    *)
(* have no action here.                                                    *)
(***************************************************************************)
EXTENDS RedisLock, FiniteSets

CONSTANTS
    AssessmentId,   \* the _id of the assessment
    UniqueIndex,    \* does (userId, assessmentId) have its unique index?
    MaxDocs         \* bound: attempts ever created

\* The model declares the index with a partial filter ($ne) and
\* scripts/create-indexes.js without one: deployments differ.
ASSUME StartAssumption ==
    /\ UniqueIndex \in BOOLEAN
    /\ MaxDocs \in Nat
    /\ AssessmentId \notin Nat

VARIABLES
    step,      \* how far the function of each request has come
    attempts,  \* the attempts stored for the user and the assessment
    created    \* number of attempts ever created, the last document id

startVars == <<lockVars, step, attempts, created>>

DocId == 1..MaxDocs

Attempt == [id: DocId, status: {"in_progress", "completed", "failed"}]

FindById(id) == {a \in attempts : a.id = id}

StartInit ==
    /\ LockInit
    /\ step = [p \in Proc |-> "none"]
    /\ attempts = {}
    /\ created = 0

-----------------------------------------------------------------------------
(* The function run under the lock *)

\* The assessment is active and assigned, canUserRetakeAssessment and
\* findByUserAndAssessment find no attempt, and the user and the questions
\* are fetched.
CheckEligible(p) ==
    /\ pc[p] = "exec" /\ step[p] = "none"
    /\ FindById(AssessmentId) = {}
    /\ step' = [step EXCEPT ![p] = "checked"]
    /\ UNCHANGED <<lockVars, attempts, created>>

\* The insert goes through: the new attempt is returned.
Create(p) ==
    /\ pc[p] = "exec" /\ step[p] = "checked"
    /\ created < MaxDocs
    /\ UniqueIndex => attempts = {}
    /\ created' = created + 1
    /\ attempts' = attempts \cup {[id |-> created + 1, status |-> "in_progress"]}
    /\ step' = [step EXCEPT ![p] = "returned"]
    /\ UNCHANGED lockVars

\* The insert meets the unique index (E11000).  The attempt it met is looked
\* up again, by document id: it is not found, and the error is rethrown.
CreateDuplicate(p) ==
    /\ pc[p] = "exec" /\ step[p] = "checked"
    /\ UniqueIndex /\ attempts # {}
    /\ FindById(AssessmentId) = {}
    /\ step' = [step EXCEPT ![p] = "rethrown"]
    /\ UNCHANGED <<lockVars, attempts, created>>

\* A check refuses the request, or a query of the function fails.
Throw(p) ==
    /\ pc[p] = "exec" /\ step[p] \in {"none", "checked"}
    /\ step' = [step EXCEPT ![p] = "thrown"]
    /\ UNCHANGED <<lockVars, attempts, created>>

-----------------------------------------------------------------------------
(* The rest of the system, as far as it changes the stored attempts *)

\* submitAssessment or autoFailExpiredAssessments closes an attempt.
Close(a, s) ==
    /\ a.status = "in_progress"
    /\ attempts' = (attempts \ {a}) \cup {[a EXCEPT !.status = s]}
    /\ UNCHANGED <<lockVars, step, created>>

\* deleteResult, on an administrator's request.
Delete(a) ==
    /\ attempts' = attempts \ {a}
    /\ UNCHANGED <<lockVars, step, created>>

-----------------------------------------------------------------------------
\* Mutant: withLock does not await the function before it releases the lock.
LockMoveWithoutAwait(p) ==
    /\ \/ Acquiring(p) \/ FnStarts(p) \/ FnReturns(p)
       \/ Release(p) \/ ReleaseFails(p) \/ Crash(p)
    /\ UNCHANGED step

\* withLock calls the function once and sees how it ends.
LockMove(p) ==
    \/ /\ \/ Acquiring(p) \/ FnStarts(p) \/ Release(p) \/ ReleaseFails(p)
       /\ UNCHANGED step
    \/ /\ step[p] \in {"returned", "rethrown", "thrown"}
       /\ FnReturns(p)
       /\ step' = [step EXCEPT ![p] = "none"]
    \/ /\ Crash(p)
       /\ step' = [step EXCEPT ![p] = "none"]

StartStep(p) ==
    \/ LockMove(p) /\ UNCHANGED <<attempts, created>>
    \/ CheckEligible(p)
    \/ Create(p)
    \/ CreateDuplicate(p)
    \/ Throw(p)

StartNext ==
    \/ Tick /\ UNCHANGED <<step, attempts, created>>
    \/ \E p \in Proc : StartStep(p)
    \/ \E a \in attempts :
          \/ Delete(a)
          \/ \E s \in {"completed", "failed"} : Close(a, s)

StartSpec == StartInit /\ [][StartNext]_startVars

\* What an awaited promise of p can settle with: the reply of the SET, a
\* query of the function, its end.
Settles(p) ==
    \/ FnStarts(p) /\ UNCHANGED <<step, attempts, created>>
    \/ CheckEligible(p) \/ Create(p) \/ CreateDuplicate(p) \/ Throw(p)
    \/ step[p] # "none" /\ FnReturns(p) /\ LockMove(p) /\ UNCHANGED <<attempts, created>>

\* Time passes and awaited promises settle.  No fairness on the calls, the
\* releases, the failures or the crashes.
StartFairSpec ==
    /\ StartSpec
    /\ WF_startVars(Tick /\ UNCHANGED <<step, attempts, created>>)
    /\ \A p \in Proc : WF_startVars(Settles(p))

-----------------------------------------------------------------------------
(* Properties *)

\* Type invariant: a request has progress inside the function only while
\* withLock runs it, and document ids are never reused.
StartTypeOK ==
    /\ LockTypeOK
    /\ step \in [Proc -> {"none", "checked", "returned", "rethrown", "thrown"}]
    /\ \A p \in Proc : step[p] # "none" => pc[p] = "exec"
    /\ created \in 0..MaxDocs
    /\ attempts \subseteq {a \in Attempt : a.id <= created}
    /\ \A a, b \in attempts : a.id = b.id => a = b

\* While a request is between its eligibility check and its insert, no other
\* request inserts an attempt: the lock, not the index, makes the check and
\* the insert one step.  Needs MaxHold < TTL, and holds without the index.
NoCreateBehindACheck ==
    [][\A p \in Proc :
          step[p] = "checked" /\ step'[p] = "checked" => created' = created]_startVars

=============================================================================
