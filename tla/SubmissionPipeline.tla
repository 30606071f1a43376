-------------------------- MODULE SubmissionPipeline --------------------------
(***************************************************************************)
(* The way of a code submission: the browser posts it (CodingTestInterface *)
(* handleSubmit), the API queues a job under a fresh submissionId and      *)
(* stores nothing (TestController.submitTestSolution), a worker runs it    *)
(* (CodeSubmissionProcessor), and every API process that is listening      *)
(* hears that the job completed and upserts its result                     *)
(* (JobCompletionListener, TestService.saveSubmissionResult) while the     *)
(* browser polls getSubmissionStatus.                                      *)
(*                                                                         *)
(* The queue is BullMQ, modelled from the options the code gives it: a job *)
(* is completed only by the run that holds its lock, a job whose lock      *)
(* expires is queued again at most maxStalledCount times, and an event     *)
(* reaches only the processes that are listening when it is emitted.       *)
(***************************************************************************)
EXTENDS Naturals

CONSTANTS
    Submission,  \* submissionIds; each is a fresh ObjectId
    Worker,      \* slots that run jobs: worker processes times concurrency
    Api,         \* API processes, each with a JobCompletionListener
    Result,      \* results executeWithTestData returns
    Failures,    \* those with status 'failed'
    NoResult,    \* not a result
    NoWorker,    \* not a worker; the owner of a job no run holds
    Idle,        \* not a submission; what a free slot runs
    MaxStalls,   \* maxStalledCount
    MaxPolls,    \* maxAttempts of the browser's polling loop
    MaxFaults    \* bound: API restarts and failed upserts

ASSUME PipelineAssumption ==
    /\ Failures \subseteq Result
    /\ NoResult \notin Result
    /\ NoWorker \notin Worker
    /\ Idle \notin Submission
    /\ Api # {}
    /\ MaxStalls \in Nat /\ MaxPolls \in Nat /\ MaxFaults \in Nat

VARIABLES
    job,     \* the job of each submission in the queue
    run,     \* the submission each slot is running
    hung,    \* the slots whose call of Judge0 will never return
    up,      \* the API processes that are listening
    saves,   \* results each API process has heard of and is saving
    record,  \* the TestSubmission document
    client,  \* the browser that submitted
    faults   \* API faults so far

pipeVars == <<job, run, hung, up, saves, record, client, faults>>

Save == [sub : Submission, result : Result]

Job ==
    [state : {"none", "waiting", "active", "completed", "failed"},
     owner : Worker \cup {NoWorker},
     stalls : 0..MaxStalls,
     result : Result \cup {NoResult}]

Client ==
    [state : {"editing", "polling", "shown", "timedout", "refused"},
     polls : 0..MaxPolls,
     shows : Result \cup {NoResult}]

PipeTypeOK ==
    /\ job \in [Submission -> Job]
    /\ run \in [Worker -> Submission \cup {Idle}]
    /\ hung \subseteq Worker
    /\ up \subseteq Api
    /\ saves \in [Api -> SUBSET Save]
    /\ record \in [Submission -> Result \cup {NoResult}]
    /\ client \in [Submission -> Client]
    /\ faults \in 0..MaxFaults

PipeInit ==
    /\ job = [s \in Submission |->
          [state |-> "none", owner |-> NoWorker, stalls |-> 0,
           result |-> NoResult]]
    /\ run = [w \in Worker |-> Idle]
    /\ hung = {}
    /\ up = Api
    /\ saves = [a \in Api |-> {}]
    /\ record = [s \in Submission |-> NoResult]
    /\ client = [s \in Submission |->
          [state |-> "editing", polls |-> 0, shows |-> NoResult]]
    /\ faults = 0

Queued(s) == [job EXCEPT ![s].state = "waiting"]
-----------------------------------------------------------------------------
(* The submission. *)

\* submitTestSolution: only the queue learns of the submission.
Submit(s) ==
    /\ client[s].state = "editing"
    /\ up # {}
    /\ job' = Queued(s)
    /\ client' = [client EXCEPT ![s].state = "polling"]
    /\ UNCHANGED <<run, hung, up, saves, record, faults>>

\* queue.add throws, or its reply or the response is lost: the browser has
\* no submissionId to poll, whether or not the job is in the queue.
SubmitFails(s) ==
    /\ client[s].state = "editing"
    /\ job' \in {job, Queued(s)}
    /\ client' = [client EXCEPT ![s].state = "refused"]
    /\ UNCHANGED <<run, hung, up, saves, record, faults>>
-----------------------------------------------------------------------------
(* The workers. *)

\* A slot takes a waiting job and its lock.
PickUp(w, s) ==
    /\ run[w] = Idle
    /\ job[s].state = "waiting"
    /\ job' = [job EXCEPT ![s].state = "active", ![s].owner = w]
    /\ run' = [run EXCEPT ![w] = s]
    /\ UNCHANGED <<hung, up, saves, record, client, faults>>

\* The job is completed with the result of the run, and the processes that
\* are listening hear of it.
Completed(s, r) ==
    /\ job' = [job EXCEPT ![s].state = "completed", ![s].owner = NoWorker,
                          ![s].result = r]
    /\ saves' = [a \in Api |->
                   IF a \in up THEN saves[a] \cup {[sub |-> s, result |-> r]}
                               ELSE saves[a]]

HoldsTheLock(w, s) == job[s].state = "active" /\ job[s].owner = w

\* Mutant of Finish: the worker stores the result before it reports it.
FinishAndStore(w) ==
    \E r \in Result :
        /\ run[w] # Idle /\ w \notin hung
        /\ run' = [run EXCEPT ![w] = Idle]
        /\ record' = [record EXCEPT ![run[w]] = r]
        /\ IF HoldsTheLock(w, run[w]) THEN Completed(run[w], r)
                                      ELSE UNCHANGED <<job, saves>>
        /\ UNCHANGED <<hung, up, client, faults>>

\* Mutant of Finish: a run completes a job whose lock it has lost.
FinishUnowned(w) ==
    \E r \in Result :
        /\ run[w] # Idle /\ w \notin hung
        /\ run' = [run EXCEPT ![w] = Idle]
        /\ Completed(run[w], r)
        /\ UNCHANGED <<hung, up, record, client, faults>>

\* processJob returns.  executeWithTestData turns every error into a result
\* with status 'failed', so it never throws.  A run whose job was given to
\* another while it ran is refused, and its result is dropped.
Finish(w) ==
    \E r \in Result :
        /\ run[w] # Idle /\ w \notin hung
        /\ run' = [run EXCEPT ![w] = Idle]
        /\ IF HoldsTheLock(w, run[w]) THEN Completed(run[w], r)
                                      ELSE UNCHANGED <<job, saves>>
        /\ UNCHANGED <<hung, up, record, client, faults>>

\* executeCode awaits axios.post and axios.get, which have no timeout: an
\* answer that never comes is waited for as long as the process lives, and
\* the lock of the job is renewed meanwhile.
Hangs(w) ==
    /\ run[w] # Idle /\ w \notin hung
    /\ hung' = hung \cup {w}
    /\ UNCHANGED <<job, run, up, saves, record, client, faults>>

\* The worker process dies; its job stays active until its lock expires.
WorkerCrashes(w) ==
    /\ run[w] # Idle
    /\ run' = [run EXCEPT ![w] = Idle]
    /\ hung' = hung \ {w}
    /\ UNCHANGED <<job, up, saves, record, client, faults>>

\* Mutant of Stall: stalls are not counted.
StallUncounted(s) ==
    /\ job[s].state = "active"
    /\ job' = [job EXCEPT ![s].owner = NoWorker, ![s].state = "waiting"]
    /\ UNCHANGED <<run, hung, up, saves, record, client, faults>>

\* The lock of an active job expired: its worker died, or is too busy to
\* renew it and runs on.  Beyond maxStalledCount the job fails, and
\* listeners only log that.
Stall(s) ==
    /\ job[s].state = "active"
    /\ IF job[s].stalls < MaxStalls
       THEN job' = [job EXCEPT ![s].owner = NoWorker, ![s].state = "waiting",
                               ![s].stalls = @ + 1]
       ELSE job' = [job EXCEPT ![s].owner = NoWorker, ![s].state = "failed"]
    /\ UNCHANGED <<run, hung, up, saves, record, client, faults>>
-----------------------------------------------------------------------------
(* The API processes. *)

\* Mutant of SaveResult: results with status 'failed' are skipped.
SaveCompletedOnly(a) ==
    \E e \in saves[a] :
        /\ record' = IF e.result \in Failures THEN record
                     ELSE [record EXCEPT ![e.sub] = e.result]
        /\ saves' = [saves EXCEPT ![a] = @ \ {e}]
        /\ UNCHANGED <<job, run, hung, up, client, faults>>

\* saveSubmissionResult: an upsert that sets every field of the document.
SaveResult(a) ==
    \E e \in saves[a] :
        /\ record' = [record EXCEPT ![e.sub] = e.result]
        /\ saves' = [saves EXCEPT ![a] = @ \ {e}]
        /\ UNCHANGED <<job, run, hung, up, client, faults>>

\* The upsert throws: the listener logs it and drops the result.
SaveFails(a) ==
    \E e \in saves[a] :
        /\ faults < MaxFaults
        /\ faults' = faults + 1
        /\ saves' = [saves EXCEPT ![a] = @ \ {e}]
        /\ UNCHANGED <<job, run, hung, up, record, client>>

\* The process ends, by a signal or an uncaught error: the saves under way
\* go with it, and nobody listens in its place.
ApiStops(a) ==
    /\ a \in up
    /\ faults < MaxFaults
    /\ faults' = faults + 1
    /\ up' = up \ {a}
    /\ saves' = [saves EXCEPT ![a] = {}]
    /\ UNCHANGED <<job, run, hung, record, client>>

\* It starts again, and listens from the end of the event stream.
ApiStarts(a) ==
    /\ a \notin up
    /\ up' = up \cup {a}
    /\ UNCHANGED <<job, run, hung, saves, record, client, faults>>
-----------------------------------------------------------------------------
(* The browser. *)

StatusOf(r) == IF r = NoResult THEN "processing"
               ELSE IF r \in Failures THEN "failed" ELSE "completed"

Polling(s) == client[s].state = "polling" /\ client[s].polls < MaxPolls

\* Mutant of PollSubmission: one poll too many.
PollOnceMore(s) ==
    /\ client[s].state = "polling" /\ client[s].polls <= MaxPolls
    /\ client' = [client EXCEPT ![s].polls = @ + 1]
    /\ UNCHANGED <<job, run, hung, up, saves, record, faults>>

\* getSubmissionStatus answers; no document reads as 'processing'.  A
\* completed submission is shown.  A failed one throws inside the try of
\* the loop: its catch counts a poll and goes on.
PollSubmission(s) ==
    /\ Polling(s) /\ up # {}
    /\ IF StatusOf(record[s]) = "completed"
       THEN client' = [client EXCEPT ![s].state = "shown",
                                     ![s].shows = record[s]]
       ELSE client' = [client EXCEPT ![s].polls = @ + 1]
    /\ UNCHANGED <<job, run, hung, up, saves, record, faults>>

\* The request fails.
PollFails(s) ==
    /\ Polling(s)
    /\ client' = [client EXCEPT ![s].polls = @ + 1]
    /\ UNCHANGED <<job, run, hung, up, saves, record, faults>>

\* 'Submission timed out. Please try again.'
PollEnds(s) ==
    /\ client[s].state = "polling" /\ client[s].polls = MaxPolls
    /\ client' = [client EXCEPT ![s].state = "timedout"]
    /\ UNCHANGED <<job, run, hung, up, saves, record, faults>>
-----------------------------------------------------------------------------
PipeNext ==
    \/ \E s \in Submission :
          \/ Submit(s) \/ SubmitFails(s) \/ Stall(s)
          \/ PollSubmission(s) \/ PollFails(s) \/ PollEnds(s)
          \/ \E w \in Worker : PickUp(w, s)
    \/ \E w \in Worker : Finish(w) \/ Hangs(w) \/ WorkerCrashes(w)
    \/ \E a \in Api :
          SaveResult(a) \/ SaveFails(a) \/ ApiStops(a) \/ ApiStarts(a)

PipeSpec == PipeInit /\ [][PipeNext]_pipeVars

Abandoned(s) ==
    /\ job[s].state = "active"
    /\ \A w \in Worker : HoldsTheLock(w, s) => run[w] # s

\* Free slots take jobs, runs whose calls of Judge0 return end (executeCode
\* polls at most 30 times for each test case), an abandoned lock expires, and
\* an upsert that was begun ends unless its process does.
PipeFairSpec ==
    /\ PipeSpec
    /\ \A s \in Submission :
          /\ WF_pipeVars(\E w \in Worker : PickUp(w, s))
          /\ WF_pipeVars(Abandoned(s) /\ Stall(s))
    /\ \A w \in Worker : WF_pipeVars(Finish(w))
    /\ \A a \in Api : WF_pipeVars(SaveResult(a))
-----------------------------------------------------------------------------
(* Properties. *)

\* A document holds the result its job completed with, and so does every
\* save under way, whichever process makes it and however many runs the job
\* had (upsertSubmission, JobCompletionListener 'completed').
ResultsAgree ==
    \A s \in Submission :
        /\ job[s].result # NoResult <=> job[s].state = "completed"
        /\ record[s] \in {NoResult, job[s].result}
        /\ \A a \in Api : \A e \in saves[a] :
              e.sub = s => e.result = job[s].result

\* A browser that has not submitted has no job, and one that is not showing
\* a result holds none (handleSubmit).  With ResultsAgree, the inductive
\* invariant behind ImplementsPromise.
BrowserAgrees ==
    \A s \in Submission :
        /\ client[s].state = "editing" => job[s].state = "none"
        /\ client[s].state # "shown" => client[s].shows = NoResult

\* The pipeline keeps its promise: one run decides, the database holds what
\* it decided, the browser shows what the database holds.
Promise == INSTANCE SubmissionPromise WITH
    outcome <- [s \in Submission |-> job[s].result],
    stored <- record,
    shown <- [s \in Submission |-> client[s].shows]

ImplementsPromise == Promise!PromiseSpec

\* While the API has had no fault, a result that a worker returned is in the
\* database or in the hands of a process that is saving it: a worker has
\* nothing else to do for it to arrive (CodeSubmissionProcessor: 'Return
\* result (API will save to database)').
NothingIsLost ==
    faults = 0 =>
        \A s \in Submission : job[s].state = "completed" =>
            \/ record[s] = job[s].result
            \/ \E a \in Api : [sub |-> s, result |-> job[s].result] \in saves[a]

\* How many times the queue can still move the job of a submission.
MovesLeft(s) ==
    LET stallsLeft == MaxStalls - job[s].stalls
    IN  CASE job[s].state = "none"    -> 2 * stallsLeft + 3
          [] job[s].state = "waiting" -> 2 * stallsLeft + 2
          [] job[s].state = "active"  -> 2 * stallsLeft + 1
          [] OTHER                    -> 0

\* Nothing that happens to a job gives it back a move it has used: each
\* pick-up, stall and finish brings its end closer, so that no order of
\* crashes and expired locks keeps one job in the queue for ever
\* (startCodeSubmissionWorker's maxStalledCount).
JobsWearDown ==
    [][\A s \in Submission :
          job'[s] # job[s] => MovesLeft(s)' < MovesLeft(s)]_pipeVars

\* A job is held for ever by a run that hangs, or no slot is left for it.
StuckInJudge0(s) ==
    \/ \E w \in hung : HoldsTheLock(w, s)
    \/ hung = Worker

\* Every job ends, however many of its workers die: it is completed or has
\* failed (startCodeSubmissionWorker's stall options), unless its own run
\* hangs or every slot does (executeCode's calls without a timeout).  The
\* hanging runs of other jobs do not hold it up.
EveryJobEnds ==
    \A s \in Submission :
        job[s].state \in {"waiting", "active"} ~>
            job[s].state \in {"completed", "failed"} \/ StuckInJudge0(s)

\* A result that a worker returned reaches the database while the API has no
\* fault, whatever happens to the workers (CodeSubmissionProcessor: 'Return
\* result (API will save to database)').
RecordedUnlessFaulty ==
    \A s \in Submission :
        job[s].state = "completed" ~> record[s] # NoResult \/ faults > 0

=============================================================================
