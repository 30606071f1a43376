----------------------- MODULE SubmissionPipelineProofs -----------------------
(***************************************************************************)
(* Proofs about SubmissionPipeline, for any number of submissions, worker  *)
(* slots, API processes, stalls, polls and faults: its types, the          *)
(* agreement of job, saves and document, that it implements                *)
(* SubmissionPromise, and what its liveness rests on: no result is lost    *)
(* without a fault, and every job runs out of moves.                       *)
(***************************************************************************)
EXTENDS SubmissionPipeline, TLAPS

PipeInv == PipeTypeOK /\ ResultsAgree /\ BrowserAgrees

\* The types hold initially and every step keeps them.
LEMMA TypeInit == PipeInit => PipeTypeOK
  BY PipelineAssumption DEF PipeInit, PipeTypeOK, Job, Client

LEMMA TypeStep ==
    ASSUME PipeInv, [PipeNext]_pipeVars
    PROVE  PipeTypeOK'
<1> USE PipelineAssumption
<1>0. PipeTypeOK
  BY DEF PipeInv
<1>1. ASSUME NEW s \in Submission, Submit(s) \/ SubmitFails(s)
      PROVE  PipeTypeOK'
  <2>1. job' \in [Submission -> Job]
    <3>1. job[s] \in Job /\ [job[s] EXCEPT !.state = "waiting"] \in Job
      BY <1>0 DEF PipeTypeOK, Job
    <3>2. Queued(s) = [job EXCEPT ![s] = [job[s] EXCEPT !.state = "waiting"]]
      BY DEF Queued
    <3>3. Queued(s) \in [Submission -> Job]
      BY <1>0, <3>1, <3>2 DEF PipeTypeOK
    <3> QED
      BY <1>0, <1>1, <3>3 DEF Submit, SubmitFails, PipeTypeOK
  <2>2. client' \in [Submission -> Client]
    <3>1. client[s] \in Client
      BY <1>0 DEF PipeTypeOK
    <3>2. PICK st \in {"polling", "refused"} :
              client' = [client EXCEPT ![s] = [client[s] EXCEPT !.state = st]]
      BY <1>1 DEF Submit, SubmitFails
    <3>3. [client[s] EXCEPT !.state = st] \in Client
      BY <3>1 DEF Client
    <3> QED
      BY <1>0, <3>2, <3>3 DEF PipeTypeOK
  <2> QED
    BY <1>0, <1>1, <2>1, <2>2 DEF Submit, SubmitFails, PipeTypeOK
<1>3. ASSUME NEW s \in Submission, Stall(s)
      PROVE  PipeTypeOK'
  <2>1. job[s] \in Job /\ job[s].stalls \in 0..MaxStalls
    BY <1>0 DEF PipeTypeOK, Job
  <2>2. job' \in [Submission -> Job]
    <3>1. CASE job[s].stalls < MaxStalls
      <4>1. job[s].stalls + 1 \in 0..MaxStalls
        BY <2>1, <3>1
      <4>2. job' = [job EXCEPT ![s] = [job[s] EXCEPT
                !.owner = NoWorker, !.state = "waiting",
                !.stalls = job[s].stalls + 1]]
        BY <1>3, <3>1 DEF Stall
      <4>3. [job[s] EXCEPT !.owner = NoWorker, !.state = "waiting",
                           !.stalls = job[s].stalls + 1] \in Job
        BY <2>1, <4>1 DEF Job
      <4> QED
        BY <1>0, <4>2, <4>3 DEF PipeTypeOK
    <3>2. CASE ~(job[s].stalls < MaxStalls)
      <4>1. job' = [job EXCEPT ![s] = [job[s] EXCEPT
                !.owner = NoWorker, !.state = "failed"]]
        BY <1>3, <3>2 DEF Stall
      <4>2. [job[s] EXCEPT !.owner = NoWorker, !.state = "failed"] \in Job
        BY <2>1 DEF Job
      <4> QED
        BY <1>0, <4>1, <4>2 DEF PipeTypeOK
    <3> QED
      BY <3>1, <3>2
  <2> QED
    BY <1>0, <1>3, <2>2 DEF Stall, PipeTypeOK
<1>4. ASSUME NEW s \in Submission, PollSubmission(s)
      PROVE  PipeTypeOK'
  <2>1. /\ client[s] \in Client /\ client[s].polls + 1 \in 0..MaxPolls
        /\ record[s] \in Result \cup {NoResult}
    BY <1>0, <1>4 DEF PollSubmission, Polling, PipeTypeOK, Client
  <2>2. StatusOf(record[s]) = "completed" => record[s] \in Result
    BY <2>1 DEF StatusOf
  <2>3. client' \in [Submission -> Client]
    <3>1. CASE StatusOf(record[s]) = "completed"
      <4>1. client' = [client EXCEPT ![s] =
                [client[s] EXCEPT !.state = "shown",
                                  !.shows = record[s]]]
        BY <1>4, <3>1 DEF PollSubmission
      <4>2. [client[s] EXCEPT !.state = "shown",
                              !.shows = record[s]] \in Client
        BY <2>1, <2>2, <3>1 DEF Client
      <4> QED
        BY <1>0, <4>1, <4>2 DEF PipeTypeOK
    <3>2. CASE StatusOf(record[s]) # "completed"
      <4>1. client' = [client EXCEPT ![s] =
                [client[s] EXCEPT !.polls = client[s].polls + 1]]
        BY <1>4, <3>2 DEF PollSubmission
      <4>2. [client[s] EXCEPT !.polls = client[s].polls + 1] \in Client
        BY <2>1 DEF Client
      <4> QED
        BY <1>0, <4>1, <4>2 DEF PipeTypeOK
    <3> QED
      BY <3>1, <3>2
  <2> QED
    BY <1>0, <1>4, <2>3 DEF PollSubmission, PipeTypeOK
<1>5. ASSUME NEW s \in Submission, PollFails(s) \/ PollEnds(s)
      PROVE  PipeTypeOK'
  <2>1. client[s] \in Client /\ client[s].polls \in 0..MaxPolls
    BY <1>0 DEF PipeTypeOK, Client
  <2>2. client' \in [Submission -> Client]
    <3>1. CASE PollFails(s)
      <4>1. client[s].polls + 1 \in 0..MaxPolls
        BY <2>1, <3>1 DEF PollFails, Polling
      <4>2. [client[s] EXCEPT !.polls = client[s].polls + 1] \in Client
        BY <2>1, <4>1 DEF Client
      <4>3. client' = [client EXCEPT ![s] =
                [client[s] EXCEPT !.polls = client[s].polls + 1]]
        BY <3>1 DEF PollFails
      <4> QED
        BY <1>0, <4>2, <4>3 DEF PipeTypeOK
    <3>2. CASE PollEnds(s)
      BY <1>0, <2>1, <3>2 DEF PollEnds, PipeTypeOK, Client
    <3> QED
      BY <1>5, <3>1, <3>2
  <2> QED
    BY <1>0, <1>5, <2>2 DEF PollFails, PollEnds, PipeTypeOK
<1>6. ASSUME NEW s \in Submission, NEW w \in Worker, PickUp(w, s)
      PROVE  PipeTypeOK'
  <2>1. job' \in [Submission -> Job]
    <3>1. job' = [job EXCEPT ![s] =
              [job[s] EXCEPT !.state = "active", !.owner = w]]
      BY <1>6 DEF PickUp
    <3>2. job[s] \in Job
      BY <1>0 DEF PipeTypeOK
    <3>3. [job[s] EXCEPT !.state = "active", !.owner = w] \in Job
      BY <3>2 DEF Job
    <3> QED
      BY <1>0, <3>1, <3>3 DEF PipeTypeOK
  <2> QED
    BY <1>0, <1>6, <2>1 DEF PickUp, PipeTypeOK
<1>7. ASSUME NEW w \in Worker, Finish(w)
      PROVE  PipeTypeOK'
  <2>1. PICK r \in Result :
            /\ run[w] # Idle
            /\ run' = [run EXCEPT ![w] = Idle]
            /\ IF HoldsTheLock(w, run[w]) THEN Completed(run[w], r)
                                          ELSE UNCHANGED <<job, saves>>
            /\ UNCHANGED <<hung, up, record, client, faults>>
    BY <1>7 DEF Finish
  <2>2. run[w] \in Submission
    BY <1>0, <2>1 DEF PipeTypeOK
  <2>3. CASE HoldsTheLock(w, run[w])
    <3>1. Completed(run[w], r)
      BY <2>1, <2>3
    <3>2. [sub |-> run[w], result |-> r] \in Save
      BY <2>2 DEF Save
    <3>3. saves' \in [Api -> SUBSET Save]
      BY <1>0, <3>1, <3>2 DEF Completed, PipeTypeOK
    <3>4. job' \in [Submission -> Job]
      <4>1. job[run[w]] \in Job
        BY <1>0, <2>2 DEF PipeTypeOK
      <4>2. [job[run[w]] EXCEPT !.state = "completed", !.owner = NoWorker,
                                !.result = r] \in Job
        BY <4>1 DEF Job
      <4>3. job' = [job EXCEPT ![run[w]] = [job[run[w]] EXCEPT
                !.state = "completed", !.owner = NoWorker, !.result = r]]
        BY <3>1 DEF Completed
      <4> QED
        BY <1>0, <4>2, <4>3 DEF PipeTypeOK
    <3> QED
      BY <1>0, <2>1, <3>3, <3>4 DEF PipeTypeOK
  <2>4. CASE ~HoldsTheLock(w, run[w])
    BY <1>0, <2>1, <2>4 DEF PipeTypeOK
  <2> QED
    BY <2>3, <2>4
<1>8. ASSUME NEW w \in Worker, Hangs(w) \/ WorkerCrashes(w)
      PROVE  PipeTypeOK'
  BY <1>0, <1>8 DEF Hangs, WorkerCrashes, PipeTypeOK
<1>9. ASSUME NEW a \in Api, SaveResult(a) \/ SaveFails(a)
      PROVE  PipeTypeOK'
  BY <1>0, <1>9 DEF SaveResult, SaveFails, PipeTypeOK, Save
<1>10. ASSUME NEW a \in Api, ApiStops(a) \/ ApiStarts(a)
       PROVE  PipeTypeOK'
  BY <1>0, <1>10 DEF ApiStops, ApiStarts, PipeTypeOK
<1>11. CASE UNCHANGED pipeVars
  BY <1>0, <1>11 DEF pipeVars, PipeTypeOK
<1> QED
  BY <1>1, <1>3, <1>4, <1>5, <1>6, <1>7, <1>8, <1>9, <1>10, <1>11
  DEF PipeNext

-----------------------------------------------------------------------------
\* ResultsAgree and BrowserAgrees hold initially.
LEMMA AgreeInit == PipeInit => ResultsAgree /\ BrowserAgrees
  BY DEF PipeInit, ResultsAgree, BrowserAgrees

\* A step that changes no result, completes no job, stores nothing and adds
\* no save keeps ResultsAgree.
LEMMA NothingDecided ==
    ASSUME PipeInv,
           \A s \in Submission :
              /\ job'[s].result = job[s].result
              /\ job'[s].state = "completed" <=> job[s].state = "completed",
           record' = record,
           \A a \in Api : saves'[a] \subseteq saves[a]
    PROVE  ResultsAgree'
  BY DEF PipeInv, ResultsAgree

\* Submitting changes neither results nor which jobs are completed: a
\* browser that is editing has no job.
LEMMA QueueingDecidesNothing ==
    ASSUME PipeInv, NEW s \in Submission, client[s].state = "editing",
           job' = job \/ job' = Queued(s)
    PROVE  \A x \in Submission :
              /\ job'[x].result = job[x].result
              /\ job'[x].state = "completed" <=> job[x].state = "completed"
              /\ x # s => job'[x].state = job[x].state
<1>1. job \in [Submission -> Job]
  BY DEF PipeInv, PipeTypeOK
<1>2. job[s].state = "none"
  BY DEF PipeInv, BrowserAgrees
<1>3. CASE job' = Queued(s)
  <2>1. job' = [job EXCEPT ![s] = [job[s] EXCEPT !.state = "waiting"]]
    BY <1>3 DEF Queued
  <2> QED
    BY <1>1, <1>2, <2>1 DEF Job
<1> QED
  BY <1>3

\* What happens to a job in the queue changes neither its result nor whether
\* it is completed, and leaves the other jobs alone.
LEMMA MovingDecidesNothing ==
    ASSUME PipeInv, NEW s \in Submission,
           Stall(s) \/ (\E w \in Worker : PickUp(w, s))
    PROVE  \A x \in Submission :
              /\ job'[x].result = job[x].result
              /\ job'[x].state = "completed" <=> job[x].state = "completed"
              /\ x # s => job'[x] = job[x]
<1>0. PipeTypeOK
  BY DEF PipeInv
<1>1. CASE Stall(s)
  BY <1>0, <1>1 DEF Stall, PipeTypeOK, Job
<1>2. CASE \E w \in Worker : PickUp(w, s)
  <2>1. PICK w \in Worker :
            /\ job[s].state = "waiting"
            /\ job' = [job EXCEPT ![s] =
                  [job[s] EXCEPT !.state = "active", !.owner = w]]
    BY <1>2 DEF PickUp
  <2> QED
    BY <1>0, <2>1 DEF PipeTypeOK, Job
<1> QED
  BY <1>1, <1>2

LEMMA AgreeStep ==
    ASSUME PipeInv, [PipeNext]_pipeVars
    PROVE  ResultsAgree' /\ BrowserAgrees'
<1>0. PipeTypeOK /\ ResultsAgree /\ BrowserAgrees
  BY DEF PipeInv
<1>1. ASSUME NEW s \in Submission, Submit(s) \/ SubmitFails(s)
      PROVE  ResultsAgree' /\ BrowserAgrees'
  <2>1. \A x \in Submission :
           /\ job'[x].result = job[x].result
           /\ job'[x].state = "completed" <=> job[x].state = "completed"
           /\ x # s => job'[x].state = job[x].state
    BY <1>1, QueueingDecidesNothing DEF Submit, SubmitFails
  <2>2. ResultsAgree'
    BY <1>1, <2>1, NothingDecided DEF Submit, SubmitFails
  <2>3. \A x \in Submission :
           /\ client'[x].shows = client[x].shows
           /\ client'[s].state \in {"polling", "refused"}
           /\ x # s => client'[x].state = client[x].state
    <3>1. PICK st \in {"polling", "refused"} :
              client' = [client EXCEPT ![s] = [client[s] EXCEPT !.state = st]]
      BY <1>1 DEF Submit, SubmitFails
    <3> QED
      BY <1>0, <3>1 DEF PipeTypeOK, Client
  <2>4. client[s].state = "editing"
    BY <1>1 DEF Submit, SubmitFails
  <2> QED
    BY <1>0, <2>1, <2>2, <2>3, <2>4 DEF BrowserAgrees
<1>2. ASSUME NEW s \in Submission,
             Stall(s) \/ (\E w \in Worker : PickUp(w, s))
      PROVE  ResultsAgree' /\ BrowserAgrees'
  <2>1. \A x \in Submission :
           /\ job'[x].result = job[x].result
           /\ x # s => job'[x].state = job[x].state
    BY <1>2, MovingDecidesNothing
  <2>2. /\ job[s].state \in {"active", "waiting"}
        /\ job'[s].state \in {"active", "waiting", "failed"}
    <3>1. CASE Stall(s)
      BY <1>0, <3>1 DEF Stall, PipeTypeOK, Job
    <3>2. CASE \E w \in Worker : PickUp(w, s)
      BY <1>0, <3>2 DEF PickUp, PipeTypeOK, Job
    <3> QED
      BY <1>2, <3>1, <3>2
  <2>3. record' = record /\ saves' = saves /\ client' = client
    BY <1>2 DEF Stall, PickUp
  <2>4. ResultsAgree'
    BY <2>1, <2>2, <2>3, NothingDecided
  <2> QED
    BY <1>0, <2>1, <2>2, <2>3, <2>4 DEF BrowserAgrees
<1>3. ASSUME NEW s \in Submission,
             PollSubmission(s) \/ PollFails(s) \/ PollEnds(s)
      PROVE  ResultsAgree' /\ BrowserAgrees'
  <2>1. job' = job /\ record' = record /\ saves' = saves
    BY <1>3 DEF PollSubmission, PollFails, PollEnds
  <2>2. ResultsAgree'
    BY <2>1, NothingDecided
  <2>3. /\ client[s].state = "polling"
        /\ client'[s].state \in {"polling", "shown", "timedout"}
        /\ client'[s].state # "shown" => client'[s].shows = client[s].shows
        /\ \A x \in Submission \ {s} : client'[x] = client[x]
    BY <1>0, <1>3
    DEF PollSubmission, PollFails, PollEnds, Polling, PipeTypeOK, Client
  <2> QED
    BY <1>0, <2>1, <2>2, <2>3 DEF BrowserAgrees
<1>4. ASSUME NEW w \in Worker, Finish(w)
      PROVE  ResultsAgree' /\ BrowserAgrees'
  <2>1. PICK r \in Result :
            /\ run[w] # Idle
            /\ IF HoldsTheLock(w, run[w]) THEN Completed(run[w], r)
                                          ELSE UNCHANGED <<job, saves>>
            /\ UNCHANGED <<hung, up, record, client, faults>>
    BY <1>4 DEF Finish
  <2>2. run[w] \in Submission
    BY <1>0, <2>1 DEF PipeTypeOK
  <2>3. CASE HoldsTheLock(w, run[w])
    <3> DEFINE s == run[w]
    <3>1. /\ job' = [job EXCEPT ![s] = [job[s] EXCEPT
                !.state = "completed", !.owner = NoWorker, !.result = r]]
          /\ \A a \in Api : saves'[a] \subseteq
                               saves[a] \cup {[sub |-> s, result |-> r]}
      BY <2>1, <2>3 DEF Completed
    <3>2. /\ job[s].state = "active" /\ job[s].result = NoResult
          /\ record[s] = NoResult
      BY <1>0, <2>2, <2>3 DEF HoldsTheLock, ResultsAgree
    <3>3. \A a \in Api : \A e \in saves[a] : e.sub # s
      BY <1>0, <2>2, <3>2, PipelineAssumption
      DEF ResultsAgree, PipeTypeOK, Save
    <3>4. /\ job'[s].state = "completed" /\ job'[s].result = r
          /\ \A x \in Submission \ {s} : job'[x] = job[x]
      BY <1>0, <2>2, <3>1 DEF PipeTypeOK, Job
    <3>5. r # NoResult
      BY PipelineAssumption
    <3>6. record' = record /\ client' = client
      BY <2>1
    <3> HIDE DEF s
    <3>7. ASSUME NEW x \in Submission
          PROVE  /\ job'[x].result # NoResult <=> job'[x].state = "completed"
                 /\ record'[x] \in {NoResult, job'[x].result}
                 /\ \A a \in Api : \A e \in saves'[a] :
                       e.sub = x => e.result = job'[x].result
      <4>1. CASE x = s
        BY <3>1, <3>2, <3>3, <3>4, <3>5, <3>6, <4>1
      <4>2. CASE x # s
        BY <1>0, <3>1, <3>4, <3>6, <4>2 DEF ResultsAgree
      <4> QED
        BY <4>1, <4>2
    <3>8. ResultsAgree'
      BY <3>7 DEF ResultsAgree
    <3>9. BrowserAgrees'
      BY <1>0, <3>2, <3>4, <3>6 DEF BrowserAgrees
    <3> QED
      BY <3>8, <3>9
  <2>4. CASE ~HoldsTheLock(w, run[w])
    BY <1>0, <2>1, <2>4 DEF ResultsAgree, BrowserAgrees
  <2> QED
    BY <2>3, <2>4
<1>5. ASSUME NEW a \in Api, SaveResult(a)
      PROVE  ResultsAgree' /\ BrowserAgrees'
  <2>1. PICK e \in saves[a] :
            /\ record' = [record EXCEPT ![e.sub] = e.result]
            /\ saves' = [saves EXCEPT ![a] = @ \ {e}]
            /\ job' = job /\ client' = client
    BY <1>5 DEF SaveResult
  <2>2. e \in Save
    BY <1>0, <2>1 DEF PipeTypeOK
  <2>3. e.sub \in Submission /\ e.result = job[e.sub].result
    BY <1>0, <2>2 DEF ResultsAgree, Save
  <2>4. \A x \in Submission : record'[x] \in {record[x], job[x].result}
    BY <1>0, <2>1, <2>3 DEF PipeTypeOK
  <2>5. \A b \in Api : saves'[b] \subseteq saves[b]
    BY <1>0, <2>1 DEF PipeTypeOK
  <2> QED
    BY <1>0, <2>1, <2>4, <2>5 DEF ResultsAgree, BrowserAgrees
<1>6. ASSUME NEW a \in Api, SaveFails(a) \/ ApiStops(a) \/ ApiStarts(a)
      PROVE  ResultsAgree' /\ BrowserAgrees'
  <2>1. /\ job' = job /\ record' = record /\ client' = client
        /\ \A b \in Api : saves'[b] \subseteq saves[b]
    BY <1>0, <1>6 DEF SaveFails, ApiStops, ApiStarts, PipeTypeOK
  <2> QED
    BY <1>0, <2>1 DEF ResultsAgree, BrowserAgrees
<1>7. CASE \E w \in Worker : Hangs(w) \/ WorkerCrashes(w)
  BY <1>0, <1>7 DEF Hangs, WorkerCrashes, ResultsAgree, BrowserAgrees
<1>8. CASE UNCHANGED pipeVars
  BY <1>0, <1>8 DEF pipeVars, ResultsAgree, BrowserAgrees
<1> QED
  BY <1>1, <1>2, <1>3, <1>4, <1>5, <1>6, <1>7, <1>8 DEF PipeNext

-----------------------------------------------------------------------------
LEMMA PipeInvariant == PipeSpec => []PipeInv
<1>1. PipeInit => PipeInv
  BY TypeInit, AgreeInit DEF PipeInv
<1>2. PipeInv /\ [PipeNext]_pipeVars => PipeInv'
  BY TypeStep, AgreeStep DEF PipeInv
<1> QED
  BY <1>1, <1>2, PTL DEF PipeSpec

\* Every variable of the pipeline keeps its type; the stalls of a job and
\* the polls of a browser never exceed their bounds (startCodeSubmissionWorker,
\* handleSubmit).
THEOREM PipeTypeCorrect == PipeSpec => []PipeTypeOK
<1>1. PipeInv => PipeTypeOK
  BY DEF PipeInv
<1> QED
  BY <1>1, PipeInvariant, PTL

\* Whatever workers and API processes do, every document and every save
\* under way holds the one result the job completed with (upsertSubmission,
\* JobCompletionListener).
THEOREM OneResult == PipeSpec => []ResultsAgree
<1>1. PipeInv => ResultsAgree
  BY DEF PipeInv
<1> QED
  BY <1>1, PipeInvariant, PTL

\* A completed job's result, a document and a page that shows a result never
\* change, and a page shows what the database holds.
LEMMA PromiseStep ==
    ASSUME PipeInv, PipeInv', [PipeNext]_pipeVars
    PROVE  [Promise!PromiseNext]_(Promise!promiseVars)
<1> DEFINE outcome == [s \in Submission |-> job[s].result]
           shown == [s \in Submission |-> client[s].shows]
<1>0. PipeTypeOK /\ ResultsAgree /\ BrowserAgrees /\ PipeTypeOK'
  BY DEF PipeInv
<1>1. ASSUME NEW s \in Submission, Submit(s) \/ SubmitFails(s)
      PROVE  outcome' = outcome /\ record' = record /\ shown' = shown
  <2>1. \A x \in Submission : job'[x].result = job[x].result
    BY <1>1, QueueingDecidesNothing DEF Submit, SubmitFails
  <2>2. \A x \in Submission : client'[x].shows = client[x].shows
    <3>1. PICK st \in {"polling", "refused"} :
              client' = [client EXCEPT ![s] = [client[s] EXCEPT !.state = st]]
      BY <1>1 DEF Submit, SubmitFails
    <3> QED
      BY <1>0, <3>1 DEF PipeTypeOK, Client
  <2> QED
    BY <1>1, <2>1, <2>2 DEF Submit, SubmitFails
<1>2. ASSUME NEW s \in Submission,
             Stall(s) \/ (\E w \in Worker : PickUp(w, s))
      PROVE  outcome' = outcome /\ record' = record /\ shown' = shown
  <2>1. \A x \in Submission : job'[x].result = job[x].result
    BY <1>2, MovingDecidesNothing
  <2> QED
    BY <1>2, <2>1 DEF Stall, PickUp
<1>3. ASSUME NEW s \in Submission, PollFails(s) \/ PollEnds(s)
      PROVE  outcome' = outcome /\ record' = record /\ shown' = shown
  <2>1. \A x \in Submission : client'[x].shows = client[x].shows
    BY <1>0, <1>3 DEF PollFails, PollEnds, PipeTypeOK, Client
  <2> QED
    BY <1>3, <2>1 DEF PollFails, PollEnds
<1>4. ASSUME NEW s \in Submission, PollSubmission(s)
      PROVE  [Promise!PromiseNext]_(Promise!promiseVars)
  <2>1. outcome' = outcome /\ record' = record
    BY <1>4 DEF PollSubmission
  <2>2. CASE StatusOf(record[s]) = "completed"
    <3>1. client' = [client EXCEPT ![s] =
              [client[s] EXCEPT !.state = "shown",
                                !.shows = record[s]]]
      BY <1>4, <2>2 DEF PollSubmission
    <3>2. record[s] \in Result \ Failures
      BY <1>0, <2>2 DEF StatusOf, PipeTypeOK
    <3>3. client[s].shows = NoResult
      BY <1>0, <1>4 DEF PollSubmission, Polling, BrowserAgrees
    <3>4. /\ client'[s].shows = record[s]
          /\ \A x \in Submission \ {s} : client'[x].shows = client[x].shows
      BY <1>0, <3>1 DEF PipeTypeOK, Client
    <3>5. shown' = [shown EXCEPT ![s] = record[s]]
      BY <3>4
    <3>6. shown[s] = NoResult
      BY <3>3
    <3>7. Promise!Show(s)
      BY <2>1, <3>2, <3>5, <3>6 DEF Promise!Show
    <3> QED
      BY <3>7 DEF Promise!PromiseNext
  <2>3. CASE StatusOf(record[s]) # "completed"
    <3>1. client' = [client EXCEPT ![s] =
              [client[s] EXCEPT !.polls = client[s].polls + 1]]
      BY <1>4, <2>3 DEF PollSubmission
    <3>2. \A x \in Submission : client'[x].shows = client[x].shows
      BY <1>0, <3>1 DEF PipeTypeOK, Client
    <3>3. shown' = shown
      BY <3>2
    <3> QED
      BY <2>1, <3>3 DEF Promise!promiseVars
  <2> QED
    BY <2>2, <2>3
<1>5. ASSUME NEW w \in Worker, Finish(w)
      PROVE  [Promise!PromiseNext]_(Promise!promiseVars)
  <2>1. PICK r \in Result :
            /\ run[w] # Idle
            /\ IF HoldsTheLock(w, run[w]) THEN Completed(run[w], r)
                                          ELSE UNCHANGED <<job, saves>>
            /\ UNCHANGED <<hung, up, record, client, faults>>
    BY <1>5 DEF Finish
  <2>2. run[w] \in Submission /\ record' = record /\ shown' = shown
    BY <1>0, <2>1 DEF PipeTypeOK
  <2>3. CASE HoldsTheLock(w, run[w])
    <3>1. job' = [job EXCEPT ![run[w]] = [job[run[w]] EXCEPT
                !.state = "completed", !.owner = NoWorker, !.result = r]]
      BY <2>1, <2>3 DEF Completed
    <3>2. job[run[w]].result = NoResult
      BY <1>0, <2>2, <2>3 DEF HoldsTheLock, ResultsAgree
    <3>3. /\ job'[run[w]].result = r
          /\ \A x \in Submission \ {run[w]} : job'[x] = job[x]
      BY <1>0, <2>2, <3>1 DEF PipeTypeOK, Job
    <3>4. PICK s \in Submission : s = run[w]
      BY <2>2
    <3>5. outcome' = [outcome EXCEPT ![s] = r]
      BY <3>3, <3>4
    <3>6. outcome[s] = NoResult
      BY <2>2, <3>2, <3>4
    <3>7. Promise!Decide(s)
      BY <2>2, <3>5, <3>6 DEF Promise!Decide
    <3> QED
      BY <3>7 DEF Promise!PromiseNext
  <2>4. CASE ~HoldsTheLock(w, run[w])
    BY <2>1, <2>2, <2>4 DEF Promise!promiseVars
  <2> QED
    BY <2>3, <2>4
<1>6. ASSUME NEW a \in Api, SaveResult(a)
      PROVE  [Promise!PromiseNext]_(Promise!promiseVars)
  <2>1. PICK e \in saves[a] :
            /\ record' = [record EXCEPT ![e.sub] = e.result]
            /\ job' = job /\ client' = client
    BY <1>6 DEF SaveResult
  <2>2. /\ e.sub \in Submission /\ e.result \in Result
        /\ e.result = job[e.sub].result
    BY <1>0, <2>1 DEF PipeTypeOK, Save, ResultsAgree
  <2>3. outcome[e.sub] # NoResult /\ outcome[e.sub] = e.result
    BY <2>2, PipelineAssumption
  <2>4. outcome' = outcome /\ shown' = shown
    BY <2>1
  <2>5. Promise!Publish(e.sub)
    BY <2>1, <2>3, <2>4 DEF Promise!Publish
  <2> QED
    BY <2>2, <2>5 DEF Promise!PromiseNext
<1>7. ASSUME NEW a \in Api, SaveFails(a) \/ ApiStops(a) \/ ApiStarts(a)
      PROVE  outcome' = outcome /\ record' = record /\ shown' = shown
  BY <1>7 DEF SaveFails, ApiStops, ApiStarts
<1>8. ASSUME (\E w \in Worker : Hangs(w) \/ WorkerCrashes(w)) \/ UNCHANGED pipeVars
      PROVE  outcome' = outcome /\ record' = record /\ shown' = shown
  BY <1>8 DEF Hangs, WorkerCrashes, pipeVars
<1>9. ASSUME outcome' = outcome, record' = record, shown' = shown
      PROVE  UNCHANGED Promise!promiseVars
  BY <1>9 DEF Promise!promiseVars
<1> QED
  BY <1>1, <1>2, <1>3, <1>4, <1>5, <1>6, <1>7, <1>8, <1>9 DEF PipeNext

\* The pipeline implements SubmissionPromise: one run decides a submission,
\* the database only ever holds what it decided, and the browser only ever
\* shows what the database holds (submitTestSolution to handleSubmit).
THEOREM PipelineKeepsPromise == PipeSpec => ImplementsPromise
<1>1. PipeInit => Promise!PromiseInit
  BY DEF PipeInit, Promise!PromiseInit, Promise!Nothing
<1>2. PipeInv /\ PipeInv' /\ [PipeNext]_pipeVars
         => [Promise!PromiseNext]_(Promise!promiseVars)
  BY PromiseStep
<1> QED
  BY <1>1, <1>2, PipeInvariant, PTL
  DEF PipeSpec, ImplementsPromise, Promise!PromiseSpec

-----------------------------------------------------------------------------
\* What NothingIsLost rests on: a process stops listening only by a fault.
AllListen == faults = 0 => up = Api

\* A fault is never taken back, so that a state without one has had none.
LEMMA FaultsStay ==
    ASSUME PipeInv, AllListen, [PipeNext]_pipeVars, faults' = 0
    PROVE  faults = 0 /\ up = Api /\ up' = Api
<1>0. faults \in Nat
  BY PipelineAssumption DEF PipeInv, PipeTypeOK
<1>1. ASSUME NEW a \in Api, SaveFails(a) \/ ApiStops(a) \/ ApiStarts(a)
      PROVE  FALSE
  BY <1>0, <1>1 DEF SaveFails, ApiStops, ApiStarts, AllListen
<1>2. ASSUME NEW a \in Api, SaveResult(a)
      PROVE  faults' = faults /\ up' = up
  BY <1>2 DEF SaveResult
<1>3. ASSUME NEW w \in Worker, Finish(w) \/ Hangs(w) \/ WorkerCrashes(w)
      PROVE  faults' = faults /\ up' = up
  BY <1>3 DEF Finish, Hangs, WorkerCrashes
<1>4. ASSUME NEW s \in Submission,
             \/ Submit(s) \/ SubmitFails(s) \/ Stall(s)
             \/ PollSubmission(s) \/ PollFails(s) \/ PollEnds(s)
             \/ \E w \in Worker : PickUp(w, s)
      PROVE  faults' = faults /\ up' = up
  BY <1>4 DEF Submit, SubmitFails, Stall, PollSubmission, PollFails,
              PollEnds, PickUp
<1>5. ASSUME UNCHANGED pipeVars
      PROVE  faults' = faults /\ up' = up
  BY <1>5 DEF pipeVars
<1>6. faults' = faults /\ up' = up
  BY <1>1, <1>2, <1>3, <1>4, <1>5 DEF PipeNext
<1> QED
  BY <1>6 DEF AllListen

LEMMA LostStep ==
    ASSUME PipeInv, AllListen, NothingIsLost, [PipeNext]_pipeVars
    PROVE  AllListen' /\ NothingIsLost'
<1> SUFFICES ASSUME faults' = 0
             PROVE  /\ up' = Api
                    /\ \A s \in Submission : job'[s].state = "completed" =>
                          \/ record'[s] = job'[s].result
                          \/ \E a \in Api : [sub |-> s,
                                result |-> job'[s].result] \in saves'[a]
  BY DEF AllListen, NothingIsLost
<1>0. PipeTypeOK /\ ResultsAgree
  BY DEF PipeInv
<1>1. faults = 0 /\ up = Api /\ up' = Api
  BY FaultsStay
<1>2. ASSUME \A x \in Submission :
                /\ job'[x].result = job[x].result
                /\ job'[x].state = "completed" <=> job[x].state = "completed",
             record' = record, saves' = saves
      PROVE  \A s \in Submission : job'[s].state = "completed" =>
                \/ record'[s] = job'[s].result
                \/ \E a \in Api :
                      [sub |-> s, result |-> job'[s].result] \in saves'[a]
  BY <1>1, <1>2 DEF NothingIsLost
<1>3. ASSUME NEW s \in Submission, Submit(s) \/ SubmitFails(s)
      PROVE  NothingIsLost'
  BY <1>2, <1>3, QueueingDecidesNothing DEF Submit, SubmitFails, NothingIsLost
<1>4. ASSUME NEW s \in Submission,
             Stall(s) \/ (\E w \in Worker : PickUp(w, s))
      PROVE  NothingIsLost'
  <2>1. record' = record /\ saves' = saves
    BY <1>4 DEF Stall, PickUp
  <2> QED
    BY <1>2, <1>4, <2>1, MovingDecidesNothing DEF NothingIsLost
<1>5. ASSUME NEW w \in Worker, Finish(w)
      PROVE  NothingIsLost'
  <2>1. PICK r \in Result :
            /\ run[w] # Idle
            /\ IF HoldsTheLock(w, run[w]) THEN Completed(run[w], r)
                                          ELSE UNCHANGED <<job, saves>>
            /\ UNCHANGED <<hung, up, record, client, faults>>
    BY <1>5 DEF Finish
  <2>2. run[w] \in Submission
    BY <1>0, <2>1 DEF PipeTypeOK
  <2>3. CASE HoldsTheLock(w, run[w])
    <3>1. /\ job'[run[w]].result = r
          /\ \A x \in Submission \ {run[w]} : job'[x] = job[x]
      BY <1>0, <2>1, <2>2, <2>3 DEF Completed, PipeTypeOK, Job
    <3>2. \A a \in Api :
             saves'[a] = saves[a] \cup {[sub |-> run[w], result |-> r]}
      BY <1>1, <2>1, <2>3 DEF Completed
    <3>3. \E a \in Api : [sub |-> run[w], result |-> r] \in saves'[a]
      BY <3>2, PipelineAssumption
    <3>4. record' = record
      BY <2>1
    <3> QED
      BY <1>1, <3>1, <3>2, <3>3, <3>4 DEF NothingIsLost
  <2>4. CASE ~HoldsTheLock(w, run[w])
    BY <1>2, <2>1, <2>4 DEF NothingIsLost
  <2> QED
    BY <2>3, <2>4
<1>6. ASSUME NEW a \in Api, SaveResult(a)
      PROVE  NothingIsLost'
  <2>1. PICK e \in saves[a] :
            /\ record' = [record EXCEPT ![e.sub] = e.result]
            /\ saves' = [saves EXCEPT ![a] = @ \ {e}]
            /\ job' = job
    BY <1>6 DEF SaveResult
  <2>2. e.sub \in Submission /\ e.result = job[e.sub].result
    BY <1>0, <2>1 DEF PipeTypeOK, Save, ResultsAgree
  <2>3. /\ record'[e.sub] = job[e.sub].result
        /\ \A x \in Submission \ {e.sub} : record'[x] = record[x]
    BY <1>0, <2>1, <2>2 DEF PipeTypeOK
  <2>4. ASSUME NEW x \in Submission \ {e.sub}, NEW b \in Api,
               [sub |-> x, result |-> job[x].result] \in saves[b]
        PROVE  [sub |-> x, result |-> job[x].result] \in saves'[b]
    <3>1. [sub |-> x, result |-> job[x].result] # e
      BY <2>4
    <3> QED
      BY <1>0, <2>1, <2>4, <3>1 DEF PipeTypeOK
  <2> QED
    BY <1>1, <2>1, <2>3, <2>4 DEF NothingIsLost
<1>7. ASSUME NEW a \in Api, SaveFails(a) \/ ApiStops(a) \/ ApiStarts(a)
      PROVE  FALSE
  BY <1>0, <1>1, <1>7, PipelineAssumption
  DEF SaveFails, ApiStops, ApiStarts, PipeTypeOK
<1>8. ASSUME \/ \E s \in Submission :
                  PollSubmission(s) \/ PollFails(s) \/ PollEnds(s)
             \/ \E w \in Worker : Hangs(w) \/ WorkerCrashes(w)
             \/ UNCHANGED pipeVars
      PROVE  NothingIsLost'
  BY <1>2, <1>8 DEF PollSubmission, PollFails, PollEnds, Hangs, WorkerCrashes,
                    pipeVars, NothingIsLost
<1>9. NothingIsLost'
  BY <1>3, <1>4, <1>5, <1>6, <1>7, <1>8 DEF PipeNext
<1> QED
  BY <1>1, <1>9 DEF NothingIsLost

\* Without a fault of the API, the result of every completed job is in the
\* database or being saved, whatever the workers do: what is left to
\* RecordedUnlessFaulty is that a save which was begun ends
\* (JobCompletionListener 'completed', saveSubmissionResult).
THEOREM ResultsAreKept == PipeSpec => []NothingIsLost
<1>1. PipeInit => AllListen /\ NothingIsLost
  BY DEF PipeInit, AllListen, NothingIsLost
<1>2. PipeInv /\ AllListen /\ NothingIsLost /\ [PipeNext]_pipeVars
         => AllListen' /\ NothingIsLost'
  BY LostStep
<1> QED
  BY <1>1, <1>2, PipeInvariant, PTL DEF PipeSpec

-----------------------------------------------------------------------------
\* The moves a job has left depend only on its state and on its stalls.
LEMMA Moves ==
    ASSUME PipeInv, NEW s \in Submission
    PROVE  /\ job[s].stalls \in 0..MaxStalls
           /\ job[s].state = "none" =>
                 MovesLeft(s) = 2 * (MaxStalls - job[s].stalls) + 3
           /\ job[s].state = "waiting" =>
                 MovesLeft(s) = 2 * (MaxStalls - job[s].stalls) + 2
           /\ job[s].state = "active" =>
                 MovesLeft(s) = 2 * (MaxStalls - job[s].stalls) + 1
           /\ job[s].state \in {"completed", "failed"} => MovesLeft(s) = 0
<1>1. job[s] \in Job
  BY DEF PipeInv, PipeTypeOK
<1> QED
  BY <1>1 DEF Job, MovesLeft

\* Every step that changes a job uses up one of its moves.
LEMMA WearStep ==
    ASSUME PipeInv, PipeInv', [PipeNext]_pipeVars,
           NEW s \in Submission, job'[s] # job[s]
    PROVE  MovesLeft(s)' < MovesLeft(s)
<1>0. PipeTypeOK /\ MaxStalls \in Nat
  BY PipelineAssumption DEF PipeInv
<1>1. /\ job'[s].stalls \in 0..MaxStalls
      /\ job'[s].state = "waiting" =>
            MovesLeft(s)' = 2 * (MaxStalls - job'[s].stalls) + 2
      /\ job'[s].state = "active" =>
            MovesLeft(s)' = 2 * (MaxStalls - job'[s].stalls) + 1
      /\ job'[s].state \in {"completed", "failed"} => MovesLeft(s)' = 0
  <2>1. job'[s] \in Job
    BY DEF PipeInv, PipeTypeOK
  <2> QED
    BY <2>1 DEF Job, MovesLeft
<1>2. ASSUME NEW x \in Submission, Submit(x) \/ SubmitFails(x)
      PROVE  MovesLeft(s)' < MovesLeft(s)
  <2>1. job' = [job EXCEPT ![x] = [job[x] EXCEPT !.state = "waiting"]]
    BY <1>2 DEF Submit, SubmitFails, Queued
  <2>2. x = s /\ job[s].state = "none"
    BY <1>0, <1>2, <2>1
    DEF PipeTypeOK, PipeInv, BrowserAgrees, Submit, SubmitFails
  <2>3. job'[s].state = "waiting" /\ job'[s].stalls = job[s].stalls
    BY <1>0, <2>1, <2>2 DEF PipeTypeOK, Job
  <2> QED
    BY <1>0, <1>1, <2>2, <2>3, Moves
<1>3. ASSUME NEW x \in Submission, NEW w \in Worker, PickUp(w, x)
      PROVE  MovesLeft(s)' < MovesLeft(s)
  <2>1. job' = [job EXCEPT ![x] =
            [job[x] EXCEPT !.state = "active", !.owner = w]]
    BY <1>3 DEF PickUp
  <2>2. x = s /\ job[s].state = "waiting"
    BY <1>0, <1>3, <2>1 DEF PipeTypeOK, PickUp
  <2>3. job'[s].state = "active" /\ job'[s].stalls = job[s].stalls
    BY <1>0, <2>1, <2>2 DEF PipeTypeOK, Job
  <2> QED
    BY <1>0, <1>1, <2>2, <2>3, Moves
<1>4. ASSUME NEW x \in Submission, Stall(x)
      PROVE  MovesLeft(s)' < MovesLeft(s)
  <2>1. x = s /\ job[s].state = "active"
    BY <1>0, <1>4 DEF PipeTypeOK, Stall
  <2>2. CASE job[s].stalls < MaxStalls
    <3>1. /\ job'[s].state = "waiting"
          /\ job'[s].stalls = job[s].stalls + 1
      BY <1>0, <1>4, <2>1, <2>2 DEF PipeTypeOK, Job, Stall
    <3> QED
      BY <1>0, <1>1, <2>1, <3>1, Moves
  <2>3. CASE ~(job[s].stalls < MaxStalls)
    <3>1. job'[s].state = "failed"
      BY <1>0, <1>4, <2>1, <2>3 DEF PipeTypeOK, Job, Stall
    <3> QED
      BY <1>0, <1>1, <2>1, <3>1, Moves
  <2> QED
    BY <2>2, <2>3
<1>5. ASSUME NEW w \in Worker, Finish(w)
      PROVE  MovesLeft(s)' < MovesLeft(s)
  <2>1. PICK r \in Result :
            /\ run[w] # Idle
            /\ IF HoldsTheLock(w, run[w]) THEN Completed(run[w], r)
                                          ELSE UNCHANGED <<job, saves>>
    BY <1>5 DEF Finish
  <2>2. HoldsTheLock(w, run[w]) /\ Completed(run[w], r)
    BY <2>1
  <2>3. run[w] = s
    BY <1>0, <2>2 DEF Completed, PipeTypeOK
  <2>4. job[s].state = "active" /\ job'[s].state = "completed"
    BY <1>0, <2>2, <2>3 DEF HoldsTheLock, Completed, PipeTypeOK, Job
  <2> QED
    BY <1>0, <1>1, <2>4, Moves
<1>6. ASSUME \/ \E x \in Submission :
                  PollSubmission(x) \/ PollFails(x) \/ PollEnds(x)
             \/ \E w \in Worker : Hangs(w) \/ WorkerCrashes(w)
             \/ \E a \in Api : SaveResult(a) \/ SaveFails(a)
                                  \/ ApiStops(a) \/ ApiStarts(a)
             \/ UNCHANGED pipeVars
      PROVE  job' = job
  BY <1>6 DEF PollSubmission, PollFails, PollEnds, Hangs, WorkerCrashes,
              SaveResult, SaveFails, ApiStops, ApiStarts, pipeVars
<1> QED
  BY <1>2, <1>3, <1>4, <1>5, <1>6 DEF PipeNext

\* No job is ever given back a move: what is left to EveryJobEnds is that a
\* job which can move does (startCodeSubmissionWorker).
THEOREM JobsOnlyWearDown == PipeSpec => JobsWearDown
<1>1. PipeInv /\ PipeInv' /\ [PipeNext]_pipeVars
         => [\A s \in Submission :
               job'[s] # job[s] => MovesLeft(s)' < MovesLeft(s)]_pipeVars
  BY WearStep
<1> QED
  BY <1>1, PipeInvariant, PTL DEF PipeSpec, JobsWearDown

=============================================================================
