# Verification of the PlaceValue portal

TLA+ models, TLC runs and TLAPS proofs of the PlaceValue portal: an Express API (`apps/api`, four cluster
processes), a BullMQ worker (`apps/worker`, two processes), a Next.js front end (`apps/frontend`), an external
code runner (Judge0) and shared packages (`packages/redis-lib`, ...). MongoDB holds the documents, Redis the
locks, caches and queues. File names below are relative to `src/`, and these stand for

* `ARS`: `apps/api/src/apps/assessment/services/AssessmentResultService.ts`
* `AS`: `apps/api/src/apps/assessment/services/AssessmentService.ts`
* `US`: `apps/api/src/apps/users/services/UserService.ts`
* `TAKE`: `apps/frontend/app/(dashboard)/dashboard/assessments/take/[id]/page.tsx`

Run a model check with `tlc -config <run>.cfg <module of the run>.tla` and a proof with `tlapm <Module>Proofs.tla`.

## 1. Inventory of the system

| Component | State | Operations | What makes it correct | Modelled |
|---|---|---|---|---|
| **Redis lock** (`core/infrastructure/Redis.ts`) | a token and a time to live per key | `acquireLock`, `releaseLock`, `withLock` | mutual exclusion; nobody frees another's key; no key stays for ever | yes |
| **Assessment start** (`ARS.startAssessment`, `canUserRetakeAssessment`) | attempts of a user and an assessment; unique index | start, retake check, insert, duplicate recovery | one attempt at a time: the eligibility check and the insert are one step | yes |
| **Attempt** (`ARS`: `saveAnswer`, `clearAnswer`, `submitAssessment`, `submitCodingSolution`, recalculations, `autoFailExpiredAssessments`, `createResult`, `updateResult`, `deleteResult`; `AS.getAssessmentsForUser`) | the AssessmentResult document: answers, coding questions, marks, status | as named | verdict = marks; finished stays finished; acknowledged answers survive; expired attempts end | partly |
| **Code submission pipeline** (`TestController`, `QueueClient`, `Worker`, `CodeSubmissionProcessor`, `JobCompletionListener`, `TestService.saveSubmissionResult`, `CodingTestInterface.tsx`) | BullMQ job, runs, listeners, TestSubmission document, polling browser | submit, run, stall, complete, save, poll | one result per submission, the same everywhere; every job ends; every result is stored and reported | yes |
| **Request queue** (`middleware/simple-queue.middleware.ts`) | sorted array, slot set, timers | enqueue, reject, dispatch, time out | order, limits, every request answered once | yes |
| **Assessments service** (`AS`, `cached/assessment.cached.service.ts`, `CacheManager.ts`) | the assessment: status, assigned users, invited e-mails; its copy in Redis | create, update, add a question, activate, deactivate, assign, delete, cached read | the copy is not older than it has to be; no enrolment is lost; invited students get in | partly |
| **Users, authentication, tokens** (`apps/users`, `auth.middleware.ts`) | users, unique indexes, cached copies, tokens | register, sign in, verify, profile, edit form, toggle, delete | unique e-mail and number; a deletion frees both; only living accounts act | partly |
| **Front end: take page** (`TAKE`, `lib/hooks/useAssessmentResults.ts`) | answers, failed saves, timer, requests under way | change, save, retry, clear, submit, time out, reload | a verdict is about what was submitted; when the time is up the attempt ends | partly |
| Scheduled tasks (`ScheduledTaskService.ts`) | none | `processExpiredAssessments` | expired attempts are closed | partly: its effect on an attempt |
| redis-lib `CacheManager` | keys | get, set, delete, ... | | partly: as the assessments service uses it |
| Other caching services (`cached/*.ts`, `Cache.ts`, `WarmCache.ts`) | Redis keys per entity | get-or-fill, invalidate, warm | an invalidated value does not come back | partly: assessments, users by id |
| Colleges, branches, questions, tests administration, dashboard | documents | CRUD, reports | references stay valid | no |
| E-mail service and mail worker (`EmailService.ts`, `MailProcessor.ts`, `QueueManager.ts`) | mail jobs and counters | queue, send, report | a mail is sent, or its failure is seen | no |
| Notification and data-processing queues | raw Redis lists | `addNotificationJob`, `addDataProcessingJob` | (nothing consumes them) | no |
| Leaky bucket (`LeakyBucketService.ts`) | bucket and queue | process, leak | (not mounted by `server.ts`) | no |
| Rate limiters and other middlewares | counters per process | count, refuse | library behaviour | no |
| redis-lib `SessionManager`, `PubSubManager`, `RedisClient`; `Redis.initialize` | session sets, subscriptions, connection | as named | session limit; handlers get their channel's messages | no |
| Code execution (Judge0 and wrappers) | external | run, poll at most 30 times, calls without a timeout | ends, unless a call hangs | as a result of a run, or its hanging |
| Rest of the front end | pages, forms, tables | | | no |

How they interact: the browser calls the API; every API request passes the request queue, and most of them
`authenticateToken`; a start reads the cached assessment and runs under the Redis lock; handlers read a document,
await other services and write parts of it back with `findByIdAndUpdate`; a registration, after its response,
enrols the student in the assessments that invited the e-mail; the deletion of an account takes it out of every
assessment; a code submission leaves the API as a BullMQ job and comes back as a completion event that every
listening API process hears; the browser polls, saves answers as they change, and submits by itself when its timer
has run down.

Hard behaviours: handlers of several Node processes interleave at each `await`; locks expire while their function
runs; workers die, stall and hang, so jobs run twice or not to their end; completion events are not repeated; caches
are filled and cleared apart from the documents they copy; timers fire after the fact, with the state of an earlier
render; requests of one browser overtake each other. `PROJECT.json` lists them line by line under `hazards`.

## 2. Modules

| Module | Kind | Composes |
|---|---|---|
| `RedisLock` | component | |
| `AssessmentStart` | component over the lock | extends `RedisLock` |
| `AttemptLifecycle` | abstract specification of an attempt | |
| `AssessmentAttempt` | component | implements `AttemptLifecycle` |
| `SubmissionPromise` | abstract specification of a submission | |
| `SubmissionPipeline` | browser, API, queue and worker composed | implements `SubmissionPromise` |
| `PriorityService` | abstract specification of the request queue | |
| `RequestQueue` | component | implements `PriorityService` |
| `AssessmentCatalogue` | assessments service, its cache, and the enrolment by the users service, composed | |
| `UserAccounts` | users service, its cache, the edit form and the authentication of requests, composed | |
| `TakeAssessment` | take page, network and the attempt's handlers composed | |
| `MC*` | TLC instances: operators that a `.cfg` gives to constants | extend the component |
| `*Proofs` | theorems | extend the component and `TLAPS` |

Definitions marked "Mutant of ..." are not part of a specification: each is the way a plausible bug would change
the definition it names, and the property listed with it in `PROJECT.json` is violated when it is put in its place.

### RedisLock
One process is one request in `withLock`. `SetApplied` is the moment Redis applies `SET NX EX`; `FnStarts` is the
arrival of its reply, so that `SetFails` may lose the reply of a stored token, and `Crash` may come anywhere.
`Release` is the Lua script, `ReleaseFails` the swallowed error. `Tick` is time in Redis. `MaxHold` is the longest
time from the SET to the end of `fn`. The code bounds it by nothing, so it is a parameter: the runs and
theorems say which results need `MaxHold < TTL`.

### AssessmentStart
`startAssessment` of one user and one assessment inside that lock. `CheckEligible` stands for all checks before the
insert, `Create`/`CreateDuplicate` for the insert and its error path. `findByUserAndAssessment` matches the
assessment's id against the attempt's `_id`; `FindById` is modelled so, and the branches for an existing attempt
(ARS 101–158) are therefore dead and have no action. `UniqueIndex` is a constant because the model file and
`scripts/create-indexes.js` declare the index differently (a partial filter with `$ne`, and none).

### AssessmentAttempt and AttemptLifecycle
One stored attempt and several request slots. `Read` is the first query of a handler and keeps the document in `seen`;
each later write is an action of its own, by id and without a filter on the status, as
`AssessmentResultRepository.update` does. Every question and coding test is worth one mark, and an answer is blank or
an option; names, sections, durations and `timeRemaining` are left out. Grading (`Correct`, `Marks`, `Verdict`,
`Graded`) is `gradeAssessment` with the sums and the comparison of `submitAssessment`. `EndSeemsPast` is the
comparison with the end date in `saveAnswer` (ARS 769): clock and date are both read in Indian time, but the date of a
cached assessment is a string that this conversion leaves alone, so that the clock is then `Lead` ahead of it. The
handler takes either, as the copy is cached or not. `Start` is `startAssessment`'s insert. `ListWrite` is the
student's list of assessments, which fails an attempt whose time is over. `CreateResult` and `UpdateResult` write what
the body of the request says, which no validation limits but the schema's: `HandStart`, `HandStatus`, `HandMarks` and
`HandWork` are what an instance lets administrators write. History variables: `expected`, for each question the
answers that the acknowledgements so far allow to be stored; `byHand`, whether an administrator wrote the attempt
since it was graded; `rerun`, the coding questions run again since then. `AttemptLifecycle` says what a stored attempt
may do as seen from outside: begin, be graded (status and marks together), lapse, be closed at the end date, be set by
hand, be removed.

### SubmissionPipeline and SubmissionPromise
`Submit` queues a job under a fresh id and stores nothing. A slot of a worker takes a waiting job and its lock
(`PickUp`). `Stall` is the expiry of that lock, whether its worker died (`WorkerCrashes`) or runs on: the job waits
again at most `maxStalledCount` times and then fails. `Finish` returns a result, which counts only if the run still
holds the lock. `Hangs` is a call of Judge0 that never returns (no timeout at `CodeExecutionService.ts:91` and 132):
its slot is lost for as long as its process lives. Completion puts the result in the hands of every process that is
listening; `SaveResult` upserts it, `SaveFails` drops it as the listener's catch does, `ApiStops` loses those under
way. The browser polls and gives up after `MaxPolls`. A result with status `failed` belongs to `Failures`. BullMQ
itself is external: it is modelled from the options `Worker.ts` gives it. Its assumed guarantees are that only the
holder of a job's lock completes it and that an event reaches only current listeners. `SubmissionPromise` is the
promise to the student: one run decides, once; the database holds that; the browser shows only what the database
holds.

### RequestQueue
The array, the slots and the timers of one process. `Sorted` is push and stable sort, `ProcessNext` the 10 ms
interval, `CompleteRequest` the 50 ms timer, `TimeOut` the 10 s timer with its `removeRequest`, `Respond` the route.
Time is abstract: a timer that is set fires at some later step. `arrival` is a history variable.
`PriorityService` is the waiting room that the requests see: no array, no slots and no timers; only a full room turns
away, whoever is let through goes before all others who wait, and a request has one answer that is never taken back.

### AssessmentCatalogue
One assessment. A student stands for an e-mail and for the user id of its account; titles, questions, marks and
dates are a version number. A request slot holds a `job`: the handler, the await it is at, and what it carries from
one await to the next.

* `CreateBegins`/`Create`, `UpdateBegins`/`Update`: the form's invited e-mails are looked up one by one (`Lookup`);
  a failed lookup counts as "no account", as `getUserByEmail`'s catch makes it. The lists are then written whole, and
  `Refresh` (`setAssessment`) or `Invalidate` follows. An update without lists writes back what it read.
* `Activate` refreshes the copy, `Delete` clears it. `Deactivate`, `Assign`, `AddQuestion`, `Enrol` and `Remove`
  leave it alone: `Bypassing`.
* `ViewBegins`/`Fetch` is the cache-aside read, `StartBegins`/`Check` the start's check of the status.
* `Register` inserts the account and `Invited`/`Enrol` (`checkAndProcessPendingInvitations`, which runs after the
  response) moves the student from the invited to the assigned; `RemoveBegins`/`Remove` is `deleteUserAndData`.
* `Fail` is an awaited call that throws, or the death of the process, at any await.

`writtenBy` is a history variable: which handler wrote each version.

### UserAccounts
The collection `users` with its two unique indexes, the copies cached by id, and the tokens handed out. A request
slot also stands for an administrator's edit form that is open (`OpenForm`, `SaveForm`): the form sends back the
number and the status it was opened with. `CheckEmail`, `CheckNumber`, `Insert` are the awaits of `createUser`;
`Insert` throws where an index refuses. `ToggleBegins`/`Toggle` reads a status and writes its opposite. `RemoveBegins`,
`Erase`, `Forget` are `deleteUserAndData`: it anonymises e-mail and number, marks the document deleted and clears the
caches; `Delete` is `deleteUser`, which removes the document. `MayAct` is `authenticateToken`, which reads the account
at each request. `restored` is a history variable: deleted accounts to which a form was saved. Requests are those of the
front end. `updateUserSchema` (`user.dto.ts:203`) also admits an e-mail on `PUT /users/:id` and `PUT /profile`, but
the edit form and the profile page show it disabled and do not send it, so `SaveForm` and `Profile` leave it alone.

### TakeAssessment
One tab, one attempt, and the requests between them in a set `net`, so that they are handled and answered in any
order. `Change` sends the answer at once and schedules a second save (`SendDelayed`); `Retry`, `ClearAll`,
`CodeSubmitted` (a refetch) and `Submit` are the buttons. React Query runs the callbacks of the latest call of a mutation
only, which `latest` says. `TimerFires` submits what `closure` holds: the answers and failed saves of the
render that started the timer, which is that of the last reload. Server actions (`Read`, `Save`, `Clear`,
`ClearAgain`, `Merge`, `Grade`) are the attempt's handlers again, with the same awaits and reduced to one
attempt and one student; the two modules translate the same lines of `ARS` for different questions.
`NetworkFails` loses a request or its reply. `submitted` is a history variable, and so is the difference between the
pages `completed` (by a submission) and `expired` (by a load that found the time up), which look alike to the student.

## 3. Runs

Passing runs:

| Run | Question | Bounds |
|---|---|---|
| `start_lock` | mutual exclusion, and the lock alone makes check and insert of a start one step | 3 requests, 2 calls each, 2 attempts each, TTL 3, `MaxHold` 2, no index |
| `start_overrun` | what is left when a start outlasts its key: nobody takes a held key, no key stays | 2 requests, 2 calls each, TTL 2, `MaxHold` 3, index, fairness |
| `attempt_sequential` | flags, marks and verdict follow the answers, and the answers the acknowledgements, one request at a time | 2 questions, 1 test, 2 options, 4 requests, 2 attempts, results written by hand, clock 1 tick ahead on a cached copy |
| `attempt_concurrent` | completion is earned or due to the end date, only administrators reopen, the life cycle is kept | 2 requests in flight, 4 in all, every handler, statuses written by hand, clock 1 tick ahead on a cached copy |
| `pipeline_promise` | one result, the same everywhere; no move of a job is given back, so every job ends unless its own run hangs or every slot does; nothing is lost, so every result is stored, unless the API fails | 2 submissions, 2 slots, 2 API processes, 2 results, 2 stalls, 1 poll, 1 fault |
| `queue_served` | the abstract service, order, limits, no work for the answered, a timer for everybody else, every request answered | 4 requests of 3 priorities, 1 slot, 3 places |
| `catalogue_sequential` | one request at a time: the copy lacks only the writes that bypass it, a start misses no status but that of a deactivation, and invited students with an account are assigned | 2 students, 5 requests of every kind, lists |
| `catalogue_concurrent` | two requests in flight, with failing lookups, caches and processes: enrolments are not dropped | 2 students, 5 requests, requests without lists of their own |
| `accounts_overlap` | distinct accounts, justified refusals, final deletions | 3 ids, 2 e-mails, 2 numbers, 2 slots, 7 requests |
| `take_page` | verdicts are about whole sheets; a timer that has run down leaves a submission to decide about, so the attempt ends when the time is up, with named exceptions | 1 question, 1 change, 2 presses, 1 network fault, fairness |

`RedisLock` has no run of its own: `AssessmentStart` extends it, and the `start_*` runs take every step of it.

Violations, each a disagreement between the code and a line of the repository (quoted in `PROJECT.json`
under `findings`):

| Run | What TLC finds |
|---|---|
| `catalogue_deactivated` | a start is admitted after the deactivation of its assessment: the status comes from a copy that `deactivateAssessment` leaves alone. `StartsMissDeactivationsOnly` says that, one request at a time, this is the only way |
| `take_timer` | the timer submits the sheet as it was before the last change, although page and database both hold the changed one: it calls the callback of the render that started it |

Other disagreements seen while modelling, certain from the code or an instance of the races above:

* Answers: of two answers saved at once, one is acknowledged and overwritten, because `saveAnswer` writes the whole
  array back (ARS 832). `AllAnswersCaptured` holds for one request at a time and fails for two.
* Two more writes of whole arrays lose what was written since their read: `clearAnswer` erases an answer saved between
  its two writes (ARS 903), and `submitCodingSolution` writes back the coding questions of before its run (ARS 989),
  so that of two solutions run at once one is lost.
* A solution that is run again after the submission loses its marks, and the total keeps them until the next
  grading (ARS 989). `GradesMatchAnswers` allows this and no other difference.
* A cached assessment makes `saveAnswer` compare an end date in its own time zone with a clock in Indian time (ARS
  769): on a server outside India that answers from the cache, an attempt is completed without marks before the end
  date, on one in UTC five and a half hours before it (and east of India it is still answered after it).
  `CompletedIsEarned` holds with that lead, for any `Lead`.
* A recalculation ends an attempt that is still running (ARS 1624): it writes a verdict whatever the status is.
* `submitAssessment` and `autoFailExpiredAssessments` write by id alone, so a submission can grade, and the
  automatic failure can fail, an attempt that has ended since it was read (ARS 368, 1829). `CompletedIsEarned` and
  the life cycle hold even so.
* Starts: without the unique index, a second attempt is stored next to a completed one, because the lookup uses the
  wrong id (`AssessmentResultRepository.ts:62`); no property says otherwise, as the index alone forbids it. With the
  index, a start that meets it rethrows the error for the same reason (ARS 213); the comment at ARS 218 says that the
  attempt is returned.
* A function that outlasts its lock goes on without it, against the comment at `core/infrastructure/Redis.ts:364`.
* Pipeline: an upsert that fails, or a restart during one, loses the result of a completed job for ever
  (`JobCompletionListener.ts:106`). A job that fails has no document and is reported by nobody
  (`JobCompletionListener.ts:120`): its status reads as processing, and the student sees a timeout. The polling loop
  swallows a failure that it was told of (`CodingTestInterface.tsx:416`).
* A run whose call of Judge0 never returns keeps its job active for ever and its slot busy; 50 of them stop a
  worker (`CodeExecutionService.ts:91`, 132). The comment at `Worker.ts:234` says "Maximum 60s per job", but the lock is
  renewed while the run hangs. `EveryJobEnds` names this exception.
* The take page: a load that finds the time up toasts 'Assessment time has expired. Submitting automatically...'
  (TAKE 448) and shows "Assessment Completed!", but it also stops the timer, and nothing is submitted: the attempt stays
  in progress until the student's list of assessments fails it (AS 1194). `TimeUpEnds` names this exception, and nothing else leaves the attempt open while the network works and
  no saves have failed.
* Assessments: a read that is under way while an update or a deletion clears the copy fills it with what it read
  before, and the copy does not expire (AS 516). `CopyLacksBypassesOnly` holds for one request at a time. An invited
  student who registers during the look-up of the e-mail, or whose look-up fails, stays invited without being assigned
  (AS 770).
* Request queue: slots are freed 50 ms after the dispatch and not when the route ends
  (`simple-queue.middleware.ts:119`), so more routes run than `maxConcurrent`. The timer is not
  cleared at dispatch, so a route that runs for ten seconds is answered "Request timed out in queue".
* Nothing calls `autoFailExpiredAssessments` but an administrator's request (`ScheduledTaskService.ts:42`, "should be
  called periodically"), so an expired attempt stays in progress until its student lists the assessments (AS 1194).
* Users: activation and deactivation are both `toggleUserStatus`, which writes the opposite of what it read
  (US 859). Two administrators who deactivate a student at once can leave the account active, and both are told "User
  deactivated successfully" (`UserController.ts:204`).
* An edit form that was open while its account was deleted writes the registration number and the status back
  (`UserRepository.ts:224`), and the number is taken again. `RefusalsAreJustified` names this case.
* The profile page's college, year and registration number are stripped by a validation that asks for a role which
  the page does not send (`user.dto.ts:203`), while the page says that the profile was updated.
* A mail that fails is returned as a value (`MailProcessor.ts:98`), so BullMQ completes the job and its retries
  are never used.

Why the bounds are enough. The hazards are races of two actors over one piece of state, so two of each kind
reach them; the lock has three requests so that a late release can meet a third owner. A call bound of 2 lets a
request come back after its own crash or lost reply. `MaxTime` covers a start at 0 or 1, the duration, the grace and
the end date, with the clock ahead or not. `maxStalledCount` is the code's own 2; the numbers of polls, places and
slots are far below the code's (60, 5000, 400): they only shift where the limit is met, and the runs meet it.
One fault of the API is enough to lose a save or a listener. Five requests of the catalogue are a creation, a request
that reads, two that write meanwhile, and one that shows what came of it; seven requests of the accounts let two
students register, one of them sign in and be deleted with a form open, and a third register after that. The take
page's one question has two answers, so that a sheet has an old and a new form; two presses and one fault reach
every button after a failed save. The theorems of section 5 hold for any number of all of these.
Every bound is a constant of its module. `CHECK_DEADLOCK FALSE` is set where the system may rest: nothing makes
the next request come.

Symmetry is used only in runs without liveness properties.

## 4. Fairness

* `StartFairSpec`: time passes, and what a request awaits settles: the reply of its SET, the queries of its function,
  the end of the function. Nothing is assumed of calls, releases, failures or crashes. Redis expires keys on its own.
* `PipeFairSpec`: free slots take waiting jobs (BullMQ workers poll), runs that do not hang end (`executeCode` polls
  at most 30 times for each test case; any run may hang before), the lock of an abandoned job expires (stalled check
  every 30 s), and an upsert that was begun ends. Crashes, stalls of live workers, faults and polls are not fair.
* `QueueFairSpec`: timers fire. Dispatch is not fair, because `processNext` returns without work while memory is
  short, and routes are not, because they may hang.
* `TakeFairSpec`: the clock runs, the page's timer runs down while the page is open, and requests that the network
  does not lose are handled and answered. Nothing is assumed of the student, of delayed saves or of the network.

The catalogue and the accounts have no liveness property: nothing there is retried, and a request that fails is over.

## 5. Proofs

Every safety property of the passing runs is proved, for every value of the constants that satisfies the named
assumptions of the modules and, where one is named, the assumption of the theorem. The argument of each module:

* `RedisLockProofs`: `LockTypeCorrect`; `LeaseOfHolder` and `LockMutualExclusion`, for `MaxHold < TTL`;
  `HeldKeysOnlyExpire`, for any `MaxHold`. Mutual exclusion is not inductive: two requests could each believe that
  they hold. `LeaseInv` makes it so: whoever holds finds its own token in Redis, and the time left plus the time held
  is the TTL, so the key cannot expire under a holder that ends in time.
* `AssessmentStartProofs`: `StartsUseTheLock` (a start is a run of the lock), `StartTypeCorrect`,
  `CheckAndCreateAreOneStep` (`MaxHold < TTL`, with or without the index), which combines mutual exclusion with
  `StepInv`, that a request makes progress inside the function only while the lock runs it.
* `AssessmentAttemptProofs`, for any number of requests in flight: `AttemptTypeCorrect`, `EarnedCompletion`,
  `FinishedStaysFinished` and the refinement `AttemptImplementsLifecycle`. One lemma, `StepEffect`, says what any step
  of any handler can do to the stored document; the three results follow from it. For a single request slot, which is
  what they need: `GradesFollowAnswers` by `GradesInv`, that a handler of an open attempt goes on with an ungraded
  document, unless one was written by hand, for as long as that is stored, and `AnswersAreCaptured` by `AnswersInv`,
  that the answers the handler in flight has read are still the stored ones.
* `SubmissionPipelineProofs`: `PipeTypeCorrect`, `OneResult` and the refinement `PipelineKeepsPromise`. The
  invariant is `PipeInv`: the types, `ResultsAgree` (job, saves and document agree) and `BrowserAgrees` (a browser
  that has not submitted has no job, one that shows nothing holds nothing), which a step of polling needs.
  `ResultsAreKept` adds that without faults every API process listens; it needs that there is one, which is the
  assumption `Api # {}` (`ecosystem.config.js` starts four). `JobsOnlyWearDown` follows from `PipeInv`: the
  measure `MovesLeft` falls with every step at the job.
* `RequestQueueProofs`: `QueueTypeCorrect`, `QueueOrdered`, `AnsweredAreLeftAlone` and the refinement
  `QueueIsPriorityService`. `QueueInv` adds to types and order
  that those who wait have a timer and no answer yet, and that nobody has arrived after the last arrival; the work is in
  the lemmas on sequences: a stable insertion and a removal at any place keep order and distinctness. The refinement needs
  three more facts: the length of the array is the number of those who wait, its head goes before everybody in it, and
  whoever is over has an answer (`OverInv`), so that no timer answers twice. `TimersCoverTheUnanswered` is
  inductive with `QueueInv`.
* `AssessmentCatalogueProofs`: `CatTypeCorrect` by `CatInv`, of which `WritesFit` is the part that is not about types:
  each request writes at most once, so versions stay within the bound. `EnrolmentKept` (no lists, no `assign`; any
  number of requests in flight, with faults) by `KeptInv`: every request that carries lists carries the same students
  as the document holds, but for accounts deleted since, so that overwriting each other's lists drops nobody.
  `InvitationsAreKept` and `CopyIsRefreshed` (one request slot, no faults) by `AloneInv`: what the request in flight
  still has to do is exactly what the lists and the copy still lack. `StatusIsMissedAfterDeactivations`, under the
  same hypotheses, adds `StatusInv`: a copy, and a start that carries one, has the status of the assessment, unless
  the assessment was deactivated after the version of that copy.
* `UserAccountsProofs`: `AccountsTypeCorrect`, `AccountsDistinct`, `RefusalsJustified` by `AccountsInv`, which adds
  `DeletedAreErased`, that a deleted account holds neither e-mail nor number unless a form was saved to it.
  `DeletionIsFinal` has a strengthening of its own, `DeletedAreNameless`: a deleted account has no e-mail. The lemma
  `Fates` says what any step of any request may make of an account.
* `TakeAssessmentProofs`: `TakeTypeCorrect`, `WholeSheetsAreGraded` by `TakeInv`: a submission under way carries a sheet
  that was submitted, and grading a whole sheet leaves nothing of what was read before. `TimersAreNotForgotten` by
  `HandledInv`, which adds to the property that a timer that has fired is not running: the submission of the timer stays
  in `net` until the server decides about it, and a decision ends the attempt or finds it ended.

Only model-checked: the liveness properties `EveryTokenGoes`, `EveryJobEnds`, `RecordedUnlessFaulty`,
`EveryRequestIsAnswered` and `TimeUpEnds`, which with `ENABLED` are beyond the prover. What is safety in four of them
is proved: `JobsOnlyWearDown` bounds how often a job moves, `ResultsAreKept` says that an unsaved result has a process
that saves it, `TimersAreNotForgotten` that a running attempt whose timer has fired has a submission under way,
`TimersCoverTheUnanswered` that a request without an answer has a timer. What is left to the runs is that fairness
makes the remaining steps happen.

## 6. Not modelled

* Dead code: the branches of `getCurrentAssessmentState` that resume a paused attempt, the branches of
  `startAssessment` for an existing attempt, the leaky bucket, `saveFailedSubmission`, `ScheduledTaskService`'s own
  loop, the `maxRetries` metadata of jobs, the notification and data-processing queues, `CacheManager`'s
  `getAndDelete`, `setIfNotExists` and `mset`.
* Attempts that are looked up by `findByUserAndAssessment`, which never finds one: `pauseAssessment`,
  `getCurrentAssessmentState`, `calculateScore`, `getAssessmentForUserById` and `getMyAssessmentById` write nothing.
* `SessionManager` and `PubSubManager`: nothing calls them, so there is no sequence of calls that is this program's.
  `RedisClient` and `Redis.initialize`: they reconnect by ioredis's own strategy, and what matters to the API, that
  any command may fail, is modelled where the command is sent.
* Mails: a mail is one attempt whose outcome no other part reads. The promise that it is sent or seen to fail does
  not hold, by construction (section 3), and no other is left to check.
* Colleges and branches: a name is checked and then inserted under a unique index, the pattern of `UserAccounts`; a
  college copies the names of its branches, and no handler reads them back to decide anything. Tests administration:
  ownership and status are checked and one document is written; a submission carries the test data it was queued
  with, so that no edit reaches the pipeline (`TestController.ts:367`). Questions and dashboard: CRUD and reads.
* Libraries and services: MongoDB (single-document writes are atomic), Redis, BullMQ, Express, React Query, Judge0,
  password hashing and JWT.
* Section scores, percentages with decimals, e-mail texts, exports, reports, the other pages, configuration. They make
  up most of the repository's lines, and are wording, layout and plain queries rather than protocol.
* `updateSubmissionStatus` in `getSubmissionStatus`, which repairs documents without a status: the pipeline always
  stores one.
* In the partly modelled components: the Google-form path and section scores of an attempt; coding questions,
  navigation and several tabs of the take page; roles, password reset, imports of lists of users and requests that
  change an e-mail, which no page makes;
  lists, statistics and exports of assessments.

## 7. Plan

What would add most next, in this order:

1. Several tabs of one student in `TakeAssessment`: two pages save to and submit the same attempt.
2. Password reset and verification codes in `UserAccounts`: codes used once, and not after they expired.
3. The cached lists of assessments and tests (`invalidateAllAssessmentCaches` uses keys without the cache manager's
   prefix), as a second copy in `AssessmentCatalogue`.
4. Colleges and branches: renamed and deleted branches against the copies of their names in colleges and users.

For the proofs: what of `AllAnswersCaptured`, `InvitedStudentsGetIn` and `CopyLacksBypassesOnly` survives two requests in
flight, stated with the overlapping handlers named, as `RefusalsAreJustified` names its exception.
