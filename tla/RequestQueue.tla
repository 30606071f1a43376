----------------------------- MODULE RequestQueue -----------------------------
(***************************************************************************)
(* SimpleRequestQueue, the middleware that every request of an API process *)
(* passes before its route: an array sorted by priority, a slot counter    *)
(* that frees a slot 50 ms after a request was let through, and a timer of *)
(* ten seconds that answers 408.                                           *)
(*                                                                         *)
(* Time is abstract: a timer that is set fires at some later step.  The    *)
(* memory check of processNext only delays it.  The catch around next() is *)
(* left out: Express hands errors of a route to its error handlers, and    *)
(* next() does not throw.                                                  *)
(***************************************************************************)
EXTENDS Naturals, Sequences, SequencesExt, FiniteSets

CONSTANTS
    Request,        \* requests, none of them /status or /health
    Prio,           \* getPriority of each
    MaxConcurrent,  \* maxConcurrent
    MaxQueueSize    \* maxQueueSize

ASSUME QueueAssumption ==
    /\ Prio \in [Request -> Nat]
    /\ MaxConcurrent \in Nat \ {0} /\ MaxQueueSize \in Nat \ {0}

VARIABLES
    queue,       \* the requests that wait
    processing,  \* the requests that occupy a slot
    timers,      \* the requests whose timer is set
    stage,       \* how far each request has come
    answer,      \* the response of each request
    arrival      \* history: the place of each request in order of arrival

queueVars == <<queue, processing, timers, stage, answer, arrival>>

QueueInit ==
    /\ queue = <<>>
    /\ processing = {}
    /\ timers = {}
    /\ stage = [r \in Request |-> "new"]
    /\ answer = [r \in Request |-> "none"]
    /\ arrival = [r \in Request |-> 0]

Waiting == {queue[i] : i \in DOMAIN queue}

\* Mutant of Sorted: the last in goes first among its equals.
SortedUnstable(r) ==
    LET k == Cardinality({i \in DOMAIN queue : Prio[queue[i]] > Prio[r]})
    IN  InsertAt(queue, k + 1, r)

\* push, then a stable sort by descending priority.
Sorted(r) ==
    LET k == Cardinality({i \in DOMAIN queue : Prio[queue[i]] >= Prio[r]})
    IN  InsertAt(queue, k + 1, r)

Arrived == Cardinality({r \in Request : arrival[r] # 0})

\* The queue is full: 503, and no timer is set.
Reject(r) ==
    /\ stage[r] = "new"
    /\ Len(queue) >= MaxQueueSize
    /\ stage' = [stage EXCEPT ![r] = "over"]
    /\ answer' = [answer EXCEPT ![r] = "503"]
    /\ UNCHANGED <<queue, processing, timers, arrival>>

\* Mutant of Enqueue: one place too many.
EnqueueOneMore(r) ==
    /\ stage[r] = "new"
    /\ Len(queue) <= MaxQueueSize
    /\ queue' = Sorted(r)
    /\ timers' = timers \cup {r}
    /\ stage' = [stage EXCEPT ![r] = "waiting"]
    /\ arrival' = [arrival EXCEPT ![r] = Arrived + 1]
    /\ UNCHANGED <<processing, answer>>

Enqueue(r) ==
    /\ stage[r] = "new"
    /\ Len(queue) < MaxQueueSize
    /\ queue' = Sorted(r)
    /\ timers' = timers \cup {r}
    /\ stage' = [stage EXCEPT ![r] = "waiting"]
    /\ arrival' = [arrival EXCEPT ![r] = Arrived + 1]
    /\ UNCHANGED <<processing, answer>>

\* Mutant of ProcessNext: pop in the place of shift.
ProcessLast ==
    /\ Cardinality(processing) < MaxConcurrent
    /\ queue # <<>>
    /\ queue' = Front(queue)
    /\ processing' = processing \cup {Last(queue)}
    /\ stage' = [stage EXCEPT ![Last(queue)] = "running"]
    /\ UNCHANGED <<timers, answer, arrival>>

\* Every 10 ms: the head is let through to its route if a slot is free.
ProcessNext ==
    /\ Cardinality(processing) < MaxConcurrent
    /\ queue # <<>>
    /\ queue' = Tail(queue)
    /\ processing' = processing \cup {Head(queue)}
    /\ stage' = [stage EXCEPT ![Head(queue)] = "running"]
    /\ UNCHANGED <<timers, answer, arrival>>

\* 50 ms later the slot is free, whether or not the route has answered.
CompleteRequest(r) ==
    /\ r \in processing
    /\ processing' = processing \ {r}
    /\ UNCHANGED <<queue, timers, stage, answer, arrival>>

\* Mutant of TimeOut: the request stays in the queue.
TimeOutInPlace(r) ==
    /\ r \in timers
    /\ timers' = timers \ {r}
    /\ answer' = IF answer[r] = "none" THEN [answer EXCEPT ![r] = "408"]
                                       ELSE answer
    /\ UNCHANGED <<queue, processing, stage, arrival>>

\* Mutant of TimeOut: a request that left the queue is not answered.
TimeOutWaitingOnly(r) ==
    /\ r \in timers
    /\ timers' = timers \ {r}
    /\ \/ r \notin Waiting /\ UNCHANGED <<queue, stage>>
       \/ /\ \E i \in DOMAIN queue : queue[i] = r /\ queue' = RemoveAt(queue, i)
          /\ stage' = [stage EXCEPT ![r] = "over"]
    /\ answer' = IF r \in Waiting THEN [answer EXCEPT ![r] = "408"] ELSE answer
    /\ UNCHANGED <<processing, arrival>>

\* The timer fires: the request leaves the queue if it is still there, and is
\* answered 408 if it has no answer.  The timer is never cleared.
TimeOut(r) ==
    /\ r \in timers
    /\ timers' = timers \ {r}
    /\ \/ r \notin Waiting /\ UNCHANGED <<queue, stage>>
       \/ /\ \E i \in DOMAIN queue : queue[i] = r /\ queue' = RemoveAt(queue, i)
          /\ stage' = [stage EXCEPT ![r] = "over"]
    /\ answer' = IF answer[r] = "none" THEN [answer EXCEPT ![r] = "408"]
                                       ELSE answer
    /\ UNCHANGED <<processing, arrival>>

\* The route answers; after a 408 its answer is lost.
Respond(r) ==
    /\ stage[r] = "running"
    /\ stage' = [stage EXCEPT ![r] = "over"]
    /\ answer' = IF answer[r] = "none" THEN [answer EXCEPT ![r] = "route"]
                                       ELSE answer
    /\ UNCHANGED <<queue, processing, timers, arrival>>

QueueNext ==
    \/ ProcessNext
    \/ \E r \in Request :
          \/ Reject(r) \/ Enqueue(r)
          \/ CompleteRequest(r) \/ TimeOut(r) \/ Respond(r)

QueueSpec == QueueInit /\ [][QueueNext]_queueVars

\* Timers fire.  Neither routes nor processNext (which waits for memory) are
\* fair.
QueueFairSpec ==
    /\ QueueSpec
    /\ \A r \in Request : WF_queueVars(TimeOut(r)) /\ WF_queueVars(CompleteRequest(r))
-----------------------------------------------------------------------------
(* Properties. *)

\* Types, the two limits, and no request twice in the queue.
QueueTypeOK ==
    /\ queue \in Seq(Request) /\ Len(queue) <= MaxQueueSize
    /\ IsInjective(queue)
    /\ processing \subseteq Request /\ Cardinality(processing) <= MaxConcurrent
    /\ timers \subseteq Request
    /\ stage \in [Request -> {"new", "waiting", "running", "over"}]
    /\ Waiting = {r \in Request : stage[r] = "waiting"}
    /\ answer \in [Request -> {"none", "503", "408", "route"}]
    /\ arrival \in [Request -> Nat]

\* Requests wait in order of priority and, within a priority, of arrival,
\* whatever was dispatched or timed out in between ("Higher priority first").
QueueInOrder ==
    \A i, j \in DOMAIN queue :
        i < j => \/ Prio[queue[i]] > Prio[queue[j]]
                 \/ /\ Prio[queue[i]] = Prio[queue[j]]
                    /\ arrival[queue[i]] < arrival[queue[j]]

\* No route runs for a request that was already answered: a timer takes its
\* request out of the queue before it answers (removeRequest).
NoWorkForTheAnswered ==
    [][\A r \in Request :
          stage[r] # "running" /\ stage'[r] = "running" => answer[r] = "none"]_queueVars

\* A request that was let in and has no answer yet still has the timer that
\* gives it one: neither its dispatch nor the freeing of its slot takes the timer
\* away before an answer is there (middleware, "Request timed out in queue").
UnansweredHaveTimers ==
    \A r \in Request :
        stage[r] \in {"waiting", "running"} /\ answer[r] = "none" => r \in timers

\* The queue is the waiting room of PriorityService: it turns requests away only
\* when it is full, lets them through in the order of the service, and gives
\* each its one answer (SimpleRequestQueue).
Service == INSTANCE PriorityService WITH Room <- MaxQueueSize

ImplementsService == Service!ServiceSpec

\* Every request gets an answer, even when the queue stands still for lack of
\* memory or its route hangs (the timer of the middleware).
EveryRequestIsAnswered ==
    \A r \in Request : stage[r] = "waiting" ~> answer[r] # "none"

=============================================================================
