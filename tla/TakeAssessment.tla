----------------------------- MODULE TakeAssessment -----------------------------
(***************************************************************************)
(* The take page of the front end, one attempt in the database, and the    *)
(* requests between them.                                                  *)
(*                                                                         *)
(* The page keeps the answers in React state, sends each change at once    *)
(* and again half a second later, and sends the whole sheet when the       *)
(* student submits.  Its timer submits too, but with the callback of the   *)
(* render that started it.  Requests travel and are handled in any order.  *)
(*                                                                         *)
(* Abstraction: multiple-choice questions only; the end date lies beyond   *)
(* the duration and its grace, so that no save is refused or closes the    *)
(* attempt because of it; one tab.  Leaving the page is not modelled.      *)
(***************************************************************************)
EXTENDS Naturals, FiniteSets

CONSTANTS
    Question,
    Answer,      \* what selectedOptions may be
    Blank,       \* the empty list of options
    NoQuestion, NoSheet,
    MaxChanges,  \* bound: answers chosen
    MaxPresses,  \* bound: presses of the other buttons
    MaxFaults    \* bound: requests and replies that the network loses

ASSUME TakeAssumption ==
    /\ Blank \in Answer
    /\ NoQuestion \notin Question
    /\ MaxChanges \in Nat /\ MaxPresses \in Nat /\ MaxFaults \in Nat

Sheet == [Question -> Answer]

ASSUME TakeNothing == NoSheet \notin Sheet

VARIABLES
    page,      \* "open", "error" (apiError) or over (isCompleted): "completed" by
               \* a submission, "expired" by a load that found the time up
    sheet,     \* responses: what the student sees
    failed,    \* failedSaves
    delayed,   \* changes whose delayed save has not been sent
    latest,    \* the change whose delayed save was the last call of
               \* saveAnswerMutation, or 0: only its callbacks run
    retrying,  \* retries that retryFailedSaves still awaits
    closure,   \* the responses and failedSaves that the timer submits with
    fired,     \* has the timer run down?
    net,       \* requests sent and not yet settled
    time,      \* "running", "up" (the duration) or "late" (and the grace)
    stored,    \* responses of the attempt in the database
    status,    \* its status
    graded,    \* the sheet its last verdict is about
    submitted, \* history: the sheets that the page submitted
    changes, presses, faults

pageVars == <<page, sheet, failed, delayed, latest, retrying, closure, fired>>
dbVars == <<stored, status, graded>>
boundVars == <<changes, presses, faults>>
takeVars == <<pageVars, net, time, dbVars, submitted, boundVars>>

Kind == {"quiet", "save", "retry", "clear", "load", "submit"}

\* A request: n is the change or the press that it came from, at how far the
\* server has come, open whether the page still awaits an outcome.
Message == [n: 0..(MaxChanges + MaxPresses), kind: Kind, question: Question \cup {NoQuestion},
            answer: Answer, sheet: Sheet, seen: Sheet,
            at: {"way", "read", "cleared", "done", "refused", "lost"},
            open: BOOLEAN]

Empty == [q \in Question |-> Blank]

Saves == {"quiet", "save", "retry"}

\* The page has no callbacks for the outcome of a first save or of a clearing.
Plain(n, kind) == [n |-> n, kind |-> kind, question |-> NoQuestion,
                   answer |-> Blank, sheet |-> Empty, seen |-> Empty,
                   at |-> "way", open |-> kind \notin {"quiet", "clear"}]

Saving(n, kind, q, a) == [Plain(n, kind) EXCEPT !.question = q, !.answer = a]

Submission(n, s) == [Plain(n, "submit") EXCEPT !.sheet = s]

\* The page as loaded at the start: the effect of assessment shows its answers
\* and starts the timer in one render.
TakeInit ==
    /\ stored \in Sheet /\ sheet = stored
    /\ page = "open" /\ failed = {} /\ delayed = {} /\ latest = 0
    /\ retrying = {}
    /\ closure = [sheet |-> sheet, failed |-> {}] /\ fired = FALSE
    /\ net = {}
    /\ time = "running"
    /\ status = "in_progress" /\ graded = NoSheet
    /\ submitted = {}
    /\ changes = 0 /\ presses = 0 /\ faults = 0

-----------------------------------------------------------------------------
(* The page *)

Send(ms) == net' = net \cup ms

Press == presses < MaxPresses /\ presses' = presses + 1

\* handleAnswerChange: the save sent at once has no callbacks.
Change(q, a) ==
    /\ page = "open" /\ changes < MaxChanges
    /\ sheet[q] # a
    /\ sheet' = [sheet EXCEPT ![q] = a]
    /\ changes' = changes + 1
    /\ Send({Saving(changes', "quiet", q, a)})
    /\ delayed' = delayed \cup {[n |-> changes', question |-> q, answer |-> a]}
    /\ UNCHANGED <<page, failed, latest, retrying, closure, fired, time, dbVars,
                   submitted, presses, faults>>

\* debouncedSave.  Every render makes a new debounced function, so that no
\* change cancels the save of an earlier one.
SendDelayed(d) ==
    /\ d \in delayed
    /\ delayed' = delayed \ {d}
    /\ Send({Saving(d.n, "save", d.question, d.answer)})
    /\ latest' = d.n
    /\ UNCHANGED <<page, sheet, failed, retrying, closure, fired, time, dbVars,
                   submitted, boundVars>>

\* retryFailedSaves, one batch at a time.
Retry ==
    /\ page = "open" /\ failed # {} /\ retrying = {}
    /\ Press
    /\ Send({Saving(presses', "retry", q, sheet[q]) : q \in failed})
    /\ retrying' = {<<presses', q>> : q \in failed}
    /\ latest' = 0
    /\ UNCHANGED <<page, sheet, failed, delayed, closure, fired, time, dbVars,
                   submitted, changes, faults>>

\* Mutant: clearing leaves no list of answers behind.
ClearAllToNothing ==
    /\ page = "open"
    /\ Press
    /\ sheet' = NoSheet
    /\ Send({Plain(presses', "clear")})
    /\ UNCHANGED <<page, failed, delayed, latest, retrying, closure, fired, time,
                   dbVars, submitted, changes, faults>>

\* clearAllAnswers
ClearAll ==
    /\ page = "open"
    /\ Press
    /\ sheet' = Empty
    /\ Send({Plain(presses', "clear")})
    /\ UNCHANGED <<page, failed, delayed, latest, retrying, closure, fired, time,
                   dbVars, submitted, changes, faults>>

\* A coding answer was submitted: refetchAssessment.
CodeSubmitted ==
    /\ page = "open"
    /\ Press
    /\ Send({Plain(presses', "load")})
    /\ UNCHANGED <<pageVars, time, dbVars, submitted, changes, faults>>

\* handleSubmitAssessment from a button, which a submission under way disables.
Submit ==
    /\ page = "open" /\ failed = {}
    /\ \A m \in net : m.kind = "submit" => ~m.open
    /\ Press
    /\ Send({Submission(presses', sheet)})
    /\ submitted' = submitted \cup {sheet}
    /\ UNCHANGED <<pageVars, time, dbVars, changes, faults>>

\* Mutant: the timer only stops.
TimerStops ==
    /\ time # "running" /\ ~fired /\ page \notin {"completed", "expired"}
    /\ fired' = TRUE
    /\ UNCHANGED <<page, sheet, failed, delayed, latest, retrying, closure, net,
                   time, dbVars, submitted, boundVars>>

\* The timer effect calls handleSubmitAssessment of the render it ran in.
TimerFires ==
    /\ time # "running" /\ ~fired /\ page \notin {"completed", "expired"}
    /\ fired' = TRUE
    /\ IF closure.failed = {}
       THEN /\ Send({Submission(0, closure.sheet)})
            /\ submitted' = submitted \cup {closure.sheet}
       ELSE UNCHANGED <<net, submitted>>
    /\ UNCHANGED <<page, sheet, failed, delayed, latest, retrying, closure, time,
                   dbVars, boundVars>>

-----------------------------------------------------------------------------
(* Outcomes.  ok is FALSE for a refusal and for a network error. *)

Awaited(m) == m.kind = "retry" /\ <<m.n, m.question>> \in retrying

\* Callbacks of debouncedSave; a retry ends its batch or counts for it.
HearSave(m, ok) ==
    /\ m.kind \in {"save", "retry"}
    /\ retrying' = IF ok /\ m.kind = "retry" THEN retrying \ {<<m.n, m.question>>}
                   ELSE IF Awaited(m) THEN {} ELSE retrying
    /\ failed' = IF Awaited(m) /\ retrying' = {} /\ ok THEN {}
                 ELSE IF m.kind = "save" /\ m.n = latest
                 THEN IF ok THEN failed \ {m.question} ELSE failed \cup {m.question}
                 ELSE failed
    /\ UNCHANGED <<page, sheet, delayed, latest, closure, fired>>

HearSubmit(m, ok) ==
    /\ m.kind = "submit"
    /\ page' = IF ok THEN "completed" ELSE page
    /\ UNCHANGED <<sheet, failed, delayed, latest, retrying, closure, fired>>

\* A refetch replaces assessment.  Its effects run in the order of the page:
\* the timer is started again with the render's responses, and then, unless
\* the time is up, the answers submitted are replaced.  A page that finds the
\* time up says that it is submitting, but only ends: its timer is stopped.
HearLoad(m, ok) ==
    /\ m.kind = "load"
    /\ IF ~ok
       THEN page' = "error" /\ UNCHANGED <<sheet, closure>>
       ELSE IF time = "running"
       THEN /\ closure' = [sheet |-> sheet, failed |-> failed]
            /\ sheet' = m.seen
            /\ UNCHANGED page
       ELSE page' = "expired" /\ UNCHANGED <<sheet, closure>>
    /\ UNCHANGED <<failed, delayed, latest, retrying, fired>>

Hear(m, ok) ==
    IF m.open THEN HearSave(m, ok) \/ HearSubmit(m, ok) \/ HearLoad(m, ok)
              ELSE UNCHANGED pageVars

\* Once a request is settled on both sides nothing remembers it.
Replace(m, new) ==
    net' = (net \ {m}) \cup
           (IF ~new.open /\ new.at \in {"done", "refused", "lost"} THEN {} ELSE {new})

Reply(m) ==
    /\ m.open /\ m.at \in {"done", "refused"}
    /\ Hear(m, m.at = "done")
    /\ Replace(m, [m EXCEPT !.open = FALSE])
    /\ UNCHANGED <<time, dbVars, submitted, boundVars>>

\* The network loses the request, or its connection before the reply.  React
\* Query sends a failed load once more: one fault stands for both tries.
NetworkFails(m) ==
    /\ m.open \/ m.at = "way"
    /\ faults < MaxFaults
    /\ faults' = faults + 1
    /\ Hear(m, FALSE)
    /\ \E place \in (IF m.open THEN {m.at} ELSE {}) \cup
                    (IF m.at = "way" THEN {"lost"} ELSE {}) :
          Replace(m, [m EXCEPT !.open = FALSE, !.at = place])
    /\ UNCHANGED <<time, dbVars, submitted, changes, presses>>

-----------------------------------------------------------------------------
(* The server: the handlers of ARS, reduced to what the page can tell apart *)

At(m, place) == Replace(m, [m EXCEPT !.at = place])

Serve == UNCHANGED <<pageVars, time, submitted, boundVars>>

\* saveAnswer, clearAnswer and submitAssessment read the attempt first.
Read(m) ==
    /\ m.at = "way" /\ m.kind # "load"
    /\ IF status = "in_progress"
       THEN Replace(m, [m EXCEPT !.at = "read", !.seen = stored])
       ELSE At(m, "refused")
    /\ UNCHANGED dbVars /\ Serve

\* getOnGoingAssessmentResult
Load(m) ==
    /\ m.at = "way" /\ m.kind = "load"
    /\ Replace(m, [m EXCEPT !.at = "done", !.seen = stored])
    /\ UNCHANGED dbVars /\ Serve

\* The whole list of responses is written back, with one of them changed.
Save(m) ==
    /\ m.at = "read" /\ m.kind \in Saves
    /\ stored' = [m.seen EXCEPT ![m.question] = m.answer]
    /\ At(m, "done")
    /\ UNCHANGED <<status, graded>> /\ Serve

\* clearAnswer fails the attempt when its duration is over, without a grace.
Clear(m) ==
    /\ m.at = "read" /\ m.kind = "clear"
    /\ IF time = "running"
       THEN stored' = Empty /\ At(m, "cleared") /\ UNCHANGED status
       ELSE status' = "failed" /\ At(m, "refused") /\ UNCHANGED stored
    /\ UNCHANGED graded /\ Serve

ClearAgain(m) ==
    /\ m.at = "cleared"
    /\ stored' = Empty
    /\ At(m, "done")
    /\ UNCHANGED <<status, graded>> /\ Serve

\* Mutant: a blank answer does not replace a stored one.
MergeFilled(old, new) == [q \in Question |-> IF new[q] = Blank THEN old[q] ELSE new[q]]

\* submitAssessment: the list sent for a question replaces the one read, also
\* when it is empty.
Merge(old, new) == [q \in Question |-> new[q]]

Grade(m) ==
    /\ m.at = "read" /\ m.kind = "submit"
    /\ IF time = "late"
       THEN status' = "failed" /\ At(m, "refused") /\ UNCHANGED <<stored, graded>>
       ELSE LET final == Merge(m.seen, m.sheet)
            IN  /\ stored' = final /\ graded' = final
                /\ status' = "graded"
                /\ At(m, "done")
    /\ Serve

Tick ==
    /\ time # "late"
    /\ time' = IF time = "running" THEN "up" ELSE "late"
    /\ UNCHANGED <<pageVars, net, dbVars, submitted, boundVars>>

-----------------------------------------------------------------------------
Handle(m) == Read(m) \/ Load(m) \/ Save(m) \/ Clear(m) \/ ClearAgain(m) \/ Grade(m)

Student ==
    \/ \E q \in Question, a \in Answer : Change(q, a)
    \/ Retry \/ ClearAll \/ CodeSubmitted \/ Submit

TakeNext ==
    \/ Student
    \/ \E d \in delayed : SendDelayed(d)
    \/ TimerFires \/ Tick
    \/ \E m \in net : Handle(m) \/ Reply(m) \/ NetworkFails(m)

TakeSpec == TakeInit /\ [][TakeNext]_takeVars

\* The clock runs, timers run down, and a request that the network does not
\* lose is handled and answered before its grace is over.
TakeFairSpec ==
    /\ TakeSpec
    /\ WF_takeVars(Tick)
    /\ WF_takeVars(TimerFires)
    /\ WF_takeVars(\E m \in net : Handle(m))
    /\ WF_takeVars(\E m \in net : Reply(m))

-----------------------------------------------------------------------------
TakeTypeOK ==
    /\ page \in {"open", "completed", "expired", "error"}
    /\ sheet \in Sheet
    /\ failed \subseteq Question
    /\ delayed \subseteq [n: 0..MaxChanges, question: Question, answer: Answer]
    /\ latest \in 0..MaxChanges
    /\ retrying \subseteq (1..MaxPresses) \X Question
    /\ closure \in [sheet: Sheet, failed: SUBSET Question]
    /\ fired \in BOOLEAN
    /\ net \subseteq Message
    /\ time \in {"running", "up", "late"}
    /\ stored \in Sheet
    /\ status \in {"in_progress", "graded", "failed"}
    /\ graded \in Sheet \cup {NoSheet}
    /\ submitted \subseteq Sheet
    /\ changes \in 0..MaxChanges /\ presses \in 0..MaxPresses
    /\ faults \in 0..MaxFaults
    /\ \A m \in net : m.kind \in Saves => m.question \in Question

\* A verdict is about a whole sheet that the page submitted: answers that the
\* server has read before, and saves that were lost, came late or in another
\* order, do not get into it (handleSubmitAssessment, submitAssessment).
VerdictsAreOfWholeSheets == graded # NoSheet => graded \in submitted

\* Once the timer has run down, an attempt that is still in progress has a
\* submission that the server has yet to decide about: no answer that comes
\* late, no refetch and no other request takes the place of it.  The exceptions
\* are a lost request and failed saves in the render that the timer runs in
\* (handleSubmitAssessment, submitAssessment).
TimedOutIsHandled ==
    fired /\ status = "in_progress" /\ faults = 0 /\ closure.failed = {} =>
        \E m \in net : m.kind = "submit" /\ m.at \in {"way", "read"}

\* When the time is up and the page stays, the attempt ends, unless the network
\* failed, the render of the timer knew of failed saves, or the page was loaded
\* again before the timer ran down: it then ends with nothing submitted, though
\* it says 'Submitting automatically...' (handleSubmitAssessment, the effects
\* of assessment).
TimeUpEnds ==
    time = "up" ~> \/ status # "in_progress"
                   \/ faults > 0 \/ closure.failed # {}
                   \/ page = "expired" /\ submitted = {}

\* AssessmentInstructions: "Your answers are automatically saved every time you
\* make a change".  A timed submission that goes out when every answer on the
\* page is saved carries these answers.
TimedSubmissionIsTheSheet ==
    [][fired' # fired /\ stored = sheet =>
         \A m \in net' \ net : m.sheet = sheet]_takeVars
=============================================================================
