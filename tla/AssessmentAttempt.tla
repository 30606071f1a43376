--------------------------- MODULE AssessmentAttempt ---------------------------
(***************************************************************************)
(* The life of one user's attempt at one assessment, after its start: the  *)
(* handlers of AssessmentResultService that read the stored result, await  *)
(* other queries, and write parts of it back with findByIdAndUpdate.       *)
(*                                                                         *)
(* Each request slot runs one handler at a time.  A handler reads the      *)
(* document into seen, and every later write is an action of its own, so   *)
(* that the writes of other handlers fall in between.  What a request      *)
(* carries (a question, an answer, a verdict) is chosen when it is used.   *)
(*                                                                         *)
(* Abstraction: every question and every coding test is worth one mark, an *)
(* answer is "blank" or an option, and Right is the correct one.  Names,   *)
(* sections, durations and timeRemaining are left out, and so are bodies   *)
(* of createResult and updateResult that name another student or another   *)
(* assessment.                                                             *)
(***************************************************************************)
EXTENDS Integers, FiniteSets

CONSTANTS
    Req,           \* request slots: handlers that can be in flight at once
    Ops,           \* the handlers that an instance runs
    Question,      \* MCQ questions of the assessment
    Test,          \* coding questions of the assessment
    Option,        \* what a student can select
    Right,         \* the option that is correct
    PassMarks,     \* marks that reach passPercentage
    Duration,      \* duration of the assessment, in ticks
    Grace,         \* the 120 + 60 seconds submitAssessment adds to it
    EndDate,       \* endDate of the assessment
    Lead,          \* how far India is ahead of the server's time zone
    HandStart,     \* what an administrator may write by hand: start times,
    HandStatus,    \* statuses,
    HandMarks,     \* marks,
    HandWork,      \* and responses with their flags
    MaxTime,       \* bound: ticks
    MaxDocs,       \* bound: attempts created (one at a time)
    MaxCalls,      \* bound: requests
    NoDoc          \* no attempt is stored

Status == {"in_progress", "completed", "abandoned", "failed", "expired"}

Answer == Option \cup {"blank"}

Sheet == UNION {[Q -> Answer] : Q \in SUBSET Question}

\* marked: responses with isCorrect; solved, paid: coding questions with
\* isCorrect, and with marksObtained.
Work == [answers: Sheet, marked: SUBSET Question,
         solved: SUBSET Test, paid: SUBSET Test]

ASSUME AttemptAssumption ==
    /\ IsFiniteSet(Question) /\ IsFiniteSet(Test)
    /\ Right \in Option /\ "blank" \notin Option
    /\ PassMarks \in Nat
    /\ Duration \in Nat /\ Grace \in Nat /\ EndDate \in Nat
    /\ Lead \in Int
    /\ HandStart \subseteq 0..MaxTime /\ HandStatus \subseteq Status
    /\ HandMarks \subseteq Nat /\ HandWork \subseteq Work
    /\ MaxTime \in Nat /\ MaxDocs \in Nat /\ MaxCalls \in Nat

VARIABLES
    doc,       \* the stored attempt, or NoDoc
    docs,      \* number of attempts ever created, the id of the last
    now,       \* time
    pc,        \* where the handler of each slot is
    seen,      \* the document that it read
    calls,     \* requests received
    expected,  \* history: for each question, the answers its student may
               \* find stored, by what the server acknowledged
    byHand,    \* history: an administrator wrote the attempt since it was
               \* last graded
    rerun      \* history: coding questions run again since then

history == <<expected, byHand, rerun>>

attemptVars == <<doc, docs, now, pc, seen, calls, history>>

Doc == [id: 1..MaxDocs, start: 0..MaxTime, status: Status, answers: Sheet,
        marked: SUBSET Question, solved: SUBSET Test, paid: SUBSET Test,
        total: Nat]

ASSUME NoDocAssumption == NoDoc \notin Doc

Blank == [q \in Question |-> "blank"]

Empty == [q \in {} |-> "blank"]

Override(f, g) ==
    [q \in DOMAIN f \cup DOMAIN g |-> IF q \in DOMAIN g THEN g[q] ELSE f[q]]

Elapsed(d) == now - d.start

\* saveAnswer reads its clock in Indian time, and so it does the end date of
\* a document.  That of a cached copy is a string, which the same conversion
\* leaves alone, so that the clock is Lead ahead of it.
EndSeemsPast == \E ahead \in {0, Lead} : now + ahead >= EndDate

EndSeemsAhead == \E ahead \in {0, Lead} : now + ahead < EndDate

\* gradeAssessment, for questions of one mark each.
Correct(answers) == {q \in DOMAIN answers : answers[q] = Right}

Marks(answers, solved) == Cardinality(Correct(answers)) + Cardinality(solved)

\* Mutant: the pass mark itself does not pass.
VerdictStrict(marks) == IF marks > PassMarks THEN "completed" ELSE "failed"

Verdict(marks) == IF marks >= PassMarks THEN "completed" ELSE "failed"

AttemptInit ==
    /\ doc = NoDoc
    /\ docs = 0
    /\ now = 0
    /\ pc = [r \in Req |-> "idle"]
    /\ seen = [r \in Req |-> NoDoc]
    /\ calls = 0
    /\ expected = [q \in Question |-> {"blank"}]
    /\ byHand = FALSE
    /\ rerun = {}

-----------------------------------------------------------------------------
(* Parts shared by the handlers *)

\* A request arrives and its handler reads the attempt.
Read(r, op) ==
    /\ op \in Ops
    /\ pc[r] = "idle" /\ calls < MaxCalls
    /\ doc # NoDoc
    /\ pc' = [pc EXCEPT ![r] = op]
    /\ seen' = [seen EXCEPT ![r] = doc]
    /\ calls' = calls + 1
    /\ UNCHANGED <<doc, docs, now, history>>

\* The guard of the handlers of a running attempt.
ReadOpen(r, op) == Read(r, op) /\ doc.status = "in_progress"

Ends(r) ==
    /\ pc' = [pc EXCEPT ![r] = "idle"]
    /\ seen' = [seen EXCEPT ![r] = NoDoc]
    /\ UNCHANGED <<docs, now, calls>>

Continues(r, at) ==
    /\ pc' = [pc EXCEPT ![r] = at]
    /\ UNCHANGED <<docs, now, calls>>

\* findByIdAndUpdate on the attempt that r read: no filter on its status, and
\* nothing happens when the document is gone.
Stored(r) == doc # NoDoc /\ doc.id = seen[r].id

Write(r, new) == doc' = IF Stored(r) THEN new ELSE doc

\* A query of the handler fails, or it refuses the request: it throws.
Throw(r) ==
    /\ pc[r] # "idle"
    /\ Ends(r)
    /\ UNCHANGED <<doc, history>>

-----------------------------------------------------------------------------
(* startAssessment *)

\* startAssessment stores a blank response for each question.
Start ==
    /\ doc = NoDoc /\ docs < MaxDocs
    /\ docs' = docs + 1
    /\ doc' = [id |-> docs + 1, start |-> now, status |-> "in_progress",
               answers |-> Blank, marked |-> {}, solved |-> {}, paid |-> {},
               total |-> 0]
    /\ expected' = [q \in Question |-> {"blank"}]
    /\ byHand' = FALSE /\ rerun' = {}
    /\ UNCHANGED <<now, pc, seen, calls>>

-----------------------------------------------------------------------------
(* saveAnswer *)

SaveRead(r) == ReadOpen(r, "save")

\* Mutant: a status that the schema does not have.
SaveAfterEndClosed(r) ==
    /\ pc[r] = "save" /\ EndSeemsPast
    /\ Write(r, [doc EXCEPT !.status = "closed"])
    /\ Ends(r)
    /\ UNCHANGED history

\* The end date has passed, or seems to: the attempt is completed as it stands.
SaveAfterEnd(r) ==
    /\ pc[r] = "save" /\ EndSeemsPast
    /\ Write(r, [doc EXCEPT !.status = "completed"])
    /\ Ends(r)
    /\ UNCHANGED history

\* An attempt without responses first gets blank ones.
SaveInit(r) ==
    /\ pc[r] = "save" /\ EndSeemsAhead
    /\ seen[r].answers = Empty
    /\ Write(r, [doc EXCEPT !.answers = Blank, !.marked = {}])
    /\ seen' = [seen EXCEPT ![r].answers = Blank]
    /\ Continues(r, "saveInit")
    /\ UNCHANGED history

\* Mutant: the whole document is saved back, not its responses alone.
SaveWriteAll(r, q, a) ==
    /\ \/ pc[r] = "saveInit"
       \/ pc[r] = "save" /\ EndSeemsAhead /\ seen[r].answers # Empty
    /\ Write(r, [seen[r] EXCEPT !.answers = Override(seen[r].answers, [x \in {q} |-> a])])
    /\ expected' = IF Stored(r) THEN [expected EXCEPT ![q] = {a}] ELSE expected
    /\ UNCHANGED <<byHand, rerun>>
    /\ Ends(r)

\* The response to q changes in the array that was read, and the whole array
\* is written back.  The answer is acknowledged if the attempt is still there.
SaveWrite(r, q, a) ==
    /\ \/ pc[r] = "saveInit"
       \/ pc[r] = "save" /\ EndSeemsAhead /\ seen[r].answers # Empty
    /\ Write(r, [doc EXCEPT !.answers = Override(seen[r].answers, [x \in {q} |-> a]),
                            !.marked = seen[r].marked])
    /\ expected' = IF Stored(r) THEN [expected EXCEPT ![q] = {a}] ELSE expected
    /\ UNCHANGED <<byHand, rerun>>
    /\ Ends(r)

-----------------------------------------------------------------------------
(* clearAnswer *)

ClearRead(r) == ReadOpen(r, "clear")

ClearExpired(r) ==
    /\ pc[r] = "clear" /\ Elapsed(seen[r]) >= Duration
    /\ Write(r, [doc EXCEPT !.status = "failed"])
    /\ Ends(r)
    /\ UNCHANGED history

\* Blank responses are written, and then written once more with the answer to
\* the request.
ClearWrite(r) ==
    /\ pc[r] = "clear" /\ Elapsed(seen[r]) < Duration
    /\ Write(r, [doc EXCEPT !.answers = Blank, !.marked = {}])
    /\ expected' = IF Stored(r)
                     THEN [q \in Question |-> expected[q] \cup {"blank"}]
                     ELSE expected
    /\ Continues(r, "clearAgain")
    /\ UNCHANGED <<seen, byHand, rerun>>

ClearAgain(r) ==
    /\ pc[r] = "clearAgain"
    /\ Write(r, [doc EXCEPT !.answers = Blank, !.marked = {}])
    /\ expected' = IF Stored(r) THEN [q \in Question |-> {"blank"}] ELSE expected
    /\ UNCHANGED <<byHand, rerun>>
    /\ Ends(r)

-----------------------------------------------------------------------------
(* Grading: what submitAssessment and the recalculations write *)

Graded(answers, solved) ==
    LET marks == Marks(answers, solved)
    IN  [doc EXCEPT !.answers = answers, !.marked = Correct(answers),
                    !.solved = solved, !.paid = solved,
                    !.total = marks, !.status = Verdict(marks)]

\* The history of an attempt starts afresh when it is graded.
Regrades(r) ==
    /\ byHand' = (byHand /\ ~Stored(r))
    /\ rerun' = IF Stored(r) THEN {} ELSE rerun

-----------------------------------------------------------------------------
(* submitAssessment *)

SubmitRead(r) == ReadOpen(r, "submit")

SubmitExpired(r) ==
    /\ pc[r] = "submit" /\ Elapsed(seen[r]) >= Duration + Grace
    /\ Write(r, [doc EXCEPT !.status = "failed"])
    /\ Ends(r)
    /\ UNCHANGED history

\* In time: the questions are fetched and graded.
SubmitInTime(r) ==
    /\ pc[r] = "submit" /\ Elapsed(seen[r]) < Duration + Grace
    /\ Continues(r, "grading")
    /\ UNCHANGED <<doc, seen, history>>

\* Mutant: only the stored responses are graded.
SubmitWithoutMerge(r, sent) ==
    /\ pc[r] = "grading"
    /\ Write(r, Graded(seen[r].answers, seen[r].solved))
    /\ expected' = [q \in Question |->
                      IF q \in DOMAIN sent /\ Stored(r) THEN {sent[q]} ELSE expected[q]]
    /\ Regrades(r)
    /\ Ends(r)

\* The responses that were sent override those that were read; the outcome is
\* written whatever the status is by now.
SubmitWrite(r, sent) ==
    /\ pc[r] = "grading"
    /\ Write(r, Graded(Override(seen[r].answers, sent), seen[r].solved))
    /\ expected' = [q \in Question |->
                      IF q \in DOMAIN sent /\ Stored(r) THEN {sent[q]} ELSE expected[q]]
    /\ Regrades(r)
    /\ Ends(r)

-----------------------------------------------------------------------------
(* submitCodingSolution *)

\* No guard on the status.
SolveRead(r) == Read(r, "solve")

\* Mutant: a run keeps the marks that the last grading paid.
SolveWriteKeepsMarks(r, t, passed) ==
    /\ pc[r] = "solve"
    /\ Write(r, [doc EXCEPT !.solved = (seen[r].solved \ {t}) \cup {x \in {t} : passed}])
    /\ rerun' = IF Stored(r) THEN rerun \cup {t} ELSE rerun
    /\ Ends(r)
    /\ UNCHANGED <<expected, byHand>>

\* The solution has run.  Its entry replaces that of the test in the array
\* that was read, without marks until the next grading.
SolveWrite(r, t, passed) ==
    /\ pc[r] = "solve"
    /\ Write(r, [doc EXCEPT !.solved = (seen[r].solved \ {t}) \cup {x \in {t} : passed},
                            !.paid = seen[r].paid \ {t}])
    /\ rerun' = IF Stored(r) THEN rerun \cup {t} ELSE rerun
    /\ Ends(r)
    /\ UNCHANGED <<expected, byHand>>

-----------------------------------------------------------------------------
(* recalculateAssessmentScores and recalculateResultScores *)

RecalculateRead(r) == Read(r, "recalculate")

\* Mutant: the marks are updated and the status is kept.
RecalculateMarksOnly(r) ==
    /\ pc[r] = "recalculate"
    /\ Write(r, [Graded(seen[r].answers, seen[r].solved) EXCEPT !.status = doc.status])
    /\ Regrades(r)
    /\ Ends(r)
    /\ UNCHANGED expected

\* The status follows from the marks whatever it was.
RecalculateWrite(r) ==
    /\ pc[r] = "recalculate"
    /\ Write(r, Graded(seen[r].answers, seen[r].solved))
    /\ Regrades(r)
    /\ Ends(r)
    /\ UNCHANGED expected

-----------------------------------------------------------------------------
(* autoFailExpiredAssessments *)

AutoFailRead(r) == ReadOpen(r, "autoFail")

\* The assessment of a result of the snapshot has been fetched, and its time
\* is over: failed, with no marks, whatever its status is by now.
AutoFailWrite(r) ==
    /\ pc[r] = "autoFail" /\ Elapsed(seen[r]) > Duration
    /\ Write(r, [doc EXCEPT !.status = "failed", !.total = 0])
    /\ Ends(r)
    /\ UNCHANGED history

-----------------------------------------------------------------------------
(* getAssessmentsForUser *)

ListRead(r) == ReadOpen(r, "list")

\* A student who lists the assessments after the duration fails the attempt,
\* which keeps its marks.
ListWrite(r) ==
    /\ pc[r] = "list" /\ Elapsed(seen[r]) >= Duration
    /\ Write(r, [doc EXCEPT !.status = "failed"])
    /\ Ends(r)
    /\ UNCHANGED history

-----------------------------------------------------------------------------
(* What an administrator does to a stored result *)

WorkOf(d) == [answers |-> d.answers, marked |-> d.marked,
              solved |-> d.solved, paid |-> d.paid]

NoWork == [answers |-> Empty, marked |-> {}, solved |-> {}, paid |-> {}]

Handwritten(id, start, status, marks, work) ==
    [id |-> id, start |-> start, status |-> status, answers |-> work.answers,
     marked |-> work.marked, solved |-> work.solved, paid |-> work.paid,
     total |-> marks]

\* createResult stores what the request says, within the schema.
CreateResult ==
    /\ doc = NoDoc /\ docs < MaxDocs
    /\ docs' = docs + 1
    /\ \E start \in HandStart \cup {now}, status \in HandStatus \cup {"in_progress"},
          marks \in HandMarks \cup {0}, work \in HandWork \cup {NoWork} :
          /\ doc' = Handwritten(docs + 1, start, status, marks, work)
          /\ expected' = [q \in Question |-> {Override(Blank, work.answers)[q]}]
    /\ byHand' = TRUE /\ rerun' = {}
    /\ UNCHANGED <<now, pc, seen, calls>>

\* updateResult writes the fields that the request names.
UpdateResult ==
    /\ doc # NoDoc
    /\ \E start \in HandStart \cup {doc.start}, status \in HandStatus \cup {doc.status},
          marks \in HandMarks \cup {doc.total}, work \in HandWork \cup {WorkOf(doc)} :
          /\ doc' = Handwritten(doc.id, start, status, marks, work)
          /\ expected' = [q \in Question |->
                            expected[q] \cup {Override(Blank, work.answers)[q]}]
    /\ byHand' = TRUE
    /\ UNCHANGED <<docs, now, pc, seen, calls, rerun>>

\* deleteResult removes the result; softDeleteByUser hides it from every read.
DeleteResult ==
    /\ doc # NoDoc
    /\ doc' = NoDoc
    /\ UNCHANGED <<docs, now, pc, seen, calls, history>>

-----------------------------------------------------------------------------
Tick ==
    /\ now < MaxTime
    /\ now' = now + 1
    /\ UNCHANGED <<doc, docs, pc, seen, calls, history>>

\* The responses of a submission: none, or one for every question.
Sent == [Question -> Answer] \cup {Empty}

Reads(r) ==
    \/ SaveRead(r) \/ ClearRead(r) \/ SubmitRead(r)
    \/ SolveRead(r) \/ RecalculateRead(r) \/ AutoFailRead(r) \/ ListRead(r)

Acts(r) ==
    \/ SaveAfterEnd(r)
    \/ SaveInit(r)
    \/ \E q \in Question, a \in Answer : SaveWrite(r, q, a)
    \/ ClearExpired(r)
    \/ ClearWrite(r)
    \/ ClearAgain(r)
    \/ SubmitExpired(r)
    \/ SubmitInTime(r)
    \/ \E sent \in Sent : SubmitWrite(r, sent)
    \/ \E t \in Test, passed \in BOOLEAN : SolveWrite(r, t, passed)
    \/ RecalculateWrite(r)
    \/ AutoFailWrite(r)
    \/ ListWrite(r)
    \/ Throw(r)

AttemptNext ==
    \/ Start
    \/ \E r \in Req : Reads(r) \/ Acts(r)
    \/ CreateResult \/ UpdateResult \/ DeleteResult
    \/ Tick

AttemptSpec == AttemptInit /\ [][AttemptNext]_attemptVars

-----------------------------------------------------------------------------
(* Properties *)

\* Type invariant: a slot holds a document exactly while a handler runs.
AttemptTypeOK ==
    /\ doc \in Doc \cup {NoDoc}
    /\ docs \in 0..MaxDocs
    /\ now \in 0..MaxTime
    /\ pc \in [Req -> {"idle", "save", "saveInit", "clear", "clearAgain", "submit",
                       "grading", "solve", "recalculate", "autoFail", "list"}]
    /\ seen \in [Req -> Doc \cup {NoDoc}]
    /\ \A r \in Req : pc[r] = "idle" <=> seen[r] = NoDoc
    /\ calls \in 0..MaxCalls
    /\ expected \in [Question -> SUBSET Answer]
    /\ byHand \in BOOLEAN
    /\ rerun \subseteq Test

\* The end date has passed, or seems to if the copy is cached.
Over == now >= EndDate \/ now + Lead >= EndDate

\* However requests interleave, an attempt that nobody wrote by hand since it
\* was graded is completed only with marks that pass, or because of the end
\* date: after it, or as long before it as India is ahead of the server's time
\* zone (saveAnswer, on a cached copy).
CompletedIsEarned ==
    doc # NoDoc /\ ~byHand /\ doc.status = "completed"
        => doc.total >= PassMarks \/ Over

\* A finished attempt does not come back to life: no late write of a request
\* that read it while it was running reopens it, only an administrator does.
OnlyAdministratorsReopen ==
    [][(doc # NoDoc /\ doc.status # "in_progress" /\ doc' # NoDoc)
          => doc'.status # "in_progress" \/ UpdateResult]_attemptVars

\* Nothing has been graded yet.
Ungraded(d) == d.marked = {} /\ d.paid = {} /\ d.total = 0

\* The flags, the marks and the verdict are those of the answers and of the
\* coding questions solved, but for those run again since: they have lost
\* their marks, and still count in the total.
GradedAsAnswered(d) ==
    /\ d.marked = Correct(d.answers)
    /\ d.paid = d.solved \ rerun
    /\ d.total >= Cardinality(d.marked) + Cardinality(d.paid)
    /\ d.total <= Cardinality(d.marked) + Cardinality(d.paid) + Cardinality(rerun)
    /\ d.status = Verdict(d.total)

\* With one request at a time, an attempt that nobody wrote by hand since it
\* was graded has the marks, the flags and the verdict of its answers, or has
\* not been graded at all (gradeAssessment, submitCodingSolution).
GradesMatchAnswers ==
    doc # NoDoc /\ ~byHand => Ungraded(doc) \/ GradedAsAnswered(doc)

\* "to ensure all answers are captured": what is stored for a question is the
\* last answer the server acknowledged for it, or one an administrator wrote
\* since.  Holds for one request at a time, and not for two: the whole array
\* is read and written back.
AllAnswersCaptured ==
    doc # NoDoc /\ (\A r \in Req : pc[r] = "idle") =>
        \A q \in Question : Override(Blank, doc.answers)[q] \in expected[q]

\* The life of the attempt is the one AttemptLifecycle describes.
Lifecycle == INSTANCE AttemptLifecycle WITH
    MaxMarks <- Cardinality(Question) + Cardinality(Test),
    state <- IF doc = NoDoc THEN "none" ELSE doc.status,
    marks <- IF doc = NoDoc THEN 0 ELSE doc.total,
    touched <- doc # NoDoc /\ byHand,
    over <- Over

ImplementsLifecycle == Lifecycle!LifecycleSpec

=============================================================================
