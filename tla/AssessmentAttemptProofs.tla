------------------------ MODULE AssessmentAttemptProofs ------------------------
(* Theorems about AssessmentAttempt, for every value of its constants. *)
EXTENDS AssessmentAttempt, FiniteSetTheorems, TLAPS

AllMarks == Cardinality(Question) + Cardinality(Test)

-----------------------------------------------------------------------------
(* The operators the actions are built from *)

\* A graded attempt has at most one mark per question and per coding test.
LEMMA MarksBounded ==
    ASSUME NEW answers \in Sheet, NEW solved \in SUBSET Test
    PROVE  /\ Correct(answers) \in SUBSET Question
           /\ Marks(answers, solved) \in 0..AllMarks
<1>1. Correct(answers) \in SUBSET Question
    BY DEF Correct, Sheet
<1>2. /\ IsFiniteSet(Correct(answers))
      /\ Cardinality(Correct(answers)) <= Cardinality(Question)
    BY <1>1, FS_Subset, AttemptAssumption
<1>3. /\ IsFiniteSet(solved)
      /\ Cardinality(solved) <= Cardinality(Test)
    BY FS_Subset, AttemptAssumption
<1>4. /\ Cardinality(Correct(answers)) \in Nat /\ Cardinality(solved) \in Nat
      /\ Cardinality(Question) \in Nat /\ Cardinality(Test) \in Nat
    BY <1>2, <1>3, FS_CardinalityType, AttemptAssumption
<1>. QED
    BY <1>1, <1>2, <1>3, <1>4 DEF Marks, AllMarks

\* Overriding the responses of a sheet gives a sheet.
LEMMA OverrideSheet ==
    ASSUME NEW f \in Sheet, NEW g \in Sheet
    PROVE  Override(f, g) \in Sheet
<1>1. PICK F \in SUBSET Question : f \in [F -> Answer]
    BY DEF Sheet
<1>2. PICK G \in SUBSET Question : g \in [G -> Answer]
    BY DEF Sheet
<1>3. Override(f, g) \in [F \cup G -> Answer]
    BY <1>1, <1>2 DEF Override
<1>. QED
    BY <1>3 DEF Sheet

LEMMA SheetMembers ==
    /\ Blank \in Sheet /\ Empty \in Sheet
    /\ Sent \subseteq Sheet
    /\ \A q \in Question, a \in Answer : [x \in {q} |-> a] \in Sheet
<1>1. \A Q \in SUBSET Question : [Q -> Answer] \subseteq Sheet
    BY DEF Sheet
<1>2. Blank \in [Question -> Answer]
    BY DEF Blank, Answer
<1>3. Empty \in [{} -> Answer]
    BY DEF Empty
<1>4. Blank \in Sheet /\ Empty \in Sheet
    <2>1. Question \in SUBSET Question /\ {} \in SUBSET Question
        OBVIOUS
    <2>. QED
        BY <1>1, <1>2, <1>3, <2>1
<1>5. Sent \subseteq Sheet
    BY <1>1, <1>4 DEF Sent
<1>6. ASSUME NEW q \in Question, NEW a \in Answer
      PROVE  [x \in {q} |-> a] \in Sheet
    <2>1. [x \in {q} |-> a] \in [{q} -> Answer]
        OBVIOUS
    <2>2. {q} \in SUBSET Question
        OBVIOUS
    <2>. QED
        BY <1>1, <2>1, <2>2
<1>. QED
    BY <1>4, <1>5, <1>6

\* A graded document is a document, with a status that agrees with its marks.
LEMMA GradedDoc ==
    ASSUME doc \in Doc, NEW answers \in Sheet, NEW solved \in SUBSET Test
    PROVE  /\ Graded(answers, solved) \in Doc
           /\ Graded(answers, solved).id = doc.id
           /\ Graded(answers, solved).total \in 0..AllMarks
           /\ Graded(answers, solved).status
                = IF Graded(answers, solved).total >= PassMarks
                    THEN "completed" ELSE "failed"
<1>1. /\ Marks(answers, solved) \in Nat
      /\ Marks(answers, solved) \in 0..AllMarks
      /\ Correct(answers) \in SUBSET Question
    BY MarksBounded, FS_CardinalityType, AttemptAssumption DEF AllMarks
<1>2. Verdict(Marks(answers, solved)) \in Status
    BY DEF Verdict, Status
<1>. QED
    BY <1>1, <1>2 DEF Graded, Doc, Verdict

-----------------------------------------------------------------------------
(* Type correctness *)

\* The part of the type invariant that a handler's control state makes up.
ControlOK ==
    /\ docs \in 0..MaxDocs
    /\ now \in 0..MaxTime
    /\ pc \in [Req -> {"idle", "save", "saveInit", "clear", "clearAgain", "submit",
                       "grading", "solve", "recalculate", "autoFail", "list"}]
    /\ seen \in [Req -> Doc \cup {NoDoc}]
    /\ \A r \in Req : pc[r] = "idle" <=> seen[r] = NoDoc
    /\ calls \in 0..MaxCalls

\* The history.
HistoryOK ==
    /\ expected \in [Question -> SUBSET Answer]
    /\ byHand \in BOOLEAN
    /\ rerun \subseteq Test

\* The part that is stored, and the history.
StoreOK == doc \in Doc \cup {NoDoc} /\ HistoryOK

LEMMA TypeParts == AttemptTypeOK <=> ControlOK /\ StoreOK
    BY DEF AttemptTypeOK, ControlOK, StoreOK, HistoryOK

\* The end of a handler keeps the control state well typed, and so does a step
\* to a later point of one.
LEMMA EndsControl ==
    ASSUME ControlOK, NEW r \in Req, Ends(r)
    PROVE  ControlOK'
    BY DEF ControlOK, Ends

LEMMA ContinuesControl ==
    ASSUME ControlOK, NEW r \in Req, pc[r] # "idle", UNCHANGED seen,
           NEW at \in {"clearAgain", "grading"}, Continues(r, at)
    PROVE  ControlOK'
    BY DEF ControlOK, Continues

\* A handler that runs has read a document.
LEMMA SeenDoc ==
    ASSUME ControlOK, NEW r \in Req, pc[r] # "idle"
    PROVE  seen[r] \in Doc
    BY DEF ControlOK

\* A handler that reads the attempt.
LEMMA ReadType ==
    ASSUME AttemptTypeOK, NEW r \in Req,
           NEW op \in {"save", "clear", "submit", "solve", "recalculate", "autoFail",
                   "list"},
           Read(r, op)
    PROVE  AttemptTypeOK'
    BY NoDocAssumption, AttemptAssumption DEF AttemptTypeOK, Read, history

\* A write puts a document in the store when it is given one.
LEMMA WriteStore ==
    ASSUME StoreOK, NEW r \in Req, NEW new, Write(r, new),
           doc \in Doc => new \in Doc,
           HistoryOK'
    PROVE  StoreOK'
    BY DEF StoreOK, Write, Stored

\* What a step may do to the history.
LEMMA HistorySteps ==
    ASSUME StoreOK, NEW r \in Req
    PROVE  /\ UNCHANGED history => HistoryOK'
           /\ Regrades(r) /\ expected' \in [Question -> SUBSET Answer] => HistoryOK'
           /\ UNCHANGED <<byHand, rerun>> /\ expected' \in [Question -> SUBSET Answer]
                 => HistoryOK'
BY DEF StoreOK, HistoryOK, history, Regrades

\* What an administrator writes by hand is a document.
LEMMA HandwrittenDoc ==
    ASSUME NEW i \in 1..MaxDocs, NEW t \in 0..MaxTime, NEW s \in Status,
           NEW m \in Nat, NEW w \in Work
    PROVE  Handwritten(i, t, s, m, w) \in Doc
BY DEF Handwritten, Work, Doc

LEMMA WorkOfDoc ==
    ASSUME NEW d \in Doc
    PROVE  WorkOf(d) \in Work
BY DEF WorkOf, Work, Doc

LEMMA HandInputs ==
    /\ HandStart \subseteq 0..MaxTime
    /\ HandStatus \cup {"in_progress"} \subseteq Status
    /\ HandMarks \cup {0} \subseteq Nat
    /\ HandWork \cup {NoWork} \subseteq Work
BY AttemptAssumption, SheetMembers DEF Status, NoWork, Work

\* For each question, a sheet holds an answer or leaves it blank.
LEMMA FoundAnswer ==
    ASSUME NEW sheet \in Sheet, NEW q \in Question
    PROVE  Override(Blank, sheet)[q] \in Answer
BY DEF Override, Blank, Sheet, Answer

LEMMA FieldUpdates ==
    ASSUME doc \in Doc
    PROVE  /\ \A s \in Status : [doc EXCEPT !.status = s] \in Doc
           /\ [doc EXCEPT !.status = "failed", !.total = 0] \in Doc
           /\ [doc EXCEPT !.answers = Blank, !.marked = {}] \in Doc
           /\ \A d \in Doc, a \in Sheet :
                 [doc EXCEPT !.answers = a, !.marked = d.marked] \in Doc
           /\ \A S, P \in SUBSET Test :
                 [doc EXCEPT !.solved = S, !.paid = P] \in Doc
    BY SheetMembers DEF Doc, Status

\* Both ways of writing by hand leave a document, and answers to be found.
LEMMA HandEffect ==
    ASSUME ControlOK, StoreOK, CreateResult \/ UpdateResult
    PROVE  /\ doc' \in Doc /\ docs' \in 0..MaxDocs
           /\ expected' \in [Question -> SUBSET Answer]
<1>1. CASE CreateResult
    <2>1. PICK start \in HandStart \cup {now}, status \in HandStatus \cup {"in_progress"},
               marks \in HandMarks \cup {0}, work \in HandWork \cup {NoWork} :
             /\ doc' = Handwritten(docs + 1, start, status, marks, work)
             /\ expected' = [q \in Question |-> {Override(Blank, work.answers)[q]}]
        BY <1>1 DEF CreateResult
    <2>2. /\ start \in 0..MaxTime /\ status \in Status
          /\ marks \in Nat /\ work \in Work
        BY HandInputs DEF ControlOK
    <2>3. docs + 1 \in 1..MaxDocs /\ docs' = docs + 1
        BY <1>1, AttemptAssumption DEF CreateResult, ControlOK
    <2>4. doc' \in Doc
        BY <2>1, <2>2, <2>3, HandwrittenDoc
    <2>5. expected' \in [Question -> SUBSET Answer]
        BY <2>1, <2>2, FoundAnswer DEF Work
    <2>. QED
        BY <2>3, <2>4, <2>5, AttemptAssumption
<1>2. CASE UpdateResult
    <2>1. PICK start \in HandStart \cup {doc.start}, status \in HandStatus \cup {doc.status},
               marks \in HandMarks \cup {doc.total}, work \in HandWork \cup {WorkOf(doc)} :
             /\ doc' = Handwritten(doc.id, start, status, marks, work)
             /\ expected' = [q \in Question |->
                              expected[q] \cup {Override(Blank, work.answers)[q]}]
        BY <1>2 DEF UpdateResult
    <2>2. doc \in Doc
        BY <1>2 DEF UpdateResult, StoreOK
    <2>3. /\ start \in 0..MaxTime /\ status \in Status
          /\ marks \in Nat /\ work \in Work /\ doc.id \in 1..MaxDocs
        BY <2>2, HandInputs, WorkOfDoc DEF Doc
    <2>4. doc' \in Doc
        BY <2>1, <2>3, HandwrittenDoc
    <2>5. \A q \in Question : Override(Blank, work.answers)[q] \in Answer
        BY <2>3, FoundAnswer DEF Work
    <2>6. expected' \in [Question -> SUBSET Answer]
        BY <2>1, <2>5 DEF StoreOK, HistoryOK
    <2>. QED
        BY <1>2, <2>4, <2>6 DEF UpdateResult, ControlOK
<1>. QED
    BY <1>1, <1>2

\* The state of the model is well typed, for any number of requests, questions
\* and attempts.
THEOREM AttemptTypeCorrect == AttemptSpec => []AttemptTypeOK
<1>1. ASSUME AttemptInit PROVE AttemptTypeOK
    <2>1. ControlOK
        BY <1>1, AttemptAssumption, NoDocAssumption DEF AttemptInit, ControlOK
    <2>2. StoreOK
        BY <1>1 DEF AttemptInit, StoreOK, HistoryOK, Answer
    <2>. QED
        BY <2>1, <2>2, TypeParts
<1>2. ASSUME AttemptTypeOK, [AttemptNext]_attemptVars
      PROVE  AttemptTypeOK'
    <2>a. ControlOK /\ StoreOK
        BY <1>2, TypeParts
    <2>b. SUFFICES ControlOK' /\ StoreOK'
        BY DEF AttemptTypeOK, ControlOK, StoreOK, HistoryOK
    <2>1. CASE Start
        <3>1. doc' \in Doc
            BY <2>a, <2>1, SheetMembers, AttemptAssumption DEF Start, Doc, Status, ControlOK
        <3>2. HistoryOK'
            BY <2>1 DEF Start, Answer, HistoryOK
        <3>. QED
            BY <2>a, <2>1, <3>1, <3>2, AttemptAssumption DEF Start, ControlOK, StoreOK
    <2>2. ASSUME NEW r \in Req, Reads(r)
          PROVE  ControlOK' /\ StoreOK'
        <3>1. AttemptTypeOK'
            BY <1>2, <2>2, ReadType
               DEF Reads, SaveRead, ClearRead, SubmitRead, SolveRead,
                   RecalculateRead, AutoFailRead, ListRead, ReadOpen
        <3>. QED
            BY <3>1 DEF AttemptTypeOK, ControlOK, StoreOK, HistoryOK
    <2>3. ASSUME NEW r \in Req, Acts(r)
          PROVE  ControlOK' /\ StoreOK'
        <3>1. CASE SaveAfterEnd(r)
            <4>1. HistoryOK'
                BY <2>a, <3>1, HistorySteps DEF SaveAfterEnd
            <4>2. doc \in Doc => [doc EXCEPT !.status = "completed"] \in Doc
                BY FieldUpdates DEF Status
            <4>. QED
                BY <2>a, <3>1, <4>1, <4>2, EndsControl, WriteStore DEF SaveAfterEnd
        <3>2. CASE SaveInit(r)
            <4>1. HistoryOK'
                BY <2>a, <3>2, HistorySteps DEF SaveInit
            <4>2. doc \in Doc => [doc EXCEPT !.answers = Blank, !.marked = {}] \in Doc
                BY FieldUpdates
            <4>3. StoreOK'
                BY <2>a, <3>2, <4>1, <4>2, WriteStore DEF SaveInit
            <4>4. /\ seen[r] \in Doc
                  /\ [seen[r] EXCEPT !.answers = Blank] \in Doc
                BY <2>a, <3>2, SeenDoc, SheetMembers DEF SaveInit, Doc
            <4>5. seen' = [seen EXCEPT ![r] = [seen[r] EXCEPT !.answers = Blank]]
                BY <3>2 DEF SaveInit
            <4>6. ControlOK'
                BY <2>a, <3>2, <4>4, <4>5, NoDocAssumption
                   DEF ControlOK, SaveInit, Continues
            <4>. QED
                BY <4>3, <4>6
        <3>3. ASSUME NEW q \in Question, NEW a \in Answer, SaveWrite(r, q, a)
              PROVE  ControlOK' /\ StoreOK'
            <4>1. HistoryOK'
                <5>1. expected' \in [Question -> SUBSET Answer]
                    BY <2>a, <3>3 DEF SaveWrite, StoreOK, HistoryOK
                <5>. QED
                    BY <2>a, <3>3, <5>1, HistorySteps DEF SaveWrite
            <4>2. seen[r] \in Doc
                BY <2>a, <3>3, SeenDoc DEF SaveWrite
            <4>3. Override(seen[r].answers, [x \in {q} |-> a]) \in Sheet
                BY <4>2, OverrideSheet, SheetMembers DEF Doc
            <4>. DEFINE new == [doc EXCEPT
                    !.answers = Override(seen[r].answers, [x \in {q} |-> a]),
                    !.marked = seen[r].marked]
            <4>4. doc \in Doc => new \in Doc
                BY <4>2, <4>3, FieldUpdates
            <4>5. Write(r, new) /\ Ends(r)
                BY <3>3 DEF SaveWrite
            <4>. QED
                BY <2>a, <4>1, <4>4, <4>5, EndsControl, WriteStore
        <3>4. CASE ClearExpired(r) \/ SubmitExpired(r) \/ ListWrite(r)
            <4>1. HistoryOK'
                BY <2>a, <3>4, HistorySteps DEF ClearExpired, SubmitExpired, ListWrite
            <4>2. doc \in Doc => [doc EXCEPT !.status = "failed"] \in Doc
                BY FieldUpdates DEF Status
            <4>. QED
                BY <2>a, <3>4, <4>1, <4>2, EndsControl, WriteStore
                   DEF ClearExpired, SubmitExpired, ListWrite
        <3>5. CASE ClearWrite(r) \/ ClearAgain(r)
            <4>1. HistoryOK'
                <5>1. expected' \in [Question -> SUBSET Answer]
                    BY <2>a, <3>5 DEF ClearWrite, ClearAgain, StoreOK, HistoryOK, Answer
                <5>. QED
                    BY <2>a, <3>5, <5>1, HistorySteps DEF ClearWrite, ClearAgain
            <4>2. doc \in Doc => [doc EXCEPT !.answers = Blank, !.marked = {}] \in Doc
                BY FieldUpdates
            <4>3. StoreOK'
                BY <2>a, <3>5, <4>1, <4>2, WriteStore DEF ClearWrite, ClearAgain
            <4>4. ControlOK'
                BY <2>a, <3>5, EndsControl, ContinuesControl DEF ClearWrite, ClearAgain
            <4>. QED
                BY <4>3, <4>4
        <3>6. CASE SubmitInTime(r)
            BY <2>a, <3>6, ContinuesControl, HistorySteps DEF SubmitInTime, StoreOK
        <3>7. ASSUME NEW sent \in Sent, SubmitWrite(r, sent)
              PROVE  ControlOK' /\ StoreOK'
            <4>1. seen[r] \in Doc /\ sent \in Sheet
                BY <2>a, <3>7, SeenDoc, SheetMembers DEF SubmitWrite
            <4>2. HistoryOK'
                <5>1. \A q \in DOMAIN sent : sent[q] \in Answer
                    BY <4>1 DEF Sheet
                <5>2. expected' \in [Question -> SUBSET Answer]
                    BY <2>a, <3>7, <5>1 DEF SubmitWrite, StoreOK, HistoryOK
                <5>. QED
                    BY <2>a, <3>7, <5>2, HistorySteps DEF SubmitWrite
            <4>3. /\ Override(seen[r].answers, sent) \in Sheet
                  /\ seen[r].solved \in SUBSET Test
                BY <4>1, OverrideSheet DEF Doc
            <4>4. doc \in Doc
                    => Graded(Override(seen[r].answers, sent), seen[r].solved) \in Doc
                BY <4>3, GradedDoc
            <4>5. /\ Write(r, Graded(Override(seen[r].answers, sent), seen[r].solved))
                  /\ Ends(r)
                BY <3>7 DEF SubmitWrite
            <4>. QED
                BY <2>a, <4>2, <4>4, <4>5, EndsControl, WriteStore
        <3>8. ASSUME NEW t \in Test, NEW passed \in BOOLEAN, SolveWrite(r, t, passed)
              PROVE  ControlOK' /\ StoreOK'
            <4>1. seen[r] \in Doc
                BY <2>a, <3>8, SeenDoc DEF SolveWrite
            <4>. DEFINE S == (seen[r].solved \ {t}) \cup {x \in {t} : passed}
                        P == seen[r].paid \ {t}
            <4>2. S \in SUBSET Test /\ P \in SUBSET Test
                BY <4>1 DEF Doc
            <4>3. doc \in Doc => [doc EXCEPT !.solved = S, !.paid = P] \in Doc
                BY <4>2, FieldUpdates
            <4>4. HistoryOK'
                BY <2>a, <3>8 DEF SolveWrite, StoreOK, HistoryOK
            <4>5. Write(r, [doc EXCEPT !.solved = S, !.paid = P]) /\ Ends(r)
                BY <3>8 DEF SolveWrite
            <4>. QED
                BY <2>a, <4>3, <4>4, <4>5, EndsControl, WriteStore
        <3>9. CASE RecalculateWrite(r)
            <4>1. /\ seen[r].answers \in Sheet
                  /\ seen[r].solved \in SUBSET Test
                BY <2>a, <3>9, SeenDoc DEF RecalculateWrite, Doc
            <4>2. doc \in Doc => Graded(seen[r].answers, seen[r].solved) \in Doc
                BY <4>1, GradedDoc
            <4>3. HistoryOK'
                BY <2>a, <3>9, HistorySteps DEF RecalculateWrite, StoreOK, HistoryOK
            <4>. QED
                BY <2>a, <3>9, <4>2, <4>3, EndsControl, WriteStore DEF RecalculateWrite
        <3>10. CASE AutoFailWrite(r)
            <4>1. HistoryOK'
                BY <2>a, <3>10, HistorySteps DEF AutoFailWrite
            <4>2. doc \in Doc
                    => [doc EXCEPT !.status = "failed", !.total = 0] \in Doc
                BY FieldUpdates
            <4>. QED
                BY <2>a, <3>10, <4>1, <4>2, EndsControl, WriteStore DEF AutoFailWrite
        <3>11. CASE Throw(r)
            BY <2>a, <3>11, EndsControl, HistorySteps DEF Throw, StoreOK
        <3>. QED
            BY <2>3, <3>1, <3>2, <3>3, <3>4, <3>5, <3>6, <3>7, <3>8, <3>9, <3>10, <3>11
               DEF Acts
    <2>4. CASE CreateResult
        <3>1. doc' \in Doc /\ expected' \in [Question -> SUBSET Answer] /\ docs' \in 0..MaxDocs
            BY <2>a, <2>4, HandEffect
        <3>. QED
            BY <2>a, <2>4, <3>1 DEF CreateResult, ControlOK, StoreOK, HistoryOK
    <2>5. CASE UpdateResult
        <3>1. doc' \in Doc /\ expected' \in [Question -> SUBSET Answer]
            BY <2>a, <2>5, HandEffect
        <3>. QED
            BY <2>a, <2>5, <3>1 DEF UpdateResult, ControlOK, StoreOK, HistoryOK
    <2>6. CASE DeleteResult
        BY <2>a, <2>6 DEF DeleteResult, ControlOK, StoreOK, HistoryOK, history
    <2>7. CASE Tick
        BY <2>a, <2>7, AttemptAssumption DEF Tick, ControlOK, StoreOK, HistoryOK, history
    <2>8. CASE UNCHANGED attemptVars
        BY <2>a, <2>8 DEF attemptVars, ControlOK, StoreOK, HistoryOK, history
    <2>. QED
        BY <1>2, <2>1, <2>2, <2>3, <2>4, <2>5, <2>6, <2>7, <2>8 DEF AttemptNext
<1>. QED
    BY <1>1, <1>2, PTL DEF AttemptSpec

-----------------------------------------------------------------------------
(* What a step does to the stored attempt *)

\* The steps of AttemptLifecycle, said of the stored document.
Opens ==
    /\ doc = NoDoc /\ doc' # NoDoc
    /\ doc'.status = "in_progress" /\ doc'.total = 0
    /\ byHand' = FALSE

Kept == doc # NoDoc /\ doc' # NoDoc

GetsGraded ==
    /\ Kept
    /\ doc'.total \in 0..AllMarks
    /\ doc'.status = IF doc'.total >= PassMarks THEN "completed" ELSE "failed"
    /\ byHand' = FALSE

Lapses ==
    /\ Kept
    /\ doc'.status = "failed" /\ doc'.total \in {doc.total, 0}
    /\ byHand' = byHand

Expires ==
    /\ Kept /\ Over
    /\ doc'.status = "completed" /\ doc'.total = doc.total
    /\ byHand' = byHand

Edits ==
    /\ Kept
    /\ doc'.status = doc.status /\ doc'.total = doc.total
    /\ byHand' = byHand

SetsByHand ==
    /\ UpdateResult \/ (CreateResult /\ doc = NoDoc)
    /\ doc' # NoDoc /\ doc'.status \in Status /\ doc'.total \in Nat
    /\ byHand' = TRUE

Removes == doc # NoDoc /\ doc' = NoDoc

Stays == doc' = doc /\ byHand' = byHand

DocStep ==
    \/ Opens \/ GetsGraded \/ Lapses \/ Expires
    \/ Edits \/ SetsByHand \/ Removes \/ Stays

\* A write hits the attempt that was read, or changes nothing.
LEMMA HitOrMiss ==
    ASSUME AttemptTypeOK, NEW r \in Req, NEW new, Write(r, new)
    PROVE  \/ Stored(r) /\ doc \in Doc /\ doc' = new
           \/ ~Stored(r) /\ doc' = doc
BY DEF AttemptTypeOK, Write, Stored

\* A write either misses, or changes a document that stays one.
LEMMA WriteCases ==
    ASSUME AttemptTypeOK, NEW r \in Req, NEW new, Write(r, new),
           doc \in Doc => new \in Doc
    PROVE  \/ ~Stored(r) /\ doc' = doc
           \/ Stored(r) /\ doc \in Doc /\ doc' = new /\ Kept
    BY HitOrMiss, NoDocAssumption DEF Kept

\* Every step changes the stored attempt as one of the steps above, and only a
\* tick changes the time.
LEMMA StepEffect ==
    ASSUME AttemptTypeOK, AttemptNext
    PROVE  DocStep /\ (now' = now \/ (now' = now + 1 /\ Stays))
<1>a. ControlOK /\ StoreOK
    BY TypeParts
<1>1. CASE Start
    <2>1. doc' \in Doc
        BY <1>a, <1>1, SheetMembers, AttemptAssumption DEF Start, Doc, Status, ControlOK
    <2>. QED
        BY <1>1, <2>1, NoDocAssumption DEF Start, DocStep, Opens
<1>2. ASSUME NEW r \in Req, Reads(r)
      PROVE  Stays /\ now' = now
    BY <1>2 DEF Reads, SaveRead, ClearRead, SubmitRead, SolveRead, RecalculateRead,
                AutoFailRead, ListRead, ReadOpen, Read, Stays, history
<1>3. ASSUME NEW r \in Req, Acts(r)
      PROVE  DocStep /\ now' = now
    <2>1. CASE SaveAfterEnd(r)
        <3>1. doc \in Doc => [doc EXCEPT !.status = "completed"] \in Doc
            BY FieldUpdates DEF Status
        <3>2. \/ doc' = doc
              \/ doc \in Doc /\ doc' = [doc EXCEPT !.status = "completed"] /\ Kept
            BY <2>1, <3>1, WriteCases DEF SaveAfterEnd
        <3>3. Over /\ byHand' = byHand
            BY <2>1, AttemptAssumption DEF SaveAfterEnd, EndSeemsPast, Over, history,
                                            AttemptTypeOK
        <3>4. DocStep
            BY <3>2, <3>3 DEF DocStep, Stays, Expires, Doc
        <3>. QED
            BY <2>1, <3>4 DEF SaveAfterEnd, Ends
    <2>2. CASE SaveInit(r) \/ ClearWrite(r) \/ ClearAgain(r)
        <3>1. doc \in Doc => [doc EXCEPT !.answers = Blank, !.marked = {}] \in Doc
            BY FieldUpdates
        <3>2. \/ doc' = doc
              \/ /\ doc \in Doc /\ Kept
                 /\ doc' = [doc EXCEPT !.answers = Blank, !.marked = {}]
            BY <2>2, <3>1, WriteCases DEF SaveInit, ClearWrite, ClearAgain
        <3>3. byHand' = byHand
            BY <2>2 DEF SaveInit, ClearWrite, ClearAgain, history
        <3>4. DocStep
            BY <3>2, <3>3 DEF DocStep, Stays, Edits, Doc
        <3>. QED
            BY <2>2, <3>4 DEF SaveInit, ClearWrite, ClearAgain, Ends, Continues
    <2>3. ASSUME NEW q \in Question, NEW a \in Answer, SaveWrite(r, q, a)
          PROVE  DocStep /\ now' = now
        <3>1. seen[r] \in Doc
            BY <1>a, <2>3, SeenDoc DEF SaveWrite
        <3>2. Override(seen[r].answers, [x \in {q} |-> a]) \in Sheet
            BY <3>1, OverrideSheet, SheetMembers DEF Doc
        <3>. DEFINE new == [doc EXCEPT
                !.answers = Override(seen[r].answers, [x \in {q} |-> a]),
                !.marked = seen[r].marked]
        <3>3. doc \in Doc => new \in Doc
            BY <3>1, <3>2, FieldUpdates
        <3>4. Write(r, new) /\ byHand' = byHand
            BY <2>3 DEF SaveWrite
        <3>5. doc' = doc \/ (doc \in Doc /\ doc' = new /\ Kept)
            BY <3>3, <3>4, WriteCases
        <3>6. DocStep
            BY <3>4, <3>5 DEF DocStep, Stays, Edits, Doc
        <3>. QED
            BY <2>3, <3>6 DEF SaveWrite, Ends
    <2>4. CASE ClearExpired(r) \/ SubmitExpired(r) \/ ListWrite(r)
        <3>1. doc \in Doc => [doc EXCEPT !.status = "failed"] \in Doc
            BY FieldUpdates DEF Status
        <3>2. \/ doc' = doc
              \/ doc \in Doc /\ doc' = [doc EXCEPT !.status = "failed"] /\ Kept
            BY <2>4, <3>1, WriteCases DEF ClearExpired, SubmitExpired, ListWrite
        <3>3. byHand' = byHand
            BY <2>4 DEF ClearExpired, SubmitExpired, ListWrite, history
        <3>4. DocStep
            BY <3>2, <3>3 DEF DocStep, Stays, Lapses, Doc
        <3>. QED
            BY <2>4, <3>4 DEF ClearExpired, SubmitExpired, ListWrite, Ends
    <2>5. CASE SubmitInTime(r)
        BY <2>5 DEF SubmitInTime, Continues, DocStep, Stays, history
    <2>6. ASSUME NEW answers \in Sheet, NEW solved \in SUBSET Test,
                 Write(r, Graded(answers, solved)), Regrades(r), now' = now
          PROVE  DocStep /\ now' = now
        <3>1. doc \in Doc => Graded(answers, solved) \in Doc
            BY GradedDoc
        <3>2. CASE ~Stored(r) /\ doc' = doc
            BY <1>a, <2>6, <3>2 DEF DocStep, Stays, Regrades, StoreOK, HistoryOK
        <3>3. CASE Stored(r) /\ doc \in Doc /\ doc' = Graded(answers, solved) /\ Kept
            <4>1. byHand' = FALSE
                BY <2>6, <3>3 DEF Regrades
            <4>. QED
                BY <2>6, <3>3, <4>1, GradedDoc DEF DocStep, GetsGraded
        <3>. QED
            BY <2>6, <3>1, <3>2, <3>3, WriteCases
    <2>7. ASSUME NEW sent \in Sent, SubmitWrite(r, sent)
          PROVE  DocStep /\ now' = now
        <3>1. seen[r] \in Doc /\ sent \in Sheet
            BY <1>a, <2>7, SeenDoc, SheetMembers DEF SubmitWrite
        <3>2. /\ Override(seen[r].answers, sent) \in Sheet
              /\ seen[r].solved \in SUBSET Test
            BY <3>1, OverrideSheet DEF Doc
        <3>3. /\ Write(r, Graded(Override(seen[r].answers, sent), seen[r].solved))
              /\ Regrades(r) /\ now' = now
            BY <2>7 DEF SubmitWrite, Ends
        <3>. QED
            BY <2>6, <3>2, <3>3
    <2>8. CASE RecalculateWrite(r)
        <3>1. seen[r].answers \in Sheet /\ seen[r].solved \in SUBSET Test
            BY <1>a, <2>8, SeenDoc DEF RecalculateWrite, Doc
        <3>2. /\ Write(r, Graded(seen[r].answers, seen[r].solved))
              /\ Regrades(r) /\ now' = now
            BY <2>8 DEF RecalculateWrite, Ends
        <3>. QED
            BY <2>6, <3>1, <3>2
    <2>9. ASSUME NEW t \in Test, NEW passed \in BOOLEAN, SolveWrite(r, t, passed)
          PROVE  DocStep /\ now' = now
        <3>1. seen[r] \in Doc
            BY <1>a, <2>9, SeenDoc DEF SolveWrite
        <3>. DEFINE S == (seen[r].solved \ {t}) \cup {x \in {t} : passed}
                    P == seen[r].paid \ {t}
        <3>2. S \in SUBSET Test /\ P \in SUBSET Test
            BY <3>1 DEF Doc
        <3>3. doc \in Doc => [doc EXCEPT !.solved = S, !.paid = P] \in Doc
            BY <3>2, FieldUpdates
        <3>4. Write(r, [doc EXCEPT !.solved = S, !.paid = P]) /\ byHand' = byHand
            BY <2>9 DEF SolveWrite
        <3>5. \/ doc' = doc
              \/ doc \in Doc /\ doc' = [doc EXCEPT !.solved = S, !.paid = P] /\ Kept
            BY <3>3, <3>4, WriteCases
        <3>6. DocStep
            BY <3>4, <3>5 DEF DocStep, Stays, Edits, Doc
        <3>. QED
            BY <2>9, <3>6 DEF SolveWrite, Ends
    <2>10. CASE AutoFailWrite(r)
        <3>1. doc \in Doc => [doc EXCEPT !.status = "failed", !.total = 0] \in Doc
            BY FieldUpdates
        <3>2. \/ doc' = doc
              \/ /\ doc \in Doc /\ Kept
                 /\ doc' = [doc EXCEPT !.status = "failed", !.total = 0]
            BY <2>10, <3>1, WriteCases DEF AutoFailWrite
        <3>3. byHand' = byHand
            BY <2>10 DEF AutoFailWrite, history
        <3>4. DocStep
            BY <3>2, <3>3 DEF DocStep, Stays, Lapses, Doc
        <3>. QED
            BY <2>10, <3>4 DEF AutoFailWrite, Ends
    <2>11. CASE Throw(r)
        BY <2>11 DEF Throw, Ends, DocStep, Stays, history
    <2>. QED
        BY <1>3, <2>1, <2>2, <2>3, <2>4, <2>5, <2>7, <2>8, <2>9, <2>10, <2>11 DEF Acts
<1>4. CASE CreateResult \/ UpdateResult
    <2>1. /\ doc' \in Doc /\ now' = now /\ byHand' = TRUE
          /\ CreateResult => doc = NoDoc
        BY <1>a, <1>4, HandEffect DEF CreateResult, UpdateResult
    <2>2. doc' # NoDoc /\ doc'.status \in Status /\ doc'.total \in Nat
        BY <2>1, NoDocAssumption DEF Doc
    <2>. QED
        BY <1>4, <2>1, <2>2 DEF SetsByHand, DocStep
<1>5. CASE DeleteResult
    BY <1>5 DEF DeleteResult, DocStep, Removes
<1>6. CASE Tick
    BY <1>6 DEF Tick, DocStep, Stays, history
<1>. QED
    BY <1>1, <1>2, <1>3, <1>4, <1>5, <1>6 DEF AttemptNext, Start, DocStep

-----------------------------------------------------------------------------
(* The promises of the service *)

\* An attempt that nobody wrote by hand since it was graded is completed only
\* with marks that pass or because of the end date, however requests
\* interleave, wherever the server stands and whatever is written by hand.
THEOREM EarnedCompletion == AttemptSpec => []CompletedIsEarned
<1>1. AttemptInit => CompletedIsEarned
    BY DEF AttemptInit, CompletedIsEarned
<1>2. ASSUME AttemptTypeOK, CompletedIsEarned, [AttemptNext]_attemptVars
      PROVE  CompletedIsEarned'
    <2>1. CASE AttemptNext
        <3>1. DocStep /\ (now' = now \/ (now' = now + 1 /\ Stays))
            BY <1>2, <2>1, StepEffect
        <3>2. Over => Over'
            BY <1>2, <3>1, AttemptAssumption DEF AttemptTypeOK, Over
        <3>3. CASE Opens \/ Lapses \/ Removes \/ SetsByHand
            BY <3>3 DEF Opens, Lapses, Removes, SetsByHand, CompletedIsEarned
        <3>4. CASE GetsGraded
            BY <3>4 DEF GetsGraded, CompletedIsEarned
        <3>5. CASE Expires
            BY <3>2, <3>5 DEF Expires, CompletedIsEarned
        <3>6. CASE Edits \/ Stays
            BY <1>2, <3>2, <3>6 DEF Edits, Stays, Kept, CompletedIsEarned
        <3>. QED
            BY <3>1, <3>3, <3>4, <3>5, <3>6 DEF DocStep
    <2>2. CASE UNCHANGED attemptVars
        BY <1>2, <2>2 DEF attemptVars, history, CompletedIsEarned, Over
    <2>. QED
        BY <1>2, <2>1, <2>2
<1>. QED
    BY <1>1, <1>2, AttemptTypeCorrect, PTL DEF AttemptSpec

\* No late write of a request reopens a finished attempt.
THEOREM FinishedStaysFinished == AttemptSpec => OnlyAdministratorsReopen
<1>1. ASSUME AttemptTypeOK, [AttemptNext]_attemptVars,
             doc # NoDoc, doc.status # "in_progress", doc' # NoDoc
      PROVE  doc'.status # "in_progress" \/ UpdateResult
    <2>1. CASE AttemptNext
        <3>1. DocStep
            BY <1>1, <2>1, StepEffect
        <3>. QED
            BY <1>1, <3>1 DEF DocStep, Opens, GetsGraded, Lapses, Expires, Edits,
                              SetsByHand, Removes, Stays
    <2>2. CASE UNCHANGED attemptVars
        BY <1>1, <2>2 DEF attemptVars
    <2>. QED
        BY <1>1, <2>1, <2>2
<1>. QED
    BY <1>1, AttemptTypeCorrect, PTL DEF AttemptSpec, OnlyAdministratorsReopen

-----------------------------------------------------------------------------
(* Refinement *)

LEMMA LifecycleStep ==
    ASSUME AttemptTypeOK, AttemptNext
    PROVE  [Lifecycle!LifecycleNext]_(Lifecycle!lifecycleVars)
<1>1. DocStep /\ (now' = now \/ (now' = now + 1 /\ Stays))
    BY StepEffect
<1>2. now \in Nat /\ EndDate \in Nat /\ Lead \in Int
    BY AttemptAssumption DEF AttemptTypeOK
<1>3. /\ doc # NoDoc => doc.status \in Status
      /\ byHand \in BOOLEAN
    BY DEF AttemptTypeOK, Doc
<1>4. CASE Stays
    <2>1. CASE Over' = Over
        BY <1>4, <2>1 DEF Stays, Lifecycle!lifecycleVars
    <2>2. CASE Over' # Over
        <3>1. Over' = TRUE
            BY <1>1, <1>2, <2>2 DEF Over
        <3>. QED
            BY <1>4, <3>1 DEF Stays, Lifecycle!LifecycleNext, Lifecycle!EndDatePasses
    <2>. QED
        BY <2>1, <2>2
<1>5. CASE ~Stays /\ now' = now
    <2>a. Over' = Over
        BY <1>5 DEF Over
    <2>1. CASE Opens
        BY <2>a, <2>1 DEF Opens, Lifecycle!LifecycleNext, Lifecycle!Start,
                          Lifecycle!Started
    <2>2. CASE GetsGraded
        BY <1>3, <2>a, <2>2
           DEF GetsGraded, Kept, Status, AllMarks, Lifecycle!LifecycleNext,
               Lifecycle!GradeAttempt, Lifecycle!Started
    <2>3. CASE Lapses
        BY <1>3, <2>a, <2>3
           DEF Lapses, Kept, Status, Lifecycle!LifecycleNext, Lifecycle!Lapse,
               Lifecycle!Started
    <2>4. CASE Expires
        BY <1>3, <2>a, <2>4
           DEF Expires, Kept, Status, Lifecycle!LifecycleNext,
               Lifecycle!CloseAtEnd, Lifecycle!Started
    <2>5. CASE Edits
        BY <2>a, <2>5 DEF Edits, Kept, Lifecycle!lifecycleVars
    <2>6. CASE SetsByHand
        BY <2>a, <2>6 DEF SetsByHand, Status, Lifecycle!LifecycleNext, Lifecycle!SetByHand
    <2>7. CASE Removes
        BY <1>3, <2>a, <2>7
           DEF Removes, Status, Lifecycle!LifecycleNext, Lifecycle!Remove,
               Lifecycle!Started
    <2>. QED
        BY <1>1, <1>5, <2>1, <2>2, <2>3, <2>4, <2>5, <2>6, <2>7 DEF DocStep
<1>. QED
    BY <1>1, <1>4, <1>5

\* The interleaved handlers implement the life of one attempt.
THEOREM AttemptImplementsLifecycle == AttemptSpec => ImplementsLifecycle
<1>1. AttemptInit => Lifecycle!LifecycleInit
    BY DEF AttemptInit, Over, Lifecycle!LifecycleInit
<1>2. ASSUME AttemptTypeOK, [AttemptNext]_attemptVars
      PROVE  [Lifecycle!LifecycleNext]_(Lifecycle!lifecycleVars)
    <2>1. CASE AttemptNext
        BY <1>2, <2>1, LifecycleStep
    <2>2. CASE UNCHANGED attemptVars
        BY <2>2 DEF attemptVars, history, Over, Lifecycle!lifecycleVars
    <2>. QED
        BY <1>2, <2>1, <2>2
<1>. QED
    BY <1>1, <1>2, AttemptTypeCorrect, PTL
       DEF AttemptSpec, ImplementsLifecycle, Lifecycle!LifecycleSpec

-----------------------------------------------------------------------------
(* One request at a time *)

\* The handlers that refuse an attempt which does not run.
Open == {"save", "saveInit", "clear", "clearAgain", "submit", "grading", "autoFail",
         "list"}

Even(d) == Ungraded(d) \/ GradedAsAnswered(d)

\* Unless an administrator has written the attempt, a handler of a running
\* attempt has read one that carries no marks, and nobody else gives it any;
\* and the coding questions that a handler has read are those stored.  Ids are
\* not used again.
GradesInv(r) ==
    /\ doc # NoDoc => doc.id <= docs /\ (~byHand => Even(doc))
    /\ pc[r] # "idle" => seen[r].id <= docs
    /\ pc[r] # "idle" /\ Stored(r) /\ ~byHand =>
          /\ pc[r] \in Open => seen[r].marked = {} /\ Ungraded(doc)
          /\ pc[r] = "solve" => seen[r].solved = doc.solved /\ seen[r].paid = doc.paid

\* A verdict never leaves an attempt running.
LEMMA RunningIsUngraded ==
    ASSUME NEW d, Even(d), d.status = "in_progress"
    PROVE  Ungraded(d)
BY DEF Even, GradedAsAnswered, Verdict

LEMMA GradedIsEven ==
    ASSUME doc \in Doc, NEW answers \in Sheet, NEW solved \in SUBSET Test,
           doc' = Graded(answers, solved), rerun' = {}
    PROVE  Even(doc)'
<1>1. /\ doc'.marked = Correct(answers) /\ doc'.answers = answers
      /\ doc'.solved = solved /\ doc'.paid = solved
      /\ doc'.total = Cardinality(Correct(answers)) + Cardinality(solved)
      /\ doc'.status = Verdict(doc'.total)
    BY DEF Graded, Marks, Doc
<1>2. IsFiniteSet(Correct(answers)) /\ IsFiniteSet(solved)
    BY MarksBounded, FS_Subset, AttemptAssumption
<1>3. Cardinality(Correct(answers)) \in Nat /\ Cardinality(solved) \in Nat
    BY <1>2, FS_CardinalityType
<1>4. Cardinality(rerun') = 0
    BY FS_EmptySet
<1>5. Correct(doc.answers)' = Correct(answers)
    BY <1>1 DEF Correct
<1>6. GradedAsAnswered(doc)'
    BY <1>1, <1>3, <1>4, <1>5 DEF GradedAsAnswered, Verdict
<1>. QED
    BY <1>6 DEF Even

\* A coding question that is run again moves its mark, if it was paid one, from
\* those paid to those that only the total counts.
LEMMA MarksMove ==
    ASSUME NEW P \in SUBSET Test, NEW R \in SUBSET Test, NEW t \in Test, P \cap R = {}
    PROVE  /\ Cardinality(P \ {t}) <= Cardinality(P)
           /\ Cardinality(P) + Cardinality(R)
                <= Cardinality(P \ {t}) + Cardinality(R \cup {t})
           /\ Cardinality(P) \in Nat /\ Cardinality(R) \in Nat
           /\ Cardinality(P \ {t}) \in Nat /\ Cardinality(R \cup {t}) \in Nat
<1>1. IsFiniteSet(P) /\ IsFiniteSet(R)
    BY FS_Subset, AttemptAssumption
<1>2. /\ IsFiniteSet(P \ {t})
      /\ Cardinality(P \ {t})
            = IF t \in P THEN Cardinality(P) - 1 ELSE Cardinality(P)
    BY <1>1, FS_RemoveElement
<1>3. /\ IsFiniteSet(R \cup {t})
      /\ Cardinality(R \cup {t})
            = IF t \in R THEN Cardinality(R) ELSE Cardinality(R) + 1
    BY <1>1, FS_AddElement
<1>4. /\ Cardinality(P) \in Nat /\ Cardinality(R) \in Nat
      /\ Cardinality(P \ {t}) \in Nat /\ Cardinality(R \cup {t}) \in Nat
    BY <1>1, <1>2, <1>3, FS_CardinalityType
<1>. QED
    BY <1>2, <1>3, <1>4

LEMMA SolvedIsEven ==
    ASSUME AttemptTypeOK, doc \in Doc, Even(doc), NEW t \in Test, NEW passed \in BOOLEAN,
           doc' = [doc EXCEPT !.solved = (doc.solved \ {t}) \cup {x \in {t} : passed},
                              !.paid = doc.paid \ {t}],
           rerun' = rerun \cup {t}
    PROVE  Even(doc)'
<1>1. /\ doc'.marked = doc.marked /\ doc'.answers = doc.answers
      /\ doc'.solved = (doc.solved \ {t}) \cup {x \in {t} : passed}
      /\ doc'.paid = doc.paid \ {t}
      /\ doc'.total = doc.total /\ doc'.status = doc.status
      /\ doc.total \in Nat /\ doc.marked \in SUBSET Question /\ doc.paid \in SUBSET Test
    BY DEF Doc
<1>2. CASE Ungraded(doc)
    BY <1>1, <1>2 DEF Ungraded, Even
<1>3. CASE GradedAsAnswered(doc)
    <2>1. doc.paid = doc.solved \ rerun /\ rerun \in SUBSET Test
        BY <1>3 DEF GradedAsAnswered, AttemptTypeOK
    <2>2. doc'.paid = doc'.solved \ rerun'
        BY <1>1, <2>1
    <2>3. Cardinality(doc.marked) \in Nat
        BY <1>1, FS_Subset, FS_CardinalityType, AttemptAssumption
    <2>4. /\ Cardinality(doc'.paid) <= Cardinality(doc.paid)
          /\ Cardinality(doc.paid) + Cardinality(rerun)
                <= Cardinality(doc'.paid) + Cardinality(rerun')
          /\ Cardinality(doc.paid) \in Nat /\ Cardinality(rerun) \in Nat
          /\ Cardinality(doc'.paid) \in Nat /\ Cardinality(rerun') \in Nat
        BY <1>1, <2>1, MarksMove
    <2>5. /\ doc.total >= Cardinality(doc.marked) + Cardinality(doc.paid)
          /\ doc.total <= Cardinality(doc.marked) + Cardinality(doc.paid)
                            + Cardinality(rerun)
        BY <1>3 DEF GradedAsAnswered
    <2>6. /\ doc'.total >= Cardinality(doc'.marked) + Cardinality(doc'.paid)
          /\ doc'.total <= Cardinality(doc'.marked) + Cardinality(doc'.paid)
                             + Cardinality(rerun')
        BY <1>1, <2>3, <2>4, <2>5
    <2>7. doc'.marked = Correct(doc'.answers) /\ doc'.status = Verdict(doc'.total)
        BY <1>1, <1>3 DEF GradedAsAnswered
    <2>8. GradedAsAnswered(doc)'
        BY <2>2, <2>6, <2>7 DEF GradedAsAnswered, Correct, Verdict
    <2>. QED
        BY <2>8 DEF Even
<1>. QED
    BY <1>2, <1>3 DEF Even

\* The steps of the only handler.
LEMMA GradesActs ==
    ASSUME AttemptTypeOK, NEW r \in Req, GradesInv(r), Acts(r)
    PROVE  GradesInv(r)'
<1>1. /\ ControlOK /\ pc[r] # "idle" /\ seen[r] \in Doc /\ DOMAIN pc = Req
      /\ doc \in Doc \cup {NoDoc} /\ byHand \in BOOLEAN
    <2>1. ControlOK /\ StoreOK
        BY TypeParts
    <2>2. pc[r] # "idle"
        BY DEF Acts, SaveAfterEnd, SaveInit, SaveWrite, ClearExpired, ClearWrite,
               ClearAgain, SubmitExpired, SubmitInTime, SubmitWrite, SolveWrite,
               RecalculateWrite, AutoFailWrite, ListWrite, Throw
    <2>. QED
        BY <2>1, <2>2, SeenDoc DEF ControlOK, StoreOK, HistoryOK
\* A handler that ends leaves a good attempt behind.
<1>2. ASSUME Ends(r), doc' # NoDoc => doc'.id <= docs /\ (~byHand' => Even(doc)')
      PROVE  GradesInv(r)'
    <2>1. pc'[r] = "idle" /\ docs' = docs
        BY <1>1, <1>2 DEF Ends
    <2>. QED
        BY <1>2, <2>1 DEF GradesInv
\* A write of a handler of a running attempt: it has no marks, and gets none.
<1>3. ASSUME pc[r] \in Open, NEW new, Write(r, new), UNCHANGED <<byHand, rerun>>,
             doc \in Doc => /\ new.id = doc.id
                            /\ Ungraded(doc) /\ seen[r].marked = {} => Ungraded(new)
      PROVE  /\ doc' # NoDoc => doc'.id <= docs /\ (~byHand' => Even(doc)')
             /\ doc' # NoDoc /\ doc'.id = seen[r].id /\ ~byHand'
                   => seen[r].marked = {} /\ Ungraded(doc)'
    <2>1. CASE Stored(r) /\ doc \in Doc /\ doc' = new
        <3>1. new.id <= docs
            BY <1>3, <2>1, NoDocAssumption DEF GradesInv
        <3>2. ~byHand => seen[r].marked = {} /\ Ungraded(new)
            BY <1>1, <1>3, <2>1 DEF GradesInv
        <3>. QED
            BY <1>3, <2>1, <3>1, <3>2 DEF Even, Ungraded
    <2>2. CASE ~Stored(r) /\ doc' = doc
        BY <1>3, <2>2 DEF GradesInv, Stored, Even, Ungraded, GradedAsAnswered
    <2>. QED
        BY <1>3, <2>1, <2>2, HitOrMiss
<1>4. CASE SaveAfterEnd(r)
    <2>. DEFINE new == [doc EXCEPT !.status = "completed"]
    <2>1. /\ pc[r] \in Open /\ Write(r, new) /\ UNCHANGED <<byHand, rerun>> /\ Ends(r)
        BY <1>4 DEF SaveAfterEnd, Open, history
    <2>2. doc \in Doc => new.id = doc.id /\ (Ungraded(doc) => Ungraded(new))
        BY DEF Doc, Ungraded
    <2>. HIDE DEF new
    <2>. QED
        BY <1>2, <1>3, <2>1, <2>2
<1>5. CASE ClearExpired(r) \/ SubmitExpired(r) \/ ListWrite(r)
    <2>. DEFINE new == [doc EXCEPT !.status = "failed"]
    <2>1. /\ pc[r] \in Open /\ Write(r, new) /\ UNCHANGED <<byHand, rerun>> /\ Ends(r)
        BY <1>5 DEF ClearExpired, SubmitExpired, ListWrite, Open, history
    <2>2. doc \in Doc => new.id = doc.id /\ (Ungraded(doc) => Ungraded(new))
        BY DEF Doc, Ungraded
    <2>. HIDE DEF new
    <2>. QED
        BY <1>2, <1>3, <2>1, <2>2
<1>6. CASE AutoFailWrite(r)
    <2>. DEFINE new == [doc EXCEPT !.status = "failed", !.total = 0]
    <2>1. /\ pc[r] \in Open /\ Write(r, new) /\ UNCHANGED <<byHand, rerun>> /\ Ends(r)
        BY <1>6 DEF AutoFailWrite, Open, history
    <2>2. doc \in Doc => new.id = doc.id /\ (Ungraded(doc) => Ungraded(new))
        BY DEF Doc, Ungraded
    <2>. HIDE DEF new
    <2>. QED
        BY <1>2, <1>3, <2>1, <2>2
<1>7. ASSUME NEW answers, NEW marked, marked = {}, doc \in Doc
      PROVE  LET new == [doc EXCEPT !.answers = answers, !.marked = marked]
             IN  new.id = doc.id /\ (Ungraded(doc) => Ungraded(new))
    BY <1>7 DEF Doc, Ungraded
<1>8. CASE SaveInit(r)
    <2>. DEFINE new == [doc EXCEPT !.answers = Blank, !.marked = {}]
    <2>1. /\ pc[r] \in Open /\ Write(r, new) /\ UNCHANGED <<byHand, rerun>>
          /\ pc'[r] = "saveInit" /\ docs' = docs
          /\ seen'[r].id = seen[r].id /\ seen'[r].marked = seen[r].marked
        BY <1>1, <1>8 DEF SaveInit, Continues, Open, history, ControlOK, Doc
    <2>2. doc \in Doc => new.id = doc.id /\ (Ungraded(doc) => Ungraded(new))
        BY <1>7
    <2>. HIDE DEF new
    <2>3. /\ doc' # NoDoc => doc'.id <= docs /\ (~byHand' => Even(doc)')
          /\ doc' # NoDoc /\ doc'.id = seen[r].id /\ ~byHand'
                => seen[r].marked = {} /\ Ungraded(doc)'
        BY <1>3, <2>1, <2>2
    <2>4. seen[r].id <= docs
        BY <1>1 DEF GradesInv
    <2>. QED
        BY <2>1, <2>3, <2>4 DEF GradesInv, Stored, Open
<1>9. ASSUME NEW q \in Question, NEW a \in Answer, SaveWrite(r, q, a)
      PROVE  GradesInv(r)'
    <2>. DEFINE sheet == Override(seen[r].answers, [x \in {q} |-> a])
                new == [doc EXCEPT !.answers = sheet, !.marked = seen[r].marked]
    <2>1. /\ pc[r] \in Open /\ Write(r, new) /\ UNCHANGED <<byHand, rerun>> /\ Ends(r)
        BY <1>9 DEF SaveWrite, Open
    <2>2. doc \in Doc => new.id = doc.id
        BY DEF Doc
    <2>3. doc \in Doc /\ Ungraded(doc) /\ seen[r].marked = {} => Ungraded(new)
        BY <1>7
    <2>. HIDE DEF new
    <2>. QED
        BY <1>2, <1>3, <2>1, <2>2, <2>3
<1>10. CASE ClearWrite(r)
    <2>. DEFINE new == [doc EXCEPT !.answers = Blank, !.marked = {}]
    <2>1. /\ pc[r] \in Open /\ Write(r, new) /\ UNCHANGED <<byHand, rerun>>
          /\ pc'[r] = "clearAgain" /\ docs' = docs /\ seen' = seen
        BY <1>1, <1>10 DEF ClearWrite, Continues, Open
    <2>2. doc \in Doc => new.id = doc.id /\ (Ungraded(doc) => Ungraded(new))
        BY <1>7
    <2>. HIDE DEF new
    <2>3. /\ doc' # NoDoc => doc'.id <= docs /\ (~byHand' => Even(doc)')
          /\ doc' # NoDoc /\ doc'.id = seen[r].id /\ ~byHand'
                => seen[r].marked = {} /\ Ungraded(doc)'
        BY <1>3, <2>1, <2>2
    <2>4. seen[r].id <= docs
        BY <1>1 DEF GradesInv
    <2>. QED
        BY <2>1, <2>3, <2>4 DEF GradesInv, Stored, Open
<1>11. CASE ClearAgain(r)
    <2>. DEFINE new == [doc EXCEPT !.answers = Blank, !.marked = {}]
    <2>1. /\ pc[r] \in Open /\ Write(r, new) /\ UNCHANGED <<byHand, rerun>> /\ Ends(r)
        BY <1>11 DEF ClearAgain, Open
    <2>2. doc \in Doc => new.id = doc.id /\ (Ungraded(doc) => Ungraded(new))
        BY <1>7
    <2>. HIDE DEF new
    <2>. QED
        BY <1>2, <1>3, <2>1, <2>2
<1>12. ASSUME NEW answers \in Sheet, NEW solved \in SUBSET Test,
              Write(r, Graded(answers, solved)), Regrades(r), Ends(r)
       PROVE  GradesInv(r)'
    <2>1. CASE Stored(r) /\ doc \in Doc /\ doc' = Graded(answers, solved)
        <3>1. rerun' = {}
            BY <1>12, <2>1 DEF Regrades
        <3>2. Even(doc)'
            BY <2>1, <3>1, GradedIsEven
        <3>3. doc'.id = doc.id /\ doc.id <= docs
            BY <2>1, NoDocAssumption DEF Graded, Doc, GradesInv
        <3>. QED
            BY <1>2, <1>12, <3>2, <3>3
    <2>2. CASE ~Stored(r) /\ doc' = doc
        <3>1. byHand' = byHand /\ rerun' = rerun
            BY <1>1, <1>12, <2>2 DEF Regrades
        <3>2. doc' # NoDoc => doc'.id <= docs /\ (~byHand' => Even(doc)')
            BY <2>2, <3>1 DEF GradesInv, Even, Ungraded, GradedAsAnswered
        <3>. QED
            BY <1>2, <1>12, <3>2
    <2>. QED
        BY <1>12, <2>1, <2>2, HitOrMiss
<1>13. ASSUME NEW sent \in Sent, SubmitWrite(r, sent)
       PROVE  GradesInv(r)'
    <2>1. Override(seen[r].answers, sent) \in Sheet /\ seen[r].solved \in SUBSET Test
        BY <1>1, OverrideSheet, SheetMembers DEF Doc
    <2>. QED
        BY <1>12, <1>13, <2>1 DEF SubmitWrite
<1>14. CASE RecalculateWrite(r)
    <2>1. seen[r].answers \in Sheet /\ seen[r].solved \in SUBSET Test
        BY <1>1 DEF Doc
    <2>. QED
        BY <1>12, <1>14, <2>1 DEF RecalculateWrite
<1>15. ASSUME NEW t \in Test, NEW passed \in BOOLEAN, SolveWrite(r, t, passed)
       PROVE  GradesInv(r)'
    <2>. DEFINE S == (seen[r].solved \ {t}) \cup {x \in {t} : passed}
                P == seen[r].paid \ {t}
                new == [doc EXCEPT !.solved = S, !.paid = P]
    <2>1. /\ pc[r] = "solve" /\ Write(r, new) /\ Ends(r) /\ byHand' = byHand
          /\ rerun' = IF Stored(r) THEN rerun \cup {t} ELSE rerun
        BY <1>15 DEF SolveWrite
    <2>2. CASE Stored(r) /\ doc \in Doc /\ doc' = new
        <3>1. doc'.id = doc.id /\ doc.id <= docs /\ rerun' = rerun \cup {t}
            BY <2>1, <2>2, NoDocAssumption DEF GradesInv, Doc
        <3>2. ASSUME ~byHand' PROVE Even(doc)'
            <4>1. Even(doc) /\ seen[r].solved = doc.solved /\ seen[r].paid = doc.paid
                BY <1>1, <2>1, <2>2, <3>2, NoDocAssumption DEF GradesInv
            <4>2. doc' = [doc EXCEPT !.solved = (doc.solved \ {t}) \cup {x \in {t} : passed},
                                     !.paid = doc.paid \ {t}]
                BY <2>2, <4>1
            <4>. QED
                BY <2>2, <3>1, <4>1, <4>2, SolvedIsEven
        <3>. QED
            BY <1>2, <2>1, <3>1, <3>2
    <2>3. CASE ~Stored(r) /\ doc' = doc
        <3>1. doc' # NoDoc => doc'.id <= docs /\ (~byHand' => Even(doc)')
            BY <2>1, <2>3 DEF GradesInv, Even, Ungraded, GradedAsAnswered
        <3>. QED
            BY <1>2, <2>1, <3>1
    <2>. HIDE DEF new
    <2>. QED
        BY <2>1, <2>2, <2>3, HitOrMiss
<1>16. CASE SubmitInTime(r)
    <2>1. /\ pc[r] = "submit" /\ pc'[r] = "grading" /\ docs' = docs
          /\ doc' = doc /\ seen' = seen /\ byHand' = byHand /\ rerun' = rerun
        BY <1>1, <1>16 DEF SubmitInTime, Continues, history
    <2>. QED
        BY <1>1, <2>1 DEF GradesInv, Open, Stored, Even, Ungraded, GradedAsAnswered
<1>17. CASE Throw(r)
    <2>1. doc' = doc /\ byHand' = byHand /\ rerun' = rerun /\ Ends(r)
        BY <1>17 DEF Throw, history
    <2>2. doc' # NoDoc => doc'.id <= docs /\ (~byHand' => Even(doc)')
        BY <2>1 DEF GradesInv, Even, Ungraded, GradedAsAnswered
    <2>. QED
        BY <1>2, <2>1, <2>2
<1>. QED
    BY <1>4, <1>5, <1>6, <1>8, <1>9, <1>10, <1>11, <1>13, <1>14, <1>15, <1>16, <1>17
       DEF Acts

\* One request at a time, the flags, the marks and the verdict of an attempt
\* are those of its answers and of its solved coding questions, from its last
\* grading on, whatever is written by hand before it (gradeAssessment,
\* submitCodingSolution, recalculateAssessmentScores).
THEOREM GradesFollowAnswers ==
    ASSUME NEW r, Req = {r}
    PROVE  AttemptSpec => []GradesMatchAnswers
<1>1. AttemptInit => GradesInv(r)
    BY DEF AttemptInit, GradesInv, Open
<1>2. ASSUME AttemptTypeOK, GradesInv(r), [AttemptNext]_attemptVars
      PROVE  GradesInv(r)'
    <2>1. /\ doc \in Doc \cup {NoDoc} /\ DOMAIN pc = Req /\ DOMAIN seen = Req
          /\ docs \in Nat /\ (pc[r] # "idle" => seen[r].id \in Nat)
        <3>1. pc[r] # "idle" => seen[r] \in Doc
            BY <1>2 DEF AttemptTypeOK
        <3>. QED
            BY <1>2, <3>1, AttemptAssumption DEF AttemptTypeOK, Doc
    <2>2. CASE Start
        <3>1. /\ doc'.id = docs + 1 /\ docs' = docs + 1 /\ Ungraded(doc)'
              /\ pc' = pc /\ seen' = seen
            BY <2>2 DEF Start, Ungraded
        <3>2. pc[r] # "idle" => seen[r].id <= docs' /\ ~Stored(r)'
            BY <1>2, <2>1, <3>1 DEF GradesInv, Stored
        <3>. QED
            BY <2>1, <3>1, <3>2 DEF GradesInv, Even
    <2>3. CASE Reads(r)
        <3>1. PICK op : Read(r, op) /\ (op \in Open => doc.status = "in_progress")
            BY <2>3 DEF Reads, SaveRead, ClearRead, SubmitRead, SolveRead,
                        RecalculateRead, AutoFailRead, ListRead, ReadOpen, Open
        <3>2. /\ doc # NoDoc /\ doc' = doc /\ byHand' = byHand /\ rerun' = rerun
              /\ pc'[r] = op /\ seen'[r] = doc /\ docs' = docs
            BY <1>2, <2>1, <3>1 DEF Read, history
        <3>3. ~byHand /\ op \in Open => doc.marked = {} /\ Ungraded(doc)
            BY <1>2, <3>1, <3>2, RunningIsUngraded DEF GradesInv, Ungraded
        <3>4. Even(doc) => Even(doc)'
            BY <3>2 DEF Even, Ungraded, GradedAsAnswered
        <3>. QED
            BY <1>2, <3>2, <3>3, <3>4 DEF GradesInv, Ungraded
    <2>4. CASE Acts(r)
        BY <1>2, <2>4, GradesActs
    <2>5. CASE CreateResult \/ UpdateResult
        <3>1. /\ byHand' = TRUE /\ pc' = pc /\ seen' = seen
              /\ \/ doc'.id = docs + 1 /\ docs' = docs + 1
                 \/ doc # NoDoc /\ doc'.id = doc.id /\ docs' = docs
            BY <2>5 DEF CreateResult, UpdateResult, Handwritten
        <3>2. doc' # NoDoc => doc'.id <= docs'
            BY <1>2, <2>1, <3>1 DEF GradesInv
        <3>3. pc[r] # "idle" => seen[r].id <= docs'
            BY <1>2, <2>1, <3>1 DEF GradesInv
        <3>. QED
            BY <3>1, <3>2, <3>3 DEF GradesInv
    <2>6. CASE DeleteResult
        BY <1>2, <2>6 DEF DeleteResult, GradesInv, Stored
    <2>7. CASE Tick \/ UNCHANGED attemptVars
        BY <1>2, <2>7 DEF Tick, attemptVars, history, GradesInv, Stored, Even, Ungraded,
                          GradedAsAnswered
    <2>. QED
        BY <1>2, <2>2, <2>3, <2>4, <2>5, <2>6, <2>7 DEF AttemptNext
<1>3. GradesInv(r) => GradesMatchAnswers
    BY DEF GradesInv, GradesMatchAnswers, Even
<1>. QED
    BY <1>1, <1>2, <1>3, AttemptTypeCorrect, PTL DEF AttemptSpec

\* The student finds for each question an answer that the server acknowledged.
Finds(answers, answered) ==
    \A q \in Question : Override(Blank, answers)[q] \in answered[q]

\* The student would find as well what the only handler has read, until a
\* clearing has written once.
AnswersInv(r) ==
    /\ doc # NoDoc => Finds(doc.answers, expected) /\ doc.id <= docs
    /\ pc[r] # "idle" =>
          /\ seen[r].id <= docs
          /\ Stored(r) /\ pc[r] # "clearAgain" => Finds(seen[r].answers, expected)

\* Answers that override those a student finds are found in their place.
LEMMA FoundAfterwards ==
    ASSUME NEW old \in Sheet, NEW new \in Sheet, Finds(old, expected),
           expected' = [q \in Question |->
                           IF q \in DOMAIN new THEN {new[q]} ELSE expected[q]]
    PROVE  Finds(Override(old, new), expected')
<1>. SUFFICES ASSUME NEW q \in Question
              PROVE  Override(Blank, Override(old, new))[q] \in expected'[q]
    BY DEF Finds
<1>1. /\ DOMAIN Override(old, new) = DOMAIN old \cup DOMAIN new
      /\ \A x \in DOMAIN old \cup DOMAIN new :
            Override(old, new)[x] = IF x \in DOMAIN new THEN new[x] ELSE old[x]
    BY DEF Override
<1>2. DOMAIN Blank = Question
    BY DEF Blank
<1>3. \A f : Override(Blank, f)[q] = IF q \in DOMAIN f THEN f[q] ELSE Blank[q]
    BY <1>2 DEF Override
<1>4. Override(Blank, Override(old, new))[q]
        = IF q \in DOMAIN new THEN new[q] ELSE Override(Blank, old)[q]
    BY <1>1, <1>3
<1>. QED
    BY <1>4 DEF Finds

LEMMA BlankIsFound ==
    ASSUME NEW answered, \A q \in Question : "blank" \in answered[q]
    PROVE  Finds(Blank, answered) /\ Finds(Empty, answered)
BY DEF Finds, Override, Blank, Empty

\* The steps of the only handler.
LEMMA AnswersActs ==
    ASSUME AttemptTypeOK, NEW r \in Req, AnswersInv(r), Acts(r)
    PROVE  AnswersInv(r)'
<1>1. /\ ControlOK /\ pc[r] # "idle" /\ seen[r] \in Doc /\ DOMAIN pc = Req
      /\ doc \in Doc \cup {NoDoc} /\ docs \in Nat
      /\ expected \in [Question -> SUBSET Answer]
    <2>1. ControlOK /\ StoreOK
        BY TypeParts
    <2>2. pc[r] # "idle"
        BY DEF Acts, SaveAfterEnd, SaveInit, SaveWrite, ClearExpired, ClearWrite,
               ClearAgain, SubmitExpired, SubmitInTime, SubmitWrite, SolveWrite,
               RecalculateWrite, AutoFailWrite, ListWrite, Throw
    <2>. QED
        BY <2>1, <2>2, SeenDoc, AttemptAssumption DEF ControlOK, StoreOK, HistoryOK
\* A step to the end of the handler.
<1>2. ASSUME Ends(r),
             \/ doc' = doc /\ expected' = expected
             \/ doc \in Doc /\ doc'.id = doc.id /\ Finds(doc'.answers, expected')
      PROVE  AnswersInv(r)'
    <2>1. pc'[r] = "idle" /\ docs' = docs
        BY <1>1, <1>2 DEF Ends
    <2>2. doc' # NoDoc => Finds(doc'.answers, expected') /\ doc'.id <= docs'
        BY <1>2, <2>1, NoDocAssumption DEF AnswersInv
    <2>. QED
        BY <2>1, <2>2 DEF AnswersInv
\* A write that leaves the answers alone.
<1>3. ASSUME NEW new, Write(r, new), Ends(r), expected' = expected,
             doc \in Doc => new.id = doc.id /\ new.answers = doc.answers
      PROVE  AnswersInv(r)'
    <2>1. \/ Stored(r) /\ doc \in Doc /\ doc' = new
          \/ ~Stored(r) /\ doc' = doc
        BY <1>3, HitOrMiss
    <2>. QED
        BY <1>2, <1>3, <2>1, NoDocAssumption DEF AnswersInv
<1>4. CASE SaveAfterEnd(r)
    <2>1. doc \in Doc => /\ [doc EXCEPT !.status = "completed"].id = doc.id
                         /\ [doc EXCEPT !.status = "completed"].answers = doc.answers
        BY DEF Doc
    <2>. QED
        BY <1>3, <1>4, <2>1 DEF SaveAfterEnd, history
<1>5. CASE ClearExpired(r) \/ SubmitExpired(r) \/ ListWrite(r)
    <2>1. doc \in Doc => /\ [doc EXCEPT !.status = "failed"].id = doc.id
                         /\ [doc EXCEPT !.status = "failed"].answers = doc.answers
        BY DEF Doc
    <2>. QED
        BY <1>3, <1>5, <2>1 DEF ClearExpired, SubmitExpired, ListWrite, history
<1>6. CASE AutoFailWrite(r)
    <2>. DEFINE new == [doc EXCEPT !.status = "failed", !.total = 0]
    <2>1. doc \in Doc => new.id = doc.id /\ new.answers = doc.answers
        BY DEF Doc
    <2>2. Write(r, new) /\ Ends(r) /\ expected' = expected
        BY <1>6 DEF AutoFailWrite, history
    <2>. HIDE DEF new
    <2>. QED
        BY <1>3, <2>1, <2>2
<1>7. ASSUME NEW t \in Test, NEW passed \in BOOLEAN, SolveWrite(r, t, passed)
      PROVE  AnswersInv(r)'
    <2>. DEFINE S == (seen[r].solved \ {t}) \cup {x \in {t} : passed}
                P == seen[r].paid \ {t}
                new == [doc EXCEPT !.solved = S, !.paid = P]
    <2>1. Write(r, new) /\ Ends(r) /\ expected' = expected
        BY <1>7 DEF SolveWrite
    <2>2. doc \in Doc => new.id = doc.id /\ new.answers = doc.answers
        BY DEF Doc
    <2>. HIDE DEF new
    <2>. QED
        BY <1>3, <2>1, <2>2
\* Answers that a request carries.
<1>8. ASSUME NEW sheet \in Sheet, NEW new, Write(r, new), Ends(r),
             pc[r] # "clearAgain",
             doc \in Doc => /\ new.id = doc.id
                            /\ new.answers = Override(seen[r].answers, sheet),
             expected' = IF Stored(r)
                         THEN [q \in Question |->
                                 IF q \in DOMAIN sheet THEN {sheet[q]} ELSE expected[q]]
                         ELSE expected
      PROVE  AnswersInv(r)'
    <2>1. \/ Stored(r) /\ doc \in Doc /\ doc' = new
          \/ ~Stored(r) /\ doc' = doc
        BY <1>8, HitOrMiss
    <2>2. CASE Stored(r) /\ doc \in Doc /\ doc' = new
        <3>1. seen[r].answers \in Sheet /\ Finds(seen[r].answers, expected)
            BY <1>1, <1>8, <2>2 DEF AnswersInv, Doc
        <3>2. Finds(Override(seen[r].answers, sheet), expected')
            BY <1>8, <2>2, <3>1, FoundAfterwards
        <3>. QED
            BY <1>2, <1>8, <2>2, <3>2
    <2>3. CASE ~Stored(r) /\ doc' = doc
        BY <1>2, <1>8, <2>3
    <2>. QED
        BY <2>1, <2>2, <2>3
<1>9. ASSUME NEW q \in Question, NEW a \in Answer, SaveWrite(r, q, a)
      PROVE  AnswersInv(r)'
    <2>. DEFINE sheet == [x \in {q} |-> a]
                new == [doc EXCEPT !.answers = Override(seen[r].answers, sheet),
                                   !.marked = seen[r].marked]
    <2>1. Write(r, new) /\ Ends(r) /\ pc[r] # "clearAgain"
        BY <1>9 DEF SaveWrite
    <2>2. doc \in Doc => /\ new.id = doc.id
                         /\ new.answers = Override(seen[r].answers, sheet)
        BY DEF Doc
    <2>3. expected' = IF Stored(r) THEN [expected EXCEPT ![q] = {a}] ELSE expected
        BY <1>9 DEF SaveWrite
    <2>4. [expected EXCEPT ![q] = {a}]
            = [x \in Question |-> IF x \in DOMAIN sheet THEN {sheet[x]} ELSE expected[x]]
        BY <1>1
    <2>5. sheet \in Sheet
        BY SheetMembers
    <2>. HIDE DEF sheet, new
    <2>. QED
        BY <1>8, <2>1, <2>2, <2>3, <2>4, <2>5
\* Grading.
<1>10. ASSUME NEW answers, NEW solved, doc \in Doc
       PROVE  /\ Graded(answers, solved).id = doc.id
              /\ Graded(answers, solved).answers = answers
    BY <1>10 DEF Graded, Doc
<1>11. ASSUME NEW sent \in Sent, SubmitWrite(r, sent)
       PROVE  AnswersInv(r)'
    <2>. DEFINE new == Graded(Override(seen[r].answers, sent), seen[r].solved)
    <2>1. Write(r, new) /\ Ends(r) /\ pc[r] # "clearAgain" /\ sent \in Sheet
        BY <1>11, SheetMembers DEF SubmitWrite
    <2>2. doc \in Doc => /\ new.id = doc.id
                         /\ new.answers = Override(seen[r].answers, sent)
        BY <1>10
    <2>3. expected' = [q \in Question |->
                         IF q \in DOMAIN sent /\ Stored(r) THEN {sent[q]} ELSE expected[q]]
        BY <1>11 DEF SubmitWrite
    <2>4. expected' = IF Stored(r)
                      THEN [q \in Question |->
                              IF q \in DOMAIN sent THEN {sent[q]} ELSE expected[q]]
                      ELSE expected
        BY <1>1, <2>3
    <2>. HIDE DEF new
    <2>. QED
        BY <1>8, <2>1, <2>2, <2>4
<1>12. CASE RecalculateWrite(r)
    <2>. DEFINE new == Graded(seen[r].answers, seen[r].solved)
    <2>1. /\ Write(r, new) /\ Ends(r) /\ expected' = expected
          /\ pc[r] = "recalculate"
        BY <1>12 DEF RecalculateWrite
    <2>2. doc \in Doc => new.id = doc.id /\ new.answers = seen[r].answers
        BY <1>10
    <2>. HIDE DEF new
    <2>3. \/ Stored(r) /\ doc \in Doc /\ doc' = new
          \/ ~Stored(r) /\ doc' = doc
        BY <2>1, HitOrMiss
    <2>4. Stored(r) => Finds(seen[r].answers, expected)
        BY <2>1 DEF AnswersInv
    <2>. QED
        BY <1>2, <2>1, <2>2, <2>3, <2>4, NoDocAssumption DEF AnswersInv
\* Blank answers.
<1>13. ASSUME Write(r, [doc EXCEPT !.answers = Blank, !.marked = {}])
       PROVE  \/ /\ Stored(r) /\ doc \in Doc
                 /\ doc'.answers = Blank /\ doc'.id = doc.id
              \/ ~Stored(r) /\ doc' = doc
    <2>. DEFINE new == [doc EXCEPT !.answers = Blank, !.marked = {}]
    <2>1. doc \in Doc => new.id = doc.id /\ new.answers = Blank
        BY DEF Doc
    <2>. HIDE DEF new
    <2>. QED
        BY <1>13, <2>1, HitOrMiss DEF new
<1>14. CASE SaveInit(r)
    <2>1. /\ pc[r] = "save" /\ seen[r].answers = Empty /\ expected' = expected
          /\ pc'[r] = "saveInit" /\ docs' = docs
          /\ Write(r, [doc EXCEPT !.answers = Blank, !.marked = {}])
          /\ seen' = [seen EXCEPT ![r].answers = Blank]
        BY <1>1, <1>14 DEF SaveInit, Continues, history
    <2>2. seen'[r].id = seen[r].id /\ seen'[r].answers = Blank
        BY <1>1, <2>1 DEF ControlOK, Doc
    <2>3. CASE /\ Stored(r) /\ doc \in Doc
               /\ doc'.answers = Blank /\ doc'.id = doc.id
        <3>1. Finds(Empty, expected) /\ doc.id <= docs /\ seen[r].id <= docs
            BY <2>1, <2>3, NoDocAssumption DEF AnswersInv
        <3>2. Finds(Blank, expected)
            BY <3>1 DEF Finds, Override, Blank, Empty
        <3>. QED
            BY <2>1, <2>2, <2>3, <3>1, <3>2 DEF AnswersInv
    <2>4. CASE ~Stored(r) /\ doc' = doc
        <3>1. ~Stored(r)'
            BY <2>2, <2>4 DEF Stored
        <3>. QED
            BY <2>1, <2>2, <2>4, <3>1 DEF AnswersInv
    <2>. QED
        BY <1>13, <2>1, <2>3, <2>4
<1>15. CASE ClearWrite(r)
    <2>1. /\ pc[r] = "clear" /\ pc'[r] = "clearAgain" /\ docs' = docs /\ seen' = seen
          /\ Write(r, [doc EXCEPT !.answers = Blank, !.marked = {}])
          /\ expected' = IF Stored(r)
                         THEN [q \in Question |-> expected[q] \cup {"blank"}]
                         ELSE expected
        BY <1>1, <1>15 DEF ClearWrite, Continues
    <2>2. CASE /\ Stored(r) /\ doc \in Doc
               /\ doc'.answers = Blank /\ doc'.id = doc.id
        <3>1. Finds(Blank, expected')
            BY <2>1, <2>2, BlankIsFound
        <3>. QED
            BY <2>1, <2>2, <3>1, NoDocAssumption DEF AnswersInv
    <2>3. CASE ~Stored(r) /\ doc' = doc
        BY <2>1, <2>3 DEF AnswersInv
    <2>. QED
        BY <1>13, <2>1, <2>2, <2>3
<1>16. CASE ClearAgain(r)
    <2>1. /\ Write(r, [doc EXCEPT !.answers = Blank, !.marked = {}]) /\ Ends(r)
          /\ expected' = IF Stored(r) THEN [q \in Question |-> {"blank"}] ELSE expected
        BY <1>16 DEF ClearAgain
    <2>2. Stored(r) => Finds(Blank, expected')
        BY <2>1, BlankIsFound
    <2>. QED
        BY <1>2, <1>13, <2>1, <2>2
<1>17. CASE SubmitInTime(r)
    <2>1. /\ pc[r] = "submit" /\ pc'[r] = "grading"
          /\ doc' = doc /\ seen' = seen /\ expected' = expected /\ docs' = docs
        BY <1>1, <1>17 DEF SubmitInTime, Continues, history
    <2>. QED
        BY <2>1 DEF AnswersInv, Stored
<1>18. CASE Throw(r)
    BY <1>2, <1>18 DEF Throw, history
<1>. QED
    BY <1>4, <1>5, <1>6, <1>7, <1>9, <1>11, <1>12, <1>14, <1>15, <1>16, <1>17, <1>18
       DEF Acts

\* "to ensure all answers are captured" (submitAssessment): one request at a
\* time, an attempt holds for each question the last answer that the server
\* acknowledged, whatever clears, reloads, deletions and new attempts come between; or
\* an answer that an administrator wrote since.
THEOREM AnswersAreCaptured ==
    ASSUME NEW r, Req = {r}
    PROVE  AttemptSpec => []AllAnswersCaptured
<1>1. AttemptInit => AnswersInv(r)
    BY DEF AttemptInit, AnswersInv
<1>2. ASSUME AttemptTypeOK, AnswersInv(r), [AttemptNext]_attemptVars
      PROVE  AnswersInv(r)'
    <2>1. /\ doc \in Doc \cup {NoDoc} /\ DOMAIN pc = Req /\ DOMAIN seen = Req
          /\ docs \in Nat /\ (pc[r] # "idle" => seen[r].id \in Nat)
        <3>1. pc[r] # "idle" => seen[r] \in Doc
            BY <1>2 DEF AttemptTypeOK
        <3>. QED
            BY <1>2, <3>1, AttemptAssumption DEF AttemptTypeOK, Doc
    <2>2. CASE Start
        <3>1. /\ doc'.id = docs + 1 /\ doc'.answers = Blank /\ docs' = docs + 1
              /\ pc' = pc /\ seen' = seen /\ expected' = [q \in Question |-> {"blank"}]
            BY <2>2 DEF Start
        <3>2. Finds(doc'.answers, expected')
            BY <3>1, BlankIsFound
        <3>3. pc[r] # "idle" => seen[r].id <= docs' /\ seen[r].id # doc'.id
            BY <1>2, <2>1, <3>1 DEF AnswersInv
        <3>. QED
            BY <2>1, <3>1, <3>2, <3>3 DEF AnswersInv, Stored
    <2>3. CASE Reads(r)
        <3>1. PICK op : Read(r, op)
            BY <2>3 DEF Reads, SaveRead, ClearRead, SubmitRead, SolveRead,
                        RecalculateRead, AutoFailRead, ListRead, ReadOpen
        <3>2. /\ doc # NoDoc /\ doc' = doc /\ seen'[r] = doc
              /\ UNCHANGED <<expected, docs>>
            BY <2>1, <3>1 DEF Read, history
        <3>. QED
            BY <1>2, <3>2 DEF AnswersInv
    <2>4. CASE Acts(r)
        BY <1>2, <2>4, AnswersActs
    <2>5. CASE CreateResult
        <3>1. PICK start \in HandStart \cup {now}, status \in HandStatus \cup {"in_progress"},
                   marks \in HandMarks \cup {0}, work \in HandWork \cup {NoWork} :
                 /\ doc' = Handwritten(docs + 1, start, status, marks, work)
                 /\ expected' = [q \in Question |-> {Override(Blank, work.answers)[q]}]
            BY <2>5 DEF CreateResult
        <3>2. /\ doc'.id = docs + 1 /\ docs' = docs + 1 /\ pc' = pc /\ seen' = seen
              /\ Finds(doc'.answers, expected')
            BY <2>5, <3>1 DEF CreateResult, Handwritten, Finds
        <3>3. pc[r] # "idle" => seen[r].id <= docs' /\ seen[r].id # doc'.id
            BY <1>2, <2>1, <3>2 DEF AnswersInv
        <3>. QED
            BY <2>1, <3>2, <3>3 DEF AnswersInv, Stored
    <2>6. CASE UpdateResult
        <3>1. PICK start \in HandStart \cup {doc.start}, status \in HandStatus \cup {doc.status},
                   marks \in HandMarks \cup {doc.total}, work \in HandWork \cup {WorkOf(doc)} :
                 /\ doc' = Handwritten(doc.id, start, status, marks, work)
                 /\ expected' = [q \in Question |->
                                  expected[q] \cup {Override(Blank, work.answers)[q]}]
            BY <2>6 DEF UpdateResult
        <3>2. /\ doc # NoDoc /\ doc'.id = doc.id /\ UNCHANGED <<docs, pc, seen>>
              /\ Finds(doc'.answers, expected')
              /\ \A f : Finds(f, expected) => Finds(f, expected')
            BY <2>6, <3>1 DEF UpdateResult, Handwritten, Finds
        <3>. QED
            BY <1>2, <3>2 DEF AnswersInv, Stored
    <2>7. CASE DeleteResult
        BY <1>2, <2>7 DEF DeleteResult, AnswersInv, Stored, history
    <2>8. CASE Tick \/ UNCHANGED attemptVars
        BY <1>2, <2>8 DEF Tick, attemptVars, AnswersInv, Stored, history
    <2>. QED
        BY <1>2, <2>2, <2>3, <2>4, <2>5, <2>6, <2>7, <2>8 DEF AttemptNext
<1>3. AnswersInv(r) => AllAnswersCaptured
    BY DEF AnswersInv, AllAnswersCaptured, Finds
<1>. QED
    BY <1>1, <1>2, <1>3, AttemptTypeCorrect, PTL DEF AttemptSpec

=============================================================================
