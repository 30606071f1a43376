-------------------------- MODULE TakeAssessmentProofs --------------------------
(* Theorems about TakeAssessment, for every value of its constants. *)
EXTENDS TakeAssessment, TLAPS

-----------------------------------------------------------------------------
(* The inductive invariant *)

\* What a request in flight carries: a submission carries a sheet that the page
\* submitted.
MessageOK(m, sheets) ==
    /\ m \in Message
    /\ m.kind \in Saves => m.question \in Question
    /\ m.kind = "submit" => m.sheet \in sheets

PageOK ==
    /\ page \in {"open", "completed", "expired", "error"}
    /\ sheet \in Sheet
    /\ failed \subseteq Question
    /\ delayed \subseteq [n: 0..MaxChanges, question: Question, answer: Answer]
    /\ latest \in 0..MaxChanges
    /\ retrying \subseteq (1..MaxPresses) \X Question
    /\ closure \in [sheet: Sheet, failed: SUBSET Question]
    /\ fired \in BOOLEAN

DatabaseOK ==
    /\ stored \in Sheet
    /\ status \in {"in_progress", "graded", "failed"}
    /\ graded \in submitted \cup {NoSheet}

BoundsOK ==
    /\ changes \in 0..MaxChanges /\ presses \in 0..MaxPresses
    /\ faults \in 0..MaxFaults
    /\ time \in {"running", "up", "late"}

NetOK == submitted \subseteq Sheet /\ \A m \in net : MessageOK(m, submitted)

TakeInv == PageOK /\ DatabaseOK /\ BoundsOK /\ NetOK

-----------------------------------------------------------------------------
(* Requests *)

LEMMA EmptySheet == Empty \in Sheet
BY TakeAssumption DEF Empty, Sheet

LEMMA PlainOK ==
    ASSUME NEW n \in 0..(MaxChanges + MaxPresses), NEW kind \in Kind
    PROVE  Plain(n, kind) \in Message /\ Plain(n, kind).kind = kind
BY EmptySheet, TakeAssumption DEF Plain, Message

LEMMA SavingOK ==
    ASSUME NEW n \in 0..(MaxChanges + MaxPresses), NEW kind \in Saves,
           NEW q \in Question, NEW a \in Answer, NEW sheets
    PROVE  MessageOK(Saving(n, kind, q, a), sheets)
<1>1. Plain(n, kind) \in Message /\ Plain(n, kind).kind = kind
    BY PlainOK DEF Saves, Kind
<1>. DEFINE m == [Plain(n, kind) EXCEPT !.question = q, !.answer = a]
<1>2. m \in Message /\ m.kind = kind /\ m.question = q
    BY <1>1 DEF Message
<1>3. Saving(n, kind, q, a) = m /\ kind # "submit"
    BY DEF Saving, Saves
<1>. HIDE DEF m
<1>. QED
    BY <1>2, <1>3 DEF MessageOK

LEMMA SubmissionOK ==
    ASSUME NEW n \in 0..(MaxChanges + MaxPresses), NEW s \in Sheet
    PROVE  MessageOK(Submission(n, s), {s})
<1>1. Plain(n, "submit") \in Message /\ Plain(n, "submit").kind = "submit"
    BY PlainOK DEF Kind
<1>. DEFINE m == [Plain(n, "submit") EXCEPT !.sheet = s]
<1>2. m \in Message /\ m.kind = "submit" /\ m.sheet = s
    BY <1>1 DEF Message
<1>3. Submission(n, s) = m
    BY DEF Submission
<1>. HIDE DEF m
<1>. QED
    BY <1>2, <1>3 DEF MessageOK, Saves

\* Requests are sent.
LEMMA Sent ==
    ASSUME NetOK, NEW ms, Send(ms), submitted \subseteq submitted',
           submitted' \subseteq Sheet, \A m \in ms : MessageOK(m, submitted')
    PROVE  NetOK'
BY DEF NetOK, Send, MessageOK

\* A request comes further: it stays about what it was about.
LEMMA Replaced ==
    ASSUME NetOK, NEW m \in net, NEW new \in Message, Replace(m, new),
           new.kind = m.kind, new.question = m.question, new.sheet = m.sheet,
           UNCHANGED submitted
    PROVE  NetOK'
<1>1. MessageOK(new, submitted)
    BY DEF NetOK, MessageOK
<1>2. net' \subseteq net \cup {new}
    BY DEF Replace
<1>. QED
    BY <1>1, <1>2 DEF NetOK, MessageOK

-----------------------------------------------------------------------------
(* Every step keeps the invariant *)

LEMMA StudentStep ==
    ASSUME TakeInv, Student
    PROVE  TakeInv'
<1>1. PageOK /\ DatabaseOK /\ BoundsOK /\ NetOK /\ submitted \subseteq Sheet
      /\ presses \in Nat /\ changes \in Nat /\ MaxChanges \in Nat /\ MaxPresses \in Nat
    BY TakeAssumption DEF TakeInv, NetOK, BoundsOK
<1>2. ASSUME NEW q \in Question, NEW a \in Answer, Change(q, a) PROVE TakeInv'
    <2>1. changes' = changes + 1 /\ changes' \in 0..MaxChanges
          /\ changes' \in 0..(MaxChanges + MaxPresses)
        BY <1>1, <1>2 DEF Change
    <2>2. MessageOK(Saving(changes', "quiet", q, a), submitted)
        BY <2>1, SavingOK DEF Saves
    <2>3. Send({Saving(changes', "quiet", q, a)}) /\ UNCHANGED submitted
        BY <1>2 DEF Change
    <2>4. NetOK'
        BY <1>1, <2>2, <2>3, Sent
    <2>5. sheet' \in Sheet
        BY <1>1, <1>2 DEF Change, PageOK, Sheet
    <2>6. PageOK'
        BY <1>1, <1>2, <2>1, <2>5 DEF Change, PageOK
    <2>7. DatabaseOK' /\ BoundsOK'
        BY <1>1, <1>2, <2>1 DEF Change, dbVars, DatabaseOK, BoundsOK
    <2>. QED
        BY <2>4, <2>6, <2>7 DEF TakeInv
<1>3. ASSUME Press
      PROVE  /\ presses' = presses + 1 /\ presses' \in 1..MaxPresses
             /\ presses' \in 0..(MaxChanges + MaxPresses)
    BY <1>1, <1>3 DEF Press
<1>4. CASE Retry
    <2>1. Press /\ UNCHANGED <<submitted, time, changes, faults>> /\ UNCHANGED dbVars
          /\ Send({Saving(presses', "retry", q, sheet[q]) : q \in failed})
        BY <1>4 DEF Retry
    <2>2. \A q \in failed : MessageOK(Saving(presses', "retry", q, sheet[q]), submitted)
        <3>1. \A q \in failed : q \in Question /\ sheet[q] \in Answer
            BY <1>1 DEF PageOK, Sheet
        <3>. QED
            BY <1>3, <2>1, <3>1, SavingOK DEF Saves
    <2>3. NetOK'
        BY <1>1, <2>1, <2>2, Sent
    <2>4. retrying' \subseteq (1..MaxPresses) \X Question
        BY <1>1, <1>3, <1>4 DEF Retry, PageOK
    <2>5. PageOK'
        BY <1>1, <1>4, <2>4 DEF Retry, PageOK
    <2>6. DatabaseOK' /\ BoundsOK'
        BY <1>1, <1>3, <2>1 DEF dbVars, DatabaseOK, BoundsOK
    <2>. QED
        BY <2>3, <2>5, <2>6 DEF TakeInv
<1>5. CASE ClearAll \/ CodeSubmitted
    <2>1. PICK kind \in {"clear", "load"} : Send({Plain(presses', kind)})
        BY <1>5 DEF ClearAll, CodeSubmitted
    <2>2. Press /\ UNCHANGED <<submitted, time, changes, faults>> /\ UNCHANGED dbVars
        BY <1>5 DEF ClearAll, CodeSubmitted
    <2>3. MessageOK(Plain(presses', kind), submitted)
        BY <1>3, <2>2, PlainOK DEF Kind, MessageOK, Saves
    <2>4. NetOK'
        BY <1>1, <2>1, <2>2, <2>3, Sent
    <2>5. PageOK'
        BY <1>1, <1>5, EmptySheet DEF ClearAll, CodeSubmitted, PageOK, pageVars
    <2>6. DatabaseOK' /\ BoundsOK'
        BY <1>1, <1>3, <2>2 DEF dbVars, DatabaseOK, BoundsOK
    <2>. QED
        BY <2>4, <2>5, <2>6 DEF TakeInv
<1>6. CASE Submit
    <2>1. /\ Press /\ UNCHANGED <<time, changes, faults>> /\ UNCHANGED dbVars
          /\ UNCHANGED pageVars
          /\ Send({Submission(presses', sheet)}) /\ submitted' = submitted \cup {sheet}
        BY <1>6 DEF Submit
    <2>2. sheet \in Sheet
        BY <1>1 DEF PageOK
    <2>3. MessageOK(Submission(presses', sheet), {sheet})
        BY <1>3, <2>1, <2>2, SubmissionOK
    <2>4. NetOK'
        BY <1>1, <2>1, <2>2, <2>3, Sent DEF MessageOK
    <2>5. PageOK'
        BY <1>1, <2>1 DEF pageVars, PageOK
    <2>6. DatabaseOK' /\ BoundsOK'
        BY <1>1, <1>3, <2>1 DEF dbVars, DatabaseOK, BoundsOK
    <2>. QED
        BY <2>4, <2>5, <2>6 DEF TakeInv
<1>. QED
    BY <1>2, <1>4, <1>5, <1>6 DEF Student

\* The delayed saves and the timer.
LEMMA TimersStep ==
    ASSUME TakeInv, (\E d \in delayed : SendDelayed(d)) \/ TimerFires \/ Tick
    PROVE  TakeInv'
<1>1. PageOK /\ DatabaseOK /\ BoundsOK /\ NetOK /\ submitted \subseteq Sheet
      /\ MaxChanges \in Nat /\ MaxPresses \in Nat
    BY TakeAssumption DEF TakeInv, NetOK
<1>2. ASSUME NEW d \in delayed, SendDelayed(d) PROVE TakeInv'
    <2>1. d.n \in 0..MaxChanges /\ d.question \in Question /\ d.answer \in Answer
        BY <1>1 DEF PageOK
    <2>2. d.n \in 0..(MaxChanges + MaxPresses)
        BY <1>1, <2>1
    <2>3. MessageOK(Saving(d.n, "save", d.question, d.answer), submitted)
        BY <2>1, <2>2, SavingOK DEF Saves
    <2>4. NetOK'
        BY <1>1, <1>2, <2>3, Sent DEF SendDelayed
    <2>5. PageOK'
        BY <1>1, <1>2, <2>1 DEF SendDelayed, PageOK
    <2>6. DatabaseOK' /\ BoundsOK'
        BY <1>1, <1>2 DEF SendDelayed, dbVars, boundVars, DatabaseOK, BoundsOK
    <2>. QED
        BY <2>4, <2>5, <2>6 DEF TakeInv
<1>3. CASE TimerFires
    <2>1. closure.sheet \in Sheet /\ 0 \in 0..(MaxChanges + MaxPresses)
        BY <1>1 DEF PageOK
    <2>2. MessageOK(Submission(0, closure.sheet), {closure.sheet})
        BY <2>1, SubmissionOK
    <2>3. NetOK' /\ submitted \subseteq submitted'
        <3>1. CASE closure.failed = {}
            <4>1. /\ Send({Submission(0, closure.sheet)})
                  /\ submitted' = submitted \cup {closure.sheet}
                BY <1>3, <3>1 DEF TimerFires
            <4>. QED
                BY <1>1, <2>1, <2>2, <4>1, Sent DEF MessageOK
        <3>2. CASE closure.failed # {}
            BY <1>1, <1>3, <3>2 DEF TimerFires, NetOK
        <3>. QED
            BY <3>1, <3>2
    <2>4. PageOK'
        BY <1>1, <1>3 DEF TimerFires, PageOK
    <2>5. DatabaseOK' /\ BoundsOK'
        BY <1>1, <1>3, <2>3 DEF TimerFires, dbVars, boundVars, DatabaseOK, BoundsOK
    <2>. QED
        BY <2>3, <2>4, <2>5 DEF TakeInv
<1>4. CASE Tick
    BY <1>1, <1>4 DEF Tick, TakeInv, pageVars, dbVars, boundVars, PageOK, DatabaseOK,
                      BoundsOK, NetOK
<1>. QED
    BY <1>2, <1>3, <1>4

LEMMA HeardOK ==
    ASSUME TakeInv, NEW m \in net, NEW ok \in BOOLEAN, Hear(m, ok)
    PROVE  PageOK'
<1>1. PageOK /\ m \in Message /\ (m.kind \in Saves => m.question \in Question)
    BY DEF TakeInv, NetOK, MessageOK
<1>2. CASE ~m.open
    BY <1>1, <1>2 DEF Hear, pageVars, PageOK
<1>3. CASE HearSave(m, ok)
    <2>1. m.question \in Question
        BY <1>1, <1>3 DEF HearSave, Saves
    <2>2. retrying' \subseteq retrying /\ failed' \subseteq failed \cup {m.question}
        BY <1>3 DEF HearSave
    <2>. QED
        BY <1>1, <1>3, <2>1, <2>2 DEF HearSave, PageOK
<1>4. CASE HearSubmit(m, ok)
    BY <1>1, <1>4 DEF HearSubmit, PageOK
<1>5. CASE HearLoad(m, ok)
    <2>1. m.seen \in Sheet
        BY <1>1 DEF Message
    <2>2. page' \in {"open", "completed", "expired", "error"} /\ sheet' \in Sheet
          /\ closure' \in [sheet: Sheet, failed: SUBSET Question]
        BY <1>1, <1>5, <2>1 DEF HearLoad, PageOK
    <2>. QED
        BY <1>1, <1>5, <2>2 DEF HearLoad, PageOK
<1>. QED
    BY <1>2, <1>3, <1>4, <1>5 DEF Hear

\* Outcomes, and the network.
LEMMA OutcomeStep ==
    ASSUME TakeInv, NEW m \in net, Reply(m) \/ NetworkFails(m)
    PROVE  TakeInv'
<1>1. /\ DatabaseOK /\ BoundsOK /\ NetOK /\ m \in Message
      /\ MaxFaults \in Nat
    BY TakeAssumption DEF TakeInv, NetOK, MessageOK
<1>2. CASE Reply(m)
    <2>1. PageOK'
        BY <1>2, HeardOK DEF Reply
    <2>. DEFINE new == [m EXCEPT !.open = FALSE]
    <2>2. /\ new \in Message /\ new.kind = m.kind /\ new.question = m.question
          /\ new.sheet = m.sheet
        BY <1>1 DEF Message
    <2>3. Replace(m, new) /\ UNCHANGED submitted
        BY <1>2 DEF Reply
    <2>. HIDE DEF new
    <2>4. NetOK'
        BY <1>1, <2>2, <2>3, Replaced
    <2>5. DatabaseOK' /\ BoundsOK'
        BY <1>1, <1>2 DEF Reply, dbVars, boundVars, DatabaseOK, BoundsOK
    <2>. QED
        BY <2>1, <2>4, <2>5 DEF TakeInv
<1>3. CASE NetworkFails(m)
    <2>1. PageOK'
        BY <1>3, HeardOK DEF NetworkFails
    <2>2. PICK place \in {m.at, "lost"} :
              Replace(m, [m EXCEPT !.open = FALSE, !.at = place])
        BY <1>3 DEF NetworkFails
    <2>. DEFINE new == [m EXCEPT !.open = FALSE, !.at = place]
    <2>3. /\ new \in Message /\ new.kind = m.kind /\ new.question = m.question
          /\ new.sheet = m.sheet
        BY <1>1 DEF Message
    <2>4. Replace(m, new) /\ UNCHANGED submitted
        BY <1>3, <2>2 DEF NetworkFails
    <2>. HIDE DEF new
    <2>5. NetOK'
        BY <1>1, <2>3, <2>4, Replaced
    <2>6. /\ UNCHANGED <<time, dbVars, submitted, changes, presses>>
          /\ faults < MaxFaults /\ faults' = faults + 1
        BY <1>3 DEF NetworkFails
    <2>7. faults' \in 0..MaxFaults
        BY <1>1, <2>6 DEF BoundsOK
    <2>8. BoundsOK'
        BY <1>1, <2>6, <2>7 DEF BoundsOK
    <2>9. DatabaseOK'
        BY <1>1, <2>6 DEF dbVars, DatabaseOK
    <2>. QED
        BY <2>1, <2>5, <2>8, <2>9 DEF TakeInv
<1>. QED
    BY <1>2, <1>3

\* The handlers of the server.
LEMMA ServerStep ==
    ASSUME TakeInv, NEW m \in net, Handle(m)
    PROVE  TakeInv'
<1>1. /\ PageOK /\ DatabaseOK /\ BoundsOK /\ NetOK /\ m \in Message
      /\ stored \in Sheet /\ submitted \subseteq Sheet
      /\ (m.kind \in Saves => m.question \in Question)
      /\ (m.kind = "submit" => m.sheet \in submitted)
    BY DEF TakeInv, NetOK, MessageOK, DatabaseOK
<1>2. UNCHANGED submitted /\ PageOK' /\ BoundsOK'
    BY <1>1 DEF Handle, Read, Load, Save, Clear, ClearAgain, Grade, Serve, pageVars,
                boundVars, PageOK, BoundsOK
<1>3. \E at \in {"read", "cleared", "done", "refused"} :
          At(m, at) \/ Replace(m, [m EXCEPT !.at = at, !.seen = stored])
    BY DEF Handle, Read, Load, Save, Clear, ClearAgain, Grade
<1>4. NetOK'
    <2>1. PICK at \in {"read", "cleared", "done", "refused"} :
              At(m, at) \/ Replace(m, [m EXCEPT !.at = at, !.seen = stored])
        BY <1>3
    <2>. DEFINE moved == [m EXCEPT !.at = at]
                read  == [m EXCEPT !.at = at, !.seen = stored]
    <2>2. /\ moved \in Message /\ moved.kind = m.kind /\ moved.question = m.question
          /\ moved.sheet = m.sheet
        BY <1>1 DEF Message
    <2>3. /\ read \in Message /\ read.kind = m.kind /\ read.question = m.question
          /\ read.sheet = m.sheet
        BY <1>1 DEF Message
    <2>4. Replace(m, moved) \/ Replace(m, read)
        BY <2>1 DEF At
    <2>. HIDE DEF moved, read
    <2>. QED
        BY <1>1, <1>2, <2>2, <2>3, <2>4, Replaced
<1>5. DatabaseOK'
    <2>1. CASE Grade(m)
        <3>1. m.sheet \in Sheet /\ m.sheet \in submitted
            BY <1>1, <2>1 DEF Grade
        <3>2. Merge(m.seen, m.sheet) = m.sheet
            BY <3>1 DEF Merge, Sheet
        <3>. QED
            BY <1>1, <1>2, <2>1, <3>1, <3>2 DEF Grade, DatabaseOK
    <2>2. CASE Save(m)
        <3>1. m.seen \in Sheet /\ m.question \in Question /\ m.answer \in Answer
            BY <1>1, <2>2 DEF Save, Message
        <3>2. [m.seen EXCEPT ![m.question] = m.answer] \in Sheet
            BY <3>1 DEF Sheet
        <3>. QED
            BY <1>1, <1>2, <2>2, <3>2 DEF Save, DatabaseOK
    <2>3. CASE Clear(m) \/ ClearAgain(m)
        BY <1>1, <1>2, <2>3, EmptySheet DEF Clear, ClearAgain, DatabaseOK
    <2>4. CASE Read(m) \/ Load(m)
        BY <1>1, <1>2, <2>4 DEF Read, Load, dbVars, DatabaseOK
    <2>. QED
        BY <2>1, <2>2, <2>3, <2>4 DEF Handle
<1>. QED
    BY <1>2, <1>4, <1>5 DEF TakeInv

LEMMA TakeInvStarts == TakeInit => TakeInv
<1>. SUFFICES ASSUME TakeInit PROVE TakeInv
    OBVIOUS
<1>1. PageOK
    <2>1. /\ sheet \in Sheet /\ page = "open" /\ failed = {} /\ delayed = {}
          /\ latest = 0 /\ retrying = {} /\ fired = FALSE
          /\ closure = [sheet |-> sheet, failed |-> {}]
        BY DEF TakeInit
    <2>2. closure \in [sheet: Sheet, failed: SUBSET Question]
        BY <2>1
    <2>3. 0 \in 0..MaxChanges
        BY TakeAssumption
    <2>. QED
        BY <2>1, <2>2, <2>3 DEF PageOK
<1>2. DatabaseOK /\ BoundsOK /\ NetOK
    BY TakeAssumption DEF TakeInit, DatabaseOK, BoundsOK, NetOK
<1>. QED
    BY <1>1, <1>2 DEF TakeInv

LEMMA TakeInvKept == TakeInv /\ [TakeNext]_takeVars => TakeInv'
<1>. SUFFICES ASSUME TakeInv, [TakeNext]_takeVars PROVE TakeInv'
    OBVIOUS
<1>1. CASE UNCHANGED takeVars
    BY <1>1 DEF takeVars, pageVars, dbVars, boundVars, TakeInv, PageOK, DatabaseOK,
                BoundsOK, NetOK
<1>. QED
    BY <1>1, StudentStep, TimersStep, OutcomeStep, ServerStep DEF TakeNext

LEMMA TakeInvHolds == TakeSpec => []TakeInv
BY TakeInvStarts, TakeInvKept, PTL DEF TakeSpec

-----------------------------------------------------------------------------
(* Theorems *)

\* The page, the requests between it and the server, and the attempt keep their
\* types, whatever is lost or overtaken.
THEOREM TakeTypeCorrect == TakeSpec => []TakeTypeOK
<1>1. TakeInv => TakeTypeOK
    BY DEF TakeInv, PageOK, DatabaseOK, BoundsOK, NetOK, MessageOK, TakeTypeOK
<1>. QED
    BY <1>1, TakeInvHolds, PTL

\* Whatever the network loses or reorders, and however many saves are still
\* under way, the sheet that is graded is one that the page submitted as a whole
\* (handleSubmitAssessment, submitAssessment).
THEOREM WholeSheetsAreGraded == TakeSpec => []VerdictsAreOfWholeSheets
<1>1. TakeInv => VerdictsAreOfWholeSheets
    BY DEF TakeInv, DatabaseOK, VerdictsAreOfWholeSheets
<1>. QED
    BY <1>1, TakeInvHolds, PTL

-----------------------------------------------------------------------------
(* What becomes of the submission of the timer *)

\* A timer only runs down when the time is up, and then no refetch starts it
\* again.
HandledInv == TimedOutIsHandled /\ (fired => time # "running")

\* A submission that the server has yet to decide about.
Undecided(m) == m.kind = "submit" /\ m.at \in {"way", "read"}

\* Steps that only send requests.
LEMMA SendingKeepsHandled ==
    ASSUME HandledInv, NEW ms, Send(ms),
           UNCHANGED <<fired, closure, status, faults, time>>
    PROVE  HandledInv'
BY DEF HandledInv, TimedOutIsHandled, Send

\* Hearing an outcome never moves the timer, and it starts the timer again only
\* while the time runs.
LEMMA HearingKeepsTimer ==
    ASSUME NEW m \in net, NEW ok \in BOOLEAN, Hear(m, ok), UNCHANGED time
    PROVE  fired' = fired /\ (time # "running" => closure' = closure)
BY DEF Hear, HearSave, HearSubmit, HearLoad, pageVars

LEMMA HandledKept ==
    ASSUME TakeInv, HandledInv, [TakeNext]_takeVars
    PROVE  HandledInv'
<1>0. /\ faults \in Nat /\ \A m \in net : m \in Message
    BY TakeAssumption DEF TakeInv, BoundsOK, NetOK, MessageOK
<1>1. CASE Student
    <2>1. ASSUME NEW q \in Question, NEW a \in Answer, Change(q, a) PROVE HandledInv'
        BY <2>1, SendingKeepsHandled DEF Change, dbVars
    <2>2. CASE Retry \/ ClearAll \/ CodeSubmitted \/ Submit
        BY <2>2, SendingKeepsHandled
        DEF Retry, ClearAll, CodeSubmitted, Submit, dbVars, pageVars
    <2>. QED
        BY <1>1, <2>1, <2>2 DEF Student
<1>2. ASSUME NEW d \in delayed, SendDelayed(d) PROVE HandledInv'
    BY <1>2, SendingKeepsHandled DEF SendDelayed, dbVars, boundVars
<1>3. CASE TimerFires
    <2>1. /\ time # "running" /\ UNCHANGED <<closure, time>>
          /\ closure.failed = {} => Send({Submission(0, closure.sheet)})
        BY <1>3 DEF TimerFires
    <2>2. Undecided(Submission(0, closure.sheet))
        BY DEF Undecided, Submission, Plain
    <2>. QED
        BY <2>1, <2>2 DEF HandledInv, TimedOutIsHandled, Send, Undecided
<1>4. CASE Tick
    BY <1>4 DEF Tick, HandledInv, TimedOutIsHandled, pageVars, dbVars, boundVars
<1>5. ASSUME NEW m \in net, Reply(m) PROVE HandledInv'
    <2>1. /\ m.at \in {"done", "refused"} /\ UNCHANGED <<time, status, faults>>
          /\ Hear(m, m.at = "done")
          /\ net \ {m} \subseteq net'
        BY <1>5 DEF Reply, Replace, dbVars, boundVars
    <2>2. fired' = fired /\ (time # "running" => closure' = closure)
        BY <2>1, HearingKeepsTimer
    <2>3. \A x \in net : Undecided(x) => x \in net'
        BY <2>1 DEF Undecided
    <2>. QED
        BY <2>1, <2>2, <2>3 DEF HandledInv, TimedOutIsHandled, Undecided
<1>6. ASSUME NEW m \in net, NetworkFails(m) PROVE HandledInv'
    <2>1. faults' = faults + 1 /\ UNCHANGED time /\ Hear(m, FALSE)
        BY <1>6 DEF NetworkFails
    <2>2. fired' = fired
        BY <2>1, HearingKeepsTimer
    <2>. QED
        BY <1>0, <2>1, <2>2 DEF HandledInv, TimedOutIsHandled
<1>7. ASSUME NEW m \in net, Handle(m) PROVE HandledInv'
    <2>1. UNCHANGED <<fired, closure, time, faults>>
        BY <1>7 DEF Handle, Read, Load, Save, Clear, ClearAgain, Grade, Serve, pageVars,
                    boundVars
    <2>2. \A x \in net \ {m} : x \in net'
        BY <1>7 DEF Handle, Read, Load, Save, Clear, ClearAgain, Grade, At, Replace
    <2>3. CASE Undecided(m) /\ status = "in_progress"
        <3>1. Read(m) \/ Grade(m)
            BY <1>7, <2>3 DEF Handle, Undecided, Load, Save, Clear, ClearAgain, Saves
        <3>2. CASE Read(m)
            <4>. DEFINE new == [m EXCEPT !.at = "read", !.seen = stored]
            <4>1. Replace(m, new)
                BY <2>3, <3>2 DEF Read
            <4>2. new.kind = "submit" /\ new.at = "read"
                BY <1>0, <2>3 DEF Undecided, Message
            <4>3. new \in net'
                BY <4>1, <4>2 DEF Replace
            <4>. HIDE DEF new
            <4>. QED
                BY <2>1, <4>2, <4>3 DEF HandledInv, TimedOutIsHandled
        <3>3. CASE Grade(m)
            BY <2>1, <3>3 DEF Grade, HandledInv, TimedOutIsHandled
        <3>. QED
            BY <3>1, <3>2, <3>3
    <2>4. CASE ~(Undecided(m) /\ status = "in_progress")
        <3>1. status' = "in_progress" => status = "in_progress"
            BY <1>7 DEF Handle, Read, Load, Save, Clear, ClearAgain, Grade, dbVars
        <3>2. \A x \in net : status' = "in_progress" /\ Undecided(x) => x \in net'
            BY <2>2, <2>4, <3>1
        <3>. QED
            BY <2>1, <3>1, <3>2 DEF HandledInv, TimedOutIsHandled, Undecided
    <2>. QED
        BY <2>3, <2>4
<1>8. CASE UNCHANGED takeVars
    BY <1>8 DEF takeVars, pageVars, dbVars, boundVars, HandledInv, TimedOutIsHandled
<1>. QED
    BY <1>1, <1>2, <1>3, <1>4, <1>5, <1>6, <1>7, <1>8 DEF TakeNext

\* The attempt of a student who stays past the time is not forgotten: without a
\* fault of the network or a failed save, the timer's submission is before the
\* server until the attempt has ended.  What is left to TimeUpEnds is that the
\* timer runs down and that the server answers (handleSubmitAssessment).
THEOREM TimersAreNotForgotten == TakeSpec => []TimedOutIsHandled
<1>1. TakeInit => HandledInv
    BY DEF TakeInit, HandledInv, TimedOutIsHandled
<1>2. TakeInv /\ HandledInv /\ [TakeNext]_takeVars => HandledInv'
    BY HandledKept
<1>3. HandledInv => TimedOutIsHandled
    BY DEF HandledInv
<1>. QED
    BY <1>1, <1>2, <1>3, TakeInvHolds, PTL DEF TakeSpec
=============================================================================
