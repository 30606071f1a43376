\* One request at a time, every handler.
\* Nothing makes the next request come: the system may rest.
CHECK_DEADLOCK FALSE
SPECIFICATION AttemptSpec
CONSTANTS
    r1 = r1
    q1 = q1
    q2 = q2
    t1 = t1
    Req = {r1}
    Ops <- AllOps
    Question = {q1, q2}
    Test = {t1}
    Option = {"right", "wrong"}
    Right = "right"
    PassMarks = 2
    Duration = 1
    Grace = 1
    EndDate = 3
    Lead = 1
    HandStart = {}
    HandStatus = {"in_progress", "abandoned"}
    HandMarks = {1}
    HandWork <- UnmarkedWork
    MaxTime = 3
    MaxDocs = 2
    MaxCalls = 4
    NoDoc = NoDoc
INVARIANTS
    AttemptTypeOK
    GradesMatchAnswers
    AllAnswersCaptured
