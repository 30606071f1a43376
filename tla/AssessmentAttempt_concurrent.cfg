\* Two requests in flight, every handler, an administrator who reopens or fails attempts.
\* Nothing makes the next request come: the system may rest.
CHECK_DEADLOCK FALSE
SPECIFICATION AttemptSpec
CONSTANTS
    r1 = r1
    r2 = r2
    q1 = q1
    q2 = q2
    t1 = t1
    Req = {r1, r2}
    Ops <- AllOps
    Question = {q1, q2}
    Test = {t1}
    Option = {"right"}
    Right = "right"
    PassMarks = 2
    Duration = 1
    Grace = 1
    EndDate = 3
    Lead = 1
    HandStart = {}
    HandStatus = {"in_progress", "completed"}
    HandMarks = {}
    HandWork = {}
    MaxTime = 3
    MaxDocs = 1
    MaxCalls = 4
    NoDoc = NoDoc
INVARIANT
    CompletedIsEarned
PROPERTIES
    OnlyAdministratorsReopen
    ImplementsLifecycle
