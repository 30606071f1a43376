\* Dying and stalled workers, and one fault of the API.
SPECIFICATION PipeFairSpec
CONSTANTS
    s1 = s1
    s2 = s2
    w1 = w1
    w2 = w2
    a1 = a1
    a2 = a2
    passed = passed
    error = error
    Submission = {s1, s2}
    Worker = {w1, w2}
    Api = {a1, a2}
    Result = {passed, error}
    Failures = {error}
    NoResult = NoResult
    NoWorker = NoWorker
    Idle = Idle
    MaxStalls = 2
    MaxPolls = 1
    MaxFaults = 1
INVARIANTS
    PipeTypeOK
    ResultsAgree
    NothingIsLost
PROPERTIES
    ImplementsPromise
    JobsWearDown
    EveryJobEnds
    RecordedUnlessFaulty
\* Nothing makes a student submit again: the system may rest.
CHECK_DEADLOCK FALSE
