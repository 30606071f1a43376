\* No unique index; every start ends before its lock expires: MaxHold < TTL.
SPECIFICATION StartSpec
CONSTANTS
    p1 = p1
    p2 = p2
    p3 = p3
    Proc = {p1, p2, p3}
    NoToken = NoToken
    AssessmentId = AssessmentId
    TTL = 3
    MaxHold = 2
    RetryAttempts = 2
    MaxCalls = 2
    UniqueIndex = FALSE
    MaxDocs = 2
SYMMETRY Symmetry
INVARIANTS
    LockTypeOK
    StartTypeOK
    LeaseInv
    MutualExclusion
PROPERTY
    NoCreateBehindACheck
