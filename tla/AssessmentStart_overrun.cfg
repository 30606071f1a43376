\* A start may outlast its lock; the unique index exists.
SPECIFICATION StartFairSpec
CONSTANTS
    p1 = p1
    p2 = p2
    Proc = {p1, p2}
    NoToken = NoToken
    AssessmentId = AssessmentId
    TTL = 2
    MaxHold = 3
    RetryAttempts = 2
    MaxCalls = 2
    UniqueIndex = TRUE
    MaxDocs = 2
PROPERTIES
    OnlyExpiryTakesAHeldKey
    EveryTokenGoes
