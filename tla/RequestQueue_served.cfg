\* Four requests of three priorities, one slot, three places.
SPECIFICATION QueueFairSpec
CONSTANTS
    login = login
    getA = getA
    getB = getB
    post = post
    Request = {login, getA, getB, post}
    Prio <- MCPrio
    MaxConcurrent = 1
    MaxQueueSize = 3
INVARIANTS
    QueueTypeOK
    QueueInOrder
    UnansweredHaveTimers
PROPERTIES
    NoWorkForTheAnswered
    ImplementsService
    EveryRequestIsAnswered
\* All requests may have been answered: the system may rest.
CHECK_DEADLOCK FALSE
