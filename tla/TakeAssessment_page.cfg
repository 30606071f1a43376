\* One question, every button, one fault of the network.
SPECIFICATION TakeFairSpec
CONSTANTS
    q1 = q1
    Question = {q1}
    Blank = Blank
    a = a
    Answer = {Blank, a}
    NoQuestion = NoQuestion
    NoSheet = NoSheet
    MaxChanges = 1
    MaxPresses = 2
    MaxFaults = 1
INVARIANTS
    TakeTypeOK
    VerdictsAreOfWholeSheets
    TimedOutIsHandled
PROPERTY
    TimeUpEnds
\* A student may leave the page as it is: the system may rest.
CHECK_DEADLOCK FALSE
