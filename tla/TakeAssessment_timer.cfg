\* A student who answers and leaves the rest to the timer.
SPECIFICATION TakeSpec
CONSTANTS
    q1 = q1
    Question = {q1}
    Blank = Blank
    a = a
    Answer = {Blank, a}
    NoQuestion = NoQuestion
    NoSheet = NoSheet
    MaxChanges = 1
    MaxPresses = 0
    MaxFaults = 0
PROPERTY
    TimedSubmissionIsTheSheet
CHECK_DEADLOCK FALSE
