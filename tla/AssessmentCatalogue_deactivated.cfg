\* One request at a time, no faults: a cached copy, a deactivation, a start.
SPECIFICATION CatalogueSpec
CONSTANTS
    s1 = s1
    r1 = r1
    Student = {s1}
    Request = {r1}
    Ops <- StartOps
    Lists = FALSE
    Faults = FALSE
    MaxRequests = 4
    NoDoc = NoDoc
    NoCopy = NoCopy
    NoOne = NoOne
    Keep = Keep
PROPERTY
    NoStartOfAnInactiveAssessment
CHECK_DEADLOCK FALSE
