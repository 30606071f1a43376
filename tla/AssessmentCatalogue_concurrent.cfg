\* Two requests in flight, with faults; no request gives lists.
SPECIFICATION CatalogueSpec
CONSTANTS
    s1 = s1
    s2 = s2
    r1 = r1
    r2 = r2
    Student = {s1, s2}
    Request = {r1, r2}
    Ops <- KeepingOps
    Lists = FALSE
    Faults = TRUE
    MaxRequests = 5
    NoDoc = NoDoc
    NoCopy = NoCopy
    NoOne = NoOne
    Keep = Keep
SYMMETRY Symmetry
PROPERTY
    EnrolmentIsKept
\* The requests may all have been made: the system may rest.
CHECK_DEADLOCK FALSE
