\* One request at a time, every request, no faults.
SPECIFICATION CatalogueSpec
CONSTANTS
    s1 = s1
    s2 = s2
    r1 = r1
    Student = {s1, s2}
    Request = {r1}
    Ops <- AllOps
    Lists = TRUE
    Faults = FALSE
    MaxRequests = 5
    NoDoc = NoDoc
    NoCopy = NoCopy
    NoOne = NoOne
    Keep = Keep
SYMMETRY Symmetry
INVARIANTS
    CatTypeOK
    CopyLacksBypassesOnly
    InvitedStudentsGetIn
PROPERTY
    StartsMissDeactivationsOnly
\* The requests may all have been made: the system may rest.
CHECK_DEADLOCK FALSE
