SPECIFICATION AccountsSpec
CONSTANTS
    Account = {a1, a2, a3}
    Request = {r1, r2}
    Email = {e1, e2}
    Number = {n1, n2}
    Erased = Erased
    NoUser = NoUser
    Gone = Gone
    NoCopy = NoCopy
    MaxRequests = 7
SYMMETRY Symmetric
INVARIANTS
    AccountsTypeOK
    AccountsAreDistinct
PROPERTIES
    RefusalsAreJustified
    DeletedStayDeleted
CHECK_DEADLOCK FALSE
