\* Three callers of the five review endpoints.  It stops when both rows are approved.
SPECIFICATION Spec
CONSTANTS
    Clients = {c1, c2, c3}
    None = None
    Calls <- ReviewCalls
    MaxVersion = 2
SYMMETRY Symmetry
CHECK_DEADLOCK FALSE
INVARIANTS
    TypeOK
    OnePending
    ApprovedLadder
PROPERTIES
    ApprovalIsFinal
    ImplementsLadder
