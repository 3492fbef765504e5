\* Two callers of all six endpoints, with the fairness of the server.
SPECIFICATION FairSpec
CONSTANTS
    Clients = {c1, c2}
    None = None
    Calls <- AllCalls
    MaxVersion = 2
INVARIANTS
    ActiveIsLatest
    ReadsAgree
PROPERTIES
    Responds
