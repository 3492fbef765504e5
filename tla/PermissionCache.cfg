\* Two role requests at a time and a read, about one user; Redis and the requests may fail.
SPECIFICATION Spec
CONSTANTS
    Users = {u1}
    Admins = {a1, a2}
    Readers = {r1}
    None = None
    Calls <- AllCalls
    Faults = {"set", "unlink", "request"}
    MaxCalls = 2
SYMMETRY Symmetry
CONSTRAINTS
    NoSlipYet
    OneFamily
INVARIANTS
    StaleIsDoomed
