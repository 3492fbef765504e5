\* Two saves of the role form: is the list of owned resources replaced?
SPECIFICATION Spec
CONSTANTS
    Users = {u1}
    Admins = {a1}
    Readers = {r1}
    None = None
    Calls <- RoleForm
    Faults = {}
    MaxCalls = 2
PROPERTY OwnersReplaced
CHECK_DEADLOCK FALSE
