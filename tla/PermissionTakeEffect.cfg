\* One update form and one read: does the change of the owners take effect?
SPECIFICATION Spec
CONSTANTS
    Users = {u1}
    Admins = {a1}
    Readers = {r1}
    None = None
    Calls <- RoleForm
    Faults = {}
    MaxCalls = 2
INVARIANT OwnersTakeEffect
CHECK_DEADLOCK FALSE
