SPECIFICATION Spec
CONSTANTS
    Clients = {c1, c2}
    None = None
    Calls <- AllCalls
    MaxVersion = 2
PROPERTIES
    ToggleKeepsActive
