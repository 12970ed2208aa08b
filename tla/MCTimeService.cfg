CONSTANTS
    Clients = {c1, c2}
    Delay = 2
    IdleTicks = 3
    NULL = NULL
SPECIFICATION Spec
INVARIANTS DelayKept
PROPERTIES ClientsEnd
