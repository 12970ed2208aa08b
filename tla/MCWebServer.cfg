CONSTANTS
    Clients = {c1, c2}
    Workers = {w1, w2}
    Main = main
    REQUEST_QUEUE_SIZE = 2
    Backlog = 1
    FdLimit = 3
    Accesses = 1
    BodyWrites = 2
    MaxKilled = 1
    NULL = NULL
SPECIFICATION Spec
CHECK_DEADLOCK FALSE
INVARIANTS OneOwner
PROPERTIES RightAnswer ClientsFinish
