CONSTANTS
    Producers = {p1}
    Consumers = {c1, c2, c3}
    Requests = {r1, r2}
    REQUEST_QUEUE_SIZE = 3
    NULL = NULL
SPECIFICATION Spec
INVARIANTS NoLostWakeup
PROPERTIES IsFIFO PushProgress
