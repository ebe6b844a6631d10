SPECIFICATION SemaphoreFairSpec
CHECK_DEADLOCK FALSE
CONSTANTS
    Producers = {p1, p2}
    Consumers = {q1, q2}
    Items = {1, 2}
    BUFFER_SIZE = 2
INVARIANTS
    SemaphoresMatchBuffer
PROPERTIES
    ExitOrStarve
    ImplementsQueue
