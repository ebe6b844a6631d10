SPECIFICATION MutexFairSpec
CONSTANTS
    Producers = {p1, p2}
    Consumers = {q1, q2}
    Items = {1, 2}
    BUFFER_SIZE = 2
    None = None
PROPERTIES
    ProgramExits
    ImplementsQueue
