SPECIFICATION Spec
CHECK_DEADLOCK FALSE
CONSTANTS
    MaxCommands = 3
    TokenLists <- SomeTokenLists
    LongestList = 3
    Numbers = {1, 4, 5}
    NonInteger = NonInteger
    MaxNotices = 3
    loopcnt = 5
    ITERATIONS = 4
    GP_SIZE = 4
    GP_HEADER_SIZE = 2
    READ_ATTEMPTS_MAX_COUNT = 3
    GUESSES = 2
    InputLines = {"right", "wrong", "short", "long", "EOF"}
    StreamFaults = {"send", "kill", "shutdown"}
    MaxRequests = 3
INVARIANTS
    OnlyPrimesReported
    ThreadSamplesAreSafe
    InStep
    NothingCountsTwice
PROPERTIES
    TimeoutHitsItsCommand
    PromptComesBack
    SignalsAreHeeded
    ThreadSamplesEnd
    GuessArrives
