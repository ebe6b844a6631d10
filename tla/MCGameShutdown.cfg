SPECIFICATION ThreadsRun
CONSTANTS
    Clients = {c1, c2}
    Main = Main
    None = None
    A = A
    B = B
    NUL = NUL
    Other = Other
    Colors <- TwoColors
    SECRET_CODE_LEN = 1
    CLIENTS_NOW_MAX_COUNT = 1
    MAX_GUESSES_COUNT = 1
    SecretArgument <- AllA
    TypedLines <- RightGuess
    Faults = {"signal"}
    MaxSignals = 2
CHECK_DEADLOCK FALSE
INVARIANTS
    ShutdownStatsMatchLog
PROPERTY
    ShutdownEndsOrDeadlocks
