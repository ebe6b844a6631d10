SPECIFICATION Spec
CONSTANTS
    Clients = {c1, c2}
    Main = Main
    None = None
    A = A
    B = B
    NUL = NUL
    Other = Other
    Colors <- TwoColors
    SECRET_CODE_LEN = 1
    CLIENTS_NOW_MAX_COUNT = 1
    MAX_GUESSES_COUNT = 2
    SecretArgument <- NoArgument
    TypedLines <- Guesses
    Faults = {"kill", "send", "create"}
    MaxSignals = 1
SYMMETRY Symmetry
INVARIANTS
    NowCountAccountsForThreads
    SessionTellsTheGame
PROPERTY
    LogPairsAdjacent
