SPECIFICATION SequentialSpec
CHECK_DEADLOCK FALSE
SYMMETRY Symmetry
CONSTANTS
    None = None
    Procs = {c1, c2, c3}
    memsize = 4
    Sizes = {1, 2, 3, 4, 5}
    Pids = {1, 2}
    MaxTime = 1
    Nodes = {n1, n2, n3, n4}
    Data = {1, 2}
    NULL = NULL
    Nil = Nil
    NullByte = NullByte
    Pcbs = {p1, p2, p3, p4}
    Lists = {q1, q2}
    SortedLists = {q2}
    Ranks = {1, 2}
    Files <- SomeFiles
    ShortFile = 4
    LongFile = 6
    TOKENS_LEN = 4
    INITIAL_SCHEDULED_PROCS_MAX_LEN = 2
    SCHEDULED_PROCS_MAX_LEN_GROW_FACTOR = 2
    Null = Null
    Garbage = Garbage
    Colors = {A, B, C, D}
    SECRET_CODE_LEN = 4
    NUL = NUL
    Other = Other
    NoFeedback = NoFeedback
    Guesses <- SomeGuesses
    Inputs <- SomeInputs
    LongestInput = 6
    Letters = {a}
    Space = Space
    Newline = Newline
    Unset = Unset
    STRSCAN_INITIAL_MAX_STR_LEN = 2
    STRSCAN_STR_LEN_GROW_FACTOR = 2
    STRSPLIT_INITIAL_MAX_STR_ARRAY_LEN = 1
    STRSPLIT_STR_ARRAY_LEN_GROW_FACTOR = 2
    MaxScan = 7
INVARIANTS
    MemoryPartition
    HolesSeparated
    FaultOnlyIfOversized
    NodesFormTheList
    PcbListsIntact
    ReturnsTheCompleteLines
    FeedbackIsMastermind
    ArgvIsTheWords
PROPERTIES
    EvictsLargestThenOldest
    ImplementsMemoryMap
    ImplementsDataList
