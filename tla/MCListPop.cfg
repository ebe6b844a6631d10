SPECIFICATION ListSpec
CHECK_DEADLOCK FALSE
CONSTANTS
    Nodes = {n1, n2}
    Data = {1, 2}
    NULL = NULL
PROPERTY
    PopRemovesTheEnd
