SPECIFICATION Spec
CONSTANTS
    c0 = c0
    c1 = c1
    MB = 2
    Requests = {1, 2, 4}
    Chunks = {c0, c1}
    Part <- MCPart
    Dax = TRUE
    StatMayFail = TRUE
INVARIANT NoHalfCells
