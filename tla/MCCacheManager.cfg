SPECIFICATION Spec
CONSTANTS
    c0 = c0
    c1 = c1
    MB = 2
    Requests = {1, 2, 4, 6}
    Chunks = {c0, c1}
    Part <- MCPart
    Dax = TRUE
    StatMayFail = FALSE
INVARIANTS
    TypeOK
    CellsAreThere
    NothingLeaks
    NoHalfCells
PROPERTIES
    OpenKeepsChunks
    OpenReturns
