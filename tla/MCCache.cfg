CONSTANTS
    a = a
    b = b
    x = x
    y = y
    t1 = t1
    t2 = t2
    t3 = t3
    Threads = {t1, t2, t3}
    Chunks = {a, b, x, y}
    NoChunk = NoChunk
    NoThread = NoThread
    CellCount = 2
    Part <- MCPart
    SizeOf <- MCSizeOf
    Room <- MCRoom
    Programs <- MCPrograms
SPECIFICATION Spec
INVARIANTS TypeOK CellsConsistent MetricsExplained CountedRight
PROPERTIES ImplementsStore Terminates
CHECK_DEADLOCK FALSE
