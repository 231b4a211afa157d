SPECIFICATION Spec
CONSTANTS
    a1 = a1
    a2 = a2
    b1 = b1
    b2 = b2
    b3 = b3
    c1 = c1
    c2 = c2
    Checksums <- MCChecksums
    SizeOf <- MCSizeOf
    BlockOf <- MCBlockOf
    NoChecksum = NoChecksum
    BlockEntries = 1
    MaxChunk = 4
    BodySize = 30
    H = 2
    D = 2
    SizeMod = 16
    CodeMod = 2
INVARIANTS
    TypeOK
    RingTiled
    FreeOnlyAtNext
    DirectoryMatchesRing
    LeftOverFits
    RingBelowOverflow
    CountersMatch
    SaneIsWhole
    PopIsSafe
    CountersStayPositive
PROPERTIES
    EvictsLittle
    ReopenKeepsChunks
    ImplementsRing
SYMMETRY Symmetric
