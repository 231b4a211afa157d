SPECIFICATION Spec
CONSTANTS
    a1 = a1
    a2 = a2
    a3 = a3
    a4 = a4
    a5 = a5
    a6 = a6
    b1 = b1
    b2 = b2
    b3 = b3
    Checksums <- MCChecksums
    BlockOf <- MCBlockOf
    BlockEntries = 2
    Offsets = {0, 7}
    Capacity = 5
    CountMod = 4
    OverflowMod = 4
INVARIANTS
    TypeOK
    LookupIsHeld
    OverflowCounted
PROPERTY ImplementsDirMap
SYMMETRY Symmetric
