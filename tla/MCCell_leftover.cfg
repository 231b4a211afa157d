SPECIFICATION Spec
CONSTANTS
    a1 = a1
    a2 = a2
    b1 = b1
    b2 = b2
    b3 = b3
    c1 = c1
    c2 = c2
    Checksums <- MCChecksums
    SizeOf <- MCSizeOf
    BlockOf <- MCBlockOf
    NoChecksum = NoChecksum
    BlockEntries = 1
    MaxChunk = 4
    BodySize = 30
    H = 2
    D = 2
    SizeMod = 5
    CodeMod = 2
INVARIANT LegalSizesKeepRing
SYMMETRY Symmetric
