CONSTANTS
    Byte = {0, 1}
    Width = 2
    MinChunk = 3
    MaxChunk = 6
    MaxStream = 9
    Triggers <- MCTriggers
    Streams <- MCStreams
    Callers <- MCCallers
SPECIFICATION Spec
INVARIANTS TypeOK ChunksAreCanonical NothingLost NoAbort
PROPERTY Drains
