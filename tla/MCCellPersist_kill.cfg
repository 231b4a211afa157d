SPECIFICATION Spec
CONSTANTS
    l1 = l1
    l2 = l2
    Lines = {l1, l2}
    FirstEntry = l1
    CodeMod = 2
    BarrierFlushes = FALSE
    MaxUpdates = 3
    MaxKills = 2
    MaxLosses = 0
INVARIANTS
    TypeOK
    OpenIsWhole
PROPERTY ComesUp
CHECK_DEADLOCK FALSE
