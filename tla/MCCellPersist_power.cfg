SPECIFICATION Spec
CONSTANTS
    l1 = l1
    l2 = l2
    Lines = {l1, l2}
    FirstEntry = l1
    CodeMod = 2
    BarrierFlushes = TRUE
    MaxUpdates = 3
    MaxKills = 0
    MaxLosses = 3
INVARIANT OpenIsWhole
PROPERTY ComesUp
CHECK_DEADLOCK FALSE
