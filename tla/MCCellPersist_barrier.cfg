SPECIFICATION Spec
CONSTANTS
    l1 = l1
    l2 = l2
    Lines = {l1, l2}
    FirstEntry = l1
    CodeMod = 2
    BarrierFlushes = FALSE
    MaxUpdates = 3
    MaxKills = 0
    MaxLosses = 1
INVARIANT OpenIsWhole
CHECK_DEADLOCK FALSE
