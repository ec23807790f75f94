\* V3 archive: the two checkpoints after a crash.
CONSTANTS
    Epochs = {e1, e2}
    MaxOffset = 2
    Bodies = {ok, bad}
    Malformed = {bad}
    MaxSegments = 4
    V3 = TRUE
    GroupMax = 2
    MaxGens = 1
    MaxLines = 2
    MaxTotal = 2
    MaxFaults = 1
SPECIFICATION LaneSpec
CHECK_DEADLOCK FALSE
INVARIANTS
    BindsAfterCrash
