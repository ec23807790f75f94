\* V2 archive: three lines over up to three log generations, one fault.
CONSTANTS
    Epochs = {e1, e2}
    MaxOffset = 2
    Bodies = {ok, bad}
    Malformed = {bad}
    MaxSegments = 5
    V3 = FALSE
    GroupMax = 2
    MaxGens = 3
    MaxLines = 2
    MaxTotal = 3
    MaxFaults = 1
SPECIFICATION FairLaneSpec
CHECK_DEADLOCK FALSE
INVARIANTS
    LaneTypeOK
    NothingLost
    SourceAckedAfterCheckpoint
    CapturedInOrder
    RestartSucceeds
PROPERTIES
    LinesArchived
