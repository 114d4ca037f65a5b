CONSTANTS
    MaxSeq = 3
    Public <- OddPublic
    VisibleTo <- ByViewer
    Client <- EveryViewer
    NoId = NoId
    ReplayMax = 1
    ScanMax = 2
    MaxCuts = 2
    MaxPruned = 1
SPECIFICATION FairStream
CHECK_DEADLOCK FALSE
INVARIANTS ResumesSound
PROPERTIES EventuallyStreamed
