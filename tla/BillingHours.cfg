CONSTANTS
    p1 = p1
    p2 = p2
    MaxHour = 3
    MaxUse = 1
    Process = {p1,p2}
    Catchup = 2
    Batch = 2
    LeaseTicks = 1
    PostTicks = 1
    Backoff = {1}
    Invalid = {1}
    Stuck = {0}
    MaxRequeued = 1
    MaxCrashes = 1
SPECIFICATION FairSpec
INVARIANTS EveryUseBilled
PROPERTIES OneAnswerCounts EveryReadingSettles
