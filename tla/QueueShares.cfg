CONSTANTS
    w1 = w1
    w2 = w2
    s1 = s1
    k = k
    NoOwner = NoOwner
    NoKey = NoKey
    Worker = {w1, w2}
    Leaving = {w1, w2}
    Carrying = {w1}
    Sub = {s1}
    AppSub = {s1}
    MaxSeq = 2
    KeyOf <- FreePair
    Rank <- FlatRank
    AtMostOnce = {}
    Deliverable <- OneSubAll
    Expiring = {}
    Pausable = {s1}
    SubInflight <- OneAtATime
    MaxInflight = 2
    MaxAppInflight = 1
    CarrierSlots = 1
    LeaseTicks = 1
    Backoff <- NoWait
    MaxAttempts = 1
    MaxReplays = 0
    MaxThrows = 1
SPECIFICATION Spec
INVARIANTS
    InflightCap
    AppShare
    CleanStop
PROPERTIES
    SettledStays
