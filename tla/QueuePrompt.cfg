CONSTANTS
    w1 = w1
    w2 = w2
    s1 = s1
    k = k
    NoOwner = NoOwner
    NoKey = NoKey
    Worker = {w1, w2}
    Leaving = {w1}
    Carrying = {}
    Sub = {s1}
    AppSub = {}
    MaxSeq = 2
    KeyOf <- KeyedPair
    Rank <- UrgentSecond
    AtMostOnce = {2}
    Deliverable <- OneSubAll
    Expiring = {1}
    Pausable = {}
    SubInflight <- TwoAtATime
    MaxInflight = 1
    MaxAppInflight = 1
    CarrierSlots = 0
    LeaseTicks = 1
    Backoff <- OneTick
    MaxAttempts = 2
    MaxReplays = 1
    MaxThrows = 1
SPECIFICATION FairSpec
INVARIANTS OneLeasePerKey FirstSeenInKeyOrder SendsApart AtMostOnceReached
PROPERTIES EventuallySettled StopReturns
