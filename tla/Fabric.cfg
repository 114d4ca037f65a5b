SPECIFICATION FairSpec
CONSTANTS
    p1 = p1 p2 = p2 k = k k2 = k2 Nothing = Nothing NoKey = NoKey NoPolicy = NoPolicy
    Process = {p1, p2}
    Linked = {p1}
    Plans <- MCPlans
    OpenAfter = 1
    HalfOpenAfter = 1
    MaxChain = 1
    Patterns = 2
    ValueAt <- MCValueAt
    Subject = k
    Missing = Nothing
    Reload = 2
CHECK_DEADLOCK FALSE
INVARIANTS CarriersSound PoliciesInForce OneCarrierPerBacklog Explained
PROPERTIES CleanStopDeletes EventuallyReady
