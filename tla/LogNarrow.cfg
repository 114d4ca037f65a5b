CONSTANTS
    a = a
    b = b
    c = c
    p1 = p1
    p2 = p2
    r1 = r1
    NoOne = NoOne
    Id = {a}
    AppIds = {}
    Sandbox = {}
    Publisher = {p1}
    Batches <- OneBatch
    Reader = {r1}
    Wanted = {a}
    Narrow = {TRUE}
    Limit = 1
    ScanMax = 1
    PageSize = 1
    HotAge = 1
    SandboxAge = 1
    ReplayAges = {2}
    ReceiptAge = 2
    Quota = 9
    MaxSeq = 2
SPECIFICATION Spec
INVARIANTS
    NarrowMissesNothing
