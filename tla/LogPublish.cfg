CONSTANTS
    a = a
    b = b
    c = c
    p1 = p1
    p2 = p2
    r1 = r1
    NoOne = NoOne
    Id = {a, b, c}
    AppIds = {a,b,c}
    Sandbox = {c}
    Publisher = {p1, p2}
    Batches <- PairRepeatSandbox
    Reader = {}
    Wanted = {}
    Narrow = {}
    Limit = 1
    ScanMax = 1
    PageSize = 1
    HotAge = 1
    SandboxAge = 1
    ReplayAges = {0,3}
    ReceiptAge = 2
    Quota = 2
    MaxSeq = 4
SPECIFICATION Spec
SYMMETRY Publishers
CHECK_DEADLOCK FALSE
PROPERTIES
    StoredOnce
    CommitOrder
