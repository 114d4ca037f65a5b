CONSTANTS
    a = a
    b = b
    c = c
    p1 = p1
    p2 = p2
    r1 = r1
    NoOne = NoOne
    Id = {a, b, c}
    AppIds = {}
    Sandbox = {}
    Publisher = {p1, p2}
    Batches <- PairAndSingle
    Reader = {r1}
    Wanted = {a, c}
    Narrow = {TRUE,FALSE}
    Limit = 1
    ScanMax = 2
    PageSize = 1
    HotAge = 1
    SandboxAge = 1
    ReplayAges = {2}
    ReceiptAge = 2
    Quota = 9
    MaxSeq = 1
SPECIFICATION FairSpec
INVARIANTS CursorsSound
PROPERTIES ReaderCatchesUp PublishEnds
