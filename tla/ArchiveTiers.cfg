SPECIFICATION Spec
CONSTANTS
    p1 = p1 p2 = p2 j1 = j1 j2 = j2
    N = 2
    Batch = 1
    Pruner = {p1, p2}
    Job = {j1, j2}
    MaxRewrites = 1
    MaxJobs = 3
CHECK_DEADLOCK FALSE
SYMMETRY Symmetry
INVARIANTS OriginalOnlyRestored ArchiveKept
PROPERTIES LeavesByRule
