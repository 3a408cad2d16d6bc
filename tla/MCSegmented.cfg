SPECIFICATION Spec
CONSTANTS
    Workers = {w1, w2}
    Total = 3
    QueueDepth = 3
    Lease <- SmallLease
    ProbeCap = 1
    MaxVersion = 2
    MaxEvents = 2
SYMMETRY Symmetry
INVARIANTS JournalBehindDisk WorkIsPartitioned CompletedIsWhole NoOrphanHole
