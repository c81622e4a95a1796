SPECIFICATION FairSpec
CONSTANTS
    c1 = c1  c2 = c2  t1 = t1  t2 = t2  k1 = k1  k2 = k2
    None = None
    Change = {c1, c2}
    Tree = {t1, t2}
    Check = {k1, k2}
    Pid = {1, 2}
    Estimate = {1, 2}
    Budget = 2
    Batches = 2
    Heads <- FirstTrees
    MaxEvents = 1
INVARIANTS
    TypeOK
    MarksKept
    OneBuilder
    MemoryHeld
PROPERTIES
    BuiltOnce
    RetriesWait
    EventuallyPublished
    MarksHandled
