SPECIFICATION FairSpec
CONSTANTS
    c1 = c1
    c2 = c2
    None = None
    Change <- MCChange
    Under <- MCUnder
    Uses <- MCUses
    Conflicts <- MCConflicts
    Empties <- MCEmpties
    Cap = 2
    MaxSteps = 4
    MaxTip = 3
    MaxWork = 2
    MaxOps = 2
    MaxMoves = 1
    MaxFaults = 2
INVARIANTS
    TypeOK
    JournalKept
    JournalAgrees
    MovedIsSeenThrough
PROPERTIES
    OnlyRecordedWorkMoves
    LetGoReported
    KeepsPromise
    Settles
