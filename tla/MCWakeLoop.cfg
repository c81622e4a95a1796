SPECIFICATION FairSpec
CONSTANTS
    w1 = w1  w2 = w2
    Writer = {w1}
    MaxMoves = 2
    MaxLandings = 1
    MaxErrors = 1
    MaxBreaks = 2
CHECK_DEADLOCK FALSE
INVARIANTS
    AwakeToMarks
    DuePassesAreMarked
PROPERTIES
    MarksAreServed
    IntervalRecovers
