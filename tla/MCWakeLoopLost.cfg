SPECIFICATION FairSpec
CONSTANTS
    w1 = w1  w2 = w2
    Writer = {w1}
    MaxMoves = 1
    MaxLandings = 0
    MaxErrors = 1
    MaxBreaks = 0
CHECK_DEADLOCK FALSE
PROPERTY
    MarksAreNeverLost
