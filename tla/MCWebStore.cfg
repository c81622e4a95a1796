SPECIFICATION Spec
CONSTANTS
    p1 = p1  p2 = p2  r1 = r1  None = None
    Project = {p1, p2}
    Exports <- MCExports
    Naming <- MCNaming
    Reader = {r1}
    MaxAuthorization = 3
    MaxFaults = 2
CHECK_DEADLOCK FALSE
PROPERTIES
    KeptInUse
    AnswersHeld
    ServesForward
