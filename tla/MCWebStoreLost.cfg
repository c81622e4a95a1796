SPECIFICATION FairSpec
CONSTANTS
    p1 = p1  p2 = p2  r1 = r1  None = None
    Project = {p1, p2}
    Exports <- MCExports
    Naming <- MCNaming
    Reader = {}
    MaxAuthorization = 2
    MaxFaults = 0
CHECK_DEADLOCK FALSE
PROPERTIES
    WithdrawnIsDeleted
