SPECIFICATION Spec
CONSTANTS
    owner = owner  lead = lead  bot = bot
    c1 = c1  c2 = c2  c3 = c3  c4 = c4
    h1 = h1  h2 = h2  b1 = b1  b2 = b2
    None = None
    Principal = {lead, bot}
    Approver = {lead}
    Restacker = {bot}
    Change = {c1, c2, c3}
    Heads = {h1, h2}
    Branch = {b1}
    MaxSeq = 3
    MaxUpdates = 1
    MaxRecords = 1
    MaxReports = 1
CONSTRAINT OneGrows
SYMMETRY Symmetry
INVARIANTS
    SeqIsPlace
    HeadsHeld
    ReportsOfRecorded
    RecordsBounded
PROPERTIES
    RecordsFollowLifecycle
