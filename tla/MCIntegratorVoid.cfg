SPECIFICATION MCSpec
CONSTANTS
    h1 = h1  h2 = h2  c1 = c1  s1 = s1
    strict = strict  watch = watch  hand = hand
    None = None  Unread = Unread
    Controller = {watch}
    Name <- MCName
    Heads <- MCHeads
    Change = {c1}
    Signer = {s1}
    SignerSet <- MCSignerSet
    Floor = {strict}
    NeedsEvidence = {strict}
    NamedFor <- MCNamedFor
    Brings <- MCStacked
    MergeHead = {}
    Conflicts <- MCConflicts
    Disturbs <- MCDisturbs
    Successor <- MCAccept
    LandingTries = 2
    NoteLimit = 3
    MaxMoves = 3
    MaxFaults = 0
CHECK_DEADLOCK FALSE
PROPERTY
    VoidsOnlyWhileWithdrawn
