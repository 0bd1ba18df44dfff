\* A client that comes and goes, with crashes and failing writes, and two clients
\* at a time.
SPECIFICATION Spec
CONSTANTS
    c1 = c1
    c2 = c2
    Conns = {c1, c2}
    OldRegistries <- OldFiles
    KeepRecent = 1
    MaxThreadId = 2
    MaxProjectId = 2
    MaxMsgs = 2
    MaxFaults = 1
SYMMETRY Symmetry
CONSTRAINTS
    MeetingsAreShort
ACTION_CONSTRAINTS
    MeetingsHaveNoFaults
INVARIANTS
    TypeOK
    OneForeground
    ActiveProjectExists
    ProjectIdsFresh
    SavedStays
    MessagesSavedBeforeNextStep
CHECK_DEADLOCK FALSE
