\* Late answers, cancels and disconnects against a dispatch that asks.
SPECIFICATION Spec
CONSTANTS
    i1 = i1
    i2 = i2
    i3 = i3
    i4 = i4
    RawIds = {i1, i2, i3, i4}
    FreshIds = TRUE
    ToolClasses <- AskClasses
    Replies = {"calls", "text"}
    Configured = {TRUE}
    ChanCap = 1
    FrameCap = 1
    MaxRounds = 2
    MaxContinues = 1
    MaxFailed = 2
    MaxCalls = 1
    MaxChats = 2
    MaxCancels = 1
    MaxReqs = 3
SYMMETRY Symmetry
INVARIANTS
    TypeOK
    ConfirmedIfIdsFresh
    CancelStopsLoop
    FlushOncePerCycle
PROPERTIES
    ServiceKept
CHECK_DEADLOCK FALSE
