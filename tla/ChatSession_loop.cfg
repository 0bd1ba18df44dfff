\* Every reply of the model, and what the scheduler guarantees.
SPECIFICATION LiveSpec
CONSTANTS
    i1 = i1
    i2 = i2
    i3 = i3
    i4 = i4
    RawIds = {i1}
    FreshIds = FALSE
    ToolClasses <- PlainClasses
    Replies = {"calls", "text", "intent", "ack", "auth"}
    Configured = {TRUE, FALSE}
    ChanCap = 1
    FrameCap = 1
    MaxRounds = 2
    MaxContinues = 1
    MaxFailed = 2
    MaxCalls = 1
    MaxChats = 1
    MaxCancels = 1
    MaxReqs = 2
PROPERTIES
    ChatEnds
    ConnectionEnds
CHECK_DEADLOCK FALSE
