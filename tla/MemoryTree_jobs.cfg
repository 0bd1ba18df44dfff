\* Two workers; leases that run out, failures and repeated ingests.
SPECIFICATION LiveSpec
CONSTANTS
    c1 = c1
    c2 = c2
    s1 = s1
    s2 = s2
    None = None
    Workers = {w1, w2}
    Callers = {i1}
    Chunks = {c1, c2}
    Sources = {s1, s2}
    Low = {}
    Documents <- Shared
    Threshold = 2
    MaxIngests = 3
    MaxFaults = 1
INVARIANTS
    TypeOK
    SealedIsSummarized
    SealedOnceUnlessRedone
    FullBufferHasJobUnlessMissed
PROPERTIES
    NoJobStranded
CHECK_DEADLOCK FALSE
