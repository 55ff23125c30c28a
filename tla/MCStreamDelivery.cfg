SPECIFICATION FairSpec
CONSTANTS
    Encs = {e1, e2}
    Decs = {d1, d2}
    Sessions = {s1}
    Keys = {k1, k2}
    Headers = {h1, h2}
    Messages = {m1}
    None = None
    TouchMovedFrom = FALSE
    MaxChunks = 2
INVARIANTS
    TypeOK
    NoStateReuse
    DeliveredIsPrefix
    FinalMeansComplete
PROPERTIES
    KeepsPromise
    NeverStuck
CHECK_DEADLOCK FALSE
