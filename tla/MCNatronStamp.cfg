SPECIFICATION Spec
CONSTANTS
    Keys = {a, b}
    Secrets = {s1, s2}
    ZeroKey = ZeroKey
    Gone = Gone
    MultiKeys = {m}
    Texts = {x}
    Width = 6
    Skew = 1
    MaxTime = 3
    Ttls <- Lifetimes
    NoTtl = NoTtl
    MaxTokens = 2
INVARIANT
    StampAuthenticated
