SPECIFICATION Spec
CONSTANTS
    Nonces = {o1, o2}
    Keys = {k1}
    Draws = {r1, r2}
    ZeroBase = ZeroBase
    LazyNonces = {}
    NPUB = 1
    MaxSize = 2
    Width = 3
INVARIANT
    ReadyUponConstruction
