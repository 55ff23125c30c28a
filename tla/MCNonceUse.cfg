SPECIFICATION Spec
CONSTANTS
    Nonces = {l1, e1, e2}
    Keys = {k1}
    LazyNonces = {l1}
    Draws = {r1}
    ZeroBase = ZeroBase
    NPUB = 1
    MaxSize = 1
    Width = 2
SYMMETRY Symmetry
INVARIANTS
    TypeOK
    ReuseExplained
    UnusedMeansUnsealed
    BasesNotShared
