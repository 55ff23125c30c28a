SPECIFICATION Spec
CONSTANTS
    Streams = {s1, s2}
    Bytes = {b1, b2}
    KeyIds = {k1, k2}
    KeyLens = {0, 8, 32, 65}
    OutLens = {15, 32, 64, 65}
    MaxLen = 2
SYMMETRY Symmetry
INVARIANTS
    TypeOK
    AgreesWithOneShot
    FinalizedMeansReturned
    VerifyExact
