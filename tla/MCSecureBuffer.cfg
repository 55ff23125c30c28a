SPECIFICATION Spec
CONSTANTS
    Buffers = {b1, b2}
    Secrets = {s1, s2}
    Zero = Zero
    Garbage = Garbage
    KeySizes = {1, 2}
    MaxCap = 4
SYMMETRY Symmetry
INVARIANTS
    TypeOK
    SingleHolder
    TerminatedUnlessTorn
PROPERTY
    WipeErases
