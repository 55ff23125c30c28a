SPECIFICATION Spec
CONSTANTS
    Bytes = {0, 251}
    MaxRest = 2
    MaxEdits = 1
CHECK_DEADLOCK FALSE
INVARIANTS
    TypeOK
    RoundTrip
    Canonical
