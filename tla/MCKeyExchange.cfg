SPECIFICATION Spec
CONSTANTS
    Holders = {a, b}
    Draws = {r1, r2, r3}
    Passwords = {p1}
    Salts <- SomeSalts
    Profiles = {Moderate}
    KeySizes = {15, 32, 64}
    None = None
    MaxSent = 2
    MaxHandled = 2
    MaxWork = 5
SYMMETRY Symmetry
INVARIANTS
    TypeOK
    OnlyAddressee
    AddresseeOpens
CHECK_DEADLOCK FALSE
