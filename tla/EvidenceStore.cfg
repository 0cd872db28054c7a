SPECIFICATION Spec
CONSTANTS
    Id = {i1, i2, i3}
    Run = {r1, r2}
    Client = {c1, c2}
    NoCall = NoCall
    Payload = {p1}
    WellFormed <- MCWellFormed
SYMMETRY MCSymmetry
INVARIANTS
    AlwaysReadable
    AckedDurable
PROPERTIES
    ImplementsLedger
