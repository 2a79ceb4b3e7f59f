SPECIFICATION Spec
CONSTANTS
    Keys = {k1}
    Clients = {c1, c2}
    Specs = {s1, s2}
    Statuses = {t1, t2}
    MaxXid = 4
    NoKey = NoKey
    NoClient = NoClient
    NoContent = NoContent
SYMMETRY Symmetry
INVARIANTS WriteSafe IInv
PROPERTIES ImplementsStampedTable NoLostUpdate
CHECK_DEADLOCK FALSE
