SPECIFICATION Spec
CONSTANTS
    Requests = {r1, r2}
    People = {alice, bob, carol}
    m1 = m1
    k1 = k1
    Payables = {m1}
    Keys = {k1}
    KeyOf <- MCKeyOf
    Calls = {c1}
    Lines = {b1}
    None = None
SYMMETRY Symmetry
CHECK_DEADLOCK FALSE
INVARIANTS
    TypeOK
    CloseNamesItsGrant
    OneCloseSucceeds
    DebitsAreAuthorised
