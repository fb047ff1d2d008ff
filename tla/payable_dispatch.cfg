SPECIFICATION Spec
CONSTANTS
    Requests = {r1}
    People = {alice, bob, carol}
    m1 = m1
    k1 = k1
    Payables = {m1}
    Keys = {k1}
    KeyOf <- MCKeyOf
    Calls = {c1, c2, c3}
    Lines = {}
    None = None
SYMMETRY Symmetry
CHECK_DEADLOCK FALSE
INVARIANTS
    LedgerCitesTheClose
    LedgerIsBackedByP9
    AnsweredIsRecorded
