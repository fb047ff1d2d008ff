SPECIFICATION Spec
CONSTANTS
    Requests = {r1, r2}
    People = {alice, bob}
    Cases = {d1}
    theirs = theirs
    other = other
    Consents = {theirs}
    ConsentOf <- MCConsentOf
    Calls = {c1, c2}
    Amounts = {m1, m2}
    None = None
SYMMETRY Symmetry
CHECK_DEADLOCK FALSE
INVARIANTS
    RefundsAreGranted
    RowIsBackedByP6
PROPERTIES
    OnlyTheGateRefunds
