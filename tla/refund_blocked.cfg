SPECIFICATION Spec
CONSTANTS
    Requests = {r1}
    People = {alice, bob}
    Cases = {d1}
    theirs = theirs
    other = other
    Consents = {theirs, other}
    ConsentOf <- MCConsentOf
    Calls = {}
    Amounts = {m1}
    None = None
ACTION_CONSTRAINT SettledWhileAsked
SYMMETRY Symmetry
CHECK_DEADLOCK FALSE
PROPERTIES
    NoDoubleCompensation
