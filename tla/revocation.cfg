SPECIFICATION Spec
CONSTANTS
    Requests = {r1, r2}
    People = {alice, bob}
    Consents = {x1, x2}
    Drafts = {d1}
    None = None
SYMMETRY Symmetry
CHECK_DEADLOCK FALSE
INVARIANTS
    RevokedWhereSaid
    DraftTellsItsStory
