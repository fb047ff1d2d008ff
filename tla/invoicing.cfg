SPECIFICATION Spec
CONSTANTS
    Requests = {r1, r2}
    People = {alice, bob}
    Files = {f1}
    Matches = {c1, c2}
    InvoiceRuns = {i1, i2}
    MaxVariances = 1
    None = None
SYMMETRY Symmetry
CHECK_DEADLOCK FALSE
INVARIANTS
    SentIsReconciled
    CountedBreaksAreRaised
    SentIsGranted
