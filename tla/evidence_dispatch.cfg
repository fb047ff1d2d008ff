SPECIFICATION Spec
CONSTANTS
    e1 = e1
    e2 = e2
    j1 = j1
    Documents = {e1, e2, j1}
    Journals = {j1}
    Works <- MCWorks
    Versions = {v1, v2}
    Calls = {c1, c2, c3}
    None = None
SYMMETRY Symmetry
CHECK_DEADLOCK FALSE
INVARIANTS
    EveryAcceptanceLeavesARow
PROPERTIES
    ImplementsOutbox
