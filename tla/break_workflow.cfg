SPECIFICATION WorkSpec
CONSTANTS
    Breaks = {b1}
    Edits = {c1, c2, c3}
    Requests = {r1}
    People = {alice, bob}
    Keys = {k1}
    Asked <- MCAsked
    Null = Null
SYMMETRY Symmetry
CHECK_DEADLOCK FALSE
INVARIANTS
    RowTellsOneStory
    OneTakerPerOpening
    ReopensAreGranted
    AnsweredIsAudited
PROPERTIES
    ClaimantKeepsBreak
    ImplementsBreakLife
