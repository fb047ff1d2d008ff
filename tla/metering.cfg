SPECIFICATION IngestSpec
CONSTANTS
    t1 = t1
    t2 = t2
    psu = psu
    l1 = l1
    l2 = l2
    Clients = {t1, t2}
    Psus = {psu}
    Lfis = {l1, l2}
    PerServingLfi = TRUE
    Allowance <- MCAllowance
    Window = 2
    DayLength = 6
    MonthLength = 12
    Facts <- MCFacts
    Ingests = {c1, c2, c3}
    Batches <- MCBatches
SYMMETRY Symmetry
CHECK_DEADLOCK FALSE
INVARIANTS
    OneRunHasItAll
    PairedOnce
    FreePagesGivenOnce
