SPECIFICATION Spec
CONSTANTS
    daily = daily
    replay = replay
    memo = memo
    l1 = l1
    l2 = l2
    Runs = {daily, replay, memo}
    RunType <- MCRunType
    Refs = {l1, l2}
    Books <- MCBooks
    LimitSets <- MCLimits
    Calls = {c1, c2, c3}
    Reports = {s1}
    LastDay = 2
    SignoffRuns = 2
    ExportRows = 3
    None = None
CONSTRAINT Scenes
SYMMETRY Symmetry
CHECK_DEADLOCK FALSE
INVARIANTS
    OneBreakPerLine
    BreaksAreDue
    AnnouncedIsOnFile
    AuditPrecedes
    ReportHasWhatSettled
