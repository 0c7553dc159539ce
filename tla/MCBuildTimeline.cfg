SPECIFICATION Spec
CONSTANTS
    Stages = {a, b, c}
    None = None
    Versions <- MCVersions
    StallAfter = 1
    HeartbeatStaleAfter = 0
    SolverGap = 1
    PassEpochs = 2
    MaxDepth = 2
    MaxEvents = 3
    Calibrations = {a}
    MaxEpochs = 3
    MaxReports = 4
    MaxTime = 2
    HistoryLimit = 12
    RateWindow = 30
SYMMETRY Symmetry
CHECK_DEADLOCK FALSE
INVARIANTS
    TimelineFitsTheBuild
    EndsAreTrue
    StoppedRunsStayComparable
    ForecastsFitTheHistory
