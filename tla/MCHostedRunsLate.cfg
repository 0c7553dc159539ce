SPECIFICATION FairSpec
CONSTANTS
    candidate = candidate
    builds = builds
    page = page
    Sessions <- MCListSession
    Candidates = {candidate}
    Builds = {builds}
    Pages = {page}
    None = None
    Refused = Refused
    Failed = Failed
    End = 3
    MaxInFlight = 2
    MaxFaults = 0
CHECK_DEADLOCK FALSE
PROPERTIES
    FinishedRunsAreComplete
