SPECIFICATION FairSpec
CONSTANTS
    candidate = candidate
    builds = builds
    page = page
    Sessions <- MCSessions
    Candidates = {candidate}
    Builds = {builds}
    Pages = {page}
    None = None
    Refused = Refused
    Failed = Failed
    End = 2
    MaxInFlight = 2
    MaxFaults = 1
CHECK_DEADLOCK FALSE
INVARIANTS
    OneTimelyListRequest
    StagingRunsAreConsistent
PROPERTIES
    EndIsShown
    EndIsNotForgotten
