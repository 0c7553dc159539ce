SPECIFICATION FairSpec
CONSTANTS
    Releases = {line}
    Builds = {first, second}
    None = None
    line = line
    first = first
    second = second
    ReleaseRepos = {release}
    StagingRepos = {staging}
    Channels = {release}
    InitialRecord <- MCInitialRecord
    Pushed <- MCPushed
    MaxDeliveries = 2
    MaxFaults = 1
CHECK_DEADLOCK FALSE
INVARIANTS
    RetriesNeverRepeatMessages
    AnsweredDeliveriesTellTheChange
    LastReconciliationIsOfTheHead
PROPERTIES
    DeliveriesAreAnswered
    NewestDispatchRuns
