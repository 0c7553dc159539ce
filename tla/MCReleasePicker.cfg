SPECIFICATION FairSpec
CONSTANTS
    None = None
    Releases <- MCReleases
    StagingRuns <- MCStagingRuns
    CountryOf <- MCCountryOf
    ContentAt <- MCContentAt
    Contents = {1, 2}
    Countries = {"uk"}
    MCIds = {"a"}
    MCStagingIds = {"t"}
    Commits = {1, 2}
    MaxVersion = 1
    Publishers = {"job"}
    Grouped = {"job"}
    Recorded = {"uk"}
    MaxFaults = 2
    Missing = Missing
    Refused = Refused
INVARIANTS
    PagesShowTheTree
    ReleasesAreOffered
PROPERTIES
    MissedPublicationsAreRepaired
    LatestCatchesUp
