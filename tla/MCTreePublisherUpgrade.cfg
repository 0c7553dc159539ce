SPECIFICATION FairSpec
CONSTANTS
    None = None
    Releases <- MCReleases
    StagingRuns <- MCStagingRuns
    CountryOf <- MCCountryOf
    ContentAt <- MCContentAt
    Contents = {1, 2}
    Countries = {"uk"}
    MCIds = {}
    MCStagingIds = {"t"}
    Commits = {1}
    MaxVersion = 2
    Publishers = {"job"}
    Grouped = {"job"}
    Recorded = {"uk"}
    MaxFaults = 1
PROPERTIES
    MissedPublicationsAreRepaired
