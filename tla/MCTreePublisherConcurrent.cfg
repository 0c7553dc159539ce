SPECIFICATION Spec
CONSTANTS
    None = None
    Releases <- MCReleases
    StagingRuns <- MCStagingRuns
    CountryOf <- MCCountryOf
    ContentAt <- MCContentAt
    Contents = {1, 2}
    Countries = {"uk"}
    MCIds = {"a"}
    MCStagingIds = {"t"}
    Commits = {1, 2}
    MaxVersion = 1
    Publishers = {"job", "operator"}
    Grouped = {"job"}
    Recorded = {"uk"}
    MaxFaults = 0
INVARIANTS
    ManifestIsValid
    ListedBuildsAreStored
