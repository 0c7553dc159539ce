SPECIFICATION Spec
CONSTANTS
    None = None
    Releases <- MCReleases
    StagingRuns <- MCStagingRuns
    CountryOf <- MCCountryOf
    ContentAt <- MCContentAt
    Contents = {1, 2}
    Countries = {"uk"}
    MCIds = {"a"}
    MCStagingIds = {"t"}
    Commits = {1, 2}
    MaxVersion = 2
    Publishers = {job1, job2}
    Grouped = {job1, job2}
    Recorded = {}
    MaxFaults = 2
INVARIANTS
    TypeOK
PROPERTIES
    ListedBuildsStayListed
    FailedNeverLatest
    ImplementsCatalog
SYMMETRY Symmetry
