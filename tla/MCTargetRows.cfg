SPECIFICATION FairSpec
CONSTANTS
    Instances = {x, y}
    Requests = {r1, r2}
    Builds = {b1, b2}
    Pairs = {p}
    Parts <- MCParts
    Sums = {"targets"}
    Versions = {1, 2}
    First = 1
    None = None
    MaxFaults = 1
    Names = {m, n}
    FactKeys = {k}
    Identities = {j}
CHECK_DEADLOCK FALSE
INVARIANTS
    IndexedComparisonsAreWhole
    RedirectsCanBeRead
    MatchingIsOneToOne
    LossesAreVerified
    ViewsOfTargetsAgree
PROPERTIES
    PartsNeverChange
    AskedPairsAreBuilt
