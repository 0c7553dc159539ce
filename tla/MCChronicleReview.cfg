SPECIFICATION Spec
CONSTANTS
    ann = ann
    bob = bob
    one = one
    two = two
    Operators = {ann, bob}
    Runs = {one, two}
    Facts = 3
    Kind <- MCKind
    Sizes = {2, 3}
    Failed = Failed
    None = None
    Budgets <- MCBudgets
    BuildYear = 2024
    SourceYears = {2022, 2023}
    Reviews <- MCReviews
SYMMETRY Symmetry
CHECK_DEADLOCK FALSE
INVARIANTS
    BundlesAreWhole
    ServedDocumentsAgree
    QueriesFindEveryFact
    ReviewsNameTheWork
PROPERTIES
    PublishedFilesNeverChange
