SPECIFICATION Spec
CONSTANTS
    None = None
    Workers = {w1, w2}
    Principals = {u1, u2}
    Metadata = {"build"}
    Producers = {1, 2, 3}
    Times = {1, 2}
    Batches <- MCBatches
INVARIANTS
    SnapshotIsCurrent
    StoredColumnsMatchReplay
    DocumentIsConsistent
PROPERTIES
    UpdatedAtNeverDecreases
    ImplementsLedger
SYMMETRY Symmetry
