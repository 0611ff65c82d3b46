SPECIFICATION Spec
CONSTANTS
    Key = {k1, k2}
    Value = {v1, v2}
    NoValue = NoValue
    MaxEntries = 4
SYMMETRY Symmetry
INVARIANTS
    TypeOK
    SnapshotExact
    InstallCatchesUp
    CreateLoopExact
    ReferenceExact
CHECK_DEADLOCK FALSE
