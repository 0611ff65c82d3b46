SPECIFICATION FairReadsSpec
CONSTANTS
    n1 = n1
    n2 = n2
    Node = {n1, n2}
    ConfigNodes <- StaticConfig
    Key = {k1, k2}
    Value = {v1}
    NoValue = NoValue
    MaxEntries <- Two
    MaxRestarts = 3
INVARIANTS
    CaughtUpReplicaExact
PROPERTIES
    MonotonicReads
    Convergence
\* the system rests when the bounds are reached
CHECK_DEADLOCK FALSE
