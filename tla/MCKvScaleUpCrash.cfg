SPECIFICATION Spec
CONSTANTS
    n1 = n1
    n2 = n2
    n3 = n3
    Node = {n1, n2}
    Key = {k1}
    Value = {v1}
    NoValue = NoValue
    ConfigNodes <- FirstScaleUp
    MaxEntries <- TwoThenOne
    MaxRestarts = 2
INVARIANTS
    TypeOK
    ConfigurationsInSequence
    CatchupCarriesFinalState
\* the system rests when the bounds are reached
CHECK_DEADLOCK FALSE
