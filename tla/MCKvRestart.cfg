SPECIFICATION Spec
CONSTANTS
    n1 = n1
    n2 = n2
    n3 = n3
    Node = {n1, n2, n3}
    ConfigNodes <- ScaleUp
    Key = {k1}
    Value = {v1}
    NoValue = NoValue
    MaxEntries <- OneThenTwo
    MaxRestarts = 1
PROPERTIES
    NoEntrySkipped
\* the system rests when the bounds are reached
CHECK_DEADLOCK FALSE
