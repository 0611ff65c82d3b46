SPECIFICATION FairSpec
CONSTANTS
    n1 = n1
    n2 = n2
    n3 = n3
    Node = {n1, n2, n3}
    ConfigNodes <- ScaleDown
    Key = {k1}
    Value = {}
    NoValue = NoValue
    MaxEntries <- ZeroThenTwo
    MaxRestarts = 0
PROPERTIES
    NoEntrySkipped
    ReconfigurationCompletes
\* the system rests when the bounds are reached
CHECK_DEADLOCK FALSE
