SPECIFICATION Spec
CONSTANTS
    MaxReplicas = 5
    DefaultReplicas = 3
    Counts <- ThreeOrFive
    MaxChanges = 1
    MaxFaults = 1
INVARIANTS
    QuorumsIntersect
\* the system rests when the bounds are reached
CHECK_DEADLOCK FALSE
