SPECIFICATION FairSpec
CONSTANTS
    MaxReplicas = 3
    DefaultReplicas = 2
    Counts <- TwoOrThree
    MaxChanges = 2
    MaxFaults = 1
INVARIANTS
    TypeOK
PROPERTIES
    LeaderReconfigures
    CountRecorded
\* the system rests when the bounds are reached
CHECK_DEADLOCK FALSE
