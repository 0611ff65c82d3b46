SPECIFICATION FairSpec
CONSTANTS
    Servers = 2
    MaxCommands = 2
    MaxConnects = 2
    MaxFaults = 1
INVARIANTS
    TypeOK
    CommandsRoutedOnce
PROPERTIES
    ReadersRegistered
    GetsAnswered
\* the system rests when the bounds are reached
CHECK_DEADLOCK FALSE
