SPECIFICATION FairSpec
CONSTANTS
    Node <- TwoNodes
    Talkers <- OneTalks
    ChannelSize = 2
    QueueSize = 2
    SocketSize = 2
    MaxMessages = 3
    MaxConnects = 5
    MaxFaults = 1
    MaxTorn = 1
PROPERTIES
    PeerTasksContinue
\* the system rests when the bounds are reached
CHECK_DEADLOCK FALSE
