\* Two bytes in each direction, one in flight: every close can overtake data.
CONSTANTS
    MaxWrites = 2
    Window = 1
    SocketBuffer = 1
SPECIFICATION FairSpec
INVARIANTS EofMeansComplete QuietIsLossless
PROPERTY ErrorReachesPeer
