\* ^C against every await of the client.
CONSTANTS
    RetryLimits = {2}
    NoLimit = NoLimit
    InitialBackoff = 1
    MaxBackoffs = {4}
    U32Max = 3
SPECIFICATION FairSpec
PROPERTY ShutdownWins
