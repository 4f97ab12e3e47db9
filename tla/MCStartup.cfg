CONSTANTS
    U32Max = 3
    Ports <- MCPorts
    Ips <- MCIps
    Jobs <- MCJobs
    MaxFaults = 2
SPECIFICATION FairSpec
INVARIANTS TlsFromOnePlace ClientStartsWhole RemoteAsMeant SplitExact 
PROPERTIES FingerprintStable ServesAgain
CHECK_DEADLOCK FALSE
