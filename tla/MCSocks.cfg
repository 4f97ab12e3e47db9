\* Two datagrams that reach a conn, and any number that do not parse.
CONSTANTS
    MaxName = 8
    Keys <- RelayKeys
    Chatty = {}
    MaxDatagrams = 2
    Capacity = 1
    IdleTimeout = 1
    Traffic <- RelayTraffic
    Payload <- RelayPayload
SPECIFICATION SocksFairSpec
INVARIANTS ToldInOrder ParsedAsMeant RepliesIntact SourcesIsolated
PROPERTY AssociationReleased
CHECK_DEADLOCK FALSE
