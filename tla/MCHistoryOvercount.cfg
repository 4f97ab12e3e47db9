SPECIFICATION Spec
CONSTANTS
    k1 = k1  k2 = k2  k3 = k3
    f1 = f1  r1 = r1  s1 = s1  q1 = q1
    c1 = c1  c2 = c2  c3 = c3  a1 = a1  a2 = a2
    NoTunnel = NoTunnel
    Clients = {k1}
    Tunnels = {s1, r1}
    Conns = {c1, a1}
    Streams = {c1}
    Owner <- PairOwner
    TunnelOf <- PairTunnelOf
    Via <- PairVia
    Direction <- PairDirection
    Kind <- PairKind
    Dynamic <- PairDynamic
    AllowReverse = TRUE
    AllowSocks = TRUE
    MaxConnections = 1
    MaxBytes = 1
    HISTORY_CAPACITY = 2
INVARIANTS HistoryNeverOvercounts
