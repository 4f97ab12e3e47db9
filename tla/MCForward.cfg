SPECIFICATION Spec
CONSTANTS
    k1 = k1  k2 = k2  k3 = k3
    f1 = f1  r1 = r1  s1 = s1  q1 = q1
    c1 = c1  c2 = c2  c3 = c3  a1 = a1  a2 = a2
    NoTunnel = NoTunnel
    Clients = {k1, k2, k3}
    Tunnels = {f1}
    Conns = {c1, c2, c3}
    Streams = {c1, c2, c3}
    Owner <- ForwardOwner
    TunnelOf <- ForwardTunnelOf
    Via <- ForwardVia
    Direction <- ForwardDirection
    Kind <- ForwardKind
    Dynamic <- ForwardDynamic
    AllowReverse = FALSE
    AllowSocks = FALSE
    MaxConnections = 2
    MaxBytes = 2
    HISTORY_CAPACITY = 2
INVARIANTS CapHolds OpenConnFindsTunnel HistoryExact
