\* Two sessions, with a cut and a restart of the server, ids shared with other
\* clients; one conn through any tunnel.
CONSTANTS
    Remotes <- MixedRemotes
    Conns = {c1}
    Dynamic <- DynamicTargets
    Nowhere = Nowhere
    MaxSessions = 2
    MaxGap = 1
    MaxRestarts = 1
SPECIFICATION ProtocolFairSpec
INVARIANTS SessionAgreed OpenConnNeverRefused
PROPERTIES ImplementsService HelloSettles PortsReleased
