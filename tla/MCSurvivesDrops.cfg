\* One reverse tunnel, a cut that the client notices before the server does.
CONSTANTS
    Remotes <- ReverseRemote
    Conns = {c1}
    Dynamic <- DynamicTargets
    Nowhere = Nowhere
    MaxSessions = 2
    MaxGap = 0
    MaxRestarts = 0
SPECIFICATION ProtocolFairSpec
PROPERTY SurvivesDrops
