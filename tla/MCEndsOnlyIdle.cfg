\* One source.
CONSTANTS
    k1 = k1
    Keys = {k1}
    Chatty = {}
    MaxDatagrams = 3
    Capacity = 1
    IdleTimeout = 2
SPECIFICATION Spec
INVARIANT EndsOnlyIdle
