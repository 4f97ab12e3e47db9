\* One source and three conns: a conn can be replaced twice.  The target falls
\* silent at the first and the third and never at the second.
CONSTANTS
    k1 = k1
    Keys = {k1}
    Chatty = {2}
    MaxDatagrams = 3
    Capacity = 1
    IdleTimeout = 1
SPECIFICATION FairSpec
INVARIANT MapForgets
PROPERTIES MapDrains UnlistedEnds FarReleased
