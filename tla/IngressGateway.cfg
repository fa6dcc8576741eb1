SPECIFICATION GatewaySpec
CONSTANTS
    s1 = s1
    s2 = s2
    k1 = k1
    k2 = k2
    Session = {s1, s2}
    Upstream = {u1, u2}
    MaxRequests = 1
    MaxBlocks = 0
    Key = {k1, k2}
    Sha1 <- Digests
    Thread = {t1}
CONSTRAINT Bounds
SYMMETRY Symmetry
INVARIANT RightAnswer
PROPERTY ImplementsParts
