SPECIFICATION Spec
CONSTANTS
    Session = {s1, s2}
    Upstream = {u1}
    MaxRequests = 1
    MaxBlocks = 1
INVARIANT ResponseCompleted
