SPECIFICATION FairSpec
CONSTANTS
    Endpoints = 2
    MaxBlocks = 2
    MaxLong = 4
    Octet = Octet
    Bodies <- SmallBodies
INVARIANTS CompleteIsWhole RequestSentWhole
PROPERTIES ImplementsHttpSide EveryReadEnds
