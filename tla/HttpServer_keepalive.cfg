SPECIFICATION FairSpec
CONSTANTS
    Session = {s1}
    Upstream = {u1, u2}
    MaxRequests = 2
    MaxBlocks = 1
INVARIANTS DroppedOnlyLong AnswerWakesSession OwnAnswer
PROPERTIES HeadFixesResponse EveryWaitEnds EveryEntryErased
