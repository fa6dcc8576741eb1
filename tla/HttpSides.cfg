SPECIFICATION FairSpec
CONSTANTS
    Request = {r1, r2}
    MaxBlocks = 2
INVARIANTS NamedByDigest HeaderFirst GivenUpOnlyIfHeaderless
PROPERTIES EveryEntryErased EveryRequestPublished
