SPECIFICATION FairSpec
CONSTANTS
  BufferSize = 2
  MaxBytes = 5
  Tries = 1
  Retries = 1
INVARIANTS ToldOnce UnendedOnlyAtBlockBoundary
PROPERTIES ImplementsTransfer RetrievalEnds
