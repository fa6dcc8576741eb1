SPECIFICATION FairSpec
CONSTANTS
  MaxFetch = 2
  MaxExchange = 2
  Retries = 1
INVARIANTS FirstInterestAlone AskedTwiceOnlyIfImpatient UncompletedRemoved
PROPERTIES CompletedKept FetchesFollow EveryFetchAnswered
