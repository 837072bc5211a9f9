SPECIFICATION FairSpec
CONSTANTS
  QUEUE_LENGTH = 4
INVARIANT TypeOK
INVARIANT ChecksPass
INVARIANT Settled
INVARIANT AstrayOnlyInShutDown
PROPERTY DiscoverableAgain
