SPECIFICATION FairSpec
CONSTANTS
  Peers <- MCPeers
  QUEUE_LENGTH = 3
INVARIANT TypeOK
INVARIANT CapabilitiesCurrent
INVARIANT ChainKept
PROPERTY Registered
