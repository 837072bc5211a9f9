SPECIFICATION FairSessionSpec
CONSTANTS
  HIGHEST_WATER = 3
  PREFETCH_WATER = 2
  ItemSizeUpTo = 2
  PacketSizes <- MCPacketSizes
  QUEUE_LENGTH = 2
INVARIANT SessionTypeOK
INVARIANT DataFindsRing
INVARIANT SessionSettled
PROPERTY ImplementsRing
PROPERTY SessionEnds
CHECK_DEADLOCK FALSE
