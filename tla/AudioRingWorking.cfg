SPECIFICATION StreamingSpec
CONSTANTS
  HIGHEST_WATER = 8
  PREFETCH_WATER = 5
  ItemSizeUpTo = 2
  PacketSizes <- MCPacketSizes
PROPERTY WorkingModesWork
