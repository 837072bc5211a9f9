SPECIFICATION StreamingSpec
CONSTANTS
  HIGHEST_WATER = 8
  PREFETCH_WATER = 5
  ItemSizeUpTo = 2
  PacketSizes <- MCPacketSizes
INVARIANT TypeOK
INVARIANT NoDangling
INVARIANT GiveNeverFails
INVARIANT PrefetchingMeansWaiting
PROPERTY StallsOnlyByLostMode
PROPERTY ImplementsPipe
PROPERTY PlaybackStarts
