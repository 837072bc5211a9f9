SPECIFICATION BootSpec
CONSTANTS
  MAX_HTTP_OUTPUT_BUFFER = 2
  Lengths = {1, 3}
  MaxData = 2
INVARIANT BootTypeOK
INVARIANT IntactUnlessOverlap
INVARIANT LastByteKept
INVARIANT HeardFromTheFirst
INVARIANT SetUpBeforeUse
PROPERTY BootCompletes
PROPERTY PairingAnswered
