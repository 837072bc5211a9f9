SPECIFICATION Spec
CONSTANTS
  MAX_HTTP_OUTPUT_BUFFER = 4
  Lengths = {3, 5}
  MaxData = 3
INVARIANT ResponseIntact
