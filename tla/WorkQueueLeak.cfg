SPECIFICATION Spec
CONSTANTS
  QUEUE_LENGTH = 2
  BTC_LENGTH = 2
  MaxEvents = 5
  MaxCalls = 2
INVARIANT NoLeak
