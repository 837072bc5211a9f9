SPECIFICATION Spec
CONSTANTS
  Senders = {"rtc", "adc", "weather"}
  Voltages = {1825, 2074, 2075}
  Numbers = {7, 31}
INVARIANT TypeOK
INVARIANT Recovers
PROPERTY OnlyTornLost
