SPECIFICATION Spec
CONSTANTS
  Senders = {"adc"}
  Voltages = {1825, 2074, 2075}
  Numbers = {7, 31}
INVARIANT NumFits
