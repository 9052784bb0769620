\* Every 12-bit target through the codec (3-bit digits, 4 digits).
CONSTANTS
  DigitBits = 3
  Digits = 4
SPECIFICATION Spec
INVARIANTS EncodeRoundsDown BlockWorkOrdered
