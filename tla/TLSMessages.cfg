SPECIFICATION Spec
CONSTANTS
  Messages <- MCMessages
  ByteBase = 16
  RandomLen = 2
  MaxSessionId = 2
  PadBlock = 4
  MaxHandshake = 2000
INVARIANTS
  RoundTrip
  DecodeNeverPanics
CHECK_DEADLOCK FALSE
