\* Two writers and one reader; messages of one byte and of more than half a buffer,
\* which together fill it; frames cut in the header and in the payload.
SPECIFICATION Spec
CONSTANTS
  Radix = 4
  Writers = {w1, w2}
  Sizes = {1, 9}
  ReadSizes = {9}
  Cuts = {0, 1, 2, 5}
  MaxPayload = 15
  MaxInFlight = 1
INVARIANTS
  TypeOK
  Framing
  GrowthSuffices
  PanicNeedsFailure
PROPERTY ShortOnlyWhenFull
\* The reader ends with the connection, the program with a panic.
CHECK_DEADLOCK FALSE
