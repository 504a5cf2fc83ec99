\* Values of up to four of the characters the parser treats in different ways; the greatest
\* int is small, so that 100 overflows it and -100 does not, and the longest line is too
\* short for four characters that are all escaped.
SPECIFICATION Spec
CONSTANTS
  Chars = {"n", "A", "0", "1", "bs", "nl", "dq", "sq", "dollar", "hash", "plus", "minus"}
  MaxInt = 99
  MaxLine = 11
  MaxLen = 4
  Edits <- MCEdits
  MaxLines = 3
  MaxLoads = 2
INVARIANTS
  RoundTrip
  NumbersKept
PROPERTY LoadAsSpecified
CHECK_DEADLOCK FALSE
