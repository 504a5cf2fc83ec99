\* Two connections on a pool of one slot, without a limit, and one Broadcast, of a message
\* that may fill a send buffer.
SPECIFICATION BroadcastSpec
CONSTANTS
  Conns = {c1, c2}
  Nil = Nil
  DefaultMaxOpenConn = 1
  MaxBacklog = 1
  Limits = {0}
  Overlap = FALSE
  MayFill = TRUE
INVARIANTS
  ToldOnce
  StableIsTold
  CrashNeedsReset
PROPERTY BroadcastReturns
\* The server stops when a panic ends the process.
CHECK_DEADLOCK FALSE
