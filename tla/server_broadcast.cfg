\* Two connections in a pool of two slots while Broadcast counts its successes.
SPECIFICATION BroadcastSpec
CONSTANTS
  Conns = {c1, c2}
  Nil = Nil
  DefaultMaxOpenConn = 2
  MaxBacklog = 1
  Limits = {0}
  Overlap = TRUE
  MayFill = FALSE
INVARIANT BroadcastCounts
CHECK_DEADLOCK FALSE
