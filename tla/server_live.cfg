\* Two connections on a pool of one slot, without a limit.
SPECIFICATION FairSpec
CONSTANTS
  Conns = {c1, c2}
  Nil = Nil
  DefaultMaxOpenConn = 1
  MaxBacklog = 1
  Limits = {0}
PROPERTIES
  ArrivalAnswered
  SlotReleased
  
\* The server stops after Stop, or when a nil dereference ends the process.
CHECK_DEADLOCK FALSE
