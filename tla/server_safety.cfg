\* Three connections, a pool of one slot and a limit of two, above the pool: it grows once,
\* the third connection is refused, or admitted when a slot is freed.
SPECIFICATION Spec
CONSTANTS
  Conns = {c1, c2, c3}
  Nil = Nil
  DefaultMaxOpenConn = 1
  MaxBacklog = 1
  Limits = {2}
SYMMETRY ConnSymmetry
INVARIANTS
  TypeOK
  SlotOwnership
  FreeSlotFound
  LimitRespected
  PoolBounded
  MessageIsOwn
  MessageWhole
PROPERTIES
  CloseHitsTarget
  ImplementsService
\* The server stops after Stop, or when a nil dereference ends the process.
CHECK_DEADLOCK FALSE
