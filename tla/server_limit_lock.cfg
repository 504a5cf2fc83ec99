\* Three connections and a limit of one: the second one is refused, the third waits.
SPECIFICATION FairSpec
CONSTANTS
  Conns = {c1, c2, c3}
  Nil = Nil
  DefaultMaxOpenConn = 1
  MaxBacklog = 1
  Limits = {1}
PROPERTY ArrivalAnswered
CHECK_DEADLOCK FALSE
