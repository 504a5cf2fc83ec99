SPECIFICATION FairSpec
CONSTANTS
  Conns = {c1, c2}
  Nil = Nil
  Writers = {w1}
  Main = main
  MaxWrites = 2
  MaxReplies = 1
INVARIANTS
  TypeOK
  OneConnection
  SentInOrder
  NilMeansSent
  HandledOnce
PROPERTY LossRecovered
CHECK_DEADLOCK FALSE
