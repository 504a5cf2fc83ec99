SPECIFICATION FairSpec
CONSTANTS
  Conns = {c1, c2}
  Nil = Nil
  Writers = {}
  Main = main
  MaxWrites = 0
  MaxReplies = 0
PROPERTY StopDisconnects
CHECK_DEADLOCK FALSE
