CONSTANTS
  a = a
  b = b
  None = None
  Conns = {a, b}
  Loads <- MCLoads
  Pieces = 2
SPECIFICATION FairSpec
INVARIANTS ExchangesConsistent ResponsesInOrder
PROPERTIES IdleReaped AnswersGoOut
CHECK_DEADLOCK FALSE
