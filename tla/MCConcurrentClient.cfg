SPECIFICATION Spec
CONSTANTS
  Threads = {t1, t2, t3}
  Nobody = Nobody
  NoMessage = NoMessage
  MaxCalls = 3
  Program <- MCProgram
CHECK_DEADLOCK FALSE
INVARIANTS
  TypeOK
  AnswerHasOwner
  SomebodyReads
PROPERTIES
  ImplementsRemoteCalls
  EveryCallReturns
