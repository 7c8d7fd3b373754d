SPECIFICATION Spec
CONSTANTS
  Threads = {t1, t2}
  pool_size_ = 2
  min_size_ = 1
  check_interval_sec_ = 0
  NAddrs = 2
  IntMax = 7
  MaxCount = 4
  MaxTime = 2
  NoThread = NoThread
SYMMETRY Symmetry
INVARIANTS
  TypeOK
  BusyHeld
  DeadIsClosed
  NoStaleAnswer
PROPERTIES
  NullOnlyIfRefused
  ImplementsServiceCalls
