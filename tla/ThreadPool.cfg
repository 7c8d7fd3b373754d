SPECIFICATION FairSpec
CONSTANTS
  Workers = {w1, w2, w3}
  max_queue_size_ = 2
  NoWorker = NoWorker
  MaxTasks = 5
  MaxSpurious = 2
INVARIANTS
  TypeOK
  NoStrandedTask
  PutWaitsOnlyWhenFull
  StopLosesNoTask
PROPERTIES
  ImplementsTaskQueue
  PutReturns
  StopReturnsUnlessWakeupLost
CHECK_DEADLOCK FALSE
