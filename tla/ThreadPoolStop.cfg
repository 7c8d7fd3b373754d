SPECIFICATION FairSpec
CONSTANTS
  Workers = {w1, w2}
  max_queue_size_ = 1
  NoWorker = NoWorker
  MaxTasks = 1
  MaxSpurious = 2
PROPERTY
  StopReturns
CHECK_DEADLOCK FALSE
