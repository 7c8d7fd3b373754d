SPECIFICATION MSpec
CONSTANTS
  Threads = {t1, t2}
  Fds = {f1, f2}
  NItems = 2
  max_queue_size_ = 1
  g_timeout_s = 0
  SerialMod = 3
  LinkWord = LinkWord
  g_net_timer = timerhead
  Unset = Unset
  WORD_SIZE = 1
  DEFAULT_ALLOC_SIZE = 1
  pagesize = 1
  sizeof_ClientInfo = 4095
  NChunks = 2
  MaxPkgs = 3
  MaxTime = 2
SYMMETRY Symmetry
INVARIANTS
  MemoryOK
  PendingServedFaithfully
  RepliedOnce
  IndexCoherence
  NoOrphans
PROPERTIES
  SweepIsComplete
  DroppedForCause
CHECK_DEADLOCK FALSE
