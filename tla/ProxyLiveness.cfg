SPECIFICATION FairSpec
CONSTANTS
  Threads = {t1}
  Fds = {f1}
  NItems = 2
  max_queue_size_ = 1
  g_timeout_s = 0
  SerialMod = 2
  LinkWord = LinkWord
  MaxPkgs = 3
  MaxTime = 2
PROPERTIES
  EventuallyReleased
  EventuallyServed
CHECK_DEADLOCK FALSE
