SPECIFICATION Spec
CONSTANTS
  Threads = {t1}
  Fds = {f1, f2}
  NItems = 1
  max_queue_size_ = 1
  g_timeout_s = 0
  SerialMod = 2
  LinkWord = LinkWord
  MaxPkgs = 2
  MaxTime = 2
PROPERTY
  AnswersOnlyPending
CHECK_DEADLOCK FALSE
