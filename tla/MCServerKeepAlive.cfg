SPECIFICATION FairSpec
CONSTANTS
  MaxOpenFiles = 4
  NoSource = NoSource
  conf_path = "bench.conf"
  Disks <- Good
  Keys <- MCKeys
  work_num = 3
  ChannelMod = 2
  MaxCommands = 2
  MaxMishaps = 1
PROPERTY
  KeepAliveRestarts
CHECK_DEADLOCK FALSE
