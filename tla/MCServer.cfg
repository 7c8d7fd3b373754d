SPECIFICATION FairSpec
CONSTANTS
  MaxOpenFiles = 4
  NoSource = NoSource
  conf_path = "bench.conf"
  Disks <- MCDisks
  Keys <- MCKeys
  work_num = 3
  ChannelMod = 2
  MaxCommands = 2
  MaxMishaps = 1
INVARIANTS
  TypeOK
  ServesOneVersion
  StoppedStaysDown
  UpIsWatched
  PackagesToProxies
PROPERTIES
  ScriptsEndUnlessStuck
CHECK_DEADLOCK FALSE
