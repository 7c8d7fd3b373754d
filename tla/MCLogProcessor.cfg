SPECIFICATION Spec
CONSTANTS
  log_archive_days <- ArchiveDays
  log_remove_days = 3
  MAX_SORT_DAY = 1
  Ids = {i1, i2}
  Tar = Tar
  MaxDay = 6
  MaxFiles = 3
INVARIANTS
  TypeOK
  NothingLostEarly
PROPERTY
  TodaysLogsUntouched
SYMMETRY Symmetry
CHECK_DEADLOCK FALSE
