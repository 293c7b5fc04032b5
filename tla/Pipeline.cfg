SPECIFICATION FairPipelineSpec
CONSTANTS
  Tables = {"completions", "gaps"}
  Completions = "completions"
  Gaps = "gaps"
  MaxRows = 1
  LastDay = 2
  BusyDays = {0}
  BusyTables = {"gaps"}
  RetentionDays = 1
  MaxFaults = 1
  UploadAttempts = 1
  DataReadOnly = TRUE
CHECK_DEADLOCK FALSE
INVARIANTS BackupHoldsEveryRow ArchiveIsFaithful
PROPERTIES RetentionKeepsACopy ClosedDayIsArchived
