SPECIFICATION FairPipelineSpec
CONSTANTS
  Tables = {"completions", "gaps"}
  Completions = "completions"
  Gaps = "gaps"
  MaxRows = 1
  LastDay = 1
  BusyDays = {0}
  BusyTables = {"gaps"}
  RetentionDays = 0
  MaxFaults = 1
  UploadAttempts = 1
  DataReadOnly = TRUE
CHECK_DEADLOCK FALSE
PROPERTY HealsFromBackup
