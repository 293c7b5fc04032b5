SPECIFICATION JobsSpec
CONSTANTS
  Tables = {"completions"}
  Completions = "completions"
  MaxRows = 1
  LastDay = 2
  BusyDays = {0}
  BusyTables = {"completions"}
  WeekDays = 2
  MaxPosts = 2
  MaxMishaps = 1
INVARIANT FiredIsDelivered
