SPECIFICATION Spec
CONSTANTS
  Snapshots <- MCSnapshots
  Feeds <- MCFeeds
  Questions <- MCQuestions
  Interchanges <- MCInterchanges
  LoopStations = {"hub"}
  DayHours = 4
  BoundaryHour = 1
  Limit = 2
  Hours = {1, 2, 3, 4, 5, 6, 7, 8}
INVARIANTS DirectServiceIsSoonest ReadingsAgree TransferConnects
PROPERTY BoardsKeepTrains
CHECK_DEADLOCK FALSE
