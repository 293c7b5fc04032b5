SPECIFICATION FairLoopSpec
CONSTANTS
  NONE = NONE
  Trips = {t1}
  Values <- MCValues
  CoastingTimeout = 3
  MaxGhostAge = 4
  ResolutionRetention = 4
  OnTimeThreshold = 0
  UndeterminedTimeout = 4
  FinalizedRetention = 4
  ObservationInterval = 2
  ObservedRetention = 4
  MaxArrivals = 2
  DwellRetention = 4
  Direction <- NoDirections
  TuEntities <- JourneyTu
  VpEntities <- JourneyVp
  SaFeeds = {{}}
  Starts <- MCStarts
  Steps = {1, 2, 3}
  Lookups <- AllKnown
  Stops = {}
  TrackCompletion = FALSE
  TrackDelay = FALSE
  TrackHeadway = FALSE
  MaxTime = 6
  TopLevel = 2
  LowWatermark = 0
  TuPayloads <- OneTu
  VpPayloads <- SomeVp
  SaPayloads <- NoAlerts
  Counts = {0, 1}
  Waits <- MCWaits
  Pages = 1
  Restarts = 1
INVARIANTS LoopTypeOK GapsAreSeparateOutages OverlapIsExplained BackoffMarksTheAbsent
PROPERTIES BackoffGhostsNoTrain StopLeadsToReturn
CHECK_DEADLOCK FALSE
