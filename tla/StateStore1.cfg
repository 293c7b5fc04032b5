SPECIFICATION Spec
CONSTANTS
  NONE = NONE
  Trips = {t1}
  Values <- MCValues
  CoastingTimeout = 2
  MaxGhostAge = 3
  ResolutionRetention = 4
  OnTimeThreshold = 0
  UndeterminedTimeout = 3
  FinalizedRetention = 4
  ObservationInterval = 2
  ObservedRetention = 4
  MaxArrivals = 2
  DwellRetention = 4
  Direction <- NoDirections
  TuEntities <- JourneyTu
  VpEntities <- JourneyVp
  SaFeeds = {}
  Starts = {0}
  Steps = {1, 3}
  Lookups <- AllKnown
  Stops = {}
  TrackCompletion = TRUE
  TrackDelay = FALSE
  TrackHeadway = FALSE
  MaxTime = 8
INVARIANTS LiveIffPlacedByLastPoll CoastingClockIsExact ResolutionAwaitsVisibleTrain
PROPERTY EpisodeLedger
CHECK_DEADLOCK FALSE
