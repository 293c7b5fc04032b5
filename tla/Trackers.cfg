SPECIFICATION Spec
CONSTANTS
  NONE = NONE
  Trips = {t1, t2}
  Values <- MCValues
  CoastingTimeout = 1
  MaxGhostAge = 9
  ResolutionRetention = 4
  OnTimeThreshold = 0
  UndeterminedTimeout = 9
  FinalizedRetention = 4
  ObservationInterval = 2
  ObservedRetention = 3
  MaxArrivals = 2
  DwellRetention = 2
  Direction <- OneDirection
  TuEntities <- TrackedTu
  VpEntities = {}
  SaFeeds = {}
  Starts = {0}
  Steps = {1, 2}
  Lookups <- SomeKnown
  Stops = {"s1", "s2"}
  TrackCompletion = FALSE
  TrackDelay = TRUE
  TrackHeadway = TRUE
  MaxTime = 4
CHECK_DEADLOCK FALSE
INVARIANTS ObservableTripsAreSampled ArrivalsAreChronological
PROPERTY OneArrivalPerDwell
SYMMETRY Sym
