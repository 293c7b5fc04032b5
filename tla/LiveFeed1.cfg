SPECIFICATION FairFeedSpec
CONSTANTS
  NONE = NONE
  Trips = {t1, t2}
  Looks = {a}
  Pages = {p1}
  Streams = {s1, s2}
  Address <- OneAddress
  MaxGlobal = 2
  MaxPerIp = 2
  Window = 1
INVARIANTS MirrorInStep NoLostWakeup SubscribersAreServed SlotsAreStreams
PROPERTIES StreamOfPictures PageCatchesUp GoneIsReleased
