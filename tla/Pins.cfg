SPECIFICATION FairSpec
CONSTANTS
  Digests = {"a", "b"}
  Timetables = {"old", "new"}
  JoinPct <- MCJoinPct
  RepinBelow = 90
  MinImprovement = 10
  MaxCandidates = 2
  LastDay = 1
  MaxChanges = 1
CHECK_DEADLOCK FALSE
INVARIANT PinsAreStored
PROPERTIES OverridesAreOnRecord JoinRecovers
