------------------------------ MODULE Headway -------------------------------
(***************************************************************************)
(* state/headway.py: arrivals per (stop, route, direction) group, recorded *)
(* once per dwell.  The station a train is dwelling at is an input here:   *)
(* it is derived from the snapshot and the clock by state/station.py.      *)
(***************************************************************************)
EXTENDS Integers, Sequences, FiniteSets, Domain

CONSTANTS
  Direction,         \* trip -> the direction its static trip names, or NONE
  MaxArrivals,       \* MAX_ARRIVALS_PER_GROUP
  DwellRetention     \* RECORDED_DWELL_RETENTION_S

ASSUME HeadwayAssumption ==
  /\ MaxArrivals \in Nat \ {0}
  /\ DwellRetention \in Nat \ {0}
  /\ IsFiniteSet(Trips)

\* The tracker looks at a trip only with a schedule, a start_date and a route.
Groupable(snap) ==
  /\ snap # NONE
  /\ snap.hasSchedule
  /\ snap.trip["start_date"] # NONE
  /\ snap.trip["route_id"] # NONE

\* Mutant: every cycle of a dwell is an arrival.
EveryDwell(dwell, snap, stop) == Groupable(snap) /\ stop # NONE

\* A dwell not yet recorded for this trip: the edge that makes an arrival.
FreshDwell(dwell, snap, stop) ==
  /\ Groupable(snap)
  /\ stop # NONE
  /\ dwell = NONE \/ dwell.stop # stop

Resolvable(snap, known, t) ==
  snap.trip["start_date"] # "malformed" /\ known /\ Direction[t] # NONE

Arrives(dwell, snap, stop, known, primed, t) ==
  /\ primed
  /\ FreshDwell(dwell, snap, stop)
  /\ Resolvable(snap, known, t)

\* _recorded_dwell[t] after the trip's turn and the eviction that follows.
DwellTick(dwell, snap, stop, known, primed, now, t) ==
  LET next == IF ~Groupable(snap) THEN dwell
              ELSE IF stop = NONE THEN NONE
              ELSE IF /\ FreshDwell(dwell, snap, stop)
                      /\ primed
                      /\ ~Resolvable(snap, known, t) THEN dwell
              ELSE [stop |-> stop, at |-> now]
  IN IF next # NONE /\ now - next.at >= DwellRetention THEN NONE ELSE next

GroupOf(snap, stop, t) == <<stop, snap.trip["route_id"], Direction[t]>>

\* Mutant: a deque without maxlen.
PushUnbounded(buffer, now) == Append(buffer, now)

\* deque(maxlen=MaxArrivals).append
Push(buffer, now) ==
  LET longer == Append(buffer, now)
  IN IF Len(longer) > MaxArrivals THEN Tail(longer) ELSE longer

\* Every arrival of one tick carries the same time, so a group's buffer does
\* not depend on the order in which its trips are visited.
ArrivalsAfter(buffer, count, now) ==
  LET push[n \in 0 .. count] == IF n = 0 THEN buffer ELSE Push(push[n - 1], now)
  IN push[count]

=============================================================================
