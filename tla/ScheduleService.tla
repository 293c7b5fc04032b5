-------------------------- MODULE ScheduleService --------------------------
(***************************************************************************)
(* The questions of the API (api/app.py: station_schedule, next_service,   *)
(* get_alerts, the card of a train, and the line status of ai/tools.py),   *)
(* asked again and again while the clock runs and the feeds are polled,    *)
(* and answered from the snapshot pinned for the service date              *)
(* (gtfs/schedule_cache.py) and the latest live feed.                      *)
(***************************************************************************)
EXTENDS TrainView

CONSTANTS
  Snapshots,   \* static snapshots
  Feeds,       \* live feeds
  Questions,   \* what is asked
  Hours        \* instants, a bound on the clock

IsSequence(s) == s \in Seq(Range(s))
HasTimes(entry) == {entry.arr, entry.dep} \subseteq Nat \cup {Blank}

ASSUME ScheduleAssumption ==
  /\ Hours \subseteq Nat /\ Hours # {}
  /\ DayHours \in Nat \ {0} /\ BoundaryHour \in Nat /\ Limit \in Nat
  /\ IsSequence(Interchanges)

\* parse_trips, parse_stop_times, parse_stops.
ASSUME SnapshotAssumption ==
  \A s \in Snapshots :
    /\ IsFiniteSet(DOMAIN s.parent)
    /\ IsSequence(s.trips)
    /\ \A trip \in Range(s.trips) : IsSequence(trip.calls) /\ \A c \in Range(trip.calls) : HasTimes(c)

\* A trip calls once at a station, as every lookup of a call by its stop or
\* its station takes it.
ASSUME CallsAssumption ==
  \A s \in Snapshots : \A trip \in Range(s.trips), station \in DOMAIN s.parent \cup Range(Interchanges) :
    \A i, j \in DOMAIN trip.calls :
      {trip.calls[i].stop, trip.calls[j].stop} \subseteq Platforms(s, station) => i = j

\* A window's stops come in the order of their stop_sequence.
ASSUME FeedAssumption ==
  \A live \in Feeds :
    /\ IsFiniteSet(DOMAIN live.trips)
    /\ \A id \in DOMAIN live.trips : live.trips[id] # NoTrip =>
         LET window == live.trips[id].window
         IN /\ IsSequence(window)
            /\ \A i \in DOMAIN window : HasTimes(window[i]) /\ window[i].sequence \in Nat
            /\ \A i, j \in DOMAIN window : i < j => window[i].sequence < window[j].sequence

VARIABLES snap, feed, now, question, answer

vars == <<snap, feed, now, question, answer>>

Board(station, live, at) ==
  [departures |-> {Overlaid(live, d) : d \in Departures(snap, station, at) \cup Extras(snap, live, station, at)},
   suspended |-> Suspended(snap, station, at)]

Answer(q, live, at) ==
  CASE q.kind = "board" -> Board(q.station, live, at)
    [] q.kind = "next" -> NextService(snap, q.from, q.to, q.line, at)
    [] q.kind = "card" -> Card(snap, q.trip, Live(live, q.trip), at)
    [] q.kind = "alerts" -> {<<a, LinesOf(snap, a)>> : a \in AlertsMatching(live.alerts, at, q.route)}
    [] q.kind = "status" -> LineStatus(snap, live, q.line, at)

Init ==
  /\ snap \in Snapshots
  /\ feed \in Feeds
  /\ now = Min(Hours)
  /\ question \in Questions
  /\ answer = Answer(question, feed, now)

Ask(q) ==
  /\ question' = q
  /\ answer' = Answer(q, feed, now)
  /\ UNCHANGED <<snap, feed, now>>

\* The page asks the same again later.
AskLater ==
  /\ now' = now + 1 /\ now' \in Hours
  /\ UNCHANGED <<snap, feed, question>>
  /\ answer' = Answer(question, feed, now')

\* A poll replaces the feed, and the page asks again.
Poll(live) ==
  /\ feed' = live
  /\ answer' = Answer(question, live, now)
  /\ UNCHANGED <<snap, now, question>>

Next == AskLater \/ (\E q \in Questions : Ask(q)) \/ (\E live \in Feeds : Poll(live))

Spec == Init /\ [][Next]_vars

-----------------------------------------------------------------------------
\* Every ride on one trip of today between two sets of stops, leaving later.
Rides(from, to, after) ==
  LET today == ServiceDate(now)
      running == {t \in Range(snap.trips) : t.service \in ActiveServices(snap, today)}
      pairs(t) == {p \in (DOMAIN t.calls) \X (DOMAIN t.calls) :
                     /\ p[1] < p[2] /\ Timed(t.calls[p[1]]) /\ Timed(t.calls[p[2]])
                     /\ t.calls[p[1]].stop \in from /\ t.calls[p[2]].stop \in to
                     /\ Instant(today, Departs(t.calls[p[1]])) > after}
  IN UNION {{[dep |-> Instant(today, Departs(t.calls[p[1]])),
              arr |-> Instant(today, Arrives(t.calls[p[2]]))] : p \in pairs(t)} : t \in running}

Ends(name, line) == UNION {Platforms(snap, s) : s \in Resolve(snap, name, line)}
Direct == Rides(Ends(question.from, question.line), Ends(question.to, question.line), now)

\* The direct service offered is one that runs, and none leaves sooner; with
\* none offered there is none, unless the line asked for does not run today.
DirectServiceIsSoonest ==
  (question.kind = "next" /\ answer.reason \in {"found", "no_route_found"}) =>
    IF Len(answer.legs) = 1
    THEN /\ [dep |-> answer.legs[1].dep, arr |-> answer.legs[1].arr] \in Direct
         /\ \A ride \in Direct : ride.dep >= answer.legs[1].dep
    ELSE Direct = {}

\* A transfer offered can be made: both legs run today and meet at one
\* interchange, where the second leaves after the first is there.
TransferConnects ==
  (question.kind = "next" /\ Len(answer.legs) = 2) =>
    LET times(leg) == [dep |-> leg.dep, arr |-> leg.arr]
    IN \E i \in DOMAIN Interchanges :
         LET middle == Platforms(snap, Interchanges[i])
         IN /\ times(answer.legs[1]) \in Rides(Ends(question.from, question.line), middle, now)
            /\ times(answer.legs[2]) \in Rides(middle, Ends(question.to, question.line), answer.legs[1].arr)

\* While the feed stands, a train shown on a station's board stays there until
\* it leaves, up to the 3am boundary, and no line of the timetable's trains on
\* it is among those without service today.
BoardsKeepTrains ==
  [][(question.kind = "board" /\ UNCHANGED <<question, feed>> /\ ServiceDate(now') = ServiceDate(now)) =>
       /\ \A d \in answer.departures : d.departure.at > now' => d \in answer'.departures
       /\ {d.departure.route : d \in {e \in answer'.departures : e.departure.direction # Blank}}
            \cap answer'.suspended = {}]_vars

\* The three readings of a stop window agree: the next stop is the window's
\* first stop beyond the progress, and a train between two stops heads for it.
ReadingsAgree ==
  \A id \in DOMAIN feed.trips : feed.trips[id] # NoTrip =>
    LET live == feed.trips[id]
        ahead == Ahead(live, now)
        state == StationState(live, now)
        beyond == {live.window[i].sequence :
                     i \in {j \in Anchors(live) : live.window[j].sequence > Progress(live, now)}}
    IN /\ ahead # Nowhere => live.window[ahead].sequence = Min(beyond)
       /\ (state.status = "between" /\ state.to # NoStop) =>
            (ahead # Nowhere /\ live.window[ahead].stop = state.to)
       /\ (state.status = "at" /\ ahead = Nowhere) => state.to = live.window[Final(live)].stop
=============================================================================
