----------------------------- MODULE TrainView -----------------------------
(***************************************************************************)
(* What is derived from the live feeds about one train (state/station.py), *)
(* about a line and about alerts (state/alerts.py, ai/tools.py), and how   *)
(* api/app.py lays it over the static schedule.  A live feed is a record:  *)
(*   trips    a live trip, or NoTrip, of each trip id: its relationship,   *)
(*            route, status, the stops whose geofence holds its position   *)
(*            (NoFix without one) and its stop window, whose entries have  *)
(*            predicted instants arr and dep, a delay and skipped          *)
(*   alerts   their periods and informed entities                          *)
(***************************************************************************)
EXTENDS Timetable, Alerts

NoTrip == [relationship |-> "none"]
NoStop == "-"
NoFix == {NoStop}
Nowhere == 0

Live(feed, id) == IF id \in DOMAIN feed.trips THEN feed.trips[id] ELSE NoTrip

\* The places in the window with a time; the absent side of one is its other side.
Anchors(live) == {i \in DOMAIN live.window : Timed(live.window[i])}
First(live) == Min(Anchors(live))
Final(live) == Max(Anchors(live))
Following(live, i) == Min({j \in Anchors(live) : j > i})

Early(live, at) == at < Arrives(live.window[First(live)])
Past(live, at) == at >= Departs(live.window[Final(live)])
Dwelling(live, i, at) == Arrives(live.window[i]) <= at /\ at <= Departs(live.window[i])
Leaving(live, i, at) == Departs(live.window[i]) <= at /\ at < Arrives(live.window[Following(live, i)])

\* The first anchor, the last one aside, that holds the train or was left by it.
Current(live, at) ==
  LET holding == {i \in Anchors(live) \ {Final(live)} : Dwelling(live, i, at) \/ Leaving(live, i, at)}
  IN IF holding = {} THEN Nowhere ELSE Min(holding)

Confirmed(live, candidates) ==
  CASE live.near = NoFix -> "no position"
    [] live.near \cap candidates # {} -> "yes"
    [] OTHER -> "no"

StationState(live, at) ==
  LET cur == Current(live, at)
      entry(i) == live.window[i]
      is(from, to) == [status |-> IF from = to THEN "at" ELSE "between", from |-> from, to |-> to,
                       confirmed |-> Confirmed(live, {from, to} \ {NoStop})]
      unknown == [status |-> "unknown", from |-> NoStop, to |-> NoStop, confirmed |-> "no position"]
  IN IF Anchors(live) = {} THEN unknown
     ELSE IF Early(live, at)
       THEN is(IF entry(First(live)).arr = Blank THEN entry(First(live)).stop ELSE NoStop, entry(First(live)).stop)
     ELSE IF Past(live, at)
       THEN is(entry(Final(live)).stop, IF entry(Final(live)).dep = Blank THEN entry(Final(live)).stop ELSE NoStop)
     ELSE IF cur = Nowhere THEN unknown
     ELSE is(entry(cur).stop, entry(IF Dwelling(live, cur, at) THEN cur ELSE Following(live, cur)).stop)

\* Mutant: the stop a train left is still ahead of it.
AheadLate(live, at) ==
  IF Anchors(live) = {} THEN Nowhere
  ELSE IF Early(live, at) THEN First(live)
  ELSE IF Past(live, at) THEN Nowhere
  ELSE Current(live, at)

\* The place of the anchor ahead of the train, none at or past the last.
Ahead(live, at) ==
  IF Anchors(live) = {} THEN Nowhere
  ELSE IF Early(live, at) THEN First(live)
  ELSE IF Past(live, at) \/ Current(live, at) = Nowhere THEN Nowhere
  ELSE Following(live, Current(live, at))

\* The sequence number of the stop last reached, Blank when not known.
Progress(live, at) ==
  IF Anchors(live) = {} THEN Blank
  ELSE IF Early(live, at) THEN live.window[First(live)].sequence - 1
  ELSE IF Past(live, at) THEN live.window[Final(live)].sequence
  ELSE IF Current(live, at) = Nowhere THEN Blank
  ELSE live.window[Current(live, at)].sequence

\* The card of a train: nothing of a trip the feeds dropped, and no progress
\* without the static trip whose last stop it counts towards.
Card(snap, id, live, at) ==
  LET static == {trip \in Range(snap.trips) : trip.id = id}
      done == Progress(live, at)
  IN IF live = NoTrip THEN [done |-> Blank, total |-> Blank, next |-> NoStop, skipped |-> Blank]
     ELSE [done |-> IF static = {} THEN Blank ELSE done,
           total |-> IF static = {} \/ done = Blank THEN Blank
                     ELSE Len((CHOOSE t \in static : TRUE).calls),
           next |-> IF Ahead(live, at) = Nowhere THEN NoStop ELSE live.window[Ahead(live, at)].stop,
           skipped |-> IF static = {} THEN Blank ELSE SkipCount(snap, CHOOSE t \in static : TRUE)]

-----------------------------------------------------------------------------
(* A station's board: the static departures and the extra services, each   *)
(* with what the feed predicts for it.                                     *)

\* The first entry of a window at one of the stops.
Calls(live, stops) == {i \in DOMAIN live.window : live.window[i].stop \in stops}
Entry(live, stops) == live.window[Min(Calls(live, stops))]

\* Extra trips with a known route, still to call; the soonest Limit of them,
\* those of one instant in the order of the feed.
Extras(snap, feed, station, now) ==
  LET stops == Platforms(snap, station)
      entry(id) == Entry(feed.trips[id], stops)
      due == {id \in DOMAIN feed.trips :
                /\ feed.trips[id] # NoTrip
                /\ feed.trips[id].relationship = "ADDED" /\ feed.trips[id].route # NoRoute
                /\ Calls(feed.trips[id], stops) # {}
                /\ Timed(entry(id)) /\ Departs(entry(id)) > now}
      place == AntiFunction(SetToSeq(DOMAIN feed.trips))
      sooner(p, q) == \/ Departs(entry(p)) < Departs(entry(q))
                      \/ Departs(entry(p)) = Departs(entry(q)) /\ place[p] < place[q]
  IN {[trip |-> id, route |-> feed.trips[id].route, direction |-> Blank,
       stop |-> entry(id).stop, at |-> Departs(entry(id))] :
         id \in {p \in due : Cardinality({q \in due : sooner(q, p)}) < Limit}}

Overlaid(feed, departure) ==
  LET live == Live(feed, departure.trip)
      shown == live # NoTrip /\ Calls(live, {departure.stop}) # {}
      entry == Entry(live, {departure.stop})
  IN [departure |-> departure,
      cancelled |-> live.relationship = "CANCELED" \/ (shown /\ entry.skipped),
      predicted |-> IF ~shown THEN Blank
                    ELSE IF Timed(entry) THEN Departs(entry)
                    ELSE IF entry.delay # Blank THEN departure.at + entry.delay ELSE Blank]

-----------------------------------------------------------------------------
(* Alerts and lines.                                                        *)

\* The lines an alert names: of its routes, and of its stops voting together.
LinesOf(snap, alert) ==
  LET routed == {e.route : e \in Range(alert.entities)} \cap DOMAIN snap.lines
      stops == SelectSeq(alert.entities, LAMBDA e : e.route = NoRoute /\ e.stop # NoStop)
  IN {snap.lines[r].line : r \in routed}
       \cup IF stops = <<>> THEN {} ELSE LineOfStops(snap, [i \in DOMAIN stops |-> stops[i].stop])

\* A line's routes, the replacement bus of each among them.
RoutesOfLine(snap, name) ==
  LET named == RoutesNamed(snap, name)
  IN {r \in DOMAIN snap.lines : \E q \in named : snap.lines[r].line = snap.lines[q].line}

LineStatus(snap, feed, name, at) ==
  LET routes == RoutesOfLine(snap, name)
      trips == {id \in DOMAIN feed.trips : feed.trips[id] # NoTrip /\ feed.trips[id].route \in routes}
  IN [counts |-> [s \in {"live", "coasting", "ghost"} |-> Cardinality({id \in trips : feed.trips[id].status = s})],
      cancelled |-> {id \in trips : feed.trips[id].relationship = "CANCELED"},
      alerts |-> UNION {AlertsMatching(feed.alerts, at, r) : r \in routes}]
=============================================================================
