----------------------------- MODULE Timetable -----------------------------
(***************************************************************************)
(* gtfs/: what is asked of one static snapshot.  A snapshot is a record:   *)
(*   rules, exceptions  calendar.txt, calendar_dates.txt                   *)
(*   trips              in file order, each with its calls in sequence     *)
(*   parent, words      stops.txt: a platform's station, a name's words    *)
(*   lines              routes.txt: a route's line, whether it is the bus  *)
(*                      that replaces it                                   *)
(* A time is in hours past the start of its service date, and may pass     *)
(* the day's end; Blank is an empty field.                                 *)
(***************************************************************************)
EXTENDS Integers, FiniteSetsExt, SequencesExt

CONSTANTS
  DayHours,       \* hours of a day
  BoundaryHour,   \* day_boundary_hour
  Limit,          \* limit_per_direction
  Interchanges,   \* CURATED_INTERCHANGES
  LoopStations    \* CITY_LOOP_PARENT_STATIONS

Blank == -1
NoParent == "-"

ServiceDate(now) == (now - BoundaryHour) \div DayHours
Instant(date, time) == date * DayHours + time

\* The weekly rules, then the exceptions of the date, which override them.
RunsOn(rule, date) == date \in rule.first .. rule.last /\ date % 7 \in rule.weekdays
ActiveServices(snap, date) ==
  LET excepted(type) == {x.service : x \in {e \in snap.exceptions : e.date = date /\ e.type = type}}
  IN ({r.service : r \in {rule \in snap.rules : RunsOn(rule, date)}} \cup excepted("added"))
       \ excepted("removed")

\* The places in the file of the trips that run on a date.
ActiveTrips(snap, date) ==
  LET active == ActiveServices(snap, date)
  IN {i \in DOMAIN snap.trips : snap.trips[i].service \in active}
RoutesRunning(snap, date) == {snap.trips[i].route : i \in ActiveTrips(snap, date)}

StopsOf(snap) == DOMAIN snap.parent
Parents(snap) == Range(snap.parent) \ {NoParent}
Stations(snap) == {s \in StopsOf(snap) : s \in Parents(snap) \/ snap.parent[s] = NoParent}

\* A station's platforms; a stop without any is its own.
Platforms(snap, station) ==
  LET children == {s \in StopsOf(snap) : snap.parent[s] = station}
  IN IF children = {} THEN {station} \cap StopsOf(snap) ELSE children

CallsAt(trip) == {call.stop : call \in Range(trip.calls)}
Departs(call) == IF call.dep # Blank THEN call.dep ELSE call.arr
Arrives(call) == IF call.arr # Blank THEN call.arr ELSE call.dep
Timed(call) == Departs(call) # Blank

\* Routes with a trip calling at a stop, or at a platform of it.
StopRoutes(snap, stop) ==
  {trip.route : trip \in {t \in Range(snap.trips) :
      \E s \in CallsAt(t) : s = stop \/ snap.parent[s] = stop}}

-----------------------------------------------------------------------------
(* Names: an exact match before the names that hold the words asked for.   *)

Named(candidates, name) ==
  LET exact == {c \in candidates : c.words = name}
  IN IF name = {} THEN {} ELSE IF exact # {} THEN exact ELSE {c \in candidates : name \subseteq c.words}

StationsNamed(snap, name) ==
  {c.id : c \in Named({[id |-> s, words |-> snap.words[s]] : s \in Stations(snap)}, name)}
RoutesNamed(snap, name) ==
  {c.id : c \in Named({[id |-> r, words |-> snap.lines[r].line] :
                         r \in {q \in DOMAIN snap.lines : ~snap.lines[q].bus}}, name)}

\* One station, or none: a route narrows a choice it does not empty.
Resolve(snap, name, line) ==
  LET matches == StationsNamed(snap, name)
      served == {s \in matches : StopRoutes(snap, s) \cap RoutesNamed(snap, line) # {}}
      chosen == IF Cardinality(matches) > 1 /\ served # {} THEN served ELSE matches
  IN IF Cardinality(chosen) = 1 THEN chosen ELSE {}

-----------------------------------------------------------------------------
(* Departures and services.                                                *)

\* The calls at a station still to depart: a trip's place and the call's.
Upcoming(snap, station, now) ==
  LET date == ServiceDate(now)
      calls(i) == snap.trips[i].calls
  IN UNION {{<<i, k>> : k \in {n \in DOMAIN calls(i) :
               /\ calls(i)[n].stop \in Platforms(snap, station) /\ Timed(calls(i)[n])
               /\ Instant(date, Departs(calls(i)[n])) > now}} : i \in ActiveTrips(snap, date)}

Departure(snap, p, date) ==
  LET trip == snap.trips[p[1]]
      call == trip.calls[p[2]]
  IN [trip |-> trip.id, route |-> trip.route, direction |-> trip.direction,
      stop |-> call.stop, at |-> Instant(date, Departs(call))]

InFile(p, q) == p[1] < q[1] \/ (p[1] = q[1] /\ p[2] < q[2])

\* The first Limit of each direction, those of one instant in file order.
Departures(snap, station, now) ==
  LET due == Upcoming(snap, station, now)
      dep(p) == Departure(snap, p, ServiceDate(now))
      sooner(q, p) == dep(q).at < dep(p).at \/ (dep(q).at = dep(p).at /\ InFile(q, p))
      ahead(p) == {q \in due : dep(q).direction = dep(p).direction /\ sooner(q, p)}
  IN {dep(p) : p \in {q \in due : Cardinality(ahead(q)) < Limit}}

NoLeg == [trip |-> "-"]

\* A trip's leg: its first call at from, then its first later one at to.
LegOf(trip, from, to, date, after) ==
  LET calls == trip.calls
      boards == {i \in DOMAIN calls : calls[i].stop \in from}
      on == Min(boards)
      leaves == {j \in DOMAIN calls : j > on /\ calls[j].stop \in to}
      off == Min(leaves)
  IN IF boards = {} \/ ~Timed(calls[on]) \/ Instant(date, Departs(calls[on])) <= after THEN NoLeg
     ELSE IF leaves = {} \/ ~Timed(calls[off]) THEN NoLeg
     ELSE [trip |-> trip.id, route |-> trip.route,
           dep |-> Instant(date, Departs(calls[on])), from |-> calls[on].stop,
           arr |-> Instant(date, Arrives(calls[off])), to |-> calls[off].stop]

\* Mutant: the first leg found.
FirstFound(legs) ==
  LET found == {i \in DOMAIN legs : legs[i] # NoLeg}
  IN IF found = {} THEN NoLeg ELSE legs[Min(found)]

\* The leg that departs soonest, the first found of those.
Soonest(legs) ==
  LET found == {i \in DOMAIN legs : legs[i] # NoLeg}
      soonest == {i \in found : \A j \in found : legs[i].dep <= legs[j].dep}
  IN IF found = {} THEN NoLeg ELSE legs[Min(soonest)]

SameLine(snap, from, to, date, after) ==
  Soonest([i \in ActiveTrips(snap, date) |-> LegOf(snap.trips[i], from, to, date, after)])

Wait(legs) == legs[2].dep - legs[1].arr
Better(legs, best) ==
  \/ legs[2].arr < best[2].arr
  \/ legs[2].arr = best[2].arr /\ Wait(legs) < Wait(best)

\* Mutant: both legs are looked for from the same instant.
ViaAtOnce(snap, station, from, to, date, after) ==
  LET middle == Platforms(snap, station)
      first == SameLine(snap, from, middle, date, after)
      second == SameLine(snap, middle, to, date, after)
  IN IF middle = {} \/ middle \cap (from \cup to) # {} \/ first = NoLeg \/ second = NoLeg
     THEN <<>> ELSE <<first, second>>

\* At an interchange the soonest first leg, then the soonest second leg.
Via(snap, station, from, to, date, after) ==
  LET middle == Platforms(snap, station)
      first == SameLine(snap, from, middle, date, after)
      second == SameLine(snap, middle, to, date, first.arr)
  IN IF middle = {} \/ middle \cap (from \cup to) # {} \/ first = NoLeg \/ second = NoLeg
     THEN <<>> ELSE <<first, second>>

\* Of the interchanges that none is better than, the first listed.
BestOf(legs) ==
  LET found == {i \in DOMAIN legs : legs[i] # <<>>}
      best == {i \in found : \A j \in found : ~Better(legs[j], legs[i])}
  IN IF found = {} THEN <<>> ELSE legs[Min(best)]

Transfer(snap, from, to, date, after) ==
  BestOf([i \in DOMAIN Interchanges |-> Via(snap, Interchanges[i], from, to, date, after)])

RoutesCalling(snap, station) == UNION {StopRoutes(snap, s) : s \in Platforms(snap, station)}

\* Mutant: today is the calendar's.
SuspendedByCalendar(snap, station, now) ==
  RoutesCalling(snap, station) \ RoutesRunning(snap, now \div DayHours)

\* Lines that call at the station, none of whose trips runs today.
Suspended(snap, station, now) ==
  RoutesCalling(snap, station) \ RoutesRunning(snap, ServiceDate(now))

NextService(snap, fromName, toName, line, now) ==
  LET date == ServiceDate(now)
      start == Resolve(snap, fromName, line)
      end == Resolve(snap, toName, line)
      from == UNION {Platforms(snap, s) : s \in start}
      to == UNION {Platforms(snap, s) : s \in end}
      direct == SameLine(snap, from, to, date, now)
      transfer == Transfer(snap, from, to, date, now)
  IN CASE start = {} \/ end = {} -> [reason |-> "unknown_station", legs |-> <<>>]
       [] \E s \in start : RoutesNamed(snap, line) \cap Suspended(snap, s, now) # {} ->
            [reason |-> "no_service_today", legs |-> <<>>]
       [] OTHER ->
            IF direct # NoLeg THEN [reason |-> "found", legs |-> <<direct>>]
            ELSE IF transfer # <<>> THEN [reason |-> "found", legs |-> transfer]
            ELSE [reason |-> "no_route_found", legs |-> <<>>]

-----------------------------------------------------------------------------
(* Patterns: what a trip skips of its group's commonest stop list.         *)

Pattern(trip) == [i \in DOMAIN trip.calls |-> trip.calls[i].stop]
ViaLoop(snap, trip) == \E s \in CallsAt(trip) : snap.parent[s] \in LoopStations
Group(snap, trip) ==
  <<trip.route, trip.direction, ViaLoop(snap, trip), trip.calls[1].stop, Last(trip.calls).stop>>

\* Nothing for a replacement bus, nor for a trip alone in its group.
SkipCount(snap, trip) ==
  LET peers == SelectSeq(snap.trips, LAMBDA t : Group(snap, t) = Group(snap, trip))
      votes(pattern) == Len(SelectSeq(peers, LAMBDA t : Pattern(t) = pattern))
      normal == FoldLeft(LAMBDA best, t : IF votes(Pattern(t)) > votes(best) THEN Pattern(t) ELSE best,
                         Pattern(peers[1]), peers)
  IN IF snap.lines[trip.route].bus \/ Len(peers) < 2 THEN Blank
     ELSE Cardinality(Range(normal) \ CallsAt(trip))

\* The line an alert's stops point to: a majority of them, ahead of any other.
LineOfStops(snap, stops) ==
  LET votes(line) == Len(SelectSeq(stops, LAMBDA s : \E r \in StopRoutes(snap, s) : snap.lines[r].line = line))
      lines == {snap.lines[r].line : r \in DOMAIN snap.lines}
  IN {line \in lines : /\ 2 * votes(line) > Len(stops)
                       /\ \A other \in lines \ {line} : votes(line) > votes(other)}
=============================================================================
