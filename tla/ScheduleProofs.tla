--------------------------- MODULE ScheduleProofs ---------------------------
(***************************************************************************)
(* Proofs about ScheduleService, for any snapshots, feeds, questions and   *)
(* clock: the readings of a stop window agree, no direct service leaves    *)
(* sooner than the one offered, and a board keeps its trains.              *)
(***************************************************************************)
EXTENDS ScheduleService, FiniteSetTheorems, TLAPS

\* A set of natural numbers has a least element.
LEMMA MinIsLeast ==
  ASSUME NEW S \in SUBSET Nat, S # {}
  PROVE  Min(S) \in S /\ \A y \in S : Min(S) <= y
<1> DEFINE below == {0 .. n - 1 : n \in S}
<1>1. below \subseteq FiniteSubsetsOf(Nat) /\ below # {}
  <2>1. ASSUME NEW n \in S PROVE IsFiniteSet(0 .. n - 1) /\ 0 .. n - 1 \subseteq Nat
    BY FS_Interval
  <2> QED BY <2>1 DEF FiniteSubsetsOf
<1>2. PICK least \in below : \A b \in below : ~ (<<b, least>> \in StrictSubsetOrdering(Nat))
  <2> HIDE DEF below
  <2> QED BY <1>1, WFMin, FS_StrictSubsetOrderingWellFounded
<1>3. PICK x \in S : least = 0 .. x - 1
  OBVIOUS
<1>4. ASSUME NEW y \in S PROVE x <= y
  <2> SUFFICES ASSUME y < x PROVE FALSE
    OBVIOUS
  <2>1. 0 .. y - 1 \subseteq 0 .. x - 1 /\ y \in 0 .. x - 1 /\ y \notin 0 .. y - 1
    OBVIOUS
  <2>2. 0 .. y - 1 \in below
    OBVIOUS
  <2>3. <<0 .. y - 1, least>> \in StrictSubsetOrdering(Nat)
    <3>1. 0 .. y - 1 # least
      BY <2>1, <1>3
    <3>2. 0 .. y - 1 \in SUBSET Nat /\ least \in SUBSET Nat
      BY <1>3
    <3>3. StrictSubsetOrdering(Nat) =
            {ss \in (SUBSET Nat) \X (SUBSET Nat) : ss[1] \subseteq ss[2] /\ ss[1] # ss[2]}
      BY DEF StrictSubsetOrdering
    <3> HIDE DEF below
    <3> QED BY <3>1, <3>2, <3>3, <2>1, <1>3
  <2> QED BY <2>2, <2>3, <1>2
<1> QED BY <1>4 DEF Min

LEMMA MaxIsGreatest ==
  ASSUME NEW n \in Nat, NEW S \in SUBSET (1 .. n), S # {}
  PROVE  Max(S) \in S /\ \A y \in S : y <= Max(S)
<1> DEFINE short == {n - x : x \in S}
<1>1. short \in SUBSET Nat /\ short # {}
  <2>1. ASSUME NEW x \in S PROVE n - x \in Nat
    <3>1. x \in 1 .. n
      OBVIOUS
    <3> QED BY <3>1
  <2>2. \A m \in short : m \in Nat
    BY <2>1
  <2> QED BY <2>2
<1>2. PICK x \in S : Min(short) = n - x
  <2> HIDE DEF short
  <2>1. Min(short) \in short
    BY <1>1, MinIsLeast
  <2> QED BY <2>1 DEF short
<1>3. \A y \in S : n - x <= n - y
  <2>1. \A m \in short : Min(short) <= m
    <3> HIDE DEF short
    <3> QED BY <1>1, MinIsLeast
  <2> QED BY <1>2, <2>1
<1>4. \A y \in S : y <= x
  BY <1>3
<1> QED BY <1>4 DEF Max

-----------------------------------------------------------------------------
(* The readings of a stop window.                                          *)

\* A window with a time in it has a first and a last anchor, and every other
\* anchor has one that follows it.
LEMMA AnchorsInOrder ==
  ASSUME NEW live, IsSequence(live.window), Anchors(live) # {}
  PROVE  /\ Anchors(live) \subseteq DOMAIN live.window /\ Anchors(live) \subseteq Nat \ {0}
         /\ First(live) \in Anchors(live) /\ \A i \in Anchors(live) : First(live) <= i
         /\ Final(live) \in Anchors(live) /\ \A i \in Anchors(live) : i <= Final(live)
         /\ \A i \in Anchors(live) \ {Final(live)} :
              /\ Following(live, i) \in Anchors(live) /\ i < Following(live, i)
              /\ \A j \in Anchors(live) : i < j => Following(live, i) <= j
<1>1. PICK n \in Nat : DOMAIN live.window = 1 .. n
  BY DEF IsSequence
<1>2. Anchors(live) \in SUBSET (1 .. n) /\ Anchors(live) \in SUBSET Nat
  BY <1>1 DEF Anchors
<1>3. First(live) \in Anchors(live) /\ \A i \in Anchors(live) : First(live) <= i
  BY <1>2, MinIsLeast DEF First
<1>4. Final(live) \in Anchors(live) /\ \A i \in Anchors(live) : i <= Final(live)
  BY <1>2, MaxIsGreatest DEF Final
<1>5. ASSUME NEW i \in Anchors(live) \ {Final(live)}
      PROVE  /\ Following(live, i) \in Anchors(live) /\ i < Following(live, i)
             /\ \A j \in Anchors(live) : i < j => Following(live, i) <= j
  <2> DEFINE later == {j \in Anchors(live) : j > i}
  <2>1. Final(live) \in later /\ later \in SUBSET Nat
    BY <1>2, <1>4
  <2>2. Min(later) \in later /\ \A j \in later : Min(later) <= j
    BY <2>1, MinIsLeast
  <2> QED BY <1>2, <2>2 DEF Following
<1> QED BY <1>1, <1>2, <1>3, <1>4, <1>5

\* The anchor that holds the train is not the last.
LEMMA CurrentIsAnchor ==
  ASSUME NEW live, IsSequence(live.window), Anchors(live) # {}, NEW at,
         Current(live, at) # Nowhere
  PROVE  Current(live, at) \in Anchors(live) \ {Final(live)}
<1> DEFINE holding == {i \in Anchors(live) \ {Final(live)} : Dwelling(live, i, at) \/ Leaving(live, i, at)}
<1>1. holding \in SUBSET Nat
  BY AnchorsInOrder
<1>2. holding # {} /\ Current(live, at) = Min(holding)
  BY DEF Current
<1>3. Min(holding) \in holding
  <2> HIDE DEF holding
  <2> QED BY <1>1, <1>2, MinIsLeast
<1> QED BY <1>2, <1>3

\* Where a train between two anchors is, is said the same by all three.
LEMMA WindowReadings ==
  ASSUME NEW live, NEW at, IsSequence(live.window),
         \A i \in DOMAIN live.window : live.window[i].sequence \in Nat,
         \A i, j \in DOMAIN live.window : i < j => live.window[i].sequence < live.window[j].sequence
  PROVE  LET ahead == Ahead(live, at)
             state == StationState(live, at)
             beyond == {live.window[i].sequence :
                          i \in {j \in Anchors(live) : live.window[j].sequence > Progress(live, at)}}
         IN /\ ahead # Nowhere => live.window[ahead].sequence = Min(beyond)
            /\ (state.status = "between" /\ state.to # NoStop) =>
                 (ahead # Nowhere /\ live.window[ahead].stop = state.to)
            /\ (state.status = "at" /\ ahead = Nowhere) => state.to = live.window[Final(live)].stop
<1> DEFINE ahead == Ahead(live, at)
           state == StationState(live, at)
           seq(i) == live.window[i].sequence
           beyond == {seq(i) : i \in {j \in Anchors(live) : seq(j) > Progress(live, at)}}
<1>1. CASE Anchors(live) = {}
  BY <1>1 DEF Ahead, StationState
<1>2. CASE Anchors(live) # {}
  <2>1. /\ Anchors(live) \subseteq DOMAIN live.window /\ Anchors(live) \subseteq Nat \ {0}
        /\ First(live) \in Anchors(live) /\ \A i \in Anchors(live) : First(live) <= i
        /\ Final(live) \in Anchors(live)
        /\ \A i \in Anchors(live) \ {Final(live)} :
             /\ Following(live, i) \in Anchors(live) /\ i < Following(live, i)
             /\ \A j \in Anchors(live) : i < j => Following(live, i) <= j
    BY <1>2, AnchorsInOrder
  <2>2. \A i \in Anchors(live) : seq(i) \in Nat
    BY <2>1
  <2>3. \A i, j \in Anchors(live) : i < j <=> seq(i) < seq(j)
    <3> SUFFICES ASSUME NEW i \in Anchors(live), NEW j \in Anchors(live)
                 PROVE  i < j <=> seq(i) < seq(j)
      OBVIOUS
    <3>1. i < j => seq(i) < seq(j)
      BY <2>1
    <3>2. j < i => seq(j) < seq(i)
      BY <2>1
    <3> QED BY <2>1, <2>2, <3>1, <3>2
  <2>4. ASSUME NEW i \in Anchors(live), seq(i) > Progress(live, at),
               \A j \in Anchors(live) : seq(j) > Progress(live, at) => i <= j
        PROVE  seq(i) = Min(beyond)
    <3>1. seq(i) \in beyond /\ beyond \in SUBSET Nat
      BY <2>2, <2>4
    <3>2. \A m \in beyond : seq(i) <= m
      <4> SUFFICES ASSUME NEW j \in Anchors(live), seq(j) > Progress(live, at) PROVE seq(i) <= seq(j)
        OBVIOUS
      <4>1. i <= j
        BY <2>4
      <4> QED BY <2>1, <2>2, <2>3, <4>1
    <3>3. seq(i) <= Min(beyond) /\ Min(beyond) <= seq(i) /\ Min(beyond) \in Nat
      <4> HIDE DEF beyond
      <4>1. Min(beyond) \in beyond /\ \A m \in beyond : Min(beyond) <= m
        BY <3>1, MinIsLeast
      <4> QED BY <3>1, <3>2, <4>1
    <3> QED BY <2>2, <3>3
  <2>5. CASE Early(live, at)
    <3>1. ahead = First(live) /\ Progress(live, at) = seq(First(live)) - 1
      BY <1>2, <2>5 DEF Ahead, Progress
    <3>2. seq(First(live)) = Min(beyond)
      <4>1. seq(First(live)) > Progress(live, at)
        BY <2>1, <2>2, <3>1
      <4> QED BY <2>1, <2>4, <4>1
    <3>3. state.to = live.window[First(live)].stop
      BY <1>2, <2>5 DEF StationState
    <3> QED BY <2>1, <3>1, <3>2, <3>3 DEF Nowhere
  <2>6. CASE ~Early(live, at) /\ Past(live, at)
    <3>1. ahead = Nowhere
      BY <1>2, <2>6 DEF Ahead
    <3>2. /\ state.from = live.window[Final(live)].stop
          /\ state.to = (IF live.window[Final(live)].dep = Blank THEN live.window[Final(live)].stop ELSE NoStop)
          /\ state.status = (IF state.from = state.to THEN "at" ELSE "between")
      BY <1>2, <2>6 DEF StationState
    <3> QED BY <3>1, <3>2
  <2>7. CASE ~Early(live, at) /\ ~Past(live, at) /\ Current(live, at) = Nowhere
    <3>1. ahead = Nowhere /\ state.status = "unknown"
      BY <1>2, <2>7 DEF Ahead, StationState
    <3> QED BY <3>1
  <2>8. CASE ~Early(live, at) /\ ~Past(live, at) /\ Current(live, at) # Nowhere
    <3> DEFINE cur == Current(live, at)
    <3>1. ahead = Following(live, cur) /\ Progress(live, at) = seq(cur)
      BY <1>2, <2>8 DEF Ahead, Progress
    <3>2. cur \in Anchors(live) \ {Final(live)}
      BY <1>2, <2>8, CurrentIsAnchor
    <3>3. /\ state.from = live.window[cur].stop
          /\ state.to = live.window[IF Dwelling(live, cur, at) THEN cur ELSE Following(live, cur)].stop
          /\ state.status = (IF state.from = state.to THEN "at" ELSE "between")
      BY <1>2, <2>8 DEF StationState
    <3> HIDE DEF cur
    <3>4. ahead \in Anchors(live) /\ ahead # Nowhere
      BY <2>1, <3>1, <3>2 DEF Nowhere
    <3>5. seq(ahead) = Min(beyond)
      <4>1. seq(ahead) > Progress(live, at)
        BY <2>1, <2>2, <2>3, <3>1, <3>2
      <4>2. \A j \in Anchors(live) : seq(j) > Progress(live, at) => ahead <= j
        BY <2>1, <2>2, <2>3, <3>1, <3>2
      <4> QED BY <2>4, <3>4, <4>1, <4>2
    <3>6. state.status = "between" => state.to = live.window[ahead].stop
      BY <3>1, <3>3
    <3> QED BY <3>4, <3>5, <3>6
  <2> QED BY <2>5, <2>6, <2>7, <2>8
<1> QED BY <1>1, <1>2

-----------------------------------------------------------------------------
(* What is asked is answered from the snapshot and the latest feed.        *)

ServiceInv ==
  /\ snap \in Snapshots /\ feed \in Feeds /\ now \in Hours
  /\ answer = Answer(question, feed, now)

LEMMA ServiceInit == Init => ServiceInv
<1> SUFFICES ASSUME Init PROVE ServiceInv
  OBVIOUS
<1>1. Min(Hours) \in Hours
  BY MinIsLeast, ScheduleAssumption
<1> QED BY <1>1 DEF Init, ServiceInv

LEMMA ServiceStep == ServiceInv /\ [Next]_vars => ServiceInv'
<1> SUFFICES ASSUME ServiceInv, [Next]_vars PROVE ServiceInv'
  OBVIOUS
<1>1. CASE AskLater
  BY <1>1 DEF AskLater, ServiceInv, Answer, Board
<1>2. ASSUME NEW q \in Questions, Ask(q) PROVE ServiceInv'
  BY <1>2 DEF Ask, ServiceInv, Answer, Board
<1>3. ASSUME NEW live \in Feeds, Poll(live) PROVE ServiceInv'
  BY <1>3 DEF Poll, ServiceInv, Answer, Board
<1>4. CASE UNCHANGED vars
  BY <1>4 DEF vars, ServiceInv, Answer, Board
<1> QED BY <1>1, <1>2, <1>3, <1>4 DEF Next

\* At any instant, the boundaries included, the three functions that read a
\* train's stop window agree on where it is (derive_station_state,
\* next_stop_and_delay, current_stop_sequence).
THEOREM ReadingsHold == Spec => []ReadingsAgree
<1>1. ServiceInv => ReadingsAgree
  <2> SUFFICES ASSUME ServiceInv, NEW id \in DOMAIN feed.trips, feed.trips[id] # NoTrip
               PROVE  LET live == feed.trips[id]
                          ahead == Ahead(live, now)
                          state == StationState(live, now)
                          beyond == {live.window[i].sequence :
                                       i \in {j \in Anchors(live) : live.window[j].sequence > Progress(live, now)}}
                      IN /\ ahead # Nowhere => live.window[ahead].sequence = Min(beyond)
                         /\ (state.status = "between" /\ state.to # NoStop) =>
                              (ahead # Nowhere /\ live.window[ahead].stop = state.to)
                         /\ (state.status = "at" /\ ahead = Nowhere) => state.to = live.window[Final(live)].stop
    BY DEF ReadingsAgree
  <2> DEFINE live == feed.trips[id]
  <2>1. /\ IsSequence(live.window)
        /\ \A i \in DOMAIN live.window : live.window[i].sequence \in Nat
        /\ \A i, j \in DOMAIN live.window : i < j => live.window[i].sequence < live.window[j].sequence
    BY FeedAssumption DEF ServiceInv
  <2> QED BY <2>1, WindowReadings
<1>2. Spec => []ServiceInv
  BY ServiceInit, ServiceStep, PTL DEF Spec
<1> QED BY <1>1, <1>2, PTL

-----------------------------------------------------------------------------
(* Legs, and which of them are offered.                                    *)

OnceIn(calls, stops) == \A i, j \in DOMAIN calls : calls[i].stop \in stops /\ calls[j].stop \in stops => i = j

\* The rides of one trip.
Ridden(calls, i, j, from, to, date, after) ==
  /\ i \in DOMAIN calls /\ j \in DOMAIN calls /\ i < j
  /\ calls[i].stop \in from /\ calls[j].stop \in to
  /\ Timed(calls[i]) /\ Timed(calls[j])
  /\ Instant(date, Departs(calls[i])) > after

\* A leg is a ride of the trip, and of a trip that calls once where it boards
\* and once where it alights it is the only one.
LEMMA LegIsRide ==
  ASSUME NEW trip, NEW from, NEW to, NEW date \in Int, NEW after \in Int,
         IsSequence(trip.calls), \A c \in Range(trip.calls) : HasTimes(c),
         OnceIn(trip.calls, from), OnceIn(trip.calls, to)
  PROVE  LET leg == LegOf(trip, from, to, date, after)
         IN /\ leg # NoLeg => \E i, j \in DOMAIN trip.calls :
                 /\ Ridden(trip.calls, i, j, from, to, date, after)
                 /\ leg.dep = Instant(date, Departs(trip.calls[i]))
                 /\ leg.arr = Instant(date, Arrives(trip.calls[j]))
            /\ leg # NoLeg => leg.dep \in Int /\ leg.dep > after /\ leg.arr \in Int /\ leg.arr - date * DayHours \in Nat
            /\ \A i, j \in DOMAIN trip.calls :
                 Ridden(trip.calls, i, j, from, to, date, after)
                   => leg # NoLeg /\ leg.dep = Instant(date, Departs(trip.calls[i]))
<1> DEFINE calls == trip.calls
           leg == LegOf(trip, from, to, date, after)
           boards == {i \in DOMAIN calls : calls[i].stop \in from}
           on == Min(boards)
           leaves == {j \in DOMAIN calls : j > on /\ calls[j].stop \in to}
           off == Min(leaves)
           soon == Instant(date, Departs(calls[on])) > after
           ride == [trip |-> trip.id, route |-> trip.route,
                    dep |-> Instant(date, Departs(calls[on])), from |-> calls[on].stop,
                    arr |-> Instant(date, Arrives(calls[off])), to |-> calls[off].stop]
<1>1. PICK n \in Nat : DOMAIN calls = 1 .. n
  BY DEF IsSequence
<1>2. \A i \in DOMAIN calls : Instant(date, Departs(calls[i])) \in Int
  <2> SUFFICES ASSUME NEW i \in DOMAIN calls PROVE Instant(date, Departs(calls[i])) \in Int
    OBVIOUS
  <2>1. Departs(calls[i]) \in Int
    BY DEF Range, HasTimes, Departs, Blank
  <2>2. date * DayHours \in Int
    BY ScheduleAssumption
  <2> QED BY <2>1, <2>2 DEF Instant
<1>3. boards \in SUBSET Nat /\ leaves \in SUBSET Nat
  BY <1>1
<1>4. leg = (IF boards = {} \/ ~Timed(calls[on]) \/ Instant(date, Departs(calls[on])) <= after THEN NoLeg
             ELSE IF leaves = {} \/ ~Timed(calls[off]) THEN NoLeg ELSE ride)
  BY DEF LegOf
<1>5. boards # {} => on \in boards
  <2> HIDE DEF boards
  <2> QED BY <1>3, MinIsLeast
<1>6. leaves # {} => off \in leaves
  <2> HIDE DEF leaves
  <2> QED BY <1>3, MinIsLeast
<1>7. ride # NoLeg
  BY DEF NoLeg
<1>8. ride.dep = Instant(date, Departs(calls[on])) /\ ride.arr = Instant(date, Arrives(calls[off]))
  OBVIOUS
<1> HIDE DEF ride, leg, on, off
<1>9. ASSUME leg # NoLeg
      PROVE  /\ on \in DOMAIN calls /\ off \in DOMAIN calls
             /\ Ridden(calls, on, off, from, to, date, after)
             /\ leg.dep = Instant(date, Departs(calls[on])) /\ leg.arr = Instant(date, Arrives(calls[off]))
             /\ leg.dep \in Int /\ leg.dep > after /\ leg.arr \in Int /\ leg.arr - date * DayHours \in Nat
  <2>1. /\ boards # {} /\ Timed(calls[on]) /\ ~(Instant(date, Departs(calls[on])) <= after)
        /\ leaves # {} /\ Timed(calls[off]) /\ leg = ride
    BY <1>4, <1>9
  <2>2. on \in DOMAIN calls /\ calls[on].stop \in from /\ off \in DOMAIN calls /\ off > on /\ calls[off].stop \in to
    BY <1>5, <1>6, <2>1
  <2>3. Instant(date, Departs(calls[on])) \in Int
    BY <1>2, <2>2
  <2>5. Arrives(calls[off]) \in Nat
    BY <2>1, <2>2 DEF Range, HasTimes, Timed, Departs, Arrives, Blank
  <2>6. Instant(date, Arrives(calls[off])) \in Int /\ Instant(date, Arrives(calls[off])) - date * DayHours \in Nat
    <3>1. date * DayHours \in Int
      BY ScheduleAssumption
    <3> QED BY <2>5, <3>1 DEF Instant
  <2>4. on \in Nat /\ off \in Nat
    BY <1>1, <2>2
  <2> QED BY <1>8, <2>1, <2>2, <2>3, <2>4, <2>6 DEF Ridden
<1>10. ASSUME NEW i \in DOMAIN calls, NEW j \in DOMAIN calls, Ridden(calls, i, j, from, to, date, after)
       PROVE  leg # NoLeg /\ leg.dep = Instant(date, Departs(calls[i]))
  <2>1. i \in boards /\ on = i
    BY <1>5, <1>10 DEF OnceIn, Ridden
  <2>2. j \in leaves /\ off = j
    <3>1. j \in leaves
      BY <1>1, <1>10, <2>1 DEF Ridden
    <3> QED BY <1>6, <1>10, <3>1 DEF OnceIn, Ridden
  <2>3. Timed(calls[on]) /\ Timed(calls[off]) /\ ~(Instant(date, Departs(calls[on])) <= after)
    BY <1>2, <1>10, <2>1, <2>2 DEF Ridden
  <2>4. leg = ride
    BY <1>4, <2>1, <2>2, <2>3
  <2> QED BY <1>7, <1>8, <2>1, <2>4
<1> QED BY <1>9, <1>10 DEF leg

\* The leg offered is one of a trip that runs, none of the others' sooner.
LEMMA SoonestLeg ==
  ASSUME NEW s \in Snapshots, NEW from, NEW to, NEW date \in Int, NEW after \in Int,
         \A trip \in Range(s.trips) : OnceIn(trip.calls, from) /\ OnceIn(trip.calls, to)
  PROVE  LET leg(i) == LegOf(s.trips[i], from, to, date, after)
             offered == SameLine(s, from, to, date, after)
         IN /\ offered = NoLeg => \A i \in ActiveTrips(s, date) : leg(i) = NoLeg
            /\ offered # NoLeg => \E i \in ActiveTrips(s, date) :
                 /\ leg(i) = offered
                 /\ \A j \in ActiveTrips(s, date) : leg(j) # NoLeg => offered.dep <= leg(j).dep
<1> DEFINE leg(i) == LegOf(s.trips[i], from, to, date, after)
           offered == SameLine(s, from, to, date, after)
           legs == [i \in ActiveTrips(s, date) |-> leg(i)]
           found == {i \in ActiveTrips(s, date) : leg(i) # NoLeg}
           soonest == {i \in found : \A j \in found : leg(i).dep <= leg(j).dep}
           deps == {leg(i).dep - after : i \in found}
<1>1. offered = IF found = {} THEN NoLeg ELSE legs[Min(soonest)]
  <2>1. offered = Soonest(legs)
    BY DEF SameLine
  <2>2. DOMAIN legs = ActiveTrips(s, date) /\ \A i \in ActiveTrips(s, date) : legs[i] = leg(i)
    OBVIOUS
  <2> HIDE DEF leg, legs
  <2>3. /\ found = {i \in DOMAIN legs : legs[i] # NoLeg}
        /\ soonest = {i \in found : \A j \in found : legs[i].dep <= legs[j].dep}
    BY <2>2
  <2> HIDE DEF found, soonest
  <2> QED BY <2>1, <2>3 DEF Soonest
<1>2. IsSequence(s.trips) /\ \A trip \in Range(s.trips) : IsSequence(trip.calls) /\ \A c \in Range(trip.calls) : HasTimes(c)
  BY SnapshotAssumption
<1>3. found \in SUBSET Nat /\ found \subseteq DOMAIN s.trips /\ soonest \in SUBSET Nat
  BY <1>2 DEF ActiveTrips, IsSequence
<1>4. ASSUME NEW i \in found PROVE leg(i).dep \in Int /\ leg(i).dep - after \in Nat
  <2>1. s.trips[i] \in Range(s.trips)
    BY <1>3 DEF Range
  <2>2. leg(i).dep \in Int /\ leg(i).dep > after
    BY <1>2, <2>1, LegIsRide
  <2> HIDE DEF leg
  <2> QED BY <2>2
<1>5. CASE found = {}
  BY <1>1, <1>5
<1>6. CASE found # {}
  <2>1. deps \in SUBSET Nat /\ deps # {}
    <3> HIDE DEF leg, found
    <3> QED BY <1>4, <1>6
  <2>2. Min(deps) \in deps /\ \A m \in deps : Min(deps) <= m
    <3> HIDE DEF deps
    <3> QED BY <2>1, MinIsLeast
  <2>3. PICK i \in found : Min(deps) = leg(i).dep - after
    BY <2>2
  <2>4. i \in soonest
    <3> HIDE DEF leg, found
    <3>1. \A j \in found : leg(i).dep - after <= leg(j).dep - after
      BY <2>2, <2>3
    <3> QED BY <1>4, <3>1
  <2>5. Min(soonest) \in soonest
    <3> HIDE DEF soonest
    <3> QED BY <1>3, <2>4, MinIsLeast
  <2>6. offered = leg(Min(soonest)) /\ Min(soonest) \in found
    BY <1>1, <1>6, <2>5
  <2> QED BY <2>5, <2>6
<1> QED BY <1>5, <1>6

\* A name resolves to one station or to none.
LEMMA ResolvesToOne ==
  ASSUME NEW s \in Snapshots, NEW name, NEW line, Resolve(s, name, line) # {}
  PROVE  \E station \in DOMAIN s.parent : Resolve(s, name, line) = {station}
<1> DEFINE matches == StationsNamed(s, name)
           served == {t \in matches : StopRoutes(s, t) \cap RoutesNamed(s, line) # {}}
           chosen == IF Cardinality(matches) > 1 /\ served # {} THEN served ELSE matches
<1>1. Resolve(s, name, line) = chosen /\ Cardinality(chosen) = 1
  BY DEF Resolve
<1>2. matches \in SUBSET DOMAIN s.parent
  BY DEF StationsNamed, Named, Stations, StopsOf
<1>3. chosen \in SUBSET DOMAIN s.parent
  BY <1>2
<1> HIDE DEF chosen
<1>4. IsFiniteSet(chosen)
  BY <1>3, SnapshotAssumption, FS_Subset
<1>5. PICK station : chosen = {station}
  BY <1>1, <1>4, FS_Singleton
<1> QED BY <1>1, <1>3, <1>5

\* The leg of SameLine is a ride of a trip that runs.
LEMMA SameLineRides ==
  ASSUME NEW s \in Snapshots, NEW from, NEW to, NEW date \in Int, NEW after \in Int,
         \A trip \in Range(s.trips) : OnceIn(trip.calls, from) /\ OnceIn(trip.calls, to),
         SameLine(s, from, to, date, after) # NoLeg
  PROVE  LET leg == SameLine(s, from, to, date, after)
         IN /\ leg.dep \in Int /\ leg.dep > after /\ leg.arr \in Int /\ leg.arr - date * DayHours \in Nat
            /\ \E i \in ActiveTrips(s, date) : \E k, l \in DOMAIN s.trips[i].calls :
                 /\ Ridden(s.trips[i].calls, k, l, from, to, date, after)
                 /\ leg.dep = Instant(date, Departs(s.trips[i].calls[k]))
                 /\ leg.arr = Instant(date, Arrives(s.trips[i].calls[l]))
<1> DEFINE leg == SameLine(s, from, to, date, after)
<1>1. PICK i \in ActiveTrips(s, date) : LegOf(s.trips[i], from, to, date, after) = leg
  BY SoonestLeg
<1>2. s.trips[i] \in Range(s.trips)
  BY DEF ActiveTrips, Range
<1>3. IsSequence(s.trips[i].calls) /\ \A c \in Range(s.trips[i].calls) : HasTimes(c)
  BY <1>2, SnapshotAssumption
<1> DEFINE found == LegOf(s.trips[i], from, to, date, after)
<1>4. found # NoLeg =>
        /\ found.dep \in Int /\ found.dep > after /\ found.arr \in Int /\ found.arr - date * DayHours \in Nat
        /\ \E k, l \in DOMAIN s.trips[i].calls :
             /\ Ridden(s.trips[i].calls, k, l, from, to, date, after)
             /\ found.dep = Instant(date, Departs(s.trips[i].calls[k]))
             /\ found.arr = Instant(date, Arrives(s.trips[i].calls[l]))
  BY <1>2, <1>3, LegIsRide
<1>5. found = leg /\ leg # NoLeg
  BY <1>1
<1> HIDE DEF found, leg
<1> QED BY <1>4, <1>5 DEF leg

\* The two legs by way of an interchange.
LEMMA ViaLegs ==
  ASSUME NEW s \in Snapshots, NEW station \in Range(Interchanges), NEW from, NEW to,
         NEW date \in Int, NEW after \in Int,
         \A trip \in Range(s.trips) : OnceIn(trip.calls, from) /\ OnceIn(trip.calls, to),
         Via(s, station, from, to, date, after) # <<>>
  PROVE  LET legs == Via(s, station, from, to, date, after)
             middle == Platforms(s, station)
         IN /\ legs[1] = SameLine(s, from, middle, date, after) /\ legs[1] # NoLeg
            /\ legs[2] = SameLine(s, middle, to, date, legs[1].arr) /\ legs[2] # NoLeg
            /\ legs[1].arr \in Int /\ legs[2].arr \in Int
            /\ legs[2].arr - date * DayHours \in Nat /\ Wait(legs) \in Nat
            /\ \A trip \in Range(s.trips) : OnceIn(trip.calls, middle)
<1> DEFINE middle == Platforms(s, station)
           first == SameLine(s, from, middle, date, after)
           second == SameLine(s, middle, to, date, first.arr)
           legs == Via(s, station, from, to, date, after)
<1>1. legs = <<first, second>> /\ first # NoLeg /\ second # NoLeg
  BY DEF Via
<1>2. \A trip \in Range(s.trips) : OnceIn(trip.calls, middle)
  BY CallsAssumption DEF OnceIn
<1>3. legs[1] = first /\ legs[2] = second
  BY <1>1
<1>4. first.arr \in Int
  BY <1>1, <1>2, SameLineRides
<1>5. second.dep \in Int /\ second.dep > first.arr /\ second.arr \in Int /\ second.arr - date * DayHours \in Nat
  <2> HIDE DEF first
  <2> QED BY <1>1, <1>2, <1>4, SameLineRides
<1>6. Wait(legs) \in Nat
  <2> HIDE DEF first, second, legs
  <2> QED BY <1>3, <1>4, <1>5 DEF Wait
<1> QED BY <1>1, <1>2, <1>3, <1>4, <1>5, <1>6

\* A transfer offered is one of those found by way of an interchange: of the
\* ones that arrive first, one with the least wait is no worse than any.
LEMMA BestTransfer ==
  ASSUME NEW s \in Snapshots, NEW from, NEW to, NEW date \in Int, NEW after \in Int,
         \A trip \in Range(s.trips) : OnceIn(trip.calls, from) /\ OnceIn(trip.calls, to),
         Transfer(s, from, to, date, after) # <<>>
  PROVE  \E i \in DOMAIN Interchanges :
           Transfer(s, from, to, date, after) = Via(s, Interchanges[i], from, to, date, after)
<1> DEFINE legs(i) == Via(s, Interchanges[i], from, to, date, after)
           offers == [i \in DOMAIN Interchanges |-> legs(i)]
           found == {i \in DOMAIN Interchanges : legs(i) # <<>>}
           best == {i \in found : \A j \in found : ~Better(legs(j), legs(i))}
           lands(i) == legs(i)[2].arr
           base == date * DayHours
           landings == {lands(i) - base : i \in found}
<1>1. Transfer(s, from, to, date, after) = IF found = {} THEN <<>> ELSE offers[Min(best)]
  <2>1. Transfer(s, from, to, date, after) = BestOf(offers)
    BY DEF Transfer
  <2>2. DOMAIN offers = DOMAIN Interchanges /\ \A i \in DOMAIN Interchanges : offers[i] = legs(i)
    OBVIOUS
  <2> HIDE DEF legs, offers
  <2>3. /\ found = {i \in DOMAIN offers : offers[i] # <<>>}
        /\ best = {i \in found : \A j \in found : ~Better(offers[j], offers[i])}
    BY <2>2
  <2> HIDE DEF found, best
  <2> QED BY <2>1, <2>3 DEF BestOf
<1>2. found # {}
  BY <1>1
<1>3. found \in SUBSET Nat /\ found \subseteq DOMAIN Interchanges
  BY ScheduleAssumption DEF IsSequence
<1>4. ASSUME NEW i \in found PROVE lands(i) \in Int /\ lands(i) - base \in Nat /\ Wait(legs(i)) \in Nat
  <2>1. Interchanges[i] \in Range(Interchanges)
    BY DEF Range
  <2> QED BY <2>1, ViaLegs
<1>5. base \in Int
  BY ScheduleAssumption
<1>6. best # {}
  <2>1. landings \in SUBSET Nat /\ landings # {}
    <3> HIDE DEF lands, found, base
    <3> QED BY <1>2, <1>4
  <2>2. Min(landings) \in landings /\ \A m \in landings : Min(landings) <= m
    <3> HIDE DEF landings
    <3> QED BY <2>1, MinIsLeast
  <2> DEFINE first == {i \in found : lands(i) - base = Min(landings)}
             waits == {Wait(legs(i)) : i \in first}
  <2>3. first # {}
    BY <2>2
  <2>4. waits \in SUBSET Nat /\ waits # {}
    <3> HIDE DEF legs
    <3> QED BY <1>4, <2>3
  <2>5. Min(waits) \in waits /\ \A m \in waits : Min(waits) <= m
    <3> HIDE DEF waits
    <3> QED BY <2>4, MinIsLeast
  <2>6. PICK i \in first : Min(waits) = Wait(legs(i))
    BY <2>5
  <2>7. ASSUME NEW j \in found PROVE ~Better(legs(j), legs(i))
    <3> HIDE DEF found, legs
    <3>1. lands(i) - base <= lands(j) - base /\ lands(i) - base = Min(landings)
      BY <2>2
    <3>2. ~(lands(j) < lands(i))
      <4>1. lands(i) \in Int /\ lands(j) \in Int
        BY <1>4
      <4> HIDE DEF lands, base
      <4> QED BY <1>5, <3>1, <4>1
    <3>3. lands(j) = lands(i) => Wait(legs(i)) <= Wait(legs(j))
      BY <2>5, <2>6, <3>1
    <3> QED BY <1>4, <3>2, <3>3 DEF Better
  <2> QED BY <2>7
<1>7. Min(best) \in best
  <2> HIDE DEF best
  <2> QED BY <1>3, <1>6, MinIsLeast DEF best
<1> QED BY <1>1, <1>2, <1>3, <1>7

\* Two legs or none are offered with a transfer.
LEMMA TransferIsNoLeg ==
  ASSUME NEW s \in Snapshots, NEW from, NEW to, NEW date \in Int, NEW after \in Int,
         \A trip \in Range(s.trips) : OnceIn(trip.calls, from) /\ OnceIn(trip.calls, to)
  PROVE  Len(Transfer(s, from, to, date, after)) # 1
<1> DEFINE transfer == Transfer(s, from, to, date, after)
<1>1. \A station : Len(Via(s, station, from, to, date, after)) # 1
  BY DEF Via
<1>2. transfer # <<>> => \E i \in DOMAIN Interchanges : transfer = Via(s, Interchanges[i], from, to, date, after)
  BY BestTransfer
<1> HIDE DEF transfer
<1>3. Len(transfer) # 1
  BY <1>1, <1>2
<1> QED BY <1>3 DEF transfer

\* What is offered when both names are stations and the line runs: the direct
\* service if there is one, else the transfer, else nothing.
LEMMA Offered ==
  ASSUME NEW s, NEW fromName, NEW toName, NEW line, NEW at,
         LET result == NextService(s, fromName, toName, line, at)
         IN result.reason \in {"found", "no_route_found"} \/ Len(result.legs) = 2
  PROVE  LET from == UNION {Platforms(s, x) : x \in Resolve(s, fromName, line)}
             to == UNION {Platforms(s, x) : x \in Resolve(s, toName, line)}
             direct == SameLine(s, from, to, ServiceDate(at), at)
         IN /\ Resolve(s, fromName, line) # {} /\ Resolve(s, toName, line) # {}
            /\ NextService(s, fromName, toName, line, at).legs =
                 IF direct # NoLeg THEN <<direct>> ELSE Transfer(s, from, to, ServiceDate(at), at)
<1> DEFINE start == Resolve(s, fromName, line)
           end == Resolve(s, toName, line)
           from == UNION {Platforms(s, x) : x \in start}
           to == UNION {Platforms(s, x) : x \in end}
           direct == SameLine(s, from, to, ServiceDate(at), at)
           transfer == Transfer(s, from, to, ServiceDate(at), at)
           off == \E x \in start : RoutesNamed(s, line) \cap Suspended(s, x, at) # {}
           best == IF direct # NoLeg THEN [reason |-> "found", legs |-> <<direct>>]
                   ELSE IF transfer # <<>> THEN [reason |-> "found", legs |-> transfer]
                   ELSE [reason |-> "no_route_found", legs |-> <<>>]
           result == NextService(s, fromName, toName, line, at)
<1>1. result = CASE start = {} \/ end = {} -> [reason |-> "unknown_station", legs |-> <<>>]
                 [] off -> [reason |-> "no_service_today", legs |-> <<>>]
                 [] OTHER -> best
  BY DEF NextService
<1>2. result.reason \in {"found", "no_route_found"} \/ Len(result.legs) = 2
  OBVIOUS
<1> HIDE DEF start, end, direct, transfer, off, result
<1>3. ~(start = {} \/ end = {}) /\ result = best
  BY <1>1, <1>2
<1>4. result.legs = IF direct # NoLeg THEN <<direct>> ELSE transfer
  BY <1>3
<1> QED BY <1>3, <1>4 DEF result, start, end, direct, transfer

\* No trip calls twice at the platforms a name stands for.
LEMMA EndsOnce ==
  ASSUME snap \in Snapshots, NEW name, NEW line, Resolve(snap, name, line) # {},
         NEW trip \in Range(snap.trips)
  PROVE  OnceIn(trip.calls, Ends(name, line))
<1>1. PICK station \in DOMAIN snap.parent : Resolve(snap, name, line) = {station}
  BY ResolvesToOne
<1>2. Ends(name, line) = Platforms(snap, station)
  BY <1>1 DEF Ends
<1> QED BY <1>1, <1>2, CallsAssumption DEF OnceIn

LEMMA ServiceDateIsInt == \A at \in Hours : at \in Nat /\ ServiceDate(at) \in Int
  BY ScheduleAssumption DEF ServiceDate

\* A ride of a trip that runs today is one of today's rides.
LEMMA RideRuns ==
  ASSUME NEW from, NEW to, NEW after, NEW i \in ActiveTrips(snap, ServiceDate(now)),
         NEW k \in DOMAIN snap.trips[i].calls, NEW l \in DOMAIN snap.trips[i].calls,
         Ridden(snap.trips[i].calls, k, l, from, to, ServiceDate(now), after)
  PROVE  [dep |-> Instant(ServiceDate(now), Departs(snap.trips[i].calls[k])),
          arr |-> Instant(ServiceDate(now), Arrives(snap.trips[i].calls[l]))] \in Rides(from, to, after)
<1> DEFINE date == ServiceDate(now)
           calls == snap.trips[i].calls
           pairs == {p \in (DOMAIN calls) \X (DOMAIN calls) :
                       /\ p[1] < p[2] /\ Timed(calls[p[1]]) /\ Timed(calls[p[2]])
                       /\ calls[p[1]].stop \in from /\ calls[p[2]].stop \in to
                       /\ Instant(date, Departs(calls[p[1]])) > after}
           rides == {[dep |-> Instant(date, Departs(calls[p[1]])),
                      arr |-> Instant(date, Arrives(calls[p[2]]))] : p \in pairs}
<1>1. snap.trips[i] \in Range(snap.trips) /\ snap.trips[i].service \in ActiveServices(snap, date)
  BY DEF ActiveTrips, Range
<1>2. <<k, l>> \in pairs
  BY DEF Ridden
<1>3. [dep |-> Instant(date, Departs(calls[k])), arr |-> Instant(date, Arrives(calls[l]))] \in rides
  <2> DEFINE p == <<k, l>>
  <2>1. p \in pairs /\ p[1] = k /\ p[2] = l
    BY <1>2
  <2> HIDE DEF p, pairs
  <2> QED BY <2>1
<1>4. rides \subseteq Rides(from, to, after)
  BY <1>1 DEF Rides
<1> QED BY <1>3, <1>4

\* The direct service offered runs today and none leaves sooner, and none is
\* withheld (next_service_same_line: "Soonest single trip that departs ... and
\* later calls at ... on the SAME trip").
THEOREM DirectSoonest == Spec => []DirectServiceIsSoonest
<1>1. ServiceInv => DirectServiceIsSoonest
  <2> SUFFICES ASSUME ServiceInv, question.kind = "next", answer.reason \in {"found", "no_route_found"}
               PROVE  IF Len(answer.legs) = 1
                      THEN /\ [dep |-> answer.legs[1].dep, arr |-> answer.legs[1].arr] \in Direct
                           /\ \A ride \in Direct : ride.dep >= answer.legs[1].dep
                      ELSE Direct = {}
    BY DEF DirectServiceIsSoonest
  <2> DEFINE from == Ends(question.from, question.line)
             to == Ends(question.to, question.line)
             date == ServiceDate(now)
             leg(i) == LegOf(snap.trips[i], from, to, date, now)
             offered == SameLine(snap, from, to, date, now)
             runs == ActiveTrips(snap, date)
  <2>1. snap \in Snapshots /\ now \in Nat /\ date \in Int
    BY ServiceDateIsInt DEF ServiceInv
  <2>2. answer = NextService(snap, question.from, question.to, question.line, now)
    BY DEF ServiceInv, Answer
  <2>3. /\ Resolve(snap, question.from, question.line) # {} /\ Resolve(snap, question.to, question.line) # {}
        /\ answer.legs = IF offered # NoLeg THEN <<offered>> ELSE Transfer(snap, from, to, date, now)
    BY <2>2, Offered DEF Ends
  <2>4. \A trip \in Range(snap.trips) : OnceIn(trip.calls, from) /\ OnceIn(trip.calls, to)
    BY <2>1, <2>3, EndsOnce
  <2>5. /\ IsSequence(snap.trips)
        /\ \A trip \in Range(snap.trips) : IsSequence(trip.calls) /\ \A c \in Range(trip.calls) : HasTimes(c)
    BY <2>1, SnapshotAssumption
  <2> DEFINE ridden(i, k, l) == Ridden(snap.trips[i].calls, k, l, from, to, date, now)
             departs(i, k) == Instant(date, Departs(snap.trips[i].calls[k]))
             arrives(i, l) == Instant(date, Arrives(snap.trips[i].calls[l]))
  <2>6. ASSUME NEW i \in runs
        PROVE  /\ leg(i) # NoLeg => \E k, l \in DOMAIN snap.trips[i].calls :
                    ridden(i, k, l) /\ leg(i).dep = departs(i, k) /\ leg(i).arr = arrives(i, l)
               /\ leg(i) # NoLeg => leg(i).dep \in Int
               /\ \A k, l \in DOMAIN snap.trips[i].calls :
                    ridden(i, k, l) => leg(i) # NoLeg /\ leg(i).dep = departs(i, k)
    <3>1. snap.trips[i] \in Range(snap.trips)
      BY DEF ActiveTrips, Range
    <3> QED BY <2>1, <2>4, <2>5, <3>1, LegIsRide
  <2>7. ASSUME NEW ride \in Direct
        PROVE  \E i \in runs : \E k, l \in DOMAIN snap.trips[i].calls :
                 ridden(i, k, l) /\ ride = [dep |-> departs(i, k), arr |-> arrives(i, l)]
    <3>0. PICK trip \in Range(snap.trips) :
            /\ trip.service \in ActiveServices(snap, date)
            /\ \E p \in (DOMAIN trip.calls) \X (DOMAIN trip.calls) :
                 /\ Ridden(trip.calls, p[1], p[2], from, to, date, now)
                 /\ ride = [dep |-> Instant(date, Departs(trip.calls[p[1]])),
                             arr |-> Instant(date, Arrives(trip.calls[p[2]]))]
      BY DEF Direct, Rides, Ridden
    <3>1. PICK k \in DOMAIN trip.calls, l \in DOMAIN trip.calls :
            /\ Ridden(trip.calls, k, l, from, to, date, now)
            /\ ride = [dep |-> Instant(date, Departs(trip.calls[k])), arr |-> Instant(date, Arrives(trip.calls[l]))]
      BY <3>0
    <3>2. PICK i \in DOMAIN snap.trips : snap.trips[i] = trip
      BY DEF Range
    <3>3. i \in runs
      BY <3>0, <3>2 DEF ActiveTrips
    <3> QED BY <3>1, <3>2, <3>3
  <2>8. ASSUME NEW i \in runs, NEW k \in DOMAIN snap.trips[i].calls, NEW l \in DOMAIN snap.trips[i].calls,
               ridden(i, k, l)
        PROVE  [dep |-> departs(i, k), arr |-> arrives(i, l)] \in Direct
    BY <2>8, RideRuns DEF Direct
  <2>9. /\ offered = NoLeg => \A i \in runs : leg(i) = NoLeg
        /\ offered # NoLeg => \E i \in runs :
             leg(i) = offered /\ \A j \in runs : leg(j) # NoLeg => offered.dep <= leg(j).dep
    BY <2>1, <2>4, SoonestLeg
  <2> HIDE DEF from, to, date, leg, offered, runs, ridden, departs, arrives
  <2>10. CASE offered = NoLeg
    <3>1. Direct = {}
      BY <2>6, <2>7, <2>9, <2>10
    <3>2. Len(answer.legs) # 1
      BY <2>1, <2>3, <2>4, <2>10, TransferIsNoLeg
    <3> QED BY <3>1, <3>2
  <2>11. CASE offered # NoLeg
    <3>1. Len(answer.legs) = 1 /\ answer.legs[1] = offered
      BY <2>3, <2>11
    <3>2. PICK i \in runs : leg(i) = offered /\ \A j \in runs : leg(j) # NoLeg => offered.dep <= leg(j).dep
      BY <2>9, <2>11
    <3>3. PICK k \in DOMAIN snap.trips[i].calls, l \in DOMAIN snap.trips[i].calls :
            ridden(i, k, l) /\ offered.dep = departs(i, k) /\ offered.arr = arrives(i, l)
      BY <2>6, <2>11, <3>2
    <3>4. [dep |-> offered.dep, arr |-> offered.arr] \in Direct
      BY <2>8, <3>3
    <3>5. ASSUME NEW ride \in Direct PROVE ride.dep >= offered.dep
      <4>1. PICK j \in runs : \E m, n \in DOMAIN snap.trips[j].calls :
              ridden(j, m, n) /\ ride = [dep |-> departs(j, m), arr |-> arrives(j, n)]
        BY <2>7
      <4>2. leg(j) # NoLeg /\ ride.dep = leg(j).dep /\ leg(j).dep \in Int
        BY <2>6, <4>1
      <4>3. offered.dep \in Int /\ offered.dep <= leg(j).dep
        BY <2>6, <2>11, <3>2, <4>2
      <4> QED BY <4>2, <4>3
    <3> QED BY <3>1, <3>4, <3>5
  <2> QED BY <2>10, <2>11
<1>2. Spec => []ServiceInv
  BY ServiceInit, ServiceStep, PTL DEF Spec
<1> QED BY <1>1, <1>2, PTL

-----------------------------------------------------------------------------
(* A board keeps its trains.                                               *)

LEMMA FiniteImage ==
  ASSUME NEW S, IsFiniteSet(S), NEW f, f = [x \in S |-> f[x]]
  PROVE  IsFiniteSet({f[x] : x \in S})
<1> DEFINE T == {f[x] : x \in S}
<1>1. \A x \in S : f[x] \in T
  OBVIOUS
<1>2. \A t \in T : \E x \in S : f[x] = t
  OBVIOUS
<1>3. f \in Surjection(S, T)
  BY <1>1, <1>2 DEF Surjection
<1> QED BY <1>3, FS_Surjection

LEMMA FiniteUpcoming ==
  ASSUME NEW s \in Snapshots, NEW station, NEW at
  PROVE  IsFiniteSet(Upcoming(s, station, at))
<1> DEFINE calls(i) == s.trips[i].calls
           due(i) == {n \in DOMAIN calls(i) :
                        /\ calls(i)[n].stop \in Platforms(s, station) /\ Timed(calls(i)[n])
                        /\ Instant(ServiceDate(at), Departs(calls(i)[n])) > at}
           runs == ActiveTrips(s, ServiceDate(at))
           f == [i \in runs |-> {<<i, k>> : k \in due(i)}]
<1>1. IsFiniteSet(runs)
  <2>1. PICK n \in Nat : DOMAIN s.trips = 1 .. n
    BY SnapshotAssumption DEF IsSequence
  <2> QED BY <2>1, FS_Interval, FS_Subset DEF ActiveTrips
<1>2. ASSUME NEW i \in runs PROVE IsFiniteSet({<<i, k>> : k \in due(i)})
  <2>1. s.trips[i] \in Range(s.trips)
    BY DEF ActiveTrips, Range
  <2>2. PICK n \in Nat : DOMAIN calls(i) = 1 .. n
    BY <2>1, SnapshotAssumption DEF IsSequence
  <2>3. IsFiniteSet(due(i))
    BY <2>2, FS_Interval, FS_Subset
  <2> HIDE DEF due
  <2> DEFINE g == [k \in due(i) |-> <<i, k>>]
  <2>4. IsFiniteSet({g[k] : k \in due(i)})
    BY <2>3, FiniteImage
  <2>5. {g[k] : k \in due(i)} = {<<i, k>> : k \in due(i)}
    OBVIOUS
  <2> QED BY <2>4, <2>5
<1>3. Upcoming(s, station, at) = UNION {{<<i, k>> : k \in due(i)} : i \in runs}
  BY DEF Upcoming
<1> HIDE DEF due, runs
<1>4. {f[i] : i \in runs} = {{<<i, k>> : k \in due(i)} : i \in runs}
  OBVIOUS
<1>5. IsFiniteSet({f[i] : i \in runs})
  BY <1>1, FiniteImage
<1>6. \A T \in {f[i] : i \in runs} : IsFiniteSet(T)
  BY <1>2
<1> QED BY <1>3, <1>4, <1>5, <1>6, FS_UNION

\* What is still to depart later is what was, less what has left.
LEMMA UpcomingShrinks ==
  ASSUME NEW s \in Snapshots, NEW station, NEW at \in Nat, NEW later \in Nat,
         at <= later, ServiceDate(at) \in Int, ServiceDate(later) = ServiceDate(at)
  PROVE  /\ Upcoming(s, station, later) \subseteq Upcoming(s, station, at)
         /\ \A p \in Upcoming(s, station, at) :
              /\ Departure(s, p, ServiceDate(at)).at > later => p \in Upcoming(s, station, later)
              /\ p[1] \in ActiveTrips(s, ServiceDate(at))
<1> DEFINE date == ServiceDate(at)
           calls(i) == s.trips[i].calls
           due(i, time) == {n \in DOMAIN calls(i) :
                              /\ calls(i)[n].stop \in Platforms(s, station) /\ Timed(calls(i)[n])
                              /\ Instant(date, Departs(calls(i)[n])) > time}
           runs == ActiveTrips(s, date)
<1>1. /\ Upcoming(s, station, at) = UNION {{<<i, k>> : k \in due(i, at)} : i \in runs}
      /\ Upcoming(s, station, later) = UNION {{<<i, k>> : k \in due(i, later)} : i \in runs}
  BY DEF Upcoming
<1>2. ASSUME NEW i \in runs, NEW k \in DOMAIN calls(i) PROVE Instant(date, Departs(calls(i)[k])) \in Int
  <2>1. s.trips[i] \in Range(s.trips)
    BY DEF ActiveTrips, Range
  <2>2. HasTimes(calls(i)[k])
    BY <2>1, SnapshotAssumption DEF Range
  <2>3. Departs(calls(i)[k]) \in Int
    BY <2>2 DEF HasTimes, Departs, Blank
  <2>4. date * DayHours \in Int
    BY ScheduleAssumption
  <2> QED BY <2>3, <2>4 DEF Instant
<1>3. ASSUME NEW i \in runs, NEW k \in due(i, later) PROVE k \in due(i, at)
  <2> DEFINE leaves == Instant(date, Departs(calls(i)[k]))
  <2>1. leaves \in Int /\ leaves > later
    BY <1>2
  <2>2. leaves > at
    <3> HIDE DEF leaves
    <3> QED BY <2>1
  <2> QED BY <2>2
<1>4. ASSUME NEW p \in Upcoming(s, station, at)
      PROVE  /\ p[1] \in runs
             /\ Departure(s, p, date).at > later => p \in Upcoming(s, station, later)
  <2>0. PICK i \in runs : p \in {<<i, k>> : k \in due(i, at)}
    <3> HIDE DEF due, runs
    <3> QED BY <1>1
  <2>1. PICK k \in due(i, at) : p = <<i, k>>
    <3> HIDE DEF due
    <3> QED BY <2>0
  <2>2. Departure(s, p, date).at = Instant(date, Departs(calls(i)[k]))
    BY <2>1 DEF Departure
  <2>3. Departure(s, p, date).at > later => k \in due(i, later)
    BY <2>2
  <2> HIDE DEF due, runs
  <2> QED BY <1>1, <2>1, <2>3
<1>5. Upcoming(s, station, later) \subseteq Upcoming(s, station, at)
  <2> HIDE DEF due, runs
  <2> QED BY <1>1, <1>3
<1> QED BY <1>4, <1>5

\* A departure still listed is passed by no train that was behind it.
LEMMA DeparturesStay ==
  ASSUME NEW s \in Snapshots, NEW station, NEW at \in Nat, NEW later \in Nat,
         at <= later, ServiceDate(at) \in Int, ServiceDate(later) = ServiceDate(at),
         NEW d \in Departures(s, station, at), d.at > later
  PROVE  d \in Departures(s, station, later)
<1> DEFINE date == ServiceDate(at)
           dep(p) == Departure(s, p, date)
           sooner(q, p) == dep(q).at < dep(p).at \/ (dep(q).at = dep(p).at /\ InFile(q, p))
           due == Upcoming(s, station, at)
           left == Upcoming(s, station, later)
           ahead(p) == {q \in due : dep(q).direction = dep(p).direction /\ sooner(q, p)}
           ahead2(p) == {q \in left : dep(q).direction = dep(p).direction /\ sooner(q, p)}
<1>1. /\ Departures(s, station, at) = {dep(p) : p \in {q \in due : Cardinality(ahead(q)) < Limit}}
      /\ Departures(s, station, later) = {dep(p) : p \in {q \in left : Cardinality(ahead2(q)) < Limit}}
  BY DEF Departures
<1>2. left \subseteq due /\ \A p \in due : dep(p).at > later => p \in left
  BY UpcomingShrinks
<1>3. IsFiniteSet(due)
  BY FiniteUpcoming
<1> HIDE DEF due, left, dep, sooner
<1>4. PICK p \in due : dep(p) = d /\ Cardinality(ahead(p)) < Limit
  BY <1>1
<1>5. p \in left
  BY <1>2, <1>4
<1>6. IsFiniteSet(ahead(p)) /\ ahead2(p) \in SUBSET ahead(p)
  BY <1>2, <1>3, FS_Subset
<1>7. Cardinality(ahead2(p)) < Limit
  <2> HIDE DEF ahead, ahead2
  <2>1. Cardinality(ahead2(p)) \in Nat /\ Cardinality(ahead(p)) \in Nat
    BY <1>6, FS_Subset, FS_CardinalityType
  <2>2. Cardinality(ahead2(p)) <= Cardinality(ahead(p))
    BY <1>6, FS_Subset
  <2> QED BY <1>4, <2>1, <2>2, ScheduleAssumption
<1> HIDE DEF ahead2
<1> QED BY <1>1, <1>4, <1>5, <1>7

\* So is an extra service.
LEMMA ExtrasStay ==
  ASSUME NEW s, NEW live \in Feeds, NEW station, NEW at \in Nat, NEW later \in Nat, at <= later,
         NEW d \in Extras(s, live, station, at), d.at > later
  PROVE  d \in Extras(s, live, station, later)
<1> DEFINE stops == Platforms(s, station)
           entry(id) == Entry(live.trips[id], stops)
           extra(id) == /\ live.trips[id] # NoTrip
                        /\ live.trips[id].relationship = "ADDED" /\ live.trips[id].route # NoRoute
                        /\ Calls(live.trips[id], stops) # {}
                        /\ Timed(entry(id))
           due(time) == {id \in DOMAIN live.trips : extra(id) /\ Departs(entry(id)) > time}
           place == AntiFunction(SetToSeq(DOMAIN live.trips))
           sooner(p, q) == \/ Departs(entry(p)) < Departs(entry(q))
                           \/ Departs(entry(p)) = Departs(entry(q)) /\ place[p] < place[q]
           ahead(time, p) == {q \in due(time) : sooner(q, p)}
           row(id) == [trip |-> id, route |-> live.trips[id].route, direction |-> Blank,
                       stop |-> entry(id).stop, at |-> Departs(entry(id))]
<1>1. /\ Extras(s, live, station, at) = {row(id) : id \in {p \in due(at) : Cardinality(ahead(at, p)) < Limit}}
      /\ Extras(s, live, station, later) = {row(id) : id \in {p \in due(later) : Cardinality(ahead(later, p)) < Limit}}
  BY DEF Extras
<1>2. ASSUME NEW id \in DOMAIN live.trips, extra(id) PROVE Departs(entry(id)) \in Int
  <2> DEFINE window == live.trips[id].window
             places == Calls(live.trips[id], stops)
  <2>1. IsSequence(window) /\ \A i \in DOMAIN window : HasTimes(window[i])
    BY <1>2, FeedAssumption
  <2>2. places \in SUBSET Nat /\ places # {} /\ places \subseteq DOMAIN window
    BY <1>2, <2>1 DEF Calls, IsSequence
  <2>3. Min(places) \in places
    <3> HIDE DEF places
    <3> QED BY <2>2, MinIsLeast
  <2>4. HasTimes(entry(id))
    BY <2>1, <2>2, <2>3 DEF Entry
  <2> QED BY <2>4 DEF HasTimes, Departs, Blank
<1>3. \A id : row(id).at = Departs(entry(id))
  OBVIOUS
<1> HIDE DEF extra, entry, row
<1>4. due(later) \subseteq due(at)
  BY <1>2
<1>5. IsFiniteSet(due(at))
  BY FeedAssumption, FS_Subset
<1>6. \A id \in due(at) : Departs(entry(id)) > later => id \in due(later)
  OBVIOUS
<1> HIDE DEF due, sooner
<1>7. PICK id \in due(at) : row(id) = d /\ Cardinality(ahead(at, id)) < Limit
  BY <1>1
<1>8. id \in due(later)
  BY <1>3, <1>6, <1>7
<1>9. IsFiniteSet(ahead(at, id)) /\ ahead(later, id) \in SUBSET ahead(at, id)
  BY <1>4, <1>5, FS_Subset
<1>10. Cardinality(ahead(later, id)) < Limit
  <2> HIDE DEF ahead
  <2>1. Cardinality(ahead(later, id)) \in Nat /\ Cardinality(ahead(at, id)) \in Nat
    BY <1>9, FS_Subset, FS_CardinalityType
  <2>2. Cardinality(ahead(later, id)) <= Cardinality(ahead(at, id))
    BY <1>9, FS_Subset
  <2> QED BY <1>7, <2>1, <2>2, ScheduleAssumption
<1> HIDE DEF ahead
<1> QED BY <1>1, <1>7, <1>8, <1>10

LEMMA ExtrasHaveNoDirection ==
  ASSUME NEW s, NEW live, NEW station, NEW at, NEW d \in Extras(s, live, station, at)
  PROVE  d.direction = Blank
<1> DEFINE entry(id) == Entry(live.trips[id], Platforms(s, station))
           row(id) == [trip |-> id, route |-> live.trips[id].route, direction |-> Blank,
                       stop |-> entry(id).stop, at |-> Departs(entry(id))]
<1>1. \E id : d = row(id)
  BY DEF Extras
<1> QED BY <1>1

\* A line with a departure on the board is not without service.
LEMMA BoardedLinesRun ==
  ASSUME NEW s \in Snapshots, NEW station, NEW at \in Nat, ServiceDate(at) \in Int,
         NEW d \in Departures(s, station, at)
  PROVE  d.route \in RoutesRunning(s, ServiceDate(at))
<1> DEFINE date == ServiceDate(at)
<1>1. PICK p \in Upcoming(s, station, at) : d = Departure(s, p, date)
  BY DEF Departures
<1>2. p[1] \in ActiveTrips(s, date)
  BY UpcomingShrinks
<1>3. d.route = s.trips[p[1]].route
  BY <1>1 DEF Departure
<1> QED BY <1>2, <1>3 DEF RoutesRunning

\* What a later board shows of an earlier one, the feed and the date the same.
LEMMA BoardKeeps ==
  ASSUME snap \in Snapshots, NEW live \in Feeds, NEW station, NEW at \in Hours, NEW later \in Hours,
         at <= later, ServiceDate(later) = ServiceDate(at)
  PROVE  /\ \A d \in Board(station, live, at).departures :
              d.departure.at > later => d \in Board(station, live, later).departures
         /\ {d.departure.route : d \in {e \in Board(station, live, later).departures : e.departure.direction # Blank}}
              \cap Board(station, live, later).suspended = {}
<1>1. at \in Nat /\ later \in Nat /\ ServiceDate(at) \in Int /\ ServiceDate(later) \in Int
  BY ServiceDateIsInt
<1> DEFINE shown(time) == Departures(snap, station, time) \cup Extras(snap, live, station, time)
<1>2. \A time : /\ Board(station, live, time).departures = {Overlaid(live, d) : d \in shown(time)}
                /\ Board(station, live, time).suspended = Suspended(snap, station, time)
  BY DEF Board
<1>3. \A d : Overlaid(live, d).departure = d
  BY DEF Overlaid
<1>4. ASSUME NEW d \in shown(at), d.at > later PROVE d \in shown(later)
  <2>1. CASE d \in Departures(snap, station, at)
    BY <1>1, <1>4, <2>1, DeparturesStay
  <2>2. CASE d \in Extras(snap, live, station, at)
    BY <1>1, <1>4, <2>2, ExtrasStay
  <2> QED BY <2>1, <2>2
<1>5. ASSUME NEW d \in shown(later), d.direction # Blank PROVE d.route \notin Suspended(snap, station, later)
  <2>1. d \notin Extras(snap, live, station, later)
    BY <1>1, <1>5, ExtrasHaveNoDirection
  <2>2. d.route \in RoutesRunning(snap, ServiceDate(later))
    BY <1>1, <2>1, BoardedLinesRun
  <2> QED BY <2>2 DEF Suspended
<1> HIDE DEF shown
<1>6. \A d \in Board(station, live, at).departures :
        d.departure.at > later => d \in Board(station, live, later).departures
  BY <1>2, <1>3, <1>4
<1>7. \A d \in Board(station, live, later).departures :
        d.departure.direction # Blank => d.departure.route \notin Board(station, live, later).suspended
  BY <1>2, <1>3, <1>5
<1> QED BY <1>6, <1>7

\* While the feed stands and the service date lasts, a train on a station's
\* board stays there until it leaves, and no line of one is among those
\* without service (next_departures, added_departures, lines_no_service_today).
THEOREM BoardsKeep == Spec => BoardsKeepTrains
<1>1. ServiceInv /\ [Next]_vars
        => [(question.kind = "board" /\ UNCHANGED <<question, feed>> /\ ServiceDate(now') = ServiceDate(now)) =>
              /\ \A d \in answer.departures : d.departure.at > now' => d \in answer'.departures
              /\ {d.departure.route : d \in {e \in answer'.departures : e.departure.direction # Blank}}
                   \cap answer'.suspended = {}]_vars
  <2> SUFFICES ASSUME ServiceInv, [Next]_vars, question.kind = "board", UNCHANGED <<question, feed>>,
                      ServiceDate(now') = ServiceDate(now)
               PROVE  /\ \A d \in answer.departures : d.departure.at > now' => d \in answer'.departures
                      /\ {d.departure.route : d \in {e \in answer'.departures : e.departure.direction # Blank}}
                           \cap answer'.suspended = {}
    OBVIOUS
  <2>1. ServiceInv'
    BY ServiceStep
  <2>2. snap' = snap /\ (now' = now \/ now' = now + 1) /\ now \in Nat
    BY ServiceDateIsInt DEF Next, AskLater, Ask, Poll, vars, ServiceInv
  <2>3. answer = Board(question.station, feed, now)
    BY DEF ServiceInv, Answer
  <2>4. answer' = Board(question.station, feed, now')
    BY <2>1, <2>2 DEF ServiceInv, Answer, Board
  <2>5. snap \in Snapshots /\ feed \in Feeds /\ now \in Hours /\ now' \in Hours /\ now <= now'
    BY <2>1, <2>2 DEF ServiceInv
  <2> QED BY <2>3, <2>4, <2>5, BoardKeeps
<1>2. Spec => []ServiceInv
  BY ServiceInit, ServiceStep, PTL DEF Spec
<1> QED BY <1>1, <1>2, PTL DEF Spec, BoardsKeepTrains

-----------------------------------------------------------------------------
(* The transfer.                                                           *)

\* A transfer offered can be made: both legs run today, they meet at one
\* interchange, and the second leaves after the first is there
\* (find_next_service_single_transfer: the second leg is looked for from the first
\* one's arrival).
THEOREM TransferMeets == Spec => []TransferConnects
<1>1. ServiceInv => TransferConnects
  <2> DEFINE from == Ends(question.from, question.line)
             to == Ends(question.to, question.line)
             date == ServiceDate(now)
             legs == answer.legs
             times(leg) == [dep |-> leg.dep, arr |-> leg.arr]
  <2> SUFFICES ASSUME ServiceInv, question.kind = "next", Len(answer.legs) = 2
               PROVE  \E i \in DOMAIN Interchanges :
                        LET middle == Platforms(snap, Interchanges[i])
                        IN times(legs[1]) \in Rides(from, middle, now) /\ times(legs[2]) \in Rides(middle, to, legs[1].arr)
    BY DEF TransferConnects
  <2>1. snap \in Snapshots /\ now \in Int /\ date \in Int
    BY ServiceDateIsInt DEF ServiceInv
  <2>2. answer = NextService(snap, question.from, question.to, question.line, now)
    BY DEF ServiceInv, Answer
  <2>3. /\ Resolve(snap, question.from, question.line) # {} /\ Resolve(snap, question.to, question.line) # {}
        /\ legs = Transfer(snap, from, to, date, now) /\ legs # <<>>
    <3> DEFINE direct == SameLine(snap, from, to, date, now)
    <3>1. /\ Resolve(snap, question.from, question.line) # {} /\ Resolve(snap, question.to, question.line) # {}
          /\ legs = IF direct # NoLeg THEN <<direct>> ELSE Transfer(snap, from, to, date, now)
      BY <2>2, Offered DEF Ends
    <3> HIDE DEF legs, direct
    <3>2. Len(legs) = 2
      BY DEF legs
    <3> QED BY <3>1, <3>2
  <2>4. \A trip \in Range(snap.trips) : OnceIn(trip.calls, from) /\ OnceIn(trip.calls, to)
    BY <2>1, <2>3, EndsOnce
  <2> HIDE DEF from, to, date, legs
  <2>5. PICK i \in DOMAIN Interchanges : legs = Via(snap, Interchanges[i], from, to, date, now)
    BY <2>1, <2>3, <2>4, BestTransfer
  <2> DEFINE middle == Platforms(snap, Interchanges[i])
  <2>6. /\ legs[1] = SameLine(snap, from, middle, date, now) /\ legs[1] # NoLeg
        /\ legs[2] = SameLine(snap, middle, to, date, legs[1].arr) /\ legs[2] # NoLeg
        /\ legs[1].arr \in Int
        /\ \A trip \in Range(snap.trips) : OnceIn(trip.calls, middle)
    <3>1. Interchanges[i] \in Range(Interchanges) /\ Via(snap, Interchanges[i], from, to, date, now) # <<>>
      BY <2>3, <2>5 DEF Range
    <3> QED BY <2>1, <2>4, <2>5, <3>1, ViaLegs
  <2> HIDE DEF middle
  <2>7. ASSUME NEW ends, NEW starts, NEW after \in Int, NEW leg, leg # NoLeg,
               leg = SameLine(snap, starts, ends, date, after),
               \A trip \in Range(snap.trips) : OnceIn(trip.calls, starts) /\ OnceIn(trip.calls, ends)
        PROVE  times(leg) \in Rides(starts, ends, after)
    <3>1. PICK n \in ActiveTrips(snap, date) : \E k, l \in DOMAIN snap.trips[n].calls :
            /\ Ridden(snap.trips[n].calls, k, l, starts, ends, date, after)
            /\ leg.dep = Instant(date, Departs(snap.trips[n].calls[k]))
            /\ leg.arr = Instant(date, Arrives(snap.trips[n].calls[l]))
      BY <2>1, <2>7, SameLineRides
    <3>2. PICK k \in DOMAIN snap.trips[n].calls, l \in DOMAIN snap.trips[n].calls :
            /\ Ridden(snap.trips[n].calls, k, l, starts, ends, date, after)
            /\ leg.dep = Instant(date, Departs(snap.trips[n].calls[k]))
            /\ leg.arr = Instant(date, Arrives(snap.trips[n].calls[l]))
      BY <3>1
    <3> QED BY <3>2, RideRuns DEF date
  <2>8. times(legs[1]) \in Rides(from, middle, now) /\ times(legs[2]) \in Rides(middle, to, legs[1].arr)
    BY <2>1, <2>4, <2>6, <2>7
  <2> QED BY <2>8 DEF middle
<1>2. Spec => []ServiceInv
  BY ServiceInit, ServiceStep, PTL DEF Spec
<1> QED BY <1>1, <1>2, PTL

=============================================================================
