----------------------------- MODULE StateStore -----------------------------
(***************************************************************************)
(* state/store.py: ingest() merges the two feeds, logs the edges of their  *)
(* discrepancies, advances the lifecycle of every train, classifies        *)
(* finished trips and feeds each classification back into the lifecycle,   *)
(* all in one synchronous call.  The delay and headway trackers read the   *)
(* same snapshots.  Each tracker is optional in the constructor.           *)
(***************************************************************************)
EXTENDS Merge, TrainLifecycle, TripCompletion, DelayObservation, Headway

CONSTANTS
  TuEntities, VpEntities,  \* what the feeds may say of a trip
  SaFeeds,                 \* what the alert feed may say
  Starts,                  \* when the first cycle may be
  Steps,                   \* seconds between two cycles
  Lookups,                 \* trips the pinned schedule may resolve in a cycle
  Stops,                   \* stops a train may be dwelling at
  TrackCompletion, TrackDelay, TrackHeadway,  \* the optional trackers
  MaxTime                  \* bound: no cycle later than this

ASSUME StoreAssumption ==
  /\ NONE \notin Nat
  /\ NONE \notin Train
  /\ NONE \notin Remembered
  /\ NONE \notin Outcome
  /\ NONE \notin [stop : Stops, at : Nat]
  /\ TuEntities \subseteq TuEntity
  /\ VpEntities \subseteq VpEntity
  /\ Starts \subseteq Nat
  /\ Steps \subseteq Nat \ {0}
  /\ MaxTime \in Nat

\* completion.py and ghost.py use one value for each of these pairs.
ASSUME RetentionAssumption ==
  /\ ResolutionRetention <= FinalizedRetention
  /\ UndeterminedTimeout <= MaxGhostAge

VARIABLES
  lastTickAt,           \* TrainLifecycleTracker._last_tick_at
  lifecycle,            \* trip -> lifecycle slot
  completion,           \* trip -> completion record
  pace,                 \* trip -> delay-observation pace
  dwells,               \* HeadwayTracker._recorded_dwell
  arrivals,             \* HeadwayTracker._arrivals
  primed,               \* HeadwayTracker._primed
  activeDiscrepancies,  \* StateStore._active_discrepancies
  loggedDiscrepancies,  \* the discrepancies the last call recorded
  latestSnapshots,      \* StateStore.latest_snapshots
  latestAlerts,         \* StateStore.latest_alerts
  flushed               \* the caller has ended the run with flush()

trackers == <<lastTickAt, lifecycle, completion, pace, dwells, arrivals, primed>>
vars == <<trackers, activeDiscrepancies, loggedDiscrepancies, latestSnapshots,
          latestAlerts, flushed>>

Init ==
  /\ lastTickAt = NONE
  /\ lifecycle = [t \in Trips |-> EmptySlot]
  /\ completion = [t \in Trips |-> EmptyRecord]
  /\ pace = [t \in Trips |-> UnpacedTrip]
  /\ dwells = [t \in Trips |-> NONE]
  /\ arrivals = <<>>
  /\ primed = FALSE
  /\ activeDiscrepancies = {}
  /\ loggedDiscrepancies = {}
  /\ latestSnapshots = [t \in Trips |-> NONE]
  /\ latestAlerts = {}
  /\ flushed = FALSE

\* A new process begins with a new store.
Forget ==
  /\ lastTickAt' = NONE
  /\ lifecycle' = [t \in Trips |-> EmptySlot]
  /\ completion' = [t \in Trips |-> EmptyRecord]
  /\ pace' = [t \in Trips |-> UnpacedTrip]
  /\ dwells' = [t \in Trips |-> NONE]
  /\ arrivals' = <<>>
  /\ primed' = FALSE
  /\ activeDiscrepancies' = {}
  /\ loggedDiscrepancies' = {}
  /\ latestSnapshots' = [t \in Trips |-> NONE]
  /\ latestAlerts' = {}
  /\ flushed' = FALSE

-----------------------------------------------------------------------------

\* What ingest() tells the lifecycle of an outcome recorded in this call; a
\* coverage gap is no known outcome and is not forwarded.
Settle(slot, outcome, now) ==
  CASE outcome = "cancelled"          -> MarkResolved(slot, "cancelled", now)
    [] outcome \in {"on_time", "late"} -> MarkResolved(slot, "completed", now)
    [] OTHER                          -> slot

Elapsed(now) == IF lastTickAt = NONE THEN 0 ELSE now - lastTickAt

CompletionsAfter(snaps, known, now) ==
  IF TrackCompletion
    THEN [t \in Trips |-> CompletionTick(completion[t], snaps[t], t \in known, now)]
    ELSE completion

LifecyclesAfter(snaps, settled, now, backoff) ==
  [t \in Trips |->
     Settle(LifecycleTick(lifecycle[t], snaps[t], now, Elapsed(now), backoff),
            settled[t].outcome, now)]

PacesAfter(snaps, known, now) ==
  IF TrackDelay
    THEN [t \in Trips |-> DelayTick(pace[t], snaps[t], t \in known, now)]
    ELSE pace

\* The groups that gain an arrival and how many trips give it one.
HeadwayStep(snaps, stopOf, known, now) ==
  LET arriving == {t \in Trips : Arrives(dwells[t], snaps[t], stopOf[t], t \in known, primed, t)}
      group(t) == GroupOf(snaps[t], stopOf[t], t)
      touched  == {group(t) : t \in arriving}
      before(g) == IF g \in DOMAIN arrivals THEN arrivals[g] ELSE <<>>
  IN /\ dwells' = [t \in Trips |->
           DwellTick(dwells[t], snaps[t], stopOf[t], t \in known, primed, now, t)]
     /\ arrivals' = [g \in DOMAIN arrivals \cup touched |->
           ArrivalsAfter(before(g), Cardinality({t \in arriving : group(t) = g}), now)]
     /\ primed' = TRUE

Ingest(tuFeed, vpFeed, sa, now, backoff, known, stopOf) ==
  LET snaps   == MergedSnapshots(tuFeed, vpFeed)
      current == Discrepancies(tuFeed, vpFeed)
      settled == CompletionsAfter(snaps, known, now)
  IN /\ latestAlerts' = IF sa = NONE THEN latestAlerts ELSE sa
     /\ loggedDiscrepancies' = current \ activeDiscrepancies
     /\ activeDiscrepancies' = current
     /\ lifecycle' = LifecyclesAfter(snaps, settled, now, backoff)
     /\ lastTickAt' = now
     /\ completion' = settled
     /\ pace' = PacesAfter(snaps, known, now)
     /\ IF TrackHeadway THEN HeadwayStep(snaps, stopOf, known, now)
                        ELSE UNCHANGED <<dwells, arrivals, primed>>
     /\ latestSnapshots' = snaps

\* flush() ends a replay: its callers make no further call.
Flush(now) ==
  /\ ~flushed
  /\ flushed' = TRUE
  /\ lifecycle' = [t \in Trips |-> LifecycleFlush(lifecycle[t], now)]
  /\ completion' = IF TrackCompletion
                     THEN [t \in Trips |-> CompletionFlush(completion[t], now)]
                     ELSE completion
  /\ UNCHANGED <<lastTickAt, pace, dwells, arrivals, primed, activeDiscrepancies,
                 loggedDiscrepancies, latestSnapshots, latestAlerts>>

-----------------------------------------------------------------------------
(* The inputs a cycle may bring.                                           *)

TuFeeds == [stamped : BOOLEAN, entity : [Trips -> TuEntities \cup {NONE}]]
VpFeeds == [stamped : BOOLEAN, entity : [Trips -> VpEntities \cup {NONE}]]
StopsNow == [Trips -> IF TrackHeadway THEN Stops \cup {NONE} ELSE {NONE}]

CycleTimes ==
  IF lastTickAt = NONE THEN Starts
  ELSE {now \in {lastTickAt + s : s \in Steps} : now <= MaxTime}

Cycle ==
  /\ ~flushed
  /\ UNCHANGED flushed
  /\ \E now \in CycleTimes, backoff \in BOOLEAN, known \in Lookups,
        tuFeed \in TuFeeds, vpFeed \in VpFeeds, sa \in SaFeeds \cup {NONE},
        stopOf \in StopsNow :
       Ingest(tuFeed, vpFeed, sa, now, backoff, known, stopOf)

End == \E now \in CycleTimes : Flush(now)

Next == Cycle \/ End

Spec == Init /\ [][Next]_vars

-----------------------------------------------------------------------------
(* Correctness.                                                            *)

TypeOK ==
  /\ lastTickAt \in Nat \cup {NONE}
  /\ lifecycle \in [Trips -> Slot]
  /\ completion \in [Trips -> Record]
  /\ pace \in [Trips -> Pace]
  /\ latestSnapshots \in [Trips -> Snapshot \cup {NONE}]
  /\ flushed \in BOOLEAN
  /\ primed \in BOOLEAN

train(t) == lifecycle[t].train
Tracked(t) == IsTracked(lifecycle[t])
EverSeen(t) == Tracked(t) /\ train(t).lastSeenAt # NONE

\* The map and the snapshots the API joins with it agree: a train is shown
\* live exactly when the poll last ingested placed it (ghost.py tick(),
\* store.py ingest()).
LiveIffPlacedByLastPoll ==
  \A t \in Trips :
    (Tracked(t) /\ train(t).status = "live")
      <=> (latestSnapshots[t] # NONE /\ latestSnapshots[t].hasPosition)

\* The coasting clock is exactly the time since the last position unless a
\* backoff froze it, and then it lags: backoff_overlapped marks the trains
\* whose clock lost time, and no others.
CoastingClockIsExact ==
  \A t \in Trips : EverSeen(t) =>
    /\ train(t).coastingElapsed <= lastTickAt - train(t).lastSeenAt
    /\ train(t).backoffOverlapped
         <=> train(t).coastingElapsed < lastTickAt - train(t).lastSeenAt

\* A train that was ever seen is a ghost exactly when its clock reached the
\* timeout, and its episode starts no earlier than the timeout after the last
\* position and no later than now.
GhostIffClockExpired ==
  \A t \in Trips : EverSeen(t) =>
    /\ IsGhost(lifecycle[t]) <=> train(t).coastingElapsed >= CoastingTimeout
    /\ IsGhost(lifecycle[t]) =>
         /\ train(t).ghostStartedAt \in train(t).lastSeenAt + CoastingTimeout .. lastTickAt
    /\ ~IsGhost(lifecycle[t]) => train(t).ghostStartedAt = NONE

\* A remembered resolution always waits for a train that is still visible, was
\* placed no later than the resolution, and is the one the completion tracker
\* finalized then.  mark_resolved() therefore never remembers a trip the
\* lifecycle has dropped (ghost.py _resolved, completion.py _finalized).
ResolutionAwaitsVisibleTrain ==
  \A t \in Trips : LET resolved == lifecycle[t].resolved IN
    resolved # NONE =>
      /\ EverSeen(t)
      /\ IsVisible(lifecycle[t])
      /\ train(t).lastSeenAt <= resolved.at
      /\ completion[t].finalizedAt = resolved.at

\* A trip whose completion is still awaited is on the map: the lifecycle never
\* drops a train the completion tracker is waiting for.
PendingIsTracked ==
  \A t \in Trips : LET touchedAt == completion[t].touchedAt IN
    touchedAt # NONE =>
      /\ completion[t].finalizedAt = NONE
      /\ Tracked(t)
      /\ touchedAt <= train(t).lastTouchedAt

\* Nothing outlives its retention: every tracked train was listed by a feed,
\* every pending trip by Trip Updates, within the respective timeout of the
\* last cycle, and every finalization is younger than its retention.
MemoryIsBounded ==
  \A t \in Trips :
    /\ Tracked(t) => lastTickAt - train(t).lastTouchedAt < MaxGhostAge
    /\ completion[t].touchedAt # NONE =>
         lastTickAt - completion[t].touchedAt < UndeterminedTimeout
    /\ completion[t].finalizedAt # NONE /\ ~flushed =>
         lastTickAt - completion[t].finalizedAt < FinalizedRetention

\* A trip that every cycle resolves and whose schedule yields features now has
\* an observation younger than the pacing interval: neither the pacing nor its
\* eviction starves the training set (delay_observation.py tick()).
ObservableTripsAreSampled ==
  \A t \in Trips :
    HasFeatures(latestSnapshots[t]) /\ (\A known \in Lookups : t \in known) =>
      /\ pace[t].lastObserved # NONE
      /\ lastTickAt - pace[t].lastObserved < ObservationInterval

DwellsAt(dwell, stop) == dwell # NONE /\ dwell.stop = stop
ArrivalsNow(g) == {i \in DOMAIN arrivals[g] : arrivals[g][i] = lastTickAt}

\* A group's arrivals are a bounded window in time order, so that the gaps
\* compute_headway_info averages are never negative, and no more of them carry
\* the last cycle's time than there are trains standing at its stop.
ArrivalsAreChronological ==
  \A g \in DOMAIN arrivals :
    /\ Len(arrivals[g]) \in 1 .. MaxArrivals
    /\ \A i, j \in DOMAIN arrivals[g] : i < j => arrivals[g][i] <= arrivals[g][j]
    /\ Cardinality(ArrivalsNow(g)) <=
         Cardinality({t \in Trips : DwellsAt(dwells[t], g[1]) /\ dwells[t].at = lastTickAt})

\* However many cycles a dwell spans, it is one arrival: a group gains at most
\* the trains that stand at its stop now and did not before (headway.py
\* _recorded_dwell).
OneArrivalPerDwell ==
  [][ lastTickAt' # lastTickAt =>
        \A g \in DOMAIN arrivals' :
          Cardinality(ArrivalsNow(g)') <=
            Cardinality({t \in Trips : DwellsAt(dwells'[t], g[1]) /\ ~DwellsAt(dwells[t], g[1])})
    ]_vars

\* The store implements the abstract ledger of ghost episodes.
ShownAs(slot) == IF slot.train # NONE THEN slot.train.status ELSE "untracked"
Reasons(slot) == [i \in DOMAIN slot.events |-> slot.events[i].reason]

Episodes == INSTANCE GhostEpisodes WITH
  shown  <- [t \in Trips |-> ShownAs(lifecycle[t])],
  closed <- [t \in Trips |-> Reasons(lifecycle[t])]

EpisodeLedger == Episodes!Spec

=============================================================================
