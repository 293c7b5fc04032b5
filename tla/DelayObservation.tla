-------------------------- MODULE DelayObservation --------------------------
(***************************************************************************)
(* state/delay_observation.py: at most one delay observation per trip and  *)
(* pacing interval.  A pace is what the tracker holds for one trip: when   *)
(* it was last observed, and whether the call in progress observed it.     *)
(***************************************************************************)
EXTENDS Integers, Domain

CONSTANTS
  ObservationInterval,    \* OBSERVATION_INTERVAL_S
  ObservedRetention       \* LAST_OBSERVED_RETENTION_S

ASSUME ObservationAssumption ==
  /\ ObservationInterval \in Nat \ {0}
  /\ ObservedRetention \in Nat \ {0}

Pace == [lastObserved : Nat \cup {NONE}, observed : BOOLEAN]
UnpacedTrip == [lastObserved |-> NONE, observed |-> FALSE]

\* compute_delay_features gives a feature set; a cancelled trip, an empty
\* window and a window without a usable delay give none.
HasFeatures(snap) ==
  /\ snap # NONE
  /\ snap.hasSchedule
  /\ snap.trip["start_date"] \notin {NONE, "malformed"}
  /\ snap.trip["schedule_relationship"] # "CANCELED"
  /\ snap.window = "observable"

\* Mutant: an observation exactly one interval old still holds the next back.
DueLate(pace, now) ==
  pace.lastObserved = NONE \/ now - pace.lastObserved > ObservationInterval

Due(pace, now) ==
  pace.lastObserved = NONE \/ now - pace.lastObserved >= ObservationInterval

\* tick() for one trip, its eviction of old entries included.
DelayTick(pace, snap, known, now) ==
  LET fresh == HasFeatures(snap) /\ Due(pace, now) /\ known
      last  == IF fresh THEN now ELSE pace.lastObserved
  IN [observed     |-> fresh,
      lastObserved |-> IF last # NONE /\ now - last >= ObservedRetention
                         THEN NONE ELSE last]

=============================================================================
