--------------------------- MODULE TripCompletion ---------------------------
(***************************************************************************)
(* state/completion.py: classify each trip once, when it reaches its       *)
(* terminus, is cancelled, or is lost to a coverage gap.  As in            *)
(* TrainLifecycle a slot is what the tracker holds for one trip: when its  *)
(* pending entry was last touched, when it was finalized, and the outcome  *)
(* recorded for it by the call in progress.  No call records two: what is  *)
(* finalized is no longer pending.                                         *)
(***************************************************************************)
EXTENDS Integers, Domain

CONSTANTS
  OnTimeThreshold,       \* THRESHOLDS_S for the trip's mode and category
  UndeterminedTimeout,   \* UNDETERMINED_TIMEOUT_S
  FinalizedRetention     \* FINALIZED_RETENTION_S

ASSUME CompletionAssumption ==
  /\ OnTimeThreshold \in Int
  /\ UndeterminedTimeout \in Nat \ {0}
  /\ FinalizedRetention \in Nat \ {0}

Outcome == {"on_time", "late", "cancelled", "undetermined_gap"}

Record == [touchedAt : Nat \cup {NONE}, finalizedAt : Nat \cup {NONE},
           outcome : Outcome \cup {NONE}]

EmptyRecord == [touchedAt |-> NONE, finalizedAt |-> NONE, outcome |-> NONE]

\* A trip's schedule is observable only with a fresh TU entity whose
\* start_date parses.
Observable(snap) ==
  /\ snap # NONE
  /\ snap.hasSchedule
  /\ snap.trip["start_date"] \notin {NONE, "malformed"}

\* _pending[trip] is created or touched; NONE when the trip stays untracked.
Register(record, known, now) ==
  IF record.touchedAt = NONE /\ (record.finalizedAt # NONE \/ ~known)
    THEN record ELSE [record EXCEPT !.touchedAt = now]

Finalize(outcome, now) ==
  [touchedAt |-> NONE, finalizedAt |-> now, outcome |-> outcome]

Punctuality(delay) == IF delay <= OnTimeThreshold THEN "on_time" ELSE "late"

\* One trip's turn in the loop of tick(); `known` says the pinned static
\* schedule resolves the trip's terminus.
Observe(record, snap, known, now) ==
  IF ~Observable(snap) THEN record
  ELSE LET registered == Register(record, known, now)
       IN IF registered.touchedAt = NONE THEN registered
          ELSE IF snap.trip["schedule_relationship"] = "CANCELED"
            THEN Finalize("cancelled", now)
          ELSE IF snap.terminusDelay # NONE
            THEN Finalize(Punctuality(snap.terminusDelay), now)
          ELSE registered

\* _evict_stale: gap the pending trips that went quiet, then forget old
\* finalizations.
Expire(record, now) ==
  LET gapped == IF record.touchedAt # NONE
                     /\ now - record.touchedAt >= UndeterminedTimeout
                  THEN Finalize("undetermined_gap", now) ELSE record
  IN IF gapped.finalizedAt # NONE /\ now - gapped.finalizedAt >= FinalizedRetention
       THEN [gapped EXCEPT !.finalizedAt = NONE] ELSE gapped

CompletionTick(record, snap, known, now) ==
  Expire(Observe([record EXCEPT !.outcome = NONE], snap, known, now), now)

CompletionFlush(record, now) ==
  LET quiet == [record EXCEPT !.outcome = NONE]
  IN IF record.touchedAt = NONE THEN quiet
     ELSE Finalize("undetermined_gap", now)

=============================================================================
