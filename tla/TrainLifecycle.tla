--------------------------- MODULE TrainLifecycle ---------------------------
(***************************************************************************)
(* state/ghost.py: the live -> coasting -> ghost machine of one train, as  *)
(* operators on a slot.  Trains share nothing but the clock, so a slot is  *)
(* everything the tracker holds for one trip: its _TrackedTrain, the       *)
(* resolution remembered for it, and the GhostEvents written for it by the *)
(* call in progress (the event log is a sink that nothing reads back).     *)
(***************************************************************************)
EXTENDS Integers, Sequences, Domain

CONSTANTS
  CoastingTimeout,      \* COASTING_TIMEOUT_S
  MaxGhostAge,          \* MAX_GHOST_AGE_S
  ResolutionRetention   \* RESOLUTION_RETENTION_S

ASSUME LifecycleAssumption ==
  /\ CoastingTimeout \in Nat \ {0}
  /\ MaxGhostAge \in Nat \ {0}
  /\ ResolutionRetention \in Nat \ {0}

Status == {"live", "coasting", "ghost"}
Resolution == {"completed", "cancelled"}
Reason == Resolution \cup {"reappeared", "timed_out", "flushed"}

Train ==
  [status : Status, lastSeenAt : Nat \cup {NONE}, coastingElapsed : Nat,
   backoffOverlapped : BOOLEAN, ghostStartedAt : Nat \cup {NONE},
   lastTouchedAt : Nat \cup {NONE}]

Remembered == [resolution : Resolution, at : Nat]

GhostEvent ==
  [reason : Reason, lastSeenAt : Nat \cup {NONE}, reappearedAt : Nat \cup {NONE},
   duration : Int \cup {NONE}, backoffOverlapped : BOOLEAN]

Slot == [train : Train \cup {NONE}, resolved : Remembered \cup {NONE},
         events : Seq(GhostEvent)]

EmptySlot == [train |-> NONE, resolved |-> NONE, events |-> <<>>]

NewTrain ==
  [status |-> "live", lastSeenAt |-> NONE, coastingElapsed |-> 0,
   backoffOverlapped |-> FALSE, ghostStartedAt |-> NONE, lastTouchedAt |-> NONE]

IsTracked(slot) == slot.train # NONE
IsGhost(slot) == IsTracked(slot) /\ slot.train.status = "ghost"
IsVisible(slot) == IsTracked(slot) /\ slot.train.status # "ghost"

-----------------------------------------------------------------------------
(* Pieces of tick().  `train` is the train being worked on, `slot` still   *)
(* holds what the tracker had before.                                      *)

EpisodeEvent(train, reason, now, reappearedAt) ==
  [reason            |-> reason,
   lastSeenAt        |-> train.lastSeenAt,
   reappearedAt      |-> reappearedAt,
   duration          |-> IF train.ghostStartedAt = NONE THEN NONE
                                          ELSE now - train.ghostStartedAt,
   backoffOverlapped |-> train.backoffOverlapped]

Emit(slot, train, reason, now, reappearedAt) ==
  Append(slot.events, EpisodeEvent(train, reason, now, reappearedAt))

\* A live position closes an open episode and forgets any resolution.
Confirm(slot, train, now) ==
  [train    |-> [train EXCEPT !.status = "live",
                              !.lastSeenAt = now,
                              !.coastingElapsed = 0,
                              !.backoffOverlapped = FALSE,
                              !.ghostStartedAt = NONE],
   resolved |-> NONE,
   events   |-> IF train.status = "ghost"
                  THEN Emit(slot, train, "reappeared", now, now) ELSE slot.events]

Drop(slot, reason, now) ==
  [train |-> NONE, resolved |-> NONE, events |-> Emit(slot, slot.train, reason, now, NONE)]

\* The transition into ghost, where a remembered resolution fades the train.
Vanish(slot, train, now, ghostStartedAt) ==
  LET ghost == [train EXCEPT !.status = "ghost", !.ghostStartedAt = ghostStartedAt]
  IN IF slot.resolved = NONE
       THEN [slot EXCEPT !.train = ghost]
       ELSE Drop([slot EXCEPT !.train = train], slot.resolved.resolution, now)

\* Mutants: the clock runs on through a backoff; a backoff leaves no mark.
AgeThroughBackoff(train, delta, backoff) ==
  [train EXCEPT !.coastingElapsed = @ + delta,
                !.backoffOverlapped = @ \/ backoff]

AgeUnmarked(train, delta, backoff) ==
  IF backoff THEN train ELSE [train EXCEPT !.coastingElapsed = @ + delta]

\* A backoff freezes the coasting clock and marks the gap.
Age(train, delta, backoff) ==
  IF backoff THEN [train EXCEPT !.backoffOverlapped = TRUE]
             ELSE [train EXCEPT !.coastingElapsed = @ + delta]

CoastFrozenLive(slot, train, now, delta, backoff) ==
  LET aged == Age(train, delta, backoff)
  IN IF backoff THEN [slot EXCEPT !.train = aged]
     ELSE IF aged.coastingElapsed >= CoastingTimeout
       THEN Vanish(slot, aged, now, IF train.status = "ghost"
                                      THEN train.ghostStartedAt ELSE now)
       ELSE [slot EXCEPT !.train = [aged EXCEPT !.status = "coasting"]]

Coast(slot, train, now, delta, backoff) ==
  LET aged == Age(train, delta, backoff)
  IN IF aged.coastingElapsed >= CoastingTimeout
       THEN Vanish(slot, aged, now, IF train.status = "ghost"
                                      THEN train.ghostStartedAt ELSE now)
       ELSE [slot EXCEPT !.train = [aged EXCEPT !.status = "coasting"]]

Touch(slot, mentioned, now) ==
  LET known == IF IsTracked(slot) THEN slot.train ELSE NewTrain
  IN IF mentioned THEN [known EXCEPT !.lastTouchedAt = now] ELSE known

\* One trip's turn in the loop of tick(); `snap` is NONE when neither feed
\* lists the trip.
Advance(slot, snap, now, delta, backoff) ==
  LET train == Touch(slot, snap # NONE, now)
  IN IF ~IsTracked(slot) /\ snap = NONE THEN slot
     ELSE IF snap # NONE /\ snap.hasPosition THEN Confirm(slot, train, now)
     ELSE IF train.lastSeenAt = NONE THEN Vanish(slot, train, now, train.ghostStartedAt)
     ELSE Coast(slot, train, now, delta, backoff)

\* Mutants: an evicted train leaves its resolution behind; an evicted ghost
\* leaves no event.
EvictKeepsResolution(slot, now) ==
  IF /\ IsTracked(slot)
     /\ slot.train.lastTouchedAt # NONE
     /\ now - slot.train.lastTouchedAt >= MaxGhostAge
    THEN [slot EXCEPT !.train = NONE,
                      !.events = IF IsGhost(slot)
                                   THEN Emit(slot, slot.train, "timed_out", now, NONE) ELSE @]
    ELSE slot

EvictSilently(slot, now) ==
  IF /\ IsTracked(slot)
     /\ slot.train.lastTouchedAt # NONE
     /\ now - slot.train.lastTouchedAt >= MaxGhostAge
    THEN [slot EXCEPT !.train = NONE, !.resolved = NONE]
    ELSE slot

\* _evict_stale: drop what no feed has listed for MaxGhostAge, closing an open
\* episode first, then prune resolutions that were never applied.
Evict(slot, now) ==
  IF /\ IsTracked(slot)
     /\ slot.train.lastTouchedAt # NONE
     /\ now - slot.train.lastTouchedAt >= MaxGhostAge
    THEN IF IsGhost(slot) THEN Drop(slot, "timed_out", now)
                          ELSE [slot EXCEPT !.train = NONE, !.resolved = NONE]
  ELSE IF slot.resolved # NONE /\ now - slot.resolved.at >= ResolutionRetention
    THEN [slot EXCEPT !.resolved = NONE]
  ELSE slot

-----------------------------------------------------------------------------
(* The tracker's public operations, on one trip.                           *)

LifecycleTick(slot, snap, now, delta, backoff) ==
  Evict(Advance([slot EXCEPT !.events = <<>>], snap, now, delta, backoff), now)

\* mark_resolved: a ghost fades at once, anything else is remembered.
MarkResolved(slot, resolution, now) ==
  IF IsGhost(slot)
    THEN [slot EXCEPT !.train = NONE,
                      !.events = Emit(slot, slot.train, resolution, now, NONE)]
    ELSE [slot EXCEPT !.resolved = [resolution |-> resolution, at |-> now]]

\* flush: report every open episode, without ending it.
LifecycleFlush(slot, now) ==
  LET quiet == [slot EXCEPT !.events = <<>>]
  IN IF IsGhost(slot)
       THEN [quiet EXCEPT !.events = Emit(quiet, slot.train, "flushed", now, NONE)]
       ELSE quiet

=============================================================================
