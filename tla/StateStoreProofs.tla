-------------------------- MODULE StateStoreProofs --------------------------
(***************************************************************************)
(* Proofs about StateStore, for any number of trips, any feed contents and *)
(* any timeouts that meet the named assumptions.                           *)
(***************************************************************************)
EXTENDS StateStore, FiniteSetTheorems, TLAPS

-----------------------------------------------------------------------------
(* The inductive invariant, one trip at a time: `now` is the last cycle.   *)

\* The coasting clock, the status and the episode start agree.
TrainClock(tr, now) ==
  /\ tr.status = "ghost" \/ tr.lastSeenAt # NONE
  /\ tr.lastSeenAt = NONE => tr.ghostStartedAt = NONE
  /\ tr.lastSeenAt # NONE =>
       /\ tr.lastSeenAt <= now
       /\ tr.coastingElapsed <= now - tr.lastSeenAt
       /\ tr.backoffOverlapped <=> tr.coastingElapsed < now - tr.lastSeenAt
       /\ tr.status = "ghost" <=> tr.coastingElapsed >= CoastingTimeout
       /\ IF tr.status = "ghost"
            THEN /\ tr.ghostStartedAt \in Nat
                 /\ tr.lastSeenAt + CoastingTimeout <= tr.ghostStartedAt
                 /\ tr.ghostStartedAt <= now
            ELSE tr.ghostStartedAt = NONE

TrainShape(tr, now) ==
  /\ tr.lastTouchedAt \in Nat
  /\ tr.lastTouchedAt <= now
  /\ tr.lastSeenAt # NONE => tr.lastSeenAt <= tr.lastTouchedAt
  /\ TrainClock(tr, now)

TrainInv(tr, now) == TrainShape(tr, now) /\ now - tr.lastTouchedAt < MaxGhostAge

ResolvedInv(slot, record, now) ==
  slot.resolved # NONE =>
    /\ slot.train # NONE
    /\ slot.train.status # "ghost"
    /\ slot.train.lastSeenAt # NONE
    /\ slot.train.lastSeenAt <= slot.resolved.at
    /\ slot.resolved.at <= now
    /\ now - slot.resolved.at < ResolutionRetention
    /\ record.finalizedAt = slot.resolved.at

PendingInv(slot, record, now) ==
  record.touchedAt # NONE =>
    /\ record.finalizedAt = NONE
    /\ slot.train # NONE
    /\ record.touchedAt <= slot.train.lastTouchedAt
    /\ now - record.touchedAt < UndeterminedTimeout

FinalizedInv(record, now) ==
  record.finalizedAt # NONE =>
    /\ record.finalizedAt <= now
    /\ now - record.finalizedAt < FinalizedRetention

TripInv(slot, record, now) ==
  /\ slot.train # NONE => TrainInv(slot.train, now)
  /\ ResolvedInv(slot, record, now)
  /\ PendingInv(slot, record, now)

PlacedInv(slot, snap) ==
  (slot.train # NONE /\ slot.train.status = "live") <=> (snap # NONE /\ snap.hasPosition)

IInv ==
  /\ TypeOK
  /\ lastTickAt = NONE => \A t \in Trips : lifecycle[t] = EmptySlot /\ completion[t] = EmptyRecord
  /\ \A t \in Trips : PlacedInv(lifecycle[t], latestSnapshots[t])
  /\ lastTickAt # NONE => \A t \in Trips : TripInv(lifecycle[t], completion[t], lastTickAt)
  /\ lastTickAt # NONE /\ ~flushed => \A t \in Trips : FinalizedInv(completion[t], lastTickAt)
  /\ ~TrackCompletion => \A t \in Trips : completion[t] = EmptyRecord

-----------------------------------------------------------------------------
(* One tick of the lifecycle, trip by trip.                                *)

\* The events of a slot moving from `slot` to `next` explain the move.
Explains(slot, next) == Episodes!Move(ShownAs(slot), ShownAs(next), Reasons(next))

\* What a tick owes its caller.
TickPost(slot, next, snap, now) ==
  /\ next \in Slot
  /\ next.train # NONE => TrainInv(next.train, now)
  /\ PlacedInv(next, snap)
  /\ next.resolved # NONE =>
       /\ next.resolved = slot.resolved
       /\ now - next.resolved.at < ResolutionRetention
       /\ next.train # NONE
       /\ next.train.status # "ghost"
       /\ next.train.lastSeenAt = slot.train.lastSeenAt
  /\ next.train # NONE /\ next.train.status = "ghost" => next.events = <<>>
  /\ snap # NONE /\ slot.resolved = NONE => next.train # NONE /\ next.train.lastTouchedAt = now
  /\ slot.train # NONE /\ slot.resolved = NONE /\ now - slot.train.lastTouchedAt < MaxGhostAge
       => next.train # NONE /\ slot.train.lastTouchedAt <= next.train.lastTouchedAt
  /\ Explains(slot, next)

LEMMA SlotTyped ==
  ASSUME NEW slot \in Slot, NEW tr \in Train \cup {NONE}, NEW res \in Remembered \cup {NONE},
         NEW evs \in Seq(GhostEvent)
  PROVE  [train |-> tr, resolved |-> res, events |-> evs] \in Slot
BY DEF Slot

LEMMA EventTyped ==
  ASSUME NEW tr \in Train, NEW reason \in Reason, NEW now \in Nat, NEW at \in Nat \cup {NONE}
  PROVE  EpisodeEvent(tr, reason, now, at) \in GhostEvent
BY DEF EpisodeEvent, GhostEvent, Train

LEMMA EmitTyped ==
  ASSUME NEW slot, slot.events = <<>>, NEW tr \in Train, NEW reason \in Reason,
         NEW now \in Nat, NEW at \in Nat \cup {NONE}
  PROVE  /\ Emit(slot, tr, reason, now, at) \in Seq(GhostEvent)
         /\ Len(Emit(slot, tr, reason, now, at)) = 1
         /\ Emit(slot, tr, reason, now, at)[1].reason = reason
<1>1. EpisodeEvent(tr, reason, now, at) \in GhostEvent
  BY EventTyped
<1>2. EpisodeEvent(tr, reason, now, at).reason = reason
  BY DEF EpisodeEvent
<1>3. Emit(slot, tr, reason, now, at) = <<EpisodeEvent(tr, reason, now, at)>>
  BY DEF Emit
<1> QED BY <1>1, <1>2, <1>3

\* The reasons written by one step.
None(slot) == slot.events = <<>>
One(slot, reason) == Len(slot.events) = 1 /\ slot.events[1].reason = reason

LEMMA ConfirmTick ==
  ASSUME NEW slot \in Slot, slot.events = <<>>, NEW tr \in Train, NEW now \in Nat,
         tr.lastTouchedAt = now,
         NEW next, next = Confirm(slot, tr, now)
  PROVE  /\ next \in Slot
         /\ next.train \in Train
         /\ next.resolved = NONE
         /\ next.train.status = "live"
         /\ next.train.lastTouchedAt = now
         /\ TrainInv(next.train, now)
         /\ IF tr.status = "ghost" THEN One(next, "reappeared") ELSE None(next)
<1> DEFINE seen == [tr EXCEPT !.status = "live", !.lastSeenAt = now, !.coastingElapsed = 0,
                              !.backoffOverlapped = FALSE, !.ghostStartedAt = NONE]
<1>1. /\ seen \in Train
      /\ seen.status = "live"
      /\ seen.lastTouchedAt = now
  BY DEF Train, Status
<1>2. TrainInv(seen, now)
  BY <1>1, StoreAssumption, LifecycleAssumption DEF TrainInv, TrainShape, TrainClock, Train, Status
<1>3. next.train = seen /\ next.resolved = NONE
  BY DEF Confirm
<1>4. next.events = IF tr.status = "ghost" THEN Emit(slot, tr, "reappeared", now, now) ELSE <<>>
  BY DEF Confirm
<1>5. /\ next.events \in Seq(GhostEvent)
      /\ IF tr.status = "ghost" THEN One(next, "reappeared") ELSE None(next)
  <2>1. "reappeared" \in Reason /\ now \in Nat \cup {NONE}
    BY DEF Reason
  <2>2. CASE tr.status = "ghost"
    BY <1>4, <2>1, <2>2, EmitTyped DEF One
  <2>3. CASE tr.status # "ghost"
    BY <1>4, <2>3 DEF None
  <2> QED BY <2>2, <2>3
<1>6. next = [train |-> next.train, resolved |-> next.resolved, events |-> next.events]
  BY DEF Confirm
<1> HIDE DEF seen
<1>7. next \in Slot
  BY <1>1, <1>3, <1>5, <1>6, SlotTyped
<1> QED BY <1>1, <1>2, <1>3, <1>5, <1>7

\* A train turned ghost.
Faded(tr, startedAt) == [tr EXCEPT !.status = "ghost", !.ghostStartedAt = startedAt]

LEMMA VanishTick ==
  ASSUME NEW slot \in Slot, slot.events = <<>>, NEW tr \in Train, NEW now \in Nat,
         NEW startedAt \in Nat \cup {NONE},
         NEW next, next = Vanish(slot, tr, now, startedAt)
  PROVE  /\ next \in Slot
         /\ next.resolved = NONE
         /\ slot.resolved = NONE =>
              /\ None(next)
              /\ next.train = Faded(tr, startedAt)
         /\ slot.resolved # NONE =>
              /\ next.train = NONE
              /\ One(next, slot.resolved.resolution)
<1> DEFINE ghost == Faded(tr, startedAt)
<1>1. ghost \in Train
  BY DEF Train, Status, Faded
<1>2. CASE slot.resolved = NONE
  <2>1. next = [slot EXCEPT !.train = ghost]
    BY <1>2 DEF Vanish, Faded
  <2> HIDE DEF ghost
  <2>2. next = [train |-> ghost, resolved |-> NONE, events |-> <<>>]
    BY <1>2, <2>1 DEF Slot
  <2>3. next \in Slot
    BY <1>1, <2>2 DEF Slot
  <2>4. next.train = ghost /\ next.resolved = NONE /\ next.events = <<>>
    BY <2>2
  <2> QED BY <1>2, <2>3, <2>4 DEF None, ghost
<1>3. CASE slot.resolved # NONE
  <2>1. slot.resolved.resolution \in Reason
    BY <1>3 DEF Slot, Remembered, Reason
  <2> DEFINE last == [slot EXCEPT !.train = tr]
  <2>2. last.events = <<>> /\ last.train = tr
    BY DEF Slot
  <2>3. next = Drop(last, slot.resolved.resolution, now)
    BY <1>3 DEF Vanish
  <2> HIDE DEF last
  <2>4. /\ next = [train |-> NONE, resolved |-> NONE, events |-> next.events]
        /\ next.events = Emit(last, tr, slot.resolved.resolution, now, NONE)
    BY <2>2, <2>3 DEF Drop
  <2>5. next.events \in Seq(GhostEvent) /\ One(next, slot.resolved.resolution)
    BY <2>1, <2>2, <2>4, EmitTyped DEF One
  <2>6. next \in Slot
    BY <2>4, <2>5, SlotTyped
  <2> QED BY <1>3, <2>4, <2>5, <2>6
<1> QED BY <1>2, <1>3

\* What Coast does to a train that is neither placed nor fresh.
LEMMA CoastTick ==
  ASSUME NEW slot \in Slot, slot.events = <<>>, NEW tr \in Train,
         NEW before \in Nat, NEW now \in Nat, before < now,
         NEW backoff \in BOOLEAN,
         TrainClock(tr, before),
         tr.lastTouchedAt \in Nat, tr.lastTouchedAt <= now,
         tr.lastSeenAt # NONE, tr.lastSeenAt <= tr.lastTouchedAt,
         NEW next, next = Coast(slot, tr, now, now - before, backoff)
  PROVE  /\ next \in Slot
         /\ \/ /\ next.train \in Train
               /\ next.train.status # "live"
               /\ next.train.lastTouchedAt = tr.lastTouchedAt
               /\ next.train.lastSeenAt = tr.lastSeenAt
               /\ TrainShape(next.train, now)
               /\ next.train.status = "coasting" => next.resolved = slot.resolved
               /\ next.train.status = "ghost" => next.resolved = NONE
               /\ tr.status = "ghost" => next.train.status = "ghost"
               /\ None(next)
            \/ /\ slot.resolved # NONE
               /\ next.train = NONE
               /\ next.resolved = NONE
               /\ One(next, slot.resolved.resolution)
<1> DEFINE aged == Age(tr, now - before, backoff)
<1> DEFINE startedAt == IF tr.status = "ghost" THEN tr.ghostStartedAt ELSE now
<1>0. now - before \in Nat /\ now - before > 0
  OBVIOUS
<1>1. /\ aged \in Train
      /\ aged.lastSeenAt = tr.lastSeenAt
      /\ aged.lastTouchedAt = tr.lastTouchedAt
      /\ aged.status = tr.status
      /\ aged.ghostStartedAt = tr.ghostStartedAt
      /\ aged.coastingElapsed = IF backoff THEN tr.coastingElapsed
                                ELSE tr.coastingElapsed + (now - before)
      /\ backoff => aged.backoffOverlapped
      /\ ~backoff => aged.backoffOverlapped = tr.backoffOverlapped
  <2>1. CASE backoff
    <3>1. aged = [tr EXCEPT !.backoffOverlapped = TRUE]
      BY <2>1 DEF Age
    <3> QED BY <2>1, <3>1 DEF Train
  <2>2. CASE ~backoff
    <3>1. aged = [tr EXCEPT !.coastingElapsed = tr.coastingElapsed + (now - before)]
      BY <2>2 DEF Age
    <3> QED BY <1>0, <2>2, <3>1 DEF Train
  <2> QED BY <2>1, <2>2
<1>2. /\ tr.lastSeenAt \in Nat
      /\ tr.coastingElapsed \in Nat
      /\ tr.lastSeenAt <= before
      /\ tr.coastingElapsed <= before - tr.lastSeenAt
      /\ tr.backoffOverlapped <=> tr.coastingElapsed < before - tr.lastSeenAt
      /\ tr.status = "ghost" <=> tr.coastingElapsed >= CoastingTimeout
      /\ tr.status = "ghost" =>
           /\ tr.ghostStartedAt \in Nat
           /\ tr.lastSeenAt + CoastingTimeout <= tr.ghostStartedAt
           /\ tr.ghostStartedAt <= before
      /\ tr.status # "ghost" => tr.ghostStartedAt = NONE
  BY DEF TrainClock, Train
<1>3. startedAt \in Nat
  BY <1>2
<1>4. /\ aged.coastingElapsed \in Nat
      /\ aged.coastingElapsed <= now - aged.lastSeenAt
      /\ aged.backoffOverlapped <=> aged.coastingElapsed < now - aged.lastSeenAt
  BY <1>1, <1>2, <1>0
<1> HIDE DEF aged
<1>5. CASE aged.coastingElapsed >= CoastingTimeout
  <2>1. next = Vanish(slot, aged, now, startedAt)
    BY <1>5 DEF Coast, aged
  <2> HIDE DEF startedAt
  <2>a. aged \in Train /\ startedAt \in Nat \cup {NONE}
    BY <1>1, <1>3
  <2>2. CASE slot.resolved # NONE
    BY <2>a, <2>1, <2>2, VanishTick
  <2>3. CASE slot.resolved = NONE
    <3>1. /\ next \in Slot
          /\ next.resolved = NONE
          /\ None(next)
          /\ next.train = Faded(aged, startedAt)
      BY <2>a, <2>1, <2>3, VanishTick
    <3>2. /\ next.train \in Train
          /\ next.train.status = "ghost"
          /\ next.train.ghostStartedAt = startedAt
          /\ next.train.lastSeenAt = aged.lastSeenAt
          /\ next.train.lastTouchedAt = aged.lastTouchedAt
          /\ next.train.coastingElapsed = aged.coastingElapsed
          /\ next.train.backoffOverlapped = aged.backoffOverlapped
      BY <1>1, <1>3, <3>1 DEF Train, Status, Faded
    <3>3. tr.lastSeenAt + CoastingTimeout <= startedAt /\ startedAt <= now
      BY <1>1, <1>2, <1>4, <1>5, LifecycleAssumption DEF startedAt
    <3>a. TrainClock(next.train, now)
      <4>1. next.train.lastSeenAt # NONE /\ next.train.lastSeenAt <= now
        BY <1>0, <1>1, <1>2, <3>2
      <4>2. /\ next.train.coastingElapsed <= now - next.train.lastSeenAt
            /\ next.train.backoffOverlapped
                 <=> next.train.coastingElapsed < now - next.train.lastSeenAt
        BY <1>4, <3>2
      <4>3. next.train.coastingElapsed >= CoastingTimeout
        BY <1>5, <3>2
      <4>4. /\ next.train.ghostStartedAt \in Nat
            /\ next.train.lastSeenAt + CoastingTimeout <= next.train.ghostStartedAt
            /\ next.train.ghostStartedAt <= now
        BY <1>1, <1>3, <3>2, <3>3
      <4> QED BY <3>2, <4>1, <4>2, <4>3, <4>4 DEF TrainClock
    <3>4. TrainShape(next.train, now)
      BY <1>1, <3>2, <3>a DEF TrainShape
    <3>5. /\ next.train.status # "live"
          /\ next.train.status # "coasting"
          /\ next.train.lastTouchedAt = tr.lastTouchedAt
          /\ next.train.lastSeenAt = tr.lastSeenAt
      BY <1>1, <3>2
    <3> QED BY <3>1, <3>2, <3>4, <3>5
  <2> QED BY <2>2, <2>3
<1>6. CASE ~(aged.coastingElapsed >= CoastingTimeout)
  <2> DEFINE moving == [aged EXCEPT !.status = "coasting"]
  <2>1. next = [slot EXCEPT !.train = moving]
    BY <1>6 DEF Coast, aged
  <2>2. /\ moving \in Train
        /\ moving.status = "coasting"
        /\ moving.ghostStartedAt = aged.ghostStartedAt
        /\ moving.lastSeenAt = aged.lastSeenAt
        /\ moving.lastTouchedAt = aged.lastTouchedAt
        /\ moving.coastingElapsed = aged.coastingElapsed
        /\ moving.backoffOverlapped = aged.backoffOverlapped
    BY <1>1 DEF Train, Status
  <2> HIDE DEF moving
  <2>3. tr.status # "ghost"
    BY <1>0, <1>1, <1>2, <1>6, LifecycleAssumption
  <2>4. TrainShape(moving, now)
    BY <1>1, <1>2, <1>4, <1>6, <2>2, <2>3 DEF TrainShape, TrainClock
  <2>5. next = [train |-> moving, resolved |-> slot.resolved, events |-> <<>>]
    BY <2>1 DEF Slot
  <2>6. next \in Slot
    BY <2>2, <2>5, SlotTyped DEF Slot
  <2>7. next.train = moving /\ next.resolved = slot.resolved /\ None(next)
    BY <2>5 DEF None
  <2> QED BY <1>1, <2>2, <2>3, <2>4, <2>6, <2>7
<1> QED BY <1>5, <1>6

\* What a slot brings into a tick that follows the one at `before`.
Carried(slot, before) ==
  /\ slot \in Slot
  /\ slot.train # NONE => TrainInv(slot.train, before)
  /\ slot.resolved # NONE =>
       /\ slot.train # NONE
       /\ slot.train.status # "ghost"
       /\ slot.train.lastSeenAt # NONE

TouchedAt(slot, mentioned, now) == IF mentioned THEN now ELSE slot.train.lastTouchedAt

LEMMA TouchTick ==
  ASSUME NEW slot \in Slot, NEW before \in Nat, Carried(slot, before),
         NEW now \in Nat, before <= now, NEW mentioned \in BOOLEAN,
         slot.train # NONE \/ mentioned,
         NEW tr, tr = Touch(slot, mentioned, now)
  PROVE  /\ tr \in Train
         /\ tr.lastTouchedAt = TouchedAt(slot, mentioned, now)
         /\ tr.lastTouchedAt \in Nat
         /\ tr.lastTouchedAt <= now
         /\ slot.train = NONE => tr.lastSeenAt = NONE /\ tr.ghostStartedAt = NONE
                                 /\ tr.status = "live"
         /\ slot.train # NONE =>
              /\ TrainClock(tr, before)
              /\ tr.lastSeenAt = slot.train.lastSeenAt
              /\ tr.status = slot.train.status
              /\ tr.lastSeenAt # NONE => tr.lastSeenAt <= tr.lastTouchedAt
<1>1. CASE slot.train = NONE
  <2>0. NewTrain \in Train
    BY DEF NewTrain, Train, Status
  <2>1. tr = [NewTrain EXCEPT !.lastTouchedAt = now]
    BY <1>1 DEF Touch, IsTracked
  <2>2. /\ tr \in Train
        /\ tr.lastTouchedAt = now
        /\ tr.lastSeenAt = NONE
        /\ tr.ghostStartedAt = NONE
        /\ tr.status = "live"
    BY <2>0, <2>1 DEF NewTrain, Train
  <2>3. TouchedAt(slot, mentioned, now) = now
    BY <1>1 DEF TouchedAt
  <2>4. now <= now
    OBVIOUS
  <2> QED BY <1>1, <2>2, <2>3, <2>4
<1>2. CASE slot.train # NONE
  <2>1. slot.train \in Train /\ TrainInv(slot.train, before)
    BY <1>2 DEF Carried, Slot
  <2>2. CASE ~mentioned
    <3>1. tr = slot.train
      BY <1>2, <2>2 DEF Touch, IsTracked
    <3> QED BY <1>2, <2>1, <2>2, <3>1 DEF TrainInv, TrainShape, TouchedAt
  <2>3. CASE mentioned
    <3>1. tr = [slot.train EXCEPT !.lastTouchedAt = now]
      BY <1>2, <2>3 DEF Touch, IsTracked
    <3>2. /\ tr \in Train
          /\ tr.lastTouchedAt = now
          /\ tr.lastSeenAt = slot.train.lastSeenAt
          /\ tr.status = slot.train.status
          /\ tr.ghostStartedAt = slot.train.ghostStartedAt
          /\ tr.coastingElapsed = slot.train.coastingElapsed
          /\ tr.backoffOverlapped = slot.train.backoffOverlapped
      BY <2>1, <3>1 DEF Train
    <3>3. TrainClock(tr, before)
      BY <2>1, <3>2 DEF TrainInv, TrainShape, TrainClock
    <3>4. tr.lastSeenAt # NONE => tr.lastSeenAt <= now
      BY <2>1, <3>2 DEF TrainInv, TrainShape, Train
    <3>5. TouchedAt(slot, mentioned, now) = now /\ now <= now
      BY <2>3 DEF TouchedAt
    <3> QED BY <1>2, <3>2, <3>3, <3>4, <3>5
  <2> QED BY <2>2, <2>3
<1> QED BY <1>1, <1>2

\* What Advance leaves for Evict.
Advanced(slot, next, snap, now) ==
  /\ next \in Slot
  /\ next.train # NONE =>
       /\ TrainShape(next.train, now)
       /\ next.train.lastTouchedAt = TouchedAt(slot, snap # NONE, now)
  /\ PlacedInv(next, snap)
  /\ next.resolved # NONE =>
       /\ next.resolved = slot.resolved
       /\ next.train # NONE
       /\ next.train.status = "coasting"
       /\ next.train.lastSeenAt = slot.train.lastSeenAt
  /\ next.train = NONE =>
       \/ None(next) /\ slot.train = NONE /\ snap = NONE
       \/ slot.resolved # NONE /\ One(next, slot.resolved.resolution)
  /\ next.train # NONE /\ next.train.status = "ghost" => None(next)
  /\ next.train # NONE /\ next.train.status = "coasting" =>
       None(next) /\ slot.train # NONE /\ slot.train.status # "ghost"
  /\ next.train # NONE /\ next.train.status = "live" =>
       IF slot.train # NONE /\ slot.train.status = "ghost"
         THEN One(next, "reappeared") ELSE None(next)

LEMMA AdvanceTick ==
  ASSUME NEW slot \in Slot, NEW before \in Nat, Carried(slot, before), slot.events = <<>>,
         NEW now \in Nat, before <= now, slot.train # NONE => before < now,
         NEW snap \in Snapshot \cup {NONE}, NEW backoff \in BOOLEAN,
         NEW next, next = Advance(slot, snap, now, now - before, backoff)
  PROVE  Advanced(slot, next, snap, now)
<1> DEFINE mentioned == snap # NONE
<1> DEFINE tr == Touch(slot, mentioned, now)
<1>a. slot \in Slot
  BY DEF Carried
<1>b. slot.train \in Train \cup {NONE} /\ slot.resolved \in Remembered \cup {NONE}
  BY <1>a DEF Slot
<1>1. CASE slot.train = NONE /\ snap = NONE
  <2>1. next = slot
    BY <1>1 DEF Advance, IsTracked
  <2>2. slot.resolved = NONE
    BY <1>1 DEF Carried
  <2> QED BY <1>a, <1>1, <2>1, <2>2 DEF Advanced, None, PlacedInv
<1>2. CASE slot.train # NONE \/ snap # NONE
  <2>1. /\ tr \in Train
        /\ tr.lastTouchedAt = TouchedAt(slot, mentioned, now)
        /\ tr.lastTouchedAt \in Nat
        /\ tr.lastTouchedAt <= now
        /\ slot.train = NONE => tr.lastSeenAt = NONE /\ tr.ghostStartedAt = NONE
                                 /\ tr.status = "live"
        /\ slot.train # NONE =>
              /\ TrainClock(tr, before)
              /\ tr.lastSeenAt = slot.train.lastSeenAt
              /\ tr.status = slot.train.status
              /\ tr.lastSeenAt # NONE => tr.lastSeenAt <= tr.lastTouchedAt
    <3>1. mentioned \in BOOLEAN /\ (slot.train # NONE \/ mentioned)
      BY <1>2
    <3> HIDE DEF mentioned
    <3> QED BY <3>1, TouchTick
  <2>2. CASE snap # NONE /\ snap.hasPosition
    <3>1. next = Confirm(slot, tr, now)
      BY <2>2 DEF Advance, IsTracked
    <3>2. tr.lastTouchedAt = now
      BY <2>1, <2>2 DEF TouchedAt
    <3> HIDE DEF tr
    <3>3. /\ next \in Slot
          /\ next.train \in Train
          /\ next.resolved = NONE
          /\ next.train.status = "live"
          /\ next.train.lastTouchedAt = now
          /\ TrainInv(next.train, now)
          /\ IF tr.status = "ghost" THEN One(next, "reappeared") ELSE None(next)
      BY <1>a, <2>1, <3>1, <3>2, ConfirmTick
    <3>4. next.train # NONE
      BY <3>3, StoreAssumption
    <3>5. (tr.status = "ghost") => slot.train # NONE /\ slot.train.status = "ghost"
      BY <2>1
    <3>6. slot.train # NONE /\ slot.train.status = "ghost" => tr.status = "ghost"
      BY <2>1
    <3> QED BY <2>2, <3>3, <3>4, <3>5, <3>6 DEF Advanced, TrainInv, TouchedAt, PlacedInv
  <2>3. CASE ~(snap # NONE /\ snap.hasPosition) /\ tr.lastSeenAt = NONE
    <3>1. next = Vanish(slot, tr, now, tr.ghostStartedAt)
      BY <1>2, <2>3 DEF Advance, IsTracked
    <3>2. slot.resolved = NONE
      BY <2>1, <2>3 DEF Carried
    <3>3. tr.ghostStartedAt = NONE
      BY <2>1, <2>3 DEF TrainClock
    <3> HIDE DEF tr
    <3> DEFINE startedAt == tr.ghostStartedAt
    <3>4. /\ tr \in Train
          /\ startedAt \in Nat \cup {NONE}
          /\ next = Vanish(slot, tr, now, startedAt)
      BY <2>1, <3>1, <3>3
    <3>b. startedAt = NONE
      BY <3>3
    <3> HIDE DEF startedAt
    <3>5. /\ next \in Slot
          /\ next.resolved = NONE
          /\ None(next)
          /\ next.train = Faded(tr, startedAt)
      BY <3>2, <3>4, VanishTick
    <3>6. /\ next.train \in Train
          /\ next.train.status = "ghost"
          /\ next.train.lastSeenAt = NONE
          /\ next.train.ghostStartedAt = NONE
          /\ next.train.lastTouchedAt = tr.lastTouchedAt
      BY <2>1, <2>3, <3>3, <3>b, <3>5 DEF Faded, Train, Status
    <3>7. TrainShape(next.train, now)
      BY <2>1, <3>6 DEF TrainShape, TrainClock
    <3>8. next.train # NONE
      BY <3>6, StoreAssumption
    <3> QED BY <2>1, <2>3, <3>5, <3>6, <3>7, <3>8 DEF Advanced, PlacedInv
  <2>4. CASE ~(snap # NONE /\ snap.hasPosition) /\ tr.lastSeenAt # NONE
    <3>1. next = Coast(slot, tr, now, now - before, backoff)
      BY <1>2, <2>4 DEF Advance, IsTracked
    <3>2. slot.train # NONE
      BY <2>1, <2>4
    <3> HIDE DEF tr
    <3>3. /\ next \in Slot
          /\ \/ /\ next.train \in Train
                /\ next.train.status # "live"
                /\ next.train.lastTouchedAt = tr.lastTouchedAt
                /\ next.train.lastSeenAt = tr.lastSeenAt
                /\ TrainShape(next.train, now)
                /\ next.train.status = "coasting" => next.resolved = slot.resolved
                /\ next.train.status = "ghost" => next.resolved = NONE
                /\ tr.status = "ghost" => next.train.status = "ghost"
                /\ None(next)
             \/ /\ slot.resolved # NONE
                /\ next.train = NONE
                /\ next.resolved = NONE
                /\ One(next, slot.resolved.resolution)
      BY <1>a, <2>1, <2>4, <3>1, <3>2, CoastTick
    <3>4. CASE next.train = NONE
      <4>1. next.train \notin Train
        BY <3>4, StoreAssumption
      <4> QED BY <2>4, <3>3, <3>4, <4>1 DEF Advanced, PlacedInv
    <3>5. CASE next.train # NONE
      <4>1. next.train.status \in {"coasting", "ghost"}
        BY <3>3, <3>5 DEF Train, Status
      <4> QED BY <2>1, <2>4, <3>2, <3>3, <3>5, <4>1 DEF Advanced, PlacedInv
    <3> QED BY <3>4, <3>5
  <2> QED BY <2>2, <2>3, <2>4
<1> QED BY <1>1, <1>2

LEMMA ReasonsOf ==
  ASSUME NEW slot \in Slot
  PROVE  /\ None(slot) => Reasons(slot) = <<>>
         /\ \A reason : One(slot, reason) => Len(Reasons(slot)) = 1 /\ Reasons(slot)[1] = reason
<1>1. slot.events \in Seq(GhostEvent)
  BY DEF Slot
<1>2. DOMAIN slot.events = 1 .. Len(slot.events)
  BY <1>1
<1>3. None(slot) => Reasons(slot) = <<>>
  BY <1>2 DEF None, Reasons
<1>4. ASSUME NEW reason, One(slot, reason)
      PROVE  Len(Reasons(slot)) = 1 /\ Reasons(slot)[1] = reason
  <2>1. Reasons(slot) = [i \in 1 .. 1 |-> slot.events[i].reason]
    BY <1>2, <1>4 DEF One, Reasons
  <2>2. Reasons(slot) = <<slot.events[1].reason>>
    BY <2>1
  <2> QED BY <1>4, <2>2 DEF One
<1> QED BY <1>3, <1>4

LEMMA QuietExplains ==
  ASSUME NEW slot, NEW next \in Slot, None(next), Episodes!Quiet(ShownAs(slot), ShownAs(next))
  PROVE  Explains(slot, next)
BY ReasonsOf DEF Explains, Episodes!Move

LEMMA ClosingExplains ==
  ASSUME NEW slot, NEW next \in Slot, NEW reason, One(next, reason),
         Episodes!Closing(ShownAs(slot), ShownAs(next), reason)
  PROVE  Explains(slot, next)
<1>1. Len(Reasons(next)) = 1 /\ Reasons(next)[1] = reason
  BY ReasonsOf
<1> QED BY <1>1 DEF Explains, Episodes!Move

\* Evict drops what is stale and otherwise only forgets a resolution.
LEMMA EvictTick ==
  ASSUME NEW mid \in Slot, NEW now \in Nat,
         mid.train # NONE => mid.train.lastTouchedAt \in Nat,
         mid.train # NONE /\ mid.train.status = "ghost" => mid.events = <<>>,
         NEW next, next = Evict(mid, now)
  PROVE  LET stale == mid.train # NONE /\ now - mid.train.lastTouchedAt >= MaxGhostAge
             ghost == mid.train # NONE /\ mid.train.status = "ghost"
         IN /\ next \in Slot
            /\ stale => next.train = NONE /\ next.resolved = NONE
            /\ stale /\ ghost => One(next, "timed_out")
            /\ stale /\ ~ghost => next.events = mid.events
            /\ ~stale => next.train = mid.train /\ next.events = mid.events
            /\ next.resolved # NONE => next.resolved = mid.resolved
                                       /\ now - next.resolved.at < ResolutionRetention
<1> DEFINE stale == mid.train # NONE /\ now - mid.train.lastTouchedAt >= MaxGhostAge
<1> DEFINE ghost == mid.train # NONE /\ mid.train.status = "ghost"
<1>t. /\ mid.train \in Train \cup {NONE}
      /\ mid.resolved \in Remembered \cup {NONE}
      /\ mid.events \in Seq(GhostEvent)
  BY DEF Slot
<1>s. mid.train # NONE => mid.train.lastTouchedAt # NONE
  BY StoreAssumption
<1>1. CASE stale /\ ghost
  <2>1. next = Drop(mid, "timed_out", now)
    BY <1>1, <1>s DEF Evict, IsTracked, IsGhost
  <2>2. next = [train |-> NONE, resolved |-> NONE, events |-> Emit(mid, mid.train, "timed_out", now, NONE)]
    BY <2>1 DEF Drop
  <2>3. mid.events = <<>> /\ mid.train \in Train /\ "timed_out" \in Reason /\ NONE \in Nat \cup {NONE}
    BY <1>1, <1>t DEF Reason
  <2>4. /\ Emit(mid, mid.train, "timed_out", now, NONE) \in Seq(GhostEvent)
        /\ Len(Emit(mid, mid.train, "timed_out", now, NONE)) = 1
        /\ Emit(mid, mid.train, "timed_out", now, NONE)[1].reason = "timed_out"
    BY <2>3, EmitTyped
  <2>5. next \in Slot
    BY <2>2, <2>4, SlotTyped
  <2> QED BY <1>1, <2>2, <2>4, <2>5 DEF One
<1>2. CASE stale /\ ~ghost
  <2>1. next = [mid EXCEPT !.train = NONE, !.resolved = NONE]
    BY <1>2, <1>s DEF Evict, IsTracked, IsGhost
  <2>2. next = [train |-> NONE, resolved |-> NONE, events |-> mid.events]
    BY <2>1 DEF Slot
  <2>3. next \in Slot
    BY <1>t, <2>2, SlotTyped
  <2> QED BY <1>2, <2>2, <2>3
<1>3. CASE ~stale /\ mid.resolved # NONE /\ now - mid.resolved.at >= ResolutionRetention
  <2>1. next = [mid EXCEPT !.resolved = NONE]
    BY <1>3, <1>s DEF Evict, IsTracked, IsGhost
  <2>2. next = [train |-> mid.train, resolved |-> NONE, events |-> mid.events]
    BY <2>1 DEF Slot
  <2>3. next \in Slot
    BY <1>t, <2>2, SlotTyped
  <2> QED BY <1>3, <2>2, <2>3
<1>4. CASE ~stale /\ ~(mid.resolved # NONE /\ now - mid.resolved.at >= ResolutionRetention)
  <2>1. next = mid
    BY <1>4, <1>s DEF Evict, IsTracked, IsGhost
  <2>2. mid.resolved # NONE => mid.resolved.at \in Nat
    BY <1>t DEF Remembered
  <2> QED BY <1>4, <2>1, <2>2, LifecycleAssumption
<1> QED BY <1>1, <1>2, <1>3, <1>4

LEMMA Ticked ==
  ASSUME NEW slot \in Slot, NEW before \in Nat, Carried(slot, before),
         NEW now \in Nat, before <= now, slot.train # NONE => before < now,
         NEW snap \in Snapshot \cup {NONE}, NEW backoff \in BOOLEAN,
         NEW next, next = LifecycleTick(slot, snap, now, now - before, backoff)
  PROVE  TickPost(slot, next, snap, now)
<1> DEFINE quiet == [slot EXCEPT !.events = <<>>]
<1>1. /\ quiet \in Slot
      /\ quiet.events = <<>>
      /\ quiet.train = slot.train
      /\ quiet.resolved = slot.resolved
  <2>1. quiet = [train |-> slot.train, resolved |-> slot.resolved, events |-> <<>>]
    BY DEF Slot
  <2>2. /\ slot.train \in Train \cup {NONE}
        /\ slot.resolved \in Remembered \cup {NONE}
        /\ <<>> \in Seq(GhostEvent)
    BY DEF Slot
  <2> HIDE DEF quiet
  <2> QED BY <2>1, <2>2, SlotTyped
<1> HIDE DEF quiet
<1>2. Carried(quiet, before) /\ (quiet.train # NONE => before < now)
  BY <1>1 DEF Carried
<1> DEFINE mid == Advance(quiet, snap, now, now - before, backoff)
<1>3. next = Evict(mid, now)
  BY DEF LifecycleTick, quiet
<1> HIDE DEF mid
<1>4. Advanced(quiet, mid, snap, now)
  BY <1>1, <1>2, AdvanceTick DEF mid
<1> DEFINE stale == mid.train # NONE /\ now - mid.train.lastTouchedAt >= MaxGhostAge
<1> DEFINE ghost == mid.train # NONE /\ mid.train.status = "ghost"
<1>5. /\ mid \in Slot
      /\ mid.train # NONE => mid.train.lastTouchedAt \in Nat
      /\ ghost => mid.events = <<>>
  BY <1>4 DEF Advanced, TrainShape, None
<1>6. /\ next \in Slot
      /\ stale => next.train = NONE /\ next.resolved = NONE
      /\ stale /\ ghost => One(next, "timed_out")
      /\ stale /\ ~ghost => next.events = mid.events
      /\ ~stale => next.train = mid.train /\ next.events = mid.events
      /\ next.resolved # NONE => next.resolved = mid.resolved
                                 /\ now - next.resolved.at < ResolutionRetention
  BY <1>3, <1>5, EvictTick
<1>7. mid.train # NONE => mid.train \in Train /\ mid.train.status \in Status
  BY <1>5 DEF Slot, Train
<1>8. mid.train # NONE /\ snap # NONE => ~stale
  BY <1>4, LifecycleAssumption DEF Advanced, TouchedAt
<1>9. mid.train # NONE /\ mid.train.status = "live" => snap # NONE
  BY <1>4 DEF Advanced, PlacedInv
<1>10. next.train # NONE => TrainInv(next.train, now)
  BY <1>4, <1>5, <1>6, LifecycleAssumption DEF Advanced, TrainInv
<1>11. PlacedInv(next, snap)
  <2>1. CASE stale
    BY <1>4, <1>6, <1>8, <1>9, <2>1 DEF Advanced, PlacedInv
  <2>2. CASE ~stale
    BY <1>4, <1>6, <2>2 DEF Advanced, PlacedInv
  <2> QED BY <2>1, <2>2
<1>12. next.resolved # NONE =>
         /\ next.resolved = slot.resolved
         /\ now - next.resolved.at < ResolutionRetention
         /\ next.train # NONE
         /\ next.train.status # "ghost"
         /\ next.train.lastSeenAt = slot.train.lastSeenAt
  BY <1>1, <1>4, <1>6 DEF Advanced
<1>13. snap # NONE /\ slot.resolved = NONE => next.train # NONE /\ next.train.lastTouchedAt = now
  BY <1>1, <1>4, <1>6, <1>8 DEF Advanced, TouchedAt
<1>14. slot.train # NONE /\ slot.resolved = NONE /\ now - slot.train.lastTouchedAt < MaxGhostAge
         => next.train # NONE /\ slot.train.lastTouchedAt <= next.train.lastTouchedAt
  <2> SUFFICES ASSUME slot.train # NONE, slot.resolved = NONE,
                      now - slot.train.lastTouchedAt < MaxGhostAge
               PROVE  next.train # NONE /\ slot.train.lastTouchedAt <= next.train.lastTouchedAt
    OBVIOUS
  <2>1. mid.train # NONE
    BY <1>1, <1>4 DEF Advanced
  <2>2. slot.train.lastTouchedAt \in Nat /\ slot.train.lastTouchedAt <= before
    BY DEF Carried, TrainInv, TrainShape
  <2>3. CASE snap # NONE
    BY <1>13, <2>2, <2>3
  <2>4. CASE snap = NONE
    <3>1. mid.train.lastTouchedAt = slot.train.lastTouchedAt
      BY <1>1, <1>4, <2>1, <2>4 DEF Advanced, TouchedAt
    <3>2. ~stale
      BY <2>2, <3>1, LifecycleAssumption
    <3> QED BY <1>6, <2>1, <2>2, <3>1, <3>2
  <2> QED BY <2>3, <2>4
<1>15. Explains(slot, next)
  <2> DEFINE from == ShownAs(slot)
  <2>0. from = ShownAs(quiet)
    BY <1>1 DEF ShownAs
  <2>f. /\ slot.train = NONE => from = "untracked"
        /\ slot.train # NONE => from = slot.train.status /\ from \in Status
    BY DEF ShownAs, Slot, Train
  <2>1. CASE stale /\ ghost
    <3>1. ShownAs(next) = "untracked" /\ One(next, "timed_out")
      BY <1>6, <2>1 DEF ShownAs
    <3>2. Episodes!Closing(from, ShownAs(next), "timed_out")
      BY <3>1 DEF Episodes!Closing, Episodes!Explained
    <3> QED BY <1>6, <3>1, <3>2, ClosingExplains
  <2>2. CASE stale /\ ~ghost
    <3>1. mid.train.status = "coasting"
      BY <1>7, <1>8, <1>9, <2>2 DEF Status
    <3>2. None(mid) /\ slot.train # NONE /\ slot.train.status # "ghost"
      BY <1>1, <1>4, <2>2, <3>1 DEF Advanced
    <3>3. None(next)
      BY <1>6, <2>2, <3>2 DEF None
    <3>4. Episodes!Quiet(from, ShownAs(next))
      BY <2>f, <3>2 DEF Episodes!Quiet, Status
    <3> QED BY <1>6, <3>3, <3>4, QuietExplains
  <2>3. CASE ~stale
    <3>1. next.train = mid.train /\ next.events = mid.events
      BY <1>6, <2>3
    <3>2. CASE mid.train = NONE
      <4>1. ShownAs(next) = "untracked"
        BY <3>1, <3>2 DEF ShownAs
      <4>2. CASE None(mid) /\ quiet.train = NONE /\ snap = NONE
        <5>1. None(next) /\ from = "untracked"
          BY <1>1, <2>f, <3>1, <4>2 DEF None
        <5>2. Episodes!Quiet(from, ShownAs(next))
          BY <4>1, <5>1 DEF Episodes!Quiet
        <5> QED BY <1>6, <5>1, <5>2, QuietExplains
      <4>3. CASE quiet.resolved # NONE /\ One(mid, quiet.resolved.resolution)
        <5> DEFINE reason == quiet.resolved.resolution
        <5>1. reason \in Resolution
          BY <1>1, <4>3 DEF Slot, Remembered
        <5>2. One(next, reason)
          BY <3>1, <4>3 DEF One
        <5> HIDE DEF reason
        <5>3. Episodes!Closing(from, ShownAs(next), reason)
          BY <4>1, <5>1 DEF Episodes!Closing, Episodes!Explained, Resolution
        <5> QED BY <1>6, <5>2, <5>3, ClosingExplains
      <4> QED BY <1>4, <3>2, <4>2, <4>3 DEF Advanced
    <3>3. CASE mid.train # NONE
      <4>1. ShownAs(next) = mid.train.status
        BY <3>1, <3>3 DEF ShownAs
      <4>2. CASE mid.train.status = "ghost"
        <5>1. None(next)
          BY <1>5, <3>1, <3>3, <4>2 DEF None
        <5>2. Episodes!Quiet(from, ShownAs(next))
          BY <2>f, <4>1, <4>2 DEF Episodes!Quiet, Status
        <5> QED BY <1>6, <5>1, <5>2, QuietExplains
      <4>3. CASE mid.train.status = "coasting"
        <5>1. None(next) /\ slot.train # NONE /\ slot.train.status # "ghost"
          BY <1>1, <1>4, <3>1, <3>3, <4>3 DEF Advanced, None
        <5>2. Episodes!Quiet(from, ShownAs(next))
          BY <2>f, <5>1 DEF Episodes!Quiet, Status
        <5> QED BY <1>6, <5>1, <5>2, QuietExplains
      <4>4. CASE mid.train.status = "live"
        <5>1. CASE slot.train # NONE /\ slot.train.status = "ghost"
          <6>1. One(next, "reappeared")
            BY <1>1, <1>4, <3>1, <3>3, <4>4, <5>1 DEF Advanced, One
          <6>2. Episodes!Closing(from, ShownAs(next), "reappeared")
            BY <2>f, <4>1, <4>4, <5>1 DEF Episodes!Closing
          <6> QED BY <1>6, <6>1, <6>2, ClosingExplains
        <5>2. CASE ~(slot.train # NONE /\ slot.train.status = "ghost")
          <6>1. None(next)
            BY <1>1, <1>4, <3>1, <3>3, <4>4, <5>2 DEF Advanced, None
          <6>2. Episodes!Quiet(from, ShownAs(next))
            BY <2>f, <4>1, <4>4, <5>2 DEF Episodes!Quiet, Status
          <6> QED BY <1>6, <6>1, <6>2, QuietExplains
        <5> QED BY <5>1, <5>2
      <4> QED BY <1>7, <3>3, <4>2, <4>3, <4>4 DEF Status
    <3> QED BY <3>2, <3>3
  <2> QED BY <2>1, <2>2, <2>3
<1>16. next.train # NONE /\ next.train.status = "ghost" => next.events = <<>>
  BY <1>5, <1>6
<1> QED BY <1>16, <1>6, <1>10, <1>11, <1>12, <1>13, <1>14, <1>15 DEF TickPost

-----------------------------------------------------------------------------
(* One tick of the completion tracker, and what the store makes of it.     *)

KnownOutcome == {"on_time", "late", "cancelled"}

CompletionPost(record, next, snap, now) ==
  /\ next \in Record
  /\ next.touchedAt # NONE =>
       /\ next.finalizedAt = NONE
       /\ now - next.touchedAt < UndeterminedTimeout
       /\ next.touchedAt = record.touchedAt \/ (next.touchedAt = now /\ snap # NONE)
  /\ FinalizedInv(next, now)
  /\ next.outcome # NONE => record.finalizedAt = NONE /\ next.finalizedAt = now
  /\ next.outcome \in KnownOutcome => snap # NONE
  /\ record.finalizedAt # NONE =>
       /\ next.touchedAt = NONE
       /\ now - record.finalizedAt < FinalizedRetention => next.finalizedAt = record.finalizedAt

LEMMA RecordTyped ==
  ASSUME NEW a \in Nat \cup {NONE}, NEW b \in Nat \cup {NONE}, NEW c \in Outcome \cup {NONE}
  PROVE  [touchedAt |-> a, finalizedAt |-> b, outcome |-> c] \in Record
BY DEF Record

LEMMA ExpireTick ==
  ASSUME NEW record \in Record, NEW now \in Nat,
         record.touchedAt # NONE => record.finalizedAt = NONE,
         record.finalizedAt # NONE => record.finalizedAt <= now,
         NEW next, next = Expire(record, now)
  PROVE  /\ next \in Record
         /\ next.touchedAt # NONE =>
              /\ next = record
              /\ now - next.touchedAt < UndeterminedTimeout
         /\ FinalizedInv(next, now)
         /\ next.outcome = record.outcome \/ (next.outcome = "undetermined_gap"
                                              /\ record.touchedAt # NONE
                                              /\ next.finalizedAt = now)
         /\ record.finalizedAt # NONE =>
              /\ next.touchedAt = NONE
              /\ next.outcome = record.outcome
              /\ now - record.finalizedAt < FinalizedRetention =>
                   next.finalizedAt = record.finalizedAt
<1>t. /\ record.touchedAt \in Nat \cup {NONE}
      /\ record.finalizedAt \in Nat \cup {NONE}
      /\ record.outcome \in Outcome \cup {NONE}
  BY DEF Record
<1>1. CASE record.touchedAt # NONE /\ now - record.touchedAt >= UndeterminedTimeout
  <2> DEFINE gapped == Finalize("undetermined_gap", now)
  <2>1. gapped.touchedAt = NONE /\ gapped.finalizedAt = now /\ gapped.outcome = "undetermined_gap"
    BY DEF Finalize
  <2>2. next = gapped
    BY <1>1, <2>1, CompletionAssumption DEF Expire
  <2>3. gapped \in Record
    BY DEF Finalize, Record, Outcome
  <2> HIDE DEF gapped
  <2> QED BY <1>1, <2>1, <2>2, <2>3, CompletionAssumption, StoreAssumption DEF FinalizedInv
<1>2. CASE ~(record.touchedAt # NONE /\ now - record.touchedAt >= UndeterminedTimeout)
  <2>1. CASE record.finalizedAt # NONE /\ now - record.finalizedAt >= FinalizedRetention
    <3>1. next = [record EXCEPT !.finalizedAt = NONE]
      BY <1>2, <2>1 DEF Expire
    <3>2. next = [touchedAt |-> record.touchedAt, finalizedAt |-> NONE, outcome |-> record.outcome]
      BY <3>1 DEF Record
    <3>3. next \in Record
      BY <1>t, <3>2, RecordTyped
    <3> QED BY <1>t, <2>1, <3>2, <3>3, CompletionAssumption DEF FinalizedInv
  <2>2. CASE ~(record.finalizedAt # NONE /\ now - record.finalizedAt >= FinalizedRetention)
    <3>1. next = record
      BY <1>2, <2>2 DEF Expire
    <3> QED BY <1>t, <1>2, <2>2, <3>1, CompletionAssumption DEF FinalizedInv
  <2> QED BY <2>1, <2>2
<1> QED BY <1>1, <1>2

LEMMA Completed ==
  ASSUME NEW record \in Record, NEW now \in Nat,
         record.touchedAt # NONE => record.finalizedAt = NONE,
         record.finalizedAt # NONE => record.finalizedAt <= now,
         NEW snap \in Snapshot \cup {NONE}, NEW known \in BOOLEAN,
         NEW next, next = CompletionTick(record, snap, known, now)
  PROVE  CompletionPost(record, next, snap, now)
<1> DEFINE quiet == [record EXCEPT !.outcome = NONE]
<1>t. record.touchedAt \in Nat \cup {NONE} /\ record.finalizedAt \in Nat \cup {NONE}
  BY DEF Record
<1>1. quiet = [touchedAt |-> record.touchedAt, finalizedAt |-> record.finalizedAt, outcome |-> NONE]
  BY DEF Record
<1> HIDE DEF quiet
<1>2. /\ quiet \in Record
      /\ quiet.touchedAt = record.touchedAt
      /\ quiet.finalizedAt = record.finalizedAt
      /\ quiet.outcome = NONE
  BY <1>t, <1>1, RecordTyped
<1> DEFINE registered == Register(quiet, known, now)
<1> DEFINE mid == Observe(quiet, snap, known, now)
<1>3. next = Expire(mid, now)
  BY DEF CompletionTick, quiet
\* `registered` is the record with its touch renewed, unless it stays out.
<1>4. /\ registered \in Record
      /\ registered.finalizedAt = record.finalizedAt
      /\ registered.outcome = NONE
      /\ registered.touchedAt # NONE => registered.touchedAt = now /\ record.finalizedAt = NONE
  <2>1. CASE quiet.touchedAt = NONE /\ (quiet.finalizedAt # NONE \/ ~known)
    BY <1>2, <2>1 DEF Register
  <2>2. CASE ~(quiet.touchedAt = NONE /\ (quiet.finalizedAt # NONE \/ ~known))
    <3>1. registered = [quiet EXCEPT !.touchedAt = now]
      BY <2>2 DEF Register
    <3>2. registered = [touchedAt |-> now, finalizedAt |-> record.finalizedAt, outcome |-> NONE]
      BY <1>2, <3>1 DEF Record
    <3> HIDE DEF registered
    <3>3. registered \in Record
      BY <1>t, <3>2, RecordTyped
    <3> QED BY <1>2, <2>2, <3>2, <3>3
  <2> QED BY <2>1, <2>2
<1> HIDE DEF registered
\* Observe ends in one of four ways.
<1>5. \/ ~Observable(snap) /\ mid = quiet
      \/ registered.touchedAt = NONE /\ mid = registered
      \/ Observable(snap) /\ registered.touchedAt # NONE
           /\ \E outcome \in KnownOutcome : mid = Finalize(outcome, now)
      \/ Observable(snap) /\ registered.touchedAt # NONE /\ mid = registered
  BY DEF Observe, Punctuality, KnownOutcome, registered
<1> HIDE DEF mid
<1>6. Observable(snap) => snap # NONE
  BY DEF Observable
<1>7. /\ mid \in Record
      /\ mid.touchedAt # NONE => mid.finalizedAt = NONE
      /\ mid.touchedAt # NONE =>
           mid.touchedAt = record.touchedAt \/ (mid.touchedAt = now /\ snap # NONE)
      /\ mid.finalizedAt # NONE => mid.finalizedAt <= now
      /\ mid.outcome \in KnownOutcome \cup {NONE}
      /\ mid.outcome # NONE => record.finalizedAt = NONE /\ mid.finalizedAt = now /\ snap # NONE
      /\ record.finalizedAt # NONE => mid.finalizedAt = record.finalizedAt /\ mid.outcome = NONE
      /\ mid.touchedAt # NONE => record.finalizedAt = NONE
  <2>1. CASE ~Observable(snap) /\ mid = quiet
    BY <1>2, <2>1
  <2>2. CASE registered.touchedAt = NONE /\ mid = registered
    BY <1>2, <1>4, <2>2
  <2>3. CASE Observable(snap) /\ registered.touchedAt # NONE
               /\ \E outcome \in KnownOutcome : mid = Finalize(outcome, now)
    <3>1. PICK outcome \in KnownOutcome : mid = Finalize(outcome, now)
      BY <2>3
    <3>2. mid = [touchedAt |-> NONE, finalizedAt |-> now, outcome |-> outcome]
      BY <3>1 DEF Finalize
    <3>3. mid \in Record
      BY <3>2, RecordTyped DEF KnownOutcome, Outcome
    <3>4. record.finalizedAt = NONE
      BY <1>4, <2>3
    <3> QED BY <1>6, <2>3, <3>2, <3>3, <3>4
  <2>4. CASE Observable(snap) /\ registered.touchedAt # NONE /\ mid = registered
    BY <1>4, <1>6, <2>4
  <2> QED BY <1>5, <2>1, <2>2, <2>3, <2>4
<1>8. /\ next \in Record
      /\ next.touchedAt # NONE => next = mid /\ now - next.touchedAt < UndeterminedTimeout
      /\ FinalizedInv(next, now)
      /\ next.outcome = mid.outcome \/ (next.outcome = "undetermined_gap"
                                        /\ mid.touchedAt # NONE
                                        /\ next.finalizedAt = now)
      /\ mid.finalizedAt # NONE =>
           /\ next.touchedAt = NONE
           /\ next.outcome = mid.outcome
           /\ now - mid.finalizedAt < FinalizedRetention => next.finalizedAt = mid.finalizedAt
  BY <1>3, <1>7, ExpireTick
<1>9. next.outcome # NONE => record.finalizedAt = NONE /\ next.finalizedAt = now
  <2>1. CASE next.outcome = mid.outcome
    BY <1>7, <1>8, <2>1, CompletionAssumption, StoreAssumption
  <2>2. CASE next.outcome # mid.outcome
    BY <1>7, <1>8, <2>2
  <2> QED BY <2>1, <2>2
<1>10. next.outcome \in KnownOutcome => snap # NONE
  <2> SUFFICES ASSUME next.outcome \in KnownOutcome PROVE snap # NONE
    OBVIOUS
  <2>1. next.outcome = mid.outcome
    BY <1>8 DEF KnownOutcome
  <2>2. mid.outcome # NONE
    BY <2>1, StoreAssumption DEF KnownOutcome, Outcome
  <2> QED BY <1>7, <2>2
<1> QED BY <1>7, <1>8, <1>9, <1>10 DEF CompletionPost

-----------------------------------------------------------------------------
(* A whole cycle, for one trip.                                            *)

LEMMA FlushedOrSettled ==
  ASSUME NEW slot \in Slot, NEW now \in Nat, slot.train # NONE,
         slot.train.status = "ghost" => slot.events = <<>>,
         NEW resolution \in Resolution,
         NEW next, next = MarkResolved(slot, resolution, now)
  PROVE  /\ next \in Slot
         /\ slot.train.status = "ghost" =>
              next.train = NONE /\ next.resolved = slot.resolved /\ One(next, resolution)
         /\ slot.train.status # "ghost" =>
              /\ next.train = slot.train
              /\ next.resolved = [resolution |-> resolution, at |-> now]
              /\ next.events = slot.events
<1>t. /\ slot.train \in Train
      /\ slot.resolved \in Remembered \cup {NONE}
      /\ slot.events \in Seq(GhostEvent)
  BY DEF Slot
<1>1. CASE slot.train.status = "ghost"
  <2>1. next = [slot EXCEPT !.train = NONE, !.events = Emit(slot, slot.train, resolution, now, NONE)]
    BY <1>1 DEF MarkResolved, IsGhost, IsTracked
  <2>2. next = [train |-> NONE, resolved |-> slot.resolved,
                events |-> Emit(slot, slot.train, resolution, now, NONE)]
    BY <2>1 DEF Slot
  <2>3. slot.events = <<>> /\ resolution \in Reason /\ NONE \in Nat \cup {NONE}
    BY <1>1 DEF Reason
  <2>4. /\ Emit(slot, slot.train, resolution, now, NONE) \in Seq(GhostEvent)
        /\ Len(Emit(slot, slot.train, resolution, now, NONE)) = 1
        /\ Emit(slot, slot.train, resolution, now, NONE)[1].reason = resolution
    BY <1>t, <2>3, EmitTyped
  <2>5. next \in Slot
    BY <1>t, <2>2, <2>4, SlotTyped
  <2> QED BY <1>1, <2>2, <2>4, <2>5 DEF One
<1>2. CASE slot.train.status # "ghost"
  <2> DEFINE memory == [resolution |-> resolution, at |-> now]
  <2>1. next = [slot EXCEPT !.resolved = memory]
    BY <1>2 DEF MarkResolved, IsGhost, IsTracked
  <2>2. memory \in Remembered
    BY DEF Remembered
  <2> HIDE DEF memory
  <2>3. next = [train |-> slot.train, resolved |-> memory, events |-> slot.events]
    BY <2>1 DEF Slot
  <2>4. next \in Slot
    BY <1>t, <2>2, <2>3, SlotTyped
  <2> QED BY <1>2, <2>3, <2>4 DEF memory
<1> QED BY <1>1, <1>2

LEMMA TripStep ==
  ASSUME NEW slot \in Slot, NEW record \in Record, NEW before \in Nat, NEW now \in Nat,
         before <= now, slot.train # NONE => before < now,
         TripInv(slot, record, before),
         NEW snap \in Snapshot \cup {NONE}, NEW backoff \in BOOLEAN,
         NEW settled, CompletionPost(record, settled, snap, now),
         NEW mid, mid = LifecycleTick(slot, snap, now, now - before, backoff),
         NEW next, next = Settle(mid, settled.outcome, now)
  PROVE  /\ next \in Slot
         /\ TripInv(next, settled, now)
         /\ PlacedInv(next, snap)
         /\ Explains(slot, next)
<1>1. Carried(slot, before)
  BY DEF TripInv, ResolvedInv, Carried
<1>2. TickPost(slot, mid, snap, now)
  BY <1>1, Ticked
<1>t. /\ slot.train \in Train \cup {NONE}
      /\ slot.resolved \in Remembered \cup {NONE}
      /\ record.touchedAt \in Nat \cup {NONE}
      /\ record.finalizedAt \in Nat \cup {NONE}
      /\ settled.touchedAt \in Nat \cup {NONE}
      /\ settled.finalizedAt \in Nat \cup {NONE}
      /\ settled.outcome \in Outcome \cup {NONE}
  BY DEF Slot, Record, CompletionPost
<1>r. slot.resolved # NONE =>
        /\ slot.resolved.at \in Nat
        /\ record.finalizedAt = slot.resolved.at
        /\ record.finalizedAt # NONE
        /\ settled.touchedAt = NONE
        /\ settled.outcome = NONE
  BY <1>t, StoreAssumption DEF TripInv, ResolvedInv, Remembered, CompletionPost
<1>m. mid \in Slot /\ (mid.train # NONE => TrainInv(mid.train, now) /\ mid.train \in Train)
  BY <1>2 DEF TickPost, Slot
<1>3. PendingInv(mid, settled, now)
  <2> SUFFICES ASSUME settled.touchedAt # NONE
               PROVE  /\ settled.finalizedAt = NONE
                      /\ mid.train # NONE
                      /\ settled.touchedAt <= mid.train.lastTouchedAt
                      /\ now - settled.touchedAt < UndeterminedTimeout
    BY DEF PendingInv
  <2>1. slot.resolved = NONE
    BY <1>r
  <2>2. CASE settled.touchedAt = now /\ snap # NONE
    BY <1>2, <2>1, <2>2 DEF TickPost, CompletionPost
  <2>3. CASE settled.touchedAt = record.touchedAt
    <3>1. /\ slot.train # NONE
          /\ record.touchedAt <= slot.train.lastTouchedAt
          /\ slot.train.lastTouchedAt \in Nat
      BY <2>3 DEF TripInv, PendingInv, TrainInv, TrainShape
    <3>2. now - record.touchedAt < UndeterminedTimeout /\ record.touchedAt \in Nat
      BY <1>t, <2>3 DEF CompletionPost
    <3>3. now - slot.train.lastTouchedAt < MaxGhostAge
      BY <3>1, <3>2, LifecycleAssumption, CompletionAssumption, RetentionAssumption
    <3>4. mid.train # NONE /\ slot.train.lastTouchedAt <= mid.train.lastTouchedAt
      BY <1>2, <2>1, <3>1, <3>3 DEF TickPost
    <3>5. mid.train.lastTouchedAt \in Nat
      BY <1>m, <3>4 DEF TrainInv, TrainShape
    <3> QED BY <2>3, <3>1, <3>2, <3>4, <3>5 DEF CompletionPost
  <2> QED BY <2>2, <2>3 DEF CompletionPost
<1>4. CASE settled.outcome \notin KnownOutcome
  <2>1. next = mid
    BY <1>4 DEF Settle, KnownOutcome
  <2>2. ResolvedInv(mid, settled, now)
    <3> SUFFICES ASSUME mid.resolved # NONE
                 PROVE  /\ mid.train # NONE
                        /\ mid.train.status # "ghost"
                        /\ mid.train.lastSeenAt # NONE
                        /\ mid.train.lastSeenAt <= mid.resolved.at
                        /\ mid.resolved.at <= now
                        /\ now - mid.resolved.at < ResolutionRetention
                        /\ settled.finalizedAt = mid.resolved.at
      BY DEF ResolvedInv
    <3>1. /\ mid.resolved = slot.resolved
          /\ now - slot.resolved.at < ResolutionRetention
          /\ mid.train # NONE
          /\ mid.train.status # "ghost"
          /\ mid.train.lastSeenAt = slot.train.lastSeenAt
      BY <1>2 DEF TickPost
    <3>2. /\ slot.train.lastSeenAt # NONE
          /\ slot.train.lastSeenAt <= slot.resolved.at
          /\ slot.resolved.at <= before
          /\ slot.resolved.at \in Nat
      BY <1>r, <3>1 DEF TripInv, ResolvedInv
    <3>3. now - record.finalizedAt < FinalizedRetention
      BY <1>r, <3>1, <3>2, LifecycleAssumption, CompletionAssumption, RetentionAssumption
    <3>4. settled.finalizedAt = record.finalizedAt
      BY <1>r, <3>1, <3>3 DEF CompletionPost
    <3> QED BY <1>r, <3>1, <3>2, <3>4
  <2>3. PlacedInv(mid, snap) /\ Explains(slot, mid)
    BY <1>2 DEF TickPost
  <2> QED BY <1>3, <1>m, <2>1, <2>2, <2>3 DEF TripInv
<1>5. CASE settled.outcome \in KnownOutcome
  <2> DEFINE resolution == IF settled.outcome = "cancelled" THEN "cancelled" ELSE "completed"
  <2>0. resolution \in Resolution
    BY DEF Resolution
  <2>1. next = MarkResolved(mid, resolution, now)
    BY <1>5 DEF Settle, KnownOutcome
  <2> HIDE DEF resolution
  <2>2. settled.outcome # NONE /\ snap # NONE
    BY <1>5, StoreAssumption DEF CompletionPost, KnownOutcome, Outcome
  <2>3. slot.resolved = NONE
    BY <1>r, <2>2
  <2>4. mid.train # NONE /\ mid.resolved = NONE
    BY <1>2, <2>2, <2>3 DEF TickPost
  <2>5. mid.train.status = "ghost" => mid.events = <<>>
    BY <1>2, <2>4 DEF TickPost
  <2>6. settled.finalizedAt = now /\ settled.touchedAt = NONE
    BY <2>2, StoreAssumption DEF CompletionPost
  <2>7. PendingInv(next, settled, now)
    BY <2>6 DEF PendingInv
  <2>8. /\ next \in Slot
        /\ mid.train.status = "ghost" =>
             next.train = NONE /\ next.resolved = mid.resolved /\ One(next, resolution)
        /\ mid.train.status # "ghost" =>
             /\ next.train = mid.train
             /\ next.resolved = [resolution |-> resolution, at |-> now]
             /\ next.events = mid.events
    BY <1>m, <2>0, <2>1, <2>4, <2>5, FlushedOrSettled
  <2>9. PlacedInv(mid, snap) /\ Explains(slot, mid)
    BY <1>2 DEF TickPost
  <2>10. CASE mid.train.status = "ghost"
    <3>1. next.train = NONE /\ next.resolved = NONE /\ One(next, resolution)
      BY <2>4, <2>8, <2>10
    <3>2. TripInv(next, settled, now)
      BY <2>7, <3>1 DEF TripInv, ResolvedInv
    <3>3. PlacedInv(next, snap)
      BY <2>4, <2>9, <2>10, <3>1 DEF PlacedInv
    <3>4. Episodes!Closing(ShownAs(slot), ShownAs(next), resolution)
      BY <2>0, <3>1 DEF ShownAs, Resolution, Episodes!Closing, Episodes!Explained
    <3> QED BY <2>8, <3>1, <3>2, <3>3, <3>4, ClosingExplains
  <2>11. CASE mid.train.status # "ghost"
    <3>1. /\ next.train = mid.train
          /\ next.events = mid.events
          /\ next.resolved = [resolution |-> resolution, at |-> now]
          /\ next.resolved.at = now
      BY <2>8, <2>11
    <3>2. /\ mid.train.lastSeenAt # NONE
          /\ mid.train.lastSeenAt <= now
      BY <1>m, <2>4, <2>11 DEF TrainInv, TrainShape, TrainClock
    <3>3. ResolvedInv(next, settled, now)
      BY <2>4, <2>6, <2>11, <3>1, <3>2, LifecycleAssumption DEF ResolvedInv
    <3>4. TripInv(next, settled, now)
      BY <1>m, <2>7, <3>1, <3>3 DEF TripInv
    <3>5. PlacedInv(next, snap)
      BY <2>9, <3>1 DEF PlacedInv
    <3>6. ShownAs(next) = ShownAs(mid) /\ Reasons(next) = Reasons(mid)
      BY <3>1 DEF ShownAs, Reasons
    <3>7. Explains(slot, next)
      BY <2>9, <3>6 DEF Explains
    <3> QED BY <2>8, <3>4, <3>5, <3>7
  <2> QED BY <2>10, <2>11
<1> QED BY <1>4, <1>5

-----------------------------------------------------------------------------
(* The steps of the store.                                                 *)

LEMMA SnapshotsTyped ==
  ASSUME NEW tuFeed \in TuFeeds, NEW vpFeed \in VpFeeds
  PROVE  MergedSnapshots(tuFeed, vpFeed) \in [Trips -> Snapshot \cup {NONE}]
<1> SUFFICES ASSUME NEW t \in Trips
             PROVE  SnapshotOf(tuFeed, vpFeed, t) \in Snapshot
  BY DEF MergedSnapshots
<1>1. /\ tuFeed.entity[t] \in TuEntity \cup {NONE}
      /\ vpFeed.entity[t] \in VpEntity \cup {NONE}
      /\ tuFeed.stamped \in BOOLEAN
      /\ vpFeed.stamped \in BOOLEAN
  BY StoreAssumption DEF TuFeeds, VpFeeds
<1>2. NoDescriptor \in Descriptor
  BY DEF NoDescriptor, Descriptor
<1>3. tuFeed.entity[t] # NONE =>
        /\ tuFeed.entity[t].trip \in Descriptor
        /\ tuFeed.entity[t].window \in Window
        /\ tuFeed.entity[t].terminusDelay \in Int \cup {NONE}
  BY <1>1 DEF TuEntity
<1> DEFINE trip == IF tuFeed.entity[t] # NONE THEN tuFeed.entity[t].trip ELSE NoDescriptor
           window == IF tuFeed.entity[t] # NONE THEN tuFeed.entity[t].window ELSE "empty"
           delay == IF tuFeed.entity[t] # NONE THEN tuFeed.entity[t].terminusDelay ELSE NONE
           schedule == tuFeed.entity[t] # NONE /\ tuFeed.stamped
           position == vpFeed.entity[t] # NONE /\ (vpFeed.entity[t].stamped \/ vpFeed.stamped)
<1>4. trip \in Descriptor /\ window \in Window /\ delay \in Int \cup {NONE}
  BY <1>2, <1>3 DEF Window
<1>5. schedule \in BOOLEAN /\ position \in BOOLEAN
  OBVIOUS
<1>6. SnapshotOf(tuFeed, vpFeed, t) =
        [hasSchedule |-> schedule, hasPosition |-> position, trip |-> trip,
         window |-> window, terminusDelay |-> delay]
  BY DEF SnapshotOf
<1> HIDE DEF trip, window, delay, schedule, position
<1> QED BY <1>4, <1>5, <1>6 DEF Snapshot

LEMMA PaceTyped ==
  ASSUME NEW p \in Pace, NEW snap, NEW known \in BOOLEAN, NEW now \in Nat
  PROVE  DelayTick(p, snap, known, now) \in Pace
<1> DEFINE fresh == HasFeatures(snap) /\ Due(p, now) /\ known
           last == IF fresh THEN now ELSE p.lastObserved
           kept == IF last # NONE /\ now - last >= ObservedRetention THEN NONE ELSE last
<1>1. kept \in Nat \cup {NONE}
  BY DEF Pace
<1>2. fresh \in BOOLEAN
  OBVIOUS
<1>3. DelayTick(p, snap, known, now) = [observed |-> fresh, lastObserved |-> kept]
  BY DEF DelayTick
<1> HIDE DEF fresh, last, kept
<1> QED BY <1>1, <1>2, <1>3 DEF Pace

LEMMA EmptyTyped == EmptySlot \in Slot /\ EmptyRecord \in Record /\ UnpacedTrip \in Pace
BY DEF EmptySlot, Slot, EmptyRecord, Record, UnpacedTrip, Pace

LEMMA InitHolds == Init => IInv
<1> SUFFICES ASSUME Init PROVE IInv
  OBVIOUS
<1>1. TypeOK
  BY EmptyTyped DEF Init, TypeOK
<1>2. \A t \in Trips : PlacedInv(lifecycle[t], latestSnapshots[t])
  BY DEF Init, PlacedInv, EmptySlot
<1> QED BY <1>1, <1>2 DEF Init, IInv

\* The cycle's own effect: every trip takes a TripStep.
LEMMA CycleHolds ==
  ASSUME IInv, Cycle
  PROVE  IInv' /\ \A t \in Trips : Explains(lifecycle[t], lifecycle'[t])
<1>1. PICK now \in CycleTimes, backoff \in BOOLEAN, known \in Lookups,
           tuFeed \in TuFeeds, vpFeed \in VpFeeds, sa \in SaFeeds \cup {NONE},
           stopOf \in StopsNow :
        Ingest(tuFeed, vpFeed, sa, now, backoff, known, stopOf)
  BY DEF Cycle
<1>2. ~flushed /\ ~flushed' /\ flushed' = flushed
  BY DEF Cycle
<1>3. /\ TypeOK
      /\ lastTickAt \in Nat \cup {NONE}
      /\ lifecycle \in [Trips -> Slot]
      /\ completion \in [Trips -> Record]
      /\ pace \in [Trips -> Pace]
      /\ primed \in BOOLEAN
      /\ flushed \in BOOLEAN
  BY DEF IInv, TypeOK
<1> DEFINE before == IF lastTickAt = NONE THEN now ELSE lastTickAt
<1>4. /\ now \in Nat
      /\ before \in Nat
      /\ before <= now
      /\ lastTickAt # NONE => before < now
      /\ Elapsed(now) = now - before
  <2>0. Starts \subseteq Nat /\ Steps \subseteq Nat \ {0} /\ NONE \notin Nat
    BY StoreAssumption
  <2>1. CASE lastTickAt = NONE
    BY <2>0, <2>1 DEF CycleTimes, Elapsed
  <2>2. CASE lastTickAt # NONE
    BY <1>3, <2>0, <2>2 DEF CycleTimes, Elapsed
  <2> QED BY <2>1, <2>2
<1> DEFINE snaps == MergedSnapshots(tuFeed, vpFeed)
<1> DEFINE settled == CompletionsAfter(snaps, known, now)
<1>5. snaps \in [Trips -> Snapshot \cup {NONE}]
  BY SnapshotsTyped
<1>6. /\ lifecycle' = LifecyclesAfter(snaps, settled, now, backoff)
      /\ lastTickAt' = now
      /\ completion' = settled
      /\ pace' = PacesAfter(snaps, known, now)
      /\ latestSnapshots' = snaps
      /\ IF TrackHeadway THEN HeadwayStep(snaps, stopOf, known, now)
                         ELSE UNCHANGED <<dwells, arrivals, primed>>
  BY <1>1 DEF Ingest
<1> HIDE DEF before, snaps
<1>7. ASSUME NEW t \in Trips
      PROVE  /\ TripInv(lifecycle[t], completion[t], before)
             /\ FinalizedInv(completion[t], before)
             /\ lifecycle[t].train # NONE => before < now
  <2>1. CASE lastTickAt = NONE
    <3>1. lifecycle[t] = EmptySlot /\ completion[t] = EmptyRecord
      BY <2>1 DEF IInv
    <3> QED BY <3>1 DEF EmptySlot, EmptyRecord, TripInv, ResolvedInv, PendingInv, FinalizedInv
  <2>2. CASE lastTickAt # NONE
    BY <1>2, <1>4, <2>2 DEF IInv, before
  <2> QED BY <2>1, <2>2
<1>8. ASSUME NEW t \in Trips
      PROVE  /\ CompletionPost(completion[t], settled[t], snaps[t], now)
             /\ ~TrackCompletion => settled[t] = EmptyRecord
  <2>1. CASE TrackCompletion
    <3> DEFINE resolves == t \in known
    <3>1. settled[t] = CompletionTick(completion[t], snaps[t], resolves, now)
      BY <2>1 DEF CompletionsAfter
    <3>2. completion[t] \in Record
      BY <1>3
    <3>3. /\ completion[t].touchedAt # NONE => completion[t].finalizedAt = NONE
          /\ completion[t].finalizedAt # NONE => completion[t].finalizedAt <= now
      BY <1>4, <1>7, <3>2 DEF TripInv, PendingInv, FinalizedInv, Record
    <3>4. resolves \in BOOLEAN /\ snaps[t] \in Snapshot \cup {NONE}
      BY <1>5
    <3> HIDE DEF resolves, settled
    <3> QED BY <1>4, <2>1, <3>1, <3>2, <3>3, <3>4, Completed
  <2>2. CASE ~TrackCompletion
    <3>1. settled[t] = EmptyRecord /\ completion[t] = EmptyRecord
      BY <2>2 DEF CompletionsAfter, IInv
    <3>2. EmptyRecord \in Record
      BY EmptyTyped
    <3> HIDE DEF settled
    <3> QED BY <2>2, <3>1, <3>2, StoreAssumption
            DEF CompletionPost, FinalizedInv, EmptyRecord, KnownOutcome, Outcome
  <2> QED BY <2>1, <2>2
<1>9. settled \in [Trips -> Record]
  <2>1. settled = [t \in Trips |-> settled[t]]
    BY <1>3 DEF CompletionsAfter
  <2> HIDE DEF settled
  <2> QED BY <1>8, <2>1 DEF CompletionPost
<1>10. ASSUME NEW t \in Trips
       PROVE  /\ lifecycle'[t] \in Slot
              /\ TripInv(lifecycle'[t], completion'[t], now)
              /\ PlacedInv(lifecycle'[t], latestSnapshots'[t])
              /\ Explains(lifecycle[t], lifecycle'[t])
  <2> DEFINE mid == LifecycleTick(lifecycle[t], snaps[t], now, now - before, backoff)
  <2>1. lifecycle'[t] = Settle(mid, settled[t].outcome, now)
    BY <1>4, <1>6 DEF LifecyclesAfter
  <2>2. /\ lifecycle[t] \in Slot
        /\ completion[t] \in Record
        /\ snaps[t] \in Snapshot \cup {NONE}
    BY <1>3, <1>5
  <2>3. completion'[t] = settled[t] /\ latestSnapshots'[t] = snaps[t]
    BY <1>6
  <2>4. mid = LifecycleTick(lifecycle[t], snaps[t], now, now - before, backoff)
    OBVIOUS
  <2> HIDE DEF mid, settled
  <2>5. /\ lifecycle'[t] \in Slot
        /\ TripInv(lifecycle'[t], settled[t], now)
        /\ PlacedInv(lifecycle'[t], snaps[t])
        /\ Explains(lifecycle[t], lifecycle'[t])
    BY <1>4, <1>7, <1>8, <2>1, <2>2, <2>4, TripStep
  <2> QED BY <2>3, <2>5
<1>11. TypeOK'
  <2>1. lifecycle' \in [Trips -> Slot]
    <3>1. lifecycle' = [t \in Trips |-> lifecycle'[t]]
      BY <1>6 DEF LifecyclesAfter
    <3> QED BY <1>10, <3>1
  <2>2. pace' \in [Trips -> Pace]
    <3>1. CASE TrackDelay
      <4>1. pace' = [t \in Trips |-> DelayTick(pace[t], snaps[t], t \in known, now)]
        BY <1>6, <3>1 DEF PacesAfter
      <4>2. ASSUME NEW t \in Trips PROVE DelayTick(pace[t], snaps[t], t \in known, now) \in Pace
        <5> DEFINE resolves == t \in known
        <5>1. pace[t] \in Pace /\ resolves \in BOOLEAN
          BY <1>3
        <5> HIDE DEF resolves
        <5>2. DelayTick(pace[t], snaps[t], resolves, now) \in Pace
          BY <1>4, <5>1, PaceTyped
        <5> QED BY <5>2 DEF resolves
      <4> QED BY <4>1, <4>2
    <3>2. CASE ~TrackDelay
      BY <1>3, <1>6, <3>2 DEF PacesAfter
    <3> QED BY <3>1, <3>2
  <2>3. primed' \in BOOLEAN
    <3>1. CASE TrackHeadway
      BY <1>6, <3>1 DEF HeadwayStep
    <3>2. CASE ~TrackHeadway
      BY <1>3, <1>6, <3>2
    <3> QED BY <3>1, <3>2
  <2>4. lastTickAt' \in Nat \cup {NONE} /\ completion' \in [Trips -> Record]
        /\ latestSnapshots' \in [Trips -> Snapshot \cup {NONE}] /\ flushed' \in BOOLEAN
    <3> HIDE DEF settled
    <3>1. lastTickAt' \in Nat \cup {NONE} /\ completion' \in [Trips -> Record]
      BY <1>4, <1>6, <1>9
    <3>2. latestSnapshots' \in [Trips -> Snapshot \cup {NONE}] /\ flushed' \in BOOLEAN
      BY <1>2, <1>3, <1>5, <1>6
    <3> QED BY <3>1, <3>2
  <2> QED BY <2>1, <2>2, <2>3, <2>4 DEF TypeOK
<1>12. lastTickAt' = now /\ now # NONE
  BY <1>4, <1>6, StoreAssumption
<1>13. \A t \in Trips : FinalizedInv(completion'[t], now)
  BY <1>6, <1>8 DEF CompletionPost
<1>14. ~TrackCompletion => \A t \in Trips : completion'[t] = EmptyRecord
  BY <1>6, <1>8
<1>15. /\ \A t \in Trips : TripInv(lifecycle'[t], completion'[t], now)
       /\ \A t \in Trips : PlacedInv(lifecycle'[t], latestSnapshots'[t])
       /\ \A t \in Trips : Explains(lifecycle[t], lifecycle'[t])
  BY <1>10
<1> QED BY <1>11, <1>12, <1>13, <1>14, <1>15 DEF IInv

LEMMA FlushTrip ==
  ASSUME NEW slot \in Slot, NEW now \in Nat,
         NEW next, next = LifecycleFlush(slot, now)
  PROVE  /\ next \in Slot
         /\ next.train = slot.train
         /\ next.resolved = slot.resolved
         /\ next.events \in Seq(GhostEvent)
         /\ IF slot.train # NONE /\ slot.train.status = "ghost"
              THEN One(next, "flushed") ELSE None(next)
<1>t. /\ slot.train \in Train \cup {NONE}
      /\ slot.resolved \in Remembered \cup {NONE}
      /\ <<>> \in Seq(GhostEvent)
  BY DEF Slot
<1> DEFINE quiet == [slot EXCEPT !.events = <<>>]
<1>1. quiet = [train |-> slot.train, resolved |-> slot.resolved, events |-> <<>>]
  BY DEF Slot
<1>2. CASE slot.train # NONE /\ slot.train.status = "ghost"
  <2>1. next = [quiet EXCEPT !.events = Emit(quiet, slot.train, "flushed", now, NONE)]
    BY <1>2 DEF LifecycleFlush, IsGhost, IsTracked
  <2> HIDE DEF quiet
  <2>2. next = [train |-> slot.train, resolved |-> slot.resolved,
                events |-> Emit(quiet, slot.train, "flushed", now, NONE)]
    BY <1>1, <2>1
  <2>3. /\ quiet.events = <<>> /\ slot.train \in Train
        /\ "flushed" \in Reason /\ NONE \in Nat \cup {NONE}
    BY <1>1, <1>2, <1>t DEF Reason
  <2>4. /\ Emit(quiet, slot.train, "flushed", now, NONE) \in Seq(GhostEvent)
        /\ Len(Emit(quiet, slot.train, "flushed", now, NONE)) = 1
        /\ Emit(quiet, slot.train, "flushed", now, NONE)[1].reason = "flushed"
    BY <2>3, EmitTyped
  <2>5. next \in Slot
    BY <1>t, <2>2, <2>4, SlotTyped
  <2> QED BY <1>2, <2>2, <2>4, <2>5 DEF One
<1>3. CASE ~(slot.train # NONE /\ slot.train.status = "ghost")
  <2>1. next = quiet
    BY <1>3 DEF LifecycleFlush, IsGhost, IsTracked
  <2> HIDE DEF quiet
  <2>2. next \in Slot
    BY <1>1, <1>t, <2>1, SlotTyped
  <2> QED BY <1>1, <1>3, <1>t, <2>1, <2>2 DEF None
<1> QED BY <1>2, <1>3

LEMMA FlushRecord ==
  ASSUME NEW record \in Record, NEW now \in Nat,
         NEW next, next = CompletionFlush(record, now)
  PROVE  /\ next \in Record
         /\ next.touchedAt = NONE
         /\ record.touchedAt = NONE => next.finalizedAt = record.finalizedAt
<1>t. record.touchedAt \in Nat \cup {NONE} /\ record.finalizedAt \in Nat \cup {NONE}
  BY DEF Record
<1> DEFINE quiet == [record EXCEPT !.outcome = NONE]
<1>1. quiet = [touchedAt |-> record.touchedAt, finalizedAt |-> record.finalizedAt, outcome |-> NONE]
  BY DEF Record
<1>2. CASE record.touchedAt = NONE
  <2>1. next = quiet
    BY <1>2 DEF CompletionFlush
  <2> HIDE DEF quiet
  <2> QED BY <1>t, <1>1, <1>2, <2>1, RecordTyped
<1>3. CASE record.touchedAt # NONE
  <2>1. next = [touchedAt |-> NONE, finalizedAt |-> now, outcome |-> "undetermined_gap"]
    BY <1>3 DEF CompletionFlush, Finalize
  <2>2. /\ "undetermined_gap" \in Outcome \cup {NONE}
        /\ NONE \in Nat \cup {NONE}
        /\ now \in Nat \cup {NONE}
    BY DEF Outcome
  <2>3. next \in Record
    BY <2>1, <2>2, RecordTyped
  <2> QED BY <1>3, <2>1, <2>3
<1> QED BY <1>2, <1>3

\* What the end of a run writes of a slot.
Reported(slot, next) ==
  /\ ShownAs(next) = ShownAs(slot)
  /\ Reasons(next) = IF ShownAs(slot) = "ghost" THEN <<"flushed">> ELSE <<>>

LEMMA EndHolds ==
  ASSUME IInv, End
  PROVE  IInv' /\ \A t \in Trips : Reported(lifecycle[t], lifecycle'[t])
<1>1. PICK now \in CycleTimes : Flush(now)
  BY DEF End
<1>2. /\ TypeOK
      /\ lastTickAt \in Nat \cup {NONE}
      /\ lifecycle \in [Trips -> Slot]
      /\ completion \in [Trips -> Record]
  BY DEF IInv, TypeOK
<1>3. now \in Nat
  BY <1>2, StoreAssumption DEF CycleTimes
<1>4. /\ flushed' = TRUE
      /\ lifecycle' = [t \in Trips |-> LifecycleFlush(lifecycle[t], now)]
      /\ completion' = IF TrackCompletion
                         THEN [t \in Trips |-> CompletionFlush(completion[t], now)]
                         ELSE completion
      /\ lastTickAt' = lastTickAt /\ pace' = pace /\ primed' = primed
      /\ latestSnapshots' = latestSnapshots
  BY <1>1 DEF Flush
<1>5. ASSUME NEW t \in Trips
      PROVE  /\ lifecycle'[t] \in Slot
             /\ lifecycle'[t].train = lifecycle[t].train
             /\ lifecycle'[t].resolved = lifecycle[t].resolved
             /\ IF lifecycle[t].train # NONE /\ lifecycle[t].train.status = "ghost"
                  THEN One(lifecycle'[t], "flushed") ELSE None(lifecycle'[t])
  <2>1. lifecycle'[t] = LifecycleFlush(lifecycle[t], now) /\ lifecycle[t] \in Slot
    BY <1>2, <1>4
  <2> QED BY <1>3, <2>1, FlushTrip
<1>6. ASSUME NEW t \in Trips
      PROVE  /\ completion'[t] \in Record
             /\ TrackCompletion => completion'[t].touchedAt = NONE
             /\ completion[t].touchedAt = NONE => completion'[t].finalizedAt = completion[t].finalizedAt
             /\ ~TrackCompletion => completion'[t] = completion[t]
  <2>1. CASE TrackCompletion
    <3>1. completion'[t] = CompletionFlush(completion[t], now) /\ completion[t] \in Record
      BY <1>2, <1>4, <2>1
    <3> QED BY <1>3, <2>1, <3>1, FlushRecord
  <2>2. CASE ~TrackCompletion
    BY <1>2, <1>4, <2>2
  <2> QED BY <2>1, <2>2
<1>7. TypeOK'
  <2>1. lifecycle' \in [Trips -> Slot]
    BY <1>4, <1>5
  <2>2. completion' \in [Trips -> Record]
    <3>1. CASE TrackCompletion
      BY <1>4, <1>6, <3>1
    <3>2. CASE ~TrackCompletion
      BY <1>2, <1>4, <3>2
    <3> QED BY <3>1, <3>2
  <2> QED BY <1>2, <1>4, <2>1, <2>2 DEF TypeOK
<1>8. ASSUME NEW t \in Trips
      PROVE  /\ PlacedInv(lifecycle'[t], latestSnapshots'[t])
             /\ Reported(lifecycle[t], lifecycle'[t])
  <2>1. PlacedInv(lifecycle[t], latestSnapshots[t])
    BY DEF IInv
  <2>2. PlacedInv(lifecycle'[t], latestSnapshots'[t])
    BY <1>4, <1>5, <2>1 DEF PlacedInv
  <2>3. ShownAs(lifecycle'[t]) = ShownAs(lifecycle[t])
    BY <1>5 DEF ShownAs
  <2>4. CASE lifecycle[t].train # NONE /\ lifecycle[t].train.status = "ghost"
    <3>1. lifecycle'[t].events \in Seq(GhostEvent) /\ One(lifecycle'[t], "flushed")
      BY <1>5, <2>4 DEF Slot
    <3>2. Reasons(lifecycle'[t]) = <<"flushed">>
      BY <3>1 DEF One, Reasons
    <3> QED BY <2>2, <2>3, <2>4, <3>2 DEF Reported, ShownAs
  <2>5. CASE ~(lifecycle[t].train # NONE /\ lifecycle[t].train.status = "ghost")
    <3>1. Reasons(lifecycle'[t]) = <<>>
      BY <1>5, <2>5, ReasonsOf
    <3>2. ShownAs(lifecycle[t]) # "ghost"
      BY <2>5 DEF ShownAs
    <3> QED BY <2>2, <2>3, <3>1, <3>2 DEF Reported
  <2> QED BY <2>4, <2>5
<1>9. lastTickAt' = NONE =>
        \A t \in Trips : lifecycle'[t] = EmptySlot /\ completion'[t] = EmptyRecord
  <2> SUFFICES ASSUME lastTickAt = NONE, NEW t \in Trips
               PROVE  lifecycle'[t] = EmptySlot /\ completion'[t] = EmptyRecord
    BY <1>4
  <2>1. lifecycle[t] = EmptySlot /\ completion[t] = EmptyRecord
    BY DEF IInv
  <2>2. lifecycle'[t] = EmptySlot
    <3>1. ~IsGhost(EmptySlot) /\ [EmptySlot EXCEPT !.events = <<>>] = EmptySlot
      BY DEF EmptySlot, IsGhost, IsTracked
    <3>2. lifecycle'[t] = LifecycleFlush(EmptySlot, now)
      BY <1>4, <2>1
    <3> QED BY <3>1, <3>2 DEF LifecycleFlush
  <2>3. completion'[t] = EmptyRecord
    <3>1. CASE TrackCompletion
      BY <1>4, <2>1, <3>1 DEF CompletionFlush, EmptyRecord
    <3>2. CASE ~TrackCompletion
      BY <1>6, <2>1, <3>2
    <3> QED BY <3>1, <3>2
  <2> QED BY <2>2, <2>3
<1>10. lastTickAt' # NONE => \A t \in Trips : TripInv(lifecycle'[t], completion'[t], lastTickAt')
  <2> SUFFICES ASSUME lastTickAt # NONE, NEW t \in Trips
               PROVE  TripInv(lifecycle'[t], completion'[t], lastTickAt)
    BY <1>4
  <2>1. TripInv(lifecycle[t], completion[t], lastTickAt)
    BY DEF IInv
  <2>2. lifecycle[t].resolved # NONE => completion[t].touchedAt = NONE
    <3>1. completion[t] \in Record /\ lifecycle[t] \in Slot
      BY <1>2
    <3>2. lifecycle[t].resolved # NONE => completion[t].finalizedAt # NONE
      BY <2>1, <3>1, StoreAssumption DEF TripInv, ResolvedInv, Slot, Remembered
    <3> QED BY <2>1, <3>2 DEF TripInv, PendingInv
  <2>3. ResolvedInv(lifecycle'[t], completion'[t], lastTickAt)
    BY <1>5, <1>6, <2>1, <2>2 DEF TripInv, ResolvedInv
  <2>4. PendingInv(lifecycle'[t], completion'[t], lastTickAt)
    <3>1. CASE TrackCompletion
      BY <1>6, <3>1 DEF PendingInv
    <3>2. CASE ~TrackCompletion
      BY <1>5, <1>6, <2>1, <3>2 DEF TripInv, PendingInv
    <3> QED BY <3>1, <3>2
  <2> QED BY <1>5, <2>1, <2>3, <2>4 DEF TripInv
<1>11. ~TrackCompletion => \A t \in Trips : completion'[t] = EmptyRecord
  BY <1>6 DEF IInv
<1> QED BY <1>4, <1>7, <1>8, <1>9, <1>10, <1>11 DEF IInv

LEMMA StutterHolds ==
  ASSUME IInv, UNCHANGED vars
  PROVE  IInv'
BY DEF IInv, vars, trackers, TypeOK

THEOREM Inductive == Spec => []IInv
<1>1. IInv /\ [Next]_vars => IInv'
  BY CycleHolds, EndHolds, StutterHolds DEF Next
<1> QED BY <1>1, InitHolds, PTL DEF Spec

-----------------------------------------------------------------------------
(* What the runs check on small instances, for every instance.             *)

\* Every variable keeps its type, whatever the feeds bring.
THEOREM TypeCorrect == Spec => []TypeOK
<1>1. IInv => TypeOK
  BY DEF IInv
<1> QED BY <1>1, Inductive, PTL

\* The map and the snapshots the API joins with it agree (tick() in ghost.py).
THEOREM LivePlaced == Spec => []LiveIffPlacedByLastPoll
<1>1. IInv => LiveIffPlacedByLastPoll
  BY DEF IInv, PlacedInv, LiveIffPlacedByLastPoll, Tracked, IsTracked, train
<1> QED BY <1>1, Inductive, PTL

LEMMA SeenTrain ==
  ASSUME IInv, NEW t \in Trips, Tracked(t)
  PROVE  /\ lastTickAt \in Nat
         /\ lastTickAt # NONE
         /\ lifecycle[t].train # NONE
         /\ train(t) \in Train
         /\ TripInv(lifecycle[t], completion[t], lastTickAt)
         /\ TrainInv(train(t), lastTickAt)
         /\ TrainClock(train(t), lastTickAt)
<1>1. lifecycle[t].train # NONE
  BY DEF Tracked, IsTracked
<1>2. lastTickAt # NONE
  BY <1>1 DEF IInv, EmptySlot
<1>3. TripInv(lifecycle[t], completion[t], lastTickAt)
  BY <1>2 DEF IInv
<1>4. lifecycle[t] \in Slot /\ lastTickAt \in Nat
  BY <1>2 DEF IInv, TypeOK
<1>5. TrainInv(train(t), lastTickAt)
  BY <1>1, <1>3 DEF TripInv, train
<1>6. TrainClock(train(t), lastTickAt)
  BY <1>5 DEF TrainInv, TrainShape
<1>7. train(t) \in Train
  BY <1>1, <1>4 DEF Slot, train
<1> QED BY <1>1, <1>2, <1>3, <1>4, <1>5, <1>6, <1>7

\* The coasting clock loses time only to a marked backoff (_TrackedTrain).
THEOREM ClockExact == Spec => []CoastingClockIsExact
<1>1. IInv => CoastingClockIsExact
  <2> SUFFICES ASSUME IInv, NEW t \in Trips, EverSeen(t)
               PROVE  /\ train(t).coastingElapsed <= lastTickAt - train(t).lastSeenAt
                      /\ train(t).backoffOverlapped
                           <=> train(t).coastingElapsed < lastTickAt - train(t).lastSeenAt
    BY DEF CoastingClockIsExact
  <2>1. TrainClock(train(t), lastTickAt) /\ train(t).lastSeenAt # NONE
    BY SeenTrain DEF EverSeen
  <2> QED BY <2>1 DEF TrainClock
<1> QED BY <1>1, Inductive, PTL

\* A seen train is a ghost exactly when its clock has run out (COASTING_TIMEOUT_S).
THEOREM GhostExact == Spec => []GhostIffClockExpired
<1>1. IInv => GhostIffClockExpired
  <2> SUFFICES ASSUME IInv, NEW t \in Trips, EverSeen(t)
               PROVE  /\ IsGhost(lifecycle[t]) <=> train(t).coastingElapsed >= CoastingTimeout
                      /\ IsGhost(lifecycle[t]) =>
                           train(t).ghostStartedAt
                             \in train(t).lastSeenAt + CoastingTimeout .. lastTickAt
                      /\ ~IsGhost(lifecycle[t]) => train(t).ghostStartedAt = NONE
    BY DEF GhostIffClockExpired
  <2>1. /\ TrainClock(train(t), lastTickAt)
        /\ train(t).lastSeenAt # NONE
        /\ train(t) \in Train
        /\ lastTickAt \in Nat
        /\ lifecycle[t].train # NONE
    BY SeenTrain DEF EverSeen
  <2>2. train(t).lastSeenAt \in Nat
    BY <2>1 DEF Train
  <2>3. IsGhost(lifecycle[t]) <=> train(t).status = "ghost"
    BY <2>1 DEF IsGhost, IsTracked, train
  <2> QED BY <2>1, <2>2, <2>3, LifecycleAssumption DEF TrainClock
<1> QED BY <1>1, Inductive, PTL

\* mark_resolved() remembers a resolution only for a train still on the map.
THEOREM ResolutionWaits == Spec => []ResolutionAwaitsVisibleTrain
<1>1. IInv => ResolutionAwaitsVisibleTrain
  <2> SUFFICES ASSUME IInv, NEW t \in Trips, lifecycle[t].resolved # NONE
               PROVE  /\ EverSeen(t)
                      /\ IsVisible(lifecycle[t])
                      /\ train(t).lastSeenAt <= lifecycle[t].resolved.at
                      /\ completion[t].finalizedAt = lifecycle[t].resolved.at
    BY DEF ResolutionAwaitsVisibleTrain
  <2>1. lastTickAt # NONE
    BY DEF IInv, EmptySlot
  <2>2. ResolvedInv(lifecycle[t], completion[t], lastTickAt)
    BY <2>1 DEF IInv, TripInv
  <2> QED BY <2>2 DEF ResolvedInv, EverSeen, Tracked, IsTracked, IsVisible, train
<1> QED BY <1>1, Inductive, PTL

\* The lifecycle drops no train whose completion is still awaited.
THEOREM PendingTracked == Spec => []PendingIsTracked
<1>1. IInv => PendingIsTracked
  <2> SUFFICES ASSUME IInv, NEW t \in Trips, completion[t].touchedAt # NONE
               PROVE  /\ completion[t].finalizedAt = NONE
                      /\ Tracked(t)
                      /\ completion[t].touchedAt <= train(t).lastTouchedAt
    BY DEF PendingIsTracked
  <2>1. lastTickAt # NONE
    BY DEF IInv, EmptyRecord
  <2>2. PendingInv(lifecycle[t], completion[t], lastTickAt)
    BY <2>1 DEF IInv, TripInv
  <2> QED BY <2>2 DEF PendingInv, Tracked, IsTracked, train
<1> QED BY <1>1, Inductive, PTL

\* Both _evict_stale() leave nothing older than its retention.
THEOREM MemoryBounded == Spec => []MemoryIsBounded
<1>1. IInv => MemoryIsBounded
  <2> SUFFICES ASSUME IInv, NEW t \in Trips
               PROVE  /\ Tracked(t) => lastTickAt - train(t).lastTouchedAt < MaxGhostAge
                      /\ completion[t].touchedAt # NONE =>
                           lastTickAt - completion[t].touchedAt < UndeterminedTimeout
                      /\ completion[t].finalizedAt # NONE /\ ~flushed =>
                           lastTickAt - completion[t].finalizedAt < FinalizedRetention
    BY DEF MemoryIsBounded
  <2>1. Tracked(t) => lastTickAt - train(t).lastTouchedAt < MaxGhostAge
    BY SeenTrain DEF TrainInv
  <2>2. completion[t] # EmptyRecord => lastTickAt # NONE
    BY DEF IInv
  <2>3. completion[t].touchedAt # NONE =>
          lastTickAt - completion[t].touchedAt < UndeterminedTimeout
    BY <2>2 DEF IInv, TripInv, PendingInv, EmptyRecord
  <2>4. completion[t].finalizedAt # NONE /\ ~flushed =>
          lastTickAt - completion[t].finalizedAt < FinalizedRetention
    BY <2>2 DEF IInv, FinalizedInv, EmptyRecord
  <2> QED BY <2>1, <2>3, <2>4
<1> QED BY <1>1, Inductive, PTL

-----------------------------------------------------------------------------
(* The store implements the ledger of ghost episodes.                      *)

shownNow == [t \in Trips |-> ShownAs(lifecycle[t])]
closedNow == [t \in Trips |-> Reasons(lifecycle[t])]

LEMMA LedgerInit == Init => Episodes!Init
<1> SUFFICES ASSUME Init PROVE Episodes!Init
  OBVIOUS
<1>1. ASSUME NEW t \in Trips
      PROVE  ShownAs(lifecycle[t]) = "untracked" /\ Reasons(lifecycle[t]) = <<>>
  <2>1. lifecycle[t] \in Slot /\ None(lifecycle[t]) /\ lifecycle[t].train = NONE
    BY EmptyTyped DEF Init, EmptySlot, None
  <2> QED BY <2>1, ReasonsOf DEF ShownAs
<1> QED BY <1>1 DEF Episodes!Init

LEMMA ShownTyped ==
  ASSUME NEW slot \in Slot
  PROVE  ShownAs(slot) \in Episodes!Shown
BY DEF Slot, ShownAs, Train, Status, Episodes!Shown

LEMMA LedgerStep ==
  ASSUME IInv, [Next]_vars
  PROVE  [Episodes!Step \/ Episodes!Report]_<<shownNow, closedNow>>
<1>1. CASE Cycle
  <2>1. IInv' /\ \A t \in Trips : Explains(lifecycle[t], lifecycle'[t])
    BY <1>1, CycleHolds
  <2>2. \A t \in Trips : lifecycle'[t] \in Slot
    BY <2>1 DEF IInv, TypeOK
  <2>3. \A t \in Trips : ShownAs(lifecycle'[t]) \in Episodes!Shown
    BY <2>2, ShownTyped
  <2>4. \A t \in Trips : Episodes!Move(ShownAs(lifecycle[t]), ShownAs(lifecycle'[t]),
                                       Reasons(lifecycle'[t]))
    BY <2>1 DEF Explains
  <2>5. Episodes!Step
    BY <2>3, <2>4 DEF Episodes!Step
  <2> QED BY <2>5
<1>2. CASE End
  <2>1. \A t \in Trips : Reported(lifecycle[t], lifecycle'[t])
    BY <1>2, EndHolds
  <2>2. shownNow' = shownNow
    BY <2>1 DEF Reported, shownNow
  <2>3. closedNow' = [t \in Trips |-> IF ShownAs(lifecycle[t]) = "ghost"
                                        THEN <<"flushed">> ELSE <<>>]
    BY <2>1 DEF Reported, closedNow
  <2>4. Episodes!Report
    BY <2>2, <2>3 DEF Episodes!Report, shownNow, closedNow
  <2> QED BY <2>4
<1>3. CASE UNCHANGED vars
  BY <1>3 DEF vars, trackers, shownNow, closedNow
<1> QED BY <1>1, <1>2, <1>3 DEF Next

\* The map and the ghost log move together as the abstract ledger says: an
\* episode leaves the ghost state with exactly one event (tick(),
\* mark_resolved() and flush() in ghost.py, called as ingest() does).
THEOREM LedgerImplemented == Spec => EpisodeLedger
<1>1. IInv /\ [Next]_vars => [Episodes!Step \/ Episodes!Report]_<<shownNow, closedNow>>
  BY LedgerStep
<1> QED BY <1>1, LedgerInit, Inductive, PTL
        DEF Spec, EpisodeLedger, Episodes!Spec, shownNow, closedNow

-----------------------------------------------------------------------------
(* The arrivals of a group.  ArrivalsAfter is a recursive function: what   *)
(* it computes is shown by looking at the least number of arrivals for     *)
(* which it would fail.                                                    *)

\* A set of natural numbers has a least element.
LEMMA LeastElement ==
  ASSUME NEW S \in SUBSET Nat, S # {}
  PROVE  \E x \in S : \A y \in S : x <= y
<1> DEFINE below == {0 .. n - 1 : n \in S}
<1>1. below \subseteq FiniteSubsetsOf(Nat) /\ below # {}
  <2>1. ASSUME NEW n \in S PROVE IsFiniteSet(0 .. n - 1) /\ 0 .. n - 1 \subseteq Nat
    BY FS_Interval
  <2> QED BY <2>1 DEF FiniteSubsetsOf
<1>2. PICK least \in below : \A b \in below : ~ (<<b, least>> \in StrictSubsetOrdering(Nat))
  <2> HIDE DEF below
  <2> QED BY <1>1, WFMin, FS_StrictSubsetOrderingWellFounded
<1>3. PICK x \in S : least = 0 .. x - 1
  OBVIOUS
<1>4. ASSUME NEW y \in S PROVE x <= y
  <2> SUFFICES ASSUME y < x PROVE FALSE
    OBVIOUS
  <2>1. 0 .. y - 1 \subseteq 0 .. x - 1 /\ y \in 0 .. x - 1 /\ y \notin 0 .. y - 1
    OBVIOUS
  <2>2. 0 .. y - 1 \in below
    OBVIOUS
  <2>3. <<0 .. y - 1, least>> \in StrictSubsetOrdering(Nat)
    <3>1. 0 .. y - 1 # least
      BY <2>1, <1>3
    <3>2. 0 .. y - 1 \in SUBSET Nat /\ least \in SUBSET Nat
      BY <1>3
    <3> QED BY <2>1, <1>3, <3>1, <3>2 DEF StrictSubsetOrdering
  <2> QED BY <1>2, <2>2, <2>3
<1> QED BY <1>4

\* Pushing an arrival m times has a result.
LEMMA PushesExist ==
  ASSUME NEW buffer, NEW now, NEW m \in Nat
  PROVE  \E f : f = [n \in 0 .. m |-> IF n = 0 THEN buffer ELSE Push(f[n - 1], now)]
<1> DEFINE Result(f, k) == f = [n \in 0 .. k |-> IF n = 0 THEN buffer ELSE Push(f[n - 1], now)]
           Bad == {k \in 0 .. m : ~ \E f : Result(f, k)}
<1> SUFFICES ASSUME Bad # {} PROVE FALSE
  OBVIOUS
<1>1. PICK k \in Bad : \A j \in Bad : k <= j
  <2> HIDE DEF Bad
  <2>1. Bad \in SUBSET Nat
    BY DEF Bad
  <2> QED BY <2>1, LeastElement
<1>2. k \in 0 .. m /\ k # 0
  <2>1. Result([n \in 0 .. 0 |-> buffer], 0)
    OBVIOUS
  <2> QED BY <2>1
<1>3. k - 1 \in 0 .. m /\ k - 1 \notin Bad
  <2> HIDE DEF Bad
  <2> QED BY <1>1, <1>2
<1>4. PICK f : Result(f, k - 1)
  BY <1>3
<1> DEFINE g == [n \in 0 .. k |-> IF n = k THEN Push(f[k - 1], now) ELSE f[n]]
<1>5. ASSUME NEW n \in 0 .. k
      PROVE  g[n] = IF n = 0 THEN buffer ELSE Push(g[n - 1], now)
  <2>1. CASE n = k
    BY <1>2, <2>1
  <2>2. CASE n # k
    <3>1. n \in 0 .. k - 1 /\ (n # 0 => n - 1 \in 0 .. k /\ n - 1 # k)
      BY <1>2, <2>2
    <3> QED BY <1>4, <2>2, <3>1
  <2> QED BY <2>1, <2>2
<1>6. Result(g, k)
  BY <1>5
<1> QED BY <1>1, <1>6

\* A buffer in time order, nothing in it later than `now`.
Chronological(buffer, now) ==
  /\ buffer \in Seq(Nat)
  /\ Len(buffer) <= MaxArrivals
  /\ \A i, j \in 1 .. Len(buffer) : i < j => buffer[i] <= buffer[j]
  /\ \A i \in 1 .. Len(buffer) : buffer[i] <= now

\* After n arrivals at `now` only the last n entries can be of now.
TickBuffer(buffer, now, n) ==
  /\ Chronological(buffer, now)
  /\ \A i \in 1 .. Len(buffer) : i <= Len(buffer) - n => buffer[i] < now
  /\ n > 0 => buffer # <<>>

\* deque.append with maxlen keeps the order and drops the oldest.
LEMMA PushTicks ==
  ASSUME NEW buffer, NEW now \in Nat, NEW n \in Nat, TickBuffer(buffer, now, n)
  PROVE  TickBuffer(Push(buffer, now), now, n + 1)
<1> DEFINE longer == Append(buffer, now)
           m == Len(buffer)
<1>1. /\ buffer \in Seq(Nat) /\ m \in Nat /\ m <= MaxArrivals /\ MaxArrivals \in Nat \ {0}
      /\ \A i, j \in 1 .. m : i < j => buffer[i] <= buffer[j]
      /\ \A i \in 1 .. m : buffer[i] <= now
      /\ \A i \in 1 .. m : i <= m - n => buffer[i] < now
  BY HeadwayAssumption DEF TickBuffer, Chronological
<1>2. /\ longer \in Seq(Nat) /\ Len(longer) = m + 1 /\ longer[m + 1] = now
      /\ \A i \in 1 .. m : longer[i] = buffer[i]
  BY <1>1
<1>3. \A i \in 1 .. m : buffer[i] \in Nat
  BY <1>1
<1> HIDE DEF longer, m
<1>4. /\ \A i, j \in 1 .. m + 1 : i < j => longer[i] <= longer[j]
      /\ \A i \in 1 .. m + 1 : longer[i] <= now
      /\ \A i \in 1 .. m + 1 : i <= (m + 1) - (n + 1) => longer[i] < now
  <2>1. ASSUME NEW i \in 1 .. m + 1, NEW j \in 1 .. m + 1, i < j
        PROVE  longer[i] <= longer[j]
    <3>1. i \in 1 .. m
      BY <1>1, <2>1
    <3>2. CASE j = m + 1
      BY <1>1, <1>2, <3>1, <3>2
    <3>3. CASE j # m + 1
      <4>1. j \in 1 .. m
        BY <1>1, <3>3
      <4> QED BY <1>1, <1>2, <2>1, <3>1, <4>1
    <3> QED BY <3>2, <3>3
  <2>2. ASSUME NEW i \in 1 .. m + 1
        PROVE  longer[i] <= now /\ (i <= (m + 1) - (n + 1) => longer[i] < now)
    <3>1. CASE i = m + 1
      BY <1>1, <1>2, <3>1
    <3>2. CASE i # m + 1
      <4>1. i \in 1 .. m
        BY <1>1, <3>2
      <4> QED BY <1>1, <1>2, <4>1
    <3> QED BY <3>1, <3>2
  <2> QED BY <2>1, <2>2
<1>5. CASE Len(longer) > MaxArrivals
  <2> DEFINE kept == Tail(longer)
  <2>1. Push(buffer, now) = kept
    BY <1>5 DEF Push, longer
  <2>2. longer # <<>>
    BY <1>1, <1>2
  <2>3. /\ kept \in Seq(Nat) /\ Len(kept) = m
        /\ \A i \in 1 .. m : kept[i] = longer[i + 1]
    BY <1>1, <1>2, <2>2
  <2>4. m > 0 /\ m <= MaxArrivals
    BY <1>1, <1>2, <1>5
  <2>5. \A i \in 1 .. m : i + 1 \in 1 .. m + 1
    BY <1>1
  <2> HIDE DEF kept
  <2>6. /\ \A i, j \in 1 .. m : i < j => kept[i] <= kept[j]
        /\ \A i \in 1 .. m : kept[i] <= now
        /\ \A i \in 1 .. m : i <= m - (n + 1) => kept[i] < now
    <3>1. ASSUME NEW i \in 1 .. m, NEW j \in 1 .. m, i < j
          PROVE  kept[i] <= kept[j]
      <4>1. i + 1 < j + 1
        BY <3>1
      <4> QED BY <1>4, <2>3, <2>5, <4>1
    <3>2. ASSUME NEW i \in 1 .. m
          PROVE  kept[i] <= now /\ (i <= m - (n + 1) => kept[i] < now)
      <4>1. i <= m - (n + 1) => i + 1 <= (m + 1) - (n + 1)
        BY <1>1
      <4> QED BY <1>4, <2>3, <2>5, <4>1
    <3> QED BY <3>1, <3>2
  <2>7. kept # <<>>
    BY <2>3, <2>4
  <2> QED BY <2>1, <2>3, <2>4, <2>6, <2>7 DEF TickBuffer, Chronological
<1>6. CASE ~(Len(longer) > MaxArrivals)
  <2>1. Push(buffer, now) = longer
    BY <1>6 DEF Push, longer
  <2>2. longer # <<>> /\ Len(longer) <= MaxArrivals
    BY <1>1, <1>2, <1>6
  <2> QED BY <1>2, <1>4, <2>1, <2>2 DEF TickBuffer, Chronological
<1> QED BY <1>5, <1>6

LEMMA ArrivalsTimely ==
  ASSUME NEW buffer, NEW now \in Nat, NEW count \in Nat, TickBuffer(buffer, now, 0)
  PROVE  /\ TickBuffer(ArrivalsAfter(buffer, count, now), now, count)
         /\ buffer # <<>> => ArrivalsAfter(buffer, count, now) # <<>>
<1>1. PICK f : f = [n \in 0 .. count |-> IF n = 0 THEN buffer ELSE Push(f[n - 1], now)]
  BY PushesExist
<1>2. PICK push : /\ push = [n \in 0 .. count |-> IF n = 0 THEN buffer ELSE Push(push[n - 1], now)]
                  /\ ArrivalsAfter(buffer, count, now) = push[count]
  BY <1>1 DEF ArrivalsAfter
<1> DEFINE Bad == {n \in 0 .. count : ~TickBuffer(push[n], now, n)}
<1>3. Bad = {}
  <2> SUFFICES ASSUME Bad # {} PROVE FALSE
    OBVIOUS
  <2>1. PICK n \in Bad : \A k \in Bad : n <= k
    <3> HIDE DEF Bad
    <3>1. Bad \in SUBSET Nat
      BY DEF Bad
    <3> QED BY <3>1, LeastElement
  <2>2. n \in 0 .. count /\ n # 0
    BY <1>2
  <2>3. n - 1 \in 0 .. count /\ n - 1 \notin Bad
    <3> HIDE DEF Bad
    <3> QED BY <2>1, <2>2
  <2>4. TickBuffer(push[n - 1], now, n - 1)
    BY <2>3
  <2>5. push[n] = Push(push[n - 1], now)
    BY <1>2, <2>2
  <2>6. TickBuffer(push[n], now, (n - 1) + 1)
    BY <2>2, <2>4, <2>5, PushTicks
  <2>7. (n - 1) + 1 = n
    BY <2>2
  <2> QED BY <2>1, <2>6, <2>7
<1>4. TickBuffer(push[count], now, count)
  BY <1>3
<1>5. push[0] = buffer
  BY <1>2
<1>6. push[count] = <<>> => buffer = <<>>
  BY <1>4, <1>5 DEF TickBuffer
<1> QED BY <1>2, <1>4, <1>6

\* Every group has arrivals, none later than the last cycle.
ArrivalsInv ==
  \A g \in DOMAIN arrivals :
    /\ lastTickAt # NONE
    /\ Chronological(arrivals[g], lastTickAt)
    /\ arrivals[g] # <<>>

\* The trains that give a group an arrival in this cycle are some that stand
\* at its stop now and did not before.
Newcomers(g) ==
  {t \in Trips : /\ DwellsAt(dwells'[t], g[1])
                 /\ dwells'[t].at = lastTickAt'
                 /\ ~DwellsAt(dwells[t], g[1])}

\* A train that arrives is recorded at its stop, and was not there before.
LEMMA ArrivesRecorded ==
  ASSUME NEW dwell, NEW snap, NEW stop \in Stops \cup {NONE}, NEW resolves \in BOOLEAN,
         NEW now \in Nat, NEW t, NEW was \in BOOLEAN,
         Arrives(dwell, snap, stop, resolves, was, t)
  PROVE  /\ stop # NONE
         /\ DwellsAt(DwellTick(dwell, snap, stop, resolves, was, now, t), stop)
         /\ DwellTick(dwell, snap, stop, resolves, was, now, t).at = now
         /\ ~DwellsAt(dwell, stop)
<1>1. /\ Groupable(snap) /\ stop # NONE /\ was
      /\ FreshDwell(dwell, snap, stop) /\ Resolvable(snap, resolves, t)
  BY DEF Arrives, FreshDwell
<1> DEFINE seen == [stop |-> stop, at |-> now]
<1>2. seen \in [stop : Stops, at : Nat] /\ seen # NONE
  BY <1>1, StoreAssumption
<1>3. ~(now - seen.at >= DwellRetention)
  BY HeadwayAssumption
<1>4. DwellTick(dwell, snap, stop, resolves, was, now, t) = seen
  BY <1>1, <1>2, <1>3 DEF DwellTick
<1>5. ~DwellsAt(dwell, stop)
  BY <1>1 DEF FreshDwell, DwellsAt
<1>6. seen.stop = stop /\ seen.at = now
  OBVIOUS
<1> HIDE DEF seen
<1> QED BY <1>1, <1>2, <1>4, <1>5, <1>6 DEF DwellsAt

\* Only the last entries of a buffer are of now: there are no more of them
\* than arrivals.
LEMMA FewOfNow ==
  ASSUME NEW buffer, NEW now \in Nat, NEW count \in Nat, TickBuffer(buffer, now, count)
  PROVE  Cardinality({i \in DOMAIN buffer : buffer[i] = now}) <= count
<1> DEFINE m == Len(buffer)
           latest == {i \in DOMAIN buffer : buffer[i] = now}
<1>1. /\ buffer \in Seq(Nat) /\ m \in Nat /\ DOMAIN buffer = 1 .. m
      /\ \A i \in 1 .. m : buffer[i] \in Nat
      /\ \A i \in 1 .. m : i <= m - count => buffer[i] < now
  BY DEF TickBuffer, Chronological
<1>2. latest \in SUBSET (m - count + 1 .. m)
  BY <1>1
<1>3. IsFiniteSet(m - count + 1 .. m) /\ Cardinality(m - count + 1 .. m) = count
  <2>1. m - count + 1 \in Int /\ m \in Int
    BY <1>1
  <2>2. Cardinality(m - count + 1 .. m)
          = IF m - count + 1 > m THEN 0 ELSE m - (m - count + 1) + 1
    BY <2>1, FS_Interval
  <2>3. IsFiniteSet(m - count + 1 .. m)
    BY <2>1, FS_Interval
  <2> HIDE DEF m
  <2> QED BY <1>1, <2>2, <2>3
<1> HIDE DEF latest, m
<1>4. Cardinality(latest) <= count
  BY <1>2, <1>3, FS_Subset
<1> QED BY <1>4 DEF latest

LEMMA CycleArrivals ==
  ASSUME IInv, ArrivalsInv, Cycle
  PROVE  /\ lastTickAt' \in Nat /\ lastTickAt' # NONE /\ lastTickAt' # lastTickAt
         /\ \A g \in DOMAIN arrivals' :
              /\ Chronological(arrivals'[g], lastTickAt')
              /\ arrivals'[g] # <<>>
              /\ Cardinality(ArrivalsNow(g)') <= Cardinality(Newcomers(g))
<1>1. PICK now \in CycleTimes, backoff \in BOOLEAN, known \in Lookups,
           tuFeed \in TuFeeds, vpFeed \in VpFeeds, sa \in SaFeeds \cup {NONE},
           stopOf \in StopsNow :
        Ingest(tuFeed, vpFeed, sa, now, backoff, known, stopOf)
  BY DEF Cycle
<1> DEFINE snaps == MergedSnapshots(tuFeed, vpFeed)
<1>2. /\ lastTickAt' = now
      /\ IF TrackHeadway THEN HeadwayStep(snaps, stopOf, known, now)
                         ELSE UNCHANGED <<dwells, arrivals, primed>>
  BY <1>1 DEF Ingest
<1>3. /\ now \in Nat /\ now # NONE /\ primed \in BOOLEAN
      /\ lastTickAt # NONE => lastTickAt \in Nat /\ lastTickAt < now
  <2>0. Starts \subseteq Nat /\ Steps \subseteq Nat \ {0} /\ NONE \notin Nat
    BY StoreAssumption
  <2>1. lastTickAt \in Nat \cup {NONE} /\ primed \in BOOLEAN
    BY DEF IInv, TypeOK
  <2>2. CASE lastTickAt = NONE
    BY <2>0, <2>1, <2>2 DEF CycleTimes
  <2>3. CASE lastTickAt # NONE
    <3>1. PICK s \in Steps : now = lastTickAt + s
      BY <2>3 DEF CycleTimes
    <3> QED BY <2>0, <2>1, <2>3, <3>1
  <2> QED BY <2>2, <2>3
<1> HIDE DEF snaps
<1>4. ASSUME NEW g \in DOMAIN arrivals
      PROVE  TickBuffer(arrivals[g], now, 0) /\ arrivals[g] # <<>> /\ lastTickAt < now
  <2>1. lastTickAt \in Nat /\ lastTickAt < now /\ Chronological(arrivals[g], lastTickAt) /\ arrivals[g] # <<>>
    BY <1>3 DEF ArrivalsInv
  <2>2. \A i \in 1 .. Len(arrivals[g]) : arrivals[g][i] \in Nat /\ arrivals[g][i] <= lastTickAt
    BY <2>1 DEF Chronological
  <2>3. \A i \in 1 .. Len(arrivals[g]) : arrivals[g][i] < now
    BY <1>3, <2>1, <2>2
  <2> QED BY <1>3, <2>1, <2>2, <2>3 DEF TickBuffer, Chronological
<1>5. ASSUME NEW g
      PROVE  Newcomers(g) \in SUBSET Trips /\ IsFiniteSet(Newcomers(g))
  <2>1. Newcomers(g) \in SUBSET Trips
    BY DEF Newcomers
  <2> QED BY <2>1, FS_Subset, HeadwayAssumption
<1>6. CASE ~TrackHeadway
  <2>1. arrivals' = arrivals
    BY <1>2, <1>6
  <2>2. ASSUME NEW g \in DOMAIN arrivals
        PROVE  Cardinality(ArrivalsNow(g)') <= Cardinality(Newcomers(g))
    <3>1. TickBuffer(arrivals[g], now, 0)
      BY <1>4
    <3>2. Cardinality({i \in DOMAIN arrivals[g] : arrivals[g][i] = now}) <= 0
      BY <1>3, <3>1, FewOfNow
    <3>3. ArrivalsNow(g)' = {i \in DOMAIN arrivals[g] : arrivals[g][i] = now}
      BY <1>2, <2>1 DEF ArrivalsNow
    <3>4. {i \in DOMAIN arrivals[g] : arrivals[g][i] = now} = {}
      BY <3>1 DEF TickBuffer, Chronological
    <3>5. Cardinality(ArrivalsNow(g)') = 0
      BY <3>3, <3>4, FS_EmptySet
    <3>6. Cardinality(Newcomers(g)) \in Nat
      BY <1>5, FS_CardinalityType
    <3> QED BY <3>5, <3>6
  <2> QED BY <1>2, <1>3, <1>4, <2>1, <2>2 DEF TickBuffer
<1>7. CASE TrackHeadway
  <2> DEFINE arriving == {t \in Trips : Arrives(dwells[t], snaps[t], stopOf[t], t \in known, primed, t)}
             group(t) == GroupOf(snaps[t], stopOf[t], t)
             touched  == {group(t) : t \in arriving}
             former(g) == IF g \in DOMAIN arrivals THEN arrivals[g] ELSE <<>>
             joining(g) == {t \in arriving : group(t) = g}
  <2>1. /\ dwells' = [t \in Trips |-> DwellTick(dwells[t], snaps[t], stopOf[t], t \in known, primed, now, t)]
        /\ arrivals' = [g \in DOMAIN arrivals \cup touched |->
                          ArrivalsAfter(former(g), Cardinality(joining(g)), now)]
    BY <1>2, <1>7 DEF HeadwayStep
  <2>2. SUFFICES ASSUME NEW g \in DOMAIN arrivals \cup touched
                 PROVE  /\ Chronological(arrivals'[g], now)
                        /\ arrivals'[g] # <<>>
                        /\ Cardinality(ArrivalsNow(g)') <= Cardinality(Newcomers(g))
    <3>1. DOMAIN arrivals' = DOMAIN arrivals \cup touched
      BY <2>1
    <3>2. lastTickAt' \in Nat /\ lastTickAt' # NONE /\ lastTickAt' # lastTickAt
      BY <1>2, <1>3
    <3> HIDE DEF touched, former, joining
    <3> QED BY <1>2, <2>2, <3>1, <3>2
  <2>3. joining(g) \in SUBSET Newcomers(g)
    <3>1. SUFFICES ASSUME NEW t \in Trips, t \in joining(g) PROVE t \in Newcomers(g)
      OBVIOUS
    <3> DEFINE resolves == t \in known
               next == DwellTick(dwells[t], snaps[t], stopOf[t], resolves, primed, now, t)
    <3>2. Arrives(dwells[t], snaps[t], stopOf[t], resolves, primed, t) /\ g = GroupOf(snaps[t], stopOf[t], t)
      BY <3>1
    <3>3. stopOf[t] \in Stops \cup {NONE} /\ resolves \in BOOLEAN
      BY <1>7 DEF StopsNow
    <3>4. dwells'[t] = next
      BY <2>1
    <3>5. g[1] = stopOf[t]
      BY <3>2 DEF GroupOf
    <3> HIDE DEF resolves
    <3>6. DwellsAt(next, stopOf[t]) /\ next.at = now /\ ~DwellsAt(dwells[t], stopOf[t])
      BY <1>3, <3>2, <3>3, ArrivesRecorded
    <3> HIDE DEF next
    <3> QED BY <1>2, <3>4, <3>5, <3>6 DEF Newcomers
  <2> DEFINE count == Cardinality(joining(g))
  <2>4. IsFiniteSet(joining(g)) /\ count \in Nat /\ count <= Cardinality(Newcomers(g))
    <3> HIDE DEF joining
    <3> QED BY <1>5, <2>3, FS_Subset, FS_CardinalityType
  <2>5. TickBuffer(former(g), now, 0)
    <3>1. TickBuffer(<<>>, now, 0)
      BY <1>3, HeadwayAssumption DEF TickBuffer, Chronological
    <3> QED BY <1>4, <3>1
  <2>6. former(g) = <<>> => count > 0
    <3>1. CASE g \in DOMAIN arrivals
      BY <1>4, <3>1
    <3>2. CASE g \notin DOMAIN arrivals
      <4>1. joining(g) # {}
        BY <2>2, <3>2
      <4> HIDE DEF joining
      <4> QED BY <2>4, <4>1, FS_EmptySet
    <3> QED BY <3>1, <3>2
  <2>7. arrivals'[g] = ArrivalsAfter(former(g), count, now)
    BY <2>1
  <2> HIDE DEF former, count, joining, touched
  <2>8. TickBuffer(arrivals'[g], now, count) /\ (former(g) # <<>> => arrivals'[g] # <<>>)
    BY <1>3, <2>4, <2>5, <2>7, ArrivalsTimely
  <2>9. arrivals'[g] # <<>>
    BY <2>6, <2>8 DEF TickBuffer
  <2>10. Cardinality({i \in DOMAIN arrivals'[g] : arrivals'[g][i] = now}) <= count
    BY <1>3, <2>4, <2>8, FewOfNow
  <2>11. ArrivalsNow(g)' = {i \in DOMAIN arrivals'[g] : arrivals'[g][i] = now}
    BY <1>2 DEF ArrivalsNow
  <2>12. Cardinality(ArrivalsNow(g)') <= Cardinality(Newcomers(g))
    <3>1. Cardinality(Newcomers(g)) \in Nat
      BY <1>5, FS_CardinalityType
    <3>2. IsFiniteSet({i \in DOMAIN arrivals'[g] : arrivals'[g][i] = now})
      <4>1. {i \in DOMAIN arrivals'[g] : arrivals'[g][i] = now} \in SUBSET (1 .. Len(arrivals'[g]))
        BY <2>8 DEF TickBuffer, Chronological
      <4>2. IsFiniteSet(1 .. Len(arrivals'[g]))
        BY <2>8, FS_Interval DEF TickBuffer, Chronological
      <4> QED BY <4>1, <4>2, FS_Subset
    <3>3. Cardinality({i \in DOMAIN arrivals'[g] : arrivals'[g][i] = now}) \in Nat
      BY <3>2, FS_CardinalityType
    <3> QED BY <2>4, <2>10, <2>11, <3>1, <3>3
  <2> QED BY <2>8, <2>9, <2>12 DEF TickBuffer
<1> QED BY <1>6, <1>7

LEMMA NowCounted ==
  ASSUME NEW g, Chronological(arrivals'[g], lastTickAt')
  PROVE  Cardinality(ArrivalsNow(g)') \in Nat
<1>1. ArrivalsNow(g)' \in SUBSET (1 .. Len(arrivals'[g]))
  BY DEF ArrivalsNow, Chronological
<1>2. IsFiniteSet(1 .. Len(arrivals'[g]))
  BY FS_Interval DEF Chronological
<1> QED BY <1>1, <1>2, FS_Subset, FS_CardinalityType

LEMMA ArrivalsInductive == Spec => []ArrivalsInv
<1>1. Init => ArrivalsInv
  BY DEF Init, ArrivalsInv
<1>2. IInv /\ ArrivalsInv /\ [Next]_vars => ArrivalsInv'
  <2> SUFFICES ASSUME IInv, ArrivalsInv, [Next]_vars PROVE ArrivalsInv'
    OBVIOUS
  <2>1. CASE Cycle
    BY <2>1, CycleArrivals DEF ArrivalsInv
  <2>2. CASE End \/ UNCHANGED vars
    <3>1. UNCHANGED <<arrivals, lastTickAt>>
      BY <2>2 DEF End, Flush, vars, trackers
    <3> QED BY <3>1 DEF ArrivalsInv
  <2> QED BY <2>1, <2>2 DEF Next
<1> QED BY <1>1, <1>2, Inductive, PTL DEF Spec

\* No more arrivals of a group carry the last cycle's time than there are
\* trains standing at its stop since.
Crowded(g) == {t \in Trips : DwellsAt(dwells[t], g[1]) /\ dwells[t].at = lastTickAt}

LEMMA NewcomersStand ==
  ASSUME NEW g
  PROVE  /\ IsFiniteSet(Newcomers(g)) /\ IsFiniteSet(Crowded(g)')
         /\ Cardinality(Newcomers(g)) \in Nat
         /\ Cardinality(Newcomers(g)) <= Cardinality(Crowded(g)')
<1>1. Newcomers(g) \in SUBSET (Crowded(g)') /\ Crowded(g)' \in SUBSET Trips
  BY DEF Newcomers, Crowded
<1>2. IsFiniteSet(Crowded(g)')
  BY <1>1, FS_Subset, HeadwayAssumption
<1> QED BY <1>1, <1>2, FS_Subset, FS_CardinalityType

\* The gaps compute_headway_info averages are never negative and the buffer of
\* a group never outgrows its maxlen, for any trips, stops and cycle times.
THEOREM ArrivalsOrdered == Spec => []ArrivalsAreChronological
<1> DEFINE NotCrowded == \A g \in DOMAIN arrivals : Cardinality(ArrivalsNow(g)) <= Cardinality(Crowded(g))
<1>1. Init => NotCrowded
  BY DEF Init
<1>2. IInv /\ ArrivalsInv /\ NotCrowded /\ [Next]_vars => NotCrowded'
  <2> SUFFICES ASSUME IInv, ArrivalsInv, NotCrowded, [Next]_vars PROVE NotCrowded'
    OBVIOUS
  <2>1. CASE Cycle
    <3> SUFFICES ASSUME NEW g \in DOMAIN arrivals'
                 PROVE  Cardinality(ArrivalsNow(g)') <= Cardinality(Crowded(g)')
      OBVIOUS
    <3>1. Cardinality(ArrivalsNow(g)') <= Cardinality(Newcomers(g))
      BY <2>1, CycleArrivals
    <3>2. Cardinality(ArrivalsNow(g)') \in Nat
      <4>1. Chronological(arrivals'[g], lastTickAt')
        BY <2>1, CycleArrivals
      <4> QED BY <4>1, NowCounted
    <3>3. Cardinality(Crowded(g)') \in Nat
      BY NewcomersStand, FS_CardinalityType
    <3> QED BY <3>1, <3>2, <3>3, NewcomersStand
  <2>2. CASE End \/ UNCHANGED vars
    <3>1. UNCHANGED <<arrivals, lastTickAt, dwells>>
      BY <2>2 DEF End, Flush, vars, trackers
    <3> QED BY <3>1 DEF ArrivalsNow, Crowded
  <2> QED BY <2>1, <2>2 DEF Next
<1>3. ArrivalsInv /\ NotCrowded => ArrivalsAreChronological
  <2> SUFFICES ASSUME ArrivalsInv, NotCrowded, NEW g \in DOMAIN arrivals
               PROVE  /\ Len(arrivals[g]) \in 1 .. MaxArrivals
                      /\ \A i, j \in DOMAIN arrivals[g] : i < j => arrivals[g][i] <= arrivals[g][j]
                      /\ Cardinality(ArrivalsNow(g)) <= Cardinality(Crowded(g))
    BY DEF ArrivalsAreChronological, Crowded
  <2>1. Chronological(arrivals[g], lastTickAt) /\ arrivals[g] # <<>>
    BY DEF ArrivalsInv
  <2>2. Len(arrivals[g]) \in 1 .. MaxArrivals /\ DOMAIN arrivals[g] = 1 .. Len(arrivals[g])
    BY <2>1, HeadwayAssumption DEF Chronological
  <2> QED BY <2>1, <2>2 DEF Chronological
<1> HIDE DEF NotCrowded
<1> QED BY <1>1, <1>2, <1>3, Inductive, ArrivalsInductive, PTL DEF Spec

\* However many cycles a dwell spans it is one arrival, for any trips and
\* stops (_recorded_dwell in headway.py).
THEOREM DwellCountsOnce == Spec => OneArrivalPerDwell
<1>1. IInv /\ ArrivalsInv /\ [Next]_vars =>
        [ lastTickAt' # lastTickAt =>
            \A g \in DOMAIN arrivals' :
              Cardinality(ArrivalsNow(g)') <=
                Cardinality({t \in Trips : DwellsAt(dwells'[t], g[1]) /\ ~DwellsAt(dwells[t], g[1])})
        ]_vars
  <2> SUFFICES ASSUME IInv, ArrivalsInv, [Next]_vars, lastTickAt' # lastTickAt
               PROVE  \A g \in DOMAIN arrivals' :
                        Cardinality(ArrivalsNow(g)') <=
                          Cardinality({t \in Trips : DwellsAt(dwells'[t], g[1]) /\ ~DwellsAt(dwells[t], g[1])})
    OBVIOUS
  <2>1. CASE Cycle
    <3> SUFFICES ASSUME NEW g \in DOMAIN arrivals'
                 PROVE  Cardinality(ArrivalsNow(g)') <=
                          Cardinality({t \in Trips : DwellsAt(dwells'[t], g[1]) /\ ~DwellsAt(dwells[t], g[1])})
      OBVIOUS
    <3> DEFINE came == {t \in Trips : DwellsAt(dwells'[t], g[1]) /\ ~DwellsAt(dwells[t], g[1])}
    <3>1. Cardinality(ArrivalsNow(g)') <= Cardinality(Newcomers(g))
      BY <2>1, CycleArrivals
    <3>2. Newcomers(g) \in SUBSET came /\ came \in SUBSET Trips
      BY DEF Newcomers
    <3>3. IsFiniteSet(came)
      BY <3>2, FS_Subset, HeadwayAssumption
    <3> HIDE DEF came
    <3>4. /\ Cardinality(Newcomers(g)) <= Cardinality(came)
          /\ Cardinality(Newcomers(g)) \in Nat /\ Cardinality(came) \in Nat
      BY <3>2, <3>3, FS_Subset, FS_CardinalityType
    <3>5. Cardinality(ArrivalsNow(g)') \in Nat
      <4>1. Chronological(arrivals'[g], lastTickAt')
        BY <2>1, CycleArrivals
      <4> QED BY <4>1, NowCounted
    <3>6. Cardinality(ArrivalsNow(g)') <= Cardinality(came)
      BY <3>1, <3>4, <3>5
    <3> QED BY <3>6 DEF came
  <2>2. CASE End \/ UNCHANGED vars
    <3>1. UNCHANGED lastTickAt
      BY <2>2 DEF End, Flush, vars, trackers
    <3> QED BY <3>1
  <2> QED BY <2>1, <2>2 DEF Next
<1> QED BY <1>1, Inductive, ArrivalsInductive, PTL DEF Spec, OneArrivalPerDwell

-----------------------------------------------------------------------------
(* The pacing of delay observations.                                       *)

\* A trip that gives features in a cycle which resolves it has an observation
\* younger than the interval when the cycle ends.
LEMMA PaceFresh ==
  ASSUME ObservationInterval <= ObservedRetention,
         NEW pace0 \in Pace, NEW snap, HasFeatures(snap), NEW now \in Nat,
         NEW next, next = DelayTick(pace0, snap, TRUE, now)
  PROVE  /\ next.lastObserved # NONE
         /\ now - next.lastObserved < ObservationInterval
<1>0. /\ ObservationInterval \in Nat /\ ObservationInterval > 0
      /\ ObservedRetention \in Nat /\ ObservedRetention > 0
      /\ NONE \notin Nat
  BY StoreAssumption, ObservationAssumption
<1>1. pace0.lastObserved \in Nat \cup {NONE}
  BY DEF Pace
<1>2. CASE Due(pace0, now)
  <2>1. next.lastObserved = IF now # NONE /\ now - now >= ObservedRetention THEN NONE ELSE now
    BY <1>2 DEF DelayTick
  <2>2. now - now = 0 /\ ObservedRetention > 0 /\ ObservationInterval > 0 /\ now # NONE
    BY <1>0
  <2>3. next.lastObserved = now
    <3>1. ~(now - now >= ObservedRetention)
      BY <1>0, <2>2
    <3> QED BY <2>1, <3>1
  <2> QED BY <2>2, <2>3
<1>3. CASE ~Due(pace0, now)
  <2>1. pace0.lastObserved # NONE /\ now - pace0.lastObserved < ObservationInterval
    BY <1>0, <1>1, <1>3 DEF Due
  <2>2. next.lastObserved = IF /\ pace0.lastObserved # NONE
                               /\ now - pace0.lastObserved >= ObservedRetention
                              THEN NONE ELSE pace0.lastObserved
    BY <1>3 DEF DelayTick
  <2>3. pace0.lastObserved \in Nat /\ ~(now - pace0.lastObserved >= ObservedRetention)
    BY <1>0, <1>1, <2>1
  <2>4. next.lastObserved = pace0.lastObserved
    BY <2>2, <2>3
  <2> QED BY <2>1, <2>4
<1> QED BY <1>2, <1>3

\* Where the tracker is on, and keeps an observation for at least one interval,
\* as delay_observation.py does, pacing and eviction starve no trip.
THEOREM Sampled ==
  ASSUME TrackDelay, ObservationInterval <= ObservedRetention
  PROVE  Spec => []ObservableTripsAreSampled
<1>1. Init => ObservableTripsAreSampled
  BY DEF Init, ObservableTripsAreSampled, HasFeatures
<1>2. IInv /\ ObservableTripsAreSampled /\ [Next]_vars => ObservableTripsAreSampled'
  <2> SUFFICES ASSUME IInv, ObservableTripsAreSampled, [Next]_vars
               PROVE  ObservableTripsAreSampled'
    OBVIOUS
  <2>1. CASE Cycle
    <3>1. PICK now \in CycleTimes, backoff \in BOOLEAN, known \in Lookups,
               tuFeed \in TuFeeds, vpFeed \in VpFeeds, sa \in SaFeeds \cup {NONE},
               stopOf \in StopsNow :
            Ingest(tuFeed, vpFeed, sa, now, backoff, known, stopOf)
      BY <2>1 DEF Cycle
    <3> DEFINE snaps == MergedSnapshots(tuFeed, vpFeed)
    <3>2. /\ latestSnapshots' = snaps
          /\ lastTickAt' = now
          /\ pace' = PacesAfter(snaps, known, now)
      BY <3>1 DEF Ingest
    <3>3. now \in Nat
      <4>1. lastTickAt \in Nat \cup {NONE}
        BY DEF IInv, TypeOK
      <4>2. Starts \subseteq Nat /\ Steps \subseteq Nat
        BY StoreAssumption
      <4>3. CASE lastTickAt = NONE
        BY <4>2, <4>3 DEF CycleTimes
      <4>4. CASE lastTickAt # NONE
        <5>1. PICK s \in Steps : now = lastTickAt + s
          BY <4>4 DEF CycleTimes
        <5> QED BY <4>1, <4>2, <4>4, <5>1
      <4> QED BY <4>3, <4>4
    <3> HIDE DEF snaps
    <3>4. SUFFICES ASSUME NEW t \in Trips, HasFeatures(snaps[t]), t \in known
                   PROVE  /\ pace'[t].lastObserved # NONE
                          /\ now - pace'[t].lastObserved < ObservationInterval
      BY <3>2 DEF ObservableTripsAreSampled
    <3>5. pace'[t] = DelayTick(pace[t], snaps[t], TRUE, now) /\ pace[t] \in Pace
      BY <3>2, <3>4 DEF PacesAfter, IInv, TypeOK
    <3> QED BY <3>3, <3>4, <3>5, PaceFresh
  <2>2. CASE End \/ UNCHANGED vars
    <3>1. UNCHANGED <<pace, lastTickAt, latestSnapshots>>
      BY <2>2 DEF End, Flush, vars, trackers
    <3> QED BY <3>1 DEF ObservableTripsAreSampled
  <2> QED BY <2>1, <2>2 DEF Next
<1> QED BY <1>1, <1>2, Inductive, PTL DEF Spec

=============================================================================
