------------------------------- MODULE Merge --------------------------------
(***************************************************************************)
(* state/merge.py: one Trip Updates poll and one Vehicle Positions poll    *)
(* become one snapshot per trip plus the conflicts between the two feeds.  *)
(* A pure function of its two inputs, with no memory of earlier polls.     *)
(*                                                                         *)
(* Data abstraction.  A feed is a function of the trip, NONE where the     *)
(* trip has no entity.  Of a stop-time window only what a consumer tells   *)
(* apart is kept: whether it is empty, whether its nearest stop yields     *)
(* delay features, and the delay of a genuine terminus arrival.            *)
(***************************************************************************)
EXTENDS Integers, Domain

CONSTANT Values   \* values of a trip descriptor's fields

Fields == {"route_id", "start_time", "start_date", "schedule_relationship"}
Descriptor == [Fields -> Values \cup {NONE}]

Window == {"empty", "opaque", "observable"}

TuEntity == [trip : Descriptor, window : Window, terminusDelay : Int \cup {NONE}]
VpEntity == [trip : Descriptor, stamped : BOOLEAN]

TuFeed == [stamped : BOOLEAN, entity : [Trips -> TuEntity \cup {NONE}]]
VpFeed == [stamped : BOOLEAN, entity : [Trips -> VpEntity \cup {NONE}]]

\* What the poller passes for a feed it has never decoded: an empty dict.
EmptyFeed == [stamped |-> FALSE, entity |-> [t \in Trips |-> NONE]]

Snapshot ==
  [hasSchedule : BOOLEAN, hasPosition : BOOLEAN, trip : Descriptor,
   window : Window, terminusDelay : Int \cup {NONE}]

NoDescriptor == [f \in Fields |-> NONE]

\* A schedule is as fresh as the TU header, so an unstamped header leaves the
\* trip without one; a position falls back to the VP header's stamp.
SnapshotOf(tuFeed, vpFeed, t) ==
  LET tu == tuFeed.entity[t]
      vp == vpFeed.entity[t]
  IN [hasSchedule   |-> tu # NONE /\ tuFeed.stamped,
      hasPosition   |-> vp # NONE /\ (vp.stamped \/ vpFeed.stamped),
      trip          |-> IF tu # NONE THEN tu.trip ELSE NoDescriptor,
      window        |-> IF tu # NONE THEN tu.window ELSE "empty",
      terminusDelay |-> IF tu # NONE THEN tu.terminusDelay ELSE NONE]

Mentioned(tuFeed, vpFeed, t) == tuFeed.entity[t] # NONE \/ vpFeed.entity[t] # NONE

MergedSnapshots(tuFeed, vpFeed) ==
  [t \in Trips |-> IF Mentioned(tuFeed, vpFeed, t)
                     THEN SnapshotOf(tuFeed, vpFeed, t) ELSE NONE]

\* VP is secondary: it conflicts only where it carries a value of its own.
Conflicts(tu, vp) ==
  {f \in Fields : vp.trip[f] # NONE /\ vp.trip[f] # tu.trip[f]}

DiscrepancyTypes(tuFeed, vpFeed, t) ==
  LET tu == tuFeed.entity[t]
      vp == vpFeed.entity[t]
  IN IF vp = NONE THEN {}
     ELSE IF tu = NONE THEN {"vp_without_tu"}
     ELSE Conflicts(tu, vp)

Discrepancies(tuFeed, vpFeed) ==
  UNION {{<<t, d>> : d \in DiscrepancyTypes(tuFeed, vpFeed, t)} : t \in Trips}

=============================================================================
