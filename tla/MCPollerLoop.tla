---------------------------- MODULE MCPollerLoop ----------------------------
(* Small instances of PollerLoop for TLC.                                   *)
EXTENDS PollerLoop, TLC

Desc == [f \in Fields |-> CASE f = "schedule_relationship" -> "SCHEDULED"
                            [] f = "start_date" -> "today"
                            [] OTHER -> "r1"]
MCValues == {"r1", "today", "SCHEDULED"}

Running == [trip |-> Desc, window |-> "observable", terminusDelay |-> NONE]
Vehicle == [trip |-> Desc, stamped |-> TRUE]

\* A feed that lists every trip, or none, freshly stamped or not at all.
Full(entity) == [t \in Trips |-> entity]
OneTu == {[ts |-> 1, entity |-> Full(Running)]}
SomeVp == {[ts |-> 1, entity |-> Full(Vehicle)], [ts |-> 2, entity |-> Full(NONE)]}
NoAlerts == {[ts |-> NONE, entity |-> {}]}

JourneyTu == {Running}
JourneyVp == {Vehicle}
AllKnown == {Trips}
NoDirections == [t \in Trips |-> NONE]
MCStarts == 0 .. MaxTime
MCWaits == [level \in 0 .. TopLevel |-> CASE level = 0 -> {1} [] level = 1 -> {2} [] OTHER -> {3}]
=============================================================================
