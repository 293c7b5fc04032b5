--------------------------- MODULE MCStateStore -----------------------------
(* Small instances of StateStore for TLC: the feed contents the runs choose *)
(* from.                                                                    *)
EXTENDS StateStore

Desc(rel) == [f \in Fields |-> IF f = "schedule_relationship" THEN rel ELSE
                               IF f = "start_date" THEN "today" ELSE "r1"]
MCValues == {"r1", "r2", "today", "malformed", "SCHEDULED", "CANCELED"}

Running   == [trip |-> Desc("SCHEDULED"), window |-> "observable", terminusDelay |-> NONE]
Cancelled == [trip |-> Desc("CANCELED"), window |-> "empty", terminusDelay |-> NONE]
Arrived   == [trip |-> Desc("SCHEDULED"), window |-> "observable", terminusDelay |-> 0]
Late      == [trip |-> Desc("SCHEDULED"), window |-> "opaque", terminusDelay |-> 1]
Vehicle   == [trip |-> Desc("SCHEDULED"), stamped |-> TRUE]

JourneyTu == {Running, Cancelled, Arrived}
JourneyVp == {Vehicle}
AllKnown  == {Trips}
NoDirections == [t \in Trips |-> NONE]
=============================================================================
