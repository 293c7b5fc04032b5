---------------------------- MODULE HistoryStore ----------------------------
(***************************************************************************)
(* history/store.py: one SQLite file per service date, written by the      *)
(* polling process alone, which opens the file of its cycle's date and     *)
(* records rows in it until a later cycle rolls over.                      *)
(*                                                                         *)
(* A service date has two instants: the CLOSE_BUFFER after its 3am         *)
(* boundary, and the rest of it, UTC midnight past.  A file is what a      *)
(* reader finds: nothing, no bytes, bytes SQLite refuses, or rows, counted *)
(* per table.                                                              *)
(***************************************************************************)
EXTENDS Integers, FiniteSets, FiniteSetsExt

CONSTANTS
  Tables,        \* the event tables of a partition
  Completions,   \* trip_completion_events
  MaxRows,       \* bound on the rows of a table
  LastDay,       \* bound on the clock
  BusyDays,      \* bound on the dates that record anything
  BusyTables     \* bound on the tables that do

ASSUME StoreAssumption ==
  /\ Completions \in Tables
  /\ MaxRows \in Nat
  /\ LastDay \in Nat

Days == 0 .. LastDay
NoDay == -1
Instants == 0 .. 2 * LastDay + 1

\* The 3am rule, its inverse, and the UTC calendar date.
ServiceDate(n) == n \div 2
Boundary(d) == 2 * d
UtcDate(n) == ((n + 1) \div 2) - 1
\* Mutant: no buffer after the boundary.
IsPastBoundary(d, n) == n >= Boundary(d + 1)

IsPartitionClosed(d, n) == n >= Boundary(d + 1) + 1

NoRows == [t \in Tables |-> 0]
Rows == [Tables -> 0 .. MaxRows]
Whole(rows) == [kind |-> "whole", rows |-> rows]
Missing == [kind |-> "missing", rows |-> NoRows]
Zero == [kind |-> "zero", rows |-> NoRows]
Torn == [kind |-> "torn", rows |-> NoRows]
Files == {Missing, Zero, Torn} \cup {Whole(r) : r \in Rows}

VARIABLES
  now,       \* the clock
  conn,      \* HistoryStore._service_date, NoDay when nothing is open
  cycle,     \* the instant the cycle in hand began at, NoDay between cycles
  live,      \* date -> its file in history_dir
  written    \* date -> every row ever recorded for it

storeVars == <<now, conn, cycle, live, written>>

StoreInit ==
  /\ now = 0
  /\ conn = NoDay
  /\ cycle = NoDay
  /\ live = [d \in Days |-> Missing]
  /\ written = [d \in Days |-> NoRows]

StoreTypeOK ==
  /\ now \in Instants
  /\ conn \in Days \cup {NoDay}
  /\ cycle \in Instants \cup {NoDay}
  /\ live \in [Days -> Files]
  /\ written \in [Days -> Rows]

\* A cycle is over before the buffer past its date's end is.
Tick ==
  /\ now + 1 \in Instants
  /\ cycle # NoDay => now + 1 <= Boundary(conn + 1)
  /\ now' = now + 1
  /\ UNCHANGED <<conn, cycle, live, written>>

\* The head of a cycle: rotate() opens the file of its date, with all its tables.
Opened(file) == IF file.kind = "whole" THEN file ELSE Whole(NoRows)

Rotate ==
  /\ cycle = NoDay
  /\ cycle' = now
  /\ conn' = ServiceDate(now)
  /\ IF conn = ServiceDate(now)
     THEN UNCHANGED live
     ELSE /\ live[ServiceDate(now)].kind # "torn"
          /\ live' = [live EXCEPT ![ServiceDate(now)] = Opened(@)]
  /\ UNCHANGED <<now, written>>

\* A tracker's event: one row of the open partition, committed at once.
AddRow(rows, t) == [rows EXCEPT ![t] = @ + 1]

Record(t) ==
  /\ cycle # NoDay
  /\ conn \in BusyDays /\ t \in BusyTables /\ written[conn][t] < MaxRows
  /\ live' = [live EXCEPT ![conn].rows = AddRow(@, t)]
  /\ written' = [written EXCEPT ![conn] = AddRow(@, t)]
  /\ UNCHANGED <<now, conn, cycle>>

EndCycle ==
  /\ cycle # NoDay
  /\ cycle' = NoDay
  /\ UNCHANGED <<now, conn, live, written>>

\* A stop closes the connection, and so does a crash; the process starts
\* again with the next Rotate.
Stop ==
  /\ conn # NoDay
  /\ conn' = NoDay
  /\ cycle' = NoDay
  /\ UNCHANGED <<now, live, written>>

\* What read_completion_events finds of one date: its rows, or the date among
\* the missing, or an error that ends the call.
ReadDay(d) ==
  CASE live[d].kind = "whole" -> [covered |-> TRUE, rows |-> live[d].rows[Completions]]
    [] live[d].kind \in {"missing", "zero"} -> [covered |-> FALSE, rows |-> 0]
Readable(dates) == \A d \in dates : live[d].kind # "torn"
Covered(dates) == {d \in dates : ReadDay(d).covered}

StoreNext ==
  \/ Tick
  \/ Rotate
  \/ \E t \in Tables : Record(t)
  \/ EndCycle
  \/ Stop
=============================================================================
