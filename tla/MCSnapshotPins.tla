--------------------------- MODULE MCSnapshotPins ---------------------------
EXTENDS SnapshotPins

\* On the old timetable snapshot "b" still joins fairly well, but worse
\* than "a" by just the margin; on the new one only "b" joins, and less than it should.
MCJoinPct ==
  [t \in Timetables |->
    [d \in Digests |-> CASE t = "old" /\ d = "a" -> 99
                         [] t = "new" /\ d = "a" -> 40
                         [] OTHER -> 89]]
=============================================================================
