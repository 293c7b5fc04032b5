--------------------------- MODULE GhostEpisodes ----------------------------
(***************************************************************************)
(* What the state layer promises the reader of the ghost log, without      *)
(* clocks, feeds or trackers: how a train may move between the states the  *)
(* map shows, and that an episode leaves the ghost state with exactly one  *)
(* line saying how it ended.  Many trains may move in one step.            *)
(***************************************************************************)
EXTENDS Sequences

CONSTANT Trips

VARIABLES
  shown,   \* trip -> what the map shows of it
  closed   \* trip -> reasons of the events the last step wrote for it

Shown == {"untracked", "live", "coasting", "ghost"}
Explained == {"completed", "cancelled", "timed_out"}

Init == /\ shown = [t \in Trips |-> "untracked"]
        /\ closed = [t \in Trips |-> <<>>]

\* Moves that write nothing: no ghost is left, and nothing starts coasting
\* that was not live before.
Quiet(from, to) ==
  \/ from = "untracked" /\ to # "coasting"
  \/ from \in {"live", "coasting"}
  \/ from = "ghost" /\ to = "ghost"

\* Moves that write one event.  A train that would have become a ghost in this
\* very step may instead be explained and dropped.
Closing(from, to, reason) ==
  \/ from = "ghost" /\ to = "live" /\ reason = "reappeared"
  \/ to = "untracked" /\ reason \in Explained

Move(from, to, reasons) ==
  \/ reasons = <<>> /\ Quiet(from, to)
  \/ Len(reasons) = 1 /\ Closing(from, to, reasons[1])

Step == /\ shown' \in [Trips -> Shown]
        /\ \A t \in Trips : Move(shown[t], shown'[t], closed'[t])

\* The end of a run reports every open episode and ends none.
Report == /\ UNCHANGED shown
          /\ closed' = [t \in Trips |->
                          IF shown[t] = "ghost" THEN <<"flushed">> ELSE <<>>]

Spec == Init /\ [][Step \/ Report]_<<shown, closed>>

=============================================================================
