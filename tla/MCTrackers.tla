----------------------------- MODULE MCTrackers -----------------------------
(* A small instance of StateStore for the delay and headway trackers: two   *)
(* trips of one route and direction, listed by stamped and unstamped Trip   *)
(* Updates or not at all, each dwelling at either of two stops.             *)
EXTENDS StateStore, TLC

Desc(route, rel) == [f \in Fields |-> CASE f = "schedule_relationship" -> rel
                                        [] f = "start_date" -> "today"
                                        [] OTHER -> route]
MCValues == {"r1", "today", "SCHEDULED", "CANCELED"}

Entity(route, rel, window) ==
  [trip |-> Desc(route, rel), window |-> window, terminusDelay |-> NONE]
TrackedTu == {Entity("r1", "SCHEDULED", "observable")}
OneDirection == [t \in Trips |-> "inbound"]
SomeKnown == {Trips}
Sym == Permutations(Trips)
=============================================================================
