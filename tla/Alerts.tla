------------------------------- MODULE Alerts -------------------------------
(* state/alerts.py and ai/briefing_filter.py.  An alert is a record of its *)
(* periods (a set) and informed entities (a sequence); a field the feed    *)
(* leaves out is NoRoute, NoStop or Unbounded.                             *)
EXTENDS Integers, Functions

NoRoute == "-"
Unbounded == -1

\* No period at all: always active.
IsActive(alert, at) ==
  alert.periods = {} \/ \E p \in alert.periods :
    /\ p.start = Unbounded \/ p.start <= at
    /\ p.end = Unbounded \/ at <= p.end

\* An absent field, of the entity or of the question, filters nothing.
Matches(entity, route) == entity.route = NoRoute \/ route = NoRoute \/ entity.route = route

AlertsMatching(alerts, at, route) ==
  {a \in alerts : IsActive(a, at) /\ (a.entities = <<>> \/ \E e \in Range(a.entities) : Matches(e, route))}

\* A briefing needs an active alert that names a route.
HasBriefable(alerts, at) ==
  \E a \in alerts : IsActive(a, at) /\ \E e \in Range(a.entities) : e.route # NoRoute
=============================================================================
