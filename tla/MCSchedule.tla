----------------------------- MODULE MCSchedule -----------------------------
EXTENDS ScheduleService

\* Two stations with platforms and two stops without; "hub" is an interchange.
MCParent == [north |-> NoParent, n1 |-> "north", n2 |-> "north",
             hub |-> NoParent, h1 |-> "hub", h2 |-> "hub", park |-> NoParent, end |-> NoParent]
MCWords == [s \in DOMAIN MCParent |->
              CASE s = "park" -> {"park"} [] s = "end" -> {"north", "end"}
                [] s = "north" -> {"north"} [] s = "hub" -> {"hub", "north"} [] OTHER -> {s}]
MCLines == [main |-> [line |-> {"main"}, bus |-> FALSE], branch |-> [line |-> {"branch"}, bus |-> FALSE],
            bus |-> [line |-> {"main"}, bus |-> TRUE]]

Call(stop, hour) == [stop |-> stop, arr |-> hour, dep |-> hour]
Trip(name, route, service, calls) ==
  [id |-> name, route |-> route, service |-> service, direction |-> 0, calls |-> calls]

Slow(h) == Trip("slow", "main", "all", <<Call("n1", h), Call("park", h + 1), Call("h1", h + 3)>>)
Fast(h) == Trip("fast", "main", "all", <<Call("n2", h), Call("h1", h + 1)>>)
Onward(h) == Trip("onward", "branch", "some", <<Call("h2", h), Call("end", h + 1)>>)
Others ==
  {Trip("other", "main", "all", <<Call("n1", 3), Call("h2", 4), Call("end", 5)>>),
   Trip("other", "bus", "some", <<Call("n1", 2), Call("h1", 4)>>),
   Trip("other", "main", "all", <<[Call("n1", 2) EXCEPT !.dep = Blank], Call("park", 3), Call("h1", 4)>>),
   Trip("other", "branch", "some", <<Call("h2", 6), [Call("end", 7) EXCEPT !.arr = Blank]>>)}

Always(service) == [service |-> service, first |-> 0, last |-> 1, weekdays |-> {0, 1}]
MCSnapshots ==
  {[rules |-> rules, exceptions |-> exceptions, trips |-> <<Slow(s), Fast(f), Onward(o), other>>,
    parent |-> MCParent, words |-> MCWords, lines |-> MCLines] :
     rules \in {{Always("all"), Always("some")}},
     exceptions \in {{}, {[service |-> "some", date |-> 0, type |-> "removed"]},
                    {[service |-> "some", date |-> 1, type |-> "removed"]}},
     s \in 1 .. 2, f \in 1 .. 3, o \in 3 .. 4, other \in Others}

\* Three polls: no trip; trips with a stop still to come; trips at or past one.
Entry2(stop, sequence, arr, dep) ==
  [stop |-> stop, sequence |-> sequence, arr |-> arr, dep |-> dep, delay |-> 1, skipped |-> FALSE]
LiveTrip(relationship, route, near, window) ==
  [relationship |-> relationship, route |-> route, status |-> "live", near |-> near, window |-> window]
Afternoon == [start |-> 2, end |-> 5]
Works == [periods |-> {Afternoon}, entities |-> <<[route |-> "main", stop |-> NoStop]>>]
Cancelled ==
  [periods |-> {}, entities |-> <<[route |-> NoRoute, stop |-> "n1"], [route |-> NoRoute, stop |-> "park"],
                                  [route |-> NoRoute, stop |-> "end"]>>]
MCFeeds ==
  {[trips |-> [slow |-> NoTrip], alerts |-> {}],
   [trips |-> [slow |-> LiveTrip("SCHEDULED", "main", {"park"},
                          <<Entry2("n1", 1, Blank, 2), Entry2("park", 2, 3, 5), Entry2("h1", 3, 6, Blank)>>),
               fast |-> LiveTrip("CANCELED", "main", NoFix, <<>>)],
    alerts |-> {Works, Cancelled}],
   [trips |-> [slow |-> LiveTrip("SCHEDULED", "main", NoFix,
                          <<Entry2("park", 2, 2, 3), Entry2("h1", 3, Blank, Blank), Entry2("end", 4, 5, 7)>>),
               extra |-> LiveTrip("ADDED", "main", {"h1"},
                          <<Entry2("n1", 1, 3, 4), [Entry2("h1", 2, 5, 6) EXCEPT !.skipped = TRUE]>>)],
    alerts |-> {Works}]}

Next2(from, to, line) == [kind |-> "next", from |-> from, to |-> to, line |-> line]
MCQuestions ==
  {[kind |-> "board", station |-> s] : s \in {"north", "hub", "park"}}
    \cup {Next2({"north"}, {"end"}, {}), Next2({"north"}, {"hub"}, {}), Next2({"hub"}, {"end"}, {"branch"})}
    \cup {[kind |-> "card", trip |-> "slow"], [kind |-> "alerts", route |-> "main"],
          [kind |-> "status", line |-> {"main"}]}

MCInterchanges == <<"hub">>
=============================================================================
