------------------------------ MODULE LiveFeed ------------------------------
(***************************************************************************)
(* The live stream from the store to the pages: state/eventhub.py wakes    *)
(* the streams, _event_source in api/app.py turns what the store shows     *)
(* into a snapshot and deltas, api/limits.py counts the connections, and   *)
(* useLiveFeed.ts puts the picture together again.                         *)
(*                                                                         *)
(* A picture is the list of trains _current_state() computes: per trip     *)
(* what it shows of it, NONE when the trip is not in the list.  It changes *)
(* when a cycle is ingested and, less, as the clock runs on.  A stream is  *)
(* one request being served; the page that made it may be gone already,    *)
(* and have made another, before the server notices.                       *)
(***************************************************************************)
EXTENDS Naturals, Sequences, FiniteSets, Domain

CONSTANTS
  Looks,       \* what may be shown of a train
  Pages,       \* browser pages, each with one EventSource
  Streams,     \* room for every stream the caps admit; one is used again when it is over
  Address,     \* page -> client IP
  MaxGlobal,   \* MAX_GLOBAL_SSE_CONNECTIONS
  MaxPerIp,    \* MAX_PER_IP_SSE_CONNECTIONS
  Window       \* events the network holds before a send waits

ASSUME FeedAssumption ==
  /\ NONE \notin Looks
  /\ NONE \notin Streams \cup Pages
  /\ MaxGlobal \in Nat
  /\ MaxPerIp \in Nat
  /\ Window \in Nat \ {0}
  /\ IsFiniteSet(Streams)
  /\ Cardinality(Streams) >= MaxGlobal

Pictures == [Trips -> Looks \cup {NONE}]
Nothing == [t \in Trips |-> NONE]
Addresses == {Address[p] : p \in Pages}

VARIABLES
  picture,       \* what _current_state() would compute now
  unpublished,   \* the picture moved since the hub last published
  phase,         \* stream -> where its generator is
  owner,         \* stream -> the page that asked for it
  queue,         \* stream -> wake-ups in its hub queue
  subscribed,    \* the hub's _subscribers
  sent,          \* stream -> the picture its generator last sent
  wire,          \* stream -> events sent and not yet received
  globalCount,   \* ConnectionTracker._global_count
  perIp,         \* ConnectionTracker._per_ip
  link,          \* page -> what it shows of its connection
  current,       \* page -> the stream its EventSource reads
  view           \* page -> trainsRef.current

hub == <<queue, subscribed>>
slots == <<globalCount, perIp>>
page == <<link, current, view>>
feedVars == <<picture, unpublished, phase, owner, hub, sent, wire, slots, page>>

FeedInit ==
  /\ picture = Nothing
  /\ unpublished = FALSE
  /\ phase = [s \in Streams |-> "none"]
  /\ owner = [s \in Streams |-> NONE]
  /\ queue = [s \in Streams |-> 0]
  /\ subscribed = {}
  /\ sent = [s \in Streams |-> Nothing]
  /\ wire = [s \in Streams |-> <<>>]
  /\ globalCount = 0
  /\ perIp = [a \in Addresses |-> 0]
  /\ link = [p \in Pages |-> "connecting"]
  /\ current = [p \in Pages |-> NONE]
  /\ view = [p \in Pages |-> Nothing]

-----------------------------------------------------------------------------
(* Events.  `changed` holds NONE where a trip is not mentioned.            *)

Snapshot(pic) == [full |-> TRUE, changed |-> pic, removed |-> {}]

\* Mutant: trains that left the list are not reported.
DiffWithoutRemoved(previous, pic) ==
  [full    |-> FALSE,
   changed |-> [t \in Trips |-> IF pic[t] # previous[t] THEN pic[t] ELSE NONE],
   removed |-> {}]

Diff(previous, pic) ==
  [full    |-> FALSE,
   changed |-> [t \in Trips |-> IF pic[t] # previous[t] THEN pic[t] ELSE NONE],
   removed |-> {t \in Trips : previous[t] # NONE /\ pic[t] = NONE}]

Empty(event) == ~event.full /\ event.changed = Nothing /\ event.removed = {}

\* Mutant: the page patches a picture it starts from nothing.
ApplyAfresh(shown, event) == event.changed

Apply(shown, event) ==
  IF event.full THEN event.changed
  ELSE [t \in Trips |-> IF t \in event.removed THEN NONE
                        ELSE IF event.changed[t] # NONE THEN event.changed[t] ELSE shown[t]]

\* What a page shows after each of the first n of the events under way.
Replay(shown, events) ==
  LET after[n \in 0 .. Len(events)] ==
        IF n = 0 THEN shown ELSE Apply(after[n - 1], events[n])
  IN after

-----------------------------------------------------------------------------
(* The poller: the picture moves, and the hub publishes once per cycle.    *)

Change ==
  /\ picture' \in Pictures \ {picture}
  /\ unpublished' = TRUE
  /\ UNCHANGED <<phase, owner, hub, sent, wire, slots, page>>

\* Mutant: only the streams that wait for it are woken.
PublishToWaiting ==
  /\ queue' = [s \in Streams |-> IF phase[s] = "waiting" THEN 1 ELSE queue[s]]
  /\ unpublished' = FALSE
  /\ UNCHANGED <<picture, phase, owner, subscribed, sent, wire, slots, page>>

\* Queues hold one wake-up; a full queue drops the tick.
Publish ==
  /\ queue' = [s \in Streams |-> IF s \in subscribed THEN 1 ELSE queue[s]]
  /\ unpublished' = FALSE
  /\ UNCHANGED <<picture, phase, owner, subscribed, sent, wire, slots, page>>

-----------------------------------------------------------------------------
(* stream() and its generator.                                             *)

Full(a) == globalCount >= MaxGlobal \/ perIp[a] >= MaxPerIp

\* The page's EventSource asks for a stream and gets a slot.
Connect(p) ==
  /\ link[p] \in {"connecting", "reconnecting"}
  /\ current[p] = NONE
  /\ ~Full(Address[p])
  /\ \E s \in Streams :
       /\ phase[s] = "none"
       /\ phase' = [phase EXCEPT ![s] = "accepted"]
       /\ owner' = [owner EXCEPT ![s] = p]
       /\ current' = [current EXCEPT ![p] = s]
  /\ globalCount' = globalCount + 1
  /\ perIp' = [perIp EXCEPT ![Address[p]] = @ + 1]
  /\ UNCHANGED <<picture, unpublished, hub, sent, wire, link, view>>

\* Over a cap the answer is 503: the page shows that it is reconnecting, but
\* an EventSource gives up for good on an answer other than 200.
Reject(p) ==
  /\ link[p] \in {"connecting", "reconnecting"}
  /\ current[p] = NONE
  /\ Full(Address[p])
  /\ link' = [link EXCEPT ![p] = "failed"]
  /\ UNCHANGED <<picture, unpublished, phase, owner, hub, sent, wire, slots, current, view>>

Attached(s) == owner[s] # NONE /\ current[owner[s]] = s

\* The generator runs to its first yield: subscribe, then the snapshot.
Start(s) ==
  /\ phase[s] = "accepted"
  /\ phase' = [phase EXCEPT ![s] = "yielded"]
  /\ subscribed' = subscribed \cup {s}
  /\ queue' = [queue EXCEPT ![s] = 0]
  /\ sent' = [sent EXCEPT ![s] = picture]
  /\ wire' = [wire EXCEPT ![s] = <<Snapshot(picture)>>]
  /\ link' = IF Attached(s) THEN [link EXCEPT ![owner[s]] = "live"] ELSE link
  /\ UNCHANGED <<picture, unpublished, owner, slots, current, view>>

\* The network took the chunk and the page is still there: wait for a wake-up.
Await(s) ==
  /\ phase[s] = "yielded"
  /\ Attached(s)
  /\ Len(wire[s]) < Window
  /\ phase' = [phase EXCEPT ![s] = "waiting"]
  /\ UNCHANGED <<picture, unpublished, owner, hub, sent, wire, slots, page>>

\* Woken, the generator computes the picture afresh and sends what changed;
\* with nothing to send it waits again.
Wake(s) ==
  LET delta == Diff(sent[s], picture) IN
  /\ phase[s] = "waiting"
  /\ queue[s] > 0
  /\ queue' = [queue EXCEPT ![s] = @ - 1]
  /\ IF Empty(delta) THEN UNCHANGED <<phase, sent, wire>>
     ELSE /\ phase' = [phase EXCEPT ![s] = "yielded"]
          /\ wire' = [wire EXCEPT ![s] = Append(@, delta)]
          /\ sent' = [sent EXCEPT ![s] = picture]
  /\ UNCHANGED <<picture, unpublished, owner, subscribed, slots, page>>

\* No wake-up in time: a comment the page ignores.
Heartbeat(s) ==
  /\ phase[s] = "waiting"
  /\ queue[s] = 0
  /\ phase' = [phase EXCEPT ![s] = "yielded"]
  /\ UNCHANGED <<picture, unpublished, owner, hub, sent, wire, slots, page>>

\* Mutant: the last stream of an address takes the others' slots with it.
ReleaseAll(a) ==
  /\ globalCount' = IF globalCount > 0 THEN globalCount - 1 ELSE 0
  /\ perIp' = [perIp EXCEPT ![a] = 0]

Release(a) ==
  /\ globalCount' = IF globalCount > 0 THEN globalCount - 1 ELSE 0
  /\ perIp' = [perIp EXCEPT ![a] = IF @ > 1 THEN @ - 1 ELSE 0]

\* Mutant: the hub keeps the queue of a generator that ended.
UnsubscribeNever(s) == UNCHANGED hub

Unsubscribe(s) ==
  /\ subscribed' = subscribed \ {s}
  /\ queue' = [queue EXCEPT ![s] = 0]

\* Mutant: a page that is gone is noticed only by a stream that was woken.
NoticedWhenWoken(s) == phase[s] = "waiting" /\ queue[s] > 0 /\ ~Attached(s)

\* A generator that runs learns it where it waits: cancelled at its queue or at
\* the yield of an event being sent, or told by is_disconnected() between them.
Noticed(s) == phase[s] \in {"yielded", "waiting"} /\ ~Attached(s)

\* The page is gone: the generators have only their finally blocks left to run.
End(s) ==
  /\ Noticed(s)
  /\ phase' = [phase EXCEPT ![s] = "ending"]
  /\ sent' = [sent EXCEPT ![s] = Nothing]
  /\ wire' = [wire EXCEPT ![s] = <<>>]
  /\ UNCHANGED <<picture, unpublished, owner, hub, slots, page>>

\* The page is gone before the head of the answer is out: bound_source() is
\* never entered, and no finally block gives the slot back.
Abandon(s) ==
  /\ phase[s] = "accepted"
  /\ ~Attached(s)
  /\ phase' = [phase EXCEPT ![s] = "lost"]
  /\ UNCHANGED <<picture, unpublished, owner, hub, sent, wire, slots, page>>

Over(s) ==
  /\ phase' = [phase EXCEPT ![s] = "none"]
  /\ owner' = [owner EXCEPT ![s] = NONE]

\* The finally of _event_source().  It runs first when the generator ended at
\* its queue, and last when the outer one was dropped at a yield.
InnerFinally(s) ==
  /\ phase[s] \in {"ending", "released"}
  /\ s \in subscribed
  /\ Unsubscribe(s)
  /\ IF phase[s] = "released" THEN Over(s) ELSE UNCHANGED <<phase, owner>>
  /\ UNCHANGED <<picture, unpublished, sent, wire, slots, page>>

\* The finally of bound_source().
OuterFinally(s) ==
  /\ phase[s] = "ending"
  /\ Release(Address[owner[s]])
  /\ IF s \in subscribed THEN phase' = [phase EXCEPT ![s] = "released"] /\ owner' = owner
                         ELSE Over(s)
  /\ UNCHANGED <<picture, unpublished, hub, sent, wire, page>>

-----------------------------------------------------------------------------
(* The page.                                                               *)

\* The next event arrives; the picture is replaced or patched.
Deliver(p) ==
  LET s == current[p] IN
  /\ s # NONE
  /\ wire[s] # <<>>
  /\ view' = [view EXCEPT ![p] = Apply(@, Head(wire[s]))]
  /\ wire' = [wire EXCEPT ![s] = Tail(@)]
  /\ UNCHANGED <<picture, unpublished, phase, owner, hub, sent, slots, link, current>>

\* The connection breaks; the page keeps its picture and asks again.
Break(p) ==
  /\ current[p] # NONE
  /\ current' = [current EXCEPT ![p] = NONE]
  /\ link' = [link EXCEPT ![p] = "reconnecting"]
  /\ UNCHANGED <<picture, unpublished, phase, owner, hub, sent, wire, slots, view>>

\* The server process is restarted and forgets its streams and its store.
Restart ==
  /\ picture' = Nothing
  /\ unpublished' = FALSE
  /\ phase' = [s \in Streams |-> "none"]
  /\ owner' = [s \in Streams |-> NONE]
  /\ queue' = [s \in Streams |-> 0]
  /\ subscribed' = {}
  /\ sent' = [s \in Streams |-> Nothing]
  /\ wire' = [s \in Streams |-> <<>>]
  /\ globalCount' = 0
  /\ perIp' = [a \in Addresses |-> 0]
  /\ link' = [p \in Pages |-> IF current[p] # NONE THEN "reconnecting" ELSE link[p]]
  /\ current' = [p \in Pages |-> NONE]
  /\ UNCHANGED view

Serve(s) ==
  \/ Start(s) \/ Await(s) \/ Wake(s) \/ Heartbeat(s)
  \/ End(s) \/ Abandon(s) \/ InnerFinally(s) \/ OuterFinally(s)

Browse(p) == Connect(p) \/ Reject(p) \/ Deliver(p) \/ Break(p)

FeedNext ==
  \/ Change \/ Publish \/ Restart
  \/ \E s \in Streams : Serve(s)
  \/ \E p \in Pages : Browse(p)

FeedSpec == FeedInit /\ [][FeedNext]_feedVars

\* The poll loop goes on publishing, the event loop runs every generator, the
\* network delivers, and a page whose stream broke asks for another.
Fairness ==
  /\ WF_feedVars(Publish)
  /\ \A s \in Streams :
       /\ WF_feedVars(Start(s))
       /\ WF_feedVars(Await(s))
       /\ WF_feedVars(Wake(s))
       /\ WF_feedVars(End(s))
       /\ WF_feedVars(InnerFinally(s))
       /\ WF_feedVars(OuterFinally(s))
  /\ \A p \in Pages : WF_feedVars(Deliver(p)) /\ WF_feedVars(Connect(p) \/ Reject(p))

FairFeedSpec == FeedSpec /\ Fairness

-----------------------------------------------------------------------------
(* Correctness.                                                            *)

Phases == {"none", "accepted", "yielded", "waiting", "ending", "released", "lost"}
Links == {"connecting", "live", "reconnecting", "failed"}
Event == [full : BOOLEAN, changed : Pictures, removed : SUBSET Trips]

FeedTypeOK ==
  /\ picture \in Pictures
  /\ unpublished \in BOOLEAN
  /\ phase \in [Streams -> Phases]
  /\ owner \in [Streams -> Pages \cup {NONE}]
  /\ queue \in [Streams -> {0, 1}]
  /\ subscribed \subseteq Streams
  /\ sent \in [Streams -> Pictures]
  /\ wire \in [Streams -> Seq(Event)]
  /\ globalCount \in Nat
  /\ perIp \in [Addresses -> Nat]
  /\ link \in [Pages -> Links]
  /\ current \in [Pages -> Streams \cup {NONE}]
  /\ view \in [Pages -> Pictures]

Serving(s) == phase[s] \in {"yielded", "waiting"}

\* The server's record of what a page knows is right: once everything under
\* way has arrived, the page shows exactly the picture its stream last sent
\* (_event_source's `sent` against useLiveFeed's trainsRef).
MirrorInStep ==
  \A s \in Streams : Serving(s) /\ Attached(s) =>
    Replay(view[owner[s]], wire[s])[Len(wire[s])] = sent[s]

\* No publication is lost: a stream that waits with no wake-up queued has sent
\* the picture, unless the picture moved after the last publication.
NoLostWakeup ==
  \A s \in Streams :
    phase[s] = "waiting" /\ queue[s] = 0 /\ ~unpublished => sent[s] = picture

\* A stream has its slot from acquire() to the finally of bound_source(), or for
\* good when that is never entered.
Holding(s) == phase[s] \notin {"none", "released"}
StreamsOf(a) == {s \in Streams : Holding(s) /\ Address[owner[s]] = a}

\* Every slot counted is a stream that took it and has not given it back, in
\* whatever order the finally blocks run, and neither cap is ever exceeded.
SlotsAreStreams ==
  /\ globalCount = Cardinality({s \in Streams : Holding(s)})
  /\ \A a \in Addresses : perIp[a] = Cardinality(StreamsOf(a)) /\ perIp[a] <= MaxPerIp
  /\ globalCount <= MaxGlobal

\* The hub publishes to every generator that runs, and keeps a queue for no
\* stream but those and the ones whose finally is still to come: no queue
\* outlives its stream, or is there before it.
SubscribersAreServed ==
  /\ \A s \in Streams : Serving(s) => s \in subscribed
  /\ \A s \in subscribed : Serving(s) \/ phase[s] \in {"ending", "released"}

\* Snapshot and deltas together are a stream of whole pictures.
UnderWay(p) ==
  IF current[p] = NONE THEN <<>>
  ELSE LET events == wire[current[p]]
       IN [n \in 1 .. Len(events) |-> Replay(view[p], events)[n]]

Feed == INSTANCE PictureFeed WITH pending <- [p \in Pages |-> UnderWay(p)]

StreamOfPictures == Feed!Spec

\* When the picture and a page's stream both hold, the page comes to show it.
PageCatchesUp ==
  \A p \in Pages, s \in Streams, pic \in Pictures :
    <>[](picture = pic /\ current[p] = s) => <>[](view[p] = pic)

\* The slot of a page that is gone comes back and so does its queue, unless the
\* page went before its stream's generator was entered.
GoneIsReleased ==
  \A s \in Streams :
    phase[s] \notin {"none", "lost"} /\ ~Attached(s) ~> phase[s] \in {"none", "lost"}

=============================================================================
