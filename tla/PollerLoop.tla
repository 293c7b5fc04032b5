----------------------------- MODULE PollerLoop -----------------------------
(***************************************************************************)
(* poller/loop.py and the loop of poller/__main__.py: one process that     *)
(* fetches the three feeds in turn, keeps what each feed last decoded to,  *)
(* drives the breaker and then the state store, and sleeps in slices so    *)
(* that a stop signal ends it.  Beside it in the process runs the API      *)
(* server, of which only its open streams matter here: the process exits   *)
(* when both tasks have returned.  Everything but the rows of the event    *)
(* logs lives in memory: a restart begins with a new loop, breaker and     *)
(* store.                                                                  *)
(***************************************************************************)
EXTENDS StateStore, CircuitBreaker

CONSTANTS
  TuPayloads, VpPayloads, SaPayloads,  \* decoded responses: [ts, entity]
  Counts,      \* `remaining` counts a response may carry
  Waits,       \* breaker level -> seconds from one cycle to the next
  Pages,       \* bound: how many pages hold a stream at once
  Restarts     \* bound: how many times the process is restarted

Payload(Entity) == [ts : Nat \cup {NONE}, entity : Entity]

ASSUME LoopAssumption ==
  /\ TuPayloads \subseteq Payload([Trips -> TuEntities \cup {NONE}])
  /\ VpPayloads \subseteq Payload([Trips -> VpEntities \cup {NONE}])
  /\ SaPayloads \subseteq Payload(SaFeeds)
  /\ NONE \notin TuPayloads
  /\ NONE \notin VpPayloads
  /\ NONE \notin SaPayloads
  /\ Counts \subseteq Nat
  /\ Waits \in [0 .. TopLevel -> SUBSET Steps]
  /\ Starts = 0 .. MaxTime
  /\ Pages \in Nat
  /\ Restarts \in Nat

TU == "trip-updates"
VP == "vehicle-positions"
SA == "service-alerts"
Feeds == <<TU, VP, SA>>      \* ALL_FEEDS
FeedNames == {TU, VP, SA}

VARIABLES
  phase,        \* the await the loop is at
  cycleStart,   \* cycle time of the last cycle begun: real time, so no
                \* restart sets it back
  fetched,      \* how many feeds that cycle is done with
  ok,           \* whether all of its fetches succeeded so far
  remaining,    \* lowest_remaining
  headerTs,     \* _FeedCache.last_header_ts
  decoded,      \* _FeedCache.last_decoded
  changedAt,    \* _FeedCache.last_changed_at
  breaker,      \* the CircuitBreaker
  gaps,         \* the poll_gap_events rows
  stopping,     \* PollerLoop._stop, and the server's should_exit
  streams,      \* how many streams of pages the API server has open
  restarts      \* how often the process was restarted

cycle == <<cycleStart, fetched, ok, remaining>>
cache == <<headerTs, decoded, changedAt>>
process == <<phase, stopping, streams, restarts>>
loopVars == <<process, cycle, cache, breaker, gaps>>
allVars == <<loopVars, vars>>

LoopInit ==
  /\ phase = "asleep"
  /\ cycleStart = 0
  /\ fetched = 0
  /\ ok = TRUE
  /\ remaining = NONE
  /\ headerTs = [f \in FeedNames |-> NONE]
  /\ decoded = [f \in FeedNames |-> NONE]
  /\ changedAt = [f \in FeedNames |-> NONE]
  /\ breaker = Closed
  /\ gaps = <<>>
  /\ stopping = FALSE
  /\ streams = 0
  /\ restarts = 0
  /\ Init

Payloads(feed) == CASE feed = TU -> TuPayloads
                    [] feed = VP -> VpPayloads
                    [] feed = SA -> SaPayloads

-----------------------------------------------------------------------------
(* run_cycle.                                                              *)

\* The sleep is over: the next cycle begins unless the stop flag is set.
BeginCycle ==
  /\ phase = "asleep"
  /\ ~stopping
  /\ \E wait \in Waits[breaker.level] : cycleStart' = cycleStart + wait
  /\ cycleStart' <= MaxTime
  /\ phase' = "fetching"
  /\ fetched' = 0
  /\ ok' = TRUE
  /\ remaining' = NONE
  /\ UNCHANGED <<cache, breaker, gaps, stopping, streams, restarts, vars>>

Fetching == phase = "fetching" /\ fetched < Len(Feeds)
Feed == Feeds[fetched + 1]

LowestOf(count) ==
  IF count = NONE THEN remaining
  ELSE IF remaining = NONE THEN count ELSE Lower(remaining, count)

\* A rejected key aborts the cycle.
AuthRejected ==
  /\ Fetching
  /\ fetched' = Len(Feeds)
  /\ ok' = FALSE
  /\ UNCHANGED <<process, cycleStart, remaining, cache, breaker, gaps, vars>>

\* An HTTP or transport error skips the feed.
RequestFailed ==
  /\ Fetching
  /\ fetched' = fetched + 1
  /\ ok' = FALSE
  /\ UNCHANGED <<process, cycleStart, remaining, cache, breaker, gaps, vars>>

\* A payload that does not decode still counts for the rate limit.
DecodeFailed ==
  /\ Fetching
  /\ fetched' = fetched + 1
  /\ ok' = FALSE
  /\ \E count \in Counts \cup {NONE} : remaining' = LowestOf(count)
  /\ UNCHANGED <<process, cycleStart, cache, breaker, gaps, vars>>

Unchanged(payload) == payload.ts # NONE /\ headerTs[Feed] = payload.ts

\* Anything but a repeat of the cached timestamp replaces what is cached.
Fetched ==
  /\ Fetching
  /\ fetched' = fetched + 1
  /\ \E count \in Counts \cup {NONE} : remaining' = LowestOf(count)
  /\ \E payload \in Payloads(Feed) :
       IF Unchanged(payload) THEN UNCHANGED cache
       ELSE /\ headerTs' = IF payload.ts = NONE THEN headerTs
                           ELSE [headerTs EXCEPT ![Feed] = payload.ts]
            /\ decoded' = [decoded EXCEPT ![Feed] = payload]
            /\ changedAt' = [changedAt EXCEPT ![Feed] = cycleStart]
  /\ UNCHANGED <<process, cycleStart, ok, breaker, gaps, vars>>

\* The dict ingest() is handed: {} for a feed that never decoded.
FeedDict(feed) ==
  IF decoded[feed] = NONE THEN EmptyFeed
  ELSE [stamped |-> decoded[feed].ts # NONE, entity |-> decoded[feed].entity]

Alerts == IF decoded[SA] = NONE THEN NONE ELSE decoded[SA].entity

\* Mutant: the breaker's state is read before this cycle is recorded.
TellStoreStale(backoff) ==
  IF \E f \in FeedNames : decoded[f] # NONE
    THEN \E known \in Lookups, stopOf \in StopsNow :
           /\ Ingest(FeedDict(TU), FeedDict(VP), Alerts, cycleStart,
                     BackoffActive(breaker), known, stopOf)
           /\ UNCHANGED flushed
    ELSE UNCHANGED vars

\* Nothing is ingested before a first feed has decoded; from then on every
\* cycle ingests what is cached.
TellStore(backoff) ==
  IF \E f \in FeedNames : decoded[f] # NONE
    THEN \E known \in Lookups, stopOf \in StopsNow :
           /\ Ingest(FeedDict(TU), FeedDict(VP), Alerts, cycleStart, backoff, known, stopOf)
           /\ UNCHANGED flushed
    ELSE UNCHANGED vars

\* After the last feed, with no await in between: the breaker, then the store.
FinishCycle ==
  /\ phase = "fetching"
  /\ fetched = Len(Feeds)
  /\ phase' = IF ok THEN "pinging" ELSE "asleep"
  /\ breaker' = IF ok THEN RecordSuccess(breaker, cycleStart, remaining)
                      ELSE RecordFailure(breaker, cycleStart)
  /\ gaps' = IF ok THEN gaps \o GapsClosed(breaker, cycleStart, remaining) ELSE gaps
  /\ TellStore(BackoffActive(breaker'))
  /\ UNCHANGED <<cycle, cache, stopping, streams, restarts>>

\* The dead-man ping never fails the cycle.
Ping ==
  /\ phase = "pinging"
  /\ phase' = "asleep"
  /\ UNCHANGED <<cycle, cache, breaker, gaps, stopping, streams, restarts, vars>>

-----------------------------------------------------------------------------
(* The process around it.                                                  *)

\* The handler sets the loop's flag and the server's: no page can connect
\* any more, those connected stay.
StopSignal ==
  /\ phase # "exited"
  /\ ~stopping
  /\ stopping' = TRUE
  /\ UNCHANGED <<phase, streams, restarts, cycle, cache, breaker, gaps, vars>>

\* A page opens a stream, or leaves.
OpenStream ==
  /\ phase # "exited"
  /\ ~stopping
  /\ streams < Pages
  /\ streams' = streams + 1
  /\ UNCHANGED <<phase, stopping, restarts, cycle, cache, breaker, gaps, vars>>

CloseStream ==
  /\ streams > 0
  /\ streams' = streams - 1
  /\ UNCHANGED <<phase, stopping, restarts, cycle, cache, breaker, gaps, vars>>

\* Mutant: the backoff sleep ignores the flag.
ReturnUnlessBackingOff ==
  /\ phase = "asleep"
  /\ stopping
  /\ ~BackoffActive(breaker)
  /\ phase' = "returned"
  /\ UNCHANGED <<stopping, streams, restarts, cycle, cache, breaker, gaps, vars>>

\* The flag cuts the sleep short and the poll loop returns.
Return ==
  /\ phase = "asleep"
  /\ stopping
  /\ phase' = "returned"
  /\ UNCHANGED <<stopping, streams, restarts, cycle, cache, breaker, gaps, vars>>

\* The server's graceful shutdown, which has no timeout, waits for the open
\* streams; then gather() and main() return, with nothing flushed.
Exit ==
  /\ phase = "returned"
  /\ streams = 0
  /\ phase' = "exited"
  /\ UNCHANGED <<stopping, streams, restarts, cycle, cache, breaker, gaps, vars>>

\* Killed, crashed or exited, the process is started again: only the rows of
\* the event logs and the time remain.
Restart ==
  /\ restarts < Restarts
  /\ restarts' = restarts + 1
  /\ phase' = "asleep"
  /\ fetched' = 0
  /\ ok' = TRUE
  /\ remaining' = NONE
  /\ headerTs' = [f \in FeedNames |-> NONE]
  /\ decoded' = [f \in FeedNames |-> NONE]
  /\ changedAt' = [f \in FeedNames |-> NONE]
  /\ breaker' = Closed
  /\ stopping' = FALSE
  /\ streams' = 0
  /\ Forget
  /\ UNCHANGED <<cycleStart, gaps>>

FetchStep == AuthRejected \/ RequestFailed \/ DecodeFailed \/ Fetched

Work == FetchStep \/ FinishCycle \/ Ping \/ Return \/ Exit

LoopNext == BeginCycle \/ Work \/ StopSignal \/ OpenStream \/ CloseStream \/ Restart

LoopSpec == LoopInit /\ [][LoopNext]_allVars

\* Requests time out and the sleep is sliced, so the loop never hangs.  A page
\* may keep its stream for as long as it likes.
FairLoopSpec == LoopSpec /\ WF_allVars(Work)

-----------------------------------------------------------------------------
(* Correctness.                                                            *)

LoopTypeOK ==
  /\ phase \in {"asleep", "fetching", "pinging", "returned", "exited"}
  /\ cycleStart \in Nat
  /\ fetched \in 0 .. Len(Feeds)
  /\ ok \in BOOLEAN
  /\ remaining \in Nat \cup {NONE}
  /\ headerTs \in [FeedNames -> Nat \cup {NONE}]
  /\ DOMAIN decoded = FeedNames
  /\ \A f \in FeedNames : decoded[f] \in Payloads(f) \cup {NONE}
  /\ changedAt \in [FeedNames -> Nat \cup {NONE}]
  /\ breaker \in Breaker
  /\ gaps \in Seq(Gap)
  /\ stopping \in BOOLEAN
  /\ streams \in 0 .. Pages
  /\ restarts \in Nat
  /\ TypeOK

\* Every row of poll_gap_events is an outage of its own: it ends after it
\* began, before the next begins, and before the episode that is still open.
GapsAreSeparateOutages ==
  /\ \A i \in 1 .. Len(gaps) : gaps[i].startedAt < gaps[i].endedAt
  /\ \A i \in 1 .. Len(gaps) - 1 : gaps[i].endedAt < gaps[i + 1].startedAt
  /\ Len(gaps) > 0 /\ BackoffActive(breaker) =>
       gaps[Len(gaps)].endedAt < breaker.startedAt

\* The log of outages explains the lifecycle's marks: a train whose gap
\* overlapped a backoff has an outage, closed or open, after its last position.
OverlapIsExplained ==
  \A t \in Trips : EverSeen(t) /\ train(t).backoffOverlapped =>
    \/ BackoffActive(breaker)
    \/ \E i \in 1 .. Len(gaps) : gaps[i].endedAt > train(t).lastSeenAt

\* While a backoff lasts, every train that is not live is marked.
BackoffMarksTheAbsent ==
  BackoffActive(breaker) /\ phase = "asleep" =>
    \A t \in Trips : EverSeen(t) /\ train(t).status # "live" => train(t).backoffOverlapped

\* A cycle that leaves the breaker backing off turns no visible train into a
\* ghost (the frozen clock of ghost.py).
BackoffGhostsNoTrain ==
  [][ BackoffActive(breaker') =>
        \A t \in Trips : IsVisible(lifecycle[t]) => ~IsGhost(lifecycle'[t]) ]_allVars

\* ghost.py says that no train's coasting clock advances while a backoff is
\* active, so that a live train cannot age into a ghost during one.
NoTrainAgesDuringBackoff ==
  [][ BackoffActive(breaker) =>
        \A t \in Trips : Tracked(t) /\ train(t).status = "live" => ~IsGhost(lifecycle'[t]) ]_allVars

\* The loop calls the store as StateStore assumes it is called, so what is
\* shown of the store holds in the running process, between restarts.
StoreContract == Init /\ [][Next \/ Forget]_vars

\* A signal ends the poll loop, wherever in a cycle or in a backoff's sleep it
\* comes, unless the process is killed first (_interruptible_sleep).
StopLeadsToReturn == stopping ~> (phase \in {"returned", "exited"} \/ ~stopping)
=============================================================================
