# Train tracker: a verification project

TLA+ models of the train tracker's Python service (`src/service/src/traintracker`)
and of the page hook that follows its live stream, model-checked with TLC and,
where a statement should hold for every size, proved with TLAPS.  Paths below are
relative to `src/service/src/traintracker` unless they begin with `src/`.

1. [The system](#1-the-system) - parts, state, operations, hard behaviours
2. [What is modelled](#2-what-is-modelled) - module by module, against the code
3. [Runs](#3-runs) - what each checks, its bounds, its fairness
4. [Proofs](#4-proofs) - theorems, assumptions, arguments
5. [Where the code and its documents differ](#5-where-the-code-and-its-documents-differ)
6. [What is not modelled](#6-what-is-not-modelled)
7. [Plan](#7-plan)

## 1. The system

One process polls three GTFS-Realtime feeds, keeps the state of every train in
memory, writes rows of what happened to SQLite partitions by day, and serves a
REST API and a live stream from the same memory.  A second process of the same
shape follows the regional (V/Line) trains.  Scheduled jobs copy, prune, archive
and summarise the rows, and re-pin the static timetable.

```
 gateway ──HTTP──> PollerLoop ──> CircuitBreaker ──poll_gap rows──┐
                      │ cached feeds, backoff flag                 │
                      v                                            v
                  StateStore.ingest()                        HistoryStore: a file per service date
        merge ─> lifecycle <─mark_resolved─ completion  ──rows──^      ├──> nightly sync and retention ──> backup
               ─> delay observations, headway           ──rows──^      ├──> archive pass ──> public dataset
                      │ latest_snapshots, tracked trains               └──> weekly digest, insights rollups
        EventHub.publish() ─> _event_source ──SSE──> useLiveFeed (page)
                      │
                  REST API <── rate limiter <── requests      static timetable <── pin <── fetch job
                      └── briefing trigger ─> agent ─> budget ─> model         └── join check (repin)
```

| Component | State it keeps | Operations | What is hard | What makes it correct |
|---|---|---|---|---|
| Polling process `poller/loop.py`, `breaker.py`, `__main__.py` | last decoded payload and header time of each feed, backoff level and open outage, stop flag | one cycle: three fetches, breaker, store, ping; sleep; signal; restart | any mix of failed, rejected, undecodable, repeated feeds in one cycle; stale caches re-ingested; signals at any await; memory lost at restart | an outage is one row and rows never overlap; no train ages because *we* were not looking; the store is called only as it expects; a signal ends the poll loop, though not a server with pages on it |
| State store `state/store.py` and its trackers | last poll's snapshots, active discrepancies | `ingest`, `flush` | five trackers on one call, one of which feeds back into another | the map and the snapshots agree; trackers agree about which trips run |
| Lifecycle `state/ghost.py` | per trip status, coasting clock, open episode, remembered resolution | `tick`, `mark_resolved`, `flush` | frozen and running clocks alternate; eviction races resolution, reappearance and timeout | a ghost is a train whose clock ran out; every episode closes with exactly one row |
| Completion `state/completion.py` | pending and finalized trips | `tick`, `flush` | feeds go silent, trips come back, memory is pruned by age | one outcome per run; no trip is waited for that nobody tracks |
| Delay and headway `state/delay_observation.py`, `headway.py` | last observation per trip; dwell per trip, arrivals per group | `tick` | pacing against eviction, dwells over many cycles, bounded queues | no starvation; one arrival per dwell, in time order |
| Live stream `state/eventhub.py`, `api/app.py`, `api/limits.py`, `src/web/src/hooks/useLiveFeed.ts` | a queue of one wake-up per stream; what each stream last sent; connections counted per address; the page's picture | publish, subscribe, snapshot, delta, heartbeat, disconnect, refuse, reconnect | dropped wake-ups, changes during a slow send, disconnects noticed late, deltas against a remembered picture | the page shows pictures the server had, catches up, and slots come back once a stream has begun |
| History, sync, retention `history/` | one SQLite file a service date, a backup tree | rotate, record, nightly copy, delete | three notions of "today"; a crash in the middle of a copy; deletion decided by a file's existence | nothing is deleted that is not whole in the backup |
| Archive `archive/` | published tables, manifest of empty days | nightly pass over closed dates, healing from the backup | a date published in part; a pass that dies; bad local files | what is published is what was recorded, and a closed date is published unless one before it stops the pass |
| Insights and digest `poller/*_trigger.py`, `insights/`, `digests/` | last date finalized, last week fired, rollups, digests | called after each cycle | a crash between the effect and its mark; a post Slack refuses; a sidecar cut short | a marked week is on record with what Slack did, repeats are owed to failures, a finalized date is complete |
| Static timetable, which one `gtfs/fetch.py`, `pinning.py`, `repin.py` | shelf of zips, ETag cache, manifest of pins | fetch, pin, join check, repin | two processes on one manifest and one temporary file; zips and caches cut short; a HEAD and a GET that see different files | a pinned zip is stored, an override is on the record, a bad pin is replaced |
| Static timetable, what it says `gtfs/calendar.py`, `snapshot.py`, `schedule_cache.py`, `next_service.py` | the snapshot pinned for the date | board, next service, names, suspended lines | service dates past midnight; first, last and absent times | the service offered is the soonest; a train stays on the board until it leaves |
| Station state, alerts `state/station.py`, `state/alerts.py`, `ai/tools.py` | none | at, between, progress, stops ahead; alerts of a line | three readings of one window of stops | the readings agree at every instant |
| AI agent `ai/`, rate limiter `api/limits.py` | month's spend; a counter per client and window | trigger, bounded tool loop under a budget, post; check, sweep | a check before the await, a charge after it, perhaps in another month; window boundaries | overshoot and bursts are bounded; every turn ends |

`PROJECT.json` lists the rest (gateway client, geometry, delay model, metrics, pages,
deployment), and under `hazards` each place where one of these can go wrong and the
property that watches it, or why none does.

## 2. What is modelled

| Module | Models | Notes |
|---|---|---|
| `Domain` | | `Trips` and `NONE` |
| `Merge` | `state/merge.py` | one Trip Updates and one Vehicle Positions poll become snapshots and discrepancies; a pure function |
| `TrainLifecycle` | `state/ghost.py` | what the tracker holds for *one* trip is a slot: train, remembered resolution, rows written by the call in progress.  Trains share only the clock, so operators on a slot are the whole tracker |
| `TripCompletion` | `state/completion.py` | likewise, a record per trip |
| `DelayObservation` | `state/delay_observation.py` | the pacing of observations; the features themselves are data |
| `Headway` | `state/headway.py` | dwells and arrivals; the stop a train stands at is an input |
| `StateStore` | `state/store.py` | `Cycle` is the whole of `ingest()`: merge, discrepancy edges, lifecycle, completion and its call back into the lifecycle, delay, headway.  `End` is `flush()`.  `Forget` is a new process |
| `GhostEpisodes` | abstract | which moves a train may make on the map and which row each writes |
| `CircuitBreaker` | `poller/breaker.py` | the ladder as operators on the breaker's record |
| `PollerLoop` | `poller/loop.py`, `poller/__main__.py` | an action per await of the cycle: `BeginCycle`, the four outcomes of a fetch (`AuthRejected`, `RequestFailed`, `DecodeFailed`, `Fetched`), `FinishCycle` (breaker *then* store, no await in between), `Ping`; `StopSignal` and `Return` for the poll loop, `OpenStream`, `CloseStream` and `Exit` for the server it shares `gather()` with, `Restart` |
| `PictureFeed` | abstract | a page shows whole pictures, in order, some skipped |
| `LiveFeed` | the live stream | `Change`/`Publish` for the poller's side, `Start`, `Await`, `Wake`, `Heartbeat` for the generator, `End` when it is told that its page is gone, and then `InnerFinally` (the hub) and `OuterFinally` (the slot) in either order; `Abandon` for a page gone before its stream began; `Connect`, `Reject` for the connection tracker, `Deliver`, `Break` for the page, `Restart` |
| `HistoryStore` | `history/store.py`, `gtfs/gtfstime.py` | the writer: `Rotate` at the head of a cycle opens the file of its service date, `Record` adds a row, `Stop` closes; `ReadDay` is what `read_completion_events` finds of a date |
| `Nightly` | `history/nightly.py`, `sync.py`, `retention.py` | the host's cron job, a step per file: `NightStart` takes `today` and the list of unsynced dates, `BeginCopy`/`EndCopy` part a copy so that it may be cut, `RetainHistory`, `RetainBackup`; `NightCrash`; `Damage` is the disk |
| `Archive` | `archive/run.py`, `upload.py`, `compact.py` | the archive container, concurrent with both: `StartPass` lists the remote once, a date is compacted, restored from its backup (which ends the pass where `/data` is mounted read-only), or given up; `Push` publishes one table, `PushFails` retries or ends the pass, `PassCrash` |
| `PollJobs` | `poller/__main__.py` after ingestion, both triggers, `digests/store.py`, `insights/store.py` | a step per effect and per mark; `Post` with either outcome, which goes into the digest's row; `Die` at any of them or inside one (a sidecar cut short, half a rollup) |
| `SnapshotPins` | `gtfs/fetch.py`, `pinning.py`, `repin.py`, `joinrate.py` | the fetch job and the poller's join check, each reading the one manifest, opening, writing and replacing the one temporary file; zip and ETag cache are opened and written in steps of their own, so that a death leaves either cut short; `Publish` and `Shift` are the portal and the trains |
| `Timetable` | `gtfs/calendar.py`, `snapshot.py`, `schedule.py`, `schedule_cache.py`, `station_lookup.py`, `next_service.py` | operators over one snapshot: active services, names, boards, legs, transfers, suspended lines.  Where the code sorts and takes the first, an operator is a set of places in the file and the least of them, so that it can be reasoned about |
| `Alerts` | `state/alerts.py`, `ai/briefing_filter.py` | active periods and matching |
| `TrainView` | `state/station.py`, parts of `api/app.py`, `ai/tools.py` | the three readings of a stop window, the card of a train, added trains, live overlay, line status |
| `ScheduleService` | the questions of `api/app.py` | a question asked again as the clock runs and the feeds change; composes the three above |
| `RateLimit` | `api/limits.py` | counters, windows and the sweep |
| `Assistant` | `ai/agent.py`, `budget.py`, `weekly_digest.py`, the trigger endpoint, `poller/slack.py` | callers interleaved at their awaits, tools that may raise; composes `RateLimit` and `Alerts` |
| `StateStoreProofs`, `PollerProofs`, `LiveFeedProofs`, `HistoryProofs`, `JobsProofs`, `PinsProofs`, `AssistantProofs`, `ScheduleProofs` | | theorems |
| `MC...` | | feed contents, timetables and constants for TLC |

How the modules compose.  `StateStore` extends the five pure modules and is a
specification of its own, whose environment calls `ingest()` with anything at any
allowed time.  `PollerLoop` extends `StateStore` and `CircuitBreaker`, and makes the
calls; `StoreContract` says, and a theorem shows, that it makes only calls
`StateStore` allows, so what is proved of the store need not be proved again.
`LiveFeed` stands on its own: of the store it needs only that the picture
changes, before, between and after publications.  `HistoryStore` is the writer's
directory; `Archive` extends `Nightly` extends it, three processes over the same two
directories, and `PollJobs` extends it the other way, with the jobs that run between
two cycles of the writer.  `SnapshotPins` says which snapshot a date has, `Timetable`
what is read in one.

### Abstractions of data

* A trip is a model value; a descriptor holds the four fields `merge.py` compares.
  Of a window of stop times a feed entity keeps what a consumer tells apart: is it
  empty, does it give delay features, is there a genuine arrival at the terminus and
  how late.  A payload holds its header time, or none, and an entity per trip.
* Times are natural numbers, one unit being whatever the constants say.  Time within
  a cycle does not pass (the code takes `now` once per cycle).
* The event logs are written and never read back by the store.  Its model
  keeps the rows of the call in progress; `gaps` keeps all rows of the outage log,
  which survive a restart.
* `mark_resolved()` while a train is not tracked remembers a resolution;
  `ResolutionAwaitsVisibleTrain` shows that the store never makes that call.
* In `LiveFeed` the list `_current_state()` returns is a function from trips to what
  is shown of them.  The picture may move at any time, not just when a cycle is
  ingested, since the trains shown depend on the clock too; `unpublished` records that
  it did so after the last publication.  A send is taken by the network while fewer than
  `Window` events are under way; otherwise the generator stays at its `yield`.
* A partition is what a reader finds: nothing, no bytes, bytes SQLite refuses, or a
  count of rows per table.  Rows are only added and each file is copied whole, so a
  count tells two versions of one file apart.
* Of the API task beside the poll loop `PollerLoop` has the number of its open streams, which is
  what keeps the process from ending.
* In `SnapshotPins` a file of pins is whole or not.  What a task has open is followed through
  the other's `replace` (`at`), since an open file goes with its name.  Of what the two write one over the other,
  the result is whole or cut, whichever is longer.
* A service date has two instants, the close buffer after its 3am boundary and the rest
  of it.  That keeps apart the three dates the jobs use: the service date of a cycle, the
  closed date of `is_partition_closed`, the UTC date of retention.  In
  `SnapshotPins` the two instants are parted by the grace period instead.
* `written`, `cut` and `damaged` (history), `repeated` (jobs), `raced` (pins) and `recent`
  (assistant) are history variables: they say what the code does not remember and the
  properties speak of.
* `recent` is the set of the requests accepted within the last window, each with its
  client, its instant and the count it had in either counter; properties and proof
  read it, the limiter does not.
* A static snapshot is a record of the tables the lookups read; a name is the set of
  its words; a geofence is the set of stops whose circle holds a position.
* Costs are whole units and what a model answers is a choice: a text, a request for
  tools, or an error.

## 3. Runs

| Run | Module, cfg | Distinct states | What it shows |
|---|---|---|---|
| `store` | `MCStateStore`, `StateStore1.cfg` | 35 312 | one trip through every mix of schedule, position, cancellation, arrival, backoff, silence and flush; lifecycle and completion agree; the rows implement `GhostEpisodes` |
| `trackers` | `MCTrackers`, `Trackers.cfg` | 17 336 | two trips of one group dwelling at two stops; pacing and headway |
| `loop` | `MCPollerLoop`, `PollerLoop1.cfg` | 224 717 | every outcome of every fetch, backoffs up to the second level, a page that comes and goes, a signal at any point, a restart at any point |
| `feed` | `MCLiveFeed`, `LiveFeed1.cfg` | 155 472 | one page over two streams: safety, refinement of `PictureFeed`, catching up, release of slots |
| `history` | `Archive`, `Pipeline.cfg` | 165 640 | writer, nightly job and archive pass interleaved, as they are deployed, each dying anywhere, one copy cut short or one file damaged |
| `jobs` | `PollJobs`, `Jobs.cfg` | 201 834 | digest and insights after each cycle over a week and a half, with either answer of Slack, and a failure or a death at or inside any step |
| `pins` | `MCSnapshotPins`, `Pins.cfg` | 593 426 | fetch job and join check over one manifest and one temporary file, with a publication, a change of the trains or a death at any step |
| `schedule` | `MCSchedule`, `Schedule.cfg` | 31 104 | five questions over 144 snapshots and three polls as the clock passes midnight and the 3am boundary |
| `assistant` | `MCAssistant`, `Assistant.cfg` | 349 884 | a briefing request and the weekly digest at their awaits, two clients at the limiter, a change of month, restarts |
| `backoff_clock` | `MCPollerLoop`, `BackoffClock.cfg` | | finds a comment of `state/ghost.py` violated, see section 5 |
| `slack` | `PollJobs`, `Slack.cfg` | | finds a docstring of `poller/weekly_digest_trigger.py` violated, see section 5 |
| `heal` | `Archive`, `Heal.cfg` | | finds a docstring of `archive/__main__.py` violated, see section 5 |

### The properties

*Store* (`StateStore`).  `LiveIffPlacedByLastPoll`: the two halves of what the API
joins, lifecycle and snapshots, come from the same poll.  `CoastingClockIsExact`: the
clock is the time since the last position except where a backoff froze it, and
`backoff_overlapped` marks exactly the trains whose clock lost time.
`ResolutionAwaitsVisibleTrain`: the two trackers prune their memories by different
rules, and yet a resolution never outlives the train it is for.  `EpisodeLedger`: the
refinement.  `ObservableTripsAreSampled`, `ArrivalsAreChronological`,
`OneArrivalPerDwell`: the pacing never starves a trip, and a dwell counts once.

*Process* (`PollerLoop`).  `GapsAreSeparateOutages`: rows of the outage log are
disjoint intervals in order, also of an outage still open, across restarts.
`OverlapIsExplained` and `BackoffMarksTheAbsent` tie the breaker's log to the
lifecycle's marks, both ways.  `BackoffGhostsNoTrain`: a cycle that leaves the breaker
open turns no visible train into a ghost.  `LoopTypeOK` includes the store's `TypeOK`.
`StopLeadsToReturn`: a signal ends the poll loop, at whichever await it comes.  It says nothing of
the process, which waits for the server and its streams (section 5).

*Live stream* (`LiveFeed`).  `MirrorInStep`: what the server believes the page knows is
what the page will show once everything under way has arrived.  `NoLostWakeup`: with
queues of one and dropped ticks, a stream at rest has sent the last publication.
`SlotsAreStreams`, `SubscribersAreServed`: counters and hub follow the generators
exactly, whichever await a generator is cancelled at and whichever `finally` runs first.  `StreamOfPictures`: the
refinement.  `PageCatchesUp`, `GoneIsReleased`: liveness; the second excepts a stream whose
page left before it began, whose slot the code never gives back.

*History* (`Nightly`, `Archive`).  `BackupHoldsEveryRow`: a backup that can be read
holds every row ever recorded for its date, though it is copied once and found by name.
`RetentionKeepsACopy`: when retention deletes a live file the backup is complete, unless
a copy of that date was cut short or its disk damaged; the exceptions are real, and are
the hazard at `history/sync.py:39`.  `ArchiveIsFaithful`: what is published is what was
recorded, through retries and partial passes.  `ClosedDayIsArchived`: a closed,
readable date is published in the end, whatever dies, unless retention removes it first or
an earlier date is `Blocked`, which ends every pass before this one is reached.
`HealsFromBackup`, which the `heal` run violates: a damaged date is published from its backup.

*Jobs* (`PollJobs`).  `FinalizedIsWhole`: a date marked final has the rollup of every
completion, although the same rollup is written every five minutes while the date runs.
`FiredIsOnRecord`: a marked week has a row in the digests, and rows that say delivered, or
not, are owed to posts that were: what Slack refused can be told afterwards.  `FiredIsDelivered`,
which the `slack` run violates: a marked week was delivered.  `RepeatsAreExplained`: a week is
posted twice only after a failure between post and mark, and once more for each.
`WeekIsSettled`: while a week is the one due, cycles go on until it is on record and marked,
whatever failed before, unless the sidecar is unreadable; a week still unsettled when the next
falls due is lost, as `should_fire` knows only the last, and that the property allows.

*Pins* (`SnapshotPins`).  `PinsAreStored`: the file a pin names is there, though
perhaps not all of it.  `OverridesAreOnRecord`: what is put in place can be read, and a pin is kept, or gives
way to one that names it, except when the two processes overlap between load and replace.
`JoinRecovers`: a pin the trains do not join is replaced, unless a file was left unreadable.

*Schedule* (`ScheduleService`).  `DirectServiceIsSoonest`: compared with every ride of
every active trip.  `BoardsKeepTrains`: across midnight, while the answers are derived
afresh, a train stays on the board until it leaves and its line is not called
suspended.  `TransferConnects`: two legs offered are rides of today that meet at an
interchange, the second leaving after the first is there.  `ReadingsAgree`: status,
progress and stops ahead agree at each instant.

*Assistant*.  `BudgetIsBounded`: a month costs at most one call of every caller above
its cap.  `BurstIsBounded`: at most twice the cap in any window's length.  `TurnsEnd`.

### Bounds, and why they are enough

* **Trips.**  Lifecycle and completion treat each trip alone, so one trip reaches every
  state of them (the theorems hold for any set).  Headway relates trips, so `trackers`
  has two, with symmetry (no property or constant distinguishes them).  `LiveFeed` has
  two, so that a delta can add one and remove another.
* **`MaxTime`, `Steps`, timeouts.**  Timeouts are 2 to 4 units and steps of 1 to 3, so a
  step falls short of, meets and overshoots each timeout, and `MaxTime` of 8 in `store` is
  beyond the longest chain (position, timeout, ghost, eviction, return).  `loop` has 6, for
  an outage of two rungs, the cycle that ends it, and a second one.
* **`TopLevel = 2`** (the code's ladder is longer): an intermediate rung and the last
  one, both of which a further failure treats differently.  Waits grow with the level.
* **`Pages = 1`**: a server with a stream open, or none; all that `Exit` asks.
* **`Restarts = 1`**: a process that begins with empty memory and rows in the log; a
  second restart begins from the same memory.
* **`Counts = {0, 1}`, `LowWatermark = 0`**: at and above the low-water mark.
* **Payloads**: a feed lists every trip, or none, stamped or not; enough for new,
  repeated, missing and returning data.
* **`Streams = 2`, `MaxGlobal = MaxPerIp = 2`, `Window = 1`**: a stream of a connection
  already gone beside the one that replaced it, the cap reached by them, and every
  send held up by the one before.
* **`Pipeline.cfg`**: three dates, two of which close, so that a bad date stands before a
  good one and is deleted while a later one is written (`RetentionDays = 1`).  The first of them
  records (`BusyDays`); one row distinguishes a copy made too early, and it is a gap
  (`BusyTables`), since a gap is written into every table: that date publishes files and the next
  one empty-day entries.  Two tables, so that a date can be published in part; one fault (`MaxFaults`) of
  either kind; `UploadAttempts = 1`, since a retry leaves the pass where it was.
  `DataReadOnly = TRUE`, as `src/deploy/docker-compose.yml:221` mounts it.  Safety is proved
  for every value of these, a writable mount included.
* **`Jobs.cfg`**: weeks of two dates over three dates, so a week falls due twice and
  a Monday has a predecessor; one mishap, since each is counted against its week; posts
  capped at two, one more than mishaps, each taken or refused.  Proved for every value.
* **`Pins.cfg`**: two snapshots and two timetables whose scores lie on both sides of, and
  exactly at, each threshold; two dates, each with its grace period; one change, of the
  portal, of the trains or a death (which may leave a file cut short).  The overlaps of the two
  savers need none.  Proved for every value.
* **`Schedule.cfg`**: days of four hours with the boundary at one, and a clock from 1 to
  8, so both midnights and the boundary fall inside; snapshots differ in the exceptions
  of the calendar, the order of two trips that overtake, the time of a connection and a
  fourth trip (another line, a replacement bus, a call without departure, one without
  arrival).  All four properties are proved for every timetable and feed that meets the
  assumptions of section 4.
* **`Assistant.cfg`**: one slot for requests and the digest, two clients, a window of two
  units, months of three, five instants: a call begun in one month ends in the next, two
  windows meet and a sweep falls due.  `Cap = 2`, `MaxCost = 1`: at, below and above the
  cap.  Both bounds are proved for every value.

`CHECK_DEADLOCK FALSE` stands where the run ends by design: at the bound of the clock,
after `flush()`, or after the process has exited.

### Fairness

`FairLoopSpec` asks for weak fairness of `Work`, the steps of a cycle, the return of the
loop and the exit.  Every request has a timeout and sleeps are sliced against the stop flag
(`__main__.py`), so no await of the loop lasts for ever.  Nothing is assumed of signals, restarts,
of the start of another cycle, or of pages: one may keep its stream, and `Exit` waits for it.

`FairFeedSpec` asks for weak fairness of `Publish` (each cycle of the poll loop
publishes), of `Start`, `Await`, `Wake` and `End` of each stream (asyncio runs every
ready task; a closed connection is noticed at the generator's next await), of the two
`finally` blocks of a generator that ended (asyncio finalizes it), and of the
page's `Deliver` and of its request for a stream.  Nothing is assumed of `Change`,
`Heartbeat`, `Abandon`, `Break` or `Restart`.

`FairPipelineSpec`: weak fairness of the pass as a whole (cron starts it every night and
it goes on), strong fairness of visiting each date and of publishing each table, since a
pass may die or an upload be refused and both are offered again by the next.  That
excludes a pass which dies at the same table every night, and nothing else: a date behind a
blocked one is never offered, so fairness does not reach it.  Nothing is assumed of the writer,
the nightly job or of faults.

`FairJobsSpec`: weak fairness of the work of a cycle (the container is restarted and the
loop goes on), strong fairness of a composition that succeeds and of a cycle that finds a
pinned snapshot: the first may fail and the second be missing, though not for ever.  Nothing is
assumed of what Slack answers.

`FairSpec` of `SnapshotPins`: weak fairness of the job (cron) and of the check (the poll
loop).  `FairSpec` of `Assistant`: weak fairness of an answer to each caller, which the
timeouts of the SDK and of httpx give; what the answer is stays open.

## 4. Proofs

All obligations are checked by `tlapm` for arbitrary values of the constants under
the named assumptions of the modules: inputs have their types, timeouts, ladders, windows
and lengths are positive numbers; sets whose members are counted are finite, and the marker
`NONE` is none of what it stands beside.  Four say more.

* `RetentionAssumption`: a resolution is kept no longer than a finalization, and a pending
  trip no longer than a train; the code gives each of the two pairs one value, and
  `ResolutionAwaitsVisibleTrain` depends on it.
* `PinsAssumption` has `MinImprovement` above 0, and `PinsAreStored` depends on it.
* `CallsAssumption`: a trip calls once at a station.  `next_service_same_line` takes the
  first call at either end, and the overlay of a board finds a call by its stop; a trip
  that came through its first station again and left later would be a direct
  service the code does not offer.
* `FeedAssumption` of `ScheduleService`: the stops of a window come in the order of their
  `stop_sequence`, as the feed's specification requires and `state/station.py` relies on.
  Nothing is assumed of the order of the times.

### The store (`StateStoreProofs`)

`Inductive`: `Spec => []IInv`.  The properties of the runs are not inductive: that a
resolution has a visible train needs to know what the completion tracker holds for the
same trip, and that a clock is exact needs the bounds of the other.  `IInv` joins types,
a part per train (`TrainInv`: clock, status, episode start, touch times), a part for the
pair of lifecycle slot and completion record (`TripInv`), the placement of a train by
the last poll, and what holds only before a flush (`FinalizedInv`).  `TickPost` says what one
`LifecycleTick` owes its caller; it is proved by following `Advance` (touch, confirm,
vanish, coast) and `Evict`, then combined with `CompletionTick` and `MarkResolved`
trip by trip.  From `IInv` follow `TypeCorrect`, `LivePlaced`, `ClockExact`,
`ResolutionWaits`, and three statements no run repeats: `GhostExact` (a train is a ghost
exactly when its clock ran out), `PendingTracked` and `MemoryBounded`.
`LedgerImplemented`: `Spec => EpisodeLedger`; each tick is a `Move` of the abstract
ledger for each trip, and a flush is a `Report`.  `Sampled`: `ObservableTripsAreSampled`,
where the delay tracker is on and keeps an observation at least one interval, as the
code's six hours and two minutes do.

Headway has an invariant of its own, `ArrivalsInv`: every group kept has arrivals, in order
of time and none later than the last cycle.  `ArrivalsAfter` is a recursive function over
the number of newcomers; that its result is chronological is shown by the least number
for which it would not be (a finite set of numbers has a least element, by
well-foundedness), and that a cycle adds at most the newcomers by a surjection from
those trains.  `ArrivalsOrdered` and the action property `DwellCountsOnce`.

### The process (`PollerProofs`)

`LoopInductive`: `LoopSpec => []LoopInv`, where `LoopInv` joins `LoopTypeOK`, the store's
`IInv`, `Timely` (when the store was last called: in the cycle that ended last, or one
step before the cycle under way) and `Outages` (the last row and an open outage lie
before the cycle).  `Timely` is what makes the store's guard on `now` hold, and is why
`ContractKept`: `LoopSpec => StoreContract` follows step by step.  `OutagesSeparate`
gives `GapsAreSeparateOutages`, `StoreInProcess` the store's invariant inside the
process through restarts.

The marks of a backoff are a second invariant, `MarksInv`, on top of `LoopInv`
(`MarksInductive`): `MarkedAfter` says what a train keeps of its last position, mark and
clock over one `ingest()`, and `FinishMarks` combines it with what the breaker does in the
same cycle.  The outage whose row is appended covers every train that was marked, as
each was last seen before the cycle began.  From it: `OverlapExplained`, `AbsentMarked`
and the action property `NoGhostOfABackoff`.

### The live stream (`LiveFeedProofs`)

`DeltaReaches`: applying `Diff(previous, pic)` to `previous` gives `pic`.
`FeedInductive`: types, every stream in service has an owner, slots count streams (by
cardinalities of finite sets, with `FiniteSetTheorems`), the hub holds the streams that
wait or send and those whose inner `finally` has yet to run, and a stream whose queue is empty while it waits is up to date.  From
it: `FeedTypeCorrect`, `CapsHold`, `HubExact`, `WakeupsKept`.

`MirrorInStep` is a part of the same invariant.  It speaks of `Replay`, a recursive function
over the events under way; a few lemmas say what a replay shows when an event is
appended to the wire or taken off its head (again by the least place where it would
differ), and `Linked` that a page and its stream name each other and that nothing is under
way on a stream that has not begun.  `MirrorHolds` follows, and with it
`LiveFeedImplements`: `FeedSpec => StreamOfPictures`, under the refinement mapping that
takes the events under way to the pictures they will show.  An event sent is a `Send` of the
present picture because the delta is taken against the picture the page will then have,
which is what `MirrorInStep` says.

### The history (`HistoryProofs`)

`PipelineInductive`: `PipelineSpec => []PipelineInv`, in three parts.  `StoreInv`: only the
open date is written, to a file that holds all it was given, and a date not yet closed is
whole or never opened.  `NightInv`: the job has only closed dates in hand, so what it
copies is not written again; a file that is not whole is one of a fault or the copy being
made.  `PassInv`: dates to visit are closed, and the rows being pushed are those recorded.
The link is that closing is final (`Closed(d)` is stable as the clock runs) and comes
after the writer's last row, which is what the buffer past the boundary is for; without it
`BackupHoldsEveryRow` fails, as its mutant shows.  From it: `BackupComplete`,
`PublishedFaithful`, and the action property `CopyKept`.  That `Min` of a set of dates is
its least element is proved from the well-foundedness of finite sets, as induction is not
available.

### The jobs (`JobsProofs`)

`JobsInductive`: `JobsSpec => []JobsInv`.  For the digest it carries, through the steps
from `compose` to `mark`, that the week in hand is later than the marked one, what has
already been done for it, and that no more rows have an outcome than posts had it, with one
post to spare while its answer is in hand; `RepeatsExplained` needs the stronger count that an unmarked
week with nothing in flight has at most as many posts as mishaps.  For the insights it
relates the store: nothing is finalized of the date the cycle writes, so no later row or
refresh touches a final rollup.  `WeeksOnRecord` (a marked week has its
row, whatever Slack answered; that it was *delivered* is false, section 5), `RepeatsExplained`,
`FinalizedWhole`.

### The pins (`PinsProofs`)

`PinsInductive`: whatever a task has in hand is on the shelf, because the job stored it and
because the check's winner scored above the pin by a positive margin, which what is not on
the shelf cannot; every file of pins, the temporary one included, names what is on the shelf or is
cut; and while a saver has not been overlapped the temporary file is its own, what it will put in
place is whole, and its pins are the manifest as it stands but for its own date.  `PinsStored`, and the action property `OverridesRecorded`.

### The budget and the limiter (`AssistantProofs`)

`BudgetBounded`.  The bound is not inductive, as a call begun under the cap is billed when
it ends; the invariant adds to a month's cost the most that the calls under way may still
add (`MaxCost` times their number), and starts anew with each month.

`BurstBounded`.  `LimitInv` says of each counter that the requests accepted within a window's
length belong to its present window or the one before, and that no two of one window
have the same count (`Paced`).  So they inject into two windows' counts, of which there
are twice the cap.  A client is forgotten only when it was last seen two windows ago, and then
none of its requests is recent.

### The schedule (`ScheduleProofs`)

An answer is a function of the snapshot, the feed, the question and the clock (`ServiceInv`),
so the work is in lemmas about the lookups.  `ReadingsHold`: the current anchor is found
before the last one, whatever the times, and `Ahead`, `StationState` and `Progress` follow from it.
`DirectSoonest`: a trip's leg is its one ride between the two ends (`LegIsRide`), the
leg offered is the least of them (`SoonestLeg`), and a name resolves to one
station.  `TransferMeets`: the best of the transfers found is one that was found, each leg
a ride, the second looked for from the first's arrival.  `BoardsKeep`: what is still to depart
later is a subset of what was, so a departure has no more before it than it had and stays
among the first `Limit` (by cardinalities), and a line with a departure runs today.

### Only model-checked

Liveness (`StopLeadsToReturn`, `PageCatchesUp`, `GoneIsReleased`, `ClosedDayIsArchived`,
`WeekIsSettled`, `JoinRecovers`, `TurnsEnd`): it needs fairness and
`ENABLED`, which the prover does not handle.  Every invariant, every action property and
both refinements that a passing run checks are theorems.  The three properties of
section 5 are false and have counterexamples instead.  `StoreContract` is the other way round:
proved for every size (`ContractKept`) and in no run, as TLC would have to find, for each step of
the loop, the call of the store that explains it.

Not stated as theorems are the answers no property speaks of (cards, alerts, line status,
skipped stops), whose operators are folds over sequences.

## 5. Where the code and its documents differ

Three have a run that finds them; `PROJECT.json` quotes the lines.

* `backoff_clock`: the cycle that ends a backoff charges the whole sleep to the coasting
  clock, and turns a train live before the outage into a ghost at once.
* `slack`: `post_message` returns False without a URL or on any HTTP error (`poller/slack.py:28`).
  The digest is stored with `slack_delivered=False` and the week is marked all the same, so it is
  never posted again; `mark_fired` "must only be called AFTER the digest has actually been generated
  and delivered".
* `heal`: the archive heals a live file by copying the backup over it, but its container mounts
  the data read-only (`src/deploy/docker-compose.yml:224`).  The copy raises an error that
  is not `sqlite3.Error` and ends the pass, that night and every other; later dates wait with the
  damaged one, which is the `Blocked` of `ClosedDayIsArchived`.

Noticed while modelling; the models do what the code does.

*Process and trackers*

* After a failed Vehicle Positions request the cached positions are ingested again, and
  `last_seen_at` moves to a time at which nobody saw the train (`poller/loop.py:139`).  A live train is
  one the last poll placed, from whatever feed.
* A trip dropped because its fate is known may be listed again by the next feed, and starts over as a
  ghost without an explanation (`state/ghost.py:193`); `EpisodeLedger` lets any trip begin an
  episode while it is not shown.  A cancelled trip that is still listed does so after its episode closed; a
  resolution remembered for a live train is forgotten at its next position.
* The first tick primes the headway tracker even if it had no schedule; the first cycle
  with one counts every standing train as an arrival (`state/headway.py:134`).  The memory of a
  dwell lasts one cycle: one that a gap in the feed interrupts is counted again.
* The process returns without `flush()`: episodes open at shutdown leave no row, though
  the data's documentation lists them as `flushed` (`poller/__main__.py:454`).
* `main()` waits for the server too, and its shutdown has no timeout: one page that keeps its stream
  keeps a signalled process alive after its poll loop has returned (`poller/__main__.py:452`), until
  it is killed.
* An outage the process does not survive leaves no row; a trip standing at its terminus
  over a restart gets a second completion row; a cycle that succeeds near the rate
  limit opens the breaker and still rings the dead-man switch.

*Live stream*

* An `EventSource` does not retry after 503, and the page shows "reconnecting" for ever.
* The slot is taken before the generator that gives it back is entered (`api/app.py:1039`): a page that
  leaves before the head of its answer is out keeps it until a restart (`Abandon`).

*History and archive*

* A backup cut short to no bytes compacts as a day without rows; one cut short later is
  never copied again, as its name is found; retention then deletes the only whole file.
* `upload_day` retries a date that is not fully published by uploading all its tables,
  where its docstring says only what is missing.
* A partition SQLite refuses raises out of `read_completion_events` rather than counting
  as missing.

*Jobs*

* Sidecars of the triggers are written in place: one cut short raises out of
  the poll loop at every start, before the insights are reached (`weekly_digest_trigger.py:51`),
  though `__main__.py:127` never lets a digest failure affect the loop and
  `insights_trigger.py` says it never raises.
* Only yesterday is ever finalized (`insights_trigger.py:123`): a date after which no cycle
  of the next one finds a snapshot and lives to the end keeps the rollup of its last refresh.

*Pins*

* `gtfs/pinning.py:3` says an override is never silent; two savers that overlap lose the
  pin of one without a trace, and it is made again only if its date is still today's when that
  process runs next.  They share one temporary file as well: one may put in place what the other has just
  opened and truncated, and the poller then reads the half-written manifest that lines 55-56 exclude.
* A zip cut short keeps its name, is never written again (`gtfs/fetch.py:143`), counts as stored
  for `PinsAreStored`, and keeps the join check from running.
* `fetch_cache.json` is written in place (`gtfs/fetch.py:126`): one cut short raises at the head of every
  later fetch, and no snapshot is stored again.
* An ETag from a HEAD may be cached with the content of a later GET.

*Answers and budget*

* Each leg of a transfer is the one that departs soonest, and of two that leave at once the first in the
  file (`gtfs/schedule.py:218`), where `gtfs/next_service.py:68` ranks "by soonest overall arrival time".
  With a slow and a fast train from `north` at 2, the slow listed first and at `hub` at 5, the journey
  offered arrives at 7; the fast one makes the connection that arrives at 5.
* `state/station.py` calls its last return unreachable; it is reached when a train dwells
  at the last anchor, whose progress is then unknown and whose arrival headway misses.
* A late train leaves the board at its scheduled time; the line of an added train may be
  listed among the lines without service today.
* A call to the model that fails is not billed, and a call is billed to the month its
  answer came in, whatever month was checked.  A tool that raises ends its turn with a call billed.

## 6. What is not modelled

Text, layout, logging, metrics and redaction; the parsing of GTFS and protobuf data;
geometry and the delay model (data); the gateway's HTTP (its outcomes are inputs); the
schema of SQLite and Parquet files; the sums and percentages of insights and digests
(`PollJobs` counts the rows they are taken over); rendering.  The jitter of the poll
cadence and its overnight window are the set of waits per breaker level.  Of the API task
beside the poll loop only its open streams are; that it may end by itself, and the assembly of the
V/Line process, whose parts are those modelled here, are not.  `src/spike/` is the exploration that preceded the service.

## 7. Plan

Done, in this order: the store with its trackers, the process, the live stream; then the
history with nightly job and archive, the jobs after a cycle, the pins, the questions of
the API with the static timetable, the assistant with the limiter; and their theorems.

Open:

1. An API server that fails while the loop goes on, and the V/Line process as an instance of
   `PollerLoop`.
2. The aggregation of insights against a reference definition.
