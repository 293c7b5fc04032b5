---------------------------- MODULE PollerProofs ----------------------------
(***************************************************************************)
(* Proofs about PollerLoop: the process calls the store as StateStore      *)
(* assumes, so the store's invariants hold inside it, restart after        *)
(* restart; and the outage log tells outages apart.                        *)
(***************************************************************************)
EXTENDS PollerLoop, StateStoreProofs, SequenceTheorems

-----------------------------------------------------------------------------
(* The inductive invariant.                                                *)

\* When the store was last called: in the cycle that ended last, or, while the
\* next one fetches, one step before it.
Timely ==
  /\ cycleStart <= MaxTime
  /\ ~flushed
  /\ lastTickAt # NONE =>
       /\ \E f \in FeedNames : decoded[f] # NONE
       /\ IF phase = "fetching" THEN \E s \in Steps : cycleStart = lastTickAt + s
                                ELSE cycleStart = lastTickAt

\* A time no later than the cycle that ended last, when the last that began
\* did so at `begun` and the loop is at `at`.
Past(time, at, begun) == IF at = "fetching" THEN time < begun ELSE time <= begun

Outages ==
  /\ BackoffActive(breaker) => breaker.startedAt \in Nat /\ Past(breaker.startedAt, phase, cycleStart)
  /\ Len(gaps) > 0 => Past(gaps[Len(gaps)].endedAt, phase, cycleStart)
  /\ GapsAreSeparateOutages

LoopInv == LoopTypeOK /\ IInv /\ Timely /\ Outages

-----------------------------------------------------------------------------
(* The breaker.                                                            *)

LEMMA EscalateTyped ==
  ASSUME NEW b \in Breaker, NEW now \in Nat,
         NEW next, next = Escalate(b, now)
  PROVE  /\ next \in Breaker
         /\ BackoffActive(next)
         /\ next.startedAt = IF BackoffActive(b) THEN b.startedAt ELSE now
<1> DEFINE level == Lower(b.level + 1, TopLevel)
<1>1. level \in 0 .. TopLevel /\ level > 0
  BY BreakerAssumption DEF Lower, Breaker
<1>2. Higher(b.maxLevel, level) \in 0 .. TopLevel
  BY <1>1 DEF Higher, Breaker
<1>3. next = [b EXCEPT !.startedAt = IF b.level = 0 THEN now ELSE b.startedAt,
                       !.level = level,
                       !.maxLevel = Higher(b.maxLevel, level)]
  BY DEF Escalate
<1> HIDE DEF level
<1>4. /\ next.level = level
      /\ next.failures = b.failures
      /\ next.startedAt = IF b.level = 0 THEN now ELSE b.startedAt
      /\ next.maxLevel = Higher(b.maxLevel, level)
  BY <1>3 DEF Breaker
<1>5. next = [level |-> next.level, failures |-> next.failures,
              startedAt |-> next.startedAt, maxLevel |-> next.maxLevel]
  BY <1>3 DEF Breaker
<1>6. next.startedAt \in Nat \cup {NONE} /\ next.failures \in Nat
  BY <1>4 DEF Breaker
<1>7. next \in Breaker
  BY <1>1, <1>2, <1>4, <1>5, <1>6 DEF Breaker
<1>8. b.level = 0 <=> ~BackoffActive(b)
  BY BreakerAssumption DEF BackoffActive, Breaker
<1> QED BY <1>1, <1>4, <1>7, <1>8 DEF BackoffActive

\* A failed cycle climbs the ladder, and so does one near the rate limit; any
\* other closes the breaker.
LEMMA FailureTyped ==
  ASSUME NEW b \in Breaker, NEW now \in Nat,
         NEW next, next = RecordFailure(b, now)
  PROVE  /\ next \in Breaker
         /\ BackoffActive(next)
         /\ next.startedAt = IF BackoffActive(b) THEN b.startedAt ELSE now
<1> DEFINE counted == [b EXCEPT !.failures = b.failures + 1]
<1>1. counted \in Breaker /\ counted.startedAt = b.startedAt /\ counted.level = b.level
  BY DEF Breaker
<1>2. next = Escalate(counted, now)
  BY DEF RecordFailure
<1>3. BackoffActive(counted) <=> BackoffActive(b)
  BY <1>1 DEF BackoffActive
<1> HIDE DEF counted
<1> QED BY <1>1, <1>2, <1>3, EscalateTyped

LEMMA SuccessTyped ==
  ASSUME NEW b \in Breaker, NEW now \in Nat, NEW count \in Nat \cup {NONE},
         BackoffActive(b) => b.startedAt \in Nat
  PROVE  /\ RecordSuccess(b, now, count) \in Breaker
         /\ IF RateLimited(count)
              THEN /\ BackoffActive(RecordSuccess(b, now, count))
                   /\ RecordSuccess(b, now, count).startedAt =
                        IF BackoffActive(b) THEN b.startedAt ELSE now
                   /\ GapsClosed(b, now, count) = <<>>
              ELSE /\ ~BackoffActive(RecordSuccess(b, now, count))
                   /\ IF BackoffActive(b)
                        THEN /\ GapsClosed(b, now, count) \in Seq(Gap)
                             /\ Len(GapsClosed(b, now, count)) = 1
                             /\ GapsClosed(b, now, count)[1].startedAt = b.startedAt
                             /\ GapsClosed(b, now, count)[1].endedAt = now
                        ELSE GapsClosed(b, now, count) = <<>>
<1> DEFINE next == RecordSuccess(b, now, count)
           closed == GapsClosed(b, now, count)
<1>1. CASE RateLimited(count)
  BY <1>1, EscalateTyped DEF RecordSuccess, GapsClosed
<1>2. CASE ~RateLimited(count)
  <2>1. next = Closed
    BY <1>2 DEF RecordSuccess
  <2>2. Closed \in Breaker /\ ~BackoffActive(Closed)
    BY BreakerAssumption DEF Closed, Breaker, BackoffActive
  <2>3. CASE BackoffActive(b)
    <3> DEFINE gap == [startedAt |-> b.startedAt, endedAt |-> now,
                       failures |-> b.failures, maxLevel |-> b.maxLevel]
    <3>1. closed = <<gap>>
      BY <1>2, <2>3 DEF GapsClosed
    <3>2. gap \in Gap
      BY <2>3 DEF Gap, Breaker
    <3> QED BY <1>2, <2>1, <2>2, <2>3, <3>1, <3>2
  <2>4. CASE ~BackoffActive(b)
    BY <1>2, <2>1, <2>2, <2>4 DEF GapsClosed
  <2> QED BY <2>3, <2>4
<1> QED BY <1>1, <1>2

-----------------------------------------------------------------------------
(* The store, as the process calls it.                                     *)

LEMMA FeedsTyped ==
  ASSUME LoopTypeOK
  PROVE  /\ FeedDict(TU) \in TuFeeds
         /\ FeedDict(VP) \in VpFeeds
         /\ Alerts \in SaFeeds \cup {NONE}
<1>1. /\ decoded[TU] \in TuPayloads \cup {NONE}
      /\ decoded[VP] \in VpPayloads \cup {NONE}
      /\ decoded[SA] \in SaPayloads \cup {NONE}
  BY DEF LoopTypeOK, FeedNames, Payloads, TU, VP, SA
<1>2. /\ EmptyFeed \in TuFeeds
      /\ EmptyFeed \in VpFeeds
  BY DEF EmptyFeed, TuFeeds, VpFeeds
<1>3. FeedDict(TU) \in TuFeeds
  <2>1. CASE decoded[TU] = NONE
    BY <1>2, <2>1 DEF FeedDict
  <2>2. CASE decoded[TU] # NONE
    BY <1>1, <2>2, LoopAssumption DEF FeedDict, Payload, TuFeeds
  <2> QED BY <2>1, <2>2
<1>4. FeedDict(VP) \in VpFeeds
  <2>1. CASE decoded[VP] = NONE
    BY <1>2, <2>1 DEF FeedDict
  <2>2. CASE decoded[VP] # NONE
    BY <1>1, <2>2, LoopAssumption DEF FeedDict, Payload, VpFeeds
  <2> QED BY <2>1, <2>2
<1>5. Alerts \in SaFeeds \cup {NONE}
  BY <1>1, LoopAssumption DEF Alerts, Payload
<1> QED BY <1>3, <1>4, <1>5

\* A finished cycle is a Cycle of the store, or leaves it alone.
LEMMA CycleCalls ==
  ASSUME LoopInv, FinishCycle
  PROVE  (Cycle /\ lastTickAt' = cycleStart) \/ (UNCHANGED vars /\ lastTickAt = NONE)
<1> DEFINE backoff == BackoffActive(breaker')
<1>1. TellStore(backoff)
  BY DEF FinishCycle
<1>2. CASE \E f \in FeedNames : decoded[f] # NONE
  <2>1. PICK known \in Lookups, stopOf \in StopsNow :
          /\ Ingest(FeedDict(TU), FeedDict(VP), Alerts, cycleStart, backoff, known, stopOf)
          /\ UNCHANGED flushed
    BY <1>1, <1>2 DEF TellStore
  <2>2. cycleStart \in CycleTimes
    <3>1. phase = "fetching" /\ cycleStart \in Nat /\ cycleStart <= MaxTime
      BY DEF FinishCycle, LoopInv, LoopTypeOK, Timely
    <3>2. CASE lastTickAt = NONE
      BY <3>1, <3>2, LoopAssumption, StoreAssumption DEF CycleTimes
    <3>3. CASE lastTickAt # NONE
      BY <3>1, <3>3 DEF LoopInv, Timely, CycleTimes
    <3> QED BY <3>2, <3>3
  <2>3. backoff \in BOOLEAN
    BY DEF BackoffActive
  <2>4. /\ FeedDict(TU) \in TuFeeds
        /\ FeedDict(VP) \in VpFeeds
        /\ Alerts \in SaFeeds \cup {NONE}
    BY FeedsTyped DEF LoopInv
  <2>5. ~flushed
    BY DEF LoopInv, Timely
  <2>6. lastTickAt' = cycleStart
    BY <2>1 DEF Ingest
  <2> HIDE DEF backoff
  <2>7. Cycle
    BY <2>1, <2>2, <2>3, <2>4, <2>5 DEF Cycle
  <2> QED BY <2>6, <2>7
<1>3. CASE ~\E f \in FeedNames : decoded[f] # NONE
  BY <1>1, <1>3 DEF TellStore, LoopInv, Timely
<1> QED BY <1>2, <1>3

\* Forgetting begins the store anew.
LEMMA ForgetHolds == Forget => IInv'
<1>1. Forget => Init'
  BY DEF Forget, Init
<1> QED BY <1>1, InitHolds, PTL

-----------------------------------------------------------------------------
(* The steps.                                                              *)

LEMMA LoopInitHolds == LoopInit => LoopInv
<1> SUFFICES ASSUME LoopInit PROVE LoopInv
  OBVIOUS
<1>1. Init /\ IInv
  BY InitHolds DEF LoopInit
<1>2. TypeOK
  BY <1>1 DEF IInv
<1>3. Closed \in Breaker /\ ~BackoffActive(Closed)
  BY BreakerAssumption DEF Closed, Breaker, BackoffActive
<1>4. gaps \in Seq(Gap) /\ Len(gaps) = 0
  BY DEF LoopInit
<1>5. LoopTypeOK
  <2>1. fetched \in 0 .. Len(Feeds)
    BY DEF LoopInit, Feeds
  <2>2. /\ headerTs \in [FeedNames -> Nat \cup {NONE}]
        /\ DOMAIN decoded = FeedNames
        /\ \A f \in FeedNames : decoded[f] \in Payloads(f) \cup {NONE}
        /\ changedAt \in [FeedNames -> Nat \cup {NONE}]
    BY DEF LoopInit
  <2>3. Pages \in Nat
    BY LoopAssumption
  <2>4. streams \in 0 .. Pages
    BY <2>3 DEF LoopInit
  <2> QED BY <1>2, <1>3, <1>4, <2>1, <2>2, <2>4 DEF LoopInit, LoopTypeOK
<1>6. Timely
  BY <1>1, StoreAssumption DEF LoopInit, Init, Timely
<1>7. Outages
  BY <1>3, <1>4 DEF LoopInit, Outages, GapsAreSeparateOutages
<1> QED BY <1>1, <1>5, <1>6, <1>7 DEF LoopInv

\* What a step of the loop owes, with or without a call of the store.
StepPost == LoopInv' /\ [Next \/ Forget]_vars

LEMMA BeginHolds ==
  ASSUME LoopInv, BeginCycle
  PROVE  StepPost
<1> USE DEF LoopInv
<1>1. PICK wait \in Waits[breaker.level] : cycleStart' = cycleStart + wait
  BY DEF BeginCycle
<1>2. wait \in Steps /\ wait \in Nat /\ wait > 0
  <2>1. breaker.level \in 0 .. TopLevel
    BY DEF LoopTypeOK, Breaker
  <2> QED BY <1>1, <2>1, LoopAssumption, StoreAssumption
<1>3. cycleStart \in Nat /\ cycleStart' \in Nat /\ cycleStart < cycleStart'
  BY <1>1, <1>2 DEF LoopTypeOK
<1>4. /\ phase = "asleep" /\ phase' = "fetching"
      /\ cycleStart' <= MaxTime
      /\ fetched' = 0 /\ ok' = TRUE /\ remaining' = NONE
      /\ UNCHANGED <<headerTs, decoded, changedAt, breaker, gaps, stopping, streams, restarts>>
      /\ UNCHANGED vars
  BY DEF BeginCycle, cache
<1>5. IInv'
  BY <1>4, StutterHolds
<1>6. LoopTypeOK'
  <2>1. fetched' \in 0 .. Len(Feeds)
    BY <1>4 DEF Feeds
  <2>2. TypeOK'
    BY <1>5 DEF IInv
  <2> QED BY <1>3, <1>4, <2>1, <2>2 DEF LoopTypeOK
<1>7. lastTickAt' = lastTickAt /\ flushed' = flushed
  BY <1>4 DEF vars, trackers
<1>8. Timely'
  BY <1>1, <1>2, <1>4, <1>7 DEF Timely
<1>9. Outages'
  <2>1. GapsAreSeparateOutages'
    BY <1>4 DEF Outages, GapsAreSeparateOutages
  <2>2. Len(gaps) > 0 => Past(gaps[Len(gaps)].endedAt, phase', cycleStart')
    <3> SUFFICES ASSUME Len(gaps) > 0
                 PROVE  Past(gaps[Len(gaps)].endedAt, phase', cycleStart')
      OBVIOUS
    <3>1. gaps[Len(gaps)] \in Gap
      BY DEF LoopTypeOK
    <3>2. gaps[Len(gaps)].endedAt \in Nat /\ gaps[Len(gaps)].endedAt <= cycleStart
      BY <1>4, <3>1 DEF Gap, Outages, Past
    <3> QED BY <1>3, <1>4, <3>2 DEF Past
  <2>3. BackoffActive(breaker) =>
          breaker.startedAt \in Nat /\ Past(breaker.startedAt, phase', cycleStart')
    BY <1>3, <1>4 DEF Outages, Past
  <2> QED BY <1>4, <2>1, <2>2, <2>3 DEF Outages
<1> QED BY <1>4, <1>5, <1>6, <1>8, <1>9 DEF StepPost

\* Fetching touches neither the clock, the breaker, the log nor the store.
LEMMA FetchHolds ==
  ASSUME LoopInv, FetchStep
  PROVE  StepPost
<1> USE DEF LoopInv
<1>1. /\ UNCHANGED <<phase, stopping, streams, restarts, cycleStart, breaker, gaps>>
      /\ UNCHANGED vars
      /\ phase = "fetching" /\ fetched < Len(Feeds)
  BY DEF FetchStep, AuthRejected, RequestFailed, DecodeFailed, Fetched, Fetching, process
<1>2. fetched \in 0 .. 2 /\ Len(Feeds) = 3 /\ Feed \in FeedNames
  BY <1>1 DEF LoopTypeOK, Feeds, FeedNames, Feed
<1>3. fetched' \in 0 .. Len(Feeds) /\ ok' \in BOOLEAN
  <2>1. fetched' = fetched + 1 \/ fetched' = Len(Feeds)
    BY DEF FetchStep, AuthRejected, RequestFailed, DecodeFailed, Fetched
  <2>2. ok' = ok \/ ok' = FALSE
    BY DEF FetchStep, AuthRejected, RequestFailed, DecodeFailed, Fetched
  <2>3. fetched + 1 \in 0 .. Len(Feeds) /\ Len(Feeds) \in 0 .. Len(Feeds)
    BY <1>2
  <2>4. ok \in BOOLEAN
    BY DEF LoopTypeOK
  <2> QED BY <2>1, <2>2, <2>3, <2>4
<1>4. remaining' \in Nat \cup {NONE}
  <2>1. ASSUME NEW count \in Counts \cup {NONE}
        PROVE  LowestOf(count) \in Nat \cup {NONE}
    BY LoopAssumption DEF LowestOf, Lower, LoopTypeOK
  <2> QED BY <2>1 DEF FetchStep, AuthRejected, RequestFailed, DecodeFailed, Fetched, LoopTypeOK
<1>5. /\ headerTs' \in [FeedNames -> Nat \cup {NONE}]
      /\ DOMAIN decoded' = FeedNames
      /\ \A f \in FeedNames : decoded'[f] \in Payloads(f) \cup {NONE}
      /\ changedAt' \in [FeedNames -> Nat \cup {NONE}]
      /\ (\E f \in FeedNames : decoded[f] # NONE) => \E f \in FeedNames : decoded'[f] # NONE
  <2>1. CASE UNCHANGED cache
    BY <2>1 DEF cache, LoopTypeOK
  <2>2. CASE ~UNCHANGED cache
    <3>1. PICK payload \in Payloads(Feed) :
            /\ headerTs' = IF payload.ts = NONE THEN headerTs
                           ELSE [headerTs EXCEPT ![Feed] = payload.ts]
            /\ decoded' = [decoded EXCEPT ![Feed] = payload]
            /\ changedAt' = [changedAt EXCEPT ![Feed] = cycleStart]
      BY <2>2 DEF FetchStep, AuthRejected, RequestFailed, DecodeFailed, Fetched
    <3>2. payload.ts \in Nat \cup {NONE} /\ payload # NONE
      <4>1. /\ payload \in TuPayloads \/ payload \in VpPayloads \/ payload \in SaPayloads
        BY <1>2, <3>1 DEF FeedNames, Payloads, TU, VP, SA
      <4> QED BY <4>1, LoopAssumption DEF Payload
    <3> QED BY <1>2, <3>1, <3>2 DEF LoopTypeOK
  <2> QED BY <2>1, <2>2
<1>6. IInv'
  BY <1>1, StutterHolds
<1>7. LoopTypeOK'
  BY <1>1, <1>3, <1>4, <1>5, <1>6 DEF LoopTypeOK, IInv
<1>8. Timely'
  BY <1>1, <1>5 DEF Timely, vars, trackers
<1>9. Outages'
  BY <1>1 DEF Outages, Past, GapsAreSeparateOutages
<1> QED BY <1>1, <1>6, <1>7, <1>8, <1>9 DEF StepPost

LEMMA OneAppended ==
  ASSUME NEW log \in Seq(Gap), NEW more \in Seq(Gap), Len(more) = 1
  PROVE  log \o more = Append(log, more[1])
<1>1. more[1] \in Gap
  BY 1 \in 1 .. Len(more), ElementOfSeq
<1>2. <<more[1]>> \in Seq(Gap) /\ Len(<<more[1]>>) = 1 /\ <<more[1]>>[1] = more[1]
  BY <1>1
<1>3. more = <<more[1]>>
  BY <1>2, SeqEqual
<1> QED BY <1>1, <1>3, AppendIsConcat

\* What a finished cycle does to the breaker and the log.
LEMMA BreakerSteps ==
  ASSUME LoopTypeOK, Outages, FinishCycle
  PROVE  /\ breaker' \in Breaker
         /\ BackoffActive(breaker') =>
              breaker'.startedAt = IF BackoffActive(breaker) THEN breaker.startedAt
                                   ELSE cycleStart
         /\ \/ gaps' = gaps /\ (BackoffActive(breaker) => BackoffActive(breaker'))
            \/ \E gap \in Gap : /\ gaps' = Append(gaps, gap)
                                /\ BackoffActive(breaker)
                                /\ ~BackoffActive(breaker')
                                /\ gap.startedAt = breaker.startedAt
                                /\ gap.endedAt = cycleStart
<1>1. /\ breaker \in Breaker
      /\ cycleStart \in Nat
      /\ remaining \in Nat \cup {NONE}
      /\ gaps \in Seq(Gap)
      /\ BackoffActive(breaker) => breaker.startedAt \in Nat
  BY DEF LoopTypeOK, Outages
<1>2. CASE ~ok
  <2>1. breaker' = RecordFailure(breaker, cycleStart) /\ gaps' = gaps
    BY <1>2 DEF FinishCycle
  <2> QED BY <1>1, <2>1, FailureTyped
<1>3. CASE ok
  <2> DEFINE closed == GapsClosed(breaker, cycleStart, remaining)
  <2>1. breaker' = RecordSuccess(breaker, cycleStart, remaining) /\ gaps' = gaps \o closed
    BY <1>3 DEF FinishCycle
  <2> HIDE DEF closed
  <2>2. /\ breaker' \in Breaker
        /\ IF RateLimited(remaining)
             THEN /\ BackoffActive(breaker')
                  /\ breaker'.startedAt = IF BackoffActive(breaker) THEN breaker.startedAt
                                          ELSE cycleStart
                  /\ closed = <<>>
             ELSE /\ ~BackoffActive(breaker')
                  /\ IF BackoffActive(breaker)
                       THEN /\ closed \in Seq(Gap)
                            /\ Len(closed) = 1
                            /\ closed[1].startedAt = breaker.startedAt
                            /\ closed[1].endedAt = cycleStart
                       ELSE closed = <<>>
    BY <1>1, <2>1, SuccessTyped DEF closed
  <2>3. closed = <<>> => gaps' = gaps
    BY <1>1, <2>1
  <2>4. CASE RateLimited(remaining) \/ ~BackoffActive(breaker)
    BY <2>2, <2>3, <2>4
  <2>5. CASE ~RateLimited(remaining) /\ BackoffActive(breaker)
    <3>1. closed \in Seq(Gap) /\ Len(closed) = 1
      BY <2>2, <2>5
    <3>2. closed[1] \in Gap
      BY <3>1
    <3>3. gaps \o closed = Append(gaps, closed[1])
      BY <1>1, <3>1, OneAppended
    <3>4. closed[1] \in Gap /\ gaps' = Append(gaps, closed[1])
      BY <2>1, <3>2, <3>3
    <3> QED BY <2>2, <2>5, <3>4
  <2> QED BY <2>4, <2>5
<1> QED BY <1>2, <1>3

\* A row appended after the rows so far, of an episode that began after them.
LEMMA RowAppended ==
  ASSUME NEW log \in Seq(Gap), NEW gap \in Gap,
         \A i \in 1 .. Len(log) : log[i].startedAt < log[i].endedAt,
         \A i \in 1 .. Len(log) - 1 : log[i].endedAt < log[i + 1].startedAt,
         Len(log) > 0 => log[Len(log)].endedAt < gap.startedAt,
         gap.startedAt < gap.endedAt,
         NEW next, next = Append(log, gap)
  PROVE  /\ next \in Seq(Gap)
         /\ Len(next) = Len(log) + 1
         /\ next[Len(next)] = gap
         /\ \A i \in 1 .. Len(next) : next[i].startedAt < next[i].endedAt
         /\ \A i \in 1 .. Len(next) - 1 : next[i].endedAt < next[i + 1].startedAt
<1>1. /\ next \in Seq(Gap)
      /\ Len(next) = Len(log) + 1
      /\ next[Len(log) + 1] = gap
      /\ \A i \in 1 .. Len(log) : next[i] = log[i]
  OBVIOUS
<1>2. \A i \in 1 .. Len(next) : next[i].startedAt < next[i].endedAt
  BY <1>1
<1>3. ASSUME NEW i \in 1 .. Len(next) - 1
      PROVE  next[i].endedAt < next[i + 1].startedAt
  <2>1. CASE i = Len(log)
    BY <1>1, <2>1
  <2>2. CASE i # Len(log)
    BY <1>1, <2>2
  <2> QED BY <2>1, <2>2
<1> QED BY <1>1, <1>2, <1>3

LEMMA FinishHolds ==
  ASSUME LoopInv, FinishCycle
  PROVE  StepPost
<1> USE DEF LoopInv
<1>1. /\ phase = "fetching" /\ phase' \in {"pinging", "asleep"}
      /\ UNCHANGED <<cycleStart, fetched, ok, remaining, headerTs, decoded, changedAt,
                     stopping, streams, restarts>>
  BY DEF FinishCycle, cycle, cache
<1>2. /\ breaker' \in Breaker
      /\ BackoffActive(breaker') =>
           breaker'.startedAt = IF BackoffActive(breaker) THEN breaker.startedAt ELSE cycleStart
  BY BreakerSteps
<1>3. (Cycle /\ lastTickAt' = cycleStart) \/ (UNCHANGED vars /\ lastTickAt = NONE)
  BY CycleCalls
<1>4. IInv'
  BY <1>3, CycleHolds, StutterHolds
<1>5. /\ cycleStart \in Nat
      /\ gaps \in Seq(Gap)
      /\ BackoffActive(breaker) => breaker.startedAt \in Nat /\ breaker.startedAt < cycleStart
      /\ Len(gaps) > 0 => gaps[Len(gaps)].endedAt < cycleStart
      /\ GapsAreSeparateOutages
  BY <1>1 DEF LoopTypeOK, Outages, Past
<1>6. gaps' \in Seq(Gap) /\ Outages'
  <2>1. BackoffActive(breaker') => breaker'.startedAt \in Nat /\ Past(breaker'.startedAt, phase', cycleStart')
    BY <1>1, <1>2, <1>5 DEF Past
  <2>2. CASE gaps' = gaps
    <3>1. Len(gaps) > 0 /\ BackoffActive(breaker') =>
            gaps[Len(gaps)].endedAt < breaker'.startedAt
      BY <1>2, <1>5 DEF GapsAreSeparateOutages
    <3>2. GapsAreSeparateOutages'
      BY <1>5, <2>2, <3>1 DEF GapsAreSeparateOutages
    <3>3. Len(gaps) > 0 => Past(gaps[Len(gaps)].endedAt, phase', cycleStart')
      <4>1. Len(gaps) > 0 => gaps[Len(gaps)] \in Gap
        BY <1>5
      <4> QED BY <1>1, <1>5, <2>2, <4>1 DEF Past, Gap
    <3> QED BY <1>5, <2>1, <2>2, <3>2, <3>3 DEF Outages
  <2>3. CASE gaps' # gaps
    <3>1. PICK gap \in Gap : /\ gaps' = Append(gaps, gap)
                             /\ BackoffActive(breaker)
                             /\ ~BackoffActive(breaker')
                             /\ gap.startedAt = breaker.startedAt
                             /\ gap.endedAt = cycleStart
      BY <2>3, BreakerSteps
    <3>2. /\ \A i \in 1 .. Len(gaps) : gaps[i].startedAt < gaps[i].endedAt
          /\ \A i \in 1 .. Len(gaps) - 1 : gaps[i].endedAt < gaps[i + 1].startedAt
          /\ Len(gaps) > 0 => gaps[Len(gaps)].endedAt < gap.startedAt
          /\ gap.startedAt < gap.endedAt
      BY <1>5, <3>1 DEF GapsAreSeparateOutages
    <3>3. /\ gaps' \in Seq(Gap)
          /\ gaps'[Len(gaps')] = gap
          /\ \A i \in 1 .. Len(gaps') : gaps'[i].startedAt < gaps'[i].endedAt
          /\ \A i \in 1 .. Len(gaps') - 1 : gaps'[i].endedAt < gaps'[i + 1].startedAt
      BY <1>5, <3>1, <3>2, RowAppended
    <3>4. GapsAreSeparateOutages'
      BY <3>1, <3>3 DEF GapsAreSeparateOutages
    <3>5. Past(gaps'[Len(gaps')].endedAt, phase', cycleStart')
      BY <1>1, <1>5, <3>1, <3>3 DEF Past
    <3> QED BY <2>1, <3>3, <3>4, <3>5 DEF Outages
  <2> QED BY <2>2, <2>3
<1>7. LoopTypeOK'
  BY <1>1, <1>2, <1>4, <1>6 DEF LoopTypeOK, IInv
<1>8. Timely'
  <2>1. CASE Cycle /\ lastTickAt' = cycleStart
    <3>1. \E f \in FeedNames : decoded[f] # NONE
      <4> SUFFICES ASSUME ~\E f \in FeedNames : decoded[f] # NONE PROVE FALSE
        OBVIOUS
      <4>1. UNCHANGED vars
        BY DEF FinishCycle, TellStore
      <4>2. lastTickAt' = NONE
        BY <4>1 DEF Timely, vars, trackers
      <4> QED BY <1>5, <2>1, <4>2, StoreAssumption
    <3> QED BY <1>1, <2>1, <3>1 DEF Timely, Cycle
  <2>2. CASE UNCHANGED vars /\ lastTickAt = NONE
    BY <1>1, <2>2 DEF Timely, vars, trackers
  <2> QED BY <1>3, <2>1, <2>2
<1> QED BY <1>3, <1>4, <1>6, <1>7, <1>8 DEF StepPost, Next

\* The steps that touch neither the cycle nor the breaker nor the store.
LeavesStore == Ping \/ Return \/ Exit \/ StopSignal \/ OpenStream \/ CloseStream

LEMMA RestHolds ==
  ASSUME LoopInv, LeavesStore
  PROVE  StepPost
<1> USE DEF LoopInv
<1>1. /\ UNCHANGED <<cycleStart, fetched, ok, remaining, headerTs, decoded, changedAt,
                     breaker, gaps, restarts>>
      /\ UNCHANGED vars
      /\ stopping' \in {stopping, TRUE}
      /\ \/ phase' = phase
         \/ phase # "fetching" /\ phase' \in {"asleep", "returned", "exited"}
  BY DEF LeavesStore, Ping, Return, Exit, StopSignal, OpenStream, CloseStream, cycle, cache
<1>a. streams' \in 0 .. Pages
  <2>1. streams \in 0 .. Pages /\ Pages \in Nat
    BY LoopAssumption DEF LoopTypeOK
  <2> QED BY <2>1 DEF LeavesStore, Ping, Return, Exit, StopSignal, OpenStream, CloseStream
<1>2. IInv'
  BY <1>1, StutterHolds
<1>3. LoopTypeOK'
  BY <1>1, <1>a, <1>2 DEF LoopTypeOK, IInv
<1>4. Timely'
  BY <1>1 DEF Timely, vars, trackers
<1>5. Outages'
  BY <1>1 DEF Outages, Past, GapsAreSeparateOutages
<1> QED BY <1>1, <1>2, <1>3, <1>4, <1>5 DEF StepPost

LEMMA RestartHolds ==
  ASSUME LoopInv, Restart
  PROVE  StepPost
<1> USE DEF LoopInv
<1>1. /\ phase' = "asleep" /\ fetched' = 0 /\ ok' = TRUE /\ remaining' = NONE
      /\ headerTs' = [f \in FeedNames |-> NONE]
      /\ decoded' = [f \in FeedNames |-> NONE]
      /\ changedAt' = [f \in FeedNames |-> NONE]
      /\ breaker' = Closed /\ stopping' = FALSE /\ streams' = 0 /\ restarts' = restarts + 1
      /\ UNCHANGED <<cycleStart, gaps>>
      /\ Forget
  BY DEF Restart
<1>2. IInv' /\ lastTickAt' = NONE /\ flushed' = FALSE
  BY <1>1, ForgetHolds DEF Forget
<1>3. Closed \in Breaker /\ ~BackoffActive(Closed)
  BY BreakerAssumption DEF Closed, Breaker, BackoffActive
<1>4. LoopTypeOK'
  <2>1. fetched' \in 0 .. Len(Feeds)
    BY <1>1 DEF Feeds
  <2>2. TypeOK'
    BY <1>2 DEF IInv
  <2>3. /\ headerTs' \in [FeedNames -> Nat \cup {NONE}]
        /\ DOMAIN decoded' = FeedNames
        /\ \A f \in FeedNames : decoded'[f] \in Payloads(f) \cup {NONE}
        /\ changedAt' \in [FeedNames -> Nat \cup {NONE}]
    BY <1>1
  <2>4. restarts' \in Nat /\ cycleStart' \in Nat /\ gaps' \in Seq(Gap)
    BY <1>1 DEF LoopTypeOK
  <2>5. breaker' \in Breaker /\ remaining' \in Nat \cup {NONE}
    BY <1>1, <1>3
  <2>6. ok' \in BOOLEAN /\ stopping' \in BOOLEAN
    BY <1>1
  <2>8. Pages \in Nat
    BY LoopAssumption
  <2>9. streams' \in 0 .. Pages
    BY <1>1, <2>8
  <2>7. phase' \in {"asleep", "fetching", "pinging", "returned", "exited"}
    BY <1>1
  <2> QED BY <2>1, <2>2, <2>3, <2>4, <2>5, <2>6, <2>7, <2>9 DEF LoopTypeOK
<1>5. Timely'
  BY <1>1, <1>2 DEF Timely
<1>6. Outages'
  <2>1. Len(gaps) > 0 => Past(gaps[Len(gaps)].endedAt, phase', cycleStart')
    <3> SUFFICES ASSUME Len(gaps) > 0
                 PROVE  Past(gaps[Len(gaps)].endedAt, phase', cycleStart')
      OBVIOUS
    <3>0. gaps \in Seq(Gap) /\ cycleStart \in Nat
      BY DEF LoopTypeOK
    <3>1. gaps[Len(gaps)].endedAt \in Nat /\ cycleStart \in Nat
      <4>1. gaps[Len(gaps)] \in Gap
        BY <3>0
      <4> QED BY <3>0, <4>1 DEF Gap
    <3> QED BY <1>1, <3>1 DEF Past, Outages
  <2> QED BY <1>1, <1>3, <2>1 DEF Outages, GapsAreSeparateOutages
<1> QED BY <1>1, <1>2, <1>4, <1>5, <1>6 DEF StepPost

LEMMA LoopStep == LoopInv /\ [LoopNext]_allVars => StepPost
<1> SUFFICES ASSUME LoopInv, [LoopNext]_allVars PROVE StepPost
  OBVIOUS
<1>1. CASE UNCHANGED allVars
  <2>1. /\ UNCHANGED <<phase, stopping, streams, restarts, cycleStart, fetched, ok, remaining,
                       headerTs, decoded, changedAt, breaker, gaps>>
        /\ UNCHANGED vars
    BY <1>1 DEF allVars, loopVars, process, cycle, cache
  <2>2. IInv'
    BY <2>1, StutterHolds DEF LoopInv
  <2>3. LoopTypeOK'
    BY <2>1, <2>2 DEF LoopInv, LoopTypeOK, IInv
  <2>4. Timely'
    BY <2>1 DEF LoopInv, Timely, vars, trackers
  <2>5. Outages'
    BY <2>1 DEF LoopInv, Outages, Past, GapsAreSeparateOutages
  <2> QED BY <2>1, <2>2, <2>3, <2>4, <2>5 DEF StepPost, LoopInv
<1> QED BY <1>1, BeginHolds, FetchHolds, FinishHolds, RestHolds, RestartHolds
        DEF LoopNext, Work, LeavesStore

-----------------------------------------------------------------------------
(* The marks a backoff leaves.                                             *)

\* What `next` says of backoffs, one call after `tr`: a train just placed is
\* live and unmarked, one never placed is as it was, and any other keeps its
\* last position and its mark, which a backoff sets; and a backoff lets no
\* clock run out.
MarkedAfter(tr, next, backoff) ==
  \/ next.status = "live" /\ ~next.backoffOverlapped
  \/ next.lastSeenAt = NONE /\ (tr # NONE => tr.lastSeenAt = NONE)
  \/ /\ tr # NONE
     /\ next.lastSeenAt = tr.lastSeenAt
     /\ next.backoffOverlapped = (tr.backoffOverlapped \/ backoff)
     /\ backoff /\ tr.coastingElapsed < CoastingTimeout => next.status # "ghost"

LEMMA AdvanceMarks ==
  ASSUME NEW slot \in Slot, NEW snap, NEW now \in Nat, NEW delta \in Nat,
         NEW backoff \in BOOLEAN,
         NEW next, next = Advance(slot, snap, now, delta, backoff),
         next.train # NONE
  PROVE  MarkedAfter(slot.train, next.train, backoff)
<1> DEFINE tr == Touch(slot, snap # NONE, now)
<1>1. /\ tr \in Train
      /\ slot.train = NONE => tr.lastSeenAt = NONE
      /\ slot.train # NONE =>
           /\ tr.lastSeenAt = slot.train.lastSeenAt
           /\ tr.coastingElapsed = slot.train.coastingElapsed
           /\ tr.backoffOverlapped = slot.train.backoffOverlapped
  <2>1. NewTrain \in Train /\ NewTrain.lastSeenAt = NONE
    BY DEF NewTrain, Train, Status
  <2>2. slot.train # NONE => slot.train \in Train
    BY DEF Slot
  <2> QED BY <2>1, <2>2 DEF Touch, IsTracked, Train
<1> HIDE DEF tr
<1>2. CASE snap # NONE /\ snap.hasPosition
  <2>1. next = Confirm(slot, tr, now)
    BY <1>2 DEF Advance, tr
  <2>2. next.train = [tr EXCEPT !.status = "live", !.lastSeenAt = now, !.coastingElapsed = 0,
                                !.backoffOverlapped = FALSE, !.ghostStartedAt = NONE]
    BY <2>1 DEF Confirm
  <2>3. next.train.status = "live" /\ next.train.backoffOverlapped = FALSE
    BY <1>1, <2>2 DEF Train
  <2> QED BY <2>3 DEF MarkedAfter
<1>3. CASE ~(snap # NONE /\ snap.hasPosition) /\ tr.lastSeenAt = NONE
  <2>1. next = Vanish(slot, tr, now, tr.ghostStartedAt)
    <3>1. ~IsTracked(slot) /\ snap = NONE => next.train = NONE
      BY DEF Advance, IsTracked
    <3> QED BY <1>3, <3>1 DEF Advance, tr
  <2>2. next.train.lastSeenAt = NONE
    <3>1. slot.resolved = NONE => next.train = Faded(tr, tr.ghostStartedAt)
      BY <2>1 DEF Vanish, Faded, Slot
    <3>2. slot.resolved # NONE => next.train = NONE
      BY <2>1 DEF Vanish, Drop
    <3> QED BY <1>1, <1>3, <3>1, <3>2 DEF Faded, Train
  <2> QED BY <1>1, <1>3, <2>2 DEF MarkedAfter
<1>4. CASE ~(snap # NONE /\ snap.hasPosition) /\ tr.lastSeenAt # NONE
  <2> DEFINE aged == Age(tr, delta, backoff)
             startedAt == IF tr.status = "ghost" THEN tr.ghostStartedAt ELSE now
  <2>1. slot.train # NONE /\ next = Coast(slot, tr, now, delta, backoff)
    BY <1>1, <1>4 DEF Advance, IsTracked, tr
  <2>2. /\ aged \in Train
        /\ aged.lastSeenAt = tr.lastSeenAt
        /\ aged.backoffOverlapped = (tr.backoffOverlapped \/ backoff)
        /\ backoff => aged.coastingElapsed = tr.coastingElapsed
    <3>1. CASE backoff
      <4>1. aged = [tr EXCEPT !.backoffOverlapped = TRUE]
        BY <3>1 DEF Age
      <4> QED BY <1>1, <3>1, <4>1 DEF Train
    <3>2. CASE ~backoff
      <4>1. aged = [tr EXCEPT !.coastingElapsed = tr.coastingElapsed + delta]
        BY <3>2 DEF Age
      <4> QED BY <1>1, <3>2, <4>1 DEF Train
    <3> QED BY <3>1, <3>2
  <2> HIDE DEF aged
  <2>3. CASE aged.coastingElapsed >= CoastingTimeout
    <3>1. next = Vanish(slot, aged, now, startedAt)
      BY <2>1, <2>3 DEF Coast, aged
    <3> HIDE DEF startedAt
    <3>2. slot.resolved # NONE => next.train = NONE
      BY <3>1 DEF Vanish, Drop
    <3>3. slot.resolved = NONE => next.train = Faded(aged, startedAt)
      BY <3>1 DEF Vanish, Faded, Slot
    <3>4. /\ next.train.lastSeenAt = aged.lastSeenAt
          /\ next.train.backoffOverlapped = aged.backoffOverlapped
      BY <2>2, <3>2, <3>3 DEF Faded, Train
    <3>5. backoff => ~(slot.train.coastingElapsed < CoastingTimeout)
      <4>1. slot.train.coastingElapsed \in Nat /\ CoastingTimeout \in Nat
        BY <2>1, LifecycleAssumption DEF Slot, Train
      <4> QED BY <1>1, <2>1, <2>2, <2>3, <4>1
    <3> QED BY <1>1, <2>1, <2>2, <3>4, <3>5 DEF MarkedAfter
  <2>4. CASE ~(aged.coastingElapsed >= CoastingTimeout)
    <3>1. next = [slot EXCEPT !.train = [aged EXCEPT !.status = "coasting"]]
      BY <2>1, <2>4 DEF Coast, aged
    <3>2. next.train = [aged EXCEPT !.status = "coasting"]
      BY <3>1 DEF Slot
    <3>3. /\ next.train.lastSeenAt = aged.lastSeenAt
          /\ next.train.backoffOverlapped = aged.backoffOverlapped
          /\ next.train.status = "coasting"
      BY <2>2, <3>2 DEF Train
    <3> QED BY <1>1, <2>1, <2>2, <3>3 DEF MarkedAfter
  <2> QED BY <2>3, <2>4
<1> QED BY <1>2, <1>3, <1>4

\* The fields of a slot.
Parts == {"train", "resolved", "events"}

LEMMA AdvanceParts ==
  ASSUME NEW slot \in Slot, NEW snap, NEW now, NEW delta, NEW backoff
  PROVE  DOMAIN Advance(slot, snap, now, delta, backoff) = Parts
<1>1. DOMAIN slot = Parts
  BY DEF Slot, Parts
<1>2. ASSUME NEW tr, NEW startedAt
      PROVE  DOMAIN Vanish(slot, tr, now, startedAt) = Parts
  BY <1>1 DEF Vanish, Drop, Parts
<1>3. ASSUME NEW tr
      PROVE  DOMAIN Coast(slot, tr, now, delta, backoff) = Parts
  BY <1>1, <1>2 DEF Coast
<1>4. ASSUME NEW tr
      PROVE  DOMAIN Confirm(slot, tr, now) = Parts
  BY DEF Confirm, Parts
<1> QED BY <1>1, <1>2, <1>3, <1>4 DEF Advance

\* Eviction and a recorded outcome may end a train; they change no other.
LEMMA SettledMarks ==
  ASSUME NEW slot \in Slot, NEW snap, NEW now \in Nat, NEW delta \in Nat,
         NEW backoff \in BOOLEAN, NEW outcome,
         NEW next,
         next = Settle(LifecycleTick(slot, snap, now, delta, backoff), outcome, now),
         next.train # NONE
  PROVE  MarkedAfter(slot.train, next.train, backoff)
<1> DEFINE quiet == [slot EXCEPT !.events = <<>>]
           ahead == Advance(quiet, snap, now, delta, backoff)
           ticked == Evict(ahead, now)
<1>1. quiet \in Slot /\ quiet.train = slot.train
  <2>1. quiet = [train |-> slot.train, resolved |-> slot.resolved, events |-> <<>>]
    BY DEF Slot
  <2>2. quiet.train = slot.train /\ <<>> \in Seq(GhostEvent)
    BY <2>1
  <2>3. slot.train \in Train \cup {NONE} /\ slot.resolved \in Remembered \cup {NONE}
    BY DEF Slot
  <2> HIDE DEF quiet
  <2> QED BY <2>1, <2>2, <2>3, SlotTyped
<1>2. next = Settle(ticked, outcome, now)
  BY DEF LifecycleTick
<1> HIDE DEF quiet, ahead, ticked
<1>3. ahead.train # NONE => MarkedAfter(slot.train, ahead.train, backoff)
  BY <1>1, AdvanceMarks DEF ahead
<1>4. DOMAIN ahead = Parts
  BY <1>1, AdvanceParts DEF ahead
<1>5. DOMAIN ticked = Parts /\ ticked.train \in {ahead.train, NONE}
  BY <1>4 DEF ticked, Evict, Drop, Parts
<1>6. next.train \in {ticked.train, NONE}
  BY <1>2, <1>5 DEF Settle, MarkResolved, Parts
<1> QED BY <1>3, <1>5, <1>6

\* What a finished cycle does to the trains that are still tracked.
LEMMA Told ==
  ASSUME LoopInv, FinishCycle, NEW t \in Trips, lifecycle'[t].train # NONE
  PROVE  MarkedAfter(lifecycle[t].train, lifecycle'[t].train, BackoffActive(breaker'))
<1> DEFINE backoff == BackoffActive(breaker')
<1>1. TellStore(backoff)
  BY DEF FinishCycle
<1>2. \E f \in FeedNames : decoded[f] # NONE
  <2> SUFFICES ASSUME ~\E f \in FeedNames : decoded[f] # NONE PROVE FALSE
    OBVIOUS
  <2>1. lifecycle' = lifecycle /\ lastTickAt = NONE
    BY <1>1 DEF TellStore, vars, trackers, LoopInv, Timely
  <2> QED BY <2>1 DEF LoopInv, IInv, EmptySlot
<1>3. PICK known \in Lookups, stopOf \in StopsNow :
        Ingest(FeedDict(TU), FeedDict(VP), Alerts, cycleStart, backoff, known, stopOf)
  BY <1>1, <1>2 DEF TellStore
<1> DEFINE snaps == MergedSnapshots(FeedDict(TU), FeedDict(VP))
           settled == CompletionsAfter(snaps, known, cycleStart)
<1>4. lifecycle' = LifecyclesAfter(snaps, settled, cycleStart, backoff)
  BY <1>3 DEF Ingest
<1>5. cycleStart \in Nat /\ Elapsed(cycleStart) \in Nat
  BY StoreAssumption DEF LoopInv, LoopTypeOK, TypeOK, Timely, FinishCycle, Elapsed
<1>6. lifecycle[t] \in Slot /\ backoff \in BOOLEAN
  BY DEF LoopInv, IInv, TypeOK, BackoffActive
<1> HIDE DEF snaps, settled, backoff
<1>7. lifecycle'[t] = Settle(LifecycleTick(lifecycle[t], snaps[t], cycleStart,
                                           Elapsed(cycleStart), backoff),
                             settled[t].outcome, cycleStart)
  BY <1>4 DEF LifecyclesAfter
<1> QED BY <1>5, <1>6, <1>7, SettledMarks DEF backoff

\* While a backoff lasts every train not live is marked, and a mark has its
\* outage: what BackoffMarksTheAbsent and OverlapIsExplained need of every phase.
MarksInv ==
  /\ BackoffActive(breaker) =>
       \A t \in Trips : EverSeen(t) /\ train(t).status # "live" => train(t).backoffOverlapped
  /\ OverlapIsExplained

\* A train not seen again was last seen before this cycle.
LEMMA SeenBefore ==
  ASSUME LoopInv, phase = "fetching", NEW t \in Trips, EverSeen(t)
  PROVE  /\ train(t) \in Train
         /\ train(t).lastSeenAt \in Nat
         /\ train(t).lastSeenAt < cycleStart
         /\ train(t).status # "ghost" => train(t).coastingElapsed < CoastingTimeout
<1>1. train(t) \in Train
  BY DEF LoopInv, IInv, TypeOK, Slot, EverSeen, Tracked, IsTracked, train
<1>2. lastTickAt # NONE /\ lastTickAt \in Nat
  BY DEF LoopInv, IInv, TypeOK, EmptySlot, EverSeen, Tracked, IsTracked
<1>3. TrainClock(train(t), lastTickAt)
  BY <1>2 DEF LoopInv, IInv, TripInv, TrainInv, TrainShape, EverSeen, Tracked, IsTracked, train
<1>4. lastTickAt < cycleStart /\ cycleStart \in Nat
  BY <1>2, StoreAssumption DEF LoopInv, LoopTypeOK, Timely
<1>5. train(t).lastSeenAt \in Nat /\ train(t).lastSeenAt <= lastTickAt
  BY <1>1, <1>3 DEF EverSeen, TrainClock, Train
<1>6. train(t).status # "ghost" => train(t).coastingElapsed < CoastingTimeout
  BY <1>1, <1>3, LifecycleAssumption DEF EverSeen, TrainClock, Train
<1> QED BY <1>1, <1>2, <1>4, <1>5, <1>6

LEMMA FinishMarks ==
  ASSUME LoopInv, MarksInv, FinishCycle
  PROVE  /\ MarksInv'
         /\ BackoffActive(breaker') =>
              \A t \in Trips : IsVisible(lifecycle[t]) => ~IsGhost(lifecycle'[t])
<1>1. phase = "fetching" /\ gaps \in Seq(Gap) /\ cycleStart \in Nat
  BY DEF FinishCycle, LoopInv, LoopTypeOK
<1>2. ASSUME NEW t \in Trips, lifecycle'[t].train # NONE, lifecycle'[t].train.lastSeenAt # NONE
      PROVE  \/ /\ lifecycle'[t].train.status = "live"
                /\ ~lifecycle'[t].train.backoffOverlapped
             \/ /\ EverSeen(t)
                /\ lifecycle'[t].train.lastSeenAt = train(t).lastSeenAt
                /\ lifecycle'[t].train.backoffOverlapped
                     = (train(t).backoffOverlapped \/ BackoffActive(breaker'))
                /\ BackoffActive(breaker') /\ train(t).coastingElapsed < CoastingTimeout
                     => lifecycle'[t].train.status # "ghost"
  BY <1>2, Told DEF MarkedAfter, EverSeen, Tracked, IsTracked, train
<1>3. ASSUME BackoffActive(breaker'), NEW t \in Trips, EverSeen(t)', train(t)'.status # "live"
      PROVE  train(t)'.backoffOverlapped
  BY <1>2, <1>3 DEF EverSeen, Tracked, IsTracked, train
<1>4. ASSUME NEW t \in Trips, EverSeen(t)', train(t)'.backoffOverlapped, ~BackoffActive(breaker')
      PROVE  \E i \in 1 .. Len(gaps') : gaps'[i].endedAt > train(t)'.lastSeenAt
  <2>1. /\ EverSeen(t)
        /\ train(t)'.lastSeenAt = train(t).lastSeenAt
        /\ train(t).backoffOverlapped
    BY <1>2, <1>4 DEF EverSeen, Tracked, IsTracked, train
  <2>2. train(t).lastSeenAt \in Nat /\ train(t).lastSeenAt < cycleStart
    BY <1>1, <2>1, SeenBefore
  <2>3. CASE gaps' = gaps /\ (BackoffActive(breaker) => BackoffActive(breaker'))
    BY <1>4, <2>1, <2>3 DEF MarksInv, OverlapIsExplained
  <2>4. CASE \E gap \in Gap : gaps' = Append(gaps, gap) /\ gap.endedAt = cycleStart
    <3>1. PICK gap \in Gap : gaps' = Append(gaps, gap) /\ gap.endedAt = cycleStart
      BY <2>4
    <3>2. Len(gaps') \in 1 .. Len(gaps') /\ gaps'[Len(gaps')] = gap
      BY <1>1, <3>1
    <3>3. gaps'[Len(gaps')].endedAt > train(t)'.lastSeenAt
      BY <2>1, <2>2, <3>1, <3>2, <1>1
    <3> QED BY <3>2, <3>3
  <2> QED BY <2>3, <2>4, BreakerSteps DEF LoopInv
<1>5. MarksInv'
  BY <1>3, <1>4 DEF MarksInv, OverlapIsExplained
<1>6. ASSUME BackoffActive(breaker'), NEW t \in Trips, IsVisible(lifecycle[t]),
             IsGhost(lifecycle'[t])
      PROVE  FALSE
  <2>1. EverSeen(t) /\ train(t).status # "ghost"
    BY <1>6 DEF LoopInv, IInv, EmptySlot, TripInv, TrainInv, TrainShape, TrainClock,
                IsVisible, EverSeen, Tracked, IsTracked, train
  <2>2. train(t).coastingElapsed < CoastingTimeout
    BY <1>1, <2>1, SeenBefore
  <2>3. lifecycle'[t].train # NONE /\ lifecycle'[t].train.status = "ghost"
    BY <1>6 DEF IsGhost, IsTracked
  <2>4. MarkedAfter(train(t), lifecycle'[t].train, BackoffActive(breaker'))
    BY <2>3, Told DEF train
  <2> QED BY <1>6, <2>1, <2>2, <2>3, <2>4 DEF MarkedAfter, EverSeen, Tracked, IsTracked, train
<1> QED BY <1>5, <1>6

\* No other step touches a train, the breaker or the log; a restart forgets.
LEMMA MarksStep ==
  ASSUME LoopInv, MarksInv, [LoopNext]_allVars
  PROVE  /\ MarksInv'
         /\ BackoffActive(breaker') =>
              \A t \in Trips : IsVisible(lifecycle[t]) => ~IsGhost(lifecycle'[t])
<1>1. CASE FinishCycle
  BY <1>1, FinishMarks
<1>2. CASE Restart
  <2>1. \A t \in Trips : lifecycle'[t].train = NONE
    BY <1>2 DEF Restart, Forget, EmptySlot
  <2>2. breaker' = Closed
    BY <1>2 DEF Restart
  <2>3. ~BackoffActive(breaker')
    BY <2>2 DEF Closed, BackoffActive
  <2> QED BY <2>1, <2>3 DEF MarksInv, OverlapIsExplained, EverSeen, Tracked, IsTracked
<1>3. CASE BeginCycle \/ FetchStep \/ LeavesStore \/ UNCHANGED allVars
  <2>1. UNCHANGED <<breaker, gaps, lifecycle>>
    <3>1. BeginCycle \/ FetchStep => UNCHANGED <<breaker, gaps, vars>>
      BY DEF BeginCycle, FetchStep, AuthRejected, RequestFailed, DecodeFailed, Fetched
    <3>2. LeavesStore => UNCHANGED <<breaker, gaps, vars>>
      BY DEF LeavesStore, Ping, Return, Exit, StopSignal, OpenStream, CloseStream
    <3>3. UNCHANGED allVars => UNCHANGED <<breaker, gaps, vars>>
      BY DEF allVars, loopVars
    <3> QED BY <1>3, <3>1, <3>2, <3>3 DEF vars, trackers
  <2> QED BY <2>1 DEF MarksInv, OverlapIsExplained, EverSeen, Tracked, IsTracked, train,
                      IsVisible, IsGhost
<1> QED BY <1>1, <1>2, <1>3 DEF LoopNext, Work, LeavesStore

-----------------------------------------------------------------------------
(* The theorems.                                                           *)

\* The inductive invariant holds of every reachable state of the process.
THEOREM LoopInductive == LoopSpec => []LoopInv
<1>1. LoopInv /\ [LoopNext]_allVars => LoopInv'
  BY LoopStep DEF StepPost
<1> QED BY <1>1, LoopInitHolds, PTL DEF LoopSpec

\* The process calls the store as StateStore lets it be called (run_cycle).
THEOREM ContractKept == LoopSpec => StoreContract
<1>1. LoopInit => Init
  BY DEF LoopInit
<1>2. LoopInv /\ [LoopNext]_allVars => [Next \/ Forget]_vars
  BY LoopStep DEF StepPost
<1> QED BY <1>1, <1>2, LoopInductive, PTL DEF LoopSpec, StoreContract

\* Types of the whole process.
THEOREM LoopTypeCorrect == LoopSpec => []LoopTypeOK
<1>1. LoopInv => LoopTypeOK
  BY DEF LoopInv
<1> QED BY <1>1, LoopInductive, PTL

\* Every row of the outage log is an outage of its own (_escalate, _recover).
THEOREM OutagesSeparate == LoopSpec => []GapsAreSeparateOutages
<1>1. LoopInv => GapsAreSeparateOutages
  BY DEF LoopInv, Outages
<1> QED BY <1>1, LoopInductive, PTL

\* The store's invariants hold inside the process, through failures, backoffs
\* and restarts.
THEOREM StoreInProcess == LoopSpec => []IInv
<1>1. LoopInv => IInv
  BY DEF LoopInv
<1> QED BY <1>1, LoopInductive, PTL

\* The marks and the log of outages agree at every step of the process.
THEOREM MarksInductive == LoopSpec => []MarksInv
<1>1. LoopInit => MarksInv
  <2> SUFFICES ASSUME LoopInit PROVE MarksInv
    OBVIOUS
  <2>1. \A t \in Trips : lifecycle[t].train = NONE
    BY DEF LoopInit, Init, EmptySlot
  <2> QED BY <2>1 DEF MarksInv, OverlapIsExplained, EverSeen, Tracked, IsTracked
<1>2. LoopInv /\ MarksInv /\ [LoopNext]_allVars => MarksInv'
  BY MarksStep
<1> QED BY <1>1, <1>2, LoopInductive, PTL DEF LoopSpec

\* A train marked as overlapped by a backoff has an outage, open or in the log,
\* after its last position (ghost.py _advance, breaker.py _recover).
THEOREM OverlapExplained == LoopSpec => []OverlapIsExplained
<1>1. MarksInv => OverlapIsExplained
  BY DEF MarksInv
<1> QED BY <1>1, MarksInductive, PTL

\* While a backoff lasts, every train that is not live is marked.
THEOREM AbsentMarked == LoopSpec => []BackoffMarksTheAbsent
<1>1. MarksInv => BackoffMarksTheAbsent
  BY DEF MarksInv, BackoffMarksTheAbsent
<1> QED BY <1>1, MarksInductive, PTL

\* No cycle that leaves the breaker backing off turns a train on the map into a
\* ghost.
THEOREM NoGhostOfABackoff == LoopSpec => BackoffGhostsNoTrain
<1>1. LoopInv /\ MarksInv /\ [LoopNext]_allVars =>
        [BackoffActive(breaker') =>
           \A t \in Trips : IsVisible(lifecycle[t]) => ~IsGhost(lifecycle'[t])]_allVars
  BY MarksStep
<1> QED BY <1>1, LoopInductive, MarksInductive, PTL DEF LoopSpec, BackoffGhostsNoTrain

=============================================================================
