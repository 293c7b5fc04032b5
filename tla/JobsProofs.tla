----------------------------- MODULE JobsProofs -----------------------------
(***************************************************************************)
(* The digest and the insights rollups, for any length of the week and any *)
(* number of failures and deaths: a week is marked only once on record, in *)
(* rows that tell what Slack took, a repeated attempt is owed to a failure *)
(* or a death, and a finalized date counts every completion.  The last     *)
(* needs the store: a date is finalized after its last row, because the    *)
(* cycle that finalizes it already writes the next.                        *)
(***************************************************************************)
EXTENDS PollJobs, TLAPS

\* While no file is damaged, a file is not there or holds all it was given.
StoreInv ==
  /\ StoreTypeOK
  /\ cycle # NoDay => cycle <= now /\ conn = ServiceDate(cycle) /\ now <= Boundary(conn + 1)
  /\ conn # NoDay => live[conn].kind = "whole"
  /\ \A d \in Days : \/ live[d].kind = "whole" /\ live[d].rows = written[d]
                     \/ live[d].kind = "missing" /\ written[d] = NoRows

TailTypeOK ==
  /\ tail \in Tails
  /\ tail = "rest" <=> cycle = NoDay

Unsettled == tail \in {"store", "mark"}

DigestInv ==
  /\ fired \in Sidecar /\ sent \in Outcomes
  /\ posts \in [Mondays -> Tally] /\ digests \in [Mondays -> Tally]
  /\ mishaps \in 0 .. MaxMishaps /\ repeated \in [Mondays -> 0 .. MaxMishaps]
  /\ \A m \in Mondays : repeated[m] <= mishaps
  /\ RepeatsAreExplained
  /\ \A m \in Mondays : (m > fired.last /\ ~(Unsettled /\ m = InHand)) => Total(posts[m]) <= repeated[m]
  /\ FiredIsOnRecord
  /\ tail \in {"compose", "post", "store", "mark"} => fired.last < InHand
  /\ tail = "post" => Total(posts[InHand]) < MaxPosts
  /\ tail = "store" => digests[InHand][sent] < posts[InHand][sent]
  /\ tail = "mark" => OnRecord(InHand)

\* Nothing is finalized before its date is over, nor rolled up after.
InsightsInv ==
  /\ finalized \in Sidecar
  /\ rollup \in [Days -> {NoRollup, PartRollup} \cup 0 .. MaxRows]
  /\ finalized.last < ServiceDate(now)
  /\ cycle # NoDay => finalized.last < ServiceDate(cycle)
  /\ FinalizedIsWhole
  /\ tail \in {"finalize", "final mark"} => finalized.last < Yesterday(cycle)
  /\ tail = "final mark" =>
       Yesterday(cycle) \in Days /\ rollup[Yesterday(cycle)] = written[Yesterday(cycle)][Completions]

JobsInv == StoreInv /\ TailTypeOK /\ DigestInv /\ InsightsInv

-----------------------------------------------------------------------------
(* Files, dates and Mondays.                                               *)

LEMMA FileKinds ==
  ASSUME NEW f \in Files
  PROVE  /\ f.kind = "whole" => f.rows \in Rows /\ f = Whole(f.rows)
         /\ f.rows \in Rows
BY StoreAssumption DEF Files, Whole, Missing, Zero, Torn, Rows, NoRows

LEMMA FilesHold ==
  /\ Missing \in Files /\ NoRows \in Rows
  /\ \A r \in Rows : Whole(r) \in Files /\ Whole(r).kind = "whole" /\ Whole(r).rows = r
<1>1. \A r \in Rows : Whole(r) \in Files /\ Whole(r).kind = "whole" /\ Whole(r).rows = r
  BY DEF Files, Whole
<1>2. NoRows \in Rows /\ Missing \in Files
  BY StoreAssumption DEF Rows, NoRows, Files
<1> QED BY <1>1, <1>2

LEMMA DatesPass ==
  ASSUME NEW a \in Instants
  PROVE  /\ ServiceDate(a) \in Days /\ a <= Boundary(ServiceDate(a) + 1)
         /\ \A b \in Instants : a <= b => ServiceDate(a) <= ServiceDate(b)
  BY StoreAssumption DEF Instants, Days, ServiceDate, Boundary

\* The Monday a digest fires for is one of the Mondays.
LEMMA FiringIsMonday ==
  ASSUME NEW n \in Instants
  PROVE  FiringMonday(n) \in Mondays /\ FiringMonday(n) \in Int
<1> DEFINE day == ((n + 1) \div 2) - 1
           monday == (day \div WeekDays) * WeekDays
<1>1. day \in -1 .. LastDay /\ WeekDays \in Nat \ {0} /\ LastDay \in Nat
  BY StoreAssumption, JobsAssumption DEF Instants
<1> HIDE DEF day
<1>2. \A w \in Nat \ {0} : (-1) \div w = -1 /\ (-1) * w = -w
  OBVIOUS
<1>3. \A w \in Nat \ {0}, d \in Nat :
        /\ (d \div w) \in Nat /\ (d \div w) * w \in 0 .. d /\ ((d \div w) * w) % w = 0
  <2> SUFFICES ASSUME NEW w \in Nat \ {0}, NEW d \in Nat
               PROVE  (d \div w) \in Nat /\ (d \div w) * w \in 0 .. d /\ ((d \div w) * w) % w = 0
    OBVIOUS
  <2>1. (d \div w) \in Nat /\ w * (d \div w) <= d
    OBVIOUS
  <2>2. \A q \in Nat : (q * w) % w = 0 /\ q * w = w * q /\ q * w \in Nat
    OBVIOUS
  <2> QED BY <2>1, <2>2
<1>4. CASE day = -1
  BY <1>1, <1>2, <1>4 DEF Mondays, FiringMonday, day
<1>5. CASE day \in 0 .. LastDay
  <2>1. monday \in 0 .. LastDay /\ monday % WeekDays = 0
    BY <1>1, <1>3, <1>5
  <2> QED BY <2>1 DEF Mondays, FiringMonday, day, Days
<1> QED BY <1>1, <1>4, <1>5

LEMMA MondaysAreDates ==
  /\ Mondays \subseteq Int /\ Days \subseteq Int /\ Never \in Int
  /\ \A m \in Mondays : m > Never
  BY StoreAssumption, JobsAssumption DEF Mondays, Days, Never

LEMMA SidecarTyped ==
  ASSUME NEW s \in Sidecar, NEW d \in Days \cup Mondays \cup {Never}
  PROVE  /\ s.last \in Int /\ s.last \in Days \cup Mondays \cup {Never}
         /\ Marked(d) \in Sidecar /\ Marked(d).last = d
         /\ Spoiled(s) \in Sidecar /\ Spoiled(s).last = s.last
<1>1. Marked(d) \in Sidecar /\ Marked(d).last = d
  BY DEF Marked, Sidecar
<1>2. Spoiled(s) \in Sidecar /\ Spoiled(s).last = s.last
  BY DEF Spoiled, Sidecar
<1>3. s.last \in Int /\ s.last \in Days \cup Mondays \cup {Never}
  BY MondaysAreDates DEF Sidecar
<1> QED BY <1>1, <1>2, <1>3

LEMMA Cycling ==
  ASSUME JobsInv, tail # "rest"
  PROVE  /\ cycle \in Instants /\ cycle # NoDay /\ cycle <= now
         /\ InHand \in Mondays /\ InHand \in Int
         /\ conn = ServiceDate(cycle) /\ conn \in Days
         /\ Yesterday(cycle) \in Int /\ Yesterday(cycle) = ServiceDate(cycle) - 1
<1>1. cycle \in Instants /\ cycle # NoDay /\ cycle <= now /\ conn = ServiceDate(cycle)
  BY DEF JobsInv, StoreInv, StoreTypeOK, TailTypeOK
<1>2. ServiceDate(cycle) \in Days /\ InHand \in Mondays /\ InHand \in Int
  BY <1>1, DatesPass, FiringIsMonday DEF InHand
<1> QED BY <1>1, <1>2 DEF Yesterday, Days

LEMMA OpenDate ==
  ASSUME JobsInv, tail # "rest"
  PROVE  finalized.last \in Int /\ finalized.last < ServiceDate(cycle) /\ finalized.last # ServiceDate(cycle)
<1>1. finalized.last < ServiceDate(cycle)
  BY Cycling DEF JobsInv, InsightsInv
<1>2. ServiceDate(cycle) \in Int
  BY Cycling, MondaysAreDates
<1>3. finalized.last \in Int
  BY SidecarTyped DEF JobsInv, InsightsInv
<1> QED BY <1>1, <1>2, <1>3

-----------------------------------------------------------------------------
(* Steps that leave a part of the invariant alone.                         *)

LEMMA StoreKeeps ==
  ASSUME JobsInv, UNCHANGED storeVars
  PROVE  StoreInv'
  BY DEF JobsInv, StoreInv, StoreTypeOK, storeVars

LEMMA DigestKeeps ==
  ASSUME JobsInv, UNCHANGED <<digest, faults>>,
         \/ tail' = tail /\ cycle' = cycle
         \/ ~Unsettled /\ tail' \notin {"compose", "post", "store", "mark"}
  PROVE  DigestInv'
<1>1. UNCHANGED <<fired, sent, posts, digests, mishaps, repeated>>
  BY DEF digest, faults
<1>2. FiredIsOnRecord' /\ RepeatsAreExplained'
  BY <1>1 DEF JobsInv, DigestInv, FiredIsOnRecord, RepeatsAreExplained, OnRecord
<1>3. CASE tail' = tail /\ cycle' = cycle
  BY <1>1, <1>2, <1>3 DEF JobsInv, DigestInv, Unsettled, InHand, OnRecord
<1>4. CASE ~Unsettled /\ tail' \notin {"compose", "post", "store", "mark"}
  BY <1>1, <1>2, <1>4 DEF JobsInv, DigestInv, Unsettled
<1> QED BY <1>3, <1>4

LEMMA StillPast ==
  ASSUME JobsInv, now' \in Instants, now' >= now
  PROVE  finalized.last < ServiceDate(now')
<1>1. /\ ServiceDate(now) <= ServiceDate(now')
      /\ ServiceDate(now) \in Days /\ ServiceDate(now') \in Days /\ finalized.last \in Int
  BY DatesPass, SidecarTyped DEF JobsInv, InsightsInv, StoreInv, StoreTypeOK
<1>2. finalized.last < ServiceDate(now)
  BY DEF JobsInv, InsightsInv
<1>3. ServiceDate(now) \in Int /\ ServiceDate(now') \in Int
  BY <1>1, MondaysAreDates
<1>4. \A a, b, c \in Int : a < b /\ b <= c => a < c
  OBVIOUS
<1> QED BY <1>1, <1>2, <1>3, <1>4, Zenon

LEMMA InsightsKeep ==
  ASSUME JobsInv, UNCHANGED <<insights, written>>, now' \in Instants, now' >= now,
         \/ tail' = tail /\ cycle' = cycle
         \/ /\ tail' # "finalize" /\ tail' # "final mark"
            /\ cycle' = cycle \/ cycle' = now \/ cycle' = NoDay
  PROVE  InsightsInv'
<1>1. /\ UNCHANGED <<finalized, rollup, written>> /\ now \in Instants
      /\ finalized.last \in Int /\ ServiceDate(now) <= ServiceDate(now')
      /\ ServiceDate(now) \in Int /\ ServiceDate(now') \in Int
  BY SidecarTyped, DatesPass, MondaysAreDates
     DEF insights, JobsInv, InsightsInv, StoreInv, StoreTypeOK, Sidecar, Days
<1>2. FinalizedIsWhole'
  BY <1>1 DEF JobsInv, InsightsInv, FinalizedIsWhole
<1>3. ServiceDate(now)' = ServiceDate(now') /\ ServiceDate(cycle)' = ServiceDate(cycle')
  BY DEF ServiceDate
<1>4. finalized.last < ServiceDate(now')
  BY StillPast
<1>5. CASE tail' = tail /\ cycle' = cycle
  BY <1>1, <1>2, <1>3, <1>4, <1>5 DEF JobsInv, InsightsInv, Yesterday
<1>6. CASE /\ tail' # "finalize" /\ tail' # "final mark"
           /\ cycle' = cycle \/ cycle' = now \/ cycle' = NoDay
  <2>1. cycle' # NoDay => finalized.last < ServiceDate(cycle')
    BY <1>6 DEF JobsInv, InsightsInv
  <2> QED BY <1>1, <1>2, <1>3, <1>4, <1>6, <2>1 DEF JobsInv, InsightsInv
<1> QED BY <1>5, <1>6

-----------------------------------------------------------------------------
(* The writer.                                                             *)

LEMMA TickStep ==
  ASSUME JobsInv, Tick, UNCHANGED jobVars
  PROVE  JobsInv'
<1>1. /\ now' \in Instants /\ now \in Instants /\ now' = now + 1 /\ now' >= now
      /\ UNCHANGED <<conn, cycle, live, written, tail>> /\ UNCHANGED <<digest, faults, insights>>
  BY DEF Tick, Instants, JobsInv, StoreInv, StoreTypeOK, jobVars, digest, faults, insights
<1>2. StoreInv'
  <2>1. StoreTypeOK'
    BY <1>1 DEF JobsInv, StoreInv, StoreTypeOK
  <2>2. cycle # NoDay => cycle <= now' /\ now' <= Boundary(conn + 1)
    BY <1>1 DEF Tick, JobsInv, StoreInv, StoreTypeOK, Instants, NoDay
  <2> QED BY <1>1, <2>1, <2>2 DEF JobsInv, StoreInv
<1>3. TailTypeOK'
  BY <1>1 DEF JobsInv, TailTypeOK
<1> QED BY <1>1, <1>2, <1>3, DigestKeeps, InsightsKeep DEF JobsInv

LEMMA RotateStep ==
  ASSUME JobsInv, Rotate, Goes("rest", "feeds"), UNCHANGED <<digest, insights, faults>>
  PROVE  JobsInv'
<1> DEFINE today == ServiceDate(now)
<1>1. today \in Days /\ now <= Boundary(today + 1) /\ StoreTypeOK /\ now \in Instants
  BY DatesPass DEF JobsInv, StoreInv, StoreTypeOK
<1>2. now' = now /\ conn' = today /\ cycle' = now /\ written' = written
  BY DEF Rotate
<1> HIDE DEF today
<1>3. /\ live' \in [Days -> Files]
      /\ live'[today].kind = "whole" /\ live'[today].rows = written[today]
      /\ \A d \in Days \ {today} : live'[d] = live[d]
  <2>1. CASE conn = today
    <3>1. live' = live /\ live[today].kind = "whole"
      BY <1>1, <2>1 DEF Rotate, today, JobsInv, StoreInv, Days, NoDay
    <3> QED BY <1>1, <3>1 DEF JobsInv, StoreInv, StoreTypeOK
  <2>2. CASE conn # today
    <3>1. live' = [live EXCEPT ![today] = Opened(live[today])]
      BY <2>2 DEF Rotate, today
    <3>2. /\ Opened(live[today]) \in Files
          /\ Opened(live[today]).kind = "whole" /\ Opened(live[today]).rows = written[today]
      BY <1>1, FilesHold DEF Opened, JobsInv, StoreInv, StoreTypeOK
    <3> QED BY <3>1, <3>2, <1>1 DEF StoreTypeOK
  <2> QED BY <2>1, <2>2
<1>4. StoreTypeOK'
  BY <1>1, <1>2, <1>3 DEF StoreTypeOK
<1>5. StoreInv'
  BY <1>1, <1>2, <1>3, <1>4 DEF JobsInv, StoreInv, today, Instants, ServiceDate
<1>6. TailTypeOK'
  BY <1>1, <1>2, StoreAssumption DEF Goes, TailTypeOK, Tails, Instants, NoDay
<1>7. DigestInv'
  BY DigestKeeps DEF Goes, Unsettled
<1>8. InsightsInv'
  BY <1>1, <1>2, InsightsKeep DEF Goes, Instants
<1> QED BY <1>5, <1>6, <1>7, <1>8 DEF JobsInv

\* A row goes to the date of the cycle, which is not finalized.
LEMMA RecordStep ==
  ASSUME JobsInv, NEW t \in Tables, Record(t), Goes("feeds", "feeds"),
         UNCHANGED <<digest, insights, faults>>
  PROVE  JobsInv'
<1>1. /\ conn \in Days /\ conn = ServiceDate(cycle) /\ StoreTypeOK
      /\ live[conn].kind = "whole" /\ live[conn].rows = written[conn] /\ written[conn] \in Rows
  BY Cycling DEF Goes, JobsInv, StoreInv, StoreTypeOK, Days, NoDay
<1>2. AddRow(written[conn], t) \in Rows
  BY <1>1, StoreAssumption DEF AddRow, Rows, Record
<1>3. /\ live' = [live EXCEPT ![conn] = Whole(AddRow(written[conn], t))]
      /\ written' = [written EXCEPT ![conn] = AddRow(written[conn], t)]
      /\ UNCHANGED <<now, conn, cycle>>
  <2>1. live[conn] = Whole(written[conn])
    BY <1>1, FileKinds DEF StoreTypeOK
  <2>2. ASSUME NEW w, NEW r PROVE [Whole(w) EXCEPT !.rows = r] = Whole(r)
    <3>1. [Whole(w) EXCEPT !.rows = r] = [f \in {"kind", "rows"} |-> IF f = "rows" THEN r ELSE Whole(w)[f]]
      BY DEF Whole
    <3>2. Whole(r) = [f \in {"kind", "rows"} |-> IF f = "rows" THEN r ELSE "whole"]
      BY DEF Whole
    <3> QED BY <3>1, <3>2 DEF Whole
  <2>3. live' = [live EXCEPT ![conn] = [live[conn] EXCEPT !.rows = AddRow(live[conn].rows, t)]]
    BY DEF Record
  <2>4. [live[conn] EXCEPT !.rows = AddRow(live[conn].rows, t)] = Whole(AddRow(written[conn], t))
    BY <1>1, <2>1, <2>2
  <2> QED BY <2>3, <2>4 DEF Record
<1>4. StoreTypeOK'
  BY <1>1, <1>2, <1>3, FilesHold DEF StoreTypeOK
<1>5. /\ live'[conn].kind = "whole" /\ live'[conn].rows = written'[conn]
      /\ \A d \in Days \ {conn} : live'[d] = live[d] /\ written'[d] = written[d]
  BY <1>1, <1>2, <1>3, FilesHold DEF StoreTypeOK
<1>6. StoreInv'
  BY <1>1, <1>3, <1>4, <1>5 DEF JobsInv, StoreInv
<1>7. TailTypeOK' /\ tail' = tail /\ cycle' = cycle /\ cycle # NoDay
  BY <1>3 DEF Goes, JobsInv, TailTypeOK, Record
<1>8. DigestInv'
  BY <1>7, DigestKeeps
<1>9. InsightsInv'
  <2>1. finalized.last # conn
    BY <1>1, OpenDate DEF Goes
  <2>2. UNCHANGED <<finalized, rollup, now, cycle>>
    BY <1>3 DEF insights
  <2>3. FinalizedIsWhole'
    BY <1>5, <2>1, <2>2 DEF JobsInv, InsightsInv, FinalizedIsWhole
  <2> QED BY <1>7, <2>2, <2>3 DEF JobsInv, InsightsInv, Goes
<1> QED BY <1>6, <1>7, <1>8, <1>9 DEF JobsInv

\* The end of a cycle, and of the process.
LEMMA StoreRests ==
  ASSUME JobsInv, EndCycle \/ Stop, tail' = "rest"
  PROVE  /\ StoreInv' /\ TailTypeOK' /\ cycle' = NoDay
         /\ UNCHANGED <<now, written>> /\ now \in Instants /\ now' >= now
<1>1. /\ UNCHANGED <<now, live, written>> /\ cycle' = NoDay
      /\ conn' = conn \/ conn' = NoDay
  BY DEF EndCycle, Stop
<1>2. StoreTypeOK'
  BY <1>1 DEF JobsInv, StoreInv, StoreTypeOK
<1>3. now \in Instants /\ now' >= now
  BY <1>1 DEF JobsInv, StoreInv, StoreTypeOK, Instants
<1> QED BY <1>1, <1>2, <1>3 DEF JobsInv, StoreInv, TailTypeOK, Tails

LEMMA RestStep ==
  ASSUME JobsInv, EndJobs \/ Raise
  PROVE  JobsInv'
<1>1. /\ EndCycle \/ Stop
      /\ tail' = "rest" /\ ~Unsettled /\ UNCHANGED <<digest, insights, faults>>
  BY DEF EndJobs, Raise, Goes, Unsettled
<1>2. DigestInv'
  BY <1>1, DigestKeeps
<1>3. InsightsInv'
  BY <1>1, StoreRests, InsightsKeep
<1> QED BY <1>1, <1>2, <1>3, StoreRests DEF JobsInv

-----------------------------------------------------------------------------
(* The digest.                                                             *)

LEMMA DigestFrame ==
  ASSUME JobsInv, tail # "rest", tail' \in {"compose", "post", "store", "mark", "insights"},
         UNCHANGED <<storeVars, insights>>
  PROVE  StoreInv' /\ TailTypeOK' /\ InsightsInv'
<1>1. TailTypeOK'
  BY DEF JobsInv, TailTypeOK, storeVars, Tails
<1>2. now' = now /\ cycle' = cycle /\ written' = written /\ now \in Instants
  BY DEF JobsInv, StoreInv, StoreTypeOK, storeVars
<1>3. now' \in Instants /\ now' >= now
  BY <1>2, StoreAssumption DEF Instants
<1> QED BY <1>1, <1>2, <1>3, StoreKeeps, InsightsKeep

\* A tally with one more of an outcome.
LEMMA Tallied ==
  ASSUME NEW f \in [Mondays -> Tally], NEW m \in Mondays, NEW o \in Outcomes, NEW g,
         g = Counted(f, m, o), f[m][o] < MaxPosts
  PROVE  /\ g \in [Mondays -> Tally]
         /\ g[m][o] = f[m][o] + 1 /\ Total(g[m]) = Total(f[m]) + 1
         /\ \A other \in Outcomes \ {o} : g[m][other] = f[m][other]
         /\ \A k \in Mondays \ {m} : g[k] = f[k]
<1>1. MaxPosts \in Nat /\ f[m] \in Tally
  BY JobsAssumption
<1>2. f[m]["delivered"] \in 0 .. MaxPosts /\ f[m]["refused"] \in 0 .. MaxPosts
  BY <1>1 DEF Tally, Outcomes
<1>3. g = [f EXCEPT ![m] = [f[m] EXCEPT ![o] = f[m][o] + 1]]
  BY DEF Counted
<1>4. /\ [f[m] EXCEPT ![o] = f[m][o] + 1] \in Tally
      /\ g[m] = [f[m] EXCEPT ![o] = f[m][o] + 1]
  BY <1>1, <1>2, <1>3 DEF Tally, Outcomes
<1>5. g \in [Mondays -> Tally] /\ \A k \in Mondays \ {m} : g[k] = f[k]
  BY <1>3, <1>4
<1>6. g[m][o] = f[m][o] + 1 /\ \A other \in Outcomes \ {o} : g[m][other] = f[m][other]
  BY <1>1, <1>4 DEF Tally
<1>7. Total(g[m]) = Total(f[m]) + 1
  BY <1>2, <1>6 DEF Total, Outcomes
<1> QED BY <1>5, <1>6, <1>7

LEMMA TallyTyped ==
  ASSUME NEW f \in [Mondays -> Tally], NEW m \in Mondays
  PROVE  /\ Total(f[m]) \in Nat
         /\ \A o \in Outcomes : f[m][o] \in 0 .. MaxPosts /\ f[m][o] \in Nat /\ f[m][o] <= Total(f[m])
<1>1. f[m]["delivered"] \in 0 .. MaxPosts /\ f[m]["refused"] \in 0 .. MaxPosts /\ MaxPosts \in Nat
  BY JobsAssumption DEF Tally, Outcomes
<1> QED BY <1>1 DEF Total, Outcomes

LEMMA DigestIsDue ==
  ASSUME JobsInv, ShouldFire \/ Compose \/ ComposeFails
  PROVE  JobsInv'
<1>1. /\ tail # "rest" /\ tail' \in {"insights", "compose", "post"}
      /\ UNCHANGED <<storeVars, digest, insights, faults>>
  BY DEF ShouldFire, Compose, ComposeFails, Goes
<1>2. InHand \in Int /\ InHand' = InHand /\ fired.last \in Int
  BY <1>1, Cycling, SidecarTyped DEF JobsInv, DigestInv, InHand, storeVars
<1>3. UNCHANGED <<fired, sent, posts, digests, mishaps, repeated>> /\ ~Unsettled /\ ~Unsettled'
  BY <1>1 DEF digest, faults, ShouldFire, Compose, ComposeFails, Goes, Unsettled
<1>4. tail' \in {"compose", "post"} => fired.last < InHand
  BY <1>2 DEF ShouldFire, Compose, ComposeFails, Goes, JobsInv, DigestInv
<1>5. tail' = "post" => Total(posts[InHand]) < MaxPosts
  BY DEF ShouldFire, Compose, ComposeFails, Goes
<1>6. FiredIsOnRecord' /\ RepeatsAreExplained'
  BY <1>3 DEF JobsInv, DigestInv, FiredIsOnRecord, RepeatsAreExplained, OnRecord
<1>7. DigestInv'
  BY <1>1, <1>2, <1>3, <1>4, <1>5, <1>6 DEF JobsInv, DigestInv
<1> QED BY <1>1, <1>7, DigestFrame DEF JobsInv, Tails

\* Whatever Slack answers, the attempt is counted under its outcome.
LEMMA DigestPosted ==
  ASSUME JobsInv, NEW outcome \in Outcomes, Post(outcome)
  PROVE  JobsInv'
<1>1. /\ tail = "post" /\ tail' = "store" /\ sent' = outcome
      /\ posts' = Counted(posts, InHand, outcome)
      /\ UNCHANGED <<storeVars, fired, digests, insights, faults>>
  BY DEF Post, Goes
<1>2. /\ InHand \in Mondays /\ InHand \in Int /\ InHand' = InHand
      /\ fired.last \in Int /\ fired.last < InHand /\ Total(posts[InHand]) < MaxPosts
      /\ MaxPosts \in Nat /\ MaxMishaps \in Nat
  BY <1>1, Cycling, SidecarTyped, JobsAssumption DEF JobsInv, DigestInv, InHand, storeVars
<1>3. UNCHANGED <<fired, digests, mishaps, repeated>>
  BY <1>1 DEF faults
<1>4. posts \in [Mondays -> Tally] /\ digests \in [Mondays -> Tally]
  BY DEF JobsInv, DigestInv
<1>5. posts[InHand][outcome] < MaxPosts
  BY <1>2, <1>4, TallyTyped
<1>6. /\ posts' \in [Mondays -> Tally]
      /\ posts'[InHand][outcome] = posts[InHand][outcome] + 1
      /\ Total(posts'[InHand]) = Total(posts[InHand]) + 1
      /\ \A other \in Outcomes \ {outcome} : posts'[InHand][other] = posts[InHand][other]
      /\ \A m \in Mondays \ {InHand} : posts'[m] = posts[m]
  BY <1>1, <1>2, <1>4, <1>5, Tallied
<1>7. \A m \in Mondays : Total(posts[m]) \in Nat /\ repeated[m] \in Nat
  BY <1>2, <1>4, TallyTyped DEF JobsInv, DigestInv
<1>8. Total(posts[InHand]) <= repeated[InHand]
  BY <1>1, <1>2 DEF JobsInv, DigestInv, Unsettled
<1>9. \A m \in Mondays, o \in Outcomes :
        digests[m][o] \in Nat /\ posts[m][o] \in Nat /\ digests[m][o] <= posts[m][o]
  BY <1>4, TallyTyped DEF JobsInv, DigestInv, FiredIsOnRecord
<1>10. \A m \in Mondays, o \in Outcomes : digests[m][o] <= posts'[m][o]
  BY <1>6, <1>9
<1>11. FiredIsOnRecord'
  BY <1>3, <1>10 DEF JobsInv, DigestInv, FiredIsOnRecord, OnRecord
<1>12. RepeatsAreExplained'
  BY <1>3, <1>6, <1>7, <1>8 DEF JobsInv, DigestInv, RepeatsAreExplained
<1>13. \A m \in Mondays : (m > fired.last /\ m # InHand) => Total(posts'[m]) <= repeated[m]
  BY <1>1, <1>6 DEF JobsInv, DigestInv, Unsettled
<1>14. digests[InHand][outcome] < posts'[InHand][outcome]
  BY <1>2, <1>6, <1>9
<1>15. DigestInv'
  BY <1>1, <1>2, <1>3, <1>4, <1>6, <1>11, <1>12, <1>13, <1>14 DEF JobsInv, DigestInv, Unsettled
<1> QED BY <1>1, <1>15, DigestFrame DEF JobsInv, Tails

\* A row of the digest in hand, stored under the outcome of the post.
LEMMA RowAdded ==
  ASSUME JobsInv, tail = "store", digests' = Counted(digests, InHand, sent)
  PROVE  /\ digests' \in [Mondays -> Tally] /\ Total(digests'[InHand]) >= 1
         /\ \A m \in Mondays : Total(digests[m]) <= Total(digests'[m])
         /\ \A m \in Mondays, o \in Outcomes : digests'[m][o] <= posts[m][o]
<1>1. /\ InHand \in Mondays /\ sent \in Outcomes /\ digests \in [Mondays -> Tally]
      /\ posts \in [Mondays -> Tally] /\ digests[InHand][sent] < posts[InHand][sent]
  BY Cycling DEF JobsInv, DigestInv
<1>2. \A m \in Mondays : /\ Total(digests[m]) \in Nat
                         /\ \A o \in Outcomes : /\ posts[m][o] \in 0 .. MaxPosts /\ digests[m][o] \in Nat
                                                /\ digests[m][o] <= posts[m][o]
  BY <1>1, TallyTyped DEF JobsInv, DigestInv, FiredIsOnRecord
<1>3. digests[InHand][sent] < MaxPosts
  BY <1>1, <1>2, JobsAssumption
<1>4. /\ digests' \in [Mondays -> Tally]
      /\ digests'[InHand][sent] = digests[InHand][sent] + 1
      /\ Total(digests'[InHand]) = Total(digests[InHand]) + 1
      /\ \A other \in Outcomes \ {sent} : digests'[InHand][other] = digests[InHand][other]
      /\ \A m \in Mondays \ {InHand} : digests'[m] = digests[m]
  BY <1>1, <1>3, Tallied
<1>5. \A m \in Mondays : Total(digests[m]) <= Total(digests'[m])
  BY <1>1, <1>2, <1>4
<1>6. \A m \in Mondays, o \in Outcomes : digests'[m][o] <= posts[m][o]
  BY <1>1, <1>2, <1>4
<1>7. Total(digests'[InHand]) >= 1
  BY <1>1, <1>2, <1>4
<1> QED BY <1>4, <1>5, <1>6, <1>7

LEMMA DigestStored ==
  ASSUME JobsInv, StoreDigest
  PROVE  JobsInv'
<1>1. /\ tail = "store" /\ tail' = "mark" /\ digests' = Counted(digests, InHand, sent)
      /\ UNCHANGED <<storeVars, fired, sent, posts, insights, faults>>
  BY DEF StoreDigest, Goes
<1>2. /\ InHand \in Mondays /\ InHand \in Int /\ InHand' = InHand
      /\ fired.last \in Int /\ fired.last < InHand
  BY <1>1, Cycling, SidecarTyped DEF JobsInv, DigestInv, InHand, storeVars
<1>3. UNCHANGED <<fired, sent, posts, mishaps, repeated>>
  BY <1>1 DEF faults
<1>4. /\ digests' \in [Mondays -> Tally] /\ Total(digests'[InHand]) >= 1
      /\ \A m \in Mondays : Total(digests[m]) <= Total(digests'[m])
      /\ \A m \in Mondays, o \in Outcomes : digests'[m][o] <= posts[m][o]
  BY <1>1, RowAdded
<1>5. \A m \in Mondays : Total(digests[m]) \in Nat /\ Total(digests'[m]) \in Nat
  BY <1>4, TallyTyped DEF JobsInv, DigestInv
<1>6. FiredIsOnRecord'
  <2>1. fired.last \in Mondays => Total(digests'[fired.last]) >= 1
    BY <1>4, <1>5 DEF JobsInv, DigestInv, FiredIsOnRecord, OnRecord
  <2> QED BY <1>3, <1>4, <2>1 DEF FiredIsOnRecord, OnRecord
<1>7. RepeatsAreExplained'
  BY <1>3 DEF JobsInv, DigestInv, RepeatsAreExplained
<1>8. \A m \in Mondays : (m > fired.last /\ m # InHand) => Total(posts[m]) <= repeated[m]
  BY <1>1 DEF JobsInv, DigestInv, Unsettled
<1>9. DigestInv'
  BY <1>1, <1>2, <1>3, <1>4, <1>6, <1>7, <1>8 DEF JobsInv, DigestInv, Unsettled, OnRecord
<1> QED BY <1>1, <1>9, DigestFrame DEF JobsInv, Tails

LEMMA WeekMarked ==
  ASSUME JobsInv, MarkFired
  PROVE  JobsInv'
<1>1. /\ tail = "mark" /\ tail' = "insights" /\ fired' = Marked(InHand)
      /\ UNCHANGED <<storeVars, sent, posts, digests, insights, faults>>
  BY DEF MarkFired, Goes
<1>2. /\ InHand \in Mondays /\ InHand \in Int
      /\ fired.last \in Int /\ fired.last < InHand /\ OnRecord(InHand)
  BY <1>1, Cycling, SidecarTyped DEF JobsInv, DigestInv
<1>3. fired' \in Sidecar /\ fired'.last = InHand
  BY <1>1, <1>2, SidecarTyped DEF JobsInv, DigestInv
<1>4. UNCHANGED <<sent, posts, digests, mishaps, repeated>>
  BY <1>1 DEF faults
<1>5. FiredIsOnRecord' /\ RepeatsAreExplained'
  BY <1>2, <1>3, <1>4 DEF JobsInv, DigestInv, FiredIsOnRecord, RepeatsAreExplained, OnRecord
<1>6. \A m \in Mondays : m > InHand => Total(posts[m]) <= repeated[m]
  BY <1>1, <1>2, MondaysAreDates DEF JobsInv, DigestInv
<1>7. DigestInv'
  BY <1>1, <1>3, <1>4, <1>5, <1>6 DEF JobsInv, DigestInv, Unsettled
<1> QED BY <1>1, <1>7, DigestFrame DEF JobsInv, Tails

\* A failure or a death between the post and the mark is counted against the
\* week it may repeat.
LEMMA MishapCounted ==
  ASSUME JobsInv, tail # "rest", Mishap, UNCHANGED <<sent, posts>>,
         fired' \in Sidecar, fired'.last = fired.last,
         digests' \in [Mondays -> Tally],
         \A m \in Mondays : Total(digests[m]) <= Total(digests'[m]),
         \A m \in Mondays, o \in Outcomes : digests'[m][o] <= posts[m][o],
         tail' \in {"insights", "rest"}
  PROVE  DigestInv'
<1>1. /\ InHand \in Mondays /\ InHand \in Int /\ mishaps' = mishaps + 1
      /\ mishaps' \in 0 .. MaxMishaps /\ mishaps \in Nat
  BY Cycling, JobsAssumption DEF Mishap, JobsInv, DigestInv
<1>2. \A m \in Mondays : /\ Total(posts[m]) \in Nat /\ Total(digests[m]) \in Nat
                         /\ Total(digests'[m]) \in Nat /\ repeated[m] \in Nat
  BY JobsAssumption, TallyTyped DEF JobsInv, DigestInv
<1>3. /\ repeated' \in [Mondays -> 0 .. MaxMishaps]
      /\ \A m \in Mondays : repeated'[m] = IF Unsettled /\ m = InHand THEN repeated[m] + 1 ELSE repeated[m]
      /\ \A m \in Mondays : repeated'[m] <= mishaps'
  <2>1. repeated' = IF Unsettled THEN [repeated EXCEPT ![InHand] = repeated[InHand] + 1] ELSE repeated
    BY DEF Mishap, Unsettled
  <2>2. \A m \in Mondays : repeated[m] <= mishaps
    BY DEF JobsInv, DigestInv
  <2>3. repeated[InHand] + 1 \in 0 .. MaxMishaps
    BY <1>1, <1>2, <2>2, JobsAssumption
  <2>4. repeated \in [Mondays -> 0 .. MaxMishaps]
    BY DEF JobsInv, DigestInv
  <2>5. CASE Unsettled
    BY <1>1, <1>2, <2>1, <2>2, <2>3, <2>4, <2>5
  <2>6. CASE ~Unsettled
    BY <1>1, <1>2, <2>1, <2>2, <2>4, <2>6
  <2> QED BY <2>5, <2>6
<1>4. \A m \in Mondays : Total(posts[m]) <= 1 + repeated'[m]
  BY <1>2, <1>3 DEF JobsInv, DigestInv, RepeatsAreExplained
<1>5. RepeatsAreExplained'
  BY <1>4 DEF RepeatsAreExplained
<1>6. \A m \in Mondays : m > fired.last => Total(posts[m]) <= repeated'[m]
  <2>1. \A m \in Mondays : (m > fired.last /\ ~(Unsettled /\ m = InHand)) => Total(posts[m]) <= repeated[m]
    BY DEF JobsInv, DigestInv
  <2>2. \A m \in Mondays : Total(posts[m]) <= 1 + repeated[m]
    BY DEF JobsInv, DigestInv, RepeatsAreExplained
  <2> QED BY <1>2, <1>3, <2>1, <2>2
<1>7. fired.last \in Mondays => Total(digests'[fired.last]) >= 1
  BY <1>2 DEF JobsInv, DigestInv, FiredIsOnRecord, OnRecord
<1>8. FiredIsOnRecord'
  BY <1>7 DEF FiredIsOnRecord, OnRecord
<1> QED BY <1>1, <1>3, <1>5, <1>6, <1>8 DEF JobsInv, DigestInv, Unsettled

LEMMA DigestUnstored ==
  ASSUME JobsInv, StoreFails
  PROVE  JobsInv'
<1>1. /\ tail = "store" /\ tail' = "insights" /\ Mishap
      /\ UNCHANGED <<storeVars, digest, insights>>
  BY DEF StoreFails, Goes
<1>2. UNCHANGED <<fired, sent, posts, digests>>
  BY <1>1 DEF digest
<1>3. \A m \in Mondays : Total(digests[m]) <= Total(digests[m])
  BY TallyTyped DEF JobsInv, DigestInv
<1>4. DigestInv'
  BY <1>1, <1>2, <1>3, MishapCounted DEF JobsInv, DigestInv, FiredIsOnRecord
<1> QED BY <1>1, <1>4, DigestFrame DEF JobsInv, Tails

-----------------------------------------------------------------------------
(* The insights.                                                           *)

\* What a date's rollup is written with: every completion of the date.
LEMMA DayRead ==
  ASSUME JobsInv, NEW d \in Days
  PROVE  /\ ReadDay(d).covered \in BOOLEAN
         /\ ReadDay(d).covered => ReadDay(d).rows = written[d][Completions]
         /\ written[d][Completions] \in 0 .. MaxRows
<1>1. written[d][Completions] \in 0 .. MaxRows
  BY StoreAssumption DEF JobsInv, StoreInv, StoreTypeOK, Rows
<1>2. \/ live[d].kind = "whole" /\ live[d].rows = written[d]
      \/ live[d].kind = "missing"
  BY DEF JobsInv, StoreInv
<1> QED BY <1>1, <1>2 DEF ReadDay

\* A rollup of a date that is not finalized may be rewritten.
LEMMA RollupRewritten ==
  ASSUME JobsInv, NEW d \in Days, NEW count \in {NoRollup, PartRollup} \cup 0 .. MaxRows,
         finalized.last # d, finalized'.last = finalized.last, UNCHANGED written,
         rollup' = [rollup EXCEPT ![d] = count]
  PROVE  /\ rollup' \in [Days -> {NoRollup, PartRollup} \cup 0 .. MaxRows]
         /\ rollup'[d] = count /\ FinalizedIsWhole'
  BY DEF JobsInv, InsightsInv, FinalizedIsWhole

LEMMA InsightsFrame ==
  ASSUME JobsInv, tail \notin {"rest", "store", "mark"},
         tail' \in {"finalize", "final mark", "today", "end"},
         UNCHANGED <<storeVars, digest, faults>>
  PROVE  StoreInv' /\ TailTypeOK' /\ DigestInv'
<1>1. TailTypeOK'
  BY DEF JobsInv, TailTypeOK, storeVars, Tails
<1> QED BY <1>1, StoreKeeps, DigestKeeps DEF Unsettled

LEMMA InsightsDue ==
  ASSUME JobsInv, ShouldFinalize \/ NoRoutes
  PROVE  JobsInv'
<1>1. /\ tail = "insights" /\ tail' \in {"finalize", "today", "end"}
      /\ UNCHANGED <<storeVars, digest, insights, faults>>
  BY DEF ShouldFinalize, NoRoutes, Goes
<1>2. /\ finalized.last \in Int /\ Yesterday(cycle) \in Int
      /\ tail' = "finalize" => finalized.last < Yesterday(cycle)
  BY <1>1, Cycling, SidecarTyped DEF ShouldFinalize, NoRoutes, Goes, JobsInv, InsightsInv
<1>3. UNCHANGED <<now, cycle, written, finalized, rollup>>
  BY <1>1 DEF storeVars, insights
<1>4. FinalizedIsWhole'
  BY <1>3 DEF JobsInv, InsightsInv, FinalizedIsWhole
<1>5. InsightsInv'
  BY <1>1, <1>2, <1>3, <1>4 DEF JobsInv, InsightsInv
<1> QED BY <1>1, <1>5, InsightsFrame DEF JobsInv

LEMMA DateFinalized ==
  ASSUME JobsInv, Finalize
  PROVE  JobsInv'
<1>1. /\ tail = "finalize" /\ tail' \in {"final mark", "today"}
      /\ UNCHANGED <<storeVars, digest, finalized, faults>>
  BY DEF Finalize, Goes
<1>2. UNCHANGED <<now, cycle, written, finalized>>
  BY <1>1 DEF storeVars
<1>3. finalized.last \in Int /\ Yesterday(cycle) \in Int /\ finalized.last < Yesterday(cycle)
  BY <1>1, Cycling, SidecarTyped DEF JobsInv, InsightsInv
<1>4. CASE Yesterday(cycle) \in Days /\ ReadDay(Yesterday(cycle)).covered
  <2> DEFINE d == Yesterday(cycle)
             count == written[d][Completions]
  <2>1. d \in Days /\ tail' = "final mark" /\ rollup' = [rollup EXCEPT ![d] = count] /\ count \in 0 .. MaxRows
    BY <1>4, DayRead DEF Finalize, Goes, RecordDay
  <2>a. d \in Int /\ finalized.last # d
    BY <1>3
  <2> HIDE DEF d, count
  <2>2. /\ rollup' \in [Days -> {NoRollup, PartRollup} \cup 0 .. MaxRows]
        /\ rollup'[d] = count /\ FinalizedIsWhole'
    BY <1>2, <2>1, <2>a, RollupRewritten
  <2>b. /\ Yesterday(cycle)' = d /\ written' = written /\ rollup'[d] = written[d][Completions]
        /\ finalized'.last < d
    BY <1>2, <1>3, <2>2 DEF d, count, Yesterday, ServiceDate
  <2>3. InsightsInv'
    BY <1>1, <1>2, <2>1, <2>2, <2>b DEF JobsInv, InsightsInv, ServiceDate
  <2> QED BY <1>1, <2>3, InsightsFrame DEF JobsInv
<1>5. CASE ~(Yesterday(cycle) \in Days /\ ReadDay(Yesterday(cycle)).covered)
  <2>1. tail' = "today" /\ rollup' = rollup
    BY <1>5 DEF Finalize, Goes
  <2>2. FinalizedIsWhole'
    BY <1>2, <2>1 DEF JobsInv, InsightsInv, FinalizedIsWhole
  <2>3. InsightsInv'
    BY <1>1, <1>2, <2>1, <2>2 DEF JobsInv, InsightsInv
  <2> QED BY <1>1, <2>3, InsightsFrame DEF JobsInv
<1> QED BY <1>4, <1>5

LEMMA DateMarked ==
  ASSUME JobsInv, MarkFinalized
  PROVE  JobsInv'
<1>1. /\ tail = "final mark" /\ tail' = "today" /\ finalized' = Marked(Yesterday(cycle))
      /\ UNCHANGED <<storeVars, digest, rollup, faults>>
  BY DEF MarkFinalized, Goes
<1>2. UNCHANGED <<now, cycle, written, rollup>>
  BY <1>1 DEF storeVars
<1>3. /\ Yesterday(cycle) \in Days /\ rollup[Yesterday(cycle)] = written[Yesterday(cycle)][Completions]
      /\ Yesterday(cycle) = ServiceDate(cycle) - 1 /\ cycle \in Instants /\ cycle <= now
  BY <1>1, Cycling DEF JobsInv, InsightsInv
<1>4. /\ ServiceDate(cycle) \in Int /\ ServiceDate(now) \in Int
      /\ ServiceDate(cycle) <= ServiceDate(now)
  BY <1>3, DatesPass DEF JobsInv, StoreInv, StoreTypeOK, Days
<1>5. finalized' \in Sidecar /\ finalized'.last = Yesterday(cycle)
  BY <1>1, <1>3, SidecarTyped DEF JobsInv, InsightsInv
<1>6. FinalizedIsWhole'
  BY <1>2, <1>3, <1>5 DEF FinalizedIsWhole
<1>7. finalized'.last < ServiceDate(now) /\ finalized'.last < ServiceDate(cycle)
  BY <1>3, <1>4, <1>5
<1>8. InsightsInv'
  BY <1>1, <1>2, <1>5, <1>6, <1>7 DEF JobsInv, InsightsInv
<1> QED BY <1>1, <1>8, InsightsFrame DEF JobsInv

LEMMA TodayRefreshed ==
  ASSUME JobsInv, RefreshToday
  PROVE  JobsInv'
<1>1. /\ tail = "today" /\ tail' = "end"
      /\ UNCHANGED <<storeVars, digest, finalized, faults>>
  BY DEF RefreshToday, Goes
<1>2. UNCHANGED <<now, cycle, written, finalized>>
  BY <1>1 DEF storeVars
<1>3. /\ Today \in Days /\ finalized.last \in Int /\ finalized.last < Today /\ finalized.last # Today
  BY <1>1, Cycling, OpenDate DEF Today
<1>4. rollup' \in [Days -> {NoRollup, PartRollup} \cup 0 .. MaxRows] /\ FinalizedIsWhole'
  <2>1. CASE UNCHANGED rollup
    BY <1>2, <2>1 DEF JobsInv, InsightsInv, FinalizedIsWhole
  <2>2. CASE ReadDay(Today).covered /\ RecordDay(Today)
    <3>1. rollup' = [rollup EXCEPT ![Today] = written[Today][Completions]]
          /\ written[Today][Completions] \in 0 .. MaxRows
      BY <1>3, <2>2, DayRead DEF RecordDay
    <3> QED BY <1>2, <1>3, <3>1, RollupRewritten
  <2> QED BY <2>1, <2>2 DEF RefreshToday
<1>5. InsightsInv'
  BY <1>1, <1>2, <1>4 DEF JobsInv, InsightsInv
<1> QED BY <1>1, <1>5, InsightsFrame DEF JobsInv

-----------------------------------------------------------------------------
(* A death, at a step or inside one.                                       *)

LEMMA DeathStep ==
  ASSUME JobsInv, Die
  PROVE  JobsInv'
<1>1. tail # "rest" /\ Mishap /\ Stop /\ tail' = "rest"
  BY DEF Die
<1>2. /\ StoreInv' /\ TailTypeOK' /\ cycle' = NoDay
      /\ UNCHANGED <<now, written>> /\ now \in Instants /\ now' >= now
  BY <1>1, StoreRests
<1>3. /\ InHand \in Mondays /\ fired.last \in Int /\ finalized.last \in Int
      /\ fired \in Sidecar /\ finalized \in Sidecar
      /\ Spoiled(fired) \in Sidecar /\ Spoiled(fired).last = fired.last
      /\ Spoiled(finalized) \in Sidecar /\ Spoiled(finalized).last = finalized.last
  BY <1>1, Cycling, SidecarTyped DEF JobsInv, DigestInv, InsightsInv
<1>4. /\ posts' = posts /\ sent' = sent /\ fired' \in {fired, Spoiled(fired)}
      /\ digests' = digests \/ (tail = "store" /\ digests' = Counted(digests, InHand, sent))
  BY DEF Die, HalfDone, digest, insights
<1>5. /\ digests' \in [Mondays -> Tally]
      /\ \A m \in Mondays : Total(digests[m]) <= Total(digests'[m])
      /\ \A m \in Mondays, o \in Outcomes : digests'[m][o] <= posts[m][o]
  <2>1. CASE digests' = digests
    BY <2>1, TallyTyped DEF JobsInv, DigestInv, FiredIsOnRecord
  <2>2. CASE tail = "store" /\ digests' = Counted(digests, InHand, sent)
    BY <2>2, RowAdded
  <2> QED BY <1>4, <2>1, <2>2
<1>6. DigestInv'
  BY <1>1, <1>3, <1>4, <1>5, MishapCounted
<1>7. /\ finalized' \in {finalized, Spoiled(finalized)}
      /\ \/ rollup' = rollup
         \/ /\ tail = "finalize" /\ Yesterday(cycle) \in Days
            /\ rollup' = [rollup EXCEPT ![Yesterday(cycle)] = PartRollup]
         \/ tail = "today" /\ rollup' = [rollup EXCEPT ![Today] = PartRollup]
  BY DEF Die, HalfDone, digest, insights
<1>8. finalized' \in Sidecar /\ finalized'.last = finalized.last
  BY <1>3, <1>7
<1>9. rollup' \in [Days -> {NoRollup, PartRollup} \cup 0 .. MaxRows] /\ FinalizedIsWhole'
  <2>1. CASE rollup' = rollup
    BY <1>2, <1>8, <2>1 DEF JobsInv, InsightsInv, FinalizedIsWhole
  <2>2. CASE /\ tail = "finalize" /\ Yesterday(cycle) \in Days
             /\ rollup' = [rollup EXCEPT ![Yesterday(cycle)] = PartRollup]
    <3>1. finalized.last # Yesterday(cycle)
      BY <1>3, <2>2 DEF JobsInv, InsightsInv, Days
    <3> QED BY <1>2, <1>8, <2>2, <3>1, RollupRewritten
  <2>3. CASE tail = "today" /\ rollup' = [rollup EXCEPT ![Today] = PartRollup]
    <3>1. Today \in Days /\ finalized.last # Today
      BY <1>1, Cycling, OpenDate DEF Today
    <3> QED BY <1>2, <1>8, <2>3, <3>1, RollupRewritten
  <2> QED BY <1>7, <2>1, <2>2, <2>3
<1>10. finalized'.last < ServiceDate(now)'
  BY <1>2, <1>8 DEF JobsInv, InsightsInv, ServiceDate
<1>11. InsightsInv'
  BY <1>1, <1>2, <1>8, <1>9, <1>10 DEF InsightsInv
<1> QED BY <1>2, <1>6, <1>11 DEF JobsInv

-----------------------------------------------------------------------------

LEMMA JobsInitial == JobsInit => JobsInv
<1> SUFFICES ASSUME JobsInit PROVE JobsInv
  OBVIOUS
<1>1. StoreInv
  BY FilesHold, StoreAssumption
     DEF JobsInit, StoreInit, StoreInv, StoreTypeOK, Instants, Missing, NoDay
<1>2. TailTypeOK
  BY DEF JobsInit, StoreInit, TailTypeOK, Tails
<1>3. Unmarked \in Sidecar /\ Unmarked.last = Never /\ Never < 0 /\ Never \notin Mondays /\ Never \notin Days
  BY StoreAssumption, JobsAssumption, MondaysAreDates DEF Unmarked, Sidecar, Never, Days
<1>4. DigestInv
  <2>1. /\ Nought \in Tally /\ Total(Nought) = 0 /\ \A o \in Outcomes : Nought[o] = 0
        /\ "refused" \in Outcomes
    BY JobsAssumption DEF Nought, Tally, Outcomes, Total
  <2>2. /\ fired = Unmarked /\ sent = "refused" /\ tail = "rest" /\ mishaps = 0
        /\ \A m \in Mondays : posts[m] = Nought /\ digests[m] = Nought /\ repeated[m] = 0
        /\ posts \in [Mondays -> Tally] /\ digests \in [Mondays -> Tally]
        /\ repeated \in [Mondays -> 0 .. MaxMishaps] /\ mishaps \in 0 .. MaxMishaps
    BY <2>1, JobsAssumption DEF JobsInit
  <2>3. RepeatsAreExplained /\ FiredIsOnRecord
    BY <1>3, <2>1, <2>2 DEF RepeatsAreExplained, FiredIsOnRecord
  <2> QED BY <1>3, <2>1, <2>2, <2>3 DEF DigestInv
<1>5. ServiceDate(0) = 0 /\ now = 0 /\ cycle = NoDay
  BY DEF ServiceDate, JobsInit, StoreInit
<1>6. InsightsInv
  BY <1>3, <1>5 DEF JobsInit, InsightsInv, FinalizedIsWhole
<1> QED BY <1>1, <1>2, <1>4, <1>6 DEF JobsInv

LEMMA JobsStep == JobsInv /\ [JobsNext]_allVars => JobsInv'
<1> SUFFICES ASSUME JobsInv, [JobsNext]_allVars PROVE JobsInv'
  OBVIOUS
<1>1. CASE Poll
  BY <1>1, TickStep, RotateStep, RecordStep DEF Poll
<1>2. CASE Works
  BY <1>2, RotateStep, DigestIsDue, DigestPosted, DigestStored, WeekMarked, InsightsDue, DateFinalized,
     DateMarked, TodayRefreshed, RestStep DEF Works
<1>3. CASE Raise \/ ComposeFails \/ StoreFails \/ NoRoutes \/ Die
  BY <1>3, RestStep, DigestIsDue, DigestUnstored, InsightsDue, DeathStep
<1>4. CASE UNCHANGED allVars
  <2>1. /\ UNCHANGED <<storeVars, tail, digest, faults, insights>> /\ cycle' = cycle /\ written' = written
        /\ now' = now /\ now \in Instants /\ now' >= now
    BY <1>4 DEF allVars, storeVars, jobVars, digest, faults, insights, JobsInv, StoreInv, StoreTypeOK, Instants
  <2>2. TailTypeOK'
    BY <2>1 DEF JobsInv, TailTypeOK
  <2> QED BY <2>1, <2>2, StoreKeeps, DigestKeeps, InsightsKeep DEF JobsInv
<1> QED BY <1>1, <1>2, <1>3, <1>4 DEF JobsNext

\* The inductive invariant of the jobs (poller/__main__.py, after the cycle).
THEOREM JobsInductive == JobsSpec => []JobsInv
  BY JobsInitial, JobsStep, PTL DEF JobsSpec

\* A week is marked only once its digest is on record, in rows that tell what
\* Slack took from what it refused (poller/__main__.py, _maybe_send_weekly_digest).
THEOREM WeeksOnRecord == JobsSpec => []FiredIsOnRecord
<1>1. JobsInv => FiredIsOnRecord
  BY DEF JobsInv, DigestInv
<1> QED BY <1>1, JobsInductive, PTL

\* A week is posted again only after a failure, once for each
\* (poller/__main__.py, _maybe_send_weekly_digest).
THEOREM RepeatsExplained == JobsSpec => []RepeatsAreExplained
<1>1. JobsInv => RepeatsAreExplained
  BY DEF JobsInv, DigestInv, RepeatsAreExplained
<1> QED BY <1>1, JobsInductive, PTL

\* A finalized date counts every completion recorded for it
\* (poller/insights_trigger.py).
THEOREM FinalizedWhole == JobsSpec => []FinalizedIsWhole
<1>1. JobsInv => FinalizedIsWhole
  BY DEF JobsInv, InsightsInv
<1> QED BY <1>1, JobsInductive, PTL
=============================================================================
