------------------------------ MODULE PollJobs ------------------------------
(***************************************************************************)
(* What the polling process does after each cycle's ingestion              *)
(* (poller/__main__.py): the weekly digest, then the insights rollups.     *)
(* Each job reads a sidecar file to see whether it is due, has its effect, *)
(* and marks the sidecar last; the process may die at any step, and a      *)
(* sidecar being written when it dies is left unreadable.  Slack may      *)
(* refuse a digest; the cycle notes it in the digest's row and goes on.    *)
(*                                                                         *)
(* A week is named by the Monday that ends it.                             *)
(***************************************************************************)
EXTENDS HistoryStore

CONSTANTS
  WeekDays,    \* service dates in a week
  MaxPosts,    \* bound on the attempts to post one week's digest
  MaxMishaps   \* bound on failed digest writes and deaths of the process

ASSUME JobsAssumption ==
  WeekDays \in Nat \ {0} /\ MaxPosts \in Nat /\ MaxMishaps \in Nat

Mondays == {-WeekDays} \cup {d \in Days : d % WeekDays = 0}
Never == -WeekDays - 1

\* The last Monday whose 8am is past; the first instant of a date is before 8am.
FiringMonday(n) == ((((n + 1) \div 2) - 1) \div WeekDays) * WeekDays
WeekOf(monday) == (monday - WeekDays .. monday - 1) \cap Days
\* Mutant: the date in progress is finalized.
SameDate(n) == ServiceDate(n)

Yesterday(n) == ServiceDate(n) - 1

\* A sidecar: readable or not, and the last date marked in it.
Sidecar == [ok : BOOLEAN, last : Days \cup Mondays \cup {Never}]
Unmarked == [ok |-> TRUE, last |-> Never]
Marked(d) == [ok |-> TRUE, last |-> d]
Spoiled(mark) == [mark EXCEPT !.ok = FALSE]

\* Whether post_message returned True.
Outcomes == {"delivered", "refused"}

\* How many there are of either outcome.
Tally == [Outcomes -> 0 .. MaxPosts]
Nought == [outcome \in Outcomes |-> 0]
Total(tally) == tally["delivered"] + tally["refused"]
Counted(tallies, m, outcome) == [tallies EXCEPT ![m][outcome] = @ + 1]

NoRollup == -2
PartRollup == -1

VARIABLES
  tail,       \* the step the cycle is at
  fired,      \* digest_trigger_state.json
  sent,       \* what post_message returned in this cycle
  posts,      \* monday -> attempts to post its digest, by what they returned
  digests,    \* monday -> its rows of weekly_digests, by slack_delivered
  finalized,  \* insights_trigger_state.json
  rollup,     \* date -> the completions its rollup counts
  mishaps,    \* failed writes and deaths so far
  repeated    \* monday -> those between its post and its mark

jobVars == <<tail, fired, sent, posts, digests, finalized, rollup, mishaps, repeated>>
allVars == <<storeVars, jobVars>>

Tails == {"rest", "feeds", "compose", "post", "store", "mark", "insights",
          "finalize", "final mark", "today", "end"}

JobsInit ==
  /\ StoreInit
  /\ tail = "rest"
  /\ fired = Unmarked
  /\ sent = "refused"
  /\ posts = [m \in Mondays |-> Nought]
  /\ digests = [m \in Mondays |-> Nought]
  /\ finalized = Unmarked
  /\ rollup = [d \in Days |-> NoRollup]
  /\ mishaps = 0
  /\ repeated = [m \in Mondays |-> 0]

JobsTypeOK ==
  /\ StoreTypeOK
  /\ tail \in Tails
  /\ fired \in Sidecar /\ finalized \in Sidecar
  /\ sent \in Outcomes
  /\ posts \in [Mondays -> Tally] /\ digests \in [Mondays -> Tally]
  /\ rollup \in [Days -> {NoRollup, PartRollup} \cup 0 .. MaxRows]
  /\ mishaps \in 0 .. MaxMishaps
  /\ repeated \in [Mondays -> 0 .. MaxMishaps]

InHand == FiringMonday(cycle)
Today == ServiceDate(cycle)
Goes(from, to) == tail = from /\ tail' = to
digest == <<fired, sent, posts, digests>>
insights == <<finalized, rollup>>
faults == <<mishaps, repeated>>

Poll ==
  \/ Tick /\ UNCHANGED jobVars
  \/ Rotate /\ Goes("rest", "feeds") /\ UNCHANGED <<digest, insights, faults>>
  \/ \E t \in Tables : Record(t) /\ Goes("feeds", "feeds") /\ UNCHANGED <<digest, insights, faults>>

\* An unreadable sidecar raises out of the loop and ends the process.
Raise ==
  /\ \/ tail = "feeds" /\ ~fired.ok
     \/ tail = "insights" /\ ~finalized.ok
  /\ Stop
  /\ tail' = "rest"
  /\ UNCHANGED <<digest, insights, faults>>

\* Mutant: the week is marked when it is found due.
ShouldFireMarking ==
  /\ fired.ok
  /\ Goes("feeds", IF fired.last >= InHand THEN "insights" ELSE "compose")
  /\ fired' = IF fired.last >= InHand THEN fired ELSE Marked(InHand)
  /\ UNCHANGED <<storeVars, sent, posts, digests, insights, faults>>

ShouldFire ==
  /\ fired.ok
  /\ Goes("feeds", IF fired.last >= InHand THEN "insights" ELSE "compose")
  /\ UNCHANGED <<storeVars, digest, insights, faults>>

Compose ==
  /\ Readable(WeekOf(InHand)) /\ Total(posts[InHand]) < MaxPosts
  /\ Goes("compose", "post")
  /\ UNCHANGED <<storeVars, digest, insights, faults>>

ComposeFails ==
  /\ Goes("compose", "insights")
  /\ UNCHANGED <<storeVars, digest, insights, faults>>

\* post_message never raises: without a URL, or on any HTTP error, it returns False.
Post(outcome) ==
  /\ Goes("post", "store")
  /\ sent' = outcome
  /\ posts' = Counted(posts, InHand, outcome)
  /\ UNCHANGED <<storeVars, fired, digests, insights, faults>>

\* Mutant: the row says delivered whatever the post returned.
StoreAsDelivered ==
  /\ Goes("store", "mark")
  /\ digests' = Counted(digests, InHand, "delivered")
  /\ UNCHANGED <<storeVars, fired, sent, posts, insights, faults>>

StoreDigest ==
  /\ Goes("store", "mark")
  /\ digests' = Counted(digests, InHand, sent)
  /\ UNCHANGED <<storeVars, fired, sent, posts, insights, faults>>

Mishap ==
  /\ mishaps < MaxMishaps
  /\ mishaps' = mishaps + 1
  /\ repeated' = IF tail \in {"store", "mark"} THEN [repeated EXCEPT ![InHand] = @ + 1] ELSE repeated

StoreFails ==
  /\ Goes("store", "insights")
  /\ Mishap
  /\ UNCHANGED <<storeVars, digest, insights>>

\* Mutant: nothing is marked.
MarkNothing ==
  /\ Goes("mark", "insights")
  /\ UNCHANGED <<storeVars, digest, insights, faults>>

\* The week is marked whether Slack took its digest or not.
MarkFired ==
  /\ Goes("mark", "insights")
  /\ fired' = Marked(InHand)
  /\ UNCHANGED <<storeVars, sent, posts, digests, insights, faults>>

ShouldFinalize ==
  /\ finalized.ok
  /\ Goes("insights", IF finalized.last >= Yesterday(cycle) THEN "today" ELSE "finalize")
  /\ UNCHANGED <<storeVars, digest, insights, faults>>

\* No snapshot is pinned: the insights are left to a later cycle.
NoRoutes ==
  /\ Goes("insights", "end")
  /\ UNCHANGED <<storeVars, digest, insights, faults>>

RecordDay(d) == rollup' = [rollup EXCEPT ![d] = ReadDay(d).rows]

Finalize ==
  /\ IF Yesterday(cycle) \in Days /\ ReadDay(Yesterday(cycle)).covered
     THEN Goes("finalize", "final mark") /\ RecordDay(Yesterday(cycle))
     ELSE Goes("finalize", "today") /\ UNCHANGED rollup
  /\ UNCHANGED <<storeVars, digest, finalized, faults>>

MarkFinalized ==
  /\ Goes("final mark", "today")
  /\ finalized' = Marked(Yesterday(cycle))
  /\ UNCHANGED <<storeVars, digest, rollup, faults>>

\* Every five minutes; a date with no partition yet is marked all the same.
RefreshToday ==
  /\ Goes("today", "end")
  /\ \/ UNCHANGED rollup
     \/ ReadDay(Today).covered /\ RecordDay(Today)
  /\ UNCHANGED <<storeVars, digest, finalized, faults>>

EndJobs ==
  /\ Goes("end", "rest")
  /\ EndCycle
  /\ UNCHANGED <<digest, insights, faults>>

\* The process dies between two steps, or inside one: a sidecar cut short, a
\* digest row without its lines, a rollup deleted and half written.
HalfDone ==
  \/ /\ tail = "store" /\ digests' = Counted(digests, InHand, sent)
     /\ UNCHANGED <<fired, sent, posts, insights>>
  \/ /\ tail = "mark" /\ fired' = Spoiled(fired)
     /\ UNCHANGED <<sent, posts, digests, insights>>
  \/ /\ tail \in {"final mark", "today"} /\ finalized' = Spoiled(finalized)
     /\ UNCHANGED <<digest, rollup>>
  \/ /\ \/ tail = "finalize" /\ Yesterday(cycle) \in Days
           /\ rollup' = [rollup EXCEPT ![Yesterday(cycle)] = PartRollup]
        \/ tail = "today" /\ rollup' = [rollup EXCEPT ![Today] = PartRollup]
     /\ UNCHANGED <<digest, finalized>>

Die ==
  /\ tail # "rest"
  /\ Mishap
  /\ Stop
  /\ tail' = "rest"
  /\ HalfDone \/ UNCHANGED <<digest, insights>>

Works ==
  \/ Rotate /\ Goes("rest", "feeds") /\ UNCHANGED <<digest, insights, faults>>
  \/ ShouldFire \/ Compose \/ (\E outcome \in Outcomes : Post(outcome)) \/ StoreDigest \/ MarkFired
  \/ ShouldFinalize \/ Finalize \/ MarkFinalized \/ RefreshToday \/ EndJobs

JobsNext ==
  \/ Poll \/ Works
  \/ Raise \/ ComposeFails \/ StoreFails \/ NoRoutes \/ Die

JobsSpec == JobsInit /\ [][JobsNext]_allVars

\* The process is started again and its cycles go on; a digest that may fail
\* and a snapshot that may be unpinned are not so for ever.
FairJobsSpec ==
  /\ JobsSpec
  /\ WF_allVars(Works \/ Raise)
  /\ SF_allVars(Compose)
  /\ SF_allVars(ShouldFinalize)

-----------------------------------------------------------------------------
IsDue(m) == now \in {n \in Instants : FiringMonday(n) = m}

\* A date marked as finalized has a rollup of every completion recorded for
\* it, whatever crashes came before (insights_trigger.py, mark_finalized).
FinalizedIsWhole ==
  finalized.last \in Days => rollup[finalized.last] = written[finalized.last][Completions]

OnRecord(m) == Total(digests[m]) >= 1

\* A week is marked only once a row of its digest is stored, and each row that
\* says delivered, or not, is owed to an attempt with that outcome: what Slack
\* did not take can be told from the rows (weekly_digest_trigger.py, digests/).
FiredIsOnRecord ==
  /\ fired.last \in Mondays => OnRecord(fired.last)
  /\ \A m \in Mondays, outcome \in Outcomes : digests[m][outcome] <= posts[m][outcome]

\* mark_fired "must only be called AFTER the digest has actually been generated
\* and delivered" (weekly_digest_trigger.py).
FiredIsDelivered ==
  fired.last \in Mondays => posts[fired.last]["delivered"] >= 1

\* A week's digest is attempted twice only after a failed write or a death on
\* the way to its mark, and once more for each (__main__.py, "may double-post").
RepeatsAreExplained ==
  \A m \in Mondays : Total(posts[m]) <= 1 + repeated[m]

\* The cycles go on trying until the week is on record and marked, whatever
\* failed or died before; only the next Monday ends that, and a sidecar cut
\* short.  A week overtaken before is lost (should_fire knows the last alone).
WeekIsSettled ==
  \A m \in Mondays :
    IsDue(m) ~> ((fired.last >= m /\ OnRecord(m)) \/ ~IsDue(m) \/ ~fired.ok)
=============================================================================
