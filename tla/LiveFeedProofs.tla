--------------------------- MODULE LiveFeedProofs ---------------------------
(***************************************************************************)
(* Proofs about LiveFeed, for any pages, addresses, caps and network: the  *)
(* caps hold, no slot and no hub queue leaks, and no wake-up is lost.      *)
(***************************************************************************)
EXTENDS LiveFeed, FiniteSetTheorems, SequenceTheorems, TLAPS

-----------------------------------------------------------------------------
(* Events.                                                                 *)

LEMMA SnapshotTyped ==
  ASSUME NEW pic \in Pictures
  PROVE  Snapshot(pic) \in Event
BY DEF Snapshot, Event

LEMMA DiffTyped ==
  ASSUME NEW previous \in Pictures, NEW pic \in Pictures
  PROVE  Diff(previous, pic) \in Event
BY DEF Diff, Event, Pictures

LEMMA ApplyTyped ==
  ASSUME NEW shown \in Pictures, NEW event \in Event
  PROVE  Apply(shown, event) \in Pictures
BY DEF Apply, Event, Pictures

\* A delta takes a page from the picture it was computed against to the new
\* one (_diff and the delta listener).
THEOREM DeltaReaches ==
  ASSUME NEW previous \in Pictures, NEW pic \in Pictures
  PROVE  Apply(previous, Diff(previous, pic)) = pic
<1>1. ASSUME NEW t \in Trips
      PROVE  Apply(previous, Diff(previous, pic))[t] = pic[t]
  BY DEF Apply, Diff, Pictures
<1>2. Apply(previous, Diff(previous, pic)) \in Pictures
  BY DiffTyped, ApplyTyped
<1> QED BY <1>1, <1>2 DEF Pictures

\* Nothing is left unsent when a delta is empty.
LEMMA EmptyDelta ==
  ASSUME NEW previous \in Pictures, NEW pic \in Pictures, Empty(Diff(previous, pic))
  PROVE  previous = pic
<1>1. ASSUME NEW t \in Trips
      PROVE  previous[t] = pic[t]
  <2>1. (IF pic[t] # previous[t] THEN pic[t] ELSE NONE) = NONE
    BY DEF Empty, Diff, Nothing
  <2>2. ~(previous[t] # NONE /\ pic[t] = NONE)
    BY DEF Empty, Diff
  <2> QED BY <2>1, <2>2
<1> QED BY <1>1 DEF Pictures

-----------------------------------------------------------------------------
(* What a page shows after the events under way.  Replay is a recursive    *)
(* function: that it has values, and only one, is shown by looking at the  *)
(* least n for which it would fail.                                        *)

\* A set of natural numbers has a least element.
LEMMA LeastElement ==
  ASSUME NEW S \in SUBSET Nat, S # {}
  PROVE  \E x \in S : \A y \in S : x <= y
<1> DEFINE below == {0 .. n - 1 : n \in S}
<1>1. below \subseteq FiniteSubsetsOf(Nat) /\ below # {}
  <2>1. ASSUME NEW n \in S PROVE IsFiniteSet(0 .. n - 1) /\ 0 .. n - 1 \subseteq Nat
    BY FS_Interval
  <2> QED BY <2>1 DEF FiniteSubsetsOf
<1>2. PICK least \in below : \A b \in below : ~ (<<b, least>> \in StrictSubsetOrdering(Nat))
  <2> HIDE DEF below
  <2> QED BY <1>1, WFMin, FS_StrictSubsetOrderingWellFounded
<1>3. PICK x \in S : least = 0 .. x - 1
  OBVIOUS
<1>4. ASSUME NEW y \in S PROVE x <= y
  <2> SUFFICES ASSUME y < x PROVE FALSE
    OBVIOUS
  <2>1. 0 .. y - 1 \subseteq 0 .. x - 1 /\ y \in 0 .. x - 1 /\ y \notin 0 .. y - 1
    OBVIOUS
  <2>2. 0 .. y - 1 \in below
    OBVIOUS
  <2>3. <<0 .. y - 1, least>> \in StrictSubsetOrdering(Nat)
    <3>1. 0 .. y - 1 # least
      BY <2>1, <1>3
    <3>2. 0 .. y - 1 \in SUBSET Nat /\ least \in SUBSET Nat
      BY <1>3
    <3> QED BY <2>1, <1>3, <3>1, <3>2 DEF StrictSubsetOrdering
  <2> QED BY <1>2, <2>2, <2>3
<1> QED BY <1>4

\* What a page shows after each of the first m events, if those are its pictures.
Shows(after, m, shown, events) ==
  /\ after \in [0 .. m -> Pictures]
  /\ after[0] = shown
  /\ \A n \in 1 .. m : after[n] = Apply(after[n - 1], events[n])

\* Any events can be shown one after the other.
LEMMA ShowsExists ==
  ASSUME NEW shown \in Pictures, NEW events \in Seq(Event), NEW m \in 0 .. Len(events)
  PROVE  \E after : Shows(after, m, shown, events)
<1> DEFINE Bad == {n \in 0 .. Len(events) : ~ \E after : Shows(after, n, shown, events)}
<1> SUFFICES Bad = {}
  OBVIOUS
<1> SUFFICES ASSUME Bad # {} PROVE FALSE
  OBVIOUS
<1>1. PICK n \in Bad : \A k \in Bad : n <= k
  <2> HIDE DEF Bad
  <2>1. Bad \in SUBSET Nat
    BY DEF Bad
  <2> QED BY <2>1, LeastElement
<1>2. n # 0
  <2>1. Shows([k \in 0 .. 0 |-> shown], 0, shown, events)
    BY DEF Shows
  <2> QED BY <2>1
<1>3. n \in Nat /\ n - 1 \in 0 .. Len(events) /\ n - 1 \notin Bad /\ n \in 1 .. Len(events)
  <2>1. n \in 0 .. Len(events)
    OBVIOUS
  <2> HIDE DEF Bad
  <2> QED BY <1>1, <1>2, <2>1
<1>4. PICK before : Shows(before, n - 1, shown, events)
  BY <1>3
<1> DEFINE after == [k \in 0 .. n |-> IF k = n THEN Apply(before[n - 1], events[n]) ELSE before[k]]
<1>5. Shows(after, n, shown, events)
  <2>1. events[n] \in Event /\ before[n - 1] \in Pictures
    BY <1>3, <1>4 DEF Shows
  <2>2. Apply(before[n - 1], events[n]) \in Pictures
    BY <2>1, ApplyTyped
  <2>3. after \in [0 .. n -> Pictures]
    BY <1>3, <1>4, <2>2 DEF Shows
  <2>4. after[0] = shown
    BY <1>2, <1>3, <1>4 DEF Shows
  <2>5. ASSUME NEW k \in 1 .. n PROVE after[k] = Apply(after[k - 1], events[k])
    <3>1. CASE k = n
      BY <1>3, <3>1
    <3>2. CASE k # n
      <4>1. k \in 1 .. n - 1 /\ k - 1 \in 0 .. n - 1 /\ k \in 0 .. n
        BY <1>3, <3>2
      <4>2. after[k] = before[k] /\ after[k - 1] = before[k - 1]
        BY <1>3, <3>2, <4>1
      <4> QED BY <1>4, <4>1, <4>2 DEF Shows
    <3> QED BY <3>1, <3>2
  <2> HIDE DEF after
  <2> QED BY <2>3, <2>4, <2>5 DEF Shows
<1> QED BY <1>5

\* They can be shown in one way only.
LEMMA ShowsUnique ==
  ASSUME NEW shown, NEW events, NEW m \in Nat, NEW f, NEW g,
         Shows(f, m, shown, events), Shows(g, m, shown, events)
  PROVE  f = g
<1> DEFINE Bad == {n \in 0 .. m : f[n] # g[n]}
<1>1. SUFFICES Bad = {}
  BY DEF Shows
<1> SUFFICES ASSUME Bad # {} PROVE FALSE
  OBVIOUS
<1>2. PICK n \in Bad : \A k \in Bad : n <= k
  <2> HIDE DEF Bad
  <2>1. Bad \in SUBSET Nat
    BY DEF Bad
  <2> QED BY <2>1, LeastElement
<1>3. n \in 1 .. m /\ n - 1 \in 0 .. m /\ n - 1 \notin Bad
  <2>1. n \in 0 .. m /\ n # 0
    BY DEF Shows
  <2> HIDE DEF Bad
  <2> QED BY <1>2, <2>1
<1>4. f[n - 1] = g[n - 1]
  BY <1>3
<1> QED BY <1>3, <1>4 DEF Shows

\* Replay is that one way.
LEMMA ReplayShows ==
  ASSUME NEW shown \in Pictures, NEW events \in Seq(Event)
  PROVE  Shows(Replay(shown, events), Len(events), shown, events)
<1> DEFINE m == Len(events)
<1>1. m \in 0 .. m /\ m \in Nat
  OBVIOUS
<1>2. PICK w : Shows(w, m, shown, events)
  BY <1>1, ShowsExists
<1>3. w = [n \in 0 .. m |-> IF n = 0 THEN shown ELSE Apply(w[n - 1], events[n])]
  BY <1>1, <1>2 DEF Shows
<1> DEFINE r == Replay(shown, events)
<1>4. r = [n \in 0 .. m |-> IF n = 0 THEN shown ELSE Apply(r[n - 1], events[n])]
  BY <1>3 DEF Replay
<1> HIDE DEF r
<1>5. ASSUME NEW n \in 0 .. m PROVE r[n] \in Pictures
  <2> DEFINE Bad == {k \in 0 .. m : r[k] \notin Pictures}
  <2> SUFFICES ASSUME Bad # {} PROVE FALSE
    OBVIOUS
  <2>1. PICK b \in Bad : \A k \in Bad : b <= k
    <3> HIDE DEF Bad
    <3>1. Bad \in SUBSET Nat
      BY DEF Bad
    <3> QED BY <3>1, LeastElement
  <2>2. b \in 0 .. m /\ b # 0
    BY <1>4
  <2>3. b - 1 \in 0 .. m /\ b - 1 \notin Bad
    <3> HIDE DEF Bad
    <3> QED BY <2>1, <2>2
  <2>4. r[b - 1] \in Pictures /\ events[b] \in Event
    BY <2>2, <2>3
  <2>5. r[b] = Apply(r[b - 1], events[b])
    BY <1>4, <2>2
  <2> QED BY <2>4, <2>5, ApplyTyped
<1>6. r \in [0 .. m -> Pictures]
  BY <1>4, <1>5
<1>7. r[0] = shown
  BY <1>1, <1>4
<1>8. ASSUME NEW n \in 1 .. m PROVE r[n] = Apply(r[n - 1], events[n])
  BY <1>1, <1>4
<1>9. Shows(r, m, shown, events)
  BY <1>6, <1>7, <1>8 DEF Shows
<1> QED BY <1>9 DEF r

\* With nothing under way the page shows what it shows.
LEMMA ReplayNothing ==
  ASSUME NEW shown \in Pictures
  PROVE  Replay(shown, <<>>)[0] = shown
<1>1. <<>> \in Seq(Event)
  OBVIOUS
<1>2. Shows(Replay(shown, <<>>), Len(<<>>), shown, <<>>)
  BY <1>1, ReplayShows
<1> QED BY <1>2 DEF Shows

\* An event put on the wire is applied after all the others.
LEMMA ReplayAppend ==
  ASSUME NEW shown \in Pictures, NEW events \in Seq(Event), NEW event \in Event
  PROVE  LET more == Append(events, event)
             n == Len(events)
         IN /\ \A k \in 0 .. n : Replay(shown, more)[k] = Replay(shown, events)[k]
            /\ Replay(shown, more)[n + 1] = Apply(Replay(shown, events)[n], event)
<1> DEFINE more == Append(events, event)
           n == Len(events)
           f == Replay(shown, more)
           g == Replay(shown, events)
           cut == [k \in 0 .. n |-> f[k]]
<1>1. /\ more \in Seq(Event) /\ n \in Nat /\ Len(more) = n + 1
      /\ more[n + 1] = event /\ \A k \in 1 .. n : more[k] = events[k]
  OBVIOUS
<1>2. Shows(f, n + 1, shown, more) /\ Shows(g, n, shown, events)
  BY <1>1, ReplayShows
<1> HIDE DEF f, g, more
<1>3. Shows(cut, n, shown, events)
  <2>1. cut \in [0 .. n -> Pictures] /\ cut[0] = shown
    BY <1>1, <1>2 DEF Shows
  <2>2. ASSUME NEW k \in 1 .. n PROVE cut[k] = Apply(cut[k - 1], events[k])
    <3>1. k \in 1 .. n + 1 /\ k \in 0 .. n /\ k - 1 \in 0 .. n
      BY <1>1
    <3>2. f[k] = Apply(f[k - 1], more[k])
      BY <1>2, <3>1 DEF Shows
    <3> QED BY <1>1, <3>1, <3>2
  <2> QED BY <2>1, <2>2 DEF Shows
<1>4. cut = g
  BY <1>1, <1>2, <1>3, ShowsUnique
<1>5. \A k \in 0 .. n : f[k] = g[k]
  BY <1>4
<1>6. f[n + 1] = Apply(f[n], event)
  <2>1. n + 1 \in 1 .. n + 1 /\ (n + 1) - 1 = n
    BY <1>1
  <2> QED BY <1>1, <1>2, <2>1 DEF Shows
<1> QED BY <1>1, <1>5, <1>6 DEF f, g, more

\* Tail, index by index.
LEMMA TailIs ==
  ASSUME NEW S, NEW q \in Seq(S), q # <<>>
  PROVE  Tail(q) = [k \in 1 .. Len(q) - 1 |-> q[k + 1]]
<1>1. Tail(q) \in Seq(S) /\ Len(Tail(q)) = Len(q) - 1 /\ Len(q) - 1 \in Nat
  OBVIOUS
<1>2. \A k \in 1 .. Len(q) - 1 : Tail(q)[k] = q[k + 1]
  OBVIOUS
<1>3. Tail(q) \in [1 .. Len(q) - 1 -> S]
  BY <1>1, LenProperties
<1> QED BY <1>2, <1>3

\* Taking the first event off the wire and applying it shifts what is to come.
LEMMA ReplayTail ==
  ASSUME NEW shown \in Pictures, NEW events \in Seq(Event), events # <<>>
  PROVE  \A k \in 0 .. Len(events) - 1 :
           Replay(Apply(shown, Head(events)), Tail(events))[k] = Replay(shown, events)[k + 1]
<1> DEFINE n == Len(events) - 1
           rest == Tail(events)
           first == Apply(shown, Head(events))
           f == Replay(shown, events)
           g == Replay(first, rest)
           cut == [k \in 0 .. n |-> f[k + 1]]
<1>1. /\ n \in Nat /\ Len(events) = n + 1 /\ Head(events) = events[1] /\ events[1] \in Event
      /\ rest \in Seq(Event) /\ Len(rest) = n /\ \A k \in 1 .. n : rest[k] = events[k + 1]
  OBVIOUS
<1>2. first \in Pictures
  BY <1>1, ApplyTyped
<1>3. Shows(f, n + 1, shown, events) /\ Shows(g, n, first, rest)
  BY <1>1, <1>2, ReplayShows
<1>4. first = Apply(shown, events[1])
  BY <1>1
<1> HIDE DEF f, g, rest, first, n
<1>5. Shows(cut, n, first, rest)
  <2>1. cut \in [0 .. n -> Pictures]
    BY <1>1, <1>3 DEF Shows
  <2>2. cut[0] = first
    <3>1. 1 \in 1 .. n + 1 /\ 0 \in 0 .. n /\ 1 - 1 = 0 /\ 0 + 1 = 1
      BY <1>1
    <3>2. f[1] = Apply(f[0], events[1])
      BY <1>3, <3>1 DEF Shows
    <3> QED BY <1>3, <1>4, <3>1, <3>2 DEF Shows
  <2>3. ASSUME NEW k \in 1 .. n PROVE cut[k] = Apply(cut[k - 1], rest[k])
    <3>1. k + 1 \in 1 .. n + 1 /\ k \in 0 .. n /\ k - 1 \in 0 .. n /\ (k + 1) - 1 = k /\ (k - 1) + 1 = k
      BY <1>1
    <3>2. f[k + 1] = Apply(f[k], events[k + 1])
      BY <1>3, <3>1 DEF Shows
    <3> QED BY <1>1, <3>1, <3>2
  <2> QED BY <2>1, <2>2, <2>3 DEF Shows
<1>6. cut = g
  BY <1>1, <1>3, <1>5, ShowsUnique
<1>7. \A k \in 0 .. n : g[k] = f[k + 1]
  BY <1>6
<1> QED BY <1>7 DEF f, g, rest, first, n

-----------------------------------------------------------------------------
(* Types.                                                                  *)

\* A stream being served belongs to a page.
Owned == \A s \in Streams : phase[s] # "none" => owner[s] \in Pages

LEMMA TypeInit == FeedInit => FeedTypeOK /\ Owned
<1> SUFFICES ASSUME FeedInit PROVE FeedTypeOK /\ Owned
  OBVIOUS
<1> USE DEF FeedInit
<1>1. Nothing \in Pictures
  BY DEF Nothing, Pictures
<1>2. picture \in Pictures /\ sent \in [Streams -> Pictures] /\ view \in [Pages -> Pictures]
  BY <1>1
<1>3. wire \in [Streams -> Seq(Event)]
  <2>1. <<>> \in Seq(Event)
    OBVIOUS
  <2> QED BY <2>1
<1>4. phase \in [Streams -> Phases] /\ link \in [Pages -> Links] /\ Owned
  BY DEF Phases, Links, Owned
<1>5. /\ unpublished \in BOOLEAN
      /\ owner \in [Streams -> Pages \cup {NONE}]
      /\ queue \in [Streams -> {0, 1}]
      /\ subscribed \subseteq Streams
      /\ globalCount \in Nat
      /\ perIp \in [Addresses -> Nat]
      /\ current \in [Pages -> Streams \cup {NONE}]
  OBVIOUS
<1> QED BY <1>2, <1>3, <1>4, <1>5 DEF FeedTypeOK

LEMMA TypeStep == FeedTypeOK /\ Owned /\ [FeedNext]_feedVars => FeedTypeOK' /\ Owned'
<1> SUFFICES ASSUME FeedTypeOK, Owned, [FeedNext]_feedVars
             PROVE  FeedTypeOK' /\ Owned'
  OBVIOUS
<1> USE DEF FeedTypeOK, Owned
<1>1. CASE Change
  BY <1>1 DEF Change, hub, slots, page
<1>2. CASE Publish
  BY <1>2 DEF Publish, slots, page
<1>3. CASE Restart
  <2>1. Nothing \in Pictures
    BY DEF Nothing, Pictures
  <2>2. picture' \in Pictures /\ sent' \in [Streams -> Pictures] /\ view' \in [Pages -> Pictures]
    BY <1>3, <2>1 DEF Restart
  <2>3. wire' \in [Streams -> Seq(Event)]
    <3>1. <<>> \in Seq(Event)
      OBVIOUS
    <3> QED BY <1>3, <3>1 DEF Restart
  <2>4. phase' \in [Streams -> Phases] /\ Owned'
    BY <1>3 DEF Restart, Phases
  <2>5. link' \in [Pages -> Links]
    BY <1>3 DEF Restart, Links
  <2>6. /\ unpublished' \in BOOLEAN
        /\ owner' \in [Streams -> Pages \cup {NONE}]
        /\ queue' \in [Streams -> {0, 1}]
        /\ subscribed' \subseteq Streams
        /\ globalCount' \in Nat
        /\ perIp' \in [Addresses -> Nat]
        /\ current' \in [Pages -> Streams \cup {NONE}]
    BY <1>3 DEF Restart
  <2> QED BY <2>2, <2>3, <2>4, <2>5, <2>6
<1>4. ASSUME NEW s \in Streams, Start(s)
      PROVE  FeedTypeOK' /\ Owned'
  <2>1. /\ phase' \in [Streams -> Phases]
        /\ queue' \in [Streams -> {0, 1}]
        /\ subscribed' \subseteq Streams
    BY <1>4 DEF Start, Phases
  <2>2. /\ sent' \in [Streams -> Pictures]
        /\ wire' \in [Streams -> Seq(Event)]
    BY <1>4, SnapshotTyped DEF Start
  <2>3. link' \in [Pages -> Links]
    BY <1>4 DEF Start, Links
  <2> QED BY <1>4, <2>1, <2>2, <2>3 DEF Start, slots
<1>5. ASSUME NEW s \in Streams, Await(s)
      PROVE  FeedTypeOK' /\ Owned'
  BY <1>5 DEF Await, Phases, hub, slots, page
<1>6. ASSUME NEW s \in Streams, Wake(s)
      PROVE  FeedTypeOK' /\ Owned'
  <2> DEFINE delta == Diff(sent[s], picture)
  <2>1. delta \in Event
    BY DiffTyped
  <2>2. queue' \in [Streams -> {0, 1}]
    BY <1>6 DEF Wake
  <2>3. UNCHANGED <<picture, unpublished, owner, subscribed, slots, page>>
    BY <1>6 DEF Wake
  <2>4. CASE Empty(delta)
    BY <1>6, <2>2, <2>3, <2>4 DEF Wake, slots, page
  <2>5. CASE ~Empty(delta)
    <3>1. /\ phase' = [phase EXCEPT ![s] = "yielded"]
          /\ wire' = [wire EXCEPT ![s] = Append(@, delta)]
          /\ sent' = [sent EXCEPT ![s] = picture]
          /\ phase[s] = "waiting"
      BY <1>6, <2>5 DEF Wake
    <3>2. phase' \in [Streams -> Phases] /\ sent' \in [Streams -> Pictures]
      BY <3>1 DEF Phases
    <3>3. wire' \in [Streams -> Seq(Event)]
      <4>1. Append(wire[s], delta) \in Seq(Event)
        BY <2>1
      <4> QED BY <3>1, <4>1
    <3>4. Owned'
      BY <2>3, <3>1
    <3> QED BY <2>2, <2>3, <3>2, <3>3, <3>4 DEF slots, page
  <2> QED BY <2>4, <2>5
<1>7. ASSUME NEW s \in Streams, Heartbeat(s)
      PROVE  FeedTypeOK' /\ Owned'
  BY <1>7 DEF Heartbeat, Phases, hub, slots, page
<1>8. ASSUME NEW s \in Streams, End(s) \/ Abandon(s)
      PROVE  FeedTypeOK' /\ Owned'
  <2>1. phase' \in [Streams -> Phases] /\ owner' = owner /\ Owned'
    BY <1>8 DEF End, Noticed, Abandon, Phases
  <2>2. /\ sent' \in [Streams -> Pictures]
        /\ wire' \in [Streams -> Seq(Event)]
    <3>1. Nothing \in Pictures /\ <<>> \in Seq(Event)
      BY DEF Nothing, Pictures
    <3>2. CASE End(s)
      BY <3>1, <3>2 DEF End
    <3>3. CASE Abandon(s)
      BY <3>3 DEF Abandon
    <3> QED BY <1>8, <3>2, <3>3
  <2> QED BY <1>8, <2>1, <2>2 DEF End, Abandon, hub, slots, page
<1>79. ASSUME NEW s \in Streams, InnerFinally(s)
       PROVE  FeedTypeOK' /\ Owned'
  <2>1. subscribed' \subseteq Streams /\ queue' \in [Streams -> {0, 1}]
    BY <1>79 DEF InnerFinally, Unsubscribe
  <2>2. /\ phase' \in [Streams -> Phases]
        /\ owner' \in [Streams -> Pages \cup {NONE}]
        /\ Owned'
    <3>1. CASE phase[s] = "released"
      BY <1>79, <3>1 DEF InnerFinally, Over, Phases
    <3>2. CASE phase[s] # "released"
      BY <1>79, <3>2 DEF InnerFinally
    <3> QED BY <3>1, <3>2
  <2> QED BY <1>79, <2>1, <2>2 DEF InnerFinally, slots, page
<1>80. ASSUME NEW s \in Streams, OuterFinally(s)
       PROVE  FeedTypeOK' /\ Owned'
  <2>1. globalCount' \in Nat /\ perIp' \in [Addresses -> Nat]
    <3> DEFINE a == Address[owner[s]]
    <3>1. /\ globalCount' = IF globalCount > 0 THEN globalCount - 1 ELSE 0
          /\ perIp' = [perIp EXCEPT ![a] = IF perIp[a] > 1 THEN perIp[a] - 1 ELSE 0]
      BY <1>80 DEF OuterFinally, Release
    <3>2. a \in Addresses
      BY <1>80 DEF OuterFinally, Addresses
    <3>3. perIp[a] \in Nat
      BY <3>2
    <3>4. (IF perIp[a] > 1 THEN perIp[a] - 1 ELSE 0) \in Nat
      BY <3>3
    <3>5. globalCount' \in Nat
      <4>1. globalCount \in Nat
        OBVIOUS
      <4> QED BY <3>1, <4>1
    <3>6. perIp' \in [Addresses -> Nat]
      <4> DEFINE left == IF perIp[a] > 1 THEN perIp[a] - 1 ELSE 0
      <4>1. left \in Nat
        BY <3>4
      <4>2. perIp' = [perIp EXCEPT ![a] = left]
        BY <3>1
      <4> HIDE DEF left, a
      <4> QED BY <4>1, <4>2
    <3> QED BY <3>5, <3>6
  <2>2. /\ phase' \in [Streams -> Phases]
        /\ owner' \in [Streams -> Pages \cup {NONE}]
        /\ Owned'
    <3>1. CASE s \in subscribed
      BY <1>80, <3>1 DEF OuterFinally, Phases
    <3>2. CASE s \notin subscribed
      BY <1>80, <3>2 DEF OuterFinally, Over, Phases
    <3> QED BY <3>1, <3>2
  <2> QED BY <1>80, <2>1, <2>2 DEF OuterFinally, hub, page
<1>9. ASSUME NEW p \in Pages, Connect(p)
      PROVE  FeedTypeOK' /\ Owned'
  <2>1. PICK s \in Streams : /\ phase[s] = "none"
                             /\ phase' = [phase EXCEPT ![s] = "accepted"]
                             /\ owner' = [owner EXCEPT ![s] = p]
                             /\ current' = [current EXCEPT ![p] = s]
    BY <1>9 DEF Connect
  <2>2. /\ phase' \in [Streams -> Phases]
        /\ owner' \in [Streams -> Pages \cup {NONE}]
        /\ current' \in [Pages -> Streams \cup {NONE}]
        /\ Owned'
    BY <2>1 DEF Phases
  <2>3. globalCount' \in Nat /\ perIp' \in [Addresses -> Nat]
    BY <1>9 DEF Connect, Addresses
  <2> QED BY <1>9, <2>2, <2>3 DEF Connect, hub
<1>10. ASSUME NEW p \in Pages, Reject(p)
       PROVE  FeedTypeOK' /\ Owned'
  BY <1>10 DEF Reject, Links, hub, slots
<1>11. ASSUME NEW p \in Pages, Deliver(p)
       PROVE  FeedTypeOK' /\ Owned'
  <2> DEFINE s == current[p]
  <2>1. s \in Streams /\ wire[s] \in Seq(Event) /\ wire[s] # <<>>
    BY <1>11 DEF Deliver
  <2>2. Head(wire[s]) \in Event /\ Tail(wire[s]) \in Seq(Event)
    BY <2>1
  <2>3. Apply(view[p], Head(wire[s])) \in Pictures
    BY <2>2, ApplyTyped
  <2>4. /\ view' = [view EXCEPT ![p] = Apply(view[p], Head(wire[s]))]
        /\ wire' = [wire EXCEPT ![s] = Tail(wire[s])]
    BY <1>11 DEF Deliver
  <2>5. view' \in [Pages -> Pictures] /\ wire' \in [Streams -> Seq(Event)]
    BY <2>2, <2>3, <2>4
  <2> QED BY <1>11, <2>5 DEF Deliver, hub, slots
<1>12. ASSUME NEW p \in Pages, Break(p)
       PROVE  FeedTypeOK' /\ Owned'
  BY <1>12 DEF Break, Links, hub, slots
<1>13. CASE UNCHANGED feedVars
  BY <1>13 DEF feedVars, hub, slots, page
<1> QED BY <1>1, <1>2, <1>3, <1>4, <1>5, <1>6, <1>7, <1>8, <1>79, <1>80, <1>9, <1>10, <1>11, <1>12, <1>13
        DEF FeedNext, Serve, Browse

-----------------------------------------------------------------------------
(* The caps.                                                               *)

\* Adding or removing one element of a finite set, as the actions do it.
LEMMA OneMore ==
  ASSUME NEW S, IsFiniteSet(S), NEW x, x \notin S, NEW T, T = S \cup {x}
  PROVE  Cardinality(T) = Cardinality(S) + 1
BY FS_AddElement

LEMMA OneLess ==
  ASSUME NEW S, IsFiniteSet(S), NEW x, x \in S, NEW T, T = S \ {x}
  PROVE  /\ Cardinality(T) = Cardinality(S) - 1
         /\ Cardinality(S) \in Nat
         /\ Cardinality(T) \in Nat
<1>1. IsFiniteSet(T) /\ Cardinality(T) = Cardinality(S) - 1
  BY FS_RemoveElement
<1> QED BY <1>1, FS_CardinalityType

LEMMA BusyFinite ==
  /\ IsFiniteSet({s \in Streams : Holding(s)})
  /\ \A a : IsFiniteSet(StreamsOf(a))
<1>1. {s \in Streams : Holding(s)} \in SUBSET Streams
  OBVIOUS
<1>2. \A a : StreamsOf(a) \in SUBSET Streams
  BY DEF StreamsOf
<1> QED BY <1>1, <1>2, FS_Subset, FeedAssumption

\* A step that neither gives a stream a slot nor takes one back leaves the
\* counts right.
LEMMA SlotFrame ==
  ASSUME SlotsAreStreams, globalCount' = globalCount, perIp' = perIp,
         \A s \in Streams : /\ Holding(s)' <=> Holding(s)
                            /\ Holding(s) => owner'[s] = owner[s]
  PROVE  SlotsAreStreams'
<1>1. {s \in Streams : Holding(s)}' = {s \in Streams : Holding(s)}
  OBVIOUS
<1>2. ASSUME NEW a \in Addresses
      PROVE  StreamsOf(a)' = StreamsOf(a)
  BY DEF StreamsOf
<1> QED BY <1>1, <1>2 DEF SlotsAreStreams

LEMMA SlotInit == FeedInit => SlotsAreStreams
<1> SUFFICES ASSUME FeedInit PROVE SlotsAreStreams
  OBVIOUS
<1>1. {s \in Streams : Holding(s)} = {}
  BY DEF FeedInit, Holding
<1>2. \A a \in Addresses : StreamsOf(a) = {}
  BY DEF FeedInit, StreamsOf, Holding
<1>3. globalCount = 0 /\ \A a \in Addresses : perIp[a] = 0
  BY DEF FeedInit
<1>4. Cardinality({}) = 0
  BY FS_EmptySet
<1>5. 0 <= MaxGlobal /\ 0 <= MaxPerIp
  BY FeedAssumption
<1> QED BY <1>1, <1>2, <1>3, <1>4, <1>5 DEF SlotsAreStreams

LEMMA SlotStep ==
  FeedTypeOK /\ Owned /\ SlotsAreStreams /\ [FeedNext]_feedVars => SlotsAreStreams'
<1> SUFFICES ASSUME FeedTypeOK, Owned, SlotsAreStreams, [FeedNext]_feedVars
             PROVE  SlotsAreStreams'
  OBVIOUS
<1> DEFINE Busy == {s \in Streams : Holding(s)}
<1>0. phase \in [Streams -> Phases] /\ owner \in [Streams -> Pages \cup {NONE}]
  BY DEF FeedTypeOK
<1>1. CASE Change
  BY <1>1, SlotFrame DEF Change, slots, Holding
<1>2. CASE Publish
  BY <1>2, SlotFrame DEF Publish, slots, Holding
<1>3. CASE Restart
  <2>1. Busy' = {}
    BY <1>3 DEF Restart, Holding
  <2>2. \A a \in Addresses : StreamsOf(a)' = {}
    BY <1>3 DEF Restart, StreamsOf, Holding
  <2>3. globalCount' = 0 /\ \A a \in Addresses : perIp'[a] = 0
    BY <1>3 DEF Restart
  <2>4. Cardinality({}) = 0
    BY FS_EmptySet
  <2>5. 0 <= MaxGlobal /\ 0 <= MaxPerIp
    BY FeedAssumption
  <2> QED BY <2>1, <2>2, <2>3, <2>4, <2>5 DEF SlotsAreStreams
<1>4. ASSUME NEW s \in Streams, \/ Start(s) \/ Await(s) \/ Wake(s) \/ Heartbeat(s)
                                \/ End(s) \/ Abandon(s)
      PROVE  SlotsAreStreams'
  <2>1. owner' = owner /\ globalCount' = globalCount /\ perIp' = perIp
    BY <1>4 DEF Start, Await, Wake, Heartbeat, End, Abandon, slots
  <2>2. ASSUME NEW r \in Streams
        PROVE  Holding(r)' <=> Holding(r)
    BY <1>0, <1>4 DEF Start, Await, Wake, Heartbeat, End, Noticed, Abandon, Holding
  <2> QED BY <2>1, <2>2, SlotFrame
<1>45. ASSUME NEW s \in Streams, InnerFinally(s)
       PROVE  SlotsAreStreams'
  <2>1. globalCount' = globalCount /\ perIp' = perIp
    BY <1>45 DEF InnerFinally, slots
  <2>2. ASSUME NEW r \in Streams
        PROVE  (Holding(r)' <=> Holding(r)) /\ (Holding(r) => owner'[r] = owner[r])
    BY <1>0, <1>45 DEF InnerFinally, Over, Holding
  <2> QED BY <2>1, <2>2, SlotFrame
<1>5. ASSUME NEW s \in Streams, OuterFinally(s)
      PROVE  SlotsAreStreams'
  <2>0. PICK a \in Addresses : a = Address[owner[s]]
    BY <1>5 DEF OuterFinally, Owned, Addresses
  <2>1. /\ phase[s] = "ending"
        /\ phase'[s] \in {"released", "none"}
        /\ \A r \in Streams \ {s} : phase'[r] = phase[r] /\ owner'[r] = owner[r]
        /\ globalCount' = IF globalCount > 0 THEN globalCount - 1 ELSE 0
        /\ perIp' = [perIp EXCEPT ![a] = IF perIp[a] > 1 THEN perIp[a] - 1 ELSE 0]
    BY <1>0, <1>5, <2>0 DEF OuterFinally, Over, Release
  <2>3. s \in Busy /\ Busy' = Busy \ {s}
    BY <1>0, <2>1 DEF Holding
  <2>4. globalCount' = Cardinality(Busy') /\ globalCount' <= MaxGlobal
    <3>1. /\ Cardinality(Busy') = Cardinality(Busy) - 1
          /\ Cardinality(Busy) \in Nat
          /\ Cardinality(Busy') \in Nat
      BY <2>3, OneLess, BusyFinite
    <3>2. globalCount = Cardinality(Busy) /\ globalCount <= MaxGlobal
      BY DEF SlotsAreStreams
    <3> HIDE DEF Busy
    <3> QED BY <2>1, <3>1, <3>2, FeedAssumption
  <2>5. s \in StreamsOf(a) /\ StreamsOf(a)' = StreamsOf(a) \ {s}
    <3>1. s \in StreamsOf(a)
      BY <2>0, <2>1 DEF StreamsOf, Holding
    <3>2. StreamsOf(a)' = {r \in Streams : Holding(r)' /\ Address[owner'[r]] = a}
      BY DEF StreamsOf
    <3>3. StreamsOf(a) = {r \in Streams : Holding(r) /\ Address[owner[r]] = a}
      BY DEF StreamsOf
    <3>4. ~Holding(s)' /\ \A r \in Streams \ {s} : Holding(r)' <=> Holding(r)
      BY <2>1 DEF Holding
    <3> QED BY <2>1, <3>1, <3>2, <3>3, <3>4
  <2>6. perIp'[a] = Cardinality(StreamsOf(a)') /\ perIp'[a] <= MaxPerIp
    <3>1. /\ Cardinality(StreamsOf(a)') = Cardinality(StreamsOf(a)) - 1
          /\ Cardinality(StreamsOf(a)) \in Nat
          /\ Cardinality(StreamsOf(a)') \in Nat
      BY <2>5, OneLess, BusyFinite
    <3>2. perIp[a] = Cardinality(StreamsOf(a)) /\ perIp[a] <= MaxPerIp
      BY DEF SlotsAreStreams
    <3>3. perIp'[a] = IF perIp[a] > 1 THEN perIp[a] - 1 ELSE 0
      BY <2>1 DEF FeedTypeOK
    <3> QED BY <3>1, <3>2, <3>3, FeedAssumption
  <2>7. ASSUME NEW b \in Addresses, b # a
        PROVE  perIp'[b] = Cardinality(StreamsOf(b)') /\ perIp'[b] <= MaxPerIp
    <3>1. StreamsOf(b)' = StreamsOf(b)
      BY <1>0, <2>0, <2>1, <2>7 DEF StreamsOf, Holding
    <3>2. perIp'[b] = perIp[b]
      BY <2>1, <2>7 DEF FeedTypeOK
    <3> QED BY <3>1, <3>2 DEF SlotsAreStreams
  <2> QED BY <2>4, <2>6, <2>7 DEF SlotsAreStreams
<1>6. ASSUME NEW p \in Pages, Connect(p)
      PROVE  SlotsAreStreams'
  <2> DEFINE a == Address[p]
  <2>1. PICK s \in Streams : /\ phase[s] = "none"
                             /\ phase' = [phase EXCEPT ![s] = "accepted"]
                             /\ owner' = [owner EXCEPT ![s] = p]
    BY <1>6 DEF Connect
  <2>2. /\ globalCount' = globalCount + 1
        /\ perIp' = [perIp EXCEPT ![a] = perIp[a] + 1]
        /\ globalCount < MaxGlobal
        /\ perIp[a] < MaxPerIp
    <3>1. a \in Addresses
      BY DEF Addresses
    <3>2. globalCount \in Nat /\ perIp[a] \in Nat
      BY <3>1 DEF FeedTypeOK
    <3>3. ~Full(a)
      BY <1>6 DEF Connect
    <3> QED BY <1>6, <3>2, <3>3, FeedAssumption DEF Connect, Full
  <2>3. s \notin Busy /\ Busy' = Busy \cup {s}
    BY <1>0, <2>1 DEF Holding
  <2>4. globalCount' = Cardinality(Busy') /\ globalCount' <= MaxGlobal
    <3>1. Cardinality(Busy') = Cardinality(Busy) + 1
      BY <2>3, OneMore, BusyFinite
    <3>2. globalCount = Cardinality(Busy) /\ globalCount \in Nat
      BY DEF SlotsAreStreams, FeedTypeOK
    <3> HIDE DEF Busy
    <3> QED BY <2>2, <3>1, <3>2, FeedAssumption
  <2>5. s \notin StreamsOf(a) /\ StreamsOf(a)' = StreamsOf(a) \cup {s}
    BY <1>0, <2>1 DEF StreamsOf, Holding
  <2>6. perIp'[a] = Cardinality(StreamsOf(a)') /\ perIp'[a] <= MaxPerIp
    <3>0. a \in Addresses
      BY DEF Addresses
    <3>1. Cardinality(StreamsOf(a)') = Cardinality(StreamsOf(a)) + 1
      BY <2>5, OneMore, BusyFinite
    <3>2. perIp[a] = Cardinality(StreamsOf(a)) /\ perIp[a] \in Nat
      BY <3>0 DEF SlotsAreStreams, FeedTypeOK
    <3>3. perIp'[a] = perIp[a] + 1
      BY <2>2, <3>0 DEF FeedTypeOK
    <3> QED BY <2>2, <3>1, <3>2, <3>3, FeedAssumption
  <2>7. ASSUME NEW b \in Addresses, b # a
        PROVE  perIp'[b] = Cardinality(StreamsOf(b)') /\ perIp'[b] <= MaxPerIp
    <3>1. StreamsOf(b)' = StreamsOf(b)
      BY <1>0, <2>1, <2>7 DEF StreamsOf, Holding
    <3>2. perIp'[b] = perIp[b]
      BY <2>2, <2>7 DEF FeedTypeOK
    <3> QED BY <3>1, <3>2 DEF SlotsAreStreams
  <2> HIDE DEF a
  <2> QED BY <2>4, <2>6, <2>7 DEF SlotsAreStreams
<1>7. ASSUME NEW p \in Pages, Reject(p) \/ Deliver(p) \/ Break(p)
      PROVE  SlotsAreStreams'
  BY <1>7, SlotFrame DEF Reject, Deliver, Break, slots, Holding
<1>8. CASE UNCHANGED feedVars
  BY <1>8, SlotFrame DEF feedVars, slots, Holding
<1> QED BY <1>1, <1>2, <1>3, <1>4, <1>45, <1>5, <1>6, <1>7, <1>8 DEF FeedNext, Serve, Browse

-----------------------------------------------------------------------------
(* The hub.                                                                *)

\* What keeps wake-ups from being lost, wherever a stream is: with nothing
\* queued and nothing to publish it has sent the picture.
UpToDate ==
  \A s \in Streams : Serving(s) /\ queue[s] = 0 /\ ~unpublished => sent[s] = picture

HubInv == SubscribersAreServed /\ UpToDate

LEMMA HubInit == FeedInit => HubInv
BY DEF FeedInit, HubInv, SubscribersAreServed, UpToDate, Serving

LEMMA HubStep == FeedTypeOK /\ HubInv /\ [FeedNext]_feedVars => HubInv'
<1> SUFFICES ASSUME FeedTypeOK, HubInv, [FeedNext]_feedVars
             PROVE  HubInv'
  OBVIOUS
<1> USE DEF HubInv, SubscribersAreServed, UpToDate, Serving
<1>0. /\ phase \in [Streams -> Phases]
      /\ queue \in [Streams -> {0, 1}]
      /\ sent \in [Streams -> Pictures]
      /\ picture \in Pictures
      /\ subscribed \subseteq Streams
  BY DEF FeedTypeOK
<1>1. CASE Change
  BY <1>1 DEF Change, hub
<1>2. CASE Publish
  BY <1>2 DEF Publish
<1>3. CASE Restart
  BY <1>3 DEF Restart
<1>4. ASSUME NEW s \in Streams, Start(s)
      PROVE  HubInv'
  BY <1>0, <1>4 DEF Start
<1>5. ASSUME NEW s \in Streams, Await(s) \/ Heartbeat(s)
      PROVE  HubInv'
  <2>1. /\ Serving(s) /\ Serving(s)'
        /\ \A r \in Streams \ {s} : phase'[r] = phase[r]
        /\ UNCHANGED <<picture, unpublished, queue, subscribed, sent>>
    BY <1>0, <1>5 DEF Await, Heartbeat, hub
  <2>2. SubscribersAreServed'
    BY <1>0, <2>1
  <2>3. UpToDate'
    BY <1>0, <2>1
  <2> QED BY <2>2, <2>3
<1>6. ASSUME NEW s \in Streams, Wake(s)
      PROVE  HubInv'
  <2>1. /\ phase[s] = "waiting"
        /\ queue' = [queue EXCEPT ![s] = queue[s] - 1]
        /\ subscribed' = subscribed
        /\ picture' = picture
        /\ unpublished' = unpublished
    BY <1>6 DEF Wake
  <2>2. /\ \A r \in Streams \ {s} : phase'[r] = phase[r] /\ sent'[r] = sent[r]
        /\ phase'[s] \in {"yielded", "waiting"}
    BY <1>0, <1>6 DEF Wake
  <2>3. sent'[s] = picture
    BY <1>0, <1>6, EmptyDelta DEF Wake
  <2>4. SubscribersAreServed'
    BY <1>0, <2>1, <2>2
  <2>5. UpToDate'
    BY <1>0, <2>1, <2>2, <2>3
  <2> QED BY <2>4, <2>5
<1>7. ASSUME NEW s \in Streams, End(s)
      PROVE  HubInv'
  BY <1>0, <1>7 DEF End, Noticed, hub
<1>75. ASSUME NEW s \in Streams, Abandon(s)
       PROVE  HubInv'
  BY <1>0, <1>75 DEF Abandon, hub
<1>76. ASSUME NEW s \in Streams, InnerFinally(s)
       PROVE  HubInv'
  <2>1. /\ phase[s] \in {"ending", "released"} /\ ~Serving(s)'
        /\ \A r \in Streams \ {s} : phase'[r] = phase[r] /\ queue'[r] = queue[r]
        /\ subscribed' = subscribed \ {s}
        /\ UNCHANGED <<picture, unpublished, sent>>
    BY <1>0, <1>76 DEF InnerFinally, Unsubscribe, Over
  <2>2. SubscribersAreServed'
    BY <1>0, <2>1
  <2>3. UpToDate'
    BY <1>0, <2>1
  <2> QED BY <2>2, <2>3
<1>77. ASSUME NEW s \in Streams, OuterFinally(s)
       PROVE  HubInv'
  <2>1. /\ phase[s] = "ending"
        /\ s \in subscribed => phase'[s] = "released"
        /\ s \notin subscribed => phase'[s] = "none"
        /\ \A r \in Streams \ {s} : phase'[r] = phase[r]
        /\ UNCHANGED <<picture, unpublished, queue, subscribed, sent>>
    BY <1>0, <1>77 DEF OuterFinally, Over, hub
  <2>2. SubscribersAreServed'
    BY <1>0, <2>1
  <2>3. UpToDate'
    BY <1>0, <2>1
  <2> QED BY <2>2, <2>3
<1>8. ASSUME NEW p \in Pages, Connect(p)
      PROVE  HubInv'
  <2>1. PICK s \in Streams : phase[s] = "none" /\ phase' = [phase EXCEPT ![s] = "accepted"]
    BY <1>8 DEF Connect
  <2> QED BY <1>0, <1>8, <2>1 DEF Connect, hub
<1>9. ASSUME NEW p \in Pages, Reject(p) \/ Deliver(p) \/ Break(p)
      PROVE  HubInv'
  BY <1>9 DEF Reject, Deliver, Break, hub
<1>10. CASE UNCHANGED feedVars
  BY <1>10 DEF feedVars, hub
<1> QED BY <1>1, <1>2, <1>3, <1>4, <1>5, <1>6, <1>7, <1>75, <1>76, <1>77, <1>8, <1>9, <1>10
        DEF FeedNext, Serve, Browse

-----------------------------------------------------------------------------
(* The page.                                                               *)

Served(s) == phase[s] \in {"accepted", "yielded", "waiting"}

\* The stream a page reads is its own and has not ended, a stream that is free
\* has no page, and nothing is under way on one whose generator does not run.
Linked ==
  /\ \A p \in Pages : current[p] # NONE => owner[current[p]] = p
  /\ \A p \in Pages : current[p] # NONE => Served(current[p])
  /\ \A s \in Streams : phase[s] = "none" => owner[s] = NONE
  /\ \A s \in Streams : ~Serving(s) => wire[s] = <<>>

LEMMA LinkInit == FeedInit => Linked
BY DEF FeedInit, Linked

LEMMA LinkStep == FeedTypeOK /\ Owned /\ Linked /\ [FeedNext]_feedVars => Linked'
<1> SUFFICES ASSUME FeedTypeOK, Owned, Linked, [FeedNext]_feedVars
             PROVE  Linked'
  OBVIOUS
<1> USE DEF Linked, Serving, Served
<1>0. /\ phase \in [Streams -> Phases]
      /\ owner \in [Streams -> Pages \cup {NONE}]
      /\ current \in [Pages -> Streams \cup {NONE}]
      /\ wire \in [Streams -> Seq(Event)]
      /\ NONE \notin Streams
  BY FeedAssumption DEF FeedTypeOK
<1>1. CASE Change \/ Publish
  BY <1>1 DEF Change, Publish, page
<1>2. CASE Restart
  BY <1>2 DEF Restart
<1>3. ASSUME NEW s \in Streams, Start(s)
      PROVE  Linked'
  BY <1>0, <1>3 DEF Start
<1>4. ASSUME NEW s \in Streams, Await(s) \/ Heartbeat(s)
      PROVE  Linked'
  <2>1. /\ Serving(s) /\ Serving(s)'
        /\ \A r \in Streams \ {s} : phase'[r] = phase[r]
        /\ UNCHANGED <<owner, wire, current>>
    BY <1>0, <1>4 DEF Await, Heartbeat, page
  <2> QED BY <1>0, <2>1
<1>5. ASSUME NEW s \in Streams, Wake(s)
      PROVE  Linked'
  <2>1. owner' = owner /\ current' = current
    BY <1>5 DEF Wake, page
  <2>2. ASSUME NEW r \in Streams, ~Serving(r)'
        PROVE  ~Serving(r) /\ wire'[r] = wire[r]
    BY <1>0, <1>5, <2>2 DEF Wake
  <2>3. ASSUME NEW r \in Streams, phase'[r] = "none"
        PROVE  phase[r] = "none"
    BY <1>0, <1>5, <2>3 DEF Wake
  <2>4. \A r \in Streams : Served(r) => Served(r)'
    BY <1>0, <1>5 DEF Wake
  <2> QED BY <1>0, <2>1, <2>2, <2>3, <2>4
<1>6. ASSUME NEW s \in Streams, End(s) \/ Abandon(s)
      PROVE  Linked'
  <2>1. /\ ~Attached(s) /\ owner' = owner /\ current' = current
        /\ phase[s] # "none" /\ phase'[s] \in {"ending", "lost"}
        /\ wire' = [wire EXCEPT ![s] = <<>>]
        /\ \A r \in Streams \ {s} : phase'[r] = phase[r]
    BY <1>0, <1>6 DEF End, Noticed, Abandon, page
  <2>2. ASSUME NEW p \in Pages, current[p] # NONE
        PROVE  current[p] # s
    BY <1>0, <2>1, <2>2, FeedAssumption DEF Attached
  <2>3. \A r \in Streams : ~Serving(r)' => wire'[r] = <<>>
    BY <1>0, <2>1
  <2> QED BY <1>0, <2>1, <2>2, <2>3
<1>66. ASSUME NEW s \in Streams, InnerFinally(s) \/ OuterFinally(s)
       PROVE  Linked'
  <2>1. /\ phase[s] \in {"ending", "released"}
        /\ phase'[s] \in {"ending", "released", "none"}
        /\ phase'[s] = "none" => owner' = [owner EXCEPT ![s] = NONE]
        /\ phase'[s] # "none" => owner' = owner
        /\ \A r \in Streams \ {s} : phase'[r] = phase[r] /\ owner'[r] = owner[r]
        /\ wire' = wire /\ current' = current
    BY <1>0, <1>66 DEF InnerFinally, OuterFinally, Over, page
  <2>2. ASSUME NEW p \in Pages, current[p] # NONE
        PROVE  owner'[current[p]] = p /\ Served(current[p])'
    <3>1. current[p] # s
      BY <1>0, <2>1, <2>2
    <3> QED BY <1>0, <2>1, <2>2, <3>1
  <2>3. ASSUME NEW r \in Streams, ~Serving(r)'
        PROVE  wire'[r] = <<>>
    BY <1>0, <2>1, <2>3
  <2>4. ASSUME NEW r \in Streams, phase'[r] = "none"
        PROVE  owner'[r] = NONE
    BY <1>0, <2>1, <2>4
  <2> QED BY <2>1, <2>2, <2>3, <2>4
<1>7. ASSUME NEW p \in Pages, Connect(p)
      PROVE  Linked'
  <2>1. PICK s \in Streams : /\ phase[s] = "none"
                             /\ phase' = [phase EXCEPT ![s] = "accepted"]
                             /\ owner' = [owner EXCEPT ![s] = p]
                             /\ current' = [current EXCEPT ![p] = s]
    BY <1>7 DEF Connect
  <2>2. wire' = wire
    BY <1>7 DEF Connect
  <2>3. ASSUME NEW q \in Pages, current'[q] # NONE
        PROVE  owner'[current'[q]] = q /\ Served(current[q])'
    <3>1. CASE q = p
      BY <1>0, <2>1, <3>1
    <3>2. CASE q # p
      <4>1. current'[q] = current[q] /\ current[q] \in Streams /\ owner[current[q]] = q
              /\ Served(current[q])
        BY <1>0, <2>1, <2>3, <3>2
      <4>2. current[q] # s
        <5>1. owner[s] = NONE
          BY <2>1
        <5> QED BY <4>1, <5>1, FeedAssumption
      <4> QED BY <1>0, <2>1, <4>1, <4>2
    <3> QED BY <3>1, <3>2
  <2>4. ASSUME NEW r \in Streams, ~Serving(r)'
        PROVE  ~Serving(r)
    BY <1>0, <2>1, <2>4
  <2>5. ASSUME NEW r \in Streams, phase'[r] = "none"
        PROVE  owner'[r] = NONE
    BY <1>0, <2>1, <2>5
  <2> QED BY <2>2, <2>3, <2>4, <2>5
<1>8. ASSUME NEW p \in Pages, Reject(p) \/ Break(p)
      PROVE  Linked'
  BY <1>0, <1>8 DEF Reject, Break
<1>9. ASSUME NEW p \in Pages, Deliver(p)
      PROVE  Linked'
  <2>1. /\ owner' = owner /\ current' = current /\ phase' = phase
        /\ wire[current[p]] # <<>> /\ current[p] \in Streams
        /\ wire' = [wire EXCEPT ![current[p]] = Tail(wire[current[p]])]
    BY <1>0, <1>9 DEF Deliver
  <2>2. Serving(current[p])
    BY <2>1
  <2> QED BY <1>0, <2>1, <2>2
<1>10. CASE UNCHANGED feedVars
  BY <1>10 DEF feedVars, page
<1> QED BY <1>1, <1>2, <1>3, <1>4, <1>5, <1>6, <1>66, <1>7, <1>8, <1>9, <1>10
        DEF FeedNext, Serve, Browse

\* What the page of stream s shows once all of its events have arrived.
Arrived(s) == Replay(view[owner[s]], wire[s])[Len(wire[s])]

\* A step that touches neither the wire of a stream nor its page's view.
LEMMA MirrorFrame ==
  ASSUME MirrorInStep, NEW s \in Streams,
         (Serving(s) /\ Attached(s))' => Serving(s) /\ Attached(s) /\ owner'[s] = owner[s],
         wire'[s] = wire[s], sent'[s] = sent[s], view'[owner[s]] = view[owner[s]]
  PROVE  (Serving(s) /\ Attached(s))' => Arrived(s)' = sent'[s]
BY DEF MirrorInStep, Arrived

LEMMA MirrorInit == FeedInit => MirrorInStep
BY DEF FeedInit, MirrorInStep, Serving

LEMMA MirrorStep ==
  FeedTypeOK /\ Owned /\ Linked /\ MirrorInStep /\ [FeedNext]_feedVars => MirrorInStep'
<1> SUFFICES ASSUME FeedTypeOK, Owned, Linked, MirrorInStep, [FeedNext]_feedVars,
                    NEW r \in Streams, (Serving(r) /\ Attached(r))'
             PROVE  Arrived(r)' = sent'[r]
  BY DEF MirrorInStep, Arrived
<1>0. /\ phase \in [Streams -> Phases]
      /\ owner \in [Streams -> Pages \cup {NONE}]
      /\ current \in [Pages -> Streams \cup {NONE}]
      /\ wire \in [Streams -> Seq(Event)]
      /\ sent \in [Streams -> Pictures]
      /\ view \in [Pages -> Pictures]
      /\ picture \in Pictures
      /\ NONE \notin Streams
  BY FeedAssumption DEF FeedTypeOK
<1>1. CASE Change \/ Publish
  BY <1>1, MirrorFrame DEF Change, Publish, page, Serving, Attached
<1>2. CASE Restart
  BY <1>2 DEF Restart, Serving
<1>3. ASSUME NEW s \in Streams, Start(s)
      PROVE  Arrived(r)' = sent'[r]
  <2>1. CASE r = s
    <3>1. /\ owner' = owner /\ view' = view
          /\ wire'[s] = <<Snapshot(picture)>> /\ sent'[s] = picture
          /\ owner[s] \in Pages
      BY <1>0, <1>3 DEF Start, Owned
    <3>2. <<Snapshot(picture)>> = Append(<<>>, Snapshot(picture)) /\ Len(<<Snapshot(picture)>>) = 0 + 1
      OBVIOUS
    <3>3. view[owner[s]] \in Pictures /\ Snapshot(picture) \in Event /\ <<>> \in Seq(Event)
      BY <1>0, <3>1, SnapshotTyped
    <3>4. Replay(view[owner[s]], <<Snapshot(picture)>>)[1]
            = Apply(Replay(view[owner[s]], <<>>)[0], Snapshot(picture))
      <4>1. Len(<<>>) = 0 /\ 0 + 1 = 1
        OBVIOUS
      <4>2. Replay(view[owner[s]], Append(<<>>, Snapshot(picture)))[Len(<<>>) + 1]
              = Apply(Replay(view[owner[s]], <<>>)[Len(<<>>)], Snapshot(picture))
        BY <3>3, ReplayAppend
      <4> QED BY <3>2, <4>1, <4>2
    <3>5. Apply(Replay(view[owner[s]], <<>>)[0], Snapshot(picture)) = picture
      BY DEF Apply, Snapshot
    <3> QED BY <2>1, <3>1, <3>2, <3>4, <3>5 DEF Arrived
  <2>2. CASE r # s
    BY <1>0, <1>3, <2>2, MirrorFrame DEF Start, Serving, Attached
  <2> QED BY <2>1, <2>2
<1>4. ASSUME NEW s \in Streams, Await(s) \/ Heartbeat(s)
      PROVE  Arrived(r)' = sent'[r]
  BY <1>0, <1>4, MirrorFrame DEF Await, Heartbeat, page, Serving, Attached
<1>5. ASSUME NEW s \in Streams, Wake(s)
      PROVE  Arrived(r)' = sent'[r]
  <2> DEFINE delta == Diff(sent[s], picture)
  <2>0. owner' = owner /\ current' = current /\ view' = view /\ phase[s] = "waiting"
    BY <1>5 DEF Wake, page
  <2>1. CASE r # s \/ Empty(delta)
    <3>1. phase'[r] = phase[r] /\ wire'[r] = wire[r] /\ sent'[r] = sent[r]
      BY <1>0, <1>5, <2>1 DEF Wake
    <3> QED BY <2>0, <3>1, MirrorFrame DEF Serving, Attached
  <2>2. CASE r = s /\ ~Empty(delta)
    <3>1. wire'[s] = Append(wire[s], delta) /\ sent'[s] = picture
      BY <1>0, <1>5, <2>2 DEF Wake
    <3>2. owner[s] \in Pages /\ view[owner[s]] \in Pictures /\ delta \in Event /\ wire[s] \in Seq(Event)
      BY <1>0, <2>0, DiffTyped DEF Owned
    <3>3. Serving(s) /\ Attached(s)
      BY <2>0, <2>2 DEF Serving, Attached
    <3>4. Replay(view[owner[s]], wire[s])[Len(wire[s])] = sent[s]
      BY <3>3 DEF MirrorInStep
    <3>5. Len(wire'[s]) = Len(wire[s]) + 1
      BY <3>1, <3>2
    <3>6. Replay(view[owner[s]], wire'[s])[Len(wire[s]) + 1] = Apply(sent[s], delta)
      BY <3>1, <3>2, <3>4, ReplayAppend
    <3>7. Apply(sent[s], delta) = picture
      BY <1>0, DeltaReaches
    <3> QED BY <2>0, <2>2, <3>1, <3>5, <3>6, <3>7 DEF Arrived
  <2> QED BY <2>1, <2>2
<1>6. ASSUME NEW s \in Streams,
             End(s) \/ Abandon(s) \/ InnerFinally(s) \/ OuterFinally(s)
      PROVE  Arrived(r)' = sent'[r]
  <2>1. /\ phase'[s] \notin {"yielded", "waiting"}
        /\ view' = view /\ current' = current
        /\ \A q \in Streams \ {s} : /\ phase'[q] = phase[q] /\ owner'[q] = owner[q]
                                    /\ wire'[q] = wire[q] /\ sent'[q] = sent[q]
    BY <1>0, <1>6 DEF End, Noticed, Abandon, InnerFinally, OuterFinally, Over, page
  <2>2. r # s
    BY <2>1 DEF Serving
  <2> QED BY <1>0, <2>1, <2>2, MirrorFrame DEF Serving, Attached
<1>7. ASSUME NEW p \in Pages, Connect(p)
      PROVE  Arrived(r)' = sent'[r]
  <2>1. PICK s \in Streams : /\ phase[s] = "none"
                             /\ phase' = [phase EXCEPT ![s] = "accepted"]
                             /\ owner' = [owner EXCEPT ![s] = p]
                             /\ current' = [current EXCEPT ![p] = s]
    BY <1>7 DEF Connect
  <2>2. r # s
    BY <1>0, <2>1 DEF Serving
  <2>3. phase'[r] = phase[r] /\ owner'[r] = owner[r] /\ owner[r] # p
    BY <1>0, <2>1, <2>2 DEF Attached
  <2>4. Serving(r) /\ Attached(r)
    <3>1. current'[owner[r]] = current[owner[r]]
      BY <1>0, <2>1, <2>3 DEF Attached
    <3> QED BY <2>3, <3>1 DEF Serving, Attached
  <2> QED BY <1>7, <2>3, <2>4, MirrorFrame DEF Connect
<1>8. ASSUME NEW p \in Pages, Reject(p) \/ Break(p)
      PROVE  Arrived(r)' = sent'[r]
  <2>1. phase' = phase /\ owner' = owner /\ wire' = wire /\ sent' = sent /\ view' = view
    BY <1>8 DEF Reject, Break
  <2>2. Serving(r) /\ Attached(r)
    BY <1>0, <1>8, <2>1 DEF Reject, Break, Serving, Attached
  <2> QED BY <2>1, <2>2, MirrorFrame
<1>9. ASSUME NEW p \in Pages, Deliver(p)
      PROVE  Arrived(r)' = sent'[r]
  <2> DEFINE s == current[p]
             events == wire[s]
  <2>1. /\ s \in Streams /\ owner[s] = p /\ events \in Seq(Event) /\ events # <<>>
        /\ phase' = phase /\ owner' = owner /\ current' = current /\ sent' = sent
        /\ view' = [view EXCEPT ![p] = Apply(view[p], Head(events))]
        /\ wire' = [wire EXCEPT ![s] = Tail(events)]
    BY <1>0, <1>9 DEF Deliver, Linked
  <2>2. Serving(r) /\ Attached(r)
    BY <2>1 DEF Serving, Attached
  <2>3. CASE r = s
    <3>1. /\ Len(Tail(events)) = Len(events) - 1
          /\ Len(events) - 1 \in 0 .. Len(events) - 1
          /\ (Len(events) - 1) + 1 = Len(events)
      BY <2>1
    <3>2. Replay(Apply(view[p], Head(events)), Tail(events))[Len(events) - 1] = Replay(view[p], events)[Len(events)]
      <4>1. view[p] \in Pictures
        BY <1>0
      <4>2. \A k \in 0 .. Len(events) - 1 :
              Replay(Apply(view[p], Head(events)), Tail(events))[k] = Replay(view[p], events)[k + 1]
        <5> HIDE DEF s, events
        <5> QED BY <2>1, <4>1, ReplayTail
      <4> HIDE DEF s, events
      <4> QED BY <3>1, <4>2
    <3>3. Replay(view[p], events)[Len(events)] = sent[s]
      BY <2>1, <2>2, <2>3 DEF MirrorInStep
    <3>4. view'[p] = Apply(view[p], Head(events)) /\ wire'[s] = Tail(events)
      BY <1>0, <2>1
    <3> HIDE DEF s, events
    <3> QED BY <2>1, <2>3, <3>1, <3>2, <3>3, <3>4 DEF Arrived
  <2>4. CASE r # s
    <3>1. owner[r] # p
      BY <2>2, <2>4 DEF Attached
    <3>2. wire'[r] = wire[r] /\ view'[owner[r]] = view[owner[r]]
      BY <1>0, <2>1, <2>4, <3>1
    <3> QED BY <2>1, <2>2, <3>2, MirrorFrame
  <2> QED BY <2>3, <2>4
<1>10. CASE UNCHANGED feedVars
  BY <1>10, MirrorFrame DEF feedVars, page, Serving, Attached
<1> QED BY <1>1, <1>2, <1>3, <1>4, <1>5, <1>6, <1>7, <1>8, <1>9, <1>10
        DEF FeedNext, Serve, Browse

-----------------------------------------------------------------------------
(* The theorems.                                                           *)

FeedInv == FeedTypeOK /\ Owned /\ SlotsAreStreams /\ HubInv /\ Linked /\ MirrorInStep

\* The inductive invariant holds of every reachable state of the live stream.
THEOREM FeedInductive == FeedSpec => []FeedInv
<1>1. FeedInit => FeedInv
  BY TypeInit, SlotInit, HubInit, LinkInit, MirrorInit DEF FeedInv
<1>2. FeedInv /\ [FeedNext]_feedVars => FeedInv'
  BY TypeStep, SlotStep, HubStep, LinkStep, MirrorStep DEF FeedInv
<1> QED BY <1>1, <1>2, PTL DEF FeedSpec

\* Types: in particular no hub queue ever holds more than one wake-up
\* (subscribe(maxsize=1) in _event_source).
THEOREM FeedTypeCorrect == FeedSpec => []FeedTypeOK
<1>1. FeedInv => FeedTypeOK
  BY DEF FeedInv
<1> QED BY <1>1, FeedInductive, PTL

\* Every slot counted is a stream being served and neither cap is exceeded,
\* whatever pages, addresses and caps (ConnectionTracker).
THEOREM CapsHold == FeedSpec => []SlotsAreStreams
<1>1. FeedInv => SlotsAreStreams
  BY DEF FeedInv
<1> QED BY <1>1, FeedInductive, PTL

\* The hub's subscribers are the generators that run (subscribe and the finally
\* of _event_source).
THEOREM HubExact == FeedSpec => []SubscribersAreServed
<1>1. FeedInv => SubscribersAreServed
  BY DEF FeedInv, HubInv
<1> QED BY <1>1, FeedInductive, PTL

\* Dropping a tick on a full queue loses no publication (publish()).
THEOREM WakeupsKept == FeedSpec => []NoLostWakeup
<1>1. FeedInv => NoLostWakeup
  BY DEF FeedInv, HubInv, UpToDate, NoLostWakeup, Serving
<1> QED BY <1>1, FeedInductive, PTL

\* The server never loses track of what a page shows: snapshot and deltas, in
\* whatever order they are sent, received and lost, leave the page with the
\* picture its stream last sent (_event_source's `sent`, useLiveFeed's
\* trainsRef).
THEOREM MirrorHolds == FeedSpec => []MirrorInStep
<1>1. FeedInv => MirrorInStep
  BY DEF FeedInv
<1> QED BY <1>1, FeedInductive, PTL

-----------------------------------------------------------------------------
(* The live stream implements PictureFeed: what is under way to a page is  *)
(* the pictures it will show.                                              *)

\* What is under way to a page that reads stream s.
Coming(p, s) == [n \in 1 .. Len(wire[s]) |-> Replay(view[p], wire[s])[n]]

LEMMA ComingPictures ==
  ASSUME FeedTypeOK, NEW p \in Pages, NEW s \in Streams
  PROVE  Coming(p, s) \in Seq(Pictures) /\ Len(Coming(p, s)) = Len(wire[s])
<1>1. view[p] \in Pictures /\ wire[s] \in Seq(Event)
  BY DEF FeedTypeOK
<1>2. Shows(Replay(view[p], wire[s]), Len(wire[s]), view[p], wire[s])
  BY <1>1, ReplayShows
<1>3. Len(wire[s]) \in Nat /\ \A n \in 1 .. Len(wire[s]) : Replay(view[p], wire[s])[n] \in Pictures
  BY <1>1, <1>2 DEF Shows
<1> QED BY <1>3 DEF Coming

LEMMA UnderWayIs ==
  ASSUME FeedTypeOK, NEW p \in Pages
  PROVE  /\ current[p] = NONE => UnderWay(p) = <<>>
         /\ current[p] # NONE => UnderWay(p) = Coming(p, current[p])
         /\ UnderWay(p) \in Seq(Pictures)
<1>1. current[p] # NONE => current[p] \in Streams
  BY DEF FeedTypeOK
<1>2. current[p] # NONE => UnderWay(p) = Coming(p, current[p])
  BY DEF UnderWay, Coming
<1> QED BY <1>1, <1>2, ComingPictures DEF UnderWay

\* A step that leaves a page, its stream and that stream's wire alone.
LEMMA UnderWayFrame ==
  ASSUME NEW p \in Pages, current'[p] = current[p], view'[p] = view[p],
         current[p] # NONE => wire'[current[p]] = wire[current[p]]
  PROVE  UnderWay(p)' = UnderWay(p)
BY DEF UnderWay

pending == [p \in Pages |-> UnderWay(p)]

LEMMA PendingFrame ==
  ASSUME \A p \in Pages : UnderWay(p)' = UnderWay(p)
  PROVE  pending' = pending
BY DEF pending

LEMMA FeedRefinesInit == FeedInit => Feed!Init
<1> SUFFICES ASSUME FeedInit PROVE Feed!Init
  OBVIOUS
<1>1. \A p \in Pages : UnderWay(p) = <<>>
  BY DEF FeedInit, UnderWay
<1> QED BY <1>1 DEF FeedInit, Feed!Init

\* Every step of the stream is a change of the picture, a picture sent, a
\* picture shown, pictures lost with a connection, or nothing a page sees.
LEMMA FeedRefinesStep ==
  FeedInv /\ FeedInv' /\ [FeedNext]_feedVars => [Feed!Next]_<<picture, pending, view>>
<1> SUFFICES ASSUME FeedInv, FeedInv', [FeedNext]_feedVars
             PROVE  \/ Feed!Next
                    \/ picture' = picture /\ pending' = pending /\ view' = view
  OBVIOUS
<1>0. /\ FeedTypeOK /\ Owned /\ Linked /\ MirrorInStep
      /\ phase \in [Streams -> Phases]
      /\ owner \in [Streams -> Pages \cup {NONE}]
      /\ current \in [Pages -> Streams \cup {NONE}]
      /\ wire \in [Streams -> Seq(Event)]
      /\ sent \in [Streams -> Pictures]
      /\ view \in [Pages -> Pictures]
      /\ picture \in Pictures
      /\ FeedTypeOK'
  BY DEF FeedInv, FeedTypeOK
<1>1. CASE Change
  <2>1. pending' = pending
    BY <1>1, UnderWayFrame, PendingFrame DEF Change, page
  <2>2. Feed!Change
    BY <1>1, <2>1 DEF Change, page, Feed!Change, pending
  <2> QED BY <2>2 DEF Feed!Next
<1>2. CASE Publish
  BY <1>2, UnderWayFrame, PendingFrame DEF Publish, page
<1>3. CASE Restart
  <2>1. \A p \in Pages : UnderWay(p)' = <<>>
    BY <1>3 DEF Restart, UnderWay
  <2>2. pending' = [p \in Pages |-> IF p \in Pages THEN <<>> ELSE pending[p]]
    BY <2>1 DEF pending
  <2>3. Feed!Lose
    BY <1>3, <2>2 DEF Restart, Feed!Lose, pending
  <2> QED BY <2>3 DEF Feed!Next
<1>4. ASSUME NEW s \in Streams, NEW p \in Pages, current[p] = s, owner[s] = p,
             UnderWay(p)' = Append(UnderWay(p), picture),
             picture' = picture, view' = view, current' = current,
             \A r \in Streams \ {s} : wire'[r] = wire[r]
      PROVE  Feed!Next
  <2>1. \A q \in Pages \ {p} : current[q] # s
    BY <1>0, <1>4, FeedAssumption DEF Linked
  <2>2. \A q \in Pages \ {p} : UnderWay(q)' = UnderWay(q)
    BY <1>0, <1>4, <2>1, UnderWayFrame
  <2>3. pending' = [pending EXCEPT ![p] = Append(pending[p], picture)]
    BY <1>4, <2>2 DEF pending
  <2>4. Feed!Send(p)
    BY <1>4, <2>3 DEF Feed!Send, pending
  <2> QED BY <2>4 DEF Feed!Next
<1>5. ASSUME NEW s \in Streams, ~Attached(s), owner[s] \in Pages,
             picture' = picture, view' = view, current' = current,
             \A r \in Streams \ {s} : wire'[r] = wire[r]
      PROVE  pending' = pending
  <2>1. \A q \in Pages : current[q] # s
    <3>1. owner[s] # NONE
      BY <1>5, FeedAssumption
    <3> QED BY <1>0, <1>5, <3>1, FeedAssumption DEF Linked, Attached
  <2> QED BY <1>0, <1>5, <2>1, UnderWayFrame, PendingFrame
<1>6. ASSUME NEW s \in Streams, Start(s)
      PROVE  Feed!Next \/ (picture' = picture /\ pending' = pending /\ view' = view)
  <2>1. /\ picture' = picture /\ view' = view /\ current' = current
        /\ wire' = [wire EXCEPT ![s] = <<Snapshot(picture)>>]
        /\ phase[s] = "accepted"
    BY <1>6 DEF Start
  <2>2. owner[s] \in Pages /\ \A r \in Streams \ {s} : wire'[r] = wire[r]
    BY <1>0, <2>1 DEF Owned
  <2>3. CASE ~Attached(s)
    BY <1>5, <2>1, <2>2, <2>3
  <2>4. CASE Attached(s)
    <3>0. PICK p \in Pages : p = owner[s]
      BY <2>2
    <3>1. current[p] = s /\ current[p] # NONE
      BY <2>4, <3>0, FeedAssumption DEF Attached
    <3>2. wire[s] = <<>>
      BY <1>0, <2>1 DEF Linked, Serving
    <3>3. UnderWay(p) = <<>>
      BY <3>1, <3>2 DEF UnderWay
    <3>4. wire'[s] = Append(<<>>, Snapshot(picture)) /\ Len(wire'[s]) = 1
      BY <1>0, <2>1
    <3>5. Replay(view[p], wire'[s])[1] = picture
      <4>1. view[p] \in Pictures /\ Snapshot(picture) \in Event /\ <<>> \in Seq(Event)
        BY <1>0, SnapshotTyped
      <4>2. Replay(view[p], Append(<<>>, Snapshot(picture)))[Len(<<>>) + 1]
              = Apply(Replay(view[p], <<>>)[Len(<<>>)], Snapshot(picture))
        BY <4>1, ReplayAppend
      <4>3. Len(<<>>) = 0 /\ 0 + 1 = 1
        OBVIOUS
      <4>4. Apply(Replay(view[p], <<>>)[0], Snapshot(picture)) = picture
        BY DEF Apply, Snapshot
      <4> QED BY <3>4, <4>2, <4>3, <4>4
    <3>6. UnderWay(p)' = [n \in 1 .. 1 |-> Replay(view[p], wire'[s])[n]]
      <4>1. current'[p] = s /\ s # NONE /\ view'[p] = view[p]
        BY <2>1, <3>1
      <4>2. UnderWay(p)' = [n \in 1 .. Len(wire'[s]) |-> Replay(view[p], wire'[s])[n]]
        BY <4>1 DEF UnderWay
      <4> QED BY <3>4, <4>2
    <3>7. UnderWay(p)' = Append(<<>>, picture)
      BY <3>5, <3>6
    <3> QED BY <1>4, <2>1, <2>2, <3>0, <3>1, <3>3, <3>7
  <2> QED BY <2>3, <2>4
<1>7. ASSUME NEW s \in Streams, Await(s) \/ Heartbeat(s)
      PROVE  picture' = picture /\ pending' = pending /\ view' = view
  BY <1>7, UnderWayFrame, PendingFrame DEF Await, Heartbeat, page
<1>8. ASSUME NEW s \in Streams, Wake(s)
      PROVE  Feed!Next \/ (picture' = picture /\ pending' = pending /\ view' = view)
  <2> DEFINE delta == Diff(sent[s], picture)
  <2>1. picture' = picture /\ view' = view /\ current' = current /\ phase[s] = "waiting"
    BY <1>8 DEF Wake, page
  <2>2. CASE Empty(delta)
    BY <1>8, <2>1, <2>2, UnderWayFrame, PendingFrame DEF Wake
  <2>3. CASE ~Empty(delta)
    <3>1. wire' = [wire EXCEPT ![s] = Append(wire[s], delta)]
      BY <1>8, <2>3 DEF Wake
    <3>2. owner[s] \in Pages /\ \A r \in Streams \ {s} : wire'[r] = wire[r]
      BY <1>0, <2>1, <3>1 DEF Owned
    <3>3. CASE ~Attached(s)
      BY <1>5, <2>1, <3>2, <3>3
    <3>4. CASE Attached(s)
      <4>0. PICK p \in Pages : p = owner[s]
        BY <3>2
      <4> DEFINE n == Len(wire[s])
      <4>1. current[p] = s /\ current[p] # NONE /\ current'[p] = s
        BY <2>1, <3>4, <4>0, FeedAssumption DEF Attached
      <4>2. view[p] \in Pictures /\ delta \in Event /\ wire[s] \in Seq(Event)
        BY <1>0, DiffTyped
      <4>3. wire'[s] = Append(wire[s], delta) /\ Len(wire'[s]) = n + 1 /\ n \in Nat
        BY <1>0, <3>1, <4>2
      <4>4. Replay(view[p], wire[s])[n] = sent[s]
        BY <1>0, <2>1, <3>4, <4>0 DEF MirrorInStep, Serving
      <4>5. /\ \A k \in 1 .. n : Replay(view[p], wire'[s])[k] = Replay(view[p], wire[s])[k]
            /\ Replay(view[p], wire'[s])[n + 1] = Apply(sent[s], delta)
        BY <4>2, <4>3, <4>4, ReplayAppend
      <4>6. Apply(sent[s], delta) = picture
        BY <1>0, DeltaReaches
      <4>7. /\ UnderWay(p) = [k \in 1 .. n |-> Replay(view[p], wire[s])[k]]
            /\ UnderWay(p)' = [k \in 1 .. n + 1 |-> Replay(view[p], wire'[s])[k]]
        BY <2>1, <4>1, <4>3 DEF UnderWay
      <4>8. UnderWay(p) \in Seq(Pictures)
        BY <1>0, UnderWayIs
      <4>9. UnderWay(p)' = Append(UnderWay(p), picture)
        <5> DEFINE old == Replay(view[p], wire[s])
                   new == Replay(view[p], wire'[s])
        <5>1. \A k \in 1 .. n : new[k] = old[k]
          BY <4>5
        <5>2. new[n + 1] = picture
          BY <4>5, <4>6
        <5>3. UnderWay(p) = [k \in 1 .. n |-> old[k]] /\ UnderWay(p)' = [k \in 1 .. n + 1 |-> new[k]]
          BY <4>7
        <5>4. n \in Nat
          BY <4>3
        <5> HIDE DEF old, new, n
        <5> QED BY <4>8, <5>1, <5>2, <5>3, <5>4
      <4> QED BY <1>4, <2>1, <3>2, <4>0, <4>1, <4>9
    <3> QED BY <3>3, <3>4
  <2> QED BY <2>2, <2>3
<1>9. ASSUME NEW s \in Streams, End(s)
      PROVE  picture' = picture /\ pending' = pending /\ view' = view
  <2>1. owner[s] \in Pages
    BY <1>9 DEF End, Noticed, Owned, FeedInv
  <2>2. ~Attached(s) /\ picture' = picture /\ view' = view /\ current' = current
    BY <1>9 DEF End, Noticed, page
  <2>3. \A r \in Streams \ {s} : wire'[r] = wire[r]
    BY <1>0, <1>9 DEF End
  <2> QED BY <1>5, <2>1, <2>2, <2>3
<1>95. ASSUME NEW s \in Streams, Abandon(s) \/ InnerFinally(s) \/ OuterFinally(s)
       PROVE  picture' = picture /\ pending' = pending /\ view' = view
  BY <1>95, UnderWayFrame, PendingFrame DEF Abandon, InnerFinally, OuterFinally, page
<1>10. ASSUME NEW p \in Pages, Connect(p)
       PROVE  picture' = picture /\ pending' = pending /\ view' = view
  <2>1. PICK s \in Streams : phase[s] = "none" /\ current' = [current EXCEPT ![p] = s]
    BY <1>10 DEF Connect
  <2>2. current[p] = NONE /\ wire' = wire /\ view' = view /\ picture' = picture
    BY <1>10 DEF Connect
  <2>3. wire[s] = <<>> /\ current'[p] = s
    BY <1>0, <2>1 DEF Linked, Serving
  <2>4. UnderWay(p) = <<>> /\ UnderWay(p)' = <<>>
    BY <2>2, <2>3 DEF UnderWay
  <2>5. \A q \in Pages \ {p} : UnderWay(q)' = UnderWay(q)
    BY <1>0, <2>1, <2>2, UnderWayFrame
  <2> QED BY <2>2, <2>4, <2>5, PendingFrame
<1>11. ASSUME NEW p \in Pages, Reject(p)
       PROVE  picture' = picture /\ pending' = pending /\ view' = view
  BY <1>11, UnderWayFrame, PendingFrame DEF Reject
<1>12. ASSUME NEW p \in Pages, Deliver(p)
       PROVE  Feed!Next
  <2> DEFINE s == current[p]
             events == wire[s]
             n == Len(events) - 1
             old == Replay(view[p], events)
             new == Replay(Apply(view[p], Head(events)), Tail(events))
  <2>1. /\ s # NONE /\ s \in Streams /\ owner[s] = p
        /\ events \in Seq(Event) /\ events # <<>> /\ view[p] \in Pictures
        /\ current' = current /\ picture' = picture
        /\ view' = [view EXCEPT ![p] = Apply(view[p], Head(events))]
        /\ wire' = [wire EXCEPT ![s] = Tail(events)]
    BY <1>0, <1>12 DEF Deliver, Linked
  <2>2. n \in Nat /\ Len(events) = n + 1 /\ Len(Tail(events)) = n /\ Head(events) = events[1]
    BY <2>1
  <2>3. \A k \in 0 .. n : new[k] = old[k + 1]
    <3> HIDE DEF events
    <3> QED BY <2>1, ReplayTail
  <2>4. new[0] = Apply(view[p], Head(events))
    <3>1. Head(events) \in Event /\ Tail(events) \in Seq(Event)
      BY <2>1
    <3>2. Apply(view[p], Head(events)) \in Pictures
      BY <2>1, <3>1, ApplyTyped
    <3> HIDE DEF events
    <3> QED BY <3>1, <3>2, ReplayShows DEF Shows
  <2>5. UnderWay(p) = [k \in 1 .. n + 1 |-> old[k]] /\ UnderWay(p)' = [k \in 1 .. n |-> new[k]]
    <3>1. view'[p] = Apply(view[p], Head(events)) /\ wire'[s] = Tail(events) /\ current'[p] = s
      BY <1>0, <2>1
    <3>2. UnderWay(p) = [k \in 1 .. n + 1 |-> old[k]]
      BY <2>1, <2>2 DEF UnderWay
    <3>3. UnderWay(p)' = [k \in 1 .. Len(wire'[s]) |-> Replay(view'[p], wire'[s])[k]]
      BY <2>1, <3>1 DEF UnderWay
    <3>4. UnderWay(p)' = [k \in 1 .. n |-> new[k]]
      BY <2>2, <3>1, <3>3
    <3> QED BY <3>2, <3>4
  <2>6. UnderWay(p) \in Seq(Pictures)
    BY <1>0, UnderWayIs
  <2>7. /\ UnderWay(p) # <<>>
        /\ Head(UnderWay(p)) = Apply(view[p], Head(events))
        /\ UnderWay(p)' = Tail(UnderWay(p))
    <3>1. old[1] = Apply(view[p], Head(events))
      BY <2>2, <2>3, <2>4
    <3> HIDE DEF s, events, n, old, new
    <3>2. Len(UnderWay(p)) = n + 1 /\ UnderWay(p)[1] = old[1]
      BY <2>2, <2>5, <2>6
    <3>3. UnderWay(p)' = Tail(UnderWay(p))
      <4>1. Tail(UnderWay(p)) = [k \in 1 .. Len(UnderWay(p)) - 1 |-> UnderWay(p)[k + 1]]
        <5>1. UnderWay(p) # <<>>
          BY <2>2, <3>2
        <5> QED BY <2>6, <5>1, TailIs
      <4>2. Tail(UnderWay(p)) = [k \in 1 .. n |-> UnderWay(p)[k + 1]]
        BY <2>2, <3>2, <4>1
      <4>3. \A k \in 1 .. n : UnderWay(p)[k + 1] = new[k]
        BY <2>2, <2>3, <2>5
      <4> QED BY <2>5, <4>2, <4>3
    <3> QED BY <2>2, <2>6, <3>1, <3>2, <3>3
  <2> HIDE DEF events, n, old, new
  <2>8. ASSUME NEW q \in Pages \ {p} PROVE UnderWay(q)' = UnderWay(q)
    <3>1. current[q] # s
      BY <1>0, <2>1 DEF Linked
    <3>2. current[q] # NONE => wire'[current[q]] = wire[current[q]]
      BY <1>0, <2>1, <3>1
    <3>3. view'[q] = view[q]
      BY <1>0, <2>1
    <3> QED BY <2>1, <3>2, <3>3, UnderWayFrame
  <2>9. Feed!Show(p)
    <3>1. pending[p] = UnderWay(p)
      BY DEF pending
    <3>2. pending' = [pending EXCEPT ![p] = Tail(UnderWay(p))]
      BY <2>7, <2>8 DEF pending
    <3> QED BY <2>1, <2>7, <3>1, <3>2 DEF Feed!Show, pending
  <2> QED BY <2>9 DEF Feed!Next
<1>13. ASSUME NEW p \in Pages, Break(p)
       PROVE  Feed!Next
  <2>1. current' = [current EXCEPT ![p] = NONE] /\ wire' = wire /\ view' = view /\ picture' = picture
    BY <1>13 DEF Break
  <2>2. UnderWay(p)' = <<>>
    BY <1>0, <2>1 DEF UnderWay
  <2>3. \A q \in Pages \ {p} : UnderWay(q)' = UnderWay(q)
    BY <1>0, <2>1, UnderWayFrame
  <2>4. pending' = [q \in Pages |-> IF q \in {p} THEN <<>> ELSE pending[q]]
    BY <2>2, <2>3 DEF pending
  <2>5. Feed!Lose
    BY <2>1, <2>4 DEF Feed!Lose, pending
  <2> QED BY <2>5 DEF Feed!Next
<1>14. CASE UNCHANGED feedVars
  BY <1>14, UnderWayFrame, PendingFrame DEF feedVars, page
<1> QED BY <1>1, <1>2, <1>3, <1>6, <1>7, <1>8, <1>9, <1>95, <1>10, <1>11, <1>12, <1>13, <1>14
        DEF FeedNext, Serve, Browse

\* A page shows pictures the server had, whole and in the order in which it
\* had them, for any number of pages and streams: no combination of snapshots,
\* deltas, wake-ups, broken connections and restarts makes it show a mixture
\* (_event_source and useLiveFeed.ts together).
THEOREM LiveFeedImplements == FeedSpec => StreamOfPictures
<1>1. FeedInit => Feed!Init
  BY FeedRefinesInit
<1>2. FeedInv /\ FeedInv' /\ [FeedNext]_feedVars => [Feed!Next]_<<picture, pending, view>>
  BY FeedRefinesStep
<1>3. FeedInv /\ FeedInv' /\ [FeedNext]_feedVars
        => [Feed!Next]_<<picture, [p \in Pages |-> UnderWay(p)], view>>
  BY <1>2 DEF pending
<1> QED BY <1>1, <1>3, FeedInductive, PTL DEF FeedSpec, StreamOfPictures, Feed!Spec

=============================================================================
