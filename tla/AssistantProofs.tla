-------------------------- MODULE AssistantProofs --------------------------
(***************************************************************************)
(* The monthly budget, for any cap, any dearest call and any number of     *)
(* callers.  The bound is not inductive: a call begun under the cap is     *)
(* billed when it ends, so the argument counts, with what a month has      *)
(* cost, the most that the calls under way may still add to it.  And the   *)
(* rate limiter, for any clients, caps and window: of the requests served  *)
(* within a window's length, each is the n-th of the window a counter is   *)
(* in or of the one before.                                                *)
(***************************************************************************)
EXTENDS Assistant, FiniteSetTheorems, TLAPS

Bound == Cap - 1 + MaxCost * Cardinality(Callers)

Phases == {"idle", "model", "slack"}

BudgetInv ==
  /\ now \in Nat /\ now >= Window /\ now <= Window + LastTime
  /\ spent \in [Months -> Nat]
  /\ phase \in [Callers -> Phases]
  /\ spent[Month(now)] + MaxCost * Cardinality(Awaiting) <= Bound
  /\ \A m \in Months : spent[m] <= Bound
  /\ \A m \in Months : m > Month(now) => spent[m] = 0

\* The months go by with the clock, and the clock never leaves them.
LEMMA MonthsPass ==
  ASSUME NEW n \in Nat, n <= Window + LastTime
  PROVE  Month(n) \in Months /\ Month(n) \in Nat /\ (n > 0 => Month(n - 1) <= Month(n))
<1>1. /\ MonthLength \in Nat \ {0} /\ LastTime \in Nat /\ Window \in Nat
  BY BudgetAssumption, LimitsAssumption
<1>2. \A a, b \in Nat, l \in Nat \ {0} : a <= b => (a \div l) <= (b \div l) /\ (a \div l) \in Nat
  OBVIOUS
<1>3. Month(n) \in Nat /\ Month(Window + LastTime) \in Nat /\ Month(n) <= Month(Window + LastTime)
  BY <1>1, <1>2 DEF Month
<1>4. n > 0 => Month(n - 1) <= Month(n)
  BY <1>1, <1>2 DEF Month
<1> QED BY <1>3, <1>4 DEF Months

\* The constants of the bound are numbers.
LEMMA Amounts ==
  /\ Cap \in Nat \ {0} /\ MaxCost \in Nat /\ Cardinality(Callers) \in Nat
  /\ Bound \in Int /\ Bound >= 0
<1>1. Cap \in Nat \ {0} /\ MaxCost \in Nat /\ Cardinality(Callers) \in Nat
  BY BudgetAssumption, FS_CardinalityType
<1>2. MaxCost * Cardinality(Callers) \in Nat
  BY <1>1
<1> QED BY <1>1, <1>2 DEF Bound

\* What a set of calls may cost grows with the set, and all calls of a set under
\* the cap fit in the bound.
LEMMA CallsCost ==
  ASSUME NEW S \in SUBSET Callers, NEW T \in SUBSET S
  PROVE  /\ MaxCost * Cardinality(S) \in Nat /\ MaxCost * Cardinality(T) \in Nat
         /\ MaxCost * Cardinality(T) <= MaxCost * Cardinality(S)
         /\ Cap - 1 + MaxCost * Cardinality(S) <= Bound
<1>1. IsFiniteSet(Callers) /\ IsFiniteSet(S) /\ IsFiniteSet(T)
  BY BudgetAssumption, FS_Subset
<1>2. /\ Cardinality(S) \in Nat /\ Cardinality(T) \in Nat
      /\ Cardinality(T) <= Cardinality(S) /\ Cardinality(S) <= Cardinality(Callers)
  BY <1>1, FS_Subset, FS_CardinalityType
<1>3. \A a, b, k \in Nat : a <= b => k * a <= k * b /\ k * a \in Nat /\ k * b \in Nat
  OBVIOUS
<1>4. /\ MaxCost * Cardinality(T) <= MaxCost * Cardinality(S)
      /\ MaxCost * Cardinality(S) <= MaxCost * Cardinality(Callers)
      /\ MaxCost * Cardinality(S) \in Nat /\ MaxCost * Cardinality(T) \in Nat
      /\ MaxCost * Cardinality(Callers) \in Nat
  BY <1>2, <1>3, Amounts
<1> QED BY <1>4, Amounts DEF Bound

\* A call that ends makes room for its cost.
LEMMA CallEnds ==
  ASSUME NEW S \in SUBSET Callers, NEW c \in S
  PROVE  MaxCost * Cardinality(S \ {c}) + MaxCost = MaxCost * Cardinality(S)
<1>1. IsFiniteSet(S)
  BY BudgetAssumption, FS_Subset
<1>2. Cardinality(S \ {c}) \in Nat /\ Cardinality(S) = Cardinality(S \ {c}) + 1
  BY <1>1, FS_RemoveElement, FS_CardinalityType, FS_Subset
<1>3. \A k, n \in Nat : k * n + k = k * (n + 1)
  OBVIOUS
<1> QED BY <1>2, <1>3, Amounts

\* A caller that goes to the model, or comes back from it.
LEMMA AwaitingMoves ==
  ASSUME BudgetInv, NEW c \in Callers, NEW p \in Phases,
         phase' = [phase EXCEPT ![c] = p]
  PROVE  /\ phase' \in [Callers -> Phases]
         /\ Awaiting' = IF p = "model" THEN Awaiting \cup {c} ELSE Awaiting \ {c}
  BY DEF BudgetInv, Awaiting

LEMMA NothingBilled ==
  ASSUME BudgetInv, UNCHANGED <<now, spent>>, NEW c \in Callers, NEW p \in Phases,
         phase' = [phase EXCEPT ![c] = p],
         p = "model" => UnderBudget
  PROVE  BudgetInv'
<1>1. phase' \in [Callers -> Phases] /\ Awaiting' \in SUBSET Callers /\ Awaiting \in SUBSET Callers
  BY AwaitingMoves DEF Awaiting
<1>2. Month(now) \in Months /\ Month(now') = Month(now)
  BY MonthsPass DEF BudgetInv, Month
<1>3. spent[Month(now)] \in Nat
  BY <1>2 DEF BudgetInv
<1>4. spent[Month(now)] + MaxCost * Cardinality(Awaiting') <= Bound
  <2>1. CASE p = "model"
    <3>1. spent[Month(now)] <= Cap - 1
      BY <1>3, <2>1, Amounts DEF UnderBudget
    <3>2. /\ MaxCost * Cardinality(Awaiting') \in Nat
          /\ Cap - 1 + MaxCost * Cardinality(Awaiting') <= Bound
      BY <1>1, CallsCost
    <3> QED BY <3>1, <3>2, <1>3, Amounts
  <2>2. CASE p # "model"
    <3>1. Awaiting' \in SUBSET Awaiting
      BY <2>2, AwaitingMoves
    <3>2. /\ MaxCost * Cardinality(Awaiting') \in Nat /\ MaxCost * Cardinality(Awaiting) \in Nat
          /\ MaxCost * Cardinality(Awaiting') <= MaxCost * Cardinality(Awaiting)
      BY <1>1, <3>1, CallsCost
    <3> QED BY <3>2, <1>3, Amounts DEF BudgetInv
  <2> QED BY <2>1, <2>2
<1> QED BY <1>1, <1>2, <1>4 DEF BudgetInv, Bound

\* The answer of a call: billed, then the caller asks again under the cap or
\* is done with the model.
LEMMA AnswerBilled ==
  ASSUME BudgetInv, NEW c \in Callers, NEW cost \in 0 .. MaxCost, Bill(c, cost),
         NEW p \in Phases, phase' = [phase EXCEPT ![c] = p],
         p = "model" => spent'[Month(now)] < Cap
  PROVE  BudgetInv'
<1>1. phase' \in [Callers -> Phases] /\ Awaiting' \in SUBSET Callers /\ Awaiting \in SUBSET Callers
  BY AwaitingMoves DEF Awaiting
<1>2. Month(now) \in Months /\ now' = now /\ Month(now') = Month(now)
  BY MonthsPass DEF BudgetInv, Month, Bill
<1>3. spent[Month(now)] \in Nat /\ cost \in Nat /\ cost <= MaxCost
  BY <1>2, Amounts DEF BudgetInv
<1>4. /\ spent' \in [Months -> Nat]
      /\ spent'[Month(now)] = spent[Month(now)] + cost
      /\ \A m \in Months : m # Month(now) => spent'[m] = spent[m]
  BY <1>2, <1>3 DEF BudgetInv, Bill
<1>5. c \in Awaiting
  BY DEF Bill, Awaiting
<1>6. spent'[Month(now)] + MaxCost * Cardinality(Awaiting') <= Bound
  <2>1. CASE p = "model"
    <3>1. spent'[Month(now)] <= Cap - 1
      BY <1>3, <1>4, <2>1, Amounts
    <3>2. /\ MaxCost * Cardinality(Awaiting') \in Nat
          /\ Cap - 1 + MaxCost * Cardinality(Awaiting') <= Bound
      BY <1>1, CallsCost
    <3> QED BY <3>1, <3>2, <1>3, <1>4, Amounts
  <2>2. CASE p # "model"
    <3>1. Awaiting' = Awaiting \ {c}
      BY <2>2, AwaitingMoves
    <3>2. MaxCost * Cardinality(Awaiting') + MaxCost = MaxCost * Cardinality(Awaiting)
      BY <1>1, <1>5, <3>1, CallEnds
    <3>3. MaxCost * Cardinality(Awaiting') \in Nat /\ MaxCost * Cardinality(Awaiting) \in Nat
      BY <1>1, CallsCost
    <3> QED BY <3>2, <3>3, <1>3, <1>4, Amounts DEF BudgetInv
  <2> QED BY <2>1, <2>2
<1>7. spent'[Month(now)] <= Bound
  <2>1. MaxCost * Cardinality(Awaiting') \in Nat
    BY <1>1, CallsCost
  <2> QED BY <1>3, <1>4, <1>6, <2>1, Amounts
<1>8. now' \in Nat /\ now' >= Window /\ now' <= Window + LastTime
  BY <1>2 DEF BudgetInv
<1>9. \A m \in Months : spent'[m] <= Bound
  BY <1>4, <1>7 DEF BudgetInv
<1>10. \A m \in Months : m > Month(now) => spent'[m] = 0
  BY <1>2, <1>4, MonthsPass DEF BudgetInv, Months
<1> QED BY <1>1, <1>2, <1>4, <1>6, <1>8, <1>9, <1>10 DEF BudgetInv, Bound

LEMMA BudgetInit == Init => BudgetInv
<1> SUFFICES ASSUME Init PROVE BudgetInv
  OBVIOUS
<1>1. Window \in Nat /\ LastTime \in Nat
  BY BudgetAssumption, LimitsAssumption
<1>2. Month(now) \in Months
  BY <1>1, MonthsPass DEF Init
<1>3. Awaiting = {}
  BY DEF Init, Awaiting
<1>4. MaxCost * Cardinality(Awaiting) = 0
  BY <1>3, FS_EmptySet, Amounts
<1> QED BY <1>1, <1>2, <1>4, Amounts DEF Init, BudgetInv, Phases

LEMMA BudgetStep == BudgetInv /\ [Next]_vars => BudgetInv'
<1> SUFFICES ASSUME BudgetInv, [Next]_vars PROVE BudgetInv'
  OBVIOUS
<1>1. CASE Tick
  <2>1. /\ now' = now + 1 /\ now' \in Nat /\ now' >= Window /\ now' <= Window + LastTime
        /\ spent' = spent /\ phase' = phase /\ Awaiting' = Awaiting
    BY <1>1, BudgetAssumption, LimitsAssumption DEF Tick, BudgetInv, Awaiting
  <2>2. /\ Month(now') \in Months /\ Month(now') \in Nat /\ Month(now) \in Nat
        /\ Month(now) <= Month(now')
    BY <2>1, MonthsPass DEF BudgetInv
  <2>3. MaxCost * Cardinality(Awaiting) \in Nat /\ Cap - 1 + MaxCost * Cardinality(Awaiting) <= Bound
    BY CallsCost DEF Awaiting
  <2>4. Month(now)' = Month(now')
    BY DEF Month
  <2>5. spent'[Month(now')] + MaxCost * Cardinality(Awaiting') <= Bound
    <3>1. CASE Month(now') = Month(now)
      BY <2>1, <3>1 DEF BudgetInv
    <3>2. CASE Month(now') > Month(now)
      <4>1. spent'[Month(now')] = 0
        BY <2>1, <2>2, <3>2 DEF BudgetInv
      <4> QED BY <2>1, <2>3, <4>1, Amounts
    <3> QED BY <2>2, <3>1, <3>2
  <2>6. \A m \in Months : m > Month(now') => spent'[m] = 0
    BY <2>1, <2>2 DEF BudgetInv, Months
  <2> QED BY <2>1, <2>4, <2>5, <2>6 DEF BudgetInv, Bound
<1>2. ASSUME NEW client \in Clients, OtherRequest(client) PROVE BudgetInv'
  BY <1>2 DEF OtherRequest, BudgetInv, Awaiting, Bound, Month
<1>3. ASSUME NEW caller \in Requests, NEW client \in Clients, NEW token \in Tokens,
             NEW alerts \in Feeds, Trigger(caller, client, token, alerts)
      PROVE BudgetInv'
  <2>1. UNCHANGED <<now, spent>> /\ phase' = [phase EXCEPT ![caller] = IF UnderBudget THEN "model" ELSE "idle"]
    BY <1>3 DEF Trigger, StartCall
  <2> QED BY <2>1, NothingBilled DEF Callers, Phases
<1>4. CASE Compose
  <2>1. UNCHANGED <<now, spent>> /\ phase' = [phase EXCEPT ![Digest] = IF UnderBudget THEN "model" ELSE "idle"]
    BY <1>4 DEF Compose, StartCall
  <2> QED BY <2>1, NothingBilled DEF Callers, Phases
<1>5. ASSUME NEW caller \in Callers, Answered(caller) PROVE BudgetInv'
  <2>1. ASSUME NEW cost \in 0 .. MaxCost, AnswerText(caller, cost) PROVE BudgetInv'
    BY <2>1, AnswerBilled DEF AnswerText, Phases
  <2>2. ASSUME NEW cost \in 0 .. MaxCost, AnswerTools(caller, cost) PROVE BudgetInv'
    <3> DEFINE again == round[caller] < MaxIterations /\ spent'[Month(now)] < Cap
    <3>1. Bill(caller, cost) /\ phase' = [phase EXCEPT ![caller] = IF again THEN "model" ELSE "idle"]
      BY <2>2 DEF AnswerTools
    <3> QED BY <3>1, AnswerBilled DEF Phases
  <2>25. ASSUME NEW cost \in 0 .. MaxCost, ToolRaises(caller, cost) PROVE BudgetInv'
    BY <2>25, AnswerBilled DEF ToolRaises, Finish, Phases
  <2>3. CASE CallFails(caller) \/ Posted(caller)
    <3>1. UNCHANGED <<now, spent>> /\ phase' = [phase EXCEPT ![caller] = "idle"]
      BY <2>3 DEF CallFails, Posted, Finish
    <3> QED BY <3>1, NothingBilled DEF Phases
  <2> QED BY <1>5, <2>1, <2>2, <2>25, <2>3 DEF Answered
<1>6. CASE Restart
  <2>1. now' = now /\ spent' = spent /\ phase' = [c \in Callers |-> "idle"] /\ Awaiting' = {}
    BY <1>6 DEF Restart, Awaiting
  <2>2. MaxCost * Cardinality(Awaiting') = 0
    BY <2>1, FS_EmptySet, Amounts
  <2>3. Month(now) \in Months /\ Month(now)' = Month(now)
    BY <2>1, MonthsPass DEF BudgetInv, Month
  <2>4. spent'[Month(now)'] + MaxCost * Cardinality(Awaiting') <= Bound
    BY <2>1, <2>2, <2>3, Amounts DEF BudgetInv
  <2> QED BY <2>1, <2>3, <2>4 DEF BudgetInv, Phases, Bound
<1>7. CASE UNCHANGED vars
  BY <1>7 DEF vars, BudgetInv, Awaiting, Bound, Month
<1> QED BY <1>1, <1>2, <1>3, <1>4, <1>5, <1>6, <1>7 DEF Next

\* A month never costs more than one call of every caller above the cap
\* (ai/budget.py, the check before each call).
THEOREM BudgetBounded == Spec => []BudgetIsBounded
<1>1. BudgetInv => BudgetIsBounded
  BY DEF BudgetInv, BudgetIsBounded, Bound
<1>2. Spec => []BudgetInv
  BY BudgetInit, BudgetStep, PTL DEF Spec
<1> QED BY <1>1, <1>2, PTL

-----------------------------------------------------------------------------
(* The rate limiter.                                                       *)

\* What one counter says of the requests served within a window's length.
Paced(S, scope, counter, max, time) ==
  /\ counter \in Counter
  /\ counter.start <= time
  /\ \A r \in S :
       /\ r.nth[scope] \in 1 .. max
       /\ r.at < counter.start + Window
       /\ r.at >= counter.start => r.nth[scope] <= counter.count
  /\ \A q, r \in S :
       q # r /\ q.nth[scope] = r.nth[scope]
         => ~(q.at >= counter.start <=> r.at >= counter.start)

Accepted == [client : Clients, at : Nat, nth : [Scopes -> Nat]]

LimitInv ==
  /\ now \in Nat /\ now >= Window
  /\ limiter \in Limiter
  /\ recent \subseteq Accepted
  /\ \A r \in recent : r.at <= now /\ now - r.at < Window /\ r.at <= limiter.lastSeen[r.client]
  /\ Paced(recent, "global", limiter.all, MaxGlobal, now)
  /\ \A c \in Clients : Paced(Served(c), "per_ip", limiter.perIp[c], MaxPerIp, now)

\* Two windows' worth, at most, within a window's length.
LEMMA AtMostTwice ==
  ASSUME NEW S, NEW scope, NEW counter, NEW max \in Nat, NEW time,
         Paced(S, scope, counter, max, time)
  PROVE  IsFiniteSet(S) /\ Cardinality(S) <= 2 * max
<1> DEFINE which(r) == IF r.at >= counter.start THEN 1 ELSE 0
           f == [r \in S |-> <<which(r), r.nth[scope]>>]
<1>1. f \in [S -> (0 .. 1) \X (1 .. max)]
  BY DEF Paced
<1>2. ASSUME NEW q \in S, NEW r \in S, f[q] = f[r] PROVE q = r
  <2>1. which(q) = which(r) /\ q.nth[scope] = r.nth[scope]
    BY <1>2
  <2>2. q.at >= counter.start <=> r.at >= counter.start
    BY <2>1
  <2> QED BY <2>1, <2>2 DEF Paced
<1> HIDE DEF f
<1>3. f \in Injection(S, (0 .. 1) \X (1 .. max))
  BY <1>1, <1>2 DEF Injection, IsInjective
<1>4. IsFiniteSet(0 .. 1) /\ Cardinality(0 .. 1) = 2 /\ IsFiniteSet(1 .. max) /\ Cardinality(1 .. max) = max
  <2>1. ASSUME NEW m \in Int, NEW n \in Int
        PROVE  IsFiniteSet(m .. n) /\ Cardinality(m .. n) = IF m > n THEN 0 ELSE n - m + 1
    BY FS_Interval
  <2>2. IsFiniteSet(0 .. 1) /\ Cardinality(0 .. 1) = IF 0 > 1 THEN 0 ELSE 1 - 0 + 1
    <3>1. 0 \in Int /\ 1 \in Int
      OBVIOUS
    <3> QED BY <2>1, <3>1, Zenon
  <2>3. IsFiniteSet(1 .. max) /\ Cardinality(1 .. max) = IF 1 > max THEN 0 ELSE max - 1 + 1
    BY <2>1
  <2> QED BY <2>2, <2>3
<1>5. IsFiniteSet((0 .. 1) \X (1 .. max)) /\ Cardinality((0 .. 1) \X (1 .. max)) = 2 * max
  <2>1. IsFiniteSet((0 .. 1) \X (1 .. max))
        /\ Cardinality((0 .. 1) \X (1 .. max)) = Cardinality(0 .. 1) * Cardinality(1 .. max)
    BY <1>4, FS_Product, Zenon
  <2> QED BY <1>4, <2>1
<1>6. IsFiniteSet(S) /\ Cardinality(S) <= Cardinality((0 .. 1) \X (1 .. max))
  BY <1>3, <1>5, FS_Injection
<1> QED BY <1>5, <1>6

\* A hit that opens a window finds every request of a window's length in the
\* window it ends; one that does not is the next of its window.
LEMMA HitPaced ==
  ASSUME NEW S, NEW scope, NEW counter, NEW max \in Nat, now \in Nat,
         Paced(S, scope, counter, max, now),
         \A r \in S : r.at \in Nat /\ r.at <= now /\ now - r.at < Window
  PROVE  /\ Paced(S, scope, Hit(counter, now), max, now)
         /\ \A r : r.at = now /\ r.nth[scope] = Hit(counter, now).count /\ r.nth[scope] <= max
              => Paced(S \cup {r}, scope, Hit(counter, now), max, now)
<1>0. /\ Window \in Nat \ {0} /\ counter.start \in Nat /\ counter.count \in Nat
      /\ counter = [start |-> counter.start, count |-> counter.count]
      /\ counter.start <= now
      /\ \A r \in S : r.nth[scope] \in Nat
  BY LimitsAssumption DEF Paced, Counter
<1> DEFINE hit == Hit(counter, now)
<1>1. CASE now - counter.start >= Window
  <2>1. hit = [start |-> now, count |-> 1]
    BY <1>1 DEF Hit
  <2>2. hit \in Counter /\ hit.start = now /\ hit.count = 1
    BY <2>1 DEF Counter
  <2>3. \A r \in S : r.at >= counter.start /\ r.at < now
    BY <1>0, <1>1 DEF Paced
  <2> HIDE DEF hit
  <2>4. Paced(S, scope, hit, max, now)
    BY <1>0, <2>2, <2>3 DEF Paced
  <2>5. ASSUME NEW r, r.at = now, r.nth[scope] = hit.count, r.nth[scope] <= max
        PROVE  Paced(S \cup {r}, scope, hit, max, now)
    BY <1>0, <2>2, <2>3, <2>4, <2>5 DEF Paced
  <2> QED BY <2>4, <2>5 DEF hit
<1>2. CASE ~(now - counter.start >= Window)
  <2>1. hit = [start |-> counter.start, count |-> counter.count + 1]
    BY <1>0, <1>2 DEF Hit
  <2>2. hit \in Counter /\ hit.start = counter.start /\ hit.count = counter.count + 1
    BY <1>0, <2>1 DEF Counter
  <2> HIDE DEF hit
  <2>3. Paced(S, scope, hit, max, now)
    BY <1>0, <2>2 DEF Paced
  <2>4. ASSUME NEW r, r.at = now, r.nth[scope] = hit.count, r.nth[scope] <= max
        PROVE  Paced(S \cup {r}, scope, hit, max, now)
    <3>1. \A q \in S : q.at >= counter.start => q.nth[scope] < r.nth[scope]
      BY <1>0, <2>2, <2>4 DEF Paced
    <3>2. r.nth[scope] \in 1 .. max /\ r.at < hit.start + Window /\ r.at >= hit.start
      BY <1>0, <1>2, <2>2, <2>4
    <3>3. \A q \in S \cup {r} :
            /\ q.nth[scope] \in 1 .. max
            /\ q.at < hit.start + Window
            /\ q.at >= hit.start => q.nth[scope] <= hit.count
      BY <2>3, <2>4, <3>2 DEF Paced
    <3>4. ASSUME NEW q \in S, q.nth[scope] = r.nth[scope]
          PROVE  ~(q.at >= hit.start)
      BY <1>0, <2>2, <3>1, <3>2, <3>4
    <3>5. \A p, q \in S \cup {r} :
            p # q /\ p.nth[scope] = q.nth[scope] => ~(p.at >= hit.start <=> q.at >= hit.start)
      BY <2>3, <3>2, <3>4 DEF Paced
    <3> QED BY <1>0, <2>2, <3>3, <3>5 DEF Paced
  <2> QED BY <2>3, <2>4 DEF hit
<1> QED BY <1>1, <1>2

\* The sweep forgets only clients with no request within a window's length.
LEMMA SweepPaced ==
  ASSUME LimitInv, NEW swept, swept = SweepStale(limiter, now)
  PROVE  /\ swept \in Limiter
         /\ swept.all = limiter.all
         /\ \A r \in recent : r.at <= swept.lastSeen[r.client]
         /\ \A c \in Clients : Paced(Served(c), "per_ip", swept.perIp[c], MaxPerIp, now)
<1> DEFINE idle == {c \in Clients : limiter.lastSeen[c] # NeverSeen /\ now - limiter.lastSeen[c] >= 2 * Window}
<1>0. /\ limiter.all \in Counter /\ limiter.perIp \in [Clients -> Counter]
      /\ limiter.lastSeen \in [Clients -> Nat \cup {NeverSeen}] /\ limiter.lastSweep \in Nat
      /\ limiter = [all |-> limiter.all, perIp |-> limiter.perIp,
                    lastSeen |-> limiter.lastSeen, lastSweep |-> limiter.lastSweep]
      /\ now \in Nat /\ Window \in Nat \ {0}
  BY LimitsAssumption DEF LimitInv, Limiter
<1>1. CASE now - limiter.lastSweep < Window
  <2>1. swept = limiter
    BY <1>1 DEF SweepStale
  <2> QED BY <2>1 DEF LimitInv
<1>2. CASE ~(now - limiter.lastSweep < Window)
  <2>1. swept = [limiter EXCEPT !.lastSweep = now,
                   !.perIp = [c \in Clients |-> IF c \in idle THEN Fresh ELSE limiter.perIp[c]],
                   !.lastSeen = [c \in Clients |-> IF c \in idle THEN NeverSeen ELSE limiter.lastSeen[c]]]
    BY <1>2 DEF SweepStale
  <2>2. /\ swept.all = limiter.all
        /\ swept.perIp = [c \in Clients |-> IF c \in idle THEN Fresh ELSE limiter.perIp[c]]
        /\ swept.lastSeen = [c \in Clients |-> IF c \in idle THEN NeverSeen ELSE limiter.lastSeen[c]]
        /\ swept.lastSweep = now
        /\ swept = [all |-> swept.all, perIp |-> swept.perIp,
                    lastSeen |-> swept.lastSeen, lastSweep |-> swept.lastSweep]
    <3> HIDE DEF idle
    <3> QED BY <1>0, <2>1
  <2>3. Fresh \in Counter
    BY DEF Fresh, Counter
  <2>4. swept \in Limiter
    <3> HIDE DEF idle
    <3> QED BY <1>0, <2>2, <2>3 DEF Limiter
  <2>5. \A c \in idle : Served(c) = {}
    <3> SUFFICES ASSUME NEW r \in recent, r.client \in idle PROVE FALSE
      BY DEF Served
    <3>1. r.at \in Nat /\ r.client \in Clients /\ now - r.at < Window /\ r.at <= limiter.lastSeen[r.client]
      BY DEF LimitInv, Accepted
    <3>2. limiter.lastSeen[r.client] \in Nat /\ now - limiter.lastSeen[r.client] >= 2 * Window
      BY <1>0, <3>1
    <3> QED BY <1>0, <3>1, <3>2
  <2>6. \A r \in recent : r.client \notin idle /\ r.client \in Clients
    BY <2>5 DEF Served, LimitInv, Accepted
  <2>7. ASSUME NEW c \in Clients PROVE Paced(Served(c), "per_ip", swept.perIp[c], MaxPerIp, now)
    <3>1. CASE c \in idle
      <4>1. swept.perIp[c] = Fresh /\ Served(c) = {}
        BY <2>2, <2>5, <3>1
      <4>2. Fresh.start = 0
        BY DEF Fresh
      <4> QED BY <1>0, <2>3, <4>1, <4>2 DEF Paced
    <3>2. CASE c \notin idle
      BY <2>2, <3>2 DEF LimitInv
    <3> QED BY <3>1, <3>2
  <2>8. \A r \in recent : r.at <= swept.lastSeen[r.client]
    BY <2>2, <2>6 DEF LimitInv
  <2> QED BY <2>2, <2>4, <2>7, <2>8
<1> QED BY <1>1, <1>2

LEMMA CountPaced ==
  ASSUME LimitInv, NEW client \in Clients, Count(client), now' = now
  PROVE  LimitInv'
<1> DEFINE swept == SweepStale(limiter, now)
           taken == Request(limiter', client)
<1>0. /\ swept \in Limiter /\ swept.all = limiter.all
      /\ \A r \in recent : r.at <= swept.lastSeen[r.client]
      /\ \A c \in Clients : Paced(Served(c), "per_ip", swept.perIp[c], MaxPerIp, now)
  BY SweepPaced
<1>1. /\ now \in Nat /\ now >= Window /\ MaxPerIp \in Nat /\ MaxGlobal \in Nat
      /\ \A r \in recent : r.at \in Nat /\ r.at <= now /\ now - r.at < Window /\ r.client \in Clients
  BY LimitsAssumption DEF LimitInv, Accepted
<1>2. limiter' = [swept EXCEPT !.lastSeen[client] = now, !.all = Hit(swept.all, now),
                               !.perIp[client] = Hit(swept.perIp[client], now)]
  BY DEF Count, Counted
<1>3. /\ recent' = IF Accepts(limiter, client, now) THEN recent \cup {taken} ELSE recent
      /\ Accepts(limiter, client, now)
           <=> limiter'.all.count <= MaxGlobal /\ limiter'.perIp[client].count <= MaxPerIp
  BY DEF Count, Accepts
<1> HIDE DEF swept
<1>4. /\ limiter'.all = Hit(swept.all, now)
      /\ limiter'.perIp = [swept.perIp EXCEPT ![client] = Hit(swept.perIp[client], now)]
      /\ limiter'.lastSeen = [swept.lastSeen EXCEPT ![client] = now]
      /\ limiter'.lastSweep = swept.lastSweep
      /\ limiter' = [all |-> limiter'.all, perIp |-> limiter'.perIp,
                     lastSeen |-> limiter'.lastSeen, lastSweep |-> limiter'.lastSweep]
  BY <1>0, <1>2 DEF Limiter
<1>5. /\ swept.perIp \in [Clients -> Counter] /\ swept.lastSweep \in Nat
      /\ swept.lastSeen \in [Clients -> Nat \cup {NeverSeen}]
  BY <1>0 DEF Limiter
<1>6. /\ Paced(recent, "global", limiter'.all, MaxGlobal, now)
      /\ \A r : r.at = now /\ r.nth["global"] = limiter'.all.count /\ r.nth["global"] <= MaxGlobal
           => Paced(recent \cup {r}, "global", limiter'.all, MaxGlobal, now)
  <2>1. Paced(recent, "global", swept.all, MaxGlobal, now)
    BY <1>0 DEF LimitInv
  <2> QED BY <1>1, <1>4, <2>1, HitPaced
<1>7. /\ Paced(Served(client), "per_ip", limiter'.perIp[client], MaxPerIp, now)
      /\ \A r : r.at = now /\ r.nth["per_ip"] = limiter'.perIp[client].count /\ r.nth["per_ip"] <= MaxPerIp
           => Paced(Served(client) \cup {r}, "per_ip", limiter'.perIp[client], MaxPerIp, now)
  <2>1. limiter'.perIp[client] = Hit(swept.perIp[client], now)
    BY <1>4, <1>5
  <2>2. \A r \in Served(client) : r.at \in Nat /\ r.at <= now /\ now - r.at < Window
    BY <1>1 DEF Served
  <2> QED BY <1>0, <1>1, <2>1, <2>2, HitPaced
<1>8. \A c \in Clients \ {client} : limiter'.perIp[c] = swept.perIp[c]
  BY <1>4, <1>5
<1>9. limiter' \in Limiter
  <2>1. limiter'.all \in Counter /\ limiter'.perIp[client] \in Counter
    BY <1>6, <1>7 DEF Paced
  <2>2. limiter'.perIp \in [Clients -> Counter]
    BY <1>4, <1>5, <2>1
  <2>3. limiter'.lastSeen \in [Clients -> Nat \cup {NeverSeen}]
    BY <1>1, <1>4, <1>5
  <2> QED BY <1>4, <1>5, <2>1, <2>2, <2>3 DEF Limiter
<1>10. \A r \in recent : r.at <= limiter'.lastSeen[r.client]
  BY <1>0, <1>1, <1>4, <1>5
<1>11. CASE ~Accepts(limiter, client, now)
  <2>1. recent' = recent /\ \A c : Served(c)' = Served(c)
    BY <1>3, <1>11 DEF Served
  <2>2. \A c \in Clients : Paced(Served(c), "per_ip", limiter'.perIp[c], MaxPerIp, now)
    BY <1>0, <1>7, <1>8
  <2> QED BY <1>1, <1>6, <1>9, <1>10, <2>1, <2>2 DEF LimitInv, Paced
<1>12. CASE Accepts(limiter, client, now)
  <2>1. recent' = recent \cup {taken} /\ limiter'.all.count <= MaxGlobal /\ limiter'.perIp[client].count <= MaxPerIp
    BY <1>3, <1>12
  <2>2. /\ taken.client = client /\ taken.at = now
        /\ taken.nth = [scope \in Scopes |-> IF scope = "global" THEN limiter'.all.count
                                                              ELSE limiter'.perIp[client].count]
        /\ taken = [client |-> taken.client, at |-> taken.at, nth |-> taken.nth]
    BY DEF Request
  <2>3. taken.nth["global"] = limiter'.all.count /\ taken.nth["per_ip"] = limiter'.perIp[client].count
    BY <2>2 DEF Scopes
  <2>4. limiter'.all.count \in Nat /\ limiter'.perIp[client].count \in Nat
    BY <1>6, <1>7 DEF Paced, Counter
  <2>5. taken \in Accepted
    <3>1. taken.nth \in [Scopes -> Nat]
      BY <2>2, <2>4
    <3> HIDE DEF taken
    <3> QED BY <1>1, <2>2, <3>1 DEF Accepted
  <2> HIDE DEF taken
  <2>6. Paced(recent', "global", limiter'.all, MaxGlobal, now)
    BY <1>6, <2>1, <2>2, <2>3
  <2>7. Served(client)' = Served(client) \cup {taken} /\ \A c \in Clients \ {client} : Served(c)' = Served(c)
    BY <2>1, <2>2 DEF Served
  <2>8. \A c \in Clients : Paced(Served(c)', "per_ip", limiter'.perIp[c], MaxPerIp, now)
    BY <1>0, <1>7, <1>8, <2>1, <2>2, <2>3, <2>7
  <2>9. \A r \in recent' : r.at <= now /\ now - r.at < Window /\ r.at <= limiter'.lastSeen[r.client]
    <3>1. limiter'.lastSeen[client] = now
      BY <1>4, <1>5
    <3>2. now <= now /\ now - now < Window
      BY <1>1, LimitsAssumption
    <3> QED BY <1>1, <1>10, <2>1, <2>2, <3>1, <3>2
  <2>10. recent' \subseteq Accepted
    BY <2>1, <2>5 DEF LimitInv
  <2> QED BY <1>1, <1>9, <2>6, <2>8, <2>9, <2>10 DEF LimitInv, Paced
<1> QED BY <1>11, <1>12

LEMMA LimitInit == Init => LimitInv
<1> SUFFICES ASSUME Init PROVE LimitInv
  OBVIOUS
<1>1. Fresh \in Counter /\ Fresh.start = 0 /\ NewLimiter \in Limiter
  BY DEF Fresh, Counter, NewLimiter, Limiter
<1>2. limiter.all = Fresh /\ \A c \in Clients : limiter.perIp[c] = Fresh /\ Served(c) = {}
  BY DEF Init, NewLimiter, Served
<1> QED BY <1>1, <1>2, LimitsAssumption DEF Init, LimitInv, Paced

LEMMA LimitStep == LimitInv /\ [Next]_vars => LimitInv'
<1> SUFFICES ASSUME LimitInv, [Next]_vars PROVE LimitInv'
  OBVIOUS
<1>1. CASE Tick
  <2>1. /\ now \in Nat /\ now' = now + 1 /\ limiter' = limiter
        /\ recent' = {r \in recent : now' - r.at < Window}
    BY <1>1 DEF Tick, LimitInv
  <2>2. recent' \subseteq recent /\ \A c : Served(c)' \subseteq Served(c)
    BY <2>1 DEF Served
  <2>3. \A r \in recent' : r.at \in Nat /\ r.at <= now' /\ now' - r.at < Window
    BY <2>1, <2>2 DEF LimitInv, Accepted
  <2>4. ASSUME NEW S, NEW T \in SUBSET S, NEW scope, NEW counter, NEW max,
               Paced(S, scope, counter, max, now)
        PROVE  Paced(T, scope, counter, max, now')
    <3>1. counter.start <= now'
      BY <2>1, <2>4 DEF Paced, Counter
    <3> QED BY <2>4, <3>1 DEF Paced
  <2>5. Paced(recent', "global", limiter.all, MaxGlobal, now')
    BY <2>2, <2>4 DEF LimitInv
  <2>6. \A c \in Clients : Paced(Served(c)', "per_ip", limiter.perIp[c], MaxPerIp, now')
    BY <2>2, <2>4 DEF LimitInv
  <2>7. recent' \subseteq Accepted /\ \A r \in recent' : r.at <= limiter'.lastSeen[r.client]
    BY <2>1, <2>2 DEF LimitInv
  <2>8. now' \in Nat /\ now' >= Window /\ limiter' \in Limiter
    BY <2>1, LimitsAssumption DEF LimitInv
  <2> QED BY <2>1, <2>3, <2>5, <2>6, <2>7, <2>8 DEF LimitInv
<1>2. ASSUME NEW client \in Clients, OtherRequest(client) PROVE LimitInv'
  BY <1>2, CountPaced DEF OtherRequest
<1>3. ASSUME NEW caller \in Requests, NEW client \in Clients, NEW token \in Tokens,
             NEW alerts \in Feeds, Trigger(caller, client, token, alerts)
      PROVE LimitInv'
  BY <1>3, CountPaced DEF Trigger
<1>4. CASE Restart
  <2>1. now' = now /\ limiter' = NewLimiter /\ recent' = {}
    BY <1>4 DEF Restart
  <2>2. Fresh \in Counter /\ Fresh.start = 0 /\ NewLimiter \in Limiter
    BY DEF Fresh, Counter, NewLimiter, Limiter
  <2>3. limiter'.all = Fresh /\ \A c \in Clients : limiter'.perIp[c] = Fresh /\ Served(c)' = {}
    BY <2>1 DEF NewLimiter, Served
  <2> QED BY <2>1, <2>2, <2>3, LimitsAssumption DEF LimitInv, Paced
<1>5. CASE Compose \/ (\E caller \in Callers : Answered(caller)) \/ UNCHANGED vars
  <2>1. UNCHANGED <<now, limiter, recent>>
    BY <1>5 DEF Compose, Answered, AnswerText, AnswerTools, ToolRaises, Bill, CallFails, Posted, vars
  <2> QED BY <2>1 DEF LimitInv, Paced, Served
<1> QED BY <1>1, <1>2, <1>3, <1>4, <1>5 DEF Next

\* A client is never served more than twice its cap within any window's
\* length, nor all of them together more than twice theirs, whatever the sweep
\* forgets (_FixedWindowCounter: "burst up to 2x").
THEOREM BurstBounded == Spec => []BurstIsBounded
<1>1. LimitInv => BurstIsBounded
  BY AtMostTwice, LimitsAssumption DEF LimitInv, BurstIsBounded
<1>2. Spec => []LimitInv
  BY LimitInit, LimitStep, PTL DEF Spec
<1> QED BY <1>1, <1>2, PTL

=============================================================================
