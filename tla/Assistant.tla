----------------------------- MODULE Assistant -----------------------------
(***************************************************************************)
(* The AI layer of the poller's process: POST /briefing/trigger behind the *)
(* rate limiter (api/app.py, api/limits.py), the tool-calling loop         *)
(* (ai/agent.py) and the weekly digest (ai/weekly_digest.py), both through *)
(* the client that enforces the monthly budget (ai/budget.py), and the     *)
(* post to Slack (poller/slack.py).  The process is one event loop:        *)
(* callers interleave where they await the model or Slack.                 *)
(*                                                                         *)
(* Data abstraction.  Costs are whole units.  A prompt, a tool's result    *)
(* and a text are left out; what the model answers, a final text or a      *)
(* request for tools, is a choice.                                         *)
(***************************************************************************)
EXTENDS RateLimit, Alerts, FiniteSets

CONSTANTS
  Requests,        \* trigger requests that may be under way at once
  Digest,          \* the caller of the weekly digest
  Feeds,           \* sets of alerts the store may hold
  Tokens, Token,   \* bearer tokens, the one configured
  Cap,             \* monthly_cap_usd
  MaxCost,         \* the dearest call
  MaxIterations,   \* max_iterations
  MonthLength,     \* instants of a month
  LastTime,        \* last instant, a bound on the clock
  MaxHits          \* requests of one window of the limiter, a bound

Callers == Requests \cup {Digest}

ASSUME BudgetAssumption ==
  /\ IsFiniteSet(Callers)
  /\ Digest \notin Requests
  /\ Cap \in Nat \ {0} /\ MaxCost \in Nat
  /\ MonthLength \in Nat \ {0} /\ LastTime \in Nat

VARIABLES
  now,        \* wall clock
  limiter,    \* the rate limiter
  recent,     \* the requests accepted within the last window's length
  spent,      \* monthly_spend, a row per month
  phase,      \* "idle", "model" or "slack": what a caller awaits
  round       \* a caller's iteration of the tool-calling loop

vars == <<now, limiter, recent, spent, phase, round>>

Month(time) == time \div MonthLength
Months == 0 .. Month(Window + LastTime)
\* Mutant: a month exactly at its cap may start another call.
AtMostBudget == spent[Month(now)] <= Cap

UnderBudget == spent[Month(now)] < Cap

Init ==
  /\ now = Window
  /\ limiter = NewLimiter
  /\ recent = {}
  /\ spent = [m \in Months |-> 0]
  /\ phase = [c \in Callers |-> "idle"]
  /\ round = [c \in Callers |-> 0]

Tick ==
  /\ now < Window + LastTime
  /\ now' = now + 1
  /\ recent' = {r \in recent : now' - r.at < Window}
  /\ UNCHANGED <<limiter, spent, phase, round>>

\* complete() checks the budget before it awaits the model.
StartCall(caller) ==
  /\ phase' = [phase EXCEPT ![caller] = IF UnderBudget THEN "model" ELSE "idle"]
  /\ round' = [round EXCEPT ![caller] = IF UnderBudget THEN @ + 1 ELSE 0]

Finish(caller) ==
  /\ phase' = [phase EXCEPT ![caller] = "idle"]
  /\ round' = [round EXCEPT ![caller] = 0]

\* A request and which one it was for either counter.
Request(counted, client) ==
  [client |-> client, at |-> now,
   nth |-> [scope \in Scopes |-> IF scope = "global" THEN counted.all.count
                                                    ELSE counted.perIp[client].count]]

Count(client) ==
  /\ limiter.all.count < MaxHits \/ now - limiter.all.start >= Window
  /\ limiter' = Counted(limiter, client, now)
  /\ recent' = IF Accepts(limiter, client, now) THEN recent \cup {Request(limiter', client)} ELSE recent

\* A request of any other endpoint, or a trigger without the token.
OtherRequest(client) == Count(client) /\ UNCHANGED <<now, spent, phase, round>>

Trigger(caller, client, token, alerts) ==
  /\ caller \in Requests /\ phase[caller] = "idle"
  /\ Count(client)
  /\ Accepts(limiter, client, now) /\ token = Token /\ HasBriefable(alerts, now)
  /\ StartCall(caller)
  /\ UNCHANGED <<now, spent>>

Compose ==
  /\ phase[Digest] = "idle"
  /\ StartCall(Digest)
  /\ UNCHANGED <<now, limiter, recent, spent>>

\* The answer is billed to the month it came in.
Bill(caller, cost) ==
  /\ phase[caller] = "model"
  /\ spent' = [spent EXCEPT ![Month(now)] = @ + cost]
  /\ UNCHANGED <<now, limiter, recent>>

AnswerText(caller, cost) ==
  /\ Bill(caller, cost)
  /\ phase' = [phase EXCEPT ![caller] = "slack"]
  /\ round' = [round EXCEPT ![caller] = 0]

\* Mutant: iterations are counted afresh when they are used up.
AnswerToolsForever(caller, cost) ==
  /\ caller \in Requests
  /\ Bill(caller, cost)
  /\ LET again == spent'[Month(now)] < Cap
     IN /\ phase' = [phase EXCEPT ![caller] = IF again THEN "model" ELSE "idle"]
        /\ round' = [round EXCEPT ![caller] = IF again THEN (@ % MaxIterations) + 1 ELSE 0]

\* The tools read local state at once, and the model is asked again, unless
\* the turn has used its iterations or the month its budget.
AnswerTools(caller, cost) ==
  /\ caller \in Requests
  /\ Bill(caller, cost)
  /\ LET again == round[caller] < MaxIterations /\ spent'[Month(now)] < Cap
     IN /\ phase' = [phase EXCEPT ![caller] = IF again THEN "model" ELSE "idle"]
        /\ round' = [round EXCEPT ![caller] = IF again THEN @ + 1 ELSE 0]

\* A tool raises, a missing argument or a bug: nothing in the loop catches it,
\* and the answer that asked for it is billed already.
ToolRaises(caller, cost) ==
  /\ caller \in Requests
  /\ Bill(caller, cost)
  /\ Finish(caller)

\* A call that raises is not billed.
CallFails(caller) ==
  /\ phase[caller] = "model"
  /\ Finish(caller)
  /\ UNCHANGED <<now, limiter, recent, spent>>

\* Slack took the text or not: the caller is told, nothing is retried.
Posted(caller) ==
  /\ phase[caller] = "slack"
  /\ Finish(caller)
  /\ UNCHANGED <<now, limiter, recent, spent>>

\* The database outlives the process.
Restart ==
  /\ limiter' = NewLimiter
  /\ recent' = {}
  /\ phase' = [c \in Callers |-> "idle"]
  /\ round' = [c \in Callers |-> 0]
  /\ UNCHANGED <<now, spent>>

Answered(caller) ==
  \/ \E cost \in 0 .. MaxCost :
       AnswerText(caller, cost) \/ AnswerTools(caller, cost) \/ ToolRaises(caller, cost)
  \/ CallFails(caller)
  \/ Posted(caller)

Next ==
  \/ Tick
  \/ \E client \in Clients : OtherRequest(client)
  \/ \E caller \in Requests, client \in Clients, token \in Tokens, alerts \in Feeds :
       Trigger(caller, client, token, alerts)
  \/ Compose
  \/ \E caller \in Callers : Answered(caller)
  \/ Restart

Spec == Init /\ [][Next]_vars

\* The SDK's and httpx's timeouts end every call.
FairSpec == Spec /\ \A caller \in Callers : WF_vars(Answered(caller))

-----------------------------------------------------------------------------
\* Type correctness.
TypeOK ==
  /\ now \in Nat
  /\ limiter \in Limiter
  /\ spent \in [Months -> Nat]
  /\ phase \in [Callers -> {"idle", "model", "slack"}]
  /\ round \in [Callers -> 0 .. MaxIterations]

Awaiting == {c \in Callers : phase[c] = "model"}

\* No month costs more than what was under the cap plus one call of every
\* caller that may be under way (ai/budget.py: "don't start a new call once
\* already at or over budget"), whatever the month a call began in.
BudgetIsBounded == \A m \in Months : spent[m] <= Cap - 1 + MaxCost * Cardinality(Callers)

Served(client) == {r \in recent : r.client = client}

\* Within any window's length a client is served at most twice its cap, and all
\* of them together twice theirs (api/limits.py: "burst up to 2x"), sweeps
\* included.
BurstIsBounded ==
  /\ \A client \in Clients : Cardinality(Served(client)) <= 2 * MaxPerIp
  /\ Cardinality(recent) <= 2 * MaxGlobal

\* Every turn ends: the loop runs out of iterations, money or questions.
TurnsEnd == \A caller \in Callers : phase[caller] # "idle" ~> phase[caller] = "idle"
=============================================================================
