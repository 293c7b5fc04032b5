--------------------------- MODULE CircuitBreaker ---------------------------
(***************************************************************************)
(* poller/breaker.py: the backoff ladder of the poll loop, as operators on *)
(* the breaker's record.  A failed cycle climbs it, a cycle near the rate  *)
(* limit climbs it too, and any other cycle ends the episode and yields    *)
(* the one PollGapEvent that reports it.                                   *)
(***************************************************************************)
EXTENDS Integers, Domain

CONSTANTS
  TopLevel,        \* len(ladder) - 1
  LowWatermark     \* RATE_LIMIT_LOW_WATERMARK

ASSUME BreakerAssumption ==
  /\ TopLevel \in Nat \ {0}
  /\ LowWatermark \in Nat
  /\ NONE \notin Nat

Breaker == [level : 0 .. TopLevel, failures : Nat, startedAt : Nat \cup {NONE},
            maxLevel : 0 .. TopLevel]

Gap == [startedAt : Nat, endedAt : Nat, failures : Nat, maxLevel : 0 .. TopLevel]

Closed == [level |-> 0, failures |-> 0, startedAt |-> NONE, maxLevel |-> 0]

BackoffActive(breaker) == breaker.level > 0

Lower(a, b) == IF a < b THEN a ELSE b
Higher(a, b) == IF a > b THEN a ELSE b

\* Mutant: the ladder has no last rung.
EscalateUncapped(breaker, now) ==
  [breaker EXCEPT !.startedAt = IF breaker.level = 0 THEN now ELSE @,
                  !.level = @ + 1,
                  !.maxLevel = Higher(@, breaker.level + 1)]

Escalate(breaker, now) ==
  LET level == Lower(breaker.level + 1, TopLevel)
  IN [breaker EXCEPT !.startedAt = IF breaker.level = 0 THEN now ELSE @,
                     !.level = level,
                     !.maxLevel = Higher(@, level)]

RecordFailure(breaker, now) ==
  Escalate([breaker EXCEPT !.failures = @ + 1], now)

\* `remaining` is the lowest count the cycle's throttle windows reported.
RateLimited(remaining) == remaining # NONE /\ remaining <= LowWatermark

\* Mutant: a recovery does not close the breaker.
RecordSuccessStaysOpen(breaker, now, remaining) ==
  IF RateLimited(remaining) THEN Escalate(breaker, now) ELSE breaker

RecordSuccess(breaker, now, remaining) ==
  IF RateLimited(remaining) THEN Escalate(breaker, now) ELSE Closed

\* Mutant: an episode without a failed request is not reported.
GapsClosedOfFailures(breaker, now, remaining) ==
  IF RateLimited(remaining) \/ breaker.failures = 0 THEN <<>>
  ELSE <<[startedAt |-> breaker.startedAt, endedAt |-> now,
          failures |-> breaker.failures, maxLevel |-> breaker.maxLevel]>>

\* What _recover returns to the caller: the events the success yields.
GapsClosed(breaker, now, remaining) ==
  IF RateLimited(remaining) \/ ~BackoffActive(breaker) THEN <<>>
  ELSE <<[startedAt |-> breaker.startedAt, endedAt |-> now,
          failures |-> breaker.failures, maxLevel |-> breaker.maxLevel]>>

=============================================================================
