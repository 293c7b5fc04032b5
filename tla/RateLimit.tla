----------------------------- MODULE RateLimit -----------------------------
(* api/limits.py: the caps on REST requests, one per client and one for    *)
(* all of them, counted in fixed windows.                                  *)
EXTENDS Integers

CONSTANTS
  Clients,     \* client addresses
  Window,      \* RATE_LIMIT_WINDOW_S
  MaxPerIp,    \* MAX_REQUESTS_PER_WINDOW_PER_IP
  MaxGlobal    \* MAX_REQUESTS_PER_WINDOW_GLOBAL

ASSUME LimitsAssumption == Window \in Nat \ {0} /\ MaxPerIp \in Nat \ {0} /\ MaxGlobal \in Nat \ {0}

Scopes == {"per_ip", "global"}
NeverSeen == -1

\* _FixedWindowCounter: its window begins with the hit that opens it.
Counter == [start : Nat, count : Nat]
Fresh == [start |-> 0, count |-> 0]
Hit(counter, now) ==
  IF now - counter.start >= Window THEN [start |-> now, count |-> 1]
                                   ELSE [counter EXCEPT !.count = @ + 1]

\* A client dropped from _per_ip holds a fresh counter, and was never seen.
Limiter == [all : Counter, perIp : [Clients -> Counter],
            lastSeen : [Clients -> Nat \cup {NeverSeen}], lastSweep : Nat]
NewLimiter == [all |-> Fresh, perIp |-> [c \in Clients |-> Fresh],
               lastSeen |-> [c \in Clients |-> NeverSeen], lastSweep |-> 0]

\* At most once per window, clients idle for two windows are dropped.
SweepStale(limiter, now) ==
  LET idle == {c \in Clients : limiter.lastSeen[c] # NeverSeen /\ now - limiter.lastSeen[c] >= 2 * Window}
  IN IF now - limiter.lastSweep < Window THEN limiter
     ELSE [limiter EXCEPT
             !.lastSweep = now,
             !.perIp = [c \in Clients |-> IF c \in idle THEN Fresh ELSE @[c]],
             !.lastSeen = [c \in Clients |-> IF c \in idle THEN NeverSeen ELSE @[c]]]

\* Mutant: every request of a client opens a window of its own.
CountedAfresh(limiter, client, now) ==
  [SweepStale(limiter, now) EXCEPT !.lastSeen[client] = now,
                                   !.all = Hit(@, now), !.perIp[client] = Hit(Fresh, now)]

\* check(): what a request leaves behind, accepted or not.
Counted(limiter, client, now) ==
  [SweepStale(limiter, now) EXCEPT !.lastSeen[client] = now,
                                   !.all = Hit(@, now), !.perIp[client] = Hit(@, now)]

Accepts(limiter, client, now) ==
  LET counted == Counted(limiter, client, now)
  IN counted.all.count <= MaxGlobal /\ counted.perIp[client].count <= MaxPerIp
=============================================================================
