---- MODULE FixedWindow ----
(***************************************************************************)
(* The gateway's rate limiter as operators: what Limiter.Allow computes    *)
(* from the clock, and the script it runs in Redis.                        *)
(*                                                                         *)
(* Time is counted in units finer than a millisecond, because the code     *)
(* truncates to milliseconds in three places: the window number, the TTL   *)
(* it sends, and the clock of Redis.                                       *)
(***************************************************************************)
EXTENDS Integers

CONSTANT Millisecond   \* time units in a millisecond

ASSUME MillisecondAssumption == Millisecond \in Nat \ {0}

UnixMilli(t) == t \div Millisecond

\* The window of a request, by the clock of the gateway; `window` is in ms.
CurrentWindow(now, window) == UnixMilli(now) \div window

WindowEnd(w, window) == (w + 1) * window * Millisecond

\* Mutant: the last millisecond of the window is left out.
TTLShort(now, window) ==
  LET left == WindowEnd(CurrentWindow(now, window), window) - now
  IN  UnixMilli(IF left < Millisecond THEN Millisecond ELSE left) - 1

\* The TTL argument of the script: at least 1 ms, truncated to milliseconds.
TTL(now, window) ==
  LET left == WindowEnd(CurrentWindow(now, window), window) - now
  IN  UnixMilli(IF left < Millisecond THEN Millisecond ELSE left)

\* Redis drops a key once its clock has passed the key's time (external).
Expired(counter, t) == UnixMilli(t) > counter.until

NoCounter == [count |-> 0, until |-> -1]

\* Mutant: the key is never given a time to live.
FixedWindowScriptForever(counter, ttl, t) == [counter EXCEPT !.count = @ + 1]

\* INCR, and PEXPIRE if this was the first.
FixedWindowScript(counter, ttl, t) ==
  IF Expired(counter, t) THEN [count |-> 1, until |-> UnixMilli(t) + ttl]
  ELSE [counter EXCEPT !.count = @ + 1]

\* Mutant: the last request of the limit is refused.
AllowedOneLess(count, limit) == count < limit

Allowed(count, limit) == count <= limit
====
