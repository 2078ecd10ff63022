----------------------------- MODULE RateLimiter -----------------------------
(***************************************************************************)
(* RateLimiter: one fixed window per key, in the memory of one process.    *)
(* A window that was never opened has counted nothing.  Every operator     *)
(* takes the instant the caller read before it took the lock.              *)
(***************************************************************************)
EXTENDS EpochTime

CONSTANTS
  MaxRequests,   \* RateLimitConfig::max_requests
  Window         \* RateLimitConfig::window, in ticks

ASSUME LimiterAssumption == MaxRequests \in Nat /\ Window \in Nat

VARIABLE windows    \* [Key -> the window of a key]

NoWindow == [count |-> 0, started |-> 0]

\* An instant before the window started is no time at all.
Elapsed(w, now) == IF now < w.started THEN 0 ELSE now - w.started

\* Mutant: a window never ends.
Rolled_Never(w, now) == IF w.count = 0 THEN [count |-> 0, started |-> now] ELSE w

Rolled(w, now) ==
  IF w.count = 0 \/ Elapsed(w, now) >= Window THEN [count |-> 0, started |-> now] ELSE w

\* Mutant: the count stops at the maximum.
Counted_Saturated(k, now) ==
  [Rolled(windows[k], now) EXCEPT !.count = IF @ < MaxRequests THEN @ + 1 ELSE @]

\* The window of a key with one more request in it.
Counted(k, now) == [Rolled(windows[k], now) EXCEPT !.count = @ + 1]

Count(k, now) == windows' = [windows EXCEPT ![k] = Counted(k, now)]

Admits(k, now) == Counted(k, now).count <= MaxRequests

RetryAfter(k, now) == Window - Elapsed(Counted(k, now), now)

\* The header counts whole seconds.
RetryAfterSeconds(k, now) == RetryAfter(k, now) \div Second
=============================================================================
