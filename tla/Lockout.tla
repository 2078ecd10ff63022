------------------------------- MODULE Lockout -------------------------------
(***************************************************************************)
(* LockoutState and LockoutPolicy: the counters of one principal, which is *)
(* an account or a client address, and the rules that move them.           *)
(***************************************************************************)
EXTENDS EpochTime

CONSTANTS
  MaxAttempts,   \* max_attempts
  BaseDelay,     \* base_delay, in ticks
  MaxDelay       \* max_delay, in ticks

\* The last line says MaxDelay < BaseDelay * (2^32 - 65536): the doubling reaches its
\* ceiling before the code's cap on the shift does.
ASSUME PolicyAssumption ==
  /\ MaxAttempts \in Nat /\ BaseDelay \in Nat /\ MaxDelay \in Nat
  /\ BaseDelay = 0 \/ MaxDelay \div 65536 < BaseDelay * 65535

\* locked_until is an instant; None is 0, which no instant lies before.
Lock == [failed : Nat, until : Nat]
NotLocked == 0
Clear == [failed |-> 0, until |-> NotLocked]

Threshold == IF MaxAttempts = 0 THEN 1 ELSE MaxAttempts

IsLocked(lock, now) == lock.until > now

\* Mutant: the doubling has no ceiling.
LockDuration_Uncapped(failed) == BaseDelay * 2^(failed - Threshold)

\* BaseDelay at the threshold, doubled by each further failure, up to MaxDelay.
LockDuration(failed) ==
  LET scaled == BaseDelay * 2^(failed - Threshold)
  IN  IF scaled \in 0 .. MaxDelay THEN scaled ELSE MaxDelay

\* Mutant: the time that remains is kept instead of the instant.
RegisterFailure_Remaining(lock, now) ==
  [failed |-> lock.failed + 1,
   until  |-> IF lock.failed + 1 >= Threshold
              THEN LockDuration(lock.failed + 1) - now ELSE NotLocked]

RegisterFailure(lock, now) ==
  [failed |-> lock.failed + 1,
   until  |-> IF lock.failed + 1 >= Threshold
              THEN now + LockDuration(lock.failed + 1) ELSE NotLocked]

\* A lock as it comes back from the database.
Saved(lock) == [lock EXCEPT !.until = Stored(@)]
=============================================================================
