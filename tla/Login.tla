-------------------------------- MODULE Login --------------------------------
(***************************************************************************)
(* LoginService::login over admin_users and admin_ip_lockouts: concurrent  *)
(* attempts read two counters, check a password for a long time, and write *)
(* both counters back from what they read.                                 *)
(***************************************************************************)
EXTENDS Lockout, Faults

CONSTANTS
  Account,    \* rows of admin_users
  Ip,         \* client addresses
  Null,       \* an email without an account
  Attempt,    \* concurrent login requests
  MaxTries,   \* a bound on the attempts of a TLC run
  MaxTime     \* a bound on its clock

ASSUME LoginAssumption ==
  Null \notin Account /\ MaxTries \in Nat /\ MaxTime \in Nat

VARIABLES
  accounts,    \* [Account -> the counters in its row]
  addresses,   \* [Ip -> the counters in its row, Clear without a row]
  wrong,       \* history: failures written for an account since its last success
  refused,     \* history: failures written for an address since its last success
  attempt,     \* [Attempt -> the attempt in progress, or its answer]
  tries,       \* attempts so far
  clock

counters == <<accounts, addresses, wrong, refused>>
state == <<counters, attempt, tries, clock, faults>>

\* Where an attempt stands: the statement it runs next.
Stage == {"idle", "reading_ip", "reading_account", "recording_account", "recording_ip"}

Answer == {"none", "ok", "invalid", "locked", "internal"}

InProgress == [stage : Stage, ip : Ip \cup {Null}, account : Account \cup {Null}, right : BOOLEAN,
               now : Nat, ipSeen : Lock, seen : Lock, answer : Answer]

\* Nothing in progress; the last answer stays.
Idle(i, a, answer) ==
  [stage |-> "idle", ip |-> i, account |-> a, right |-> FALSE,
   now |-> 0, ipSeen |-> Clear, seen |-> Clear, answer |-> answer]

TypeOK ==
  /\ accounts \in [Account -> Lock] /\ addresses \in [Ip -> Lock]
  /\ wrong \in [Account -> Nat] /\ refused \in [Ip -> Nat]
  /\ attempt \in [Attempt -> InProgress]
  /\ tries \in Nat /\ clock \in Nat /\ faults \in Nat

Init ==
  /\ accounts = [a \in Account |-> Clear] /\ addresses = [i \in Ip |-> Clear]
  /\ wrong = [a \in Account |-> 0] /\ refused = [i \in Ip |-> 0]
  /\ attempt = [q \in Attempt |-> Idle(Null, Null, "none")]
  /\ tries = 0 /\ clock = 0
  /\ FaultsInit

At(q, stage) == attempt[q].stage = stage

Reply(q, answer) ==
  attempt' = [attempt EXCEPT ![q] = Idle(@.ip, @.account, answer)]

\* A request reaches login, which reads the clock once.
Start(q, i, a, right) ==
  /\ At(q, "idle") /\ tries < MaxTries
  /\ a = Null => ~right
  /\ attempt' = [attempt EXCEPT ![q] =
       [stage |-> "reading_ip", ip |-> i, account |-> a, right |-> right,
        now |-> clock, ipSeen |-> Clear, seen |-> Clear, answer |-> "none"]]
  /\ tries' = tries + 1
  /\ Works
  /\ UNCHANGED <<counters, clock>>

\* The address is locked: the attempt ends before any account is looked up.
RejectIp(q) ==
  /\ At(q, "reading_ip") /\ IsLocked(addresses[attempt[q].ip], attempt[q].now)
  /\ Reply(q, "locked")
  /\ Works
  /\ UNCHANGED <<counters, tries, clock>>

PassIp(q) ==
  /\ At(q, "reading_ip") /\ ~IsLocked(addresses[attempt[q].ip], attempt[q].now)
  /\ attempt' = [attempt EXCEPT ![q].stage = "reading_account",
                                ![q].ipSeen = addresses[attempt[q].ip]]
  /\ Works
  /\ UNCHANGED <<counters, tries, clock>>

\* Mutant: a locked account accepts the right password.
Decides_Locked(r) == r.account # Null

\* The password decides the attempt: the account exists, and was not locked
\* when its row was read.
Decides(r) == r.account # Null /\ ~IsLocked(r.seen, r.now)

SignsIn(r) == Decides(r) /\ r.right

\* The row is read; then the password is verified, against the reference hash
\* when there is no account.  The verdict writes to the account only if the
\* password decides.
ReadAccount(q) ==
  LET seen == IF attempt[q].account = Null THEN Clear ELSE accounts[attempt[q].account]
      r == [attempt[q] EXCEPT !.seen = seen]
  IN  /\ At(q, "reading_account")
      /\ attempt' = [attempt EXCEPT ![q] =
           [r EXCEPT !.stage = IF Decides(r) THEN "recording_account" ELSE "recording_ip"]]
      /\ Works
      /\ UNCHANGED <<counters, tries, clock>>

\* Mutant: a success lifts the lock and leaves the count.
WriteAccount_KeepsCount(q) ==
  LET r == attempt[q] IN
  /\ accounts' = [accounts EXCEPT ![r.account] =
       Saved(IF r.right THEN [r.seen EXCEPT !.until = NotLocked] ELSE RegisterFailure(r.seen, r.now))]
  /\ wrong' = [wrong EXCEPT ![r.account] = IF r.right THEN 0 ELSE @ + 1]
  /\ UNCHANGED <<addresses, refused>>

\* update_lockout: the row is overwritten with what follows from the row read.
WriteAccount(q) ==
  LET r == attempt[q] IN
  /\ accounts' = [accounts EXCEPT ![r.account] =
       Saved(IF r.right THEN Clear ELSE RegisterFailure(r.seen, r.now))]
  /\ wrong' = [wrong EXCEPT ![r.account] = IF r.right THEN 0 ELSE @ + 1]
  /\ UNCHANGED <<addresses, refused>>

\* put: likewise for the address; only a sign-in clears it.
WriteIp(q) ==
  LET r == attempt[q] IN
  /\ addresses' = [addresses EXCEPT ![r.ip] =
       Saved(IF SignsIn(r) THEN Clear ELSE RegisterFailure(r.ipSeen, r.now))]
  /\ refused' = [refused EXCEPT ![r.ip] = IF SignsIn(r) THEN 0 ELSE @ + 1]
  /\ UNCHANGED <<accounts, wrong>>

RecordAccount(q) ==
  /\ At(q, "recording_account")
  /\ WriteAccount(q)
  /\ attempt' = [attempt EXCEPT ![q].stage = "recording_ip"]
  /\ Works
  /\ UNCHANGED <<tries, clock>>

RecordIp(q) ==
  LET r == attempt[q] IN
  /\ At(q, "recording_ip")
  /\ WriteIp(q)
  /\ Reply(q, CASE SignsIn(r) -> "ok"
                [] r.account # Null /\ IsLocked(r.seen, r.now) -> "locked"
                [] OTHER -> "invalid")
  /\ Works
  /\ UNCHANGED <<tries, clock>>

\* A statement or the hasher answers an error, or the request is dropped at an
\* await; the database may have executed the statement.
Interrupt(q) ==
  /\ ~At(q, "idle")
  /\ \/ UNCHANGED counters
     \/ At(q, "recording_account") /\ WriteAccount(q)
     \/ At(q, "recording_ip") /\ WriteIp(q)
  /\ Reply(q, "internal")
  /\ Fails
  /\ UNCHANGED <<tries, clock>>

Tick ==
  /\ clock < MaxTime
  /\ clock' = clock + 1
  /\ UNCHANGED <<counters, attempt, tries, faults>>

Next ==
  \/ Tick
  \/ \E q \in Attempt :
       \/ \E i \in Ip, a \in Account \cup {Null}, right \in BOOLEAN : Start(q, i, a, right)
       \/ RejectIp(q) \/ PassIp(q) \/ ReadAccount(q)
       \/ RecordAccount(q) \/ RecordIp(q) \/ Interrupt(q)

Spec == Init /\ [][Next]_state

(***************************************************************************)
(* The counters                                                            *)
(***************************************************************************)

\* A lock that the policy can have computed: no lock below the threshold, and
\* none that lasts longer than MaxDelay from now.
Sound(lock) ==
  /\ lock.failed < Threshold => lock.until = NotLocked
  /\ lock.until <= clock + MaxDelay

\* Stored counters, and those an attempt goes on with, are sound, in whatever
\* order attempts overwrite each other's counters.
LocksAreSound ==
  /\ \A a \in Account : Sound(accounts[a])
  /\ \A i \in Ip : Sound(addresses[i])
  /\ \A q \in Attempt : Sound(attempt[q].seen) /\ Sound(attempt[q].ipSeen)

\* What an attempt holds between its reads and its writes: an instant that has
\* passed, an address that was not locked, and a verdict.
AttemptsAreChecked ==
  \A q \in Attempt :
    LET r == attempt[q] IN
      /\ r.now <= clock
      /\ r.stage # "idle" => r.ip \in Ip
      /\ ~IsLocked(r.ipSeen, r.now)
      /\ r.stage = "recording_account" => Decides(r)
      /\ r.account = Null => r.seen = Clear

\* The inductive invariant of the proofs.
LoginInvariant == TypeOK /\ LocksAreSound /\ AttemptsAreChecked

\* A lock is neither lifted nor shortened before its time ...
Holds(lock, after) == lock.until > clock => after.until >= lock.until

\* ... except by an attempt that read the counters before someone else wrote
\* them: whoever read what is there respects the lock.
Steps(q) == attempt'[q] # attempt[q]

LockHoldsUnlessStale ==
  [][/\ \A a \in Account :
          \/ Holds(accounts[a], accounts'[a])
          \/ \E q \in Attempt : Steps(q) /\ attempt[q].account = a /\ attempt[q].seen # accounts[a]
     /\ \A i \in Ip :
          \/ Holds(addresses[i], addresses'[i])
          \/ \E q \in Attempt : Steps(q) /\ attempt[q].ip = i /\ attempt[q].ipSeen # addresses[i]]_state

\* A stored count is of consecutive failures: it exceeds those written since the
\* last success by no more than it did ...
Earned(lock, count, after, countAfter) ==
  \/ after.failed <= countAfter
  \/ after.failed + count <= lock.failed + countAfter

\* ... except by an attempt that read the counters before someone else wrote
\* them.  Such an attempt brings back what a success in between has cleared, and
\* may lock after a single failure.
EarnedUnlessStale ==
  [][/\ \A a \in Account :
          \/ Earned(accounts[a], wrong[a], accounts'[a], wrong'[a])
          \/ \E q \in Attempt : Steps(q) /\ attempt[q].account = a /\ attempt[q].seen # accounts[a]
     /\ \A i \in Ip :
          \/ Earned(addresses[i], refused[i], addresses'[i], refused'[i])
          \/ \E q \in Attempt : Steps(q) /\ attempt[q].ip = i /\ attempt[q].ipSeen # addresses[i]]_state

=============================================================================
