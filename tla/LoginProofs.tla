---------------------------- MODULE LoginProofs ----------------------------
(***************************************************************************)
(* Proofs about Login for any accounts, addresses and concurrent attempts, *)
(* any lockout policy and any fault budget: counters stay sound although   *)
(* attempts overwrite each other's, and only an attempt that read before   *)
(* another wrote can lift a lock or bring back failures that a success has *)
(* cleared.                                                                *)
(***************************************************************************)
EXTENDS Login, TLAPS

(***************************************************************************)
(* The policy                                                              *)
(***************************************************************************)

LEMMA ThresholdIsPositive == Threshold \in Nat /\ Threshold >= 1
  BY PolicyAssumption DEF Threshold

LEMMA LockDurationIsCapped ==
  ASSUME NEW n \in Nat
  PROVE  LockDuration(n) \in Nat /\ LockDuration(n) <= MaxDelay
<1>. DEFINE scaled == BaseDelay * 2^(n - Threshold)
<1>1. LockDuration(n) = IF scaled \in 0 .. MaxDelay THEN scaled ELSE MaxDelay
  BY DEF LockDuration
<1>. HIDE DEF scaled
<1>. QED
  BY <1>1, PolicyAssumption

LEMMA LockFields ==
  /\ Clear \in Lock
  /\ \A lock \in Lock :
       /\ lock.failed \in Nat /\ lock.until \in Nat
       /\ Saved(lock) \in Lock /\ Saved(lock).failed = lock.failed
       /\ Saved(lock).until = Stored(lock.until) /\ Saved(lock).until <= lock.until
<1>1. Clear \in Lock
  BY DEF Clear, Lock, NotLocked
<1>2. ASSUME NEW lock \in Lock
      PROVE  /\ lock.failed \in Nat /\ lock.until \in Nat
             /\ Saved(lock) \in Lock /\ Saved(lock).failed = lock.failed
             /\ Saved(lock).until = Stored(lock.until) /\ Saved(lock).until <= lock.until
  <2>1. lock.failed \in Nat /\ lock.until \in Nat
    BY DEF Lock
  <2>2. Stored(lock.until) \in Nat /\ Stored(lock.until) <= lock.until
    BY <2>1, StoredIsEarlier
  <2>. HIDE DEF Stored
  <2>. QED
    BY <2>1, <2>2 DEF Saved, Lock
<1>. QED
  BY <1>1, <1>2

\* Before the threshold there is no lock, and no lock lasts beyond MaxDelay.
LEMMA FailureIsSound ==
  ASSUME NEW lock \in Lock, NEW now \in Nat
  PROVE  LET next == Saved(RegisterFailure(lock, now))
         IN  /\ next \in Lock /\ next.failed = lock.failed + 1
             /\ next.failed < Threshold => next.until = NotLocked
             /\ next.until <= now + MaxDelay
<1>. DEFINE n == lock.failed + 1
            next == RegisterFailure(lock, now)
<1>1. n \in Nat
  BY LockFields
<1>2. LockDuration(n) \in Nat /\ LockDuration(n) <= MaxDelay
  BY <1>1, LockDurationIsCapped
<1>3. /\ next \in Lock /\ next.failed = n
      /\ n < Threshold => next.until = NotLocked
      /\ next.until <= now + MaxDelay
  BY <1>1, <1>2, ThresholdIsPositive, PolicyAssumption DEF RegisterFailure, Lock, NotLocked
<1>. HIDE DEF next, n
<1>4. /\ Saved(next) \in Lock /\ Saved(next).failed = n
      /\ Saved(next).until \in Nat /\ Saved(next).until <= next.until
  BY <1>3, LockFields
<1>5. n < Threshold => Saved(next).until = NotLocked
  BY <1>3, <1>4 DEF NotLocked
<1>6. next.until \in Nat
  BY <1>3, LockFields
<1>7. Saved(next).until <= now + MaxDelay
  BY <1>3, <1>4, <1>6, PolicyAssumption
<1>. QED
  BY <1>4, <1>5, <1>7 DEF next, n
(***************************************************************************)
(* The invariant, counter by counter and attempt by attempt                *)
(***************************************************************************)

CountersFine ==
  /\ accounts \in [Account -> Lock] /\ addresses \in [Ip -> Lock]
  /\ wrong \in [Account -> Nat] /\ refused \in [Ip -> Nat]
  /\ \A a \in Account : Sound(accounts[a])
  /\ \A i \in Ip : Sound(addresses[i])

Fine(r) ==
  /\ r \in InProgress
  /\ Sound(r.seen) /\ Sound(r.ipSeen)
  /\ r.now <= clock
  /\ r.stage # "idle" => r.ip \in Ip
  /\ ~IsLocked(r.ipSeen, r.now)
  /\ r.stage = "recording_account" => Decides(r)
  /\ r.account = Null => r.seen = Clear

AttemptsFine == attempt \in [Attempt -> InProgress] /\ \A q \in Attempt : Fine(attempt[q])

NumbersFine == tries \in Nat /\ clock \in Nat /\ faults \in Nat

LEMMA InvariantParts ==
  LoginInvariant <=> CountersFine /\ AttemptsFine /\ NumbersFine
BY DEF LoginInvariant, TypeOK, LocksAreSound, AttemptsAreChecked,
       CountersFine, AttemptsFine, NumbersFine, Fine

\* Time only passes.
Onward == clock' \in Nat /\ clock' >= clock

\* What was sound stays sound.
LEMMA SoundStays ==
  ASSUME CountersFine, NumbersFine, Onward, NEW lock \in Lock, Sound(lock)
  PROVE  Sound(lock)'
<1>1. lock.until \in Nat /\ lock.until <= clock + MaxDelay
  BY LockFields DEF Sound
<1>2. lock.until <= clock' + MaxDelay
  BY <1>1, PolicyAssumption DEF Onward, NumbersFine
<1>. QED
  BY <1>2 DEF Sound

\* An attempt that waits while others go on stays fine.
LEMMA FineStays ==
  ASSUME CountersFine, NumbersFine, Onward, NEW r \in InProgress, Fine(r)
  PROVE  Fine(r)'
<1>1. r.seen \in Lock /\ r.ipSeen \in Lock /\ r.now \in Nat
  BY DEF InProgress
<1>2. Sound(r.seen)' /\ Sound(r.ipSeen)'
  BY <1>1, SoundStays DEF Fine
<1>3. r.now <= clock'
  BY <1>1 DEF Fine, NumbersFine, Onward
<1>. QED
  BY <1>2, <1>3 DEF Fine

\* One attempt moves, the others wait.
LEMMA OneMoves ==
  ASSUME CountersFine, NumbersFine, AttemptsFine, Onward, NEW q \in Attempt,
         \E r \in InProgress : Fine(r) /\ attempt' = [attempt EXCEPT ![q] = r]
  PROVE  AttemptsFine'
<1>1. PICK r \in InProgress : Fine(r) /\ attempt' = [attempt EXCEPT ![q] = r]
  OBVIOUS
<1>2. attempt' \in [Attempt -> InProgress] /\ attempt'[q] = r
  BY <1>1 DEF AttemptsFine
<1>3. \A t \in InProgress : Fine(t) => Fine(t)'
  BY FineStays
<1>4. ASSUME NEW p \in Attempt
      PROVE  attempt'[p] \in InProgress /\ Fine(attempt[p])'
  <2>1. PICK t \in InProgress : Fine(t) /\ attempt'[p] = t
    BY <1>1, <1>2 DEF AttemptsFine
  <2>2. Fine(t)'
    BY <1>3, <2>1
  <2>. QED
    BY <2>1, <2>2 DEF Fine
<1>. QED
  BY <1>2, <1>4 DEF AttemptsFine

(***************************************************************************)
(* The steps                                                               *)
(***************************************************************************)

LEMMA ClearIsFine ==
  ASSUME NumbersFine
  PROVE  /\ Clear \in Lock /\ Sound(Clear) /\ Clear.failed = 0
         /\ \A now \in Nat : ~IsLocked(Clear, now)
  BY LockFields, ThresholdIsPositive, PolicyAssumption
     DEF NumbersFine, Clear, NotLocked, Sound, IsLocked

\* An attempt that answered keeps nothing but its answer.
LEMMA AnsweredIsFine ==
  ASSUME CountersFine, NumbersFine, NEW i \in Ip \cup {Null}, NEW a \in Account \cup {Null},
         NEW answer \in Answer
  PROVE  Idle(i, a, answer) \in InProgress /\ Fine(Idle(i, a, answer))
<1>. DEFINE r == Idle(i, a, answer)
<1>1. r = [stage |-> "idle", ip |-> i, account |-> a, right |-> FALSE,
           now |-> 0, ipSeen |-> Clear, seen |-> Clear, answer |-> answer]
  BY DEF Idle
<1>2. r \in InProgress
  BY <1>1, ClearIsFine DEF InProgress, Stage
<1>. HIDE DEF r
<1>3. Sound(r.seen) /\ Sound(r.ipSeen) /\ ~IsLocked(r.ipSeen, r.now) /\ r.now <= clock
  BY <1>1, ClearIsFine DEF NumbersFine
<1>4. Fine(r)
  BY <1>1, <1>2, <1>3 DEF Fine
<1>. QED
  BY <1>2, <1>4 DEF r

\* What a step leaves alone: counters and clock.
LEMMA QuietIsOnward ==
  ASSUME CountersFine, NumbersFine, UNCHANGED <<counters, clock>>
  PROVE  Onward /\ CountersFine'
<1>1. Onward
  BY DEF CountersFine, NumbersFine, Onward, counters
<1>2. ASSUME NEW lock \in Lock, Sound(lock) PROVE Sound(lock)'
  BY <1>2, <1>1, SoundStays
<1>. QED
  BY <1>1, <1>2 DEF CountersFine, counters, Sound

LEMMA StartKeeps ==
  ASSUME CountersFine, AttemptsFine, NumbersFine, NEW q \in Attempt, NEW i \in Ip,
         NEW a \in Account \cup {Null}, NEW right \in BOOLEAN, Start(q, i, a, right)
  PROVE  CountersFine' /\ AttemptsFine' /\ NumbersFine'
<1>. DEFINE r == [stage |-> "reading_ip", ip |-> i, account |-> a, right |-> right,
                  now |-> clock, ipSeen |-> Clear, seen |-> Clear, answer |-> "none"]
<1>1. Onward /\ CountersFine'
  BY QuietIsOnward DEF Start
<1>2. NumbersFine'
  BY DEF NumbersFine, Start, Works
<1>4. attempt' = [attempt EXCEPT ![q] = r]
  BY DEF Start
<1>5. r \in InProgress
  BY ClearIsFine DEF InProgress, Stage, Answer, NumbersFine
<1>6. Fine(r)
  <2>1. Sound(r.seen) /\ Sound(r.ipSeen) /\ ~IsLocked(r.ipSeen, r.now) /\ r.now <= clock
    BY ClearIsFine DEF NumbersFine
  <2>. QED
    BY <1>5, <2>1 DEF Fine
<1>. QED
  BY <1>1, <1>2, <1>4, <1>5, <1>6, OneMoves

LEMMA RejectIpKeeps ==
  ASSUME CountersFine, AttemptsFine, NumbersFine, NEW q \in Attempt, RejectIp(q)
  PROVE  CountersFine' /\ AttemptsFine' /\ NumbersFine'
<1>. DEFINE i == attempt[q].ip
            a == attempt[q].account
            r == Idle(i, a, "locked")
<1>1. Onward /\ CountersFine'
  BY QuietIsOnward DEF RejectIp
<1>2. NumbersFine'
  BY DEF NumbersFine, RejectIp, Works
<1>3. i \in Ip \cup {Null} /\ a \in Account \cup {Null}
  BY DEF AttemptsFine, InProgress
<1>4. r \in InProgress /\ Fine(r)
  BY <1>3, AnsweredIsFine DEF Answer
<1>5. attempt' = [attempt EXCEPT ![q] = r]
  BY DEF RejectIp, Reply
<1>. HIDE DEF r
<1>. QED
  BY <1>1, <1>2, <1>4, <1>5, OneMoves

LEMMA PassIpKeeps ==
  ASSUME CountersFine, AttemptsFine, NumbersFine, NEW q \in Attempt, PassIp(q)
  PROVE  CountersFine' /\ AttemptsFine' /\ NumbersFine'
<1>. DEFINE o == attempt[q]
            r == [o EXCEPT !.stage = "reading_account", !.ipSeen = addresses[o.ip]]
<1>1. Onward /\ CountersFine'
  BY QuietIsOnward DEF PassIp
<1>2. NumbersFine'
  BY DEF NumbersFine, PassIp, Works
<1>3. o \in InProgress /\ Fine(o) /\ o.ip \in Ip /\ o.stage = "reading_ip"
  BY DEF AttemptsFine, Fine, PassIp, At
<1>4. attempt' = [attempt EXCEPT ![q] = r]
  BY <1>3 DEF PassIp, AttemptsFine, InProgress
<1>5. /\ addresses[o.ip] \in Lock /\ Sound(addresses[o.ip])
      /\ ~IsLocked(addresses[o.ip], o.now)
  BY <1>3 DEF CountersFine, PassIp
<1>. HIDE DEF o
<1>6. r \in InProgress
  BY <1>3, <1>5 DEF InProgress, Stage
<1>7. Fine(r)
  BY <1>3, <1>5, <1>6 DEF Fine, InProgress
<1>. HIDE DEF r
<1>. QED
  BY <1>1, <1>2, <1>4, <1>6, <1>7, OneMoves

LEMMA ReadAccountKeeps ==
  ASSUME CountersFine, AttemptsFine, NumbersFine, NEW q \in Attempt, ReadAccount(q)
  PROVE  CountersFine' /\ AttemptsFine' /\ NumbersFine'
<1>. DEFINE o == attempt[q]
            seen == IF o.account = Null THEN Clear ELSE accounts[o.account]
            p == [o EXCEPT !.seen = seen]
            stage == IF Decides(p) THEN "recording_account" ELSE "recording_ip"
            r == [p EXCEPT !.stage = stage]
<1>1. Onward /\ CountersFine'
  BY QuietIsOnward DEF ReadAccount
<1>2. NumbersFine'
  BY DEF NumbersFine, ReadAccount, Works
<1>3. o \in InProgress /\ Fine(o) /\ o.stage = "reading_account"
  BY DEF AttemptsFine, ReadAccount, At
<1>4. attempt' = [attempt EXCEPT ![q] = r]
  BY DEF ReadAccount
<1>5. /\ seen \in Lock /\ Sound(seen)
      /\ o.account = Null => seen = Clear
  BY <1>3, ClearIsFine DEF CountersFine, InProgress
<1>. HIDE DEF o, seen
<1>6. p \in InProgress /\ p.seen = seen /\ p.account = o.account /\ p.now = o.now
  BY <1>3, <1>5 DEF InProgress
<1>7. stage \in {"recording_account", "recording_ip"} /\ (stage = "recording_account" => Decides(p))
  OBVIOUS
<1>8. r \in InProgress /\ (Decides(p) => Decides(r))
  BY <1>6, <1>7 DEF InProgress, Stage, Decides
<1>9. /\ r.stage = stage /\ r.seen = seen /\ r.account = o.account /\ r.now = o.now
      /\ r.ip = o.ip /\ r.ipSeen = o.ipSeen /\ r.answer = o.answer
  BY <1>3, <1>6 DEF InProgress
<1>. HIDE DEF r, stage, p
<1>10. Fine(r)
  BY <1>3, <1>5, <1>7, <1>8, <1>9 DEF Fine
<1>. QED
  BY <1>1, <1>2, <1>4, <1>8, <1>10, OneMoves

\* A write that follows from an earlier read is still sound, whatever was
\* written in between.
LEMMA WriteAccountKeeps ==
  ASSUME CountersFine, AttemptsFine, NumbersFine, NEW q \in Attempt,
         At(q, "recording_account"), WriteAccount(q), clock' = clock
  PROVE  CountersFine' /\ Onward
<1>. DEFINE r == attempt[q]
            lock == Saved(IF r.right THEN Clear ELSE RegisterFailure(r.seen, r.now))
            count == IF r.right THEN 0 ELSE wrong[r.account] + 1
<1>1. /\ r \in InProgress /\ Fine(r) /\ r.account \in Account
      /\ r.seen \in Lock /\ r.now \in Nat
  BY DEF AttemptsFine, At, Fine, Decides, InProgress
<1>2. lock \in Lock /\ Sound(lock) /\ count \in Nat
  <2>1. wrong[r.account] \in Nat
    BY <1>1 DEF CountersFine
  <2>2. CASE r.right
    <3>1. lock = Saved(Clear) /\ count = 0
      BY <2>2
    <3>2. lock \in Lock /\ lock.failed = 0 /\ lock.until = 0
      BY <3>1, LockFields DEF Clear, NotLocked
    <3>. QED
      BY <2>1, <3>1, <3>2, PolicyAssumption DEF Sound, NotLocked, NumbersFine
  <2>3. CASE ~r.right
    <3>1. lock = Saved(RegisterFailure(r.seen, r.now)) /\ count = wrong[r.account] + 1
      BY <2>3
    <3>2. /\ lock \in Lock /\ lock.failed = r.seen.failed + 1
          /\ lock.failed < Threshold => lock.until = NotLocked
          /\ lock.until <= r.now + MaxDelay
      <4>. HIDE DEF lock, r
      <4>. QED
        BY <1>1, <3>1, FailureIsSound
    <3>3. lock.until <= clock + MaxDelay
      BY <1>1, <3>2, LockFields, PolicyAssumption DEF Fine, NumbersFine
    <3>. QED
      BY <2>1, <3>1, <3>2, <3>3 DEF Sound
  <2>. QED
    BY <2>2, <2>3
<1>3. /\ accounts' = [accounts EXCEPT ![r.account] = lock]
      /\ wrong' = [wrong EXCEPT ![r.account] = count]
      /\ addresses' = addresses /\ refused' = refused
  BY <1>1 DEF WriteAccount, CountersFine
<1>. HIDE DEF lock, count, r
<1>4. Onward
  BY <1>1, <1>2, <1>3 DEF CountersFine, Onward, NumbersFine
<1>5. ASSUME NEW a \in Account PROVE Sound(accounts[a])'
  <2>1. accounts[a] \in Lock /\ Sound(accounts[a])
    BY DEF CountersFine
  <2>2. clock' = clock
    OBVIOUS
  <2>. QED
    BY <1>1, <1>2, <1>3, <2>1, <2>2 DEF CountersFine, Sound
<1>6. ASSUME NEW i \in Ip PROVE Sound(addresses[i])'
  BY <1>3 DEF CountersFine, Sound
<1>7. accounts' \in [Account -> Lock] /\ wrong' \in [Account -> Nat]
  BY <1>1, <1>2, <1>3 DEF CountersFine
<1>. QED
  BY <1>3, <1>4, <1>5, <1>6, <1>7 DEF CountersFine, Sound
LEMMA WriteIpKeeps ==
  ASSUME CountersFine, AttemptsFine, NumbersFine, NEW q \in Attempt,
         At(q, "recording_ip"), WriteIp(q), clock' = clock
  PROVE  CountersFine' /\ Onward
<1>. DEFINE r == attempt[q]
            lock == Saved(IF SignsIn(r) THEN Clear ELSE RegisterFailure(r.ipSeen, r.now))
            count == IF SignsIn(r) THEN 0 ELSE refused[r.ip] + 1
<1>1. r \in InProgress /\ Fine(r) /\ r.ip \in Ip /\ r.ipSeen \in Lock /\ r.now \in Nat
  BY DEF AttemptsFine, At, Fine, InProgress
<1>2. lock \in Lock /\ Sound(lock) /\ count \in Nat
  <2>1. refused[r.ip] \in Nat
    BY <1>1 DEF CountersFine
  <2>2. CASE SignsIn(r)
    <3>1. lock = Saved(Clear) /\ count = 0
      BY <2>2
    <3>2. lock \in Lock /\ lock.failed = 0 /\ lock.until = 0
      BY <3>1, LockFields DEF Clear, NotLocked
    <3>. QED
      BY <2>1, <3>1, <3>2, PolicyAssumption DEF Sound, NotLocked, NumbersFine
  <2>3. CASE ~SignsIn(r)
    <3>1. lock = Saved(RegisterFailure(r.ipSeen, r.now)) /\ count = refused[r.ip] + 1
      BY <2>3
    <3>2. /\ lock \in Lock /\ lock.failed = r.ipSeen.failed + 1
          /\ lock.failed < Threshold => lock.until = NotLocked
          /\ lock.until <= r.now + MaxDelay
      BY <1>1, <3>1, FailureIsSound
    <3>3. lock.until <= clock + MaxDelay
      BY <1>1, <3>2, LockFields, PolicyAssumption DEF Fine, NumbersFine
    <3>. QED
      BY <2>1, <3>1, <3>2, <3>3 DEF Sound
  <2>. QED
    BY <2>2, <2>3
<1>3. /\ addresses' = [addresses EXCEPT ![r.ip] = lock]
      /\ refused' = [refused EXCEPT ![r.ip] = count]
      /\ accounts' = accounts /\ wrong' = wrong
  BY <1>1 DEF WriteIp, CountersFine
<1>. HIDE DEF lock, count, r
<1>4. Onward
  BY <1>1, <1>2, <1>3 DEF CountersFine, Onward, NumbersFine
<1>5. ASSUME NEW i \in Ip PROVE Sound(addresses[i])'
  <2>1. addresses[i] \in Lock /\ Sound(addresses[i])
    BY DEF CountersFine
  <2>. QED
    BY <1>1, <1>2, <1>3, <2>1 DEF CountersFine, Sound
<1>6. ASSUME NEW a \in Account PROVE Sound(accounts[a])'
  BY <1>3 DEF CountersFine, Sound
<1>7. addresses' \in [Ip -> Lock] /\ refused' \in [Ip -> Nat]
  BY <1>1, <1>2, <1>3 DEF CountersFine
<1>. QED
  BY <1>3, <1>4, <1>5, <1>6, <1>7 DEF CountersFine, Sound

LEMMA RecordAccountKeeps ==
  ASSUME CountersFine, AttemptsFine, NumbersFine, NEW q \in Attempt, RecordAccount(q)
  PROVE  CountersFine' /\ AttemptsFine' /\ NumbersFine'
<1>. DEFINE o == attempt[q]
            r == [o EXCEPT !.stage = "recording_ip"]
<1>1. Onward /\ CountersFine'
  BY WriteAccountKeeps DEF RecordAccount
<1>2. NumbersFine'
  BY DEF NumbersFine, RecordAccount, Works
<1>3. o \in InProgress /\ Fine(o) /\ o.stage = "recording_account"
  BY DEF AttemptsFine, RecordAccount, At
<1>4. attempt' = [attempt EXCEPT ![q] = r]
  BY DEF RecordAccount
<1>. HIDE DEF o
<1>5. r \in InProgress
  BY <1>3 DEF InProgress, Stage
<1>6. Fine(r)
  BY <1>3, <1>5 DEF Fine, InProgress
<1>. HIDE DEF r
<1>. QED
  BY <1>1, <1>2, <1>4, <1>5, <1>6, OneMoves

\* An answer ends the attempt.
LEMMA ReplyKeeps ==
  ASSUME CountersFine, AttemptsFine, NumbersFine, NumbersFine', Onward, CountersFine',
         NEW q \in Attempt, NEW answer \in Answer, Reply(q, answer)
  PROVE  AttemptsFine'
<1>. DEFINE i == attempt[q].ip
            a == attempt[q].account
            r == Idle(i, a, answer)
<1>1. i \in Ip \cup {Null} /\ a \in Account \cup {Null}
  BY DEF AttemptsFine, InProgress
<1>2. attempt' = [attempt EXCEPT ![q] = r]
  BY DEF Reply
<1>3. r \in InProgress /\ Fine(r)
  BY <1>1, AnsweredIsFine
<1>. HIDE DEF r
<1>. QED
  BY <1>2, <1>3, OneMoves

LEMMA RecordIpKeeps ==
  ASSUME CountersFine, AttemptsFine, NumbersFine, NEW q \in Attempt, RecordIp(q)
  PROVE  CountersFine' /\ AttemptsFine' /\ NumbersFine'
<1>1. Onward /\ CountersFine'
  BY WriteIpKeeps DEF RecordIp
<1>2. NumbersFine'
  BY DEF NumbersFine, RecordIp, Works
<1>3. PICK answer \in Answer : Reply(q, answer)
  BY DEF RecordIp, Answer
<1>4. AttemptsFine'
  BY <1>1, <1>2, <1>3, ReplyKeeps
<1>. QED
  BY <1>1, <1>2, <1>4

LEMMA InterruptKeeps ==
  ASSUME CountersFine, AttemptsFine, NumbersFine, NEW q \in Attempt, Interrupt(q)
  PROVE  CountersFine' /\ AttemptsFine' /\ NumbersFine'
<1>1. clock' = clock
  BY DEF Interrupt
<1>2. Onward /\ CountersFine'
  <2>1. CASE UNCHANGED counters
    BY <1>1, <2>1, QuietIsOnward
  <2>2. CASE At(q, "recording_account") /\ WriteAccount(q)
    BY <1>1, <2>2, WriteAccountKeeps
  <2>3. CASE At(q, "recording_ip") /\ WriteIp(q)
    BY <1>1, <2>3, WriteIpKeeps
  <2>. QED
    BY <2>1, <2>2, <2>3 DEF Interrupt
<1>3. NumbersFine'
  BY MaxFaultsAssumption DEF NumbersFine, Interrupt, Fails
<1>4. Reply(q, "internal")
  BY DEF Interrupt
<1>5. AttemptsFine'
  BY <1>2, <1>3, <1>4, ReplyKeeps DEF Answer
<1>. QED
  BY <1>2, <1>3, <1>5

LEMMA TickKeeps ==
  ASSUME CountersFine, AttemptsFine, NumbersFine, Tick
  PROVE  CountersFine' /\ AttemptsFine' /\ NumbersFine'
<1>1. /\ clock' = clock + 1 /\ accounts' = accounts /\ addresses' = addresses
      /\ wrong' = wrong /\ refused' = refused /\ attempt' = attempt
      /\ tries' = tries /\ faults' = faults
  BY DEF Tick, counters
<1>2. Onward /\ NumbersFine'
  BY <1>1 DEF CountersFine, NumbersFine, Onward
<1>3. \A l \in Lock : Sound(l) => Sound(l)'
  BY <1>2, SoundStays
<1>4. CountersFine'
  BY <1>1, <1>3 DEF CountersFine, Sound
<1>5. \A t \in InProgress : Fine(t) => Fine(t)'
  BY <1>2, FineStays
<1>6. AttemptsFine'
  BY <1>1, <1>5 DEF AttemptsFine, Fine
<1>. QED
  BY <1>2, <1>4, <1>6
(***************************************************************************)
(* The theorems                                                            *)
(***************************************************************************)

LEMMA LoginInit == Init => LoginInvariant
<1>. SUFFICES ASSUME Init PROVE CountersFine /\ AttemptsFine /\ NumbersFine
  BY InvariantParts
<1>1. NumbersFine
  BY DEF Init, FaultsInit, NumbersFine
<1>2. CountersFine
  BY <1>1, ClearIsFine DEF Init, CountersFine
<1>3. Idle(Null, Null, "none") \in InProgress /\ Fine(Idle(Null, Null, "none"))
  BY <1>1, <1>2, AnsweredIsFine DEF Answer
<1>4. AttemptsFine
  BY <1>3 DEF Init, AttemptsFine
<1>. QED
  BY <1>1, <1>2, <1>4

LEMMA LoginStep == LoginInvariant /\ [Next]_state => LoginInvariant'
<1>. SUFFICES ASSUME CountersFine, AttemptsFine, NumbersFine, [Next]_state
              PROVE  CountersFine' /\ AttemptsFine' /\ NumbersFine'
  <2>1. CountersFine' /\ AttemptsFine' /\ NumbersFine' => LoginInvariant'
    BY DEF LoginInvariant, TypeOK, LocksAreSound, AttemptsAreChecked,
           CountersFine, AttemptsFine, NumbersFine, Fine
  <2>. QED
    BY <2>1, InvariantParts
<1>1. CASE Tick
  BY <1>1, TickKeeps
<1>2. ASSUME NEW q \in Attempt, NEW i \in Ip, NEW a \in Account \cup {Null},
             NEW right \in BOOLEAN, Start(q, i, a, right)
      PROVE  CountersFine' /\ AttemptsFine' /\ NumbersFine'
  BY <1>2, StartKeeps
<1>3. ASSUME NEW q \in Attempt, RejectIp(q) PROVE CountersFine' /\ AttemptsFine' /\ NumbersFine'
  BY <1>3, RejectIpKeeps
<1>4. ASSUME NEW q \in Attempt, PassIp(q) PROVE CountersFine' /\ AttemptsFine' /\ NumbersFine'
  BY <1>4, PassIpKeeps
<1>5. ASSUME NEW q \in Attempt, ReadAccount(q) PROVE CountersFine' /\ AttemptsFine' /\ NumbersFine'
  BY <1>5, ReadAccountKeeps
<1>6. ASSUME NEW q \in Attempt, RecordAccount(q) PROVE CountersFine' /\ AttemptsFine' /\ NumbersFine'
  BY <1>6, RecordAccountKeeps
<1>7. ASSUME NEW q \in Attempt, RecordIp(q) PROVE CountersFine' /\ AttemptsFine' /\ NumbersFine'
  BY <1>7, RecordIpKeeps
<1>8. ASSUME NEW q \in Attempt, Interrupt(q) PROVE CountersFine' /\ AttemptsFine' /\ NumbersFine'
  BY <1>8, InterruptKeeps
<1>9. CASE UNCHANGED state
  BY <1>9 DEF state, counters, CountersFine, AttemptsFine, NumbersFine, Fine, Sound
<1>. QED
  BY <1>1, <1>2, <1>3, <1>4, <1>5, <1>6, <1>7, <1>8, <1>9 DEF Next

\* The state of LoginService::login and of both tables always has its type.
THEOREM LoginTypes == Spec => []TypeOK
<1>. QED
  BY LoginInit, LoginStep, PTL DEF Spec, LoginInvariant

\* However attempts overwrite each other's counters (update_lockout and put
\* write what follows from an earlier read), no lock stands below the threshold
\* and none lasts longer than MaxDelay from now.
THEOREM LocksStaySound == Spec => []LocksAreSound
<1>. QED
  BY LoginInit, LoginStep, PTL DEF Spec, LoginInvariant

\* Counters change only by the write of an attempt, which thereby moves on.
LEMMA StepWrites ==
  ASSUME CountersFine, AttemptsFine, NumbersFine, [Next]_state
  PROVE  \/ UNCHANGED counters
         \/ \E q \in Attempt : Steps(q) /\ At(q, "recording_account") /\ WriteAccount(q)
         \/ \E q \in Attempt : Steps(q) /\ At(q, "recording_ip") /\ WriteIp(q)
<1>1. ASSUME NEW q \in Attempt, RecordAccount(q)
      PROVE  Steps(q) /\ At(q, "recording_account") /\ WriteAccount(q)
  <2>1. attempt'[q].stage = "recording_ip" /\ attempt[q].stage = "recording_account"
    BY <1>1 DEF RecordAccount, At, AttemptsFine, InProgress
  <2>. QED
    BY <1>1, <2>1 DEF RecordAccount, Steps
<1>2. ASSUME NEW q \in Attempt, NEW answer \in Answer, Reply(q, answer), ~At(q, "idle")
      PROVE  Steps(q)
  <2>1. attempt'[q].stage = "idle"
    BY <1>2 DEF Reply, AttemptsFine, Idle
  <2>. QED
    BY <1>2, <2>1 DEF At, Steps
<1>3. ASSUME NEW q \in Attempt, RecordIp(q)
      PROVE  Steps(q) /\ At(q, "recording_ip") /\ WriteIp(q)
  <2>1. \E answer \in Answer : Reply(q, answer)
    BY <1>3 DEF RecordIp, Answer
  <2>. QED
    BY <1>2, <1>3, <2>1 DEF RecordIp, At
<1>4. ASSUME NEW q \in Attempt, Interrupt(q)
      PROVE  /\ Steps(q)
             /\ \/ UNCHANGED counters
                \/ At(q, "recording_account") /\ WriteAccount(q)
                \/ At(q, "recording_ip") /\ WriteIp(q)
  BY <1>2, <1>4 DEF Interrupt, Answer
<1>5. CASE \E q \in Attempt : RecordAccount(q) \/ RecordIp(q) \/ Interrupt(q)
  BY <1>1, <1>3, <1>4, <1>5
<1>6. CASE Tick \/ UNCHANGED state
  BY <1>6 DEF Tick, state
<1>7. CASE \E q \in Attempt :
             \/ \E i \in Ip, a \in Account \cup {Null}, right \in BOOLEAN : Start(q, i, a, right)
             \/ RejectIp(q) \/ PassIp(q) \/ ReadAccount(q)
  BY <1>7 DEF Start, RejectIp, PassIp, ReadAccount
<1>. QED
  BY <1>5, <1>6, <1>7 DEF Next

\* A write by an attempt that read what is still there does not touch a lock.
LEMMA StepRespectsLocks ==
  ASSUME CountersFine, AttemptsFine, NumbersFine, [Next]_state
  PROVE  /\ \A a \in Account :
              \/ Holds(accounts[a], accounts'[a])
              \/ \E q \in Attempt : Steps(q) /\ attempt[q].account = a /\ attempt[q].seen # accounts[a]
         /\ \A i \in Ip :
              \/ Holds(addresses[i], addresses'[i])
              \/ \E q \in Attempt : Steps(q) /\ attempt[q].ip = i /\ attempt[q].ipSeen # addresses[i]
<1>1. ASSUME UNCHANGED <<accounts, addresses>>
      PROVE  /\ \A a \in Account : Holds(accounts[a], accounts'[a])
             /\ \A i \in Ip : Holds(addresses[i], addresses'[i])
  BY <1>1, LockFields DEF Holds, CountersFine
<1>2. ASSUME NEW q \in Attempt, Steps(q), At(q, "recording_account"), WriteAccount(q)
      PROVE  /\ \A a \in Account : \/ Holds(accounts[a], accounts'[a])
                                   \/ Steps(q) /\ attempt[q].account = a /\ attempt[q].seen # accounts[a]
             /\ \A i \in Ip : Holds(addresses[i], addresses'[i])
  <2>1. /\ attempt[q] \in InProgress
        /\ attempt[q].seen \in Lock /\ attempt[q].now \in Nat /\ attempt[q].now <= clock
        /\ ~(attempt[q].seen.until > attempt[q].now)
    BY <1>2 DEF AttemptsFine, Fine, At, Decides, IsLocked, InProgress
  <2>2. attempt[q].seen.until <= clock
    BY <2>1, LockFields DEF NumbersFine
  <2>3. ASSUME NEW a \in Account, a # attempt[q].account PROVE Holds(accounts[a], accounts'[a])
    BY <1>2, <2>3, LockFields DEF WriteAccount, CountersFine, Holds
  <2>4. ASSUME NEW a \in Account, attempt[q].seen = accounts[a] PROVE Holds(accounts[a], accounts'[a])
    BY <2>1, <2>2, <2>4, LockFields DEF Holds, NumbersFine
  <2>5. \A i \in Ip : Holds(addresses[i], addresses'[i])
    BY <1>2, LockFields DEF WriteAccount, Holds, CountersFine
  <2>. QED
    BY <1>2, <2>3, <2>4, <2>5
<1>3. ASSUME NEW q \in Attempt, Steps(q), At(q, "recording_ip"), WriteIp(q)
      PROVE  /\ \A i \in Ip : \/ Holds(addresses[i], addresses'[i])
                              \/ Steps(q) /\ attempt[q].ip = i /\ attempt[q].ipSeen # addresses[i]
             /\ \A a \in Account : Holds(accounts[a], accounts'[a])
  <2>1. /\ attempt[q] \in InProgress
        /\ attempt[q].ipSeen \in Lock /\ attempt[q].now \in Nat /\ attempt[q].now <= clock
        /\ ~(attempt[q].ipSeen.until > attempt[q].now)
    BY <1>3 DEF AttemptsFine, Fine, IsLocked, InProgress
  <2>2. attempt[q].ipSeen.until <= clock
    BY <2>1, LockFields DEF NumbersFine
  <2>3. ASSUME NEW i \in Ip, i # attempt[q].ip PROVE Holds(addresses[i], addresses'[i])
    BY <1>3, <2>3, LockFields DEF WriteIp, CountersFine, Holds
  <2>4. ASSUME NEW i \in Ip, attempt[q].ipSeen = addresses[i] PROVE Holds(addresses[i], addresses'[i])
    BY <2>1, <2>2, <2>4, LockFields DEF Holds, NumbersFine
  <2>5. \A a \in Account : Holds(accounts[a], accounts'[a])
    BY <1>3, LockFields DEF WriteIp, Holds, CountersFine
  <2>. QED
    BY <1>3, <2>3, <2>4, <2>5
<1>4. UNCHANGED counters => UNCHANGED <<accounts, addresses>>
  BY DEF counters
<1>. QED
  BY <1>1, <1>2, <1>3, <1>4, StepWrites

\* A standing lock is lifted or shortened only by an attempt that read the
\* counters before another attempt wrote them, as login may, because it holds
\* them across the slow password check.
THEOREM OnlyStaleAttemptsLift == Spec => LockHoldsUnlessStale
<1>1. LoginInvariant /\ [Next]_state =>
        [/\ \A a \in Account :
               \/ Holds(accounts[a], accounts'[a])
               \/ \E q \in Attempt : Steps(q) /\ attempt[q].account = a /\ attempt[q].seen # accounts[a]
         /\ \A i \in Ip :
               \/ Holds(addresses[i], addresses'[i])
               \/ \E q \in Attempt : Steps(q) /\ attempt[q].ip = i /\ attempt[q].ipSeen # addresses[i]]_state
  BY InvariantParts, StepRespectsLocks
<1>. QED
  BY <1>1, LoginInit, LoginStep, PTL DEF Spec, LockHoldsUnlessStale

\* A write by an attempt that read what is still there counts one failure, or
\* none after a success.
LEMMA StepEarns ==
  ASSUME CountersFine, AttemptsFine, NumbersFine, [Next]_state
  PROVE  /\ \A a \in Account :
              \/ Earned(accounts[a], wrong[a], accounts'[a], wrong'[a])
              \/ \E q \in Attempt : Steps(q) /\ attempt[q].account = a /\ attempt[q].seen # accounts[a]
         /\ \A i \in Ip :
              \/ Earned(addresses[i], refused[i], addresses'[i], refused'[i])
              \/ \E q \in Attempt : Steps(q) /\ attempt[q].ip = i /\ attempt[q].ipSeen # addresses[i]
<1>0. /\ \A a \in Account : accounts[a].failed \in Nat /\ wrong[a] \in Nat
      /\ \A i \in Ip : addresses[i].failed \in Nat /\ refused[i] \in Nat
  BY LockFields DEF CountersFine
<1>1. /\ \A a \in Account : accounts'[a] = accounts[a] /\ wrong'[a] = wrong[a]
                             => Earned(accounts[a], wrong[a], accounts'[a], wrong'[a])
      /\ \A i \in Ip : addresses'[i] = addresses[i] /\ refused'[i] = refused[i]
                        => Earned(addresses[i], refused[i], addresses'[i], refused'[i])
  BY <1>0 DEF Earned
<1>2. CASE UNCHANGED counters
  BY <1>1, <1>2 DEF counters
<1>3. ASSUME NEW q \in Attempt, Steps(q), At(q, "recording_account"), WriteAccount(q)
      PROVE  /\ \A a \in Account : \/ Earned(accounts[a], wrong[a], accounts'[a], wrong'[a])
                                   \/ attempt[q].account = a /\ attempt[q].seen # accounts[a]
             /\ \A i \in Ip : Earned(addresses[i], refused[i], addresses'[i], refused'[i])
  <2>. DEFINE r == attempt[q]
  <2>1. r.seen \in Lock /\ r.now \in Nat /\ r.account \in Account
    BY <1>3 DEF AttemptsFine, Fine, At, Decides, InProgress
  <2>2. \A a \in Account : a # r.account => accounts'[a] = accounts[a] /\ wrong'[a] = wrong[a]
    BY <1>3 DEF WriteAccount, CountersFine
  <2>3. /\ accounts'[r.account] = Saved(IF r.right THEN Clear ELSE RegisterFailure(r.seen, r.now))
        /\ wrong'[r.account] = IF r.right THEN 0 ELSE wrong[r.account] + 1
    BY <1>3, <2>1 DEF WriteAccount, CountersFine
  <2>4. CASE r.right
    <3>1. accounts'[r.account].failed = 0 /\ wrong'[r.account] = 0
      BY <2>3, <2>4, LockFields DEF Clear
    <3>. QED
      BY <1>1, <1>3, <2>2, <3>1 DEF Earned, WriteAccount
  <2>5. CASE ~r.right
    <3>1. accounts'[r.account].failed = r.seen.failed + 1 /\ wrong'[r.account] = wrong[r.account] + 1
      BY <2>1, <2>3, <2>5, FailureIsSound
    <3>2. r.seen = accounts[r.account] =>
            Earned(accounts[r.account], wrong[r.account], accounts'[r.account], wrong'[r.account])
      BY <1>0, <2>1, <3>1 DEF Earned
    <3>. QED
      BY <1>1, <1>3, <2>2, <3>2 DEF WriteAccount
  <2>. QED
    BY <2>4, <2>5
<1>4. ASSUME NEW q \in Attempt, Steps(q), At(q, "recording_ip"), WriteIp(q)
      PROVE  /\ \A a \in Account : Earned(accounts[a], wrong[a], accounts'[a], wrong'[a])
             /\ \A i \in Ip : \/ Earned(addresses[i], refused[i], addresses'[i], refused'[i])
                              \/ attempt[q].ip = i /\ attempt[q].ipSeen # addresses[i]
  <2>. DEFINE r == attempt[q]
  <2>1. r.ipSeen \in Lock /\ r.now \in Nat /\ r.ip \in Ip
    BY <1>4 DEF AttemptsFine, Fine, At, InProgress
  <2>2. \A i \in Ip : i # r.ip => addresses'[i] = addresses[i] /\ refused'[i] = refused[i]
    BY <1>4 DEF WriteIp, CountersFine
  <2>3. /\ addresses'[r.ip] = Saved(IF SignsIn(r) THEN Clear ELSE RegisterFailure(r.ipSeen, r.now))
        /\ refused'[r.ip] = IF SignsIn(r) THEN 0 ELSE refused[r.ip] + 1
    BY <1>4, <2>1 DEF WriteIp, CountersFine
  <2>4. CASE SignsIn(r)
    <3>1. addresses'[r.ip].failed = 0 /\ refused'[r.ip] = 0
      BY <2>3, <2>4, LockFields DEF Clear
    <3>. QED
      BY <1>1, <1>4, <2>2, <3>1 DEF Earned, WriteIp
  <2>5. CASE ~SignsIn(r)
    <3>1. addresses'[r.ip].failed = r.ipSeen.failed + 1 /\ refused'[r.ip] = refused[r.ip] + 1
      BY <2>1, <2>3, <2>5, FailureIsSound
    <3>2. r.ipSeen = addresses[r.ip] =>
            Earned(addresses[r.ip], refused[r.ip], addresses'[r.ip], refused'[r.ip])
      BY <1>0, <2>1, <3>1 DEF Earned
    <3>. QED
      BY <1>1, <1>4, <2>2, <3>2 DEF WriteIp
  <2>. QED
    BY <2>4, <2>5
<1>. QED
  BY <1>2, <1>3, <1>4, StepWrites

\* The counters are of consecutive failures since the last success, except where
\* an attempt writes back what another's success has cleared since it read.
THEOREM OnlyStaleAttemptsInvent == Spec => EarnedUnlessStale
<1>1. LoginInvariant /\ [Next]_state =>
        [/\ \A a \in Account :
               \/ Earned(accounts[a], wrong[a], accounts'[a], wrong'[a])
               \/ \E q \in Attempt : Steps(q) /\ attempt[q].account = a /\ attempt[q].seen # accounts[a]
         /\ \A i \in Ip :
               \/ Earned(addresses[i], refused[i], addresses'[i], refused'[i])
               \/ \E q \in Attempt : Steps(q) /\ attempt[q].ip = i /\ attempt[q].ipSeen # addresses[i]]_state
  BY InvariantParts, StepEarns
<1>. QED
  BY <1>1, LoginInit, LoginStep, PTL DEF Spec, EarnedUnlessStale

(***************************************************************************)
(* Who signs in                                                            *)
(***************************************************************************)

\* An attempt that is let in had the right password, and when it read them
\* neither its account nor its address was locked.
Verified(q) ==
  LET r == attempt[q] IN
  attempt'[q].answer = "ok" /\ r.answer # "ok" =>
    /\ r.account # Null /\ r.right
    /\ ~IsLocked(r.seen, r.now) /\ ~IsLocked(r.ipSeen, r.now)

LEMMA StepVerifies ==
  ASSUME LoginInvariant, [Next]_state
  PROVE  \A q \in Attempt : Verified(q)
<1>0. attempt \in [Attempt -> InProgress] /\ \A q \in Attempt : ~IsLocked(attempt[q].ipSeen, attempt[q].now)
  BY DEF LoginInvariant, TypeOK, AttemptsAreChecked
<1>1. ASSUME NEW p \in Attempt, NEW r, attempt' = [attempt EXCEPT ![p] = r],
             r.answer = "ok" => attempt[p].answer = "ok"
      PROVE  \A q \in Attempt : Verified(q)
  BY <1>0, <1>1 DEF Verified
<1>2. ASSUME NEW p \in Attempt, NEW answer, answer # "ok", Reply(p, answer)
      PROVE  \A q \in Attempt : Verified(q)
  <2>. DEFINE r == Idle(attempt[p].ip, attempt[p].account, answer)
  <2>1. attempt' = [attempt EXCEPT ![p] = r] /\ r.answer = answer
    BY <1>0, <1>2 DEF Reply, Idle
  <2>. HIDE DEF r
  <2>. QED
    BY <1>1, <1>2, <2>1
<1>3. ASSUME NEW p \in Attempt, NEW i, NEW a, NEW right, Start(p, i, a, right)
      PROVE  \A q \in Attempt : Verified(q)
  BY <1>1, <1>3 DEF Start
<1>4. ASSUME NEW p \in Attempt, PassIp(p) \/ ReadAccount(p) \/ RecordAccount(p)
      PROVE  \A q \in Attempt : Verified(q)
  <2>1. /\ attempt' = [attempt EXCEPT ![p] = attempt'[p]]
        /\ attempt'[p].answer = attempt[p].answer
    <3>1. CASE PassIp(p)
      BY <1>0, <3>1 DEF PassIp, InProgress
    <3>2. CASE ReadAccount(p)
      BY <1>0, <3>2 DEF ReadAccount, InProgress
    <3>3. CASE RecordAccount(p)
      BY <1>0, <3>3 DEF RecordAccount, InProgress
    <3>. QED
      BY <1>4, <3>1, <3>2, <3>3
  <2>. QED
    BY <1>1, <2>1
<1>5. ASSUME NEW p \in Attempt, RejectIp(p) \/ Interrupt(p)
      PROVE  \A q \in Attempt : Verified(q)
  BY <1>2, <1>5 DEF RejectIp, Interrupt
<1>6. ASSUME NEW p \in Attempt, RecordIp(p)
      PROVE  \A q \in Attempt : Verified(q)
  <2>1. CASE SignsIn(attempt[p])
    <3>1. \A q \in Attempt : q # p => attempt'[q] = attempt[q]
      BY <1>0, <1>6 DEF RecordIp, Reply
    <3>2. Verified(p)
      BY <1>0, <2>1 DEF Verified, SignsIn, Decides
    <3>3. \A q \in Attempt : q # p => Verified(q)
      BY <3>1 DEF Verified
    <3>. QED
      BY <3>2, <3>3
  <2>2. CASE ~SignsIn(attempt[p])
    BY <1>2, <1>6, <2>2 DEF RecordIp
  <2>. QED
    BY <2>1, <2>2
<1>7. CASE Tick \/ UNCHANGED state
  BY <1>7 DEF Tick, state, Verified
<1>. QED
  BY <1>3, <1>4, <1>5, <1>6, <1>7 DEF Next

\* However attempts interleave, LoginService::login answers Ok only to the right
\* password of an account that was not locked when the attempt read its row, from
\* an address that was not locked when it read that.
THEOREM SignInsAreVerified == Spec => [][\A q \in Attempt : Verified(q)]_state
<1>1. LoginInvariant /\ [Next]_state => [\A q \in Attempt : Verified(q)]_state
  BY StepVerifies
<1>. QED
  BY <1>1, LoginInit, LoginStep, PTL DEF Spec

(***************************************************************************)
(* Attempts that do not overlap                                            *)
(***************************************************************************)

\* No two attempts under way are about one account or from one address.
AttemptsApart ==
  \A p, q \in Attempt :
    ~At(p, "idle") /\ ~At(q, "idle") /\ p # q =>
      /\ attempt[p].ip # attempt[q].ip
      /\ attempt[p].account = attempt[q].account => attempt[p].account = Null

\* What an attempt has read and not yet written back is still stored.
ReadsAreCurrent ==
  \A q \in Attempt :
    LET r == attempt[q] IN
      /\ r.stage \in {"reading_account", "recording_account", "recording_ip"} =>
           r.ipSeen = addresses[r.ip]
      /\ r.stage = "recording_account" => r.seen = accounts[r.account]

\* Every count is that of the failures since the last success.
CountsAreExact ==
  /\ \A a \in Account : accounts[a].failed = wrong[a]
  /\ \A i \in Ip : addresses[i].failed = refused[i]

\* No lock is lifted before its time.
LocksHold ==
  /\ \A a \in Account : Holds(accounts[a], accounts'[a])
  /\ \A i \in Ip : Holds(addresses[i], addresses'[i])

LEMMA WritesAre ==
  ASSUME LoginInvariant, NEW q \in Attempt
  PROVE  /\ RecordAccount(q) => At(q, "recording_account") /\ WriteAccount(q)
         /\ RecordIp(q) => At(q, "recording_ip") /\ WriteIp(q)
         /\ Interrupt(q) => \/ UNCHANGED counters
                            \/ At(q, "recording_account") /\ WriteAccount(q)
                            \/ At(q, "recording_ip") /\ WriteIp(q)
BY DEF RecordAccount, RecordIp, Interrupt

\* Another attempt's write does not touch what an attempt has read.
LEMMA OthersReadsStay ==
  ASSUME LoginInvariant, AttemptsApart, ReadsAreCurrent,
         NEW p \in Attempt, NEW q \in Attempt, p # q, attempt'[q] = attempt[q],
         \/ UNCHANGED counters
         \/ At(p, "recording_account") /\ WriteAccount(p)
         \/ At(p, "recording_ip") /\ WriteIp(p)
  PROVE  LET r == attempt'[q] IN
           /\ r.stage \in {"reading_account", "recording_account", "recording_ip"} =>
                r.ipSeen = addresses'[r.ip]
           /\ r.stage = "recording_account" => r.seen = accounts'[r.account]
<1>. DEFINE r == attempt[q]
<1>1. /\ r.stage \in {"reading_account", "recording_account", "recording_ip"} =>
           r.ipSeen = addresses[r.ip] /\ r.ip \in Ip
      /\ r.stage = "recording_account" => r.seen = accounts[r.account] /\ r.account \in Account
  BY DEF ReadsAreCurrent, LoginInvariant, AttemptsAreChecked, Decides, TypeOK, InProgress
<1>2. ~At(p, "idle") /\ r.stage # "idle" =>
        r.ip # attempt[p].ip /\ (r.account = attempt[p].account => r.account = Null)
  BY DEF AttemptsApart, At
<1>3. CASE UNCHANGED counters
  BY <1>1, <1>3 DEF counters
<1>4. CASE At(p, "recording_account") /\ WriteAccount(p)
  <2>1. UNCHANGED addresses /\ (r.stage = "recording_account" => accounts'[r.account] = accounts[r.account])
    BY <1>1, <1>2, <1>4, LoginAssumption DEF WriteAccount, At, LoginInvariant, TypeOK
  <2>. QED
    BY <1>1, <2>1
<1>5. CASE At(p, "recording_ip") /\ WriteIp(p)
  <2>1. UNCHANGED accounts
    BY <1>5 DEF WriteIp
  <2>2. r.stage # "idle" /\ r.ip \in Ip => addresses'[r.ip] = addresses[r.ip]
    BY <1>2, <1>5 DEF WriteIp, At, LoginInvariant, TypeOK
  <2>. QED
    BY <1>1, <2>1, <2>2
<1>. QED
  BY <1>3, <1>4, <1>5

\* The step of one attempt keeps what all have read.
LEMMA ReadsStayCurrent ==
  ASSUME LoginInvariant, AttemptsApart, ReadsAreCurrent, [Next]_state
  PROVE  ReadsAreCurrent'
<1>0. attempt \in [Attempt -> InProgress]
  BY DEF LoginInvariant, TypeOK
<1>1. ASSUME NEW p \in Attempt, NEW r, attempt' = [attempt EXCEPT ![p] = r],
             \/ UNCHANGED counters
             \/ At(p, "recording_account") /\ WriteAccount(p)
             \/ At(p, "recording_ip") /\ WriteIp(p),
             /\ r.stage \in {"reading_account", "recording_account", "recording_ip"} =>
                  r.ipSeen = addresses'[r.ip]
             /\ r.stage = "recording_account" => r.seen = accounts'[r.account]
      PROVE  ReadsAreCurrent'
  <2>1. attempt'[p] = r /\ \A q \in Attempt : q # p => attempt'[q] = attempt[q]
    BY <1>0, <1>1
  <2>2. ASSUME NEW q \in Attempt, q # p
        PROVE  LET s == attempt'[q] IN
                 /\ s.stage \in {"reading_account", "recording_account", "recording_ip"} =>
                      s.ipSeen = addresses'[s.ip]
                 /\ s.stage = "recording_account" => s.seen = accounts'[s.account]
    BY <1>1, <2>1, <2>2, OthersReadsStay
  <2>. QED
    BY <1>1, <2>1, <2>2 DEF ReadsAreCurrent
<1>2. ASSUME NEW p \in Attempt, NEW answer, Reply(p, answer),
             \/ UNCHANGED counters
             \/ At(p, "recording_account") /\ WriteAccount(p)
             \/ At(p, "recording_ip") /\ WriteIp(p)
      PROVE  ReadsAreCurrent'
  <2>. DEFINE r == Idle(attempt[p].ip, attempt[p].account, answer)
  <2>1. attempt' = [attempt EXCEPT ![p] = r] /\ r.stage = "idle"
    BY <1>0, <1>2 DEF Reply, Idle
  <2>. HIDE DEF r
  <2>. QED
    BY <1>1, <1>2, <2>1
<1>3. ASSUME NEW p \in Attempt, NEW i, NEW a, NEW right, Start(p, i, a, right)
      PROVE  ReadsAreCurrent'
  BY <1>1, <1>3 DEF Start
<1>4. ASSUME NEW p \in Attempt, PassIp(p)
      PROVE  ReadsAreCurrent'
  <2>. DEFINE r == [attempt[p] EXCEPT !.stage = "reading_account", !.ipSeen = addresses[attempt[p].ip]]
  <2>1. attempt' = [attempt EXCEPT ![p] = r] /\ UNCHANGED counters
    BY <1>4 DEF PassIp
  <2>2. r.stage = "reading_account" /\ r.ip = attempt[p].ip /\ r.ipSeen = addresses'[r.ip]
    BY <1>0, <2>1 DEF InProgress, counters
  <2>. HIDE DEF r
  <2>. QED
    BY <1>1, <2>1, <2>2
<1>5. ASSUME NEW p \in Attempt, ReadAccount(p)
      PROVE  ReadsAreCurrent'
  <2>1. PICK seen : /\ seen = IF attempt[p].account = Null THEN Clear ELSE accounts[attempt[p].account]
    OBVIOUS
  <2>. DEFINE s == [attempt[p] EXCEPT !.seen = seen]
              r == [s EXCEPT !.stage = IF Decides(s) THEN "recording_account" ELSE "recording_ip"]
  <2>2. attempt' = [attempt EXCEPT ![p] = r] /\ UNCHANGED counters /\ At(p, "reading_account")
    BY <1>5, <2>1 DEF ReadAccount
  <2>3. /\ r.ip = attempt[p].ip /\ r.ipSeen = attempt[p].ipSeen /\ r.seen = seen
        /\ r.account = attempt[p].account
        /\ r.stage = "recording_account" => r.account # Null
    BY <1>0 DEF InProgress, Decides
  <2>4. attempt[p].ipSeen = addresses[attempt[p].ip]
    BY <2>2 DEF ReadsAreCurrent, At
  <2>. HIDE DEF r
  <2>. QED
    BY <1>1, <2>1, <2>2, <2>3, <2>4 DEF counters
<1>6. ASSUME NEW p \in Attempt, RecordAccount(p)
      PROVE  ReadsAreCurrent'
  <2>. DEFINE r == [attempt[p] EXCEPT !.stage = "recording_ip"]
  <2>1. attempt' = [attempt EXCEPT ![p] = r] /\ At(p, "recording_account") /\ WriteAccount(p)
    BY <1>6 DEF RecordAccount
  <2>2. r.stage = "recording_ip" /\ r.ip = attempt[p].ip /\ r.ipSeen = attempt[p].ipSeen
    BY <1>0 DEF InProgress
  <2>3. attempt[p].ipSeen = addresses'[attempt[p].ip]
    BY <2>1 DEF ReadsAreCurrent, At, WriteAccount
  <2>. HIDE DEF r
  <2>. QED
    BY <1>1, <2>1, <2>2, <2>3
<1>7. ASSUME NEW p \in Attempt, RejectIp(p) \/ RecordIp(p) \/ Interrupt(p)
      PROVE  ReadsAreCurrent'
  <2>1. \E answer : Reply(p, answer)
    BY <1>7 DEF RejectIp, RecordIp, Interrupt
  <2>2. RejectIp(p) => UNCHANGED counters
    BY DEF RejectIp
  <2>. QED
    BY <1>2, <1>7, <2>1, <2>2, WritesAre
<1>8. CASE Tick \/ UNCHANGED state
  BY <1>8 DEF Tick, state, counters, ReadsAreCurrent
<1>. QED
  BY <1>3, <1>4, <1>5, <1>6, <1>7, <1>8 DEF Next


\* Whoever writes what follows from what is stored lifts no lock, loses no
\* failure and brings none back.
LEMMA CurrentWritesLoseNothing ==
  ASSUME LoginInvariant, ReadsAreCurrent, CountsAreExact, [Next]_state
  PROVE  LocksHold /\ CountsAreExact'
<1>0. /\ accounts \in [Account -> Lock] /\ addresses \in [Ip -> Lock]
      /\ wrong \in [Account -> Nat] /\ refused \in [Ip -> Nat] /\ clock \in Nat
      /\ attempt \in [Attempt -> InProgress]
  BY DEF LoginInvariant, TypeOK
<1>1. ASSUME NEW lock \in Lock PROVE Holds(lock, lock)
  BY <1>1, LockFields DEF Holds
<1>2. ASSUME NEW lock \in Lock, NEW after, NEW now \in Nat, now <= clock, ~IsLocked(lock, now)
      PROVE  Holds(lock, after)
  BY <1>0, <1>2, LockFields DEF Holds, IsLocked
<1>3. CASE UNCHANGED counters
  BY <1>0, <1>1, <1>3 DEF counters, LocksHold, CountsAreExact
<1>4. ASSUME NEW q \in Attempt, At(q, "recording_account"), WriteAccount(q)
      PROVE  LocksHold /\ CountsAreExact'
  <2>. DEFINE r == attempt[q]
  <2>1. /\ r.seen = accounts[r.account] /\ r.account \in Account /\ r.seen \in Lock
        /\ r.now \in Nat /\ r.now <= clock /\ ~IsLocked(r.seen, r.now)
    BY <1>0, <1>4 DEF At, ReadsAreCurrent, LoginInvariant, AttemptsAreChecked, Decides, InProgress
  <2>2. Holds(accounts[r.account], accounts'[r.account])
    BY <1>2, <2>1
  <2>3. accounts'[r.account].failed = wrong'[r.account]
    <3>1. CASE r.right
      BY <1>0, <1>4, <2>1, <3>1, LockFields DEF WriteAccount, Clear
    <3>2. CASE ~r.right
      <4>1. accounts'[r.account] = Saved(RegisterFailure(r.seen, r.now)) /\ wrong'[r.account] = wrong[r.account] + 1
        BY <1>0, <1>4, <2>1, <3>2 DEF WriteAccount
      <4>2. accounts'[r.account].failed = r.seen.failed + 1
        BY <2>1, <4>1, FailureIsSound
      <4>. QED
        BY <2>1, <4>1, <4>2 DEF CountsAreExact
    <3>. QED
      BY <3>1, <3>2
  <2>4. \A a \in Account : a # r.account => accounts'[a] = accounts[a] /\ wrong'[a] = wrong[a]
    BY <1>0, <1>4 DEF WriteAccount
  <2>5. UNCHANGED <<addresses, refused>>
    BY <1>4 DEF WriteAccount
  <2>. QED
    BY <1>0, <1>1, <2>2, <2>3, <2>4, <2>5 DEF LocksHold, CountsAreExact
<1>5. ASSUME NEW q \in Attempt, At(q, "recording_ip"), WriteIp(q)
      PROVE  LocksHold /\ CountsAreExact'
  <2>. DEFINE r == attempt[q]
  <2>1. /\ r.ipSeen = addresses[r.ip] /\ r.ip \in Ip /\ r.ipSeen \in Lock
        /\ r.now \in Nat /\ r.now <= clock /\ ~IsLocked(r.ipSeen, r.now)
    BY <1>0, <1>5 DEF At, ReadsAreCurrent, LoginInvariant, AttemptsAreChecked, InProgress
  <2>2. Holds(addresses[r.ip], addresses'[r.ip])
    BY <1>2, <2>1
  <2>3. addresses'[r.ip].failed = refused'[r.ip]
    <3>1. CASE SignsIn(r)
      BY <1>0, <1>5, <2>1, <3>1, LockFields DEF WriteIp, Clear
    <3>2. CASE ~SignsIn(r)
      <4>1. addresses'[r.ip] = Saved(RegisterFailure(r.ipSeen, r.now)) /\ refused'[r.ip] = refused[r.ip] + 1
        BY <1>0, <1>5, <2>1, <3>2 DEF WriteIp
      <4>2. addresses'[r.ip].failed = r.ipSeen.failed + 1
        BY <2>1, <4>1, FailureIsSound
      <4>. QED
        BY <2>1, <4>1, <4>2 DEF CountsAreExact
    <3>. QED
      BY <3>1, <3>2
  <2>4. \A i \in Ip : i # r.ip => addresses'[i] = addresses[i] /\ refused'[i] = refused[i]
    BY <1>0, <1>5 DEF WriteIp
  <2>5. UNCHANGED <<accounts, wrong>>
    BY <1>5 DEF WriteIp
  <2>. QED
    BY <1>0, <1>1, <2>2, <2>3, <2>4, <2>5 DEF LocksHold, CountsAreExact
<1>6. CASE Tick \/ UNCHANGED state
  BY <1>3, <1>6 DEF Tick, state, counters
<1>7. ASSUME NEW q \in Attempt,
             \/ \E i \in Ip, a \in Account \cup {Null}, right \in BOOLEAN : Start(q, i, a, right)
             \/ RejectIp(q) \/ PassIp(q) \/ ReadAccount(q)
      PROVE  LocksHold /\ CountsAreExact'
  BY <1>3, <1>7 DEF Start, RejectIp, PassIp, ReadAccount, counters
<1>8. ASSUME NEW q \in Attempt, RecordAccount(q) \/ RecordIp(q) \/ Interrupt(q)
      PROVE  LocksHold /\ CountsAreExact'
  BY <1>3, <1>4, <1>5, <1>8, WritesAre
<1>. QED
  BY <1>6, <1>7, <1>8 DEF Next

\* The overlap of attempts is the only reason why login may lift a lock early,
\* lose a failure or bring one back: while no two attempts under way share an
\* account or an address, the counters are exactly the consecutive failures since
\* the last success and every lock holds, also through interrupted attempts and
\* lost acknowledgements.
THEOREM ApartAttemptsLoseNothing ==
  Spec /\ []AttemptsApart => []CountsAreExact /\ [][LocksHold]_state
<1>1. Init => LoginInvariant /\ ReadsAreCurrent /\ CountsAreExact
  BY LoginInit DEF Init, ReadsAreCurrent, Idle, CountsAreExact, Clear
<1>2. LoginInvariant /\ ReadsAreCurrent /\ AttemptsApart /\ [Next]_state => (LoginInvariant /\ ReadsAreCurrent)'
  BY LoginStep, ReadsStayCurrent
<1>3. LoginInvariant /\ ReadsAreCurrent /\ CountsAreExact /\ [Next]_state => CountsAreExact' /\ [LocksHold]_state
  BY CurrentWritesLoseNothing
<1>. QED
  BY <1>1, <1>2, <1>3, PTL DEF Spec
=============================================================================
