--------------------------- MODULE FrontDoorProofs ---------------------------
(***************************************************************************)
(* Proofs about FrontDoor for any requests, accounts and addresses, any    *)
(* limits and lockout policy, any lag of a handler and any fault budget:   *)
(* what the limiter lets through, what the trail says, and that the login  *)
(* service keeps its invariant behind the door.                            *)
(***************************************************************************)
EXTENDS FrontDoor, LoginProofs

(***************************************************************************)
(* One window and its log of admissions                                    *)
(***************************************************************************)

WindowRecord == [count : Nat, started : Nat]

Charged(w) == IF w.count < MaxRequests THEN w.count ELSE MaxRequests

\* WindowIsSound, for any window, log and time.
Fits(w, log, time) ==
  /\ w.count = 0 => log = <<>>
  /\ w.count > 0 => w.started <= time
  /\ Charged(w) <= Len(log)
  /\ \A i \in DOMAIN log :
       /\ log[i] <= time
       /\ i > Len(log) - Charged(w) => log[i] >= w.started
       /\ i <= Len(log) - Charged(w) => log[i] <= w.started + MaxLag
       /\ i <= (Len(log) - Charged(w)) - MaxRequests => log[i] + Window <= w.started + MaxLag

\* AtMostTwoWindows, for any log.
Apart(log) ==
  \A i \in DOMAIN log :
    i + 2 * MaxRequests \in DOMAIN log => log[i + 2 * MaxRequests] - log[i] >= Window - MaxLag

\* What a window is after a request: a new one, or one request more.
Reopened(w, now) == w.count = 0 \/ Window = 0 \/ w.started + Window <= now
Renewed(w, v, now) == Reopened(w, now) /\ v = [count |-> 1, started |-> now]
Extended(w, v, now) ==
  /\ w.count > 0 /\ Window > 0 /\ now < w.started + Window
  /\ v = [count |-> w.count + 1, started |-> w.started]

LEMMA CountedIs ==
  ASSUME NEW k \in Key, NEW now \in Nat, windows[k] \in WindowRecord
  PROVE  /\ Renewed(windows[k], Counted(k, now), now) \/ Extended(windows[k], Counted(k, now), now)
         /\ Counted(k, now) \in WindowRecord
<1>. DEFINE w == windows[k]
<1>1. w.count \in Nat /\ w.started \in Nat /\ w = [count |-> w.count, started |-> w.started]
  BY DEF WindowRecord
<1>2. CASE w.count = 0 \/ Elapsed(w, now) >= Window
  <2>1. Counted(k, now) = [count |-> 1, started |-> now]
    BY <1>2 DEF Counted, Rolled
  <2>2. Reopened(w, now)
    BY <1>1, <1>2, LimiterAssumption DEF Elapsed, Reopened
  <2>. QED
    BY <2>1, <2>2 DEF Renewed, WindowRecord
<1>3. CASE ~(w.count = 0 \/ Elapsed(w, now) >= Window)
  <2>1. Rolled(w, now) = w
    BY <1>3 DEF Rolled
  <2>2. Counted(k, now) = [count |-> w.count + 1, started |-> w.started]
    BY <1>1, <2>1 DEF Counted
  <2>3. w.count > 0 /\ Window > 0 /\ now < w.started + Window
    BY <1>1, <1>3, LimiterAssumption DEF Elapsed
  <2>. QED
    BY <1>1, <2>2, <2>3 DEF Extended, WindowRecord
<1>. QED
  BY <1>2, <1>3

LEMMA ChargedIs ==
  ASSUME NEW w \in WindowRecord
  PROVE  /\ Charged(w) \in 0 .. MaxRequests
         /\ w.count <= MaxRequests => Charged(w) = w.count
         /\ w.count > MaxRequests => Charged(w) = MaxRequests
BY LimiterAssumption DEF Charged, WindowRecord

\* Admissions that lie in the log stay apart when another one is added.
LEMMA ApartStays ==
  ASSUME NEW log \in Seq(Nat), NEW time, Apart(log),
         NEW i \in 1 .. Len(log) + 1, i + 2 * MaxRequests \in 1 .. Len(log)
  PROVE  Append(log, time)[i + 2 * MaxRequests] - Append(log, time)[i] >= Window - MaxLag
<1>1. MaxRequests \in Nat /\ Len(log) \in Nat
  BY LimiterAssumption
<1>2. PICK j : j = i + 2 * MaxRequests
  OBVIOUS
<1>3. i \in DOMAIN log /\ j \in DOMAIN log
  BY <1>1, <1>2
<1>4. log[j] - log[i] >= Window - MaxLag
  BY <1>2, <1>3 DEF Apart
<1>5. Append(log, time)[j] = log[j] /\ Append(log, time)[i] = log[i]
  BY <1>3
<1>. QED
  BY <1>2, <1>4, <1>5

\* An admission keeps log and window sound, and the log apart.
LEMMA AdmissionFits ==
  ASSUME NEW w \in WindowRecord, NEW v \in WindowRecord, NEW log \in Seq(Nat),
         NEW time \in Nat, NEW now \in Nat, now <= time, time <= now + MaxLag,
         Fits(w, log, time), Apart(log),
         Renewed(w, v, now) \/ Extended(w, v, now), v.count <= MaxRequests
  PROVE  Fits(v, Append(log, time), time) /\ Apart(Append(log, time))
<1>. DEFINE more == Append(log, time)
            n == Len(log)
<1>0. /\ n \in Nat /\ DOMAIN log = 1 .. n /\ Len(more) = n + 1 /\ DOMAIN more = 1 .. n + 1
      /\ \A i \in 1 .. n : more[i] = log[i] /\ log[i] \in Nat
      /\ more[n + 1] = time
  OBVIOUS
<1>1. /\ w.count \in Nat /\ w.started \in Nat /\ v.count \in Nat /\ v.started \in Nat
      /\ Charged(w) \in 0 .. MaxRequests /\ Charged(v) = v.count
  BY ChargedIs DEF WindowRecord
<1>2. Charged(w) <= n
  BY DEF Fits
<1>3. v.count > 0 /\ v.started <= time
  BY <1>1 DEF Renewed, Extended, Fits
<1>4. MaxRequests \in Nat /\ Window \in Nat /\ MaxLag \in Nat
  BY LimiterAssumption, FrontDoorAssumption
<1>5. CASE Renewed(w, v, now)
  <2>1. v.count = 1 /\ v.started = now
    BY <1>5 DEF Renewed
  <2>2. ASSUME NEW i \in 1 .. n
        PROVE  /\ log[i] <= now + MaxLag
               /\ i <= n - MaxRequests => log[i] + Window <= now + MaxLag
    <3>1. log[i] <= time /\ log[i] \in Nat
      BY <1>0, <2>2 DEF Fits
    <3>2. CASE w.count = 0
      BY <1>0, <2>2, <3>2 DEF Fits
    <3>3. CASE Window = 0
      BY <1>4, <3>1, <3>3
    <3>4. CASE w.started + Window <= now
      <4>1. i <= n - MaxRequests => i <= n - Charged(w)
        BY <1>0, <1>1, <1>4
      <4>2. i <= n - MaxRequests => log[i] <= w.started + MaxLag
        BY <1>0, <2>2, <4>1 DEF Fits
      <4>3. PICK x \in Nat : x = log[i]
        BY <3>1
      <4>4. x <= w.started + MaxLag => x + Window <= now + MaxLag
        <5>1. \A s, m, o \in Nat : s + o <= now /\ x <= s + m => x + o <= now + m
          OBVIOUS
        <5>2. w.started \in Nat
          BY <1>1
        <5>. QED
          BY <1>4, <3>4, <5>1, <5>2
      <4>5. x <= now + MaxLag
        BY <1>4, <3>1, <4>3
      <4>. QED
        BY <4>2, <4>3, <4>4, <4>5
    <3>. QED
      BY <1>5, <3>2, <3>3, <3>4 DEF Renewed, Reopened
  <2>3. ASSUME NEW i \in 1 .. n + 1
        PROVE  /\ more[i] <= time
               /\ i > (n + 1) - 1 => more[i] >= v.started
               /\ i <= (n + 1) - 1 => more[i] <= v.started + MaxLag
               /\ i <= ((n + 1) - 1) - MaxRequests => more[i] + Window <= v.started + MaxLag
    <3>1. CASE i = n + 1
      BY <1>0, <1>4, <2>1, <3>1
    <3>2. CASE i \in 1 .. n
      <4>1. more[i] = log[i] /\ log[i] \in Nat /\ log[i] <= time
        BY <1>0, <3>2 DEF Fits
      <4>. QED
        BY <1>0, <1>4, <2>1, <2>2, <3>2, <4>1
    <3>. QED
      BY <1>0, <2>3, <3>1, <3>2
  <2>4. Fits(v, more, time)
    BY <1>0, <1>1, <1>3, <2>1, <2>3 DEF Fits
  <2>5. ASSUME NEW i \in 1 .. n + 1, i + 2 * MaxRequests \in 1 .. n + 1
        PROVE  more[i + 2 * MaxRequests] - more[i] >= Window - MaxLag
    <3>1. CASE i + 2 * MaxRequests = n + 1
      <4>1. MaxRequests >= 1
        BY <1>1, <2>1, <1>4
      <4>2. i \in 1 .. n /\ i <= n - MaxRequests
        BY <1>0, <1>4, <2>5, <3>1, <4>1
      <4>3. more[i] + Window <= now + MaxLag /\ more[i] \in Nat
        BY <1>0, <2>2, <4>2
      <4>4. more[i + 2 * MaxRequests] = time /\ now <= time
        BY <1>0, <3>1
      <4>. HIDE DEF more
      <4>. QED
        BY <1>4, <4>3, <4>4
    <3>2. CASE i + 2 * MaxRequests \in 1 .. n
      BY <1>0, <1>4, <2>5, <3>2, ApartStays
    <3>3. i + 2 * MaxRequests = n + 1 \/ i + 2 * MaxRequests \in 1 .. n
      BY <1>0, <1>4, <2>5
    <3>. QED
      BY <3>1, <3>2, <3>3
  <2>. QED
    BY <1>0, <2>4, <2>5 DEF Apart
<1>6. CASE Extended(w, v, now)
  <2>1. v.count = w.count + 1 /\ v.started = w.started /\ w.count < MaxRequests
    BY <1>1, <1>4, <1>6 DEF Extended
  <2>2. Charged(w) = w.count
    BY <1>1, <1>4, <2>1 DEF Charged
  <2>3. ASSUME NEW i \in 1 .. n + 1
        PROVE  /\ more[i] <= time
               /\ i > n - w.count => more[i] >= v.started
               /\ i <= n - w.count => more[i] <= v.started + MaxLag
               /\ i <= (n - w.count) - MaxRequests => more[i] + Window <= v.started + MaxLag
    <3>1. CASE i = n + 1
      <4>1. more[i] = time /\ v.started <= time /\ v.started \in Nat
        BY <1>0, <1>1, <1>3, <3>1
      <4>2. i > n - w.count /\ i > (n - w.count) - MaxRequests
        BY <1>0, <1>1, <1>4, <3>1
      <4>. QED
        BY <1>0, <1>1, <1>4, <4>1, <4>2
    <3>2. CASE i \in 1 .. n
      <4>1. more[i] = log[i]
        BY <1>0, <3>2
      <4>. QED
        BY <1>0, <2>1, <2>2, <3>2, <4>1 DEF Fits
    <3>. QED
      BY <1>0, <2>3, <3>1, <3>2
  <2>4. Charged(v) <= n + 1 /\ (n + 1) - Charged(v) = n - w.count
    <3>1. Charged(v) = w.count + 1
      BY <1>1, <2>1
    <3>2. w.count <= n
      BY <1>2, <2>2
    <3>3. n \in Nat /\ w.count \in Nat
      BY <1>1
    <3>. HIDE DEF n
    <3>. QED
      BY <3>1, <3>2, <3>3
  <2>5. Fits(v, more, time)
    BY <1>0, <1>3, <2>3, <2>4 DEF Fits
  <2>6. ASSUME NEW i \in 1 .. n + 1, i + 2 * MaxRequests \in 1 .. n + 1
        PROVE  more[i + 2 * MaxRequests] - more[i] >= Window - MaxLag
    <3>1. CASE i + 2 * MaxRequests = n + 1
      <4>1. i \in 1 .. n /\ i <= (n - w.count) - MaxRequests
        <5>1. n \in Nat /\ w.count \in Nat /\ MaxRequests \in Nat /\ w.count < MaxRequests
          BY <1>1, <1>4, <2>1
        <5>2. i \in 1 .. n + 1
          BY <2>6
        <5>. HIDE DEF n
        <5>. QED
          BY <3>1, <5>1, <5>2
      <4>2. more[i] + Window <= v.started + MaxLag /\ more[i] \in Nat
        <5>1. i \in 1 .. n + 1 /\ i <= n - w.count
          BY <1>0, <1>1, <1>4, <4>1
        <5>. QED
          BY <1>0, <2>3, <4>1, <5>1
      <4>3. more[i + 2 * MaxRequests] = time
        BY <1>0, <3>1
      <4>4. /\ more[i] \in Nat /\ v.started \in Nat /\ v.started <= time
            /\ more[i] + Window <= v.started + MaxLag
        BY <1>1, <1>3, <4>2
      <4>5. PICK x \in Nat, s \in Nat : x = more[i] /\ s = v.started
        BY <4>4
      <4>6. s <= time /\ x + Window <= s + MaxLag
        BY <4>4, <4>5
      <4>7. time - x >= Window - MaxLag
        BY <1>4, <4>6
      <4>. HIDE DEF more
      <4>. QED
        BY <4>3, <4>5, <4>7
    <3>2. CASE i + 2 * MaxRequests \in 1 .. n
      BY <1>0, <1>4, <2>6, <3>2, ApartStays
    <3>3. i + 2 * MaxRequests = n + 1 \/ i + 2 * MaxRequests \in 1 .. n
      BY <1>0, <1>4, <2>6
    <3>. QED
      BY <3>1, <3>2, <3>3
  <2>. QED
    BY <1>0, <2>5, <2>6 DEF Apart
<1>. QED
  BY <1>5, <1>6

\* A request that is refused keeps them sound too.
LEMMA RefusalFits ==
  ASSUME NEW w \in WindowRecord, NEW v \in WindowRecord, NEW log \in Seq(Nat),
         NEW time \in Nat, NEW now \in Nat, now <= time, time <= now + MaxLag,
         Fits(w, log, time), Renewed(w, v, now) \/ Extended(w, v, now), v.count > MaxRequests
  PROVE  /\ Fits(v, log, time)
         /\ MaxRequests > 0 => Extended(w, v, now) /\ Charged(w) = MaxRequests
<1>0. Len(log) \in Nat /\ DOMAIN log = 1 .. Len(log) /\ \A i \in 1 .. Len(log) : log[i] \in Nat
  OBVIOUS
<1>1. /\ w.count \in Nat /\ w.started \in Nat /\ v.count \in Nat /\ v.started \in Nat
      /\ Charged(v) = MaxRequests /\ Charged(w) \in 0 .. MaxRequests
  BY ChargedIs DEF WindowRecord
<1>2. MaxRequests \in Nat /\ Window \in Nat /\ MaxLag \in Nat
  BY LimiterAssumption, FrontDoorAssumption
<1>3. CASE Renewed(w, v, now)
  <2>1. v.count = 1 /\ v.started = now /\ MaxRequests = 0
    BY <1>1, <1>2, <1>3 DEF Renewed
  <2>2. Charged(w) = 0
    BY <1>1, <2>1
  <2>3. ASSUME NEW i \in 1 .. Len(log)
        PROVE  /\ log[i] <= now + MaxLag /\ log[i] + Window <= now + MaxLag
    <3>1. log[i] <= time /\ log[i] <= w.started + MaxLag
      BY <1>0, <2>1, <2>2, <2>3 DEF Fits
    <3>2. CASE w.count = 0
      BY <1>0, <2>3, <3>2 DEF Fits
    <3>. QED
      BY <1>0, <1>1, <1>2, <1>3, <2>3, <3>1, <3>2 DEF Renewed, Reopened
  <2>. QED
    BY <1>0, <1>1, <1>2, <2>1, <2>3 DEF Fits
<1>4. CASE Extended(w, v, now)
  <2>1. v.count = w.count + 1 /\ v.started = w.started
    BY <1>4 DEF Extended
  <2>2. Charged(w) = MaxRequests
    BY <1>1, <1>2, <2>1 DEF Charged
  <2>. QED
    BY <1>0, <1>1, <1>4, <2>1, <2>2 DEF Fits, Extended
<1>. QED
  BY <1>3, <1>4

(***************************************************************************)
(* The limiter of the process                                              *)
(***************************************************************************)

LimiterFine ==
  /\ windows \in [Key -> WindowRecord] /\ admitted \in [Key -> Seq(Nat)] /\ clock \in Nat
  /\ \A k \in Key : Fits(windows[k], admitted[k], clock) /\ Apart(admitted[k])

\* A handler brings a key and the instant it read.
Charges(k, now) ==
  /\ Count(k, now)
  /\ \/ Admits(k, now) /\ Admit(k)
     \/ ~Admits(k, now) /\ UNCHANGED admitted

LEMMA ChargeKeeps ==
  ASSUME LimiterFine, NEW k \in Key, NEW now \in Nat, now <= clock, clock <= now + MaxLag,
         Charges(k, now), UNCHANGED clock
  PROVE  LimiterFine'
<1>. DEFINE w == windows[k]
            v == Counted(k, now)
            log == admitted[k]
<1>1. w \in WindowRecord /\ log \in Seq(Nat) /\ clock \in Nat /\ Fits(w, log, clock) /\ Apart(log)
  BY DEF LimiterFine
<1>2. v \in WindowRecord /\ (Renewed(w, v, now) \/ Extended(w, v, now))
  BY <1>1, CountedIs
<1>3. windows' = [windows EXCEPT ![k] = v]
  BY DEF Charges, Count
<1>4. /\ windows' \in [Key -> WindowRecord] /\ windows'[k] = v
      /\ \A j \in Key \ {k} : windows'[j] = windows[j]
  BY <1>2, <1>3 DEF LimiterFine
<1>5. CASE Admits(k, now) /\ Admit(k)
  <2>1. v.count <= MaxRequests
    BY <1>5 DEF Admits
  <2>2. Fits(v, Append(log, clock), clock) /\ Apart(Append(log, clock))
    BY <1>1, <1>2, <2>1, AdmissionFits
  <2>3. /\ admitted' \in [Key -> Seq(Nat)] /\ admitted'[k] = Append(log, clock)
        /\ \A j \in Key \ {k} : admitted'[j] = admitted[j]
    BY <1>1, <1>5 DEF Admit, LimiterFine
  <2>. QED
    BY <1>4, <2>2, <2>3 DEF LimiterFine
<1>6. CASE ~Admits(k, now) /\ UNCHANGED admitted
  <2>1. v.count > MaxRequests
    BY <1>2, <1>6, LimiterAssumption DEF Admits, WindowRecord
  <2>2. Fits(v, log, clock)
    BY <1>1, <1>2, <2>1, RefusalFits
  <2>. QED
    BY <1>1, <1>4, <1>6, <2>2 DEF LimiterFine
<1>. QED
  BY <1>5, <1>6 DEF Charges

LEMMA EmptyFits ==
  ASSUME NEW time \in Nat
  PROVE  Fits(NoWindow, <<>>, time) /\ Apart(<<>>) /\ NoWindow \in WindowRecord
BY LimiterAssumption DEF Fits, Apart, NoWindow, WindowRecord, Charged

LEMMA RestartForgets == LimiterFine /\ Restart => LimiterFine'
<1>. SUFFICES ASSUME LimiterFine, Restart PROVE LimiterFine'
  OBVIOUS
<1>1. /\ windows' = [k \in Key |-> NoWindow] /\ admitted' = [k \in Key |-> <<>>]
      /\ clock' = clock /\ clock \in Nat
  BY DEF LimiterFine, Restart
<1>. HIDE DEF NoWindow
<1>. QED
  BY <1>1, EmptyFits DEF LimiterFine

\* Time passes: logs and windows lie in the past as before.
LEMMA LimiterWaits ==
  ASSUME LimiterFine, UNCHANGED <<windows, admitted>>, clock' \in Nat, clock' >= clock
  PROVE  LimiterFine'
<1>. SUFFICES ASSUME NEW k \in Key PROVE Fits(windows[k], admitted[k], clock')
  BY DEF LimiterFine
<1>1. /\ Fits(windows[k], admitted[k], clock) /\ clock \in Nat /\ admitted[k] \in Seq(Nat)
      /\ windows[k] \in WindowRecord
  BY DEF LimiterFine
<1>2. windows[k].started \in Nat /\ \A i \in DOMAIN admitted[k] : admitted[k][i] \in Nat
  BY <1>1 DEF WindowRecord
<1>. QED
  BY <1>1, <1>2 DEF Fits

(***************************************************************************)
(* The handlers                                                            *)
(***************************************************************************)

\* AnswersAreAudited, for one request.
Audited(q) ==
  LET r == door[q] IN
    /\ r.status \in {"throttled", "malformed"} => r.event = "none" /\ ~r.session
    /\ r.event # "none" => r.event = EventOf(attempt[q].answer)
    /\ r.session => attempt[q].answer = "ok"
    /\ r.status = "ok" => r.session
    /\ faults = 0 /\ Stands(q, "idle") =>
         /\ r.event # "none" <=> r.status \in {"ok", "invalid", "locked"}
         /\ r.session <=> r.status = "ok"
         /\ r.status = "locked" <=> r.event = "locked_out"

Tidy(q) == HandlerIsSound(q) /\ Audited(q)

LEMMA HandlersAreRecords ==
  /\ NoHandler \in Handler
  /\ NoHandler.stage = "idle" /\ NoHandler.status = "none" /\ NoHandler.event = "none"
  /\ ~NoHandler.session
  /\ \A status \in Status, event \in Event, session \in BOOLEAN :
       /\ Ended(status, event, session) \in Handler
       /\ Ended(status, event, session).stage = "idle"
       /\ Ended(status, event, session).status = status
       /\ Ended(status, event, session).event = event
       /\ Ended(status, event, session).session = session
<1>1. /\ NoHandler \in Handler
      /\ NoHandler.stage = "idle" /\ NoHandler.status = "none" /\ NoHandler.event = "none"
      /\ ~NoHandler.session
  BY DEF NoHandler, Handler, DoorStage, Status, Event
<1>2. ASSUME NEW status \in Status, NEW event \in Event, NEW session \in BOOLEAN
      PROVE  /\ Ended(status, event, session) \in Handler
             /\ Ended(status, event, session).stage = "idle"
             /\ Ended(status, event, session).status = status
             /\ Ended(status, event, session).event = event
             /\ Ended(status, event, session).session = session
  <2>. HIDE DEF NoHandler
  <2>. QED
    BY <1>1 DEF Ended, Handler
<1>. QED
  BY <1>1, <1>2

LEMMA EventsAre ==
  /\ EventOf("ok") = "login_succeeded" /\ EventOf("invalid") = "login_failed"
  /\ EventOf("locked") = "locked_out"
  /\ \A answer : EventOf(answer) \in Event
BY DEF EventOf, Event

LEMMA HandlerChanges ==
  ASSUME door \in [Attempt -> Handler], NEW q \in Attempt, NEW h \in Handler,
         door' = [door EXCEPT ![q] = h]
  PROVE  /\ door' \in [Attempt -> Handler] /\ door'[q] = h
         /\ \A p \in Attempt \ {q} : door'[p] = door[p]
OBVIOUS

\* A handler that waits, while others move and fail.
LEMMA StaysTidy ==
  ASSUME NEW p \in Attempt, Tidy(p), door'[p] = door[p], attempt'[p] = attempt[p],
         clock' = clock, faults' = 0 => faults = 0
  PROVE  Tidy(p)'
BY DEF Tidy, HandlerIsSound, Audited, Stands, At

\* The step of one handler.
Moves(q) ==
  /\ door' \in [Attempt -> Handler] /\ Tidy(q)'
  /\ \A p \in Attempt \ {q} : door'[p] = door[p] /\ attempt'[p] = attempt[p]
  /\ clock' = clock /\ faults' \in Nat /\ (faults' = 0 => faults = 0)

HandlersFine == door \in [Attempt -> Handler] /\ \A q \in Attempt : Tidy(q)

\* What the handlers need to know of the rest.
Ready == HandlersFine /\ TypeOK

LEMMA FaultsOnlyGrow ==
  ASSUME faults \in Nat, Works \/ Fails
  PROVE  /\ faults' \in Nat /\ (faults' = 0 => faults = 0)
         /\ Fails => faults' # 0
BY DEF Works, Fails

LEMMA KnockMoves ==
  ASSUME Ready, NEW q \in Attempt, NEW i \in Ip, NEW a \in Account \cup {Null},
         NEW right \in BOOLEAN, Knock(q, i, a, right)
  PROVE  Moves(q)
<1>. DEFINE h == [NoHandler EXCEPT !.stage = "checking_ip", !.ip = i, !.account = a,
                                   !.right = right, !.now = clock]
<1>1. clock \in Nat /\ faults \in Nat /\ UNCHANGED <<attempt, clock, faults>>
  BY DEF Ready, TypeOK, Knock, state
<1>2. /\ h \in Handler /\ h.stage = "checking_ip" /\ h.ip = i /\ h.now = clock
      /\ h.status = "none" /\ h.event = "none" /\ ~h.session
  BY <1>1 DEF NoHandler, Handler, DoorStage, Status, Event
<1>. HIDE DEF h
<1>3. /\ door' \in [Attempt -> Handler] /\ door'[q] = h
      /\ \A p \in Attempt \ {q} : door'[p] = door[p]
  BY <1>2, HandlerChanges DEF Knock, h, Ready, HandlersFine
<1>4. At(q, "idle")
  BY DEF Ready, HandlersFine, Tidy, HandlerIsSound, Knock, Stands
<1>5. Tidy(q)'
  BY <1>1, <1>2, <1>3, <1>4, FrontDoorAssumption DEF Tidy, HandlerIsSound, Audited, Stands, At
<1>. QED
  BY <1>1, <1>3, <1>5 DEF Moves

LEMMA MalformedMoves ==
  ASSUME Ready, NEW q \in Attempt, Malformed(q)
  PROVE  Moves(q)
<1>. DEFINE h == [NoHandler EXCEPT !.status = "malformed"]
<1>1. faults \in Nat /\ UNCHANGED <<attempt, clock, faults>>
  BY DEF Ready, TypeOK, Malformed, state
<1>2. /\ h \in Handler /\ h.stage = "idle" /\ h.status = "malformed"
      /\ h.event = "none" /\ ~h.session
  BY DEF NoHandler, Handler, DoorStage, Status, Event
<1>. HIDE DEF h
<1>3. /\ door' \in [Attempt -> Handler] /\ door'[q] = h
      /\ \A p \in Attempt \ {q} : door'[p] = door[p]
  BY <1>2, HandlerChanges DEF Malformed, h, Ready, HandlersFine
<1>4. At(q, "idle")
  BY DEF Ready, HandlersFine, Tidy, HandlerIsSound, Malformed, Stands
<1>5. Tidy(q)'
  BY <1>1, <1>2, <1>3, <1>4 DEF Tidy, HandlerIsSound, Audited, Stands, At
<1>. QED
  BY <1>1, <1>3, <1>5 DEF Moves

LEMMA ThrottleMoves ==
  ASSUME Ready, NEW q \in Attempt, ThrottleIp(q) \/ ThrottleAccount(q)
  PROVE  Moves(q)
<1>. DEFINE h == Ended("throttled", "none", FALSE)
<1>1. faults \in Nat /\ UNCHANGED <<attempt, clock, faults>>
  BY DEF Ready, TypeOK, ThrottleIp, ThrottleAccount, Throttle, state
<1>2. /\ h \in Handler /\ h.stage = "idle" /\ h.status = "throttled"
      /\ h.event = "none" /\ ~h.session
  BY HandlersAreRecords DEF Status, Event
<1>. HIDE DEF h
<1>3. /\ door' \in [Attempt -> Handler] /\ door'[q] = h
      /\ \A p \in Attempt \ {q} : door'[p] = door[p]
  BY <1>2, HandlerChanges DEF ThrottleIp, ThrottleAccount, Throttle, Ends, h, Ready, HandlersFine
<1>4. At(q, "idle")
  BY DEF Ready, HandlersFine, Tidy, HandlerIsSound, ThrottleIp, ThrottleAccount, Stands
<1>5. Tidy(q)'
  BY <1>1, <1>2, <1>3, <1>4 DEF Tidy, HandlerIsSound, Audited, Stands, At
<1>. QED
  BY <1>1, <1>3, <1>5 DEF Moves

LEMMA PassLimitOfIpMoves ==
  ASSUME Ready, NEW q \in Attempt, PassLimitOfIp(q)
  PROVE  Moves(q)
<1>. DEFINE h == [door[q] EXCEPT !.stage = "checking_account"]
<1>0. door[q] \in Handler /\ Tidy(q) /\ door[q].stage = "checking_ip"
  BY DEF Ready, HandlersFine, PassLimitOfIp, Stands
<1>1. faults \in Nat /\ UNCHANGED <<attempt, clock, faults>>
  BY DEF Ready, TypeOK, PassLimitOfIp, state
<1>2. /\ h \in Handler /\ h.stage = "checking_account" /\ h.ip = door[q].ip /\ h.now = door[q].now
      /\ h.status = door[q].status /\ h.event = door[q].event /\ h.session = door[q].session
  BY <1>0 DEF Handler, DoorStage
<1>. HIDE DEF h
<1>3. /\ door' \in [Attempt -> Handler] /\ door'[q] = h
      /\ \A p \in Attempt \ {q} : door'[p] = door[p]
  BY <1>2, HandlerChanges DEF PassLimitOfIp, Goes, h, Ready, HandlersFine
<1>5. Tidy(q)'
  BY <1>0, <1>1, <1>2, <1>3 DEF Tidy, HandlerIsSound, Audited, Stands, At
<1>. QED
  BY <1>1, <1>3, <1>5 DEF Moves

LEMMA EnterLoginMoves ==
  ASSUME Ready, NEW q \in Attempt, EnterLogin(q)
  PROVE  Moves(q)
<1>. DEFINE h == [NoHandler EXCEPT !.stage = "login"]
<1>1. faults \in Nat /\ UNCHANGED <<clock, faults>> /\ attempt \in [Attempt -> InProgress]
  BY DEF Ready, TypeOK, EnterLogin, Start, Works
<1>2. /\ h \in Handler /\ h.stage = "login" /\ h.status = "none"
      /\ h.event = "none" /\ ~h.session
  BY DEF NoHandler, Handler, DoorStage, Status, Event
<1>. HIDE DEF h
<1>3. /\ door' \in [Attempt -> Handler] /\ door'[q] = h
      /\ \A p \in Attempt \ {q} : door'[p] = door[p]
  BY <1>2, HandlerChanges DEF EnterLogin, h, Ready, HandlersFine
<1>4. attempt'[q].stage = "reading_ip" /\ \A p \in Attempt \ {q} : attempt'[p] = attempt[p]
  BY <1>1 DEF EnterLogin, Start
<1>5. Tidy(q)'
  BY <1>1, <1>2, <1>3, <1>4 DEF Tidy, HandlerIsSound, Audited, Stands, At
<1>. QED
  BY <1>1, <1>3, <1>4, <1>5 DEF Moves

\* What a step of the service may answer.
Serves(q) == RejectIp(q) \/ PassIp(q) \/ ReadAccount(q) \/ RecordAccount(q) \/ RecordIp(q) \/ Interrupt(q)

LEMMA ReplyIs ==
  ASSUME TypeOK, NEW q \in Attempt, NEW answer, Reply(q, answer)
  PROVE  /\ attempt'[q].stage = "idle" /\ attempt'[q].answer = answer
         /\ \A p \in Attempt \ {q} : attempt'[p] = attempt[p]
BY DEF TypeOK, Reply, Idle

LEMMA ServiceMoves ==
  ASSUME TypeOK, NEW q \in Attempt, Serves(q)
  PROVE  /\ clock' = clock /\ (Works \/ Fails)
         /\ \A p \in Attempt \ {q} : attempt'[p] = attempt[p]
         /\ \/ attempt'[q].stage # "idle"
            \/ attempt'[q].stage = "idle" /\ attempt'[q].answer \in {"ok", "invalid", "locked"}
            \/ attempt'[q].stage = "idle" /\ attempt'[q].answer = "internal" /\ Fails
<1>0. attempt \in [Attempt -> InProgress] /\ attempt[q] \in InProgress
  BY DEF TypeOK
<1>1. CASE RejectIp(q)
  BY <1>1, ReplyIs DEF RejectIp
<1>2. CASE PassIp(q)
  BY <1>0, <1>2 DEF PassIp, InProgress
<1>3. CASE ReadAccount(q)
  <2>1. PICK r : attempt' = [attempt EXCEPT ![q] = r] /\ r.stage \in {"recording_account", "recording_ip"}
    <3>. DEFINE o == attempt[q]
                seen == IF o.account = Null THEN Clear ELSE accounts[o.account]
                p == [o EXCEPT !.seen = seen]
                r == [p EXCEPT !.stage = IF Decides(p) THEN "recording_account" ELSE "recording_ip"]
    <3>1. attempt' = [attempt EXCEPT ![q] = r]
      BY <1>3 DEF ReadAccount
    <3>2. r.stage \in {"recording_account", "recording_ip"}
      BY <1>0 DEF InProgress
    <3>. HIDE DEF r
    <3>. QED
      BY <3>1, <3>2
  <2>2. attempt'[q] = r /\ \A p \in Attempt \ {q} : attempt'[p] = attempt[p]
    BY <1>0, <2>1
  <2>. QED
    BY <1>3, <2>1, <2>2 DEF ReadAccount
<1>4. CASE RecordAccount(q)
  BY <1>0, <1>4 DEF RecordAccount, InProgress
<1>5. CASE RecordIp(q)
  <2>1. \E answer \in {"ok", "locked", "invalid"} : Reply(q, answer)
    BY <1>5 DEF RecordIp
  <2>. QED
    BY <1>5, <2>1, ReplyIs DEF RecordIp
<1>6. CASE Interrupt(q)
  BY <1>6, ReplyIs DEF Interrupt
<1>. QED
  BY <1>1, <1>2, <1>3, <1>4, <1>5, <1>6 DEF Serves

LEMMA InLoginMoves ==
  ASSUME Ready, NEW q \in Attempt, InLogin(q)
  PROVE  Moves(q)
<1>0. door[q] \in Handler /\ Tidy(q) /\ door[q].stage = "login" /\ faults \in Nat
      /\ door \in [Attempt -> Handler]
  BY DEF Ready, HandlersFine, InLogin, Stands, TypeOK
<1>1. /\ clock' = clock /\ (Works \/ Fails)
      /\ \A p \in Attempt \ {q} : attempt'[p] = attempt[p]
      /\ \/ attempt'[q].stage # "idle"
         \/ attempt'[q].stage = "idle" /\ attempt'[q].answer \in {"ok", "invalid", "locked"}
         \/ attempt'[q].stage = "idle" /\ attempt'[q].answer = "internal" /\ Fails
  <2>1. Serves(q)
    BY Zenon DEF InLogin, Serves
  <2>. QED
    BY <2>1, ServiceMoves DEF Ready
<1>2. faults' \in Nat /\ (faults' = 0 => faults = 0) /\ (Fails => faults' # 0)
  BY <1>0, <1>1, FaultsOnlyGrow
<1>3. door[q].event = "none" /\ door[q].status = "none" /\ ~door[q].session
  BY <1>0 DEF Tidy, HandlerIsSound
<1>4. CASE attempt'[q].stage # "idle"
  <2>1. door' = door
    BY <1>4 DEF InLogin
  <2>2. Tidy(q)'
    BY <1>0, <1>2, <1>3, <1>4, <2>1 DEF Tidy, HandlerIsSound, Audited, Stands, At
  <2>. QED
    BY <1>0, <1>1, <1>2, <2>1, <2>2 DEF Moves
<1>5. CASE attempt'[q].stage = "idle" /\ attempt'[q].answer = "internal" /\ Fails
  <2>. DEFINE h == Ended("internal", "none", FALSE)
  <2>1. door' = [door EXCEPT ![q] = h]
    BY <1>5 DEF InLogin, Ends
  <2>2. /\ h \in Handler /\ h.stage = "idle" /\ h.status = "internal"
        /\ h.event = "none" /\ ~h.session
    BY HandlersAreRecords DEF Status, Event
  <2>. HIDE DEF h
  <2>3. /\ door' \in [Attempt -> Handler] /\ door'[q] = h
        /\ \A p \in Attempt \ {q} : door'[p] = door[p]
    BY <1>0, <2>1, <2>2, HandlerChanges
  <2>4. Tidy(q)'
    BY <1>2, <1>5, <2>2, <2>3 DEF Tidy, HandlerIsSound, Audited, Stands, At
  <2>. QED
    BY <1>1, <1>2, <2>3, <2>4 DEF Moves
<1>6. CASE attempt'[q].stage = "idle" /\ attempt'[q].answer \in {"ok", "invalid", "locked"}
  <2>. DEFINE h == [door[q] EXCEPT !.stage = "auditing"]
  <2>1. door' = [door EXCEPT ![q] = h]
    <3>1. attempt'[q].answer # "internal"
      BY <1>6
    <3>. QED
      BY <1>6, <3>1 DEF InLogin, Goes
  <2>2. /\ h \in Handler /\ h.stage = "auditing" /\ h.status = door[q].status
        /\ h.event = door[q].event /\ h.session = door[q].session
    BY <1>0 DEF Handler, DoorStage
  <2>. HIDE DEF h
  <2>3. /\ door' \in [Attempt -> Handler] /\ door'[q] = h
        /\ \A p \in Attempt \ {q} : door'[p] = door[p]
    BY <1>0, <2>1, <2>2, HandlerChanges
  <2>4. Tidy(q)'
    BY <1>2, <1>3, <1>6, <2>2, <2>3 DEF Tidy, HandlerIsSound, Audited, Stands, At
  <2>. QED
    BY <1>1, <1>2, <2>3, <2>4 DEF Moves
<1>. QED
  BY <1>1, <1>4, <1>5, <1>6

LEMMA AuditMoves ==
  ASSUME Ready, NEW q \in Attempt, Audit(q)
  PROVE  Moves(q)
<1>. DEFINE answer == attempt[q].answer
<1>0. door[q] \in Handler /\ Tidy(q) /\ door[q].stage = "auditing" /\ faults \in Nat
      /\ door \in [Attempt -> Handler] /\ attempt' = attempt /\ clock' = clock
  BY DEF Ready, HandlersFine, Audit, Stands, TypeOK
<1>1. /\ answer \in {"ok", "invalid", "locked"} /\ At(q, "idle")
      /\ door[q].status = "none" /\ ~door[q].session
  BY <1>0 DEF Tidy, HandlerIsSound, Stands
<1>2. faults' \in Nat /\ (faults' = 0 => faults = 0) /\ (Fails => faults' # 0)
  BY <1>0, FaultsOnlyGrow DEF Audit
<1>3. PICK e \in Event : /\ e \in {"none", EventOf(answer)} /\ (faults' = 0 => e = EventOf(answer))
                         /\ door' = [door EXCEPT ![q] = IF answer = "ok"
                              THEN [@ EXCEPT !.stage = "starting", !.event = e]
                              ELSE Ended(answer, e, FALSE)]
  <2>1. "none" \in Event /\ EventOf(answer) \in Event
    BY EventsAre DEF Event
  <2>. QED
    BY <1>2, <2>1 DEF Audit
<1>4. CASE answer = "ok"
  <2>. DEFINE h == [door[q] EXCEPT !.stage = "starting", !.event = e]
  <2>1. door' = [door EXCEPT ![q] = h]
    BY <1>0, <1>3, <1>4
  <2>2. /\ h \in Handler /\ h.stage = "starting" /\ h.status = door[q].status
        /\ h.event = e /\ h.session = door[q].session
    BY <1>0 DEF Handler, DoorStage
  <2>. HIDE DEF h
  <2>3. /\ door' \in [Attempt -> Handler] /\ door'[q] = h
        /\ \A p \in Attempt \ {q} : door'[p] = door[p]
    BY <1>0, <2>1, <2>2, HandlerChanges
  <2>4. Tidy(q)'
    BY <1>0, <1>1, <1>3, <1>4, <2>2, <2>3 DEF Tidy, HandlerIsSound, Audited, Stands, At
  <2>. QED
    BY <1>0, <1>2, <2>3, <2>4 DEF Moves
<1>5. CASE answer # "ok"
  <2>. DEFINE h == Ended(answer, e, FALSE)
  <2>1. door' = [door EXCEPT ![q] = h]
    BY <1>3, <1>5
  <2>2. /\ h \in Handler /\ h.stage = "idle" /\ h.status = answer
        /\ h.event = e /\ ~h.session
    <3>1. answer \in Status /\ e \in Event
      BY <1>1, <1>3 DEF Status
    <3>. QED
      BY <3>1, HandlersAreRecords
  <2>. HIDE DEF h
  <2>3. /\ door' \in [Attempt -> Handler] /\ door'[q] = h
        /\ \A p \in Attempt \ {q} : door'[p] = door[p]
    BY <1>0, <2>1, <2>2, HandlerChanges
  <2>4. Tidy(q)'
    BY <1>0, <1>1, <1>3, <1>5, <2>2, <2>3, EventsAre DEF Tidy, HandlerIsSound, Audited, Stands, At
  <2>. QED
    BY <1>0, <1>2, <2>3, <2>4 DEF Moves
<1>. QED
  BY <1>4, <1>5

\* A handler that ends with the answer of its attempt left in place.
LEMMA EndingMoves ==
  ASSUME Ready, NEW q \in Attempt, NEW status \in Status, NEW event \in Event,
         NEW session \in BOOLEAN, door' = [door EXCEPT ![q] = Ended(status, event, session)],
         UNCHANGED <<attempt, clock>>, Works \/ Fails, ~Stands(q, "login"),
         status \in {"ok", "internal"},
         status = "ok" => session,
         session => attempt[q].answer = "ok",
         event # "none" => event = EventOf(attempt[q].answer),
         faults' = 0 => status = "ok" /\ event = "login_succeeded"
  PROVE  Moves(q)
<1>. DEFINE h == Ended(status, event, session)
<1>0. Tidy(q) /\ faults \in Nat /\ door \in [Attempt -> Handler]
  BY DEF Ready, HandlersFine, TypeOK
<1>1. At(q, "idle")
  BY <1>0 DEF Tidy, HandlerIsSound
<1>2. faults' \in Nat /\ (faults' = 0 => faults = 0)
  BY <1>0, FaultsOnlyGrow
<1>3. /\ h \in Handler /\ h.stage = "idle" /\ h.status = status
      /\ h.event = event /\ h.session = session
  BY HandlersAreRecords
<1>. HIDE DEF h
<1>4. /\ door' \in [Attempt -> Handler] /\ door'[q] = h
      /\ \A p \in Attempt \ {q} : door'[p] = door[p]
  BY <1>0, <1>3, HandlerChanges DEF h
<1>5. Tidy(q)'
  BY <1>1, <1>2, <1>3, <1>4 DEF Tidy, HandlerIsSound, Audited, Stands, At
<1>. QED
  BY <1>2, <1>4, <1>5 DEF Moves

LEMMA OpenSessionMoves ==
  ASSUME Ready, NEW q \in Attempt, OpenSession(q)
  PROVE  Moves(q)
<1>0. door[q] \in Handler /\ Tidy(q) /\ door[q].stage = "starting" /\ faults \in Nat
  BY DEF Ready, HandlersFine, OpenSession, Stands, TypeOK
<1>1. /\ attempt[q].answer = "ok" /\ door[q].event \in {"none", EventOf("ok")}
      /\ faults = 0 => door[q].event = EventOf("ok")
  BY <1>0 DEF Tidy, HandlerIsSound
<1>2. door[q].event \in Event /\ ~Stands(q, "login")
  BY <1>0 DEF Handler, Stands
<1>3. UNCHANGED <<attempt, clock>> /\ (Works \/ Fails)
  BY DEF OpenSession
<1>4. (faults' = 0 => faults = 0) /\ (Fails => faults' # 0)
  BY <1>0, <1>3, FaultsOnlyGrow
<1>5. CASE door' = [door EXCEPT ![q] = Ended("ok", @.event, TRUE)]
  <2>1. door' = [door EXCEPT ![q] = Ended("ok", door[q].event, TRUE)] /\ "ok" \in Status
    BY <1>5 DEF Ready, HandlersFine, Status
  <2>. QED
    BY <1>1, <1>2, <1>3, <1>4, <2>1, EndingMoves, EventsAre
<1>6. ASSUME Fails, NEW done \in BOOLEAN, door' = [door EXCEPT ![q] = Ended("internal", @.event, done)]
      PROVE  Moves(q)
  <2>1. door' = [door EXCEPT ![q] = Ended("internal", door[q].event, done)] /\ "internal" \in Status
    BY <1>6 DEF Ready, HandlersFine, Status
  <2>. QED
    BY <1>1, <1>2, <1>3, <1>4, <1>6, <2>1, EndingMoves, EventsAre
<1>. QED
  BY <1>5, <1>6 DEF OpenSession

LEMMA AbandonMoves ==
  ASSUME Ready, NEW q \in Attempt, Abandon(q)
  PROVE  Moves(q)
<1>1. faults \in Nat /\ Fails /\ UNCHANGED <<attempt, clock>> /\ ~Stands(q, "login")
  BY DEF Ready, Abandon, Stands, TypeOK
<1>2. faults' # 0
  BY <1>1, FaultsOnlyGrow
<1>3. PICK e \in {"none", EventOf(attempt[q].answer)} : door' = [door EXCEPT ![q] = Ended("internal", e, FALSE)]
  BY DEF Abandon
<1>4. e \in Event /\ "internal" \in Status
  BY <1>3, EventsAre DEF Event, Status
<1>. QED
  BY <1>1, <1>2, <1>3, <1>4, EndingMoves

\* One handler moves: the others stay as they were.
LEMMA HandlersStayFine ==
  ASSUME Ready, NEW q \in Attempt, Moves(q)
  PROVE  HandlersFine'
<1>1. \A p \in Attempt \ {q} : Tidy(p)'
  BY StaysTidy DEF Moves, Ready, HandlersFine
<1>. QED
  BY <1>1 DEF Moves, HandlersFine

LEMMA PassKeeps == Ready /\ Pass => HandlersFine'
<1>. SUFFICES ASSUME Ready, Pass PROVE HandlersFine'
  OBVIOUS
<1>1. /\ UNCHANGED <<door, attempt, faults>> /\ clock' = clock + 1 /\ clock \in Nat
      /\ \A q \in Attempt :
           door[q].stage \in {"checking_ip", "checking_account"} => clock - door[q].now < MaxLag
  BY DEF Pass, Tick, doorVars, Ready, TypeOK
<1>2. ASSUME NEW q \in Attempt
      PROVE  Tidy(q)'
  <2>1. Tidy(q) /\ door[q].now \in Nat
    BY DEF Ready, HandlersFine, Handler
  <2>2. door[q].stage \in {"checking_ip", "checking_account"} =>
          door[q].now <= clock' /\ clock' <= door[q].now + MaxLag
    BY <1>1, <2>1, FrontDoorAssumption DEF Tidy, HandlerIsSound
  <2>. QED
    BY <1>1, <2>1, <2>2 DEF Tidy, HandlerIsSound, Audited, Stands, At
<1>. QED
  BY <1>1, <1>2 DEF Ready, HandlersFine

\* A restart answers nobody; the statement a request was waiting for may be done.
LEMMA RestartLeaves ==
  ASSUME Restart, NEW q \in Attempt
  PROVE  /\ Stands(q, "idle") => door'[q] = door[q]
         /\ ~Stands(q, "idle") =>
              \E e, done :
                /\ done \in BOOLEAN
                /\ door'[q] = Ended("internal", e, done)
                /\ done => Stands(q, "starting")
                /\ e # door[q].event => Stands(q, "auditing") /\ e \in {"none", EventOf(attempt[q].answer)}
<1>. DEFINE r == door[q]
<1>1. door'[q] \in Remains(q)
  BY DEF Restart
<1>2. CASE r.stage = "idle"
  BY <1>1, <1>2 DEF Remains, Stands
<1>3. CASE r.stage = "auditing"
  <2>1. door'[q] \in {Ended("internal", e, FALSE) : e \in {"none", EventOf(attempt[q].answer)}}
    BY <1>1, <1>3 DEF Remains
  <2>2. PICK e \in {"none", EventOf(attempt[q].answer)} : door'[q] = Ended("internal", e, FALSE)
    BY <2>1
  <2>. QED
    BY <1>3, <2>2 DEF Stands
<1>4. CASE r.stage = "starting"
  <2>1. door'[q] \in {Ended("internal", r.event, done) : done \in BOOLEAN}
    BY <1>1, <1>4 DEF Remains
  <2>2. PICK done \in BOOLEAN : door'[q] = Ended("internal", r.event, done)
    BY <2>1
  <2>3. ~Stands(q, "idle") /\ Stands(q, "starting")
    BY <1>4 DEF Stands
  <2>. QED
    BY <2>2, <2>3, Zenon
<1>5. CASE r.stage \notin {"idle", "auditing", "starting"}
  <2>1. door'[q] = Ended("internal", r.event, FALSE)
    BY <1>1, <1>5 DEF Remains
  <2>2. ~Stands(q, "idle")
    BY <1>5 DEF Stands
  <2>3. \E e, done :
          /\ done \in BOOLEAN
          /\ door'[q] = Ended("internal", e, done)
          /\ done => Stands(q, "starting")
          /\ e = door[q].event
    <3>. WITNESS r.event, FALSE
    <3>. QED
      BY <2>1
  <2>. QED
    BY <2>2, <2>3, Zenon
<1>. QED
  BY <1>2, <1>3, <1>4, <1>5

LEMMA RestartKeeps == Ready /\ Restart => HandlersFine'
<1>. SUFFICES ASSUME Ready, Restart PROVE HandlersFine'
  OBVIOUS
<1>1. faults \in Nat /\ Fails /\ faults' # 0 /\ clock' = clock
  BY FaultsOnlyGrow DEF Ready, TypeOK, Restart
<1>2. ASSUME NEW q \in Attempt
      PROVE  door'[q] \in Handler /\ Tidy(q)'
  <2>0. door[q] \in Handler /\ Tidy(q)
    BY DEF Ready, HandlersFine
  <2>1. attempt'[q].stage = "idle"
    BY DEF Restart, Idle, At
  <2>2. CASE Stands(q, "idle")
    <3>1. door'[q] = door[q]
      BY <2>2, RestartLeaves
    <3>2. attempt'[q] = attempt[q]
      BY <2>0, <2>2 DEF Restart, Tidy, HandlerIsSound, Stands
    <3>. QED
      BY <1>1, <2>0, <3>1, <3>2, StaysTidy
  <2>3. CASE ~Stands(q, "idle")
    <3>0. PICK e, done :
            /\ done \in BOOLEAN
            /\ door'[q] = Ended("internal", e, done)
            /\ done => Stands(q, "starting")
            /\ e # door[q].event => Stands(q, "auditing") /\ e \in {"none", EventOf(attempt[q].answer)}
      BY <2>3, RestartLeaves
    <3>. DEFINE h == Ended("internal", e, done)
    <3>1. door'[q] = h
      BY <3>0
    <3>2. /\ h \in Handler /\ h.stage = "idle" /\ h.status = "internal"
          /\ h.event = e /\ h.session = done
      <4>1. EventOf(attempt[q].answer) \in Event /\ "none" \in Event /\ "internal" \in Status
        BY DEF Status, Event, EventOf
      <4>2. door[q].event \in Event
        BY <2>0 DEF Handler
      <4>3. e \in Event
        BY <3>0, <4>1, <4>2
      <4>. QED
        BY <3>0, <4>1, <4>3, HandlersAreRecords
    <3>. HIDE DEF h
    <3>3. e # "none" \/ done => attempt'[q] = attempt[q]
      BY <2>0, <2>3, <3>0 DEF Restart, Tidy, HandlerIsSound, Stands, Handler, DoorStage
    <3>5. e # "none" => e = EventOf(attempt[q].answer)
      BY <2>0, <3>0 DEF Tidy, HandlerIsSound, Audited
    <3>6. done => attempt[q].answer = "ok"
      BY <2>0, <3>0 DEF Tidy, HandlerIsSound, Stands
    <3>4. Tidy(q)'
      BY <1>1, <2>0, <2>1, <3>1, <3>2, <3>3, <3>5, <3>6 DEF Tidy, HandlerIsSound, Audited, Stands, At, EventOf
    <3>. QED
      BY <3>1, <3>2, <3>4
  <2>. QED
    BY <2>2, <2>3
<1>3. door' \in [Attempt -> Handler]
  <2>1. door' = [q \in Attempt |-> door'[q]]
    BY DEF Restart
  <2>. QED
    BY <1>2, <2>1
<1>. QED
  BY <1>2, <1>3 DEF HandlersFine

(***************************************************************************)
(* The login service behind the door                                       *)
(***************************************************************************)

\* The audit record and the session may fail; the service is done by then.
LEMMA AfterLoginKeeps ==
  ASSUME LoginInvariant, UNCHANGED <<counters, attempt, tries, clock>>, faults' \in Nat
  PROVE  LoginInvariant'
BY DEF LoginInvariant, TypeOK, LocksAreSound, AttemptsAreChecked, Sound, counters

\* A restart ends every attempt, and the counters are in the database.
LEMMA RestartKeepsLogin ==
  ASSUME LoginInvariant, Restart
  PROVE  LoginInvariant'
<1>1. CountersFine /\ AttemptsFine /\ NumbersFine
  BY InvariantParts
<1>2. UNCHANGED <<counters, clock, tries>>
  BY DEF Restart
<1>3. Onward /\ CountersFine'
  BY <1>1, <1>2, QuietIsOnward
<1>4. NumbersFine'
  BY <1>1, <1>2, FaultsOnlyGrow DEF Restart, NumbersFine
<1>5. ASSUME NEW q \in Attempt
      PROVE  \E r \in InProgress : r = attempt'[q] /\ Fine(r)'
  <2>0. attempt[q] \in InProgress /\ Fine(attempt[q])
    BY <1>1 DEF AttemptsFine
  <2>1. PICK r \in InProgress : r = attempt'[q] /\ Fine(r)
    <3>1. CASE At(q, "idle")
      BY <2>0, <3>1 DEF Restart
    <3>2. CASE ~At(q, "idle")
      <4>. DEFINE i == attempt[q].ip
                  a == attempt[q].account
      <4>1. i \in Ip \cup {Null} /\ a \in Account \cup {Null} /\ "internal" \in Answer
        BY <2>0 DEF InProgress, Answer
      <4>2. Idle(i, a, "internal") \in InProgress /\ Fine(Idle(i, a, "internal"))
        BY <1>1, <4>1, AnsweredIsFine
      <4>3. attempt'[q] = Idle(i, a, "internal")
        BY <3>2 DEF Restart
      <4>. QED
        BY <4>2, <4>3
    <3>. QED
      BY <3>1, <3>2
  <2>2. Fine(r)'
    BY <1>1, <1>3, <2>1, FineStays
  <2>. QED
    BY <2>1, <2>2
<1>6. AttemptsFine'
  <2>1. attempt' = [q \in Attempt |-> attempt'[q]]
    BY DEF Restart
  <2>2. attempt' \in [Attempt -> InProgress]
    BY <1>5, <2>1
  <2>3. ASSUME NEW q \in Attempt
        PROVE  Fine(attempt[q])'
    <3>1. PICK r \in InProgress : r = attempt'[q] /\ Fine(r)'
      BY <1>5
    <3>. QED
      BY <3>1 DEF Fine, Sound
  <2>. QED
    BY <2>2, <2>3 DEF AttemptsFine
<1>. QED
  BY <1>3, <1>4, <1>6 DEF LoginInvariant, TypeOK, LocksAreSound, AttemptsAreChecked,
     CountersFine, AttemptsFine, NumbersFine, Fine

\* Every other step of the door is a step of the service, or one that leaves its
\* tables and its attempts alone.
Bystands == UNCHANGED <<counters, attempt, tries, clock>> /\ faults' \in Nat

LEMMA DoorMovesLogin ==
  ASSUME LoginInvariant, HandlersFine, [DoorNext]_allVars
  PROVE  [Next]_state \/ Restart \/ Bystands
<1>. USE DEF doorVars
<1>1. ASSUME NEW q \in Attempt, EnterLogin(q)
      PROVE  Next
  <2>1. Start(q, door[q].ip, door[q].account, door[q].right)
    BY <1>1 DEF EnterLogin
  <2>2. door[q].ip \in Ip /\ door[q].account \in Account \cup {Null} /\ door[q].right \in BOOLEAN
    BY <1>1 DEF EnterLogin, Stands, HandlersFine, Tidy, HandlerIsSound, Handler
  <2>. QED
    BY <2>1, <2>2 DEF Next
<1>2. ASSUME NEW q \in Attempt, InLogin(q)
      PROVE  Next
  BY <1>2 DEF InLogin, Next
<1>3. ASSUME NEW q \in Attempt, Audit(q) \/ OpenSession(q) \/ Abandon(q)
      PROVE  Bystands
  <2>1. UNCHANGED <<counters, attempt, tries, clock>> /\ (Works \/ Fails)
    BY <1>3 DEF Audit, OpenSession, Abandon
  <2>. QED
    BY <2>1, FaultsOnlyGrow DEF LoginInvariant, TypeOK, Bystands
<1>4. CASE Pass
  BY <1>4 DEF Pass, Next
<1>5. ASSUME NEW q \in Attempt,
             \/ \E i \in Ip, a \in Account \cup {Null}, right \in BOOLEAN : Knock(q, i, a, right)
             \/ Malformed(q) \/ ThrottleIp(q) \/ ThrottleAccount(q) \/ PassLimitOfIp(q)
      PROVE  UNCHANGED state
  BY <1>5 DEF Knock, Malformed, ThrottleIp, ThrottleAccount, Throttle, PassLimitOfIp
<1>6. CASE UNCHANGED allVars
  BY <1>6 DEF allVars
<1>. QED
  BY <1>1, <1>2, <1>3, <1>4, <1>5, <1>6 DEF DoorNext

LEMMA DoorKeepsLogin ==
  ASSUME LoginInvariant, HandlersFine, [DoorNext]_allVars
  PROVE  LoginInvariant'
<1>1. CASE [Next]_state
  BY <1>1, LoginStep
<1>2. CASE Restart
  BY <1>2, RestartKeepsLogin
<1>3. CASE Bystands
  BY <1>3, AfterLoginKeeps DEF Bystands
<1>. QED
  BY <1>1, <1>2, <1>3, DoorMovesLogin

(***************************************************************************)
(* The invariant                                                           *)
(***************************************************************************)

LEMMA DoorParts ==
  DoorInvariant <=> LoginInvariant /\ HandlersFine /\ LimiterFine /\ arrivals \in Nat
<1>1. ASSUME NEW k \in Key
      PROVE  WindowIsSound(k) <=> Fits(windows[k], admitted[k], clock)
  BY DEF WindowIsSound, Fits, Charged
<1>2. AtMostTwoWindows <=> \A k \in Key : Apart(admitted[k])
  BY DEF AtMostTwoWindows, Apart
<1>3. AnswersAreAudited <=> \A q \in Attempt : Audited(q)
  BY DEF AnswersAreAudited, Audited
<1>. QED
  BY <1>1, <1>2, <1>3 DEF DoorInvariant, DoorTypeOK, HandlersFine, Tidy, LimiterFine, LoginInvariant,
     TypeOK, WindowRecord

LEMMA DoorStarts == DoorInit => DoorInvariant
<1>. SUFFICES ASSUME DoorInit PROVE LoginInvariant /\ HandlersFine /\ LimiterFine /\ arrivals \in Nat
  BY DoorParts
<1>1. LoginInvariant /\ arrivals \in Nat
  BY LoginInit DEF DoorInit
<1>2. HandlersFine
  <2>1. ASSUME NEW q \in Attempt
        PROVE  door[q] \in Handler /\ Tidy(q)
    <3>1. door[q] = NoHandler /\ attempt[q].stage = "idle"
      BY DEF DoorInit, Init, Idle
    <3>. HIDE DEF NoHandler
    <3>. QED
      BY <3>1, HandlersAreRecords DEF Tidy, HandlerIsSound, Audited, Stands, At
  <2>2. door = [q \in Attempt |-> door[q]]
    BY DEF DoorInit
  <2>. QED
    BY <2>1, <2>2 DEF HandlersFine
<1>3. LimiterFine
  <2>1. /\ windows = [k \in Key |-> NoWindow] /\ admitted = [k \in Key |-> <<>>] /\ clock \in Nat
    BY DEF DoorInit, Init
  <2>. HIDE DEF NoWindow
  <2>. QED
    BY <2>1, EmptyFits DEF LimiterFine
<1>. QED
  BY <1>1, <1>2, <1>3

\* What a step does to the limiter.
LEMMA DoorKeepsLimiter ==
  ASSUME LimiterFine, HandlersFine, TypeOK, [DoorNext]_allVars
  PROVE  LimiterFine'
<1>. USE DEF doorVars
<1>1. ASSUME UNCHANGED <<windows, admitted, clock>>
      PROVE  LimiterFine'
  BY <1>1, LimiterWaits DEF LimiterFine
<1>2. ASSUME NEW q \in Attempt, NEW k, k = door[q].ip \/ k = door[q].account,
             door[q].stage \in {"checking_ip", "checking_account"},
             Charges(k, door[q].now), UNCHANGED clock
      PROVE  LimiterFine'
  <2>1. k \in Key /\ door[q].now \in Nat
    BY <1>2 DEF HandlersFine, Handler, Key
  <2>2. door[q].now <= clock /\ clock <= door[q].now + MaxLag
    BY <1>2 DEF HandlersFine, Tidy, HandlerIsSound
  <2>. QED
    BY <1>2, <2>1, <2>2, ChargeKeeps
<1>3. ASSUME NEW q \in Attempt, ThrottleIp(q) \/ PassLimitOfIp(q)
      PROVE  LimiterFine'
  <2>1. PICK k : k = door[q].ip
    OBVIOUS
  <2>2. Charges(k, door[q].now) /\ UNCHANGED clock /\ door[q].stage = "checking_ip"
    BY <1>3, <2>1 DEF ThrottleIp, Throttle, PassLimitOfIp, Charges, Stands, state
  <2>. QED
    BY <1>2, <2>1, <2>2
<1>4. ASSUME NEW q \in Attempt, ThrottleAccount(q) \/ EnterLogin(q)
      PROVE  LimiterFine'
  <2>1. PICK k : k = door[q].account
    OBVIOUS
  <2>2. Charges(k, door[q].now) /\ UNCHANGED clock /\ door[q].stage = "checking_account"
    BY <1>4, <2>1 DEF ThrottleAccount, Throttle, EnterLogin, Start, Charges, Stands, state
  <2>. QED
    BY <1>2, <2>1, <2>2
<1>5. ASSUME NEW q \in Attempt,
             \/ \E i \in Ip, a \in Account \cup {Null}, right \in BOOLEAN : Knock(q, i, a, right)
             \/ Malformed(q) \/ Audit(q) \/ OpenSession(q) \/ Abandon(q)
      PROVE  LimiterFine'
  <2>1. UNCHANGED <<windows, admitted, clock>>
    BY <1>5 DEF Knock, Malformed, Audit, OpenSession, Abandon, state
  <2>. QED
    BY <1>1, <2>1
<1>6. ASSUME NEW q \in Attempt, InLogin(q)
      PROVE  LimiterFine'
  <2>1. Serves(q) /\ UNCHANGED <<windows, admitted>>
    BY <1>6 DEF InLogin, Serves
  <2>. QED
    BY <1>1, <2>1, ServiceMoves
<1>7. CASE Pass
  <2>1. UNCHANGED <<windows, admitted>> /\ clock' = clock + 1
    BY <1>7 DEF Pass, Tick
  <2>. QED
    BY <2>1, LimiterWaits DEF LimiterFine
<1>8. CASE UNCHANGED allVars
  BY <1>1, <1>8 DEF allVars, state
<1>. QED
  BY <1>3, <1>4, <1>5, <1>6, <1>7, <1>8, RestartForgets DEF DoorNext

LEMMA DoorKeepsHandlers ==
  ASSUME Ready, [DoorNext]_allVars
  PROVE  HandlersFine'
<1>1. ASSUME NEW q \in Attempt, Moves(q)
      PROVE  HandlersFine'
  BY <1>1, HandlersStayFine
<1>2. ASSUME NEW q \in Attempt,
             \/ \E i \in Ip, a \in Account \cup {Null}, right \in BOOLEAN : Knock(q, i, a, right)
             \/ Malformed(q) \/ ThrottleIp(q) \/ ThrottleAccount(q) \/ PassLimitOfIp(q)
             \/ EnterLogin(q) \/ InLogin(q) \/ Audit(q) \/ OpenSession(q) \/ Abandon(q)
      PROVE  Moves(q)
  BY <1>2, KnockMoves, MalformedMoves, ThrottleMoves, PassLimitOfIpMoves, EnterLoginMoves,
     InLoginMoves, AuditMoves, OpenSessionMoves, AbandonMoves
<1>3. CASE UNCHANGED allVars
  BY <1>3 DEF Ready, HandlersFine, Tidy, HandlerIsSound, Audited, Stands, At, allVars, doorVars, state
<1>. QED
  BY <1>1, <1>2, <1>3, PassKeeps, RestartKeeps DEF DoorNext

LEMMA DoorStep == DoorInvariant /\ [DoorNext]_allVars => DoorInvariant'
<1>. SUFFICES ASSUME DoorInvariant, [DoorNext]_allVars PROVE DoorInvariant'
  OBVIOUS
<1>1. LoginInvariant /\ HandlersFine /\ LimiterFine /\ arrivals \in Nat /\ TypeOK /\ Ready
  BY DoorParts DEF LoginInvariant, Ready
<1>2. LoginInvariant'
  BY <1>1, DoorKeepsLogin
<1>3. HandlersFine'
  BY <1>1, DoorKeepsHandlers
<1>4. LimiterFine'
  BY <1>1, DoorKeepsLimiter
<1>5. arrivals' \in Nat
  <2>1. ASSUME NEW q \in Attempt, NEW i, NEW a, NEW right, Knock(q, i, a, right) \/ Malformed(q)
        PROVE  arrivals' \in Nat
    BY <1>1, <2>1 DEF Knock, Malformed
  <2>2. ASSUME NEW q \in Attempt,
               \/ ThrottleIp(q) \/ ThrottleAccount(q) \/ PassLimitOfIp(q) \/ EnterLogin(q)
               \/ InLogin(q) \/ Audit(q) \/ OpenSession(q) \/ Abandon(q)
        PROVE  UNCHANGED arrivals
    BY <2>2 DEF ThrottleIp, ThrottleAccount, Throttle, PassLimitOfIp, EnterLogin, InLogin, Audit,
       OpenSession, Abandon
  <2>3. CASE Pass \/ Restart \/ UNCHANGED allVars
    BY <1>1, <2>3 DEF Pass, Restart, allVars, doorVars
  <2>. QED
    BY <1>1, <2>1, <2>2, <2>3 DEF DoorNext
<1>6. LoginInvariant' /\ HandlersFine' /\ LimiterFine' /\ arrivals' \in Nat => DoorInvariant'
  <2>1. ASSUME NEW k \in Key
        PROVE  WindowIsSound(k)' <=> Fits(windows[k], admitted[k], clock)'
    BY DEF WindowIsSound, Fits, Charged
  <2>2. AtMostTwoWindows' <=> \A k \in Key : Apart(admitted[k])'
    BY DEF AtMostTwoWindows, Apart
  <2>3. AnswersAreAudited' <=> \A q \in Attempt : Audited(q)'
    BY DEF AnswersAreAudited, Audited
  <2>. QED
    BY <2>1, <2>2, <2>3 DEF DoorInvariant, DoorTypeOK, HandlersFine, Tidy, LimiterFine,
       LoginInvariant, TypeOK, WindowRecord
<1>. QED
  BY <1>2, <1>3, <1>4, <1>5, <1>6

\* The invariant holds in every reachable state of every instance.
THEOREM DoorIsInvariant == DoorSpec => []DoorInvariant
BY DoorStarts, DoorStep, PTL DEF DoorSpec

(***************************************************************************)
(* What follows from it                                                    *)
(***************************************************************************)

\* Type correctness of the whole login route.
THEOREM DoorTypes == DoorSpec => []DoorTypeOK
<1>1. DoorInvariant => DoorTypeOK
  BY DEF DoorInvariant
<1>. QED
  BY <1>1, DoorIsInvariant, PTL

\* No span of a window, less the lag of a handler, admits more than twice the
\* maximum of one key (RateLimiter::check).
THEOREM NeverThreeWindows == DoorSpec => []AtMostTwoWindows
<1>1. DoorInvariant => AtMostTwoWindows
  BY DEF DoorInvariant
<1>. QED
  BY <1>1, DoorIsInvariant, PTL

\* The audit trail and the sessions say what the login service answered.
THEOREM AnswersAlwaysAudited == DoorSpec => []AnswersAreAudited
<1>1. DoorInvariant => AnswersAreAudited
  BY DEF DoorInvariant
<1>. QED
  BY <1>1, DoorIsInvariant, PTL

\* Whole seconds.
LEMMA WholeSeconds ==
  ASSUME NEW n \in Nat
  PROVE  /\ n \div Second \in Nat /\ (n \div Second) * Second <= n
         /\ n < (n \div Second + 1) * Second
<1>1. /\ n \div Second \in Nat /\ n % Second \in 0 .. (Second - 1)
      /\ n = Second * (n \div Second) + (n % Second)
  BY SecondAssumption
<1>2. (n \div Second) * Second = Second * (n \div Second)
  BY <1>1, SecondAssumption
<1>3. (n \div Second + 1) * Second = Second * (n \div Second) + Second
  BY <1>1, SecondAssumption
<1>. QED
  BY <1>1, <1>2, <1>3, SecondAssumption

\* A key that is refused had its share within the window, and the answer says
\* when the window ends.
LEMMA RefusalIsEarned ==
  ASSUME LimiterFine, NEW k \in Key, NEW now \in Nat, now <= clock, clock <= now + MaxLag,
         ~Admits(k, now), Count(k, now),
         NEW seconds, seconds = RetryAfterSeconds(k, now),
         NEW ends, ends = windows'[k].started + Window
  PROVE  /\ HadItsShare(k, (clock - Window) - MaxLag)
         /\ now + seconds * Second <= ends
         /\ ends < now + (seconds + 1) * Second + MaxLag
<1>. DEFINE w == windows[k]
            v == Counted(k, now)
            log == admitted[k]
<1>1. w \in WindowRecord /\ log \in Seq(Nat) /\ clock \in Nat /\ Fits(w, log, clock)
  BY DEF LimiterFine
<1>2. v \in WindowRecord /\ (Renewed(w, v, now) \/ Extended(w, v, now))
  BY <1>1, CountedIs
<1>3. windows'[k] = v
  BY DEF Count, LimiterFine
<1>4. /\ v.count \in Nat /\ v.started \in Nat /\ w.count \in Nat /\ w.started \in Nat
      /\ MaxRequests \in Nat /\ Window \in Nat /\ MaxLag \in Nat
  BY <1>1, <1>2, LimiterAssumption, FrontDoorAssumption DEF WindowRecord
<1>5. v.count > MaxRequests
  BY <1>4 DEF Admits
<1>6. HadItsShare(k, (clock - Window) - MaxLag)
  <2>. SUFFICES ASSUME MaxRequests > 0
                PROVE  /\ Len(log) >= MaxRequests
                       /\ log[(Len(log) - MaxRequests) + 1] > (clock - Window) - MaxLag
    BY DEF HadItsShare
  <2>1. Extended(w, v, now) /\ Charged(w) = MaxRequests
    BY <1>1, <1>2, <1>5, RefusalFits
  <2>2. Len(log) \in Nat /\ Len(log) >= MaxRequests
    BY <1>1, <2>1 DEF Fits
  <2>3. PICK i : i = (Len(log) - MaxRequests) + 1
    OBVIOUS
  <2>4. i \in DOMAIN log /\ i > Len(log) - MaxRequests
    BY <1>1, <1>4, <2>2, <2>3
  <2>5. log[i] >= w.started /\ log[i] \in Nat
    BY <1>1, <2>1, <2>4 DEF Fits
  <2>6. w.started > (clock - Window) - MaxLag
    BY <1>1, <1>4, <2>1 DEF Extended
  <2>7. log[i] > (clock - Window) - MaxLag
    BY <1>1, <1>4, <2>5, <2>6
  <2>. QED
    BY <2>2, <2>3, <2>7
<1>7. v.started <= clock /\ (now < v.started + Window \/ v.started = now)
  <2>1. CASE Renewed(w, v, now)
    BY <2>1 DEF Renewed
  <2>2. CASE Extended(w, v, now)
    BY <1>1, <1>4, <2>2 DEF Extended, Fits
  <2>. QED
    BY <1>2, <2>1, <2>2
<1>8. PICK left \in Nat : left = RetryAfter(k, now)
  <2>1. Window - Elapsed(v, now) \in Nat
    BY <1>4, <1>7 DEF Elapsed
  <2>. QED
    BY <2>1 DEF RetryAfter
<1>9. now + left <= ends /\ ends <= now + left + MaxLag
  <2>1. left = Window - Elapsed(v, now)
    BY <1>8 DEF RetryAfter
  <2>2. ends = v.started + Window
    BY <1>3
  <2>3. CASE now < v.started
    <3>1. left = Window /\ v.started <= clock
      BY <1>4, <1>7, <2>1, <2>3 DEF Elapsed
    <3>. QED
      BY <1>1, <1>4, <2>2, <2>3, <3>1
  <2>4. CASE ~(now < v.started)
    <3>1. left = Window - (now - v.started)
      BY <2>1, <2>4 DEF Elapsed
    <3>. QED
      BY <1>4, <2>2, <3>1
  <2>. QED
    BY <2>3, <2>4
<1>10. seconds = left \div Second
  BY <1>8 DEF RetryAfterSeconds
<1>11. /\ seconds \in Nat /\ seconds * Second <= left /\ left < (seconds + 1) * Second
       /\ seconds * Second \in Nat /\ (seconds + 1) * Second \in Nat
  <2>1. seconds \in Nat /\ seconds * Second <= left /\ left < (seconds + 1) * Second
    BY <1>10, WholeSeconds
  <2>. QED
    BY <2>1, SecondAssumption
<1>12. ends \in Nat
  BY <1>3, <1>4
<1>. QED
  BY <1>4, <1>6, <1>9, <1>11, <1>12

\* Only the limiter answers 429 of the limiter.
LEMMA OnlyThrottlesThrottle ==
  ASSUME Ready, [DoorNext]_allVars, NEW q \in Attempt,
         door[q].stage # "idle", door'[q].status = "throttled"
  PROVE  ThrottleIp(q) \/ ThrottleAccount(q)
<1>0. /\ door \in [Attempt -> Handler] /\ door[q] \in Handler /\ Tidy(q)
      /\ door[q].status = "none"
  BY DEF Ready, HandlersFine, Tidy, HandlerIsSound
<1>1. door'[q] # door[q]
  BY <1>0
<1>2. \A status \in Status \ {"throttled"}, event \in Event, session \in BOOLEAN :
        door' # [door EXCEPT ![q] = Ended(status, event, session)]
  BY <1>0, HandlersAreRecords
<1>3. \A stage : door' # [door EXCEPT ![q].stage = stage]
  BY <1>0 DEF Handler
<1>4. DoorNext /\ door' # door
  BY <1>1 DEF allVars, doorVars
<1>5. ~Pass /\ ~Restart
  <2>1. ~Pass
    BY <1>4 DEF Pass, doorVars
  <2>2. ASSUME Restart
        PROVE  FALSE
    <3>1. PICK e, done :
            /\ done \in BOOLEAN
            /\ door'[q] = Ended("internal", e, done)
            /\ e # door[q].event => e \in {"none", EventOf(attempt[q].answer)}
      BY <1>0, <2>2, RestartLeaves DEF Stands
    <3>2. e \in Event /\ "internal" \in Status
      BY <1>0, <3>1 DEF Handler, Status, Event, EventOf
    <3>. QED
      BY <3>1, <3>2, HandlersAreRecords
  <2>. QED
    BY <2>1, <2>2
<1>6. PICK p \in Attempt :
        \/ \E i \in Ip, a \in Account \cup {Null}, right \in BOOLEAN : Knock(p, i, a, right)
        \/ Malformed(p) \/ ThrottleIp(p) \/ ThrottleAccount(p) \/ PassLimitOfIp(p)
        \/ EnterLogin(p) \/ InLogin(p) \/ Audit(p) \/ OpenSession(p) \/ Abandon(p)
  BY <1>4, <1>5 DEF DoorNext
<1>7. p = q
  <2>1. Moves(p)
    BY <1>6, KnockMoves, MalformedMoves, ThrottleMoves, PassLimitOfIpMoves, EnterLoginMoves,
       InLoginMoves, AuditMoves, OpenSessionMoves, AbandonMoves
  <2>. QED
    BY <1>1, <2>1 DEF Moves
<1>8. ~Malformed(q) /\ ~\E i \in Ip, a \in Account \cup {Null}, right \in BOOLEAN : Knock(q, i, a, right)
  BY DEF Malformed, Knock, Stands
<1>9. ~PassLimitOfIp(q) /\ ~InLogin(q)
  <2>1. ~PassLimitOfIp(q)
    BY <1>3 DEF PassLimitOfIp, Goes
  <2>2. InLogin(q) => Ends(q, "internal")
    BY <1>1, <1>3 DEF InLogin, Goes
  <2>3. ~Ends(q, "internal")
    BY <1>2 DEF Ends, Status, Event
  <2>. QED
    BY <2>1, <2>2, <2>3
<1>10. ~EnterLogin(q)
  <2>1. ASSUME EnterLogin(q)
        PROVE  FALSE
    <3>1. door'[q] = [NoHandler EXCEPT !.stage = "login"]
      BY <1>0, <2>1 DEF EnterLogin
    <3>. QED
      BY <3>1 DEF NoHandler
  <2>. QED
    BY <2>1
<1>11. ~OpenSession(q) /\ ~Abandon(q)
  <2>1. door[q].event \in Event /\ EventOf(attempt[q].answer) \in Event /\ "none" \in Event
        /\ {"ok", "internal"} \subseteq Status \ {"throttled"}
    BY <1>0, EventsAre DEF Handler, Event, Status
  <2>2. ~Abandon(q)
    BY <1>2, <2>1 DEF Abandon
  <2>3. ~OpenSession(q)
    <3>1. OpenSession(q) => \E status \in {"ok", "internal"}, done \in BOOLEAN :
                              door' = [door EXCEPT ![q] = Ended(status, door[q].event, done)]
      BY <1>0 DEF OpenSession
    <3>. QED
      BY <1>2, <2>1, <3>1
  <2>. QED
    BY <2>2, <2>3
<1>12. ~Audit(q)
  <2>1. ASSUME Audit(q)
        PROVE  FALSE
    <3>. DEFINE answer == attempt[q].answer
    <3>1. answer \in {"ok", "invalid", "locked"}
      BY <1>0, <2>1 DEF Audit, Stands, Tidy, HandlerIsSound
    <3>2. PICK e \in Event : door' = [door EXCEPT ![q] = IF answer = "ok"
                              THEN [@ EXCEPT !.stage = "starting", !.event = e]
                              ELSE Ended(answer, e, FALSE)]
      <4>1. "none" \in Event /\ EventOf(answer) \in Event
        BY EventsAre DEF Event
      <4>. QED
        BY <2>1, <4>1 DEF Audit
    <3>3. CASE answer = "ok"
      BY <1>0, <3>2, <3>3 DEF Handler
    <3>4. CASE answer # "ok"
      <4>1. door' = [door EXCEPT ![q] = Ended(answer, e, FALSE)]
        BY <3>2, <3>4
      <4>2. answer \in Status \ {"throttled"} /\ e \in Event
        BY <3>1, <3>2 DEF Status
      <4>. QED
        BY <1>2, <4>1, <4>2
    <3>. QED
      BY <3>3, <3>4
  <2>. QED
    BY <2>1
<1>. QED
  BY <1>6, <1>7, <1>8, <1>9, <1>10, <1>11, <1>12

\* A request is throttled only if its key had its share within the last window,
\* and Retry-After is the rest of the window in whole seconds.
THEOREM ThrottlesAlwaysEarned == DoorSpec => ThrottlesAreEarned
<1>1. DoorInvariant /\ [DoorNext]_allVars =>
        [\A q \in Attempt :
           door[q].stage # "idle" /\ door'[q].status = "throttled" =>
             LET k == IF Stands(q, "checking_ip") THEN door[q].ip ELSE door[q].account
                 seconds == RetryAfterSeconds(k, door[q].now)
                 ends == windows'[k].started + Window
             IN  /\ HadItsShare(k, (clock - Window) - MaxLag)
                 /\ door[q].now + seconds * Second <= ends
                 /\ ends < door[q].now + (seconds + 1) * Second + MaxLag]_allVars
  <2>. SUFFICES ASSUME DoorInvariant, [DoorNext]_allVars, NEW q \in Attempt,
                       door[q].stage # "idle", door'[q].status = "throttled",
                       NEW k, k = IF Stands(q, "checking_ip") THEN door[q].ip ELSE door[q].account,
                       NEW seconds, seconds = RetryAfterSeconds(k, door[q].now),
                       NEW ends, ends = windows'[k].started + Window
                PROVE  /\ HadItsShare(k, (clock - Window) - MaxLag)
                       /\ door[q].now + seconds * Second <= ends
                       /\ ends < door[q].now + (seconds + 1) * Second + MaxLag
    OBVIOUS
  <2>1. HandlersFine /\ LimiterFine /\ Ready
    BY DoorParts DEF LoginInvariant, Ready
  <2>2. ThrottleIp(q) \/ ThrottleAccount(q)
    BY <2>1, OnlyThrottlesThrottle
  <2>3. Throttle(q, k) /\ door[q].stage \in {"checking_ip", "checking_account"}
    BY <2>2 DEF ThrottleIp, ThrottleAccount, Stands
  <2>4. /\ k \in Key /\ door[q].now \in Nat /\ door[q].now <= clock
        /\ clock <= door[q].now + MaxLag
    BY <2>1, <2>3 DEF HandlersFine, Tidy, HandlerIsSound, Handler, Key
  <2>. QED
    BY <2>1, <2>3, <2>4, RefusalIsEarned DEF Throttle
<1>. QED
  BY <1>1, DoorIsInvariant, PTL DEF DoorSpec, ThrottlesAreEarned

(***************************************************************************)
(* The promises of the service, kept behind the door                       *)
(***************************************************************************)

\* A restart lets nobody in, and loses nothing that is stored.
LEMMA DoorVerifies ==
  ASSUME LoginInvariant, HandlersFine, [DoorNext]_allVars
  PROVE  \A q \in Attempt : Verified(q)
<1>1. CASE [Next]_state
  BY <1>1, StepVerifies
<1>2. CASE Restart
  <2>1. ASSUME NEW q \in Attempt
        PROVE  attempt'[q] = attempt[q] \/ attempt'[q].answer = "internal"
    BY <1>2 DEF Restart, Idle
  <2>. QED
    BY <2>1 DEF Verified
<1>3. CASE Bystands
  BY <1>3 DEF Bystands, Verified
<1>. QED
  BY <1>1, <1>2, <1>3, DoorMovesLogin

LEMMA DoorLosesNothing ==
  ASSUME LoginInvariant, HandlersFine, ReadsAreCurrent, CountsAreExact, AttemptsApart,
         [DoorNext]_allVars
  PROVE  LocksHold /\ ReadsAreCurrent' /\ CountsAreExact'
<1>1. CASE [Next]_state
  BY <1>1, ReadsStayCurrent, CurrentWritesLoseNothing
<1>2. ASSUME UNCHANGED counters
      PROVE  LocksHold /\ CountsAreExact'
  BY <1>2, LockFields DEF LocksHold, CountsAreExact, Holds, counters, LoginInvariant, TypeOK
<1>3. CASE Restart
  <2>1. ASSUME NEW q \in Attempt
        PROVE  attempt'[q].stage = "idle"
    BY <1>3 DEF Restart, Idle, At
  <2>2. ReadsAreCurrent'
    BY <2>1 DEF ReadsAreCurrent
  <2>. QED
    BY <1>2, <1>3, <2>2 DEF Restart
<1>4. CASE Bystands
  <2>1. ReadsAreCurrent'
    BY <1>4 DEF Bystands, counters, ReadsAreCurrent
  <2>. QED
    BY <1>2, <1>4, <2>1 DEF Bystands
<1>. QED
  BY <1>1, <1>3, <1>4, DoorMovesLogin

\* The door changes counters only through the service.
LEMMA DoorEarns ==
  ASSUME LoginInvariant, HandlersFine, [DoorNext]_allVars
  PROVE  /\ \A a \in Account :
              LET stale == \E q \in Attempt : Steps(q) /\ attempt[q].account = a /\ attempt[q].seen # accounts[a]
              IN  /\ Holds(accounts[a], accounts'[a]) \/ stale
                  /\ Earned(accounts[a], wrong[a], accounts'[a], wrong'[a]) \/ stale
         /\ \A i \in Ip :
              LET stale == \E q \in Attempt : Steps(q) /\ attempt[q].ip = i /\ attempt[q].ipSeen # addresses[i]
              IN  /\ Holds(addresses[i], addresses'[i]) \/ stale
                  /\ Earned(addresses[i], refused[i], addresses'[i], refused'[i]) \/ stale
<1>0. CountersFine /\ AttemptsFine /\ NumbersFine
  BY InvariantParts
<1>1. CASE [Next]_state
  BY <1>0, <1>1, StepRespectsLocks, StepEarns
<1>2. CASE UNCHANGED counters
  BY <1>0, <1>2, LockFields DEF CountersFine, counters, Holds, Earned
<1>3. Restart \/ Bystands => UNCHANGED counters
  BY DEF Restart, Bystands
<1>. QED
  BY <1>1, <1>2, <1>3, DoorMovesLogin

\* Behind a rate limiter and across restarts of the process the lockouts are what
\* they are for the service alone: sound, lifted early only by a stale attempt,
\* and of consecutive failures except where a stale attempt brings some back.
THEOREM LockoutsOutliveRestarts ==
  DoorSpec => []LocksAreSound /\ LockHoldsUnlessStale /\ EarnedUnlessStale
<1>1. DoorInvariant => LocksAreSound
  BY DEF DoorInvariant, LoginInvariant
<1>2. DoorInvariant /\ [DoorNext]_allVars =>
        [/\ \A a \in Account :
               \/ Holds(accounts[a], accounts'[a])
               \/ \E q \in Attempt : Steps(q) /\ attempt[q].account = a /\ attempt[q].seen # accounts[a]
         /\ \A i \in Ip :
               \/ Holds(addresses[i], addresses'[i])
               \/ \E q \in Attempt : Steps(q) /\ attempt[q].ip = i /\ attempt[q].ipSeen # addresses[i]]_state
  BY DoorParts, DoorEarns
<1>3. DoorInvariant /\ [DoorNext]_allVars =>
        [/\ \A a \in Account :
               \/ Earned(accounts[a], wrong[a], accounts'[a], wrong'[a])
               \/ \E q \in Attempt : Steps(q) /\ attempt[q].account = a /\ attempt[q].seen # accounts[a]
         /\ \A i \in Ip :
               \/ Earned(addresses[i], refused[i], addresses'[i], refused'[i])
               \/ \E q \in Attempt : Steps(q) /\ attempt[q].ip = i /\ attempt[q].ipSeen # addresses[i]]_state
  BY DoorParts, DoorEarns
<1>. QED
  BY <1>1, <1>2, <1>3, DoorIsInvariant, PTL DEF DoorSpec, LockHoldsUnlessStale, EarnedUnlessStale

\* A session is opened by a request whose attempt was let in, with the right
\* password and past both lockouts: neither the audit record nor the start of the
\* session, nor a restart in between, opens one for anybody else.
THEOREM SessionsAreOfTheVerified ==
  DoorSpec => /\ [](\A q \in Attempt : door[q].session => attempt[q].answer = "ok")
              /\ [][\A q \in Attempt : Verified(q)]_allVars
<1>1. DoorInvariant => \A q \in Attempt : door[q].session => attempt[q].answer = "ok"
  BY DEF DoorInvariant, AnswersAreAudited
<1>2. DoorInvariant /\ [DoorNext]_allVars => [\A q \in Attempt : Verified(q)]_allVars
  BY DoorParts, DoorVerifies
<1>. QED
  BY <1>1, <1>2, DoorIsInvariant, PTL DEF DoorSpec

\* Also across restarts of the process, the lockouts lose a failure, bring one
\* back or lift a lock only where attempts overlap: they are rows of the database,
\* and what dies with the process had been read, not written.
THEOREM RestartsLoseNothing ==
  DoorSpec /\ []AttemptsApart => []CountsAreExact /\ [][LocksHold]_allVars
<1>1. DoorInit => ReadsAreCurrent /\ CountsAreExact
  BY DEF DoorInit, Init, ReadsAreCurrent, Idle, CountsAreExact, Clear
<1>2. DoorInvariant /\ ReadsAreCurrent /\ CountsAreExact /\ AttemptsApart /\ [DoorNext]_allVars
        => ReadsAreCurrent' /\ CountsAreExact' /\ [LocksHold]_allVars
  BY DoorParts, DoorLosesNothing
<1>3. DoorInvariant /\ ReadsAreCurrent /\ CountsAreExact /\ AttemptsApart /\ UNCHANGED allVars
        => ReadsAreCurrent' /\ CountsAreExact'
  BY DoorParts, DoorLosesNothing
<1>. QED
  BY <1>1, <1>2, <1>3, DoorIsInvariant, PTL DEF DoorSpec
=============================================================================
