------------------------------ MODULE FrontDoor ------------------------------
(***************************************************************************)
(* POST /auth/login from the socket to the answer: the rate limiter, the   *)
(* login service with its lockouts, the audit record and the session, for  *)
(* concurrent requests to one process that may restart.  The limiter is    *)
(* the process's memory, the lockouts are the database's.                  *)
(***************************************************************************)
EXTENDS Login, RateLimiter, Sequences

CONSTANTS
  MaxArrivals,   \* a bound on the requests of a TLC run
  MaxLag         \* ticks between a handler's clock reading and its checks:
                 \* it does not await in between

ASSUME FrontDoorAssumption ==
  /\ MaxArrivals \in Nat /\ MaxLag \in Nat
  /\ Ip \cap (Account \cup {Null}) = {}

VARIABLES
  door,       \* [Attempt -> the handler of the request, or its answer]
  admitted,   \* history: [Key -> the instants of its admissions]
  arrivals    \* requests so far

doorVars == <<door, admitted, arrivals, windows>>
allVars == <<state, doorVars>>

\* "ip:" and "acct:" keys; Null is the key of an email without an account.
Key == Ip \cup Account \cup {Null}

DoorStage == {"idle", "checking_ip", "checking_account", "login", "auditing", "starting"}

\* The status of the response: 200, 401, 422, 429 of a lockout, 429 of the
\* limiter, 500 or none.
Status == {"none", "ok", "invalid", "malformed", "locked", "throttled", "internal"}

Event == {"none", "login_succeeded", "login_failed", "locked_out"}

Handler == [stage : DoorStage, ip : Ip \cup {Null}, account : Account \cup {Null},
            right : BOOLEAN, now : Nat, status : Status, event : Event, session : BOOLEAN]

NoHandler == [stage |-> "idle", ip |-> Null, account |-> Null, right |-> FALSE, now |-> 0,
              status |-> "none", event |-> "none", session |-> FALSE]

DoorTypeOK ==
  /\ TypeOK
  /\ door \in [Attempt -> Handler]
  /\ windows \in [Key -> [count : Nat, started : Nat]]
  /\ admitted \in [Key -> Seq(Nat)] /\ arrivals \in Nat

DoorInit ==
  /\ Init
  /\ door = [q \in Attempt |-> NoHandler]
  /\ windows = [k \in Key |-> NoWindow]
  /\ admitted = [k \in Key |-> <<>>] /\ arrivals = 0

Stands(q, stage) == door[q].stage = stage
Goes(q, stage) == door' = [door EXCEPT ![q].stage = stage]

\* The answer is sent; what the handler held is dropped.
Ended(status, event, session) ==
  [NoHandler EXCEPT !.status = status, !.event = event, !.session = session]
Ends(q, status) == door' = [door EXCEPT ![q] = Ended(status, "none", FALSE)]

\* The shape is fine: the handler reads the clock.
Knock(q, i, a, right) ==
  /\ Stands(q, "idle") /\ arrivals < MaxArrivals
  /\ a = Null => ~right
  /\ arrivals' = arrivals + 1
  /\ door' = [door EXCEPT ![q] =
       [NoHandler EXCEPT !.stage = "checking_ip", !.ip = i, !.account = a,
                         !.right = right, !.now = clock]]
  /\ UNCHANGED <<state, windows, admitted>>

\* 422: not an email address, or an empty password.
Malformed(q) ==
  /\ Stands(q, "idle") /\ arrivals < MaxArrivals
  /\ arrivals' = arrivals + 1
  /\ door' = [door EXCEPT ![q] = [NoHandler EXCEPT !.status = "malformed"]]
  /\ UNCHANGED <<state, windows, admitted>>

Admit(k) == admitted' = [admitted EXCEPT ![k] = Append(@, clock)]

\* The limiter refuses the key: counted all the same, and nothing else happens.
Throttle(q, k) ==
  /\ ~Admits(k, door[q].now)
  /\ Count(k, door[q].now)
  /\ Ends(q, "throttled")
  /\ UNCHANGED <<state, admitted, arrivals>>

ThrottleIp(q) == Stands(q, "checking_ip") /\ Throttle(q, door[q].ip)
ThrottleAccount(q) == Stands(q, "checking_account") /\ Throttle(q, door[q].account)

PassLimitOfIp(q) ==
  LET k == door[q].ip IN
  /\ Stands(q, "checking_ip") /\ Admits(k, door[q].now)
  /\ Count(k, door[q].now) /\ Admit(k)
  /\ Goes(q, "checking_account")
  /\ UNCHANGED <<state, arrivals>>

\* Both keys are charged: the request reaches the login service.
EnterLogin(q) ==
  LET r == door[q] IN
  /\ Stands(q, "checking_account") /\ Admits(r.account, r.now)
  /\ Count(r.account, r.now) /\ Admit(r.account)
  /\ Start(q, r.ip, r.account, r.right)
  /\ door' = [door EXCEPT ![q] = [NoHandler EXCEPT !.stage = "login"]]
  /\ UNCHANGED arrivals

\* The service makes its next call; its answer decides how the handler goes on.
InLogin(q) ==
  /\ Stands(q, "login")
  /\ RejectIp(q) \/ PassIp(q) \/ ReadAccount(q) \/ RecordAccount(q) \/ RecordIp(q) \/ Interrupt(q)
  /\ \/ attempt'[q].stage # "idle" /\ UNCHANGED door
     \/ /\ attempt'[q].stage = "idle"
        /\ \/ attempt'[q].answer = "internal" /\ Ends(q, "internal")
           \/ attempt'[q].answer # "internal" /\ Goes(q, "auditing")
  /\ UNCHANGED <<windows, admitted, arrivals>>

\* Mutant: a lockout is recorded as a failed login.
EventOf_Coarse(answer) ==
  CASE answer = "ok" -> "login_succeeded"
    [] answer \in {"invalid", "locked"} -> "login_failed"
    [] OTHER -> "none"

EventOf(answer) ==
  CASE answer = "ok" -> "login_succeeded"
    [] answer = "invalid" -> "login_failed"
    [] answer = "locked" -> "locked_out"
    [] OTHER -> "none"

\* Best-effort: the request goes on, or ends, whether or not the event is
\* stored.
Audit(q) ==
  LET answer == attempt[q].answer
      Onward(e) == door' = [door EXCEPT ![q] =
        IF answer = "ok" THEN [@ EXCEPT !.stage = "starting", !.event = e] ELSE Ended(answer, e, FALSE)]
  IN  /\ Stands(q, "auditing")
      /\ \/ Onward(EventOf(answer)) /\ Works
         \/ Onward("none") /\ Fails
      /\ UNCHANGED <<counters, attempt, tries, clock, windows, admitted, arrivals>>

\* SessionService::start: 200 with the cookies, or 500 if the INSERT fails.
OpenSession(q) ==
  /\ Stands(q, "starting")
  /\ \/ door' = [door EXCEPT ![q] = Ended("ok", @.event, TRUE)] /\ Works
     \/ /\ \E done \in BOOLEAN : door' = [door EXCEPT ![q] = Ended("internal", @.event, done)]
        /\ Fails
  /\ UNCHANGED <<counters, attempt, tries, clock, windows, admitted, arrivals>>

\* The client hangs up while its event is stored.
Abandon(q) ==
  /\ Stands(q, "auditing")
  /\ \E e \in {"none", EventOf(attempt[q].answer)} :
       door' = [door EXCEPT ![q] = Ended("internal", e, FALSE)]
  /\ Fails
  /\ UNCHANGED <<counters, attempt, tries, clock, windows, admitted, arrivals>>

\* What may be left of a request whose process is killed: the database may have
\* executed the statement it was waiting for.
Remains(q) ==
  LET r == door[q] IN
  CASE r.stage = "idle" -> {r}
    [] r.stage = "auditing" -> {Ended("internal", e, FALSE) : e \in {"none", EventOf(attempt[q].answer)}}
    [] r.stage = "starting" -> {Ended("internal", r.event, done) : done \in BOOLEAN}
    [] OTHER -> {Ended("internal", r.event, FALSE)}

\* The process dies and comes back: requests and windows are gone, the tables
\* are not.  (A counter that is still written is an Interrupt just before.)
Restart ==
  /\ windows' = [k \in Key |-> NoWindow]
  /\ admitted' = [k \in Key |-> <<>>]
  /\ \E remains \in [Attempt -> UNION {Remains(q) : q \in Attempt}] :
       /\ \A q \in Attempt : remains[q] \in Remains(q)
       /\ door' = remains
  /\ attempt' = [q \in Attempt |->
       IF At(q, "idle") THEN attempt[q]
       ELSE Idle(attempt[q].ip, attempt[q].account, "internal")]
  /\ Fails
  /\ UNCHANGED <<counters, tries, clock, arrivals>>

\* Time passes, but not while a handler is about to check its keys.
Pass ==
  /\ \A q \in Attempt :
       door[q].stage \in {"checking_ip", "checking_account"} => clock - door[q].now < MaxLag
  /\ Tick
  /\ UNCHANGED doorVars

DoorNext ==
  \/ Pass \/ Restart
  \/ \E q \in Attempt :
       \/ \E i \in Ip, a \in Account \cup {Null}, right \in BOOLEAN : Knock(q, i, a, right)
       \/ Malformed(q) \/ ThrottleIp(q) \/ ThrottleAccount(q) \/ PassLimitOfIp(q)
       \/ EnterLogin(q) \/ InLogin(q) \/ Audit(q) \/ OpenSession(q) \/ Abandon(q)

DoorSpec == DoorInit /\ [][DoorNext]_allVars

(***************************************************************************)
(* Properties                                                              *)
(***************************************************************************)

\* Two adjacent windows admit up to twice the maximum, and no span as long as a
\* window ever admits more: one admission too many comes that much later than the
\* first, although handlers check with instants that others have overtaken.  (A
\* handler may be MaxLag behind, so the span is shorter by that.)  A restart
\* forgets what was admitted.
AtMostTwoWindows ==
  \A k \in Key : \A i \in DOMAIN admitted[k] :
    i + 2 * MaxRequests \in DOMAIN admitted[k] =>
      admitted[k][i + 2 * MaxRequests] - admitted[k][i] >= Window - MaxLag

\* The key had its share of admissions after the instant.
HadItsShare(k, since) ==
  MaxRequests > 0 =>
    /\ Len(admitted[k]) >= MaxRequests
    /\ admitted[k][(Len(admitted[k]) - MaxRequests) + 1] > since

\* A request is throttled only if its key really had its share within the last
\* window, and the Retry-After of a 429 is what is left of the window, cut off to
\* whole seconds: a second more is enough.
ThrottlesAreEarned ==
  [][\A q \in Attempt :
       door[q].stage # "idle" /\ door'[q].status = "throttled" =>
         LET k == IF Stands(q, "checking_ip") THEN door[q].ip ELSE door[q].account
             seconds == RetryAfterSeconds(k, door[q].now)
             ends == windows'[k].started + Window
         IN  /\ HadItsShare(k, (clock - Window) - MaxLag)
             /\ door[q].now + seconds * Second <= ends
             /\ ends < door[q].now + (seconds + 1) * Second + MaxLag]_allVars

\* The trail says what the service answered, and a session is opened only for an
\* attempt the service let in.  As long as nothing fails, every answer of the
\* service has its event and every success its session; a throttled or
\* malformed request never has either.
AnswersAreAudited ==
  \A q \in Attempt :
    LET r == door[q] IN
      /\ r.status \in {"throttled", "malformed"} => r.event = "none" /\ ~r.session
      /\ r.event # "none" => r.event = EventOf(attempt[q].answer)
      /\ r.session => attempt[q].answer = "ok"
      /\ r.status = "ok" => r.session
      /\ faults = 0 /\ Stands(q, "idle") =>
           /\ r.event # "none" <=> r.status \in {"ok", "invalid", "locked"}
           /\ r.session <=> r.status = "ok"
           /\ r.status = "locked" <=> r.event = "locked_out"

(***************************************************************************)
(* The inductive invariant of the proofs: how far the service is when the  *)
(* handler waits for it, and which admissions the current window counts.   *)
(***************************************************************************)

HandlerIsSound(q) ==
  LET r == door[q]
      answer == attempt[q].answer
  IN
  /\ Stands(q, "login") <=> ~At(q, "idle")
  /\ r.stage \in {"checking_ip", "checking_account"} =>
       r.ip \in Ip /\ r.now <= clock /\ clock <= r.now + MaxLag
  /\ r.stage # "idle" => r.status = "none" /\ ~r.session
  /\ r.stage \in {"checking_ip", "checking_account", "login", "auditing"} => r.event = "none"
  /\ r.stage = "auditing" => answer \in {"ok", "invalid", "locked"}
  /\ r.stage = "starting" =>
       /\ answer = "ok" /\ r.event \in {"none", EventOf(answer)}
       /\ faults = 0 => r.event = EventOf(answer)

\* The last admissions of a key are those its window counts; the others had the
\* window before, and what is older than the maximum of one window the one
\* before that.
WindowIsSound(k) ==
  LET w == windows[k]
      log == admitted[k]
      counted == IF w.count < MaxRequests THEN w.count ELSE MaxRequests
  IN
  /\ w.count = 0 => log = <<>>
  /\ w.count > 0 => w.started <= clock
  /\ counted <= Len(log)
  /\ \A i \in DOMAIN log :
       /\ log[i] <= clock
       /\ i > Len(log) - counted => log[i] >= w.started
       /\ i <= Len(log) - counted => log[i] <= w.started + MaxLag
       /\ i <= (Len(log) - counted) - MaxRequests => log[i] + Window <= w.started + MaxLag

DoorInvariant ==
  /\ LoginInvariant /\ DoorTypeOK /\ AnswersAreAudited /\ AtMostTwoWindows
  /\ \A q \in Attempt : HandlerIsSound(q)
  /\ \A k \in Key : WindowIsSound(k)
=============================================================================
