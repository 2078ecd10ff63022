------------------------------ MODULE Sessions ------------------------------
(***************************************************************************)
(* SessionService and the middleware and logout handler over it: requests  *)
(* of one or more browsers authenticate, log out, rotate and sign in       *)
(* concurrently.  Each request reads the clock once, when it arrives, and  *)
(* runs two or three statements one await apart.                           *)
(***************************************************************************)
EXTENDS SessionStore, Faults

CONSTANTS
  Request,    \* concurrent requests
  MaxTime     \* a bound on the clock of a TLC run

ASSUME MaxTimeAssumption == MaxTime \in Nat
ASSUME AdminAssumption == "unused" \notin Admin /\ "ended" \notin Admin

VARIABLES
  clock,      \* the server's clock
  jar,        \* tokens that were sent in a cookie, and may come back at any time
  request     \* [Request -> the request in progress, or its answer]

state == <<sessions, clock, jar, request, faults>>

Kind == {"sign_in", "visit", "logout", "rotate"}

\* Where a request stands: the statement it runs next.
Stage == {"idle", "finding", "expiring", "touching", "revoking", "replacing", "inserting"}

Answer == {"none", "issued", "ok", "unauthorized", "expired", "forbidden", "logged_out", "failed"}

NoRequest == [stage |-> "idle", kind |-> "visit", token |-> Null, header |-> Null,
              now |-> 0, admin |-> Null, from |-> Null, answer |-> "none"]

InProgress == [stage : Stage, kind : Kind, token : Token \cup {Null}, header : Token \cup {Null},
               now : Nat, admin : Admin \cup {Null}, from : Token \cup {Null}, answer : Answer]

TypeOK ==
  /\ StoreTypeOK
  /\ clock \in Nat /\ faults \in Nat
  /\ jar \subseteq Token
  /\ request \in [Request -> InProgress]

Init ==
  /\ StoreInit /\ FaultsInit
  /\ clock = 0
  /\ jar = {}
  /\ request = [q \in Request |-> NoRequest]

At(q, stage) == request[q].stage = stage

Continue(q, stage) == request' = [request EXCEPT ![q].stage = stage]

\* The request is over; what it asked for and what it was answered stays visible
\* until the next one.
Reply(q, answer) ==
  request' = [request EXCEPT ![q] = [@ EXCEPT !.stage = "idle", !.answer = answer,
                                             !.now = 0, !.admin = Null]]

\* Mutant: a token that is drawn but not stored yet counts as fresh.
Fresh_Stored(t) == opened[t] = NotOpened

\* A token no one has drawn: the generator's 256 random bits do not repeat.
Fresh(t) ==
  /\ opened[t] = NotOpened
  /\ \A q \in Request : At(q, "inserting") => request[q].token # t

\* start, up to its INSERT, for the admin a login has just authenticated.
SignIn(q, a, t) ==
  /\ At(q, "idle") /\ Fresh(t)
  /\ request' = [request EXCEPT ![q] =
       [NoRequest EXCEPT !.stage = "inserting", !.kind = "sign_in", !.token = t,
                         !.now = clock, !.admin = a]]
  /\ Works
  /\ UNCHANGED <<sessions, clock, jar>>

\* The INSERT of start; the cookies leave with the response.
Insert(q) ==
  /\ At(q, "inserting")
  /\ InsertSession(request[q].token, request[q].admin, request[q].now, request[q].from)
  /\ jar' = jar \cup {request[q].token}
  /\ Reply(q, "issued")
  /\ Works
  /\ UNCHANGED clock

\* A request with a session cookie reaches authenticate, which reads the clock.
Arrive(q, kind, t, header) ==
  /\ At(q, "idle") /\ t \in jar
  /\ kind \in {"visit", "logout", "rotate"}
  /\ kind # "logout" => header = Null
  /\ request' = [request EXCEPT ![q] =
       [NoRequest EXCEPT !.stage = "finding", !.kind = kind, !.token = t,
                         !.header = header, !.now = clock]]
  /\ Works
  /\ UNCHANGED <<sessions, clock, jar>>

\* find: no row, 401.
FindNothing(q) ==
  /\ At(q, "finding") /\ rows[request[q].token] = NoRow
  /\ Reply(q, "unauthorized")
  /\ Works
  /\ UNCHANGED <<sessions, clock, jar>>

\* find: a row that is_expired rejects at the instant of arrival.
FindExpired(q) ==
  /\ At(q, "finding") /\ rows[request[q].token] # NoRow
  /\ IsExpired(rows[request[q].token], request[q].now)
  /\ Continue(q, "expiring")
  /\ Works
  /\ UNCHANGED <<sessions, clock, jar>>

\* find: a live row, whose identity the request carries from here on.
FindLive(q) ==
  /\ At(q, "finding") /\ rows[request[q].token] # NoRow
  /\ ~IsExpired(rows[request[q].token], request[q].now)
  /\ request' = [request EXCEPT ![q].stage = "touching",
                                ![q].admin = rows[request[q].token].admin]
  /\ Works
  /\ UNCHANGED <<sessions, clock, jar>>

\* The clean-up of an expired row; its failure is ignored.
DeleteExpired(q) ==
  /\ At(q, "expiring")
  /\ \/ DeleteSession(request[q].token) /\ Works
     \/ UNCHANGED sessions /\ Fails
  /\ Reply(q, "expired")
  /\ UNCHANGED <<clock, jar>>

\* What the middleware and the handler do once the session is authenticated: a
\* GET runs its handler and is answered, a logout needs the session's CSRF
\* token first.
Authenticated(q) ==
  CASE request[q].kind = "rotate" -> Continue(q, "replacing")
    [] request[q].kind = "logout" /\ request[q].header = request[q].token -> Continue(q, "revoking")
    [] request[q].kind = "logout" /\ request[q].header # request[q].token -> Reply(q, "forbidden")
    [] OTHER -> Reply(q, "ok")

\* The idle window slides; authenticate returns.
Touch(q) ==
  /\ At(q, "touching")
  /\ TouchSession(request[q].token, request[q].now)
  /\ Authenticated(q)
  /\ Works
  /\ UNCHANGED <<clock, jar>>

\* logout_handler: a failure of revoke is ignored, the cookies are cleared and
\* the answer is 204 either way.
Revoke(q) ==
  /\ At(q, "revoking")
  /\ \/ DeleteSession(request[q].token) /\ Works
     \/ UNCHANGED sessions /\ Fails
  /\ Reply(q, "logged_out")
  /\ UNCHANGED <<clock, jar>>

\* The request goes on as a start for the same admin.
Restart(q, t) ==
  request' = [request EXCEPT ![q].stage = "inserting", ![q].token = t,
                             ![q].from = request[q].token, ![q].now = clock]

\* Mutant: rotate forgets to delete the old session.
Replace_Keeps(q, t) ==
  /\ At(q, "replacing") /\ Fresh(t)
  /\ Restart(q, t)
  /\ Works
  /\ UNCHANGED <<sessions, clock, jar>>

\* Mutant: rotate starts a session for nobody.
Replace_Forgets(q, t) ==
  /\ At(q, "replacing") /\ Fresh(t)
  /\ DeleteSession(request[q].token)
  /\ request' = [request EXCEPT ![q] =
       [NoRequest EXCEPT !.stage = "inserting", !.kind = "rotate", !.token = t,
                         !.from = request[q].token, !.now = clock]]
  /\ Works
  /\ UNCHANGED <<clock, jar>>

\* rotate: the old session is deleted, then start draws a new token and reads
\* the clock again.
Replace(q, t) ==
  /\ At(q, "replacing") /\ Fresh(t)
  /\ DeleteSession(request[q].token)
  /\ Restart(q, t)
  /\ Works
  /\ UNCHANGED <<clock, jar>>

\* The statement a request was about to run, executed without its answer.
Executed(q) ==
  \/ At(q, "inserting") /\
       InsertSession(request[q].token, request[q].admin, request[q].now, request[q].from)
  \/ At(q, "touching") /\ TouchSession(request[q].token, request[q].now)
  \/ request[q].stage \in {"expiring", "revoking", "replacing"} /\ DeleteSession(request[q].token)

\* A statement fails where its error is not ignored, or the request is dropped
\* at its await; the database may have executed the statement.  The middleware
\* answers 401 to any error of authenticate.
Interrupt(q) ==
  /\ ~At(q, "idle")
  /\ UNCHANGED sessions \/ Executed(q)
  /\ Reply(q, IF request[q].stage \in {"finding", "touching"} THEN "unauthorized" ELSE "failed")
  /\ Fails
  /\ UNCHANGED <<clock, jar>>

Tick ==
  /\ clock < MaxTime
  /\ clock' = clock + 1
  /\ UNCHANGED <<sessions, jar, request, faults>>

Next ==
  \/ Tick
  \/ \E q \in Request :
       \/ Insert(q) \/ FindNothing(q) \/ FindExpired(q) \/ FindLive(q) \/ DeleteExpired(q)
       \/ Touch(q) \/ Revoke(q) \/ Interrupt(q)
       \/ \E t \in Token :
            \/ Replace(q, t)
            \/ \E a \in Admin : SignIn(q, a, t)
            \/ \E kind \in Kind, header \in {t, Null} : Arrive(q, kind, t, header)

Spec == Init /\ [][Next]_state

(***************************************************************************)
(* One token, one holder, one life                                         *)
(***************************************************************************)

Granted(q) == request[q].stage \in {"touching", "revoking", "replacing"}

\* Sessions are opened and ended as SessionLife says: touching never brings a
\* deleted row back, a token never changes hands, rotation hands over to the
\* same admin only through a new token, and a request acts for the holder of a
\* session that was live when it was found.
Life == INSTANCE SessionLife WITH
  Unused <- "unused", Ended <- "ended",
  holder <- [t \in Token |-> IF rows[t] # NoRow THEN rows[t].admin
                             ELSE IF opened[t] = NotOpened THEN "unused" ELSE "ended"],
  grant <- [q \in Request |-> IF Granted(q) THEN request[q].admin ELSE Null]

LifeSpec == Life!Spec

\* A row is that of the opening its token is known by.
RowsMatch ==
  \A t \in Token : rows[t] # NoRow => opened[t] # NotOpened /\ rows[t].admin = opened[t].admin

\* What a request holds between two of its statements.
Sound(r) ==
  /\ r.stage # "idle" => r.token \in Token
  /\ r.stage \in Stage \ {"idle", "inserting"} => opened[r.token] # NotOpened
  /\ r.stage \in {"touching", "revoking", "replacing"} => r.admin = opened[r.token].admin
  /\ r.stage = "inserting" =>
       /\ opened[r.token] = NotOpened
       /\ r.admin \in Admin
       /\ r.from # Null => opened[r.from] # NotOpened /\ opened[r.from].admin = r.admin

DrawsDistinct ==
  \A q, r \in Request :
    q # r /\ At(q, "inserting") /\ At(r, "inserting") => request[q].token # request[r].token

\* Whoever is past find acts for the admin the session was opened for, also
\* when the session has ended since; a rotation opens the next session for that
\* same admin; two requests never open one token.
Provenance ==
  /\ RowsMatch
  /\ \A t \in jar : opened[t] # NotOpened
  /\ \A q \in Request : Sound(request[q])
  /\ DrawsDistinct

(***************************************************************************)
(* Expiry                                                                  *)
(***************************************************************************)

\* The stored deadlines are never later than the true ones.
DeadlinesHold ==
  \A t \in Token : rows[t] # NoRow =>
    /\ rows[t].expires <= opened[t].at + AbsoluteTimeout
    /\ rows[t].lastSeen <= lastUse[t]

Finds(q, stage) == At(q, "finding") /\ request'[q].stage = stage

\* A session is accepted only within both of its timeouts, counted from its
\* true opening and its true last use: whole seconds, requests that touch the
\* row in the wrong order and lost touches only ever shorten it.
AcceptedInTime ==
  [][\A q \in Request : Finds(q, "touching") =>
       LET t == request[q].token IN
         /\ request[q].now < opened[t].at + AbsoluteTimeout
         /\ request[q].now < lastUse[t] + IdleTimeout]_state

\* A session is rejected as expired, and deleted, only when one of its timeouts
\* has passed, to within the second that storage cuts off: unless the request was
\* overtaken by one that came later, or the last use is not in the row because
\* its touch failed or an older touch came after it.
ExpiredOnlyWhenDue ==
  [][\A q \in Request : Finds(q, "expiring") =>
       LET t == request[q].token
           now == request[q].now
       IN \/ now + Second > opened[t].at + AbsoluteTimeout
          \/ now + Second > lastUse[t] + IdleTimeout
          \/ now < lastUse[t]
          \/ rows[t].lastSeen # Stored(lastUse[t])]_state

(***************************************************************************)
(* Logout and rotation                                                     *)
(***************************************************************************)

\* Who was told that a session is over can rely on it as long as nothing has
\* failed: after a logout's 204, and after a rotation's new cookies, the old
\* token has no row, however late a concurrent touch, clean-up or rotation comes.
EndedUnlessFailed ==
  faults = 0 => \A q \in Request : At(q, "idle") =>
    /\ request[q].answer = "logged_out" => rows[request[q].token] = NoRow
    /\ request[q].answer = "issued" /\ request[q].from # Null => rows[request[q].from] = NoRow
=============================================================================
