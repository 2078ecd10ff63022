--------------------------- MODULE SessionsProofs ---------------------------
(***************************************************************************)
(* Proofs about Sessions for any number of tokens, admins and requests,    *)
(* any timeouts and any fault budget: the invariants hold, sessions follow *)
(* SessionLife, and nothing is accepted after its timeouts.                *)
(***************************************************************************)
EXTENDS Sessions, TLAPS

\* A row is not the absence of a row.
LEMMA RowsAreRows ==
  /\ \A row \in Row : row # NoRow
  /\ \A o \in Opening : o # NotOpened
  BY SessionAssumption, SecondAssumption DEF Row, NoRow, Opening, NotOpened

\* The invariant that is inductive; Provenance and DeadlinesHold need each other's
\* types only, and are kept together because the same statements move both.
SessionInvariant == TypeOK /\ Provenance /\ DeadlinesHold

StoreInvariant == StoreTypeOK /\ RowsMatch /\ DeadlinesHold

(***************************************************************************)
(* The statements                                                          *)
(***************************************************************************)

\* The INSERT of a token that was never opened.
LEMMA InsertKeeps ==
  ASSUME StoreInvariant, NEW t \in Token, NEW a \in Admin, NEW now \in Nat,
         NEW from \in Token \cup {Null}, InsertSession(t, a, now, from)
  PROVE  /\ StoreInvariant'
         /\ opened' \in [Token -> Opening \cup {NotOpened}]
         /\ opened'[t] # NotOpened
         /\ \A u \in Token \ {t} : opened'[u] = opened[u]
<1>1. Stored(now) \in Nat /\ Stored(now) <= now
  BY StoredIsEarlier
<1>2. Stored(now + AbsoluteTimeout) \in Nat /\ Stored(now + AbsoluteTimeout) <= now + AbsoluteTimeout
  BY StoredIsEarlier, SessionAssumption, SecondAssumption
<1>3. StoreTypeOK'
  BY <1>1, <1>2 DEF StoreInvariant, StoreTypeOK, InsertSession, Row, Opening
<1>4. /\ opened'[t] = [admin |-> a, at |-> now, from |-> from]
      /\ opened'[t] # NotOpened
      /\ \A u \in Token \ {t} : opened'[u] = opened[u]
  BY RowsAreRows DEF StoreInvariant, StoreTypeOK, InsertSession, Opening
<1>5. /\ rows'[t] = [admin |-> a, lastSeen |-> Stored(now), expires |-> Stored(now + AbsoluteTimeout)]
      /\ \A u \in Token \ {t} : rows'[u] = rows[u]
      /\ lastUse'[t] = now
      /\ \A u \in Token \ {t} : lastUse'[u] = lastUse[u]
  BY DEF StoreInvariant, StoreTypeOK, InsertSession
<1>6. RowsMatch'
  BY <1>4, <1>5 DEF StoreInvariant, RowsMatch
<1>7. DeadlinesHold'
  BY <1>1, <1>2, <1>4, <1>5 DEF StoreInvariant, DeadlinesHold
<1>. QED
  BY <1>3, <1>4, <1>6, <1>7 DEF StoreInvariant, StoreTypeOK

LEMMA DeleteKeeps ==
  ASSUME StoreInvariant, NEW t \in Token, DeleteSession(t)
  PROVE  StoreInvariant' /\ opened' = opened
<1>1. \A u \in Token : rows'[u] # NoRow => u # t /\ rows'[u] = rows[u]
  BY DEF StoreInvariant, StoreTypeOK, DeleteSession
<1>2. StoreTypeOK'
  BY DEF StoreInvariant, StoreTypeOK, DeleteSession
<1>. QED
  BY <1>1, <1>2 DEF StoreInvariant, RowsMatch, DeadlinesHold, DeleteSession

\* The UPDATE never creates a row and never changes its holder or its ceiling.
LEMMA TouchKeeps ==
  ASSUME StoreInvariant, NEW t \in Token, NEW now \in Nat, TouchSession(t, now)
  PROVE  /\ StoreInvariant' /\ opened' = opened
         /\ \A u \in Token : /\ rows'[u] = NoRow <=> rows[u] = NoRow
                             /\ rows[u] # NoRow => rows'[u].admin = rows[u].admin
<1>1. Stored(now) \in Nat /\ Stored(now) <= now
  BY StoredIsEarlier
<1>2. \A u \in Token \ {t} : rows'[u] = rows[u] /\ lastUse'[u] = lastUse[u]
  BY DEF StoreInvariant, StoreTypeOK, TouchSession
<1>3. lastUse'[t] \in Nat /\ lastUse'[t] >= now /\ lastUse'[t] >= lastUse[t]
  BY DEF StoreInvariant, StoreTypeOK, TouchSession
<1>4. CASE rows[t] = NoRow
  <2>1. rows' = rows
    BY <1>4 DEF TouchSession
  <2>2. StoreTypeOK'
    BY <2>1 DEF StoreInvariant, StoreTypeOK, TouchSession
  <2>. QED
    BY <1>2, <1>4, <2>1, <2>2 DEF StoreInvariant, RowsMatch, DeadlinesHold, TouchSession
<1>5. CASE rows[t] # NoRow
  <2>1. rows[t] \in Row
    BY <1>5 DEF StoreInvariant, StoreTypeOK
  <2>2. rows' = [rows EXCEPT ![t] = [rows[t] EXCEPT !.lastSeen = Stored(now)]]
    BY <1>5 DEF TouchSession
  <2>3. /\ [rows[t] EXCEPT !.lastSeen = Stored(now)] \in Row
        /\ [rows[t] EXCEPT !.lastSeen = Stored(now)].admin = rows[t].admin
        /\ [rows[t] EXCEPT !.lastSeen = Stored(now)].expires = rows[t].expires
        /\ [rows[t] EXCEPT !.lastSeen = Stored(now)].lastSeen = Stored(now)
    BY <1>1, <2>1 DEF Row
  <2>4. rows'[t] = [rows[t] EXCEPT !.lastSeen = Stored(now)]
    BY <2>2 DEF StoreInvariant, StoreTypeOK
  <2>5. rows'[t] # NoRow
    BY <2>3, <2>4, RowsAreRows
  <2>6. StoreTypeOK'
    BY <2>2, <2>3 DEF StoreInvariant, StoreTypeOK, TouchSession
  <2>7. RowsMatch'
    BY <1>2, <1>5, <2>3, <2>4 DEF StoreInvariant, RowsMatch, TouchSession
  <2>8. DeadlinesHold'
    <3>1. rows'[t].expires <= opened'[t].at + AbsoluteTimeout
      BY <1>5, <2>3, <2>4 DEF StoreInvariant, DeadlinesHold, TouchSession
    <3>2. rows'[t].lastSeen <= lastUse'[t]
      BY <1>1, <1>3, <2>3, <2>4
    <3>3. opened' = opened
      BY DEF TouchSession
    <3>. QED
      BY <1>2, <3>1, <3>2, <3>3 DEF StoreInvariant, DeadlinesHold
  <2>. QED
    BY <1>2, <1>5, <2>3, <2>4, <2>5, <2>6, <2>7, <2>8 DEF StoreInvariant, TouchSession
<1>. QED
  BY <1>4, <1>5

(***************************************************************************)
(* The requests                                                            *)
(***************************************************************************)

RequestInvariant ==
  /\ request \in [Request -> InProgress]
  /\ jar \subseteq Token
  /\ \A t \in jar : opened[t] # NotOpened
  /\ \A q \in Request : Sound(request[q])
  /\ DrawsDistinct

\* A request moves on to a sound next stage while no session is opened.
LEMMA MoveKeeps ==
  ASSUME RequestInvariant, UNCHANGED <<opened, jar>>,
         NEW q \in Request, NEW next \in InProgress,
         request' = [request EXCEPT ![q] = next],
         Sound(next),
         next.stage = "inserting" =>
           \A r \in Request : At(r, "inserting") => request[r].token # next.token
  PROVE  RequestInvariant'
<1>1. request' \in [Request -> InProgress]
  BY DEF RequestInvariant
<1>2. \A r \in Request \ {q} : request'[r] = request[r]
  BY DEF RequestInvariant
<1>3. request'[q] = next
  BY DEF RequestInvariant
<1>4. \A r \in Request : Sound(request[r])'
  BY <1>2, <1>3 DEF RequestInvariant, Sound
<1>5. DrawsDistinct'
  BY <1>2, <1>3 DEF RequestInvariant, DrawsDistinct, At
<1>. QED
  BY <1>1, <1>4, <1>5 DEF RequestInvariant

\* A request ends, having opened its token or none.
LEMMA ReplyKeeps ==
  ASSUME RequestInvariant, NEW q \in Request, NEW answer \in Answer, Reply(q, answer),
         jar' \subseteq Token,
         \A t \in jar' : t \in jar \/ opened'[t] # NotOpened,
         \A t \in Token :
           \/ opened'[t] = opened[t]
           \/ At(q, "inserting") /\ t = request[q].token /\ opened'[t] # NotOpened
  PROVE  RequestInvariant'
<1> DEFINE next == [request[q] EXCEPT !.stage = "idle", !.answer = answer, !.now = 0, !.admin = Null]
<1>1. request[q] \in InProgress
  BY DEF RequestInvariant
<1>2. next \in InProgress /\ next.stage = "idle"
  BY <1>1 DEF InProgress, Stage
<1>3. request' = [request EXCEPT ![q] = next]
  BY DEF Reply
<1>4. /\ request' \in [Request -> InProgress]
      /\ request'[q] = next
      /\ \A r \in Request \ {q} : request'[r] = request[r]
  BY <1>2, <1>3 DEF RequestInvariant
<1>5. \A t \in Token : opened[t] # NotOpened => opened'[t] = opened[t]
  BY DEF RequestInvariant, Sound, At
<1>6. \A t \in jar' : opened'[t] # NotOpened
  BY <1>5 DEF RequestInvariant
<1>7. ASSUME NEW r \in Request
      PROVE  Sound(request[r])'
  <2>1. CASE r = q
    BY <1>2, <1>4, <2>1 DEF Sound
  <2>2. CASE r # q
    <3>1. request'[r] = request[r] /\ request[r] \in InProgress /\ Sound(request[r])
      BY <1>4, <2>2 DEF RequestInvariant
    <3>2. request[r].stage # "idle" => request[r].token \in Token
      BY <3>1 DEF Sound
    <3>3. request[r].from # Null => request[r].from \in Token
      BY <3>1 DEF InProgress
    <3>4. At(r, "inserting") => opened'[request[r].token] = opened[request[r].token]
      BY <2>2, <3>1, <3>2 DEF RequestInvariant, DrawsDistinct, At
    <3>5. request[r].stage # "idle" /\ opened[request[r].token] # NotOpened =>
            opened'[request[r].token] = opened[request[r].token]
      BY <1>5, <3>2
    <3>6. request[r].from # Null /\ opened[request[r].from] # NotOpened =>
            opened'[request[r].from] = opened[request[r].from]
      BY <1>5, <3>3
    <3>7. Sound(request[r])'
            <=> /\ request[r].stage # "idle" => request[r].token \in Token
                /\ request[r].stage \in Stage \ {"idle", "inserting"} => opened'[request[r].token] # NotOpened
                /\ request[r].stage \in {"touching", "revoking", "replacing"} =>
                     request[r].admin = opened'[request[r].token].admin
                /\ request[r].stage = "inserting" =>
                     /\ opened'[request[r].token] = NotOpened
                     /\ request[r].admin \in Admin
                     /\ request[r].from # Null =>
                          opened'[request[r].from] # NotOpened /\ opened'[request[r].from].admin = request[r].admin
      BY <3>1 DEF Sound
    <3>. QED
      BY <3>1, <3>4, <3>5, <3>6, <3>7 DEF Sound, At, Stage
  <2>. QED
    BY <2>1, <2>2
<1>8. DrawsDistinct'
  <2>1. \A r \in Request : request'[r].stage = "inserting" => r # q /\ request'[r] = request[r]
    BY <1>2, <1>4
  <2>. QED
    BY <2>1 DEF RequestInvariant, DrawsDistinct, At
<1>. QED
  BY <1>4, <1>6, <1>7, <1>8 DEF RequestInvariant

LEMMA InvariantParts ==
  SessionInvariant <=> StoreInvariant /\ RequestInvariant /\ clock \in Nat /\ faults \in Nat
BY DEF SessionInvariant, TypeOK, Provenance, StoreInvariant, RequestInvariant

\* Whatever statement a request may run, executed or not.
LEMMA StatementKeeps ==
  ASSUME StoreInvariant, RequestInvariant, NEW q \in Request,
         UNCHANGED sessions \/ Executed(q)
  PROVE  /\ StoreInvariant'
         /\ \A t \in Token :
              \/ opened'[t] = opened[t]
              \/ At(q, "inserting") /\ t = request[q].token /\ opened'[t] # NotOpened
<1>1. request[q] \in InProgress /\ Sound(request[q])
  BY DEF RequestInvariant
<1>2. CASE UNCHANGED sessions
  BY <1>2 DEF StoreInvariant, StoreTypeOK, RowsMatch, DeadlinesHold, sessions
<1>3. CASE /\ At(q, "inserting")
           /\ InsertSession(request[q].token, request[q].admin, request[q].now, request[q].from)
  <2>1. /\ request[q].token \in Token /\ request[q].admin \in Admin
        /\ request[q].now \in Nat /\ request[q].from \in Token \cup {Null}
    BY <1>1, <1>3 DEF At, Sound, InProgress
  <2>. QED
    BY <1>3, <2>1, InsertKeeps
<1>4. CASE At(q, "touching") /\ TouchSession(request[q].token, request[q].now)
  <2>1. request[q].token \in Token /\ request[q].now \in Nat
    BY <1>1, <1>4 DEF At, Sound, InProgress
  <2>. QED
    BY <1>4, <2>1, TouchKeeps
<1>5. CASE request[q].stage \in {"expiring", "revoking", "replacing"} /\ DeleteSession(request[q].token)
  <2>1. request[q].token \in Token
    BY <1>1, <1>5 DEF Sound
  <2>. QED
    BY <1>5, <2>1, DeleteKeeps
<1>. QED
  BY <1>2, <1>3, <1>4, <1>5 DEF Executed

\* A step that ends a request, whichever it is.
LEMMA EndingKeeps ==
  ASSUME SessionInvariant, NEW q \in Request, NEW answer \in Answer,
         UNCHANGED sessions \/ Executed(q), Reply(q, answer),
         \/ UNCHANGED jar
         \/ jar' = jar \cup {request[q].token} /\ At(q, "inserting") /\ Executed(q),
         clock' = clock, faults' \in Nat
  PROVE  SessionInvariant'
<1>1. StoreInvariant /\ RequestInvariant /\ clock \in Nat
  BY InvariantParts
<1>2. /\ StoreInvariant'
      /\ \A t \in Token :
           \/ opened'[t] = opened[t]
           \/ At(q, "inserting") /\ t = request[q].token /\ opened'[t] # NotOpened
  BY <1>1, StatementKeeps
<1>3. /\ jar' \subseteq Token
      /\ \A t \in jar' : t \in jar \/ opened'[t] # NotOpened
  <2>1. CASE UNCHANGED jar
    BY <1>1, <2>1 DEF RequestInvariant
  <2>2. CASE jar' = jar \cup {request[q].token} /\ At(q, "inserting") /\ Executed(q)
    <3>1. /\ request[q].token \in Token /\ request[q].admin \in Admin
          /\ request[q].now \in Nat /\ request[q].from \in Token \cup {Null}
      BY <1>1, <2>2 DEF RequestInvariant, At, Sound, InProgress
    <3>2. InsertSession(request[q].token, request[q].admin, request[q].now, request[q].from)
      BY <2>2 DEF Executed, At
    <3>3. opened'[request[q].token] # NotOpened
      BY <1>1, <3>1, <3>2, InsertKeeps
    <3>. QED
      BY <1>1, <2>2, <3>1, <3>3 DEF RequestInvariant
  <2>. QED
    BY <2>1, <2>2
<1>4. RequestInvariant'
  BY <1>1, <1>2, <1>3, ReplyKeeps
<1>. QED
  BY <1>1, <1>2, <1>4 DEF SessionInvariant, TypeOK, Provenance, StoreInvariant, RequestInvariant

LEMMA InitSafe == Init => SessionInvariant
<1> SUFFICES ASSUME Init PROVE SessionInvariant
  OBVIOUS
<1>1. StoreTypeOK /\ faults \in Nat /\ clock \in Nat /\ jar \subseteq Token
  BY DEF Init, StoreInit, FaultsInit, StoreTypeOK
<1>2. NoRequest \in InProgress
  BY DEF NoRequest, InProgress, Stage, Kind, Answer
<1>3. \A q \in Request : request[q] = NoRequest /\ request[q].stage = "idle"
  BY DEF Init, NoRequest
<1>4. TypeOK
  BY <1>1, <1>2 DEF Init, TypeOK
<1>5. Provenance
  BY <1>3 DEF Init, StoreInit, Provenance, RowsMatch, Sound, DrawsDistinct, At
<1>6. DeadlinesHold
  BY DEF Init, StoreInit, DeadlinesHold
<1>. QED
  BY <1>4, <1>5, <1>6 DEF SessionInvariant

\* A step that takes a request to its next statement.
LEMMA AdvanceKeeps ==
  ASSUME SessionInvariant, StoreInvariant', UNCHANGED <<opened, jar>>,
         NEW q \in Request, NEW next \in InProgress,
         request' = [request EXCEPT ![q] = next],
         Sound(next),
         next.stage = "inserting" =>
           \A r \in Request : At(r, "inserting") => request[r].token # next.token,
         clock' \in Nat, faults' \in Nat
  PROVE  SessionInvariant'
<1>1. RequestInvariant'
  BY MoveKeeps, InvariantParts
<1>. QED
  BY <1>1 DEF SessionInvariant, TypeOK, Provenance, StoreInvariant, RequestInvariant

LEMMA StoreStutters ==
  ASSUME StoreInvariant, UNCHANGED sessions
  PROVE  StoreInvariant'
BY DEF StoreInvariant, StoreTypeOK, RowsMatch, DeadlinesHold, sessions

LEMMA FaultsCount ==
  ASSUME faults \in Nat, Works \/ Fails
  PROVE  faults' \in Nat
BY DEF Works, Fails

\* Touch, for a request that goes on or is answered.
LEMMA TouchStep ==
  ASSUME SessionInvariant, NEW q \in Request, Touch(q)
  PROVE  SessionInvariant'
<1>1. StoreInvariant /\ RequestInvariant /\ clock \in Nat /\ faults \in Nat
  BY InvariantParts
<1>2. request[q] \in InProgress /\ Sound(request[q]) /\ request[q].stage = "touching"
  BY <1>1 DEF RequestInvariant, Touch, At
<1>3. Executed(q) /\ faults' \in Nat /\ clock' = clock /\ UNCHANGED jar
  BY <1>1, FaultsCount DEF Touch, Executed
<1>4. CASE \E answer \in Answer : Reply(q, answer)
  BY <1>3, <1>4, EndingKeeps
<1>5. CASE \E stage \in {"revoking", "replacing"} : Continue(q, stage)
  <2>1. PICK stage \in {"revoking", "replacing"} : Continue(q, stage)
    BY <1>5
  <2> DEFINE next == [request[q] EXCEPT !.stage = stage]
  <2>2. request' = [request EXCEPT ![q] = next]
    BY <2>1 DEF Continue
  <2>3. next \in InProgress /\ next.stage = stage /\ next.token = request[q].token /\ next.admin = request[q].admin
    BY <1>2 DEF InProgress, Stage
  <2>4. Sound(next)
    BY <1>2, <2>3 DEF Sound, Stage
  <2>5. StoreInvariant' /\ opened' = opened
    <3>1. request[q].token \in Token /\ request[q].now \in Nat
      BY <1>2 DEF Sound, InProgress
    <3>. QED
      BY <1>1, <3>1, TouchKeeps DEF Touch
  <2> HIDE DEF next
  <2>. QED
    BY <1>1, <1>3, <2>2, <2>3, <2>4, <2>5, AdvanceKeeps
<1>6. (\E answer \in Answer : Reply(q, answer)) \/ \E stage \in {"revoking", "replacing"} : Continue(q, stage)
  <2>1. Authenticated(q)
    BY DEF Touch
  <2>. QED
    BY <2>1 DEF Authenticated, Answer
<1>. QED
  BY <1>4, <1>5, <1>6

\* The statements of a rotation between authenticate and start.
LEMMA ReplaceStep ==
  ASSUME SessionInvariant, NEW q \in Request, NEW t \in Token, Replace(q, t)
  PROVE  SessionInvariant'
<1>1. StoreInvariant /\ RequestInvariant /\ clock \in Nat /\ faults \in Nat
  BY InvariantParts
<1>2. request[q] \in InProgress /\ Sound(request[q]) /\ request[q].stage = "replacing"
  BY <1>1 DEF RequestInvariant, Replace, At
<1>3. request[q].token \in Token /\ opened[request[q].token] # NotOpened
      /\ request[q].admin = opened[request[q].token].admin
  BY <1>2 DEF Sound, Stage
<1>4. StoreInvariant' /\ opened' = opened
  BY <1>1, <1>3, DeleteKeeps DEF Replace
<1> DEFINE next == [request[q] EXCEPT !.stage = "inserting", !.token = t,
                                      !.from = request[q].token, !.now = clock]
<1>5. request' = [request EXCEPT ![q] = next]
  BY DEF Replace, Restart
<1>6. /\ next \in InProgress /\ next.stage = "inserting" /\ next.token = t
      /\ next.from = request[q].token /\ next.admin = request[q].admin
  BY <1>1, <1>2, <1>3 DEF InProgress, Stage
<1>7. opened[request[q].token].admin \in Admin
  BY <1>1, <1>3 DEF StoreInvariant, StoreTypeOK, Opening
<1>8. Sound(next)
  BY <1>3, <1>6, <1>7 DEF Sound, Replace, Fresh
<1>9. \A r \in Request : At(r, "inserting") => request[r].token # next.token
  BY <1>6 DEF Replace, Fresh
<1>10. UNCHANGED jar /\ clock' = clock /\ faults' \in Nat
  BY <1>1, FaultsCount DEF Replace
<1> HIDE DEF next
<1>. QED
  BY <1>1, <1>4, <1>5, <1>6, <1>8, <1>9, <1>10, AdvanceKeeps

LEMMA SignInStep ==
  ASSUME SessionInvariant, NEW q \in Request, NEW a \in Admin, NEW t \in Token, SignIn(q, a, t)
  PROVE  SessionInvariant'
<1>1. StoreInvariant /\ RequestInvariant /\ clock \in Nat /\ faults \in Nat
  BY InvariantParts
<1> DEFINE next == [NoRequest EXCEPT !.stage = "inserting", !.kind = "sign_in", !.token = t,
                                     !.now = clock, !.admin = a]
<1>2. /\ next \in InProgress /\ next.stage = "inserting" /\ next.token = t
      /\ next.from = Null /\ next.admin = a
  BY <1>1 DEF NoRequest, InProgress, Stage, Kind, Answer
<1>3. Sound(next)
  BY <1>2 DEF Sound, SignIn, Fresh
<1>4. \A r \in Request : At(r, "inserting") => request[r].token # next.token
  BY <1>2 DEF SignIn, Fresh
<1>5. request' = [request EXCEPT ![q] = next]
  BY DEF SignIn
<1>6. StoreInvariant' /\ UNCHANGED <<opened, jar>> /\ clock' = clock /\ faults' \in Nat
  BY <1>1, StoreStutters, FaultsCount DEF SignIn, sessions
<1> HIDE DEF next
<1>. QED
  BY <1>1, <1>2, <1>3, <1>4, <1>5, <1>6, AdvanceKeeps

LEMMA ArriveStep ==
  ASSUME SessionInvariant, NEW q \in Request, NEW t \in Token, NEW kind \in Kind,
         NEW header \in {t, Null}, Arrive(q, kind, t, header)
  PROVE  SessionInvariant'
<1>1. StoreInvariant /\ RequestInvariant /\ clock \in Nat /\ faults \in Nat
  BY InvariantParts
<1> DEFINE next == [NoRequest EXCEPT !.stage = "finding", !.kind = kind, !.token = t,
                                     !.header = header, !.now = clock]
<1>2. next \in InProgress /\ next.stage = "finding" /\ next.token = t
  BY <1>1 DEF NoRequest, InProgress, Stage, Kind, Answer
<1>3. Sound(next)
  BY <1>1, <1>2 DEF Sound, Arrive, RequestInvariant, Stage
<1>4. request' = [request EXCEPT ![q] = next]
  BY DEF Arrive
<1>5. StoreInvariant' /\ UNCHANGED <<opened, jar>> /\ clock' = clock /\ faults' \in Nat
  BY <1>1, StoreStutters, FaultsCount DEF Arrive, sessions
<1> HIDE DEF next
<1>. QED
  BY <1>1, <1>2, <1>3, <1>4, <1>5, AdvanceKeeps

\* find, when there is a row: what the request learns about it.
LEMMA FindStep ==
  ASSUME SessionInvariant, NEW q \in Request, FindExpired(q) \/ FindLive(q)
  PROVE  SessionInvariant'
<1>1. StoreInvariant /\ RequestInvariant /\ clock \in Nat /\ faults \in Nat
  BY InvariantParts
<1>2. request[q] \in InProgress /\ Sound(request[q]) /\ request[q].stage = "finding"
  BY <1>1 DEF RequestInvariant, FindExpired, FindLive, At
<1>3. /\ request[q].token \in Token /\ opened[request[q].token] # NotOpened
      /\ rows[request[q].token] # NoRow
      /\ rows[request[q].token].admin = opened[request[q].token].admin
      /\ rows[request[q].token].admin \in Admin
  BY <1>1, <1>2 DEF Sound, Stage, FindExpired, FindLive, StoreInvariant, RowsMatch, StoreTypeOK, Row
<1>4. StoreInvariant' /\ UNCHANGED <<opened, jar>> /\ clock' = clock /\ faults' \in Nat
  BY <1>1, StoreStutters, FaultsCount DEF FindExpired, FindLive, sessions
<1>5. CASE FindExpired(q)
  <2> DEFINE next == [request[q] EXCEPT !.stage = "expiring"]
  <2>1. next \in InProgress /\ next.stage = "expiring" /\ next.token = request[q].token
    BY <1>2 DEF InProgress, Stage
  <2>2. Sound(next)
    BY <1>3, <2>1 DEF Sound
  <2>3. request' = [request EXCEPT ![q] = next]
    BY <1>5 DEF FindExpired, Continue
  <2> HIDE DEF next
  <2>. QED
    BY <1>1, <1>4, <2>1, <2>2, <2>3, AdvanceKeeps
<1>6. CASE FindLive(q)
  <2> DEFINE next == [request[q] EXCEPT !.stage = "touching", !.admin = rows[request[q].token].admin]
  <2>1. /\ next \in InProgress /\ next.stage = "touching" /\ next.token = request[q].token
        /\ next.admin = rows[request[q].token].admin
    BY <1>2, <1>3 DEF InProgress, Stage
  <2>2. Sound(next)
    BY <1>3, <2>1 DEF Sound
  <2>3. request' = [request EXCEPT ![q] = next]
    BY <1>6 DEF FindLive
  <2> HIDE DEF next
  <2>. QED
    BY <1>1, <1>4, <2>1, <2>2, <2>3, AdvanceKeeps
<1>. QED
  BY <1>5, <1>6

\* The steps that answer a request or drop it.
LEMMA LastStep ==
  ASSUME SessionInvariant, NEW q \in Request,
         Insert(q) \/ FindNothing(q) \/ DeleteExpired(q) \/ Revoke(q) \/ Interrupt(q)
  PROVE  SessionInvariant'
<1>1. faults' \in Nat
  BY InvariantParts, FaultsCount DEF Insert, FindNothing, DeleteExpired, Revoke, Interrupt
<1>2. CASE Insert(q)
  <2>1. Executed(q) /\ Reply(q, "issued") /\ "issued" \in Answer
    BY <1>2 DEF Insert, Executed, Answer
  <2>. QED
    BY <1>1, <1>2, <2>1, EndingKeeps DEF Insert
<1>3. CASE FindNothing(q)
  <2>1. UNCHANGED sessions /\ Reply(q, "unauthorized") /\ "unauthorized" \in Answer
    BY <1>3 DEF FindNothing, Answer
  <2>. QED
    BY <1>1, <1>3, <2>1, EndingKeeps DEF FindNothing
<1>4. CASE DeleteExpired(q)
  <2>1. (UNCHANGED sessions \/ Executed(q)) /\ Reply(q, "expired") /\ "expired" \in Answer
    BY <1>4 DEF DeleteExpired, Executed, Answer, At
  <2>. QED
    BY <1>1, <1>4, <2>1, EndingKeeps DEF DeleteExpired
<1>5. CASE Revoke(q)
  <2>1. (UNCHANGED sessions \/ Executed(q)) /\ Reply(q, "logged_out") /\ "logged_out" \in Answer
    BY <1>5 DEF Revoke, Executed, Answer, At
  <2>. QED
    BY <1>1, <1>5, <2>1, EndingKeeps DEF Revoke
<1>6. CASE Interrupt(q)
  <2>1. PICK answer \in Answer : Reply(q, answer)
    BY <1>6 DEF Interrupt, Answer
  <2>. QED
    BY <1>1, <1>6, <2>1, EndingKeeps DEF Interrupt
<1>. QED
  BY <1>2, <1>3, <1>4, <1>5, <1>6

\* What the model promises in every state: types, provenance and deadlines.
THEOREM SessionsAreSafe == Spec => []SessionInvariant
<1>1. Init => SessionInvariant
  BY InitSafe
<1>2. SessionInvariant /\ [Next]_state => SessionInvariant'
  <2> SUFFICES ASSUME SessionInvariant, [Next]_state PROVE SessionInvariant'
    OBVIOUS
  <2>1. CASE UNCHANGED state
    BY <2>1 DEF state, sessions, SessionInvariant, TypeOK, StoreTypeOK, Provenance, RowsMatch, Sound,
                DrawsDistinct, At, DeadlinesHold
  <2>2. CASE Tick
    <3>1. clock' \in Nat
      BY <2>2 DEF Tick, SessionInvariant, TypeOK
    <3>. QED
      BY <2>2, <3>1 DEF Tick, sessions, SessionInvariant, TypeOK, StoreTypeOK, Provenance, RowsMatch,
                        Sound, DrawsDistinct, At, DeadlinesHold
  <2>3. ASSUME NEW q \in Request,
               \/ Insert(q) \/ FindNothing(q) \/ FindExpired(q) \/ FindLive(q)
               \/ DeleteExpired(q) \/ Touch(q) \/ Revoke(q) \/ Interrupt(q)
        PROVE  SessionInvariant'
    BY <2>3, LastStep, FindStep, TouchStep
  <2>4. ASSUME NEW q \in Request, NEW t \in Token,
               \/ Replace(q, t)
               \/ \E a \in Admin : SignIn(q, a, t)
               \/ \E kind \in Kind, header \in {t, Null} : Arrive(q, kind, t, header)
        PROVE  SessionInvariant'
    BY <2>4, ReplaceStep, SignInStep, ArriveStep
  <2>. QED
    BY <2>1, <2>2, <2>3, <2>4 DEF Next
<1>. QED
  BY <1>1, <1>2, PTL DEF Spec

\* Every variable keeps its type.
THEOREM SessionTypes == Spec => []TypeOK
BY SessionsAreSafe, PTL DEF SessionInvariant

\* Rows, requests in flight and cookies agree on whose session is whose.
THEOREM ProvenanceHolds == Spec => []Provenance
BY SessionsAreSafe, PTL DEF SessionInvariant

\* What is stored never lets a session outlive its timeouts.
THEOREM DeadlinesAlwaysHold == Spec => []DeadlinesHold
BY SessionsAreSafe, PTL DEF SessionInvariant

(***************************************************************************)
(* Sessions implements SessionLife, and accepts nothing after its          *)
(* timeouts.  Each statement is one move of a token's life or none; each   *)
(* step of a request grants it the holder of a live session, takes the     *)
(* grant back, or leaves it.                                               *)
(***************************************************************************)

Holder == [t \in Token |-> IF rows[t] # NoRow THEN rows[t].admin
                           ELSE IF opened[t] = NotOpened THEN "unused" ELSE "ended"]
GrantOf == [q \in Request |-> IF Granted(q) THEN request[q].admin ELSE Null]

HolderStep ==
  \/ UNCHANGED Holder
  \/ \E t \in Token : Life!End(t) \/ \E a \in Admin : Life!Open(t, a)
GrantStep ==
  \/ UNCHANGED GrantOf
  \/ \E q \in Request : Life!Release(q) \/ \E t \in Token : Life!Grant(q, t)

\* The holder changes only as the two tables of the token say.
LEMMA HolderIsLocal ==
  ASSUME NEW t \in Token,
         \A u \in Token \ {t} : rows'[u] = rows[u] /\ opened'[u] = opened[u]
  PROVE  Holder' = [Holder EXCEPT ![t] = Holder'[t]]
BY DEF Holder

\* Any statement of a request is a move of SessionLife's holder.
LEMMA StatementsMoveHolder ==
  ASSUME StoreInvariant, RequestInvariant, NEW q \in Request,
         UNCHANGED sessions \/ Executed(q)
  PROVE  HolderStep
<1>1. request[q] \in InProgress /\ Sound(request[q])
  BY DEF RequestInvariant
<1>2. CASE UNCHANGED sessions
  BY <1>2 DEF sessions, Holder, HolderStep
<1>3. CASE /\ At(q, "inserting")
           /\ InsertSession(request[q].token, request[q].admin, request[q].now, request[q].from)
  <2> DEFINE t == request[q].token
             a == request[q].admin
  <2>1. /\ t \in Token /\ a \in Admin /\ request[q].now \in Nat
        /\ request[q].from \in Token \cup {Null} /\ opened[t] = NotOpened
    BY <1>1, <1>3 DEF At, Sound, InProgress
  <2>2. rows[t] = NoRow
    BY <2>1 DEF StoreInvariant, RowsMatch
  <2>3. /\ rows'[t] # NoRow /\ rows'[t].admin = a
        /\ \A u \in Token \ {t} : rows'[u] = rows[u] /\ opened'[u] = opened[u]
    <3> HIDE DEF t, a
    <3>1. rows'[t] = [admin |-> a, lastSeen |-> Stored(request[q].now),
                      expires |-> Stored(request[q].now + AbsoluteTimeout)]
      BY <1>3, <2>1 DEF StoreInvariant, StoreTypeOK, InsertSession, t, a
    <3>2. \A u \in Token \ {t} : rows'[u] = rows[u] /\ opened'[u] = opened[u]
      BY <1>3, <2>1 DEF StoreInvariant, StoreTypeOK, InsertSession, t, a
    <3>. QED
      BY <2>1, <3>1, <3>2, SessionAssumption, SecondAssumption DEF NoRow
  <2> HIDE DEF t, a
  <2>4. Holder[t] = "unused" /\ Holder'[t] = a
    BY <2>1, <2>2, <2>3 DEF Holder
  <2>5. Holder' = [Holder EXCEPT ![t] = a]
    BY <2>1, <2>3, <2>4, HolderIsLocal
  <2>. QED
    BY <2>1, <2>4, <2>5 DEF Life!Open, Holder, HolderStep
<1>4. CASE At(q, "touching") /\ TouchSession(request[q].token, request[q].now)
  <2>1. request[q].token \in Token /\ request[q].now \in Nat
    BY <1>1, <1>4 DEF At, Sound, InProgress
  <2>2. /\ opened' = opened
        /\ \A u \in Token : /\ rows'[u] = NoRow <=> rows[u] = NoRow
                            /\ rows[u] # NoRow => rows'[u].admin = rows[u].admin
    BY <1>4, <2>1, TouchKeeps
  <2>3. Holder' = Holder
    BY <2>2 DEF Holder
  <2>. QED
    BY <2>3 DEF HolderStep
<1>5. CASE request[q].stage \in {"expiring", "revoking", "replacing"} /\ DeleteSession(request[q].token)
  <2> DEFINE t == request[q].token
  <2>1. t \in Token /\ opened[t] # NotOpened
    BY <1>1, <1>5 DEF Sound, Stage
  <2>2. rows'[t] = NoRow /\ opened' = opened /\ \A u \in Token \ {t} : rows'[u] = rows[u]
    BY <1>5, <2>1 DEF StoreInvariant, StoreTypeOK, DeleteSession
  <2> HIDE DEF t
  <2>3. Holder'[t] = "ended"
    BY <2>1, <2>2 DEF Holder
  <2>4. Holder' = [Holder EXCEPT ![t] = "ended"]
    BY <2>1, <2>2, <2>3, HolderIsLocal
  <2>5. CASE rows[t] = NoRow
    <3>1. Holder[t] = "ended" /\ Holder = [u \in Token |-> Holder[u]]
      BY <2>1, <2>5 DEF Holder
    <3>2. Holder' = Holder
      BY <2>1, <2>4, <3>1
    <3>. QED
      BY <3>2 DEF HolderStep
  <2>6. CASE rows[t] # NoRow
    <3>1. Holder[t] \in Admin
      BY <2>1, <2>6 DEF Holder, StoreInvariant, StoreTypeOK, Row
    <3>. QED
      BY <2>1, <2>4, <3>1 DEF Life!End, Holder, HolderStep
  <2>. QED
    BY <2>5, <2>6
<1>. QED
  BY <1>2, <1>3, <1>4, <1>5 DEF Executed

\* A request that does not come to act for anyone keeps its grant or loses it.
LEMMA GrantsEnd ==
  ASSUME NEW q \in Request,
         \A r \in Request \ {q} : request'[r] = request[r],
         Granted(q)' => Granted(q) /\ request'[q].admin = request[q].admin
  PROVE  GrantStep
<1>1. \A r \in Request \ {q} : GrantOf'[r] = GrantOf[r]
  BY DEF GrantOf, Granted
<1>2. CASE Granted(q)'
  <2>1. GrantOf' = GrantOf
    BY <1>1, <1>2 DEF GrantOf, Granted
  <2>. QED
    BY <2>1 DEF GrantStep
<1>3. CASE ~Granted(q)'
  <2>1. GrantOf' = [GrantOf EXCEPT ![q] = Null]
    BY <1>1, <1>3 DEF GrantOf, Granted
  <2>. QED
    BY <2>1 DEF Life!Release, GrantOf, GrantStep
<1>. QED
  BY <1>2, <1>3

\* The only step that grants is the find of a live row.
LEMMA FindGrants ==
  ASSUME StoreInvariant, RequestInvariant, NEW q \in Request, FindLive(q)
  PROVE  GrantStep
<1> DEFINE t == request[q].token
<1>1. t \in Token /\ rows[t] # NoRow /\ rows[t].admin \in Admin
  BY DEF FindLive, RequestInvariant, Sound, At, StoreInvariant, StoreTypeOK, Row
<1>2. /\ request'[q].stage = "touching" /\ request'[q].admin = rows[t].admin
      /\ \A r \in Request \ {q} : request'[r] = request[r]
  BY DEF FindLive, RequestInvariant, InProgress
<1> HIDE DEF t
<1>3. Holder[t] = rows[t].admin
  BY <1>1 DEF Holder
<1>4. GrantOf' = [GrantOf EXCEPT ![q] = Holder[t]]
  BY <1>2, <1>3 DEF GrantOf, Granted
<1>. QED
  BY <1>1, <1>3, <1>4 DEF Life!Grant, Holder, GrantOf, GrantStep

\* A request that arrives, signs in or replaces its session has its find or its
\* INSERT ahead of it, and leaves the others alone.
LEMMA BeginsOrGoesOn ==
  ASSUME request \in [Request -> InProgress], NEW q \in Request, NEW t \in Token,
         \/ Replace(q, t)
         \/ \E a \in Admin : SignIn(q, a, t)
         \/ \E kind \in Kind, header \in {t, Null} : Arrive(q, kind, t, header)
  PROVE  /\ \A r \in Request \ {q} : request'[r] = request[r]
         /\ request'[q].stage \in {"inserting", "finding"}
<1>1. CASE Replace(q, t)
  BY <1>1 DEF Replace, Restart, InProgress
<1>2. CASE \E a \in Admin : SignIn(q, a, t)
  <2>1. PICK a \in Admin : SignIn(q, a, t)
    BY <1>2
  <2>. QED
    BY <2>1 DEF SignIn, NoRequest
<1>3. CASE \E kind \in Kind, header \in {t, Null} : Arrive(q, kind, t, header)
  <2>1. PICK kind \in Kind, header \in {t, Null} : Arrive(q, kind, t, header)
    BY <1>3
  <2>. QED
    BY <2>1 DEF Arrive, NoRequest
<1>. QED
  BY <1>1, <1>2, <1>3

\* Every other step of a request.
LEMMA OthersGrantNothing ==
  ASSUME RequestInvariant, NEW q \in Request,
         \/ Insert(q) \/ FindNothing(q) \/ FindExpired(q) \/ DeleteExpired(q)
         \/ Touch(q) \/ Revoke(q) \/ Interrupt(q)
         \/ \E t \in Token :
              \/ Replace(q, t)
              \/ \E a \in Admin : SignIn(q, a, t)
              \/ \E kind \in Kind, header \in {t, Null} : Arrive(q, kind, t, header)
  PROVE  GrantStep
<1>1. request \in [Request -> InProgress]
  BY DEF RequestInvariant
<1>2. ASSUME NEW answer, Reply(q, answer)
      PROVE  /\ \A r \in Request \ {q} : request'[r] = request[r]
             /\ ~Granted(q)'
  BY <1>1, <1>2 DEF Reply, Granted, InProgress
<1>3. ASSUME NEW stage \in {"expiring", "revoking", "replacing"}, Continue(q, stage)
      PROVE  /\ \A r \in Request \ {q} : request'[r] = request[r]
             /\ request'[q].admin = request[q].admin /\ request'[q].stage = stage
  BY <1>1, <1>3 DEF Continue, InProgress
<1>4. CASE Insert(q) \/ FindNothing(q) \/ DeleteExpired(q) \/ Revoke(q) \/ Interrupt(q)
  <2>1. \E answer : Reply(q, answer)
    BY <1>4 DEF Insert, FindNothing, DeleteExpired, Revoke, Interrupt
  <2>. QED
    BY <1>2, <2>1, GrantsEnd
<1>5. CASE FindExpired(q)
  <2>1. Continue(q, "expiring")
    BY <1>5 DEF FindExpired
  <2>2. \A r \in Request \ {q} : request'[r] = request[r]
    BY <1>3, <2>1
  <2>3. request'[q].stage = "expiring"
    BY <1>3, <2>1
  <2>4. ~Granted(q)'
    BY <2>3 DEF Granted
  <2>. QED
    BY <2>2, <2>4, GrantsEnd
<1>6. CASE Touch(q)
  <2>1. Granted(q)
    BY <1>6 DEF Touch, At, Granted
  <2>2. (\E answer : Reply(q, answer)) \/ \E stage \in {"revoking", "replacing"} : Continue(q, stage)
    BY <1>6 DEF Touch, Authenticated
  <2>. QED
    BY <1>2, <1>3, <2>1, <2>2, GrantsEnd
<1>7. ASSUME NEW t \in Token,
             \/ Replace(q, t)
             \/ \E a \in Admin : SignIn(q, a, t)
             \/ \E kind \in Kind, header \in {t, Null} : Arrive(q, kind, t, header)
      PROVE  GrantStep
  <2>1. /\ \A r \in Request \ {q} : request'[r] = request[r]
        /\ request'[q].stage \in {"inserting", "finding"}
    BY <1>1, <1>7, BeginsOrGoesOn
  <2>2. ~Granted(q)'
    BY <2>1 DEF Granted
  <2>. QED
    BY <2>1, <2>2, GrantsEnd
<1>. QED
  BY <1>4, <1>5, <1>6, <1>7

\* Which statement a step of a request runs.
LEMMA StepsRunStatements ==
  ASSUME RequestInvariant, NEW q \in Request,
         \/ Insert(q) \/ FindNothing(q) \/ FindExpired(q) \/ FindLive(q) \/ DeleteExpired(q)
         \/ Touch(q) \/ Revoke(q) \/ Interrupt(q)
         \/ \E t \in Token :
              \/ Replace(q, t)
              \/ \E a \in Admin : SignIn(q, a, t)
              \/ \E kind \in Kind, header \in {t, Null} : Arrive(q, kind, t, header)
  PROVE  UNCHANGED sessions \/ Executed(q)
BY DEF Insert, FindNothing, FindExpired, FindLive, DeleteExpired, Touch, Revoke, Interrupt,
       Replace, SignIn, Arrive, Executed, At

\* The detailed specification implements the abstract one.
THEOREM ImplementsLife == Spec => LifeSpec
<1>1. Init => Life!Init
  BY RowsAreRows DEF Init, StoreInit, Life!Init, Granted, NoRequest
<1>2. SessionInvariant /\ [Next]_state => [Life!Next]_Life!life
  <2> SUFFICES ASSUME SessionInvariant, [Next]_state PROVE [Life!Next]_Life!life
    OBVIOUS
  <2>1. StoreInvariant /\ RequestInvariant
    BY InvariantParts
  <2>2. CASE UNCHANGED <<sessions, request>>
    BY <2>2 DEF sessions, Life!life, Granted
  <2>3. ASSUME NEW q \in Request,
               \/ Insert(q) \/ FindNothing(q) \/ FindExpired(q) \/ FindLive(q) \/ DeleteExpired(q)
               \/ Touch(q) \/ Revoke(q) \/ Interrupt(q)
               \/ \E t \in Token :
                    \/ Replace(q, t)
                    \/ \E a \in Admin : SignIn(q, a, t)
                    \/ \E kind \in Kind, header \in {t, Null} : Arrive(q, kind, t, header)
        PROVE  Life!Next
    <3>1. HolderStep
      BY <2>1, <2>3, StepsRunStatements, StatementsMoveHolder
    <3>2. GrantStep
      BY <2>1, <2>3, FindGrants, OthersGrantNothing
    <3>. QED
      BY <3>1, <3>2 DEF HolderStep, GrantStep, Holder, GrantOf, Life!Next
  <2>4. CASE Next
    BY <2>2, <2>3, <2>4 DEF Next, Tick
  <2>5. CASE UNCHANGED state
    BY <2>2, <2>5 DEF state
  <2>. QED
    BY <2>4, <2>5
<1>. QED
  BY <1>1, <1>2, SessionsAreSafe, PTL DEF Spec, LifeSpec, Life!Spec

\* No session is accepted after its absolute or its idle timeout.
THEOREM AcceptsOnlyInTime == Spec => AcceptedInTime
<1>1. SessionInvariant /\ [Next]_state =>
        [\A q \in Request : Finds(q, "touching") =>
           LET t == request[q].token IN
             /\ request[q].now < opened[t].at + AbsoluteTimeout
             /\ request[q].now < lastUse[t] + IdleTimeout]_state
  <2> SUFFICES ASSUME SessionInvariant, Next, NEW q \in Request, Finds(q, "touching")
               PROVE  /\ request[q].now < opened[request[q].token].at + AbsoluteTimeout
                      /\ request[q].now < lastUse[request[q].token] + IdleTimeout
    OBVIOUS
  <2>1. StoreInvariant /\ RequestInvariant
    BY InvariantParts
  <2>2. FindLive(q)
    <3>1. request[q].stage = "finding" /\ request'[q].stage = "touching" /\ request \in [Request -> InProgress]
      BY <2>1 DEF Finds, At, RequestInvariant
    <3>2. ASSUME NEW r \in Request, NEW answer, Reply(r, answer) PROVE request'[q] = request[q] \/ request'[q].stage = "idle"
      BY <3>1, <3>2 DEF Reply, InProgress
    <3>3. ASSUME NEW r \in Request, NEW stage \in Stage \ {"touching"}, Continue(r, stage)
          PROVE  request'[q] = request[q] \/ request'[q].stage # "touching"
      BY <3>1, <3>3 DEF Continue, InProgress
    <3>4. ASSUME NEW r \in Request,
                 Insert(r) \/ FindNothing(r) \/ DeleteExpired(r) \/ Revoke(r) \/ Interrupt(r)
          PROVE  FALSE
      <4>1. \E answer : Reply(r, answer)
        BY <3>4 DEF Insert, FindNothing, DeleteExpired, Revoke, Interrupt
      <4>. QED
        BY <3>1, <3>2, <4>1
    <3>5. ASSUME NEW r \in Request, FindExpired(r) \/ Touch(r) PROVE FALSE
      <4>1. (\E answer : Reply(r, answer)) \/ \E stage \in Stage \ {"touching"} : Continue(r, stage)
        BY <3>5 DEF FindExpired, Touch, Authenticated, Stage
      <4>. QED
        BY <3>1, <3>2, <3>3, <4>1
    <3>6. ASSUME NEW r \in Request, NEW t \in Token,
                 \/ Replace(r, t)
                 \/ \E a \in Admin : SignIn(r, a, t)
                 \/ \E kind \in Kind, header \in {t, Null} : Arrive(r, kind, t, header)
          PROVE  FALSE
      <4>1. q # r => request'[q] = request[q]
        BY <3>1, <3>6, BeginsOrGoesOn
      <4>2. request'[r].stage \in {"inserting", "finding"}
        BY <3>1, <3>6, BeginsOrGoesOn
      <4>. QED
        BY <3>1, <4>1, <4>2
    <3>7. ASSUME NEW r \in Request, FindLive(r) PROVE r = q
      BY <3>1, <3>7 DEF FindLive, InProgress
    <3>8. ~Tick
      BY <3>1 DEF Tick
    <3>. QED
      BY <3>4, <3>5, <3>6, <3>7, <3>8 DEF Next
  <2> DEFINE t == request[q].token
  <2>3. t \in Token /\ request[q].now \in Nat
    BY <2>1, <2>2 DEF RequestInvariant, Sound, At, FindLive, InProgress
  <2>4. rows[t] # NoRow /\ ~IsExpired(rows[t], request[q].now)
    BY <2>2 DEF FindLive
  <2>5. /\ rows[t].expires \in Nat /\ rows[t].lastSeen \in Nat /\ lastUse[t] \in Nat
        /\ opened[t] \in Opening
    BY <2>1, <2>3, <2>4 DEF StoreInvariant, StoreTypeOK, Row, RowsMatch
  <2>6. rows[t].expires <= opened[t].at + AbsoluteTimeout /\ rows[t].lastSeen <= lastUse[t]
    BY <2>1, <2>3, <2>4 DEF StoreInvariant, DeadlinesHold
  <2>7. opened[t].at \in Nat
    BY <2>5 DEF Opening
  <2> HIDE DEF t
  <2>8. request[q].now < opened[t].at + AbsoluteTimeout /\ request[q].now < lastUse[t] + IdleTimeout
    BY <2>3, <2>4, <2>5, <2>6, <2>7, SessionAssumption, SecondAssumption DEF IsExpired
  <2>. QED
    BY <2>8 DEF t
<1>. QED
  BY <1>1, SessionsAreSafe, PTL DEF Spec, AcceptedInTime

(***************************************************************************)
(* Logout and rotation                                                     *)
(***************************************************************************)

Gone(t) == t \in Token /\ opened[t] # NotOpened /\ rows[t] = NoRow

\* What a request relies on once its DELETE is behind it.
LeavesGone(r) ==
  /\ r.stage = "idle" /\ r.answer = "logged_out" => Gone(r.token)
  /\ r.from # Null /\ (r.stage = "inserting" \/ (r.stage = "idle" /\ r.answer = "issued")) =>
       Gone(r.from)

EndsHold == faults = 0 => \A q \in Request : LeavesGone(request[q])

\* No statement brings back the row of a token that was opened once.
LEMMA GoneStays ==
  ASSUME StoreInvariant, RequestInvariant, NEW q \in Request,
         UNCHANGED sessions \/ Executed(q), NEW t, Gone(t)
  PROVE  Gone(t)'
<1>1. request[q] \in InProgress /\ Sound(request[q])
  BY DEF RequestInvariant
<1>2. CASE UNCHANGED sessions
  BY <1>2 DEF sessions, Gone
<1>3. CASE /\ At(q, "inserting")
           /\ InsertSession(request[q].token, request[q].admin, request[q].now, request[q].from)
  <2>1. request[q].token \in Token \ {t}
    BY <1>1, <1>3 DEF At, Sound, Gone
  <2>. QED
    BY <1>3, <2>1 DEF StoreInvariant, StoreTypeOK, InsertSession, Gone
<1>4. CASE At(q, "touching") /\ TouchSession(request[q].token, request[q].now)
  <2>1. request[q].token \in Token /\ request[q].now \in Nat
    BY <1>1, <1>4 DEF At, Sound, InProgress
  <2>. QED
    BY <1>4, <2>1, TouchKeeps DEF Gone
<1>5. CASE request[q].stage \in {"expiring", "revoking", "replacing"} /\ DeleteSession(request[q].token)
  BY <1>5 DEF StoreInvariant, StoreTypeOK, DeleteSession, Gone
<1>. QED
  BY <1>2, <1>3, <1>4, <1>5 DEF Executed

\* A DELETE that worked leaves the token of its request without a row.
LEMMA DeletesEnd ==
  ASSUME StoreInvariant, RequestInvariant, NEW q \in Request, NEW t, t = request[q].token,
         request[q].stage \in {"revoking", "replacing"}, DeleteSession(t)
  PROVE  Gone(t)'
<1>1. t \in Token /\ opened[t] # NotOpened
  BY DEF RequestInvariant, Sound, Stage
<1>. QED
  BY <1>1 DEF StoreInvariant, StoreTypeOK, DeleteSession, Gone

\* Each step of a request, for the request itself.
LEMMA OwnEndHolds ==
  ASSUME StoreInvariant, RequestInvariant, faults \in Nat, NEW q \in Request,
         LeavesGone(request[q]), faults = 0, faults' = 0,
         \/ Insert(q) \/ FindNothing(q) \/ FindExpired(q) \/ FindLive(q) \/ DeleteExpired(q)
         \/ Touch(q) \/ Revoke(q) \/ Interrupt(q)
         \/ \E t \in Token :
              \/ Replace(q, t)
              \/ \E a \in Admin : SignIn(q, a, t)
              \/ \E kind \in Kind, header \in {t, Null} : Arrive(q, kind, t, header)
  PROVE  LeavesGone(request[q])'
<1>1. request \in [Request -> InProgress]
  BY DEF RequestInvariant
<1>2. ~Fails
  BY DEF Fails
<1>3. ASSUME NEW answer, Reply(q, answer)
      PROVE  /\ request'[q].stage = "idle" /\ request'[q].answer = answer
             /\ request'[q].token = request[q].token /\ request'[q].from = request[q].from
  BY <1>1, <1>3 DEF Reply, InProgress
<1>4. ASSUME NEW stage \in {"expiring", "revoking", "replacing"}, Continue(q, stage)
      PROVE  request'[q].stage = stage
  BY <1>1, <1>4 DEF Continue, InProgress
<1>5. CASE Insert(q)
  <2>1. Executed(q) /\ Reply(q, "issued") /\ request[q].stage = "inserting"
    BY <1>5 DEF Insert, Executed, At
  <2>2. PICK f : f = request[q].from
    OBVIOUS
  <2>3. f # Null => Gone(f)'
    BY <2>1, <2>2, GoneStays DEF LeavesGone
  <2>4. request'[q].stage = "idle" /\ request'[q].answer = "issued" /\ request'[q].from = f
    BY <1>3, <2>1, <2>2
  <2>. QED
    BY <2>3, <2>4 DEF LeavesGone, Gone
<1>6. CASE FindNothing(q) \/ DeleteExpired(q)
  <2>1. \E answer \in {"unauthorized", "expired"} : Reply(q, answer)
    BY <1>6 DEF FindNothing, DeleteExpired
  <2>. QED
    BY <1>3, <2>1 DEF LeavesGone
<1>7. CASE FindExpired(q) \/ FindLive(q)
  <2>1. request'[q].stage \in {"expiring", "touching"}
    BY <1>1, <1>4, <1>7 DEF FindExpired, FindLive, InProgress
  <2>. QED
    BY <2>1 DEF LeavesGone
<1>8. CASE Touch(q)
  <2>1. \/ \E answer \in {"forbidden", "ok"} : Reply(q, answer)
        \/ \E stage \in {"revoking", "replacing"} : Continue(q, stage)
    BY <1>8 DEF Touch, Authenticated
  <2>. QED
    BY <1>3, <1>4, <2>1 DEF LeavesGone
<1>9. CASE Revoke(q)
  <2>1. DeleteSession(request[q].token) /\ request[q].stage = "revoking" /\ Reply(q, "logged_out")
    BY <1>2, <1>9 DEF Revoke, At
  <2>2. PICK t : t = request[q].token
    OBVIOUS
  <2>3. Gone(t)'
    BY <2>1, <2>2, DeletesEnd
  <2>4. request'[q].stage = "idle" /\ request'[q].answer = "logged_out" /\ request'[q].token = t
    BY <1>3, <2>1, <2>2
  <2>. QED
    BY <2>3, <2>4 DEF LeavesGone, Gone
<1>10. ASSUME NEW t \in Token, Replace(q, t)
       PROVE  LeavesGone(request[q])'
  <2>1. DeleteSession(request[q].token) /\ request[q].stage = "replacing" /\ Restart(q, t)
    BY <1>10 DEF Replace, At
  <2>2. PICK old : old = request[q].token
    OBVIOUS
  <2>3. Gone(old)'
    BY <2>1, <2>2, DeletesEnd
  <2>4. request'[q].stage = "inserting" /\ request'[q].from = old
    BY <1>1, <2>1, <2>2 DEF Restart, InProgress
  <2>. QED
    BY <2>3, <2>4 DEF LeavesGone, Gone
<1>11. ASSUME NEW t \in Token, NEW a \in Admin, SignIn(q, a, t)
       PROVE  LeavesGone(request[q])'
  <2>1. request'[q].stage = "inserting" /\ request'[q].from = Null
    BY <1>1, <1>11 DEF SignIn, NoRequest
  <2>. QED
    BY <2>1 DEF LeavesGone
<1>12. ASSUME NEW t \in Token, NEW kind \in Kind, NEW header \in {t, Null}, Arrive(q, kind, t, header)
       PROVE  LeavesGone(request[q])'
  <2>1. request'[q].stage = "finding"
    BY <1>1, <1>12 DEF Arrive, NoRequest
  <2>. QED
    BY <2>1 DEF LeavesGone
<1>13. ~Interrupt(q)
  BY <1>2 DEF Interrupt
<1>. QED
  BY <1>5, <1>6, <1>7, <1>8, <1>9, <1>10, <1>11, <1>12, <1>13

\* A step of one request leaves the others where they stand.
LEMMA OthersStay ==
  ASSUME request \in [Request -> InProgress], NEW q \in Request,
         \/ Insert(q) \/ FindNothing(q) \/ FindExpired(q) \/ FindLive(q) \/ DeleteExpired(q)
         \/ Touch(q) \/ Revoke(q) \/ Interrupt(q)
         \/ \E t \in Token :
              \/ Replace(q, t)
              \/ \E a \in Admin : SignIn(q, a, t)
              \/ \E kind \in Kind, header \in {t, Null} : Arrive(q, kind, t, header)
  PROVE  \A r \in Request \ {q} : request'[r] = request[r]
<1>1. CASE \/ \E answer : Reply(q, answer)
           \/ \E stage : Continue(q, stage)
           \/ FindLive(q)
  BY <1>1 DEF Reply, Continue, FindLive
<1>2. Touch(q) => (\E answer : Reply(q, answer)) \/ \E stage : Continue(q, stage)
  BY DEF Touch, Authenticated
<1>3. Insert(q) \/ FindNothing(q) \/ DeleteExpired(q) \/ Revoke(q) \/ Interrupt(q) =>
        \E answer : Reply(q, answer)
  BY DEF Insert, FindNothing, DeleteExpired, Revoke, Interrupt
<1>4. FindExpired(q) => \E stage : Continue(q, stage)
  BY DEF FindExpired
<1>. QED
  BY <1>1, <1>2, <1>3, <1>4, BeginsOrGoesOn

\* Who was answered 204 or given new cookies can rely on it until something fails.
THEOREM EndsStand == Spec => []EndedUnlessFailed
<1>1. Init => EndsHold
  BY DEF Init, NoRequest, EndsHold, LeavesGone
<1>2. SessionInvariant /\ EndsHold /\ [Next]_state => EndsHold'
  <2> SUFFICES ASSUME SessionInvariant, EndsHold, [Next]_state PROVE EndsHold'
    OBVIOUS
  <2>1. StoreInvariant /\ RequestInvariant /\ faults \in Nat
    BY InvariantParts
  <2>2. CASE UNCHANGED <<sessions, request, faults>>
    BY <2>2 DEF sessions, EndsHold, LeavesGone, Gone
  <2>3. ASSUME NEW q \in Request,
               \/ Insert(q) \/ FindNothing(q) \/ FindExpired(q) \/ FindLive(q) \/ DeleteExpired(q)
               \/ Touch(q) \/ Revoke(q) \/ Interrupt(q)
               \/ \E t \in Token :
                    \/ Replace(q, t)
                    \/ \E a \in Admin : SignIn(q, a, t)
                    \/ \E kind \in Kind, header \in {t, Null} : Arrive(q, kind, t, header)
        PROVE  EndsHold'
    <3> SUFFICES ASSUME faults' = 0, NEW r \in Request PROVE LeavesGone(request[r])'
      BY DEF EndsHold
    <3>1. Works \/ Fails
      BY <2>3 DEF Insert, FindNothing, FindExpired, FindLive, DeleteExpired, Touch, Revoke,
                  Interrupt, Replace, SignIn, Arrive
    <3>2. faults = 0
      BY <2>1, <3>1 DEF Works, Fails
    <3>3. \A u \in Request : LeavesGone(request[u])
      BY <3>2 DEF EndsHold
    <3>4. CASE r = q
      BY <2>1, <2>3, <3>2, <3>3, <3>4, OwnEndHolds
    <3>5. CASE r # q
      <4>1. UNCHANGED sessions \/ Executed(q)
        BY <2>1, <2>3, StepsRunStatements
      <4>2. \A t : Gone(t) => Gone(t)'
        BY <2>1, <4>1, GoneStays
      <4>3. request'[r] = request[r]
        BY <2>1, <2>3, <3>5, OthersStay DEF RequestInvariant
      <4>. QED
        BY <3>3, <4>2, <4>3 DEF LeavesGone, Gone
    <3>. QED
      BY <3>4, <3>5
  <2>4. CASE Next
    BY <2>2, <2>3, <2>4 DEF Next, Tick
  <2>5. CASE UNCHANGED state
    BY <2>2, <2>5 DEF state
  <2>. QED
    BY <2>4, <2>5
<1>3. EndsHold => EndedUnlessFailed
  BY DEF EndsHold, EndedUnlessFailed, LeavesGone, Gone, At
<1>. QED
  BY <1>1, <1>2, <1>3, SessionsAreSafe, PTL DEF Spec

(***************************************************************************)
(* Expiry is not early                                                     *)
(***************************************************************************)

\* The ceiling of a row is the true one, cut off to whole seconds.
CeilingsStored == \A t \in Token : rows[t] # NoRow => rows[t].expires = Stored(opened[t].at + AbsoluteTimeout)

\* No statement changes the ceiling of a row or moves its opening.
LEMMA StatementsKeepCeilings ==
  ASSUME StoreInvariant, RequestInvariant, CeilingsStored, NEW q \in Request,
         UNCHANGED sessions \/ Executed(q)
  PROVE  CeilingsStored'
<1>1. request[q] \in InProgress /\ Sound(request[q])
  BY DEF RequestInvariant
<1>2. CASE UNCHANGED sessions
  BY <1>2 DEF sessions, CeilingsStored
<1>3. CASE /\ At(q, "inserting")
           /\ InsertSession(request[q].token, request[q].admin, request[q].now, request[q].from)
  <2>1. PICK t \in Token, a \in Admin, now \in Nat, from \in Token \cup {Null} :
          InsertSession(t, a, now, from)
    BY <1>1, <1>3 DEF At, Sound, InProgress
  <2>2. /\ rows'[t].expires = Stored(now + AbsoluteTimeout) /\ opened'[t].at = now
        /\ \A u \in Token \ {t} : rows'[u] = rows[u] /\ opened'[u] = opened[u]
    BY <2>1 DEF StoreInvariant, StoreTypeOK, InsertSession
  <2>. QED
    BY <2>2 DEF CeilingsStored
<1>4. CASE At(q, "touching") /\ TouchSession(request[q].token, request[q].now)
  <2>1. PICK t \in Token, now \in Nat : TouchSession(t, now)
    BY <1>1, <1>4 DEF At, Sound, InProgress
  <2>2. opened' = opened /\ \A u \in Token \ {t} : rows'[u] = rows[u]
    BY <2>1 DEF StoreInvariant, StoreTypeOK, TouchSession
  <2>3. CASE rows[t] = NoRow
    BY <2>1, <2>2, <2>3 DEF TouchSession, CeilingsStored
  <2>4. CASE rows[t] # NoRow
    <3>1. rows'[t] = [rows[t] EXCEPT !.lastSeen = Stored(now)] /\ rows[t] \in Row
      BY <2>1, <2>4 DEF StoreInvariant, StoreTypeOK, TouchSession
    <3>2. rows'[t].expires = rows[t].expires
      BY <3>1 DEF Row
    <3>. QED
      BY <2>2, <2>4, <3>2 DEF CeilingsStored
  <2>. QED
    BY <2>3, <2>4
<1>5. CASE request[q].stage \in {"expiring", "revoking", "replacing"} /\ DeleteSession(request[q].token)
  <2>1. PICK t \in Token : DeleteSession(t)
    BY <1>1, <1>5 DEF Sound
  <2>. QED
    BY <2>1 DEF StoreInvariant, StoreTypeOK, DeleteSession, CeilingsStored
<1>. QED
  BY <1>2, <1>3, <1>4, <1>5 DEF Executed

\* The only step that finds a row expired.
LEMMA OnlyFindExpires ==
  ASSUME RequestInvariant, Next, NEW q \in Request, Finds(q, "expiring")
  PROVE  FindExpired(q)
<1>1. request[q].stage = "finding" /\ request'[q].stage = "expiring" /\ request \in [Request -> InProgress]
  BY DEF Finds, At, RequestInvariant
<1>2. ASSUME NEW r \in Request,
             \/ Insert(r) \/ FindNothing(r) \/ FindExpired(r) \/ FindLive(r) \/ DeleteExpired(r)
             \/ Touch(r) \/ Revoke(r) \/ Interrupt(r)
             \/ \E t \in Token :
                  \/ Replace(r, t)
                  \/ \E a \in Admin : SignIn(r, a, t)
                  \/ \E kind \in Kind, header \in {t, Null} : Arrive(r, kind, t, header)
      PROVE  FindExpired(q)
  <2>1. r = q
    BY <1>1, <1>2, OthersStay
  <2>2. \A answer : Reply(q, answer) => request'[q].stage = "idle"
    BY <1>1 DEF Reply, InProgress
  <2>3. ~Insert(q) /\ ~FindNothing(q) /\ ~DeleteExpired(q) /\ ~Revoke(q) /\ ~Interrupt(q)
    BY <1>1, <2>2 DEF Insert, FindNothing, DeleteExpired, Revoke, Interrupt
  <2>4. ~FindLive(q) /\ ~Touch(q)
    BY <1>1 DEF FindLive, Touch, At, InProgress
  <2>5. \A t \in Token :
          ~ \/ Replace(q, t)
            \/ \E a \in Admin : SignIn(q, a, t)
            \/ \E kind \in Kind, header \in {t, Null} : Arrive(q, kind, t, header)
    BY <1>1, BeginsOrGoesOn
  <2>. QED
    BY <1>2, <2>1, <2>3, <2>4, <2>5
<1>. QED
  BY <1>1, <1>2 DEF Next, Tick

\* A session is called expired only when it is due, to within the second that
\* storage cuts off, or its row does not show its last use.
THEOREM ExpiresOnlyWhenDue == Spec => ExpiredOnlyWhenDue
<1>1. Init => CeilingsStored
  BY DEF Init, StoreInit, CeilingsStored
<1>2. SessionInvariant /\ CeilingsStored /\ [Next]_state => CeilingsStored'
  <2> SUFFICES ASSUME SessionInvariant, CeilingsStored, [Next]_state PROVE CeilingsStored'
    OBVIOUS
  <2>1. StoreInvariant /\ RequestInvariant
    BY InvariantParts
  <2>2. CASE UNCHANGED sessions
    BY <2>2 DEF sessions, CeilingsStored
  <2>3. ASSUME NEW q \in Request,
               \/ Insert(q) \/ FindNothing(q) \/ FindExpired(q) \/ FindLive(q) \/ DeleteExpired(q)
               \/ Touch(q) \/ Revoke(q) \/ Interrupt(q)
               \/ \E t \in Token :
                    \/ Replace(q, t)
                    \/ \E a \in Admin : SignIn(q, a, t)
                    \/ \E kind \in Kind, header \in {t, Null} : Arrive(q, kind, t, header)
        PROVE  CeilingsStored'
    BY <2>1, <2>3, StepsRunStatements, StatementsKeepCeilings
  <2>4. CASE Next
    BY <2>2, <2>3, <2>4 DEF Next, Tick
  <2>. QED
    BY <2>2, <2>4 DEF state
<1>3. SessionInvariant /\ CeilingsStored /\ [Next]_state =>
        [\A q \in Request : Finds(q, "expiring") =>
           LET t == request[q].token
               now == request[q].now
           IN \/ now + Second > opened[t].at + AbsoluteTimeout
              \/ now + Second > lastUse[t] + IdleTimeout
              \/ now < lastUse[t]
              \/ rows[t].lastSeen # Stored(lastUse[t])]_state
  <2> SUFFICES ASSUME SessionInvariant, CeilingsStored, Next, NEW q \in Request, Finds(q, "expiring")
               PROVE  LET t == request[q].token
                          now == request[q].now
                      IN \/ now + Second > opened[t].at + AbsoluteTimeout
                         \/ now + Second > lastUse[t] + IdleTimeout
                         \/ now < lastUse[t]
                         \/ rows[t].lastSeen # Stored(lastUse[t])
    OBVIOUS
  <2>1. StoreInvariant /\ RequestInvariant
    BY InvariantParts
  <2>2. FindExpired(q)
    BY <2>1, OnlyFindExpires
  <2> DEFINE t == request[q].token
             now == request[q].now
  <2>3. /\ t \in Token /\ now \in Nat
        /\ rows[t] # NoRow /\ IsExpired(rows[t], now)
    BY <2>1, <2>2 DEF RequestInvariant, Sound, At, FindExpired, InProgress
  <2> HIDE DEF t, now
  <2>4. /\ rows[t].lastSeen \in Nat /\ lastUse[t] \in Nat /\ opened[t].at \in Nat
        /\ rows[t].expires = Stored(opened[t].at + AbsoluteTimeout)
        /\ rows[t].lastSeen <= lastUse[t]
    BY <2>1, <2>3 DEF StoreInvariant, StoreTypeOK, Row, RowsMatch, Opening, DeadlinesHold, CeilingsStored
  <2>5. opened[t].at + AbsoluteTimeout < rows[t].expires + Second /\ rows[t].expires \in Nat
    BY <2>4, StoredIsClose, StoredIsEarlier, SessionAssumption
  <2>6. lastUse[t] < Stored(lastUse[t]) + Second /\ Stored(lastUse[t]) \in Nat
    BY <2>4, StoredIsClose, StoredIsEarlier
  <2>7. \/ now + Second > opened[t].at + AbsoluteTimeout
        \/ now + Second > lastUse[t] + IdleTimeout
        \/ now < lastUse[t]
        \/ rows[t].lastSeen # Stored(lastUse[t])
    BY <2>3, <2>4, <2>5, <2>6, SessionAssumption, SecondAssumption DEF IsExpired
  <2>. QED
    BY <2>7 DEF t, now
<1>. QED
  BY <1>1, <1>2, <1>3, SessionsAreSafe, PTL DEF Spec, ExpiredOnlyWhenDue
=============================================================================
