---------------------------- MODULE OAuthProofs ----------------------------
(***************************************************************************)
(* Proofs about OAuth for any accounts, providers, subjects, flows and     *)
(* concurrent callbacks and any fault budget: what a callback knows at     *)
(* each stage, and that a flow, an approval and a link are each used for   *)
(* what they were made for.                                                *)
(***************************************************************************)
EXTENDS OAuth, TLAPS

(***************************************************************************)
(* Types                                                                   *)
(***************************************************************************)

LEMMA RecordsAreTyped ==
  /\ NoRow \notin Row /\ NoFlow \notin Flow /\ NoCallback \in InProgress
  /\ Null \in Mail /\ Account \subseteq Mail
  /\ \A s \in State : s # Null
  /\ \A i \in Identity : i # Null /\ i[1] \in Provider
BY OAuthAssumption DEF NoRow, Row, NoFlow, Flow, NoCallback, InProgress, Mail, Stage, Answer, Identity

\* A callback's step gives it another record in progress.
LEMMA CallbackTyped ==
  ASSUME TypeOK, NEW c \in Callback, NEW r \in InProgress,
         callback' = [callback EXCEPT ![c] = r]
  PROVE  callback' \in [Callback -> InProgress] /\ callback'[c] = r
BY DEF TypeOK

LEMMA RefusedIsTyped ==
  ASSUME NEW r \in InProgress, NEW answer \in Answer
  PROVE  Refused(r, answer) \in InProgress
BY DEF Refused, InProgress, Stage

LEMMA InitTyped == Init => TypeOK
<1>. SUFFICES ASSUME Init PROVE TypeOK
  OBVIOUS
<1>1. pending \in [State -> Row \cup {NoRow}] /\ links \in [Identity -> Mail]
  BY RecordsAreTyped DEF Init
<1>2. opened \in SUBSET Callback /\ audited \in SUBSET Callback
  BY DEF Init
<1>3. callback \in [Callback -> InProgress]
  BY RecordsAreTyped DEF Init
<1>4. flow \in [State -> Flow \cup {NoFlow}] /\ approved \in [State -> Identity \cup {Null}]
  BY DEF Init
<1>5. redeemed \in SUBSET State /\ mail \in [Identity -> Mail] /\ held \in [Identity -> SUBSET Mail]
  BY DEF Init
<1>6. clock \in Nat /\ faults \in Nat
  BY DEF Init, FaultsInit
<1>. QED
  BY <1>1, <1>2, <1>3, <1>4, <1>5, <1>6 DEF TypeOK

LEMMA FaultsTyped == ASSUME faults \in Nat, Fails \/ Works PROVE faults' \in Nat
BY DEF Fails, Works

\* The writes to the tables keep their types.
LEMMA InsertPendingTyped ==
  ASSUME TypeOK, NEW s \in State, NEW p \in Provider, InsertPending(s, p)
  PROVE  pending' \in [State -> Row \cup {NoRow}]
<1>1. Stored(clock) \in Nat
  BY StoredIsEarlier DEF TypeOK
<1>2. [provider |-> p, created |-> Stored(clock)] \in Row
  BY <1>1 DEF Row
<1>. HIDE DEF Row, NoRow, Stored
<1>. QED
  BY <1>2 DEF TypeOK, InsertPending

LEMMA DeletePendingTyped ==
  ASSUME TypeOK, NEW s, DeletePending(s)
  PROVE  pending' \in [State -> Row \cup {NoRow}]
BY DEF TypeOK, DeletePending

LEMMA InsertLinkTyped ==
  ASSUME TypeOK, NEW i, NEW a \in Mail, InsertLink(i, a)
  PROVE  links' \in [Identity -> Mail]
BY DEF TypeOK, InsertLink
(***************************************************************************)
(* Every step of a callback keeps the types                                *)
(***************************************************************************)

\* A step of c writes c's record only.
Writes(c) == \E r \in InProgress : callback' = [callback EXCEPT ![c] = r]

LEMMA RefuseWrites ==
  ASSUME TypeOK, NEW c \in Callback, NEW answer \in Answer, Refuse(c, answer)
  PROVE  Writes(c)
<1>1. callback[c] \in InProgress
  BY DEF TypeOK
<1>. QED
  BY <1>1, RefusedIsTyped DEF Refuse, Writes

\* Moving on to another stage.
LEMMA StageWrites ==
  ASSUME TypeOK, NEW c \in Callback, NEW stage \in Stage,
         callback' = [callback EXCEPT ![c].stage = stage]
  PROVE  Writes(c)
<1>1. [callback[c] EXCEPT !.stage = stage] \in InProgress
  BY DEF TypeOK, InProgress
<1>. QED
  BY <1>1 DEF Writes

LEMMA ArriveWrites ==
  ASSUME TypeOK, NEW c \in Callback, NEW s \in State, NEW d \in State, Arrive(c, s, d)
  PROVE  Writes(c)
<1>. DEFINE r == [callback[c] EXCEPT !.stage = "consuming", !.state = s, !.code = d]
<1>1. r \in InProgress
  <2>1. PICK q \in InProgress : q = callback[c]
    BY DEF TypeOK
  <2>2. [q EXCEPT !.stage = "consuming", !.state = s, !.code = d] \in InProgress
    BY DEF InProgress, Stage
  <2>. QED
    BY <2>1, <2>2
<1>2. callback' = [callback EXCEPT ![c] = r]
  BY DEF Arrive
<1>. QED
  BY <1>1, <1>2 DEF Writes

LEMMA ConsumeWrites ==
  ASSUME TypeOK, NEW c \in Callback, Consume(c)
  PROVE  Writes(c)
<1>1. CASE Live(callback[c].state)
  BY <1>1, StageWrites DEF Consume, Stage
<1>2. CASE ~Live(callback[c].state)
  BY <1>2, RefuseWrites DEF Consume, Answer
<1>. QED
  BY <1>1, <1>2

LEMMA RedeemWrites ==
  ASSUME TypeOK, NEW c \in Callback, Redeem(c)
  PROVE  Writes(c)
<1>1. \/ callback' = [callback EXCEPT ![c].stage = "identifying"]
      \/ Refuse(c, "exchange_rejected")
  BY DEF Redeem
<1>. QED
  BY <1>1, StageWrites, RefuseWrites DEF Stage, Answer

\* Who a callback of a flow with an approved code is about.
LEMMA WhoIsTyped ==
  ASSUME TypeOK, NEW r \in InProgress, r.code \in State, approved[r.code] # Null
  PROVE  Who(r) \in Identity
BY DEF TypeOK, Who

LEMMA IdentifyWrites ==
  ASSUME TypeOK, NEW c \in Callback, Identify(c), Who(callback[c]) \in Identity
  PROVE  Writes(c)
<1>. DEFINE r == [callback[c] EXCEPT !.stage = "finding", !.email = mail[Who(callback[c])]]
<1>1. r \in InProgress
  <2>1. PICK q \in InProgress : q = callback[c]
    BY DEF TypeOK
  <2>2. PICK m \in Mail : m = mail[Who(callback[c])]
    BY DEF TypeOK
  <2>3. [q EXCEPT !.stage = "finding", !.email = m] \in InProgress
    BY DEF InProgress, Stage
  <2>. QED
    BY <2>1, <2>2, <2>3
<1>2. callback' = [callback EXCEPT ![c] = r]
  BY DEF Identify, TypeOK
<1>. QED
  BY <1>1, <1>2 DEF Writes

LEMMA FindLinkWrites ==
  ASSUME TypeOK, NEW c \in Callback, FindLink(c), Who(callback[c]) \in Identity
  PROVE  Writes(c)
<1>. DEFINE a == LinkOf(Who(callback[c]))
<1>1. a \in Mail
  BY DEF TypeOK, LinkOf
<1>2. /\ [callback[c] EXCEPT !.stage = "reading_role", !.id = a] \in InProgress
      /\ [callback[c] EXCEPT !.stage = "matching"] \in InProgress
  <2>. HIDE DEF a
  <2>1. PICK q \in InProgress : q = callback[c]
    BY DEF TypeOK
  <2>2. [q EXCEPT !.stage = "reading_role", !.id = a] \in InProgress
    BY <1>1 DEF InProgress, Stage
  <2>3. [q EXCEPT !.stage = "matching"] \in InProgress
    BY DEF InProgress, Stage
  <2>. QED
    BY <2>1, <2>2, <2>3
<1>. QED
  BY <1>2 DEF FindLink, Writes

LEMMA MatchWrites ==
  ASSUME TypeOK, NEW c \in Callback, Match(c)
  PROVE  Writes(c)
<1>1. callback[c] \in InProgress
  BY DEF TypeOK
<1>2. [callback[c] EXCEPT !.stage = "linking", !.id = callback[c].email] \in InProgress
  BY <1>1 DEF InProgress, Stage
<1>3. Refused(callback[c], "no_linked_account") \in InProgress
  BY <1>1, RefusedIsTyped DEF Answer
<1>. QED
  BY <1>2, <1>3 DEF Match, Writes

LEMMA ReadRoleWrites ==
  ASSUME TypeOK, NEW c \in Callback, ReadRole(c)
  PROVE  Writes(c)
<1>1. callback[c] \in InProgress
  BY DEF TypeOK
<1>2. [callback[c] EXCEPT !.stage = "starting", !.role = callback[c].email] \in InProgress
  BY <1>1 DEF InProgress, Stage
<1>3. Refused(callback[c], "no_linked_account") \in InProgress
  BY <1>1, RefusedIsTyped DEF Answer
<1>. QED
  BY <1>2, <1>3 DEF ReadRole, Writes
LEMMA WritesTyped ==
  ASSUME TypeOK, NEW c \in Callback, Writes(c)
  PROVE  callback' \in [Callback -> InProgress]
BY CallbackTyped DEF Writes

\* What the current call of a callback does to the tables, and to the provider.
LEMMA EffectTyped ==
  ASSUME TypeOK, NEW c \in Callback, CallbackIsSound(c), Effect(c)
  PROVE  /\ pending' \in [State -> Row \cup {NoRow}] /\ links' \in [Identity -> Mail]
         /\ opened' \in SUBSET Callback /\ audited' \in SUBSET Callback
         /\ redeemed' \in SUBSET State
<1>. DEFINE r == callback[c]
<1>0. r \in InProgress
  BY DEF TypeOK
<1>1. CASE At(c, "consuming") /\ DeletePending(r.state) /\ UNCHANGED <<links, opened, audited, redeemed>>
  BY <1>1, DeletePendingTyped DEF TypeOK
<1>2. CASE At(c, "redeeming") /\ redeemed' = redeemed \cup {r.code} /\ UNCHANGED tables
  <2>1. r.code \in State
    BY <1>2 DEF CallbackIsSound, Took, HoldingStage, At
  <2>. QED
    BY <1>2, <2>1 DEF TypeOK, tables
<1>3. CASE At(c, "linking") /\ InsertLink(Who(r), r.id) /\ UNCHANGED <<pending, opened, audited, redeemed>>
  <2>1. r.id \in Mail
    BY <1>0 DEF InProgress
  <2>. QED
    BY <1>3, <2>1, InsertLinkTyped DEF TypeOK
<1>4. CASE At(c, "starting") /\ InsertSession(c) /\ UNCHANGED <<pending, links, audited, redeemed>>
  BY <1>4 DEF TypeOK, InsertSession
<1>5. CASE At(c, "auditing") /\ RecordLogin(c) /\ UNCHANGED <<pending, links, opened, redeemed>>
  BY <1>5 DEF TypeOK, RecordLogin
<1>. QED
  BY <1>1, <1>2, <1>3, <1>4, <1>5 DEF Effect

\* The steps of a callback, each of which leaves the browsers and emails alone.
Steps(c) ==
  \/ \E s \in State, d \in State : Arrive(c, s, d)
  \/ Decline(c) \/ Consume(c) \/ Redeem(c) \/ Identify(c) \/ FindLink(c) \/ Match(c)
  \/ Link(c) \/ ReadRole(c) \/ StartSession(c) \/ Audit(c) \/ Interrupt(c)

LEMMA StepsWrite ==
  ASSUME TypeOK, NEW c \in Callback, CallbackIsSound(c), Steps(c)
  PROVE  Writes(c) /\ UNCHANGED <<flow, approved, mail, held, clock>>
<1>. DEFINE r == callback[c]
<1>. USE DEF browser, provider
<1>0. r \in InProgress
  BY DEF TypeOK
<1>1. CASE \E s \in State, d \in State : Arrive(c, s, d)
  BY <1>1, ArriveWrites DEF Arrive
<1>2. CASE Decline(c)
  BY <1>2, RefuseWrites DEF Decline, Answer
<1>3. CASE Consume(c)
  BY <1>3, ConsumeWrites DEF Consume
<1>4. CASE Redeem(c)
  BY <1>4, RedeemWrites DEF Redeem
<1>5. CASE Identify(c)
  <2>1. Who(r) \in Identity
    BY <1>0, <1>5, WhoIsTyped DEF CallbackIsSound, Took, HoldingStage, Identify, At
  <2>. QED
    BY <1>5, <2>1, IdentifyWrites DEF Identify
<1>6. CASE FindLink(c)
  <2>1. Who(r) \in Identity
    BY <1>0, <1>6, WhoIsTyped DEF CallbackIsSound, Took, HoldingStage, FindLink, At
  <2>. QED
    BY <1>6, <2>1, FindLinkWrites DEF FindLink
<1>7. CASE Match(c)
  BY <1>7, MatchWrites DEF Match
<1>8. CASE Link(c)
  BY <1>8, StageWrites DEF Link, Stage
<1>9. CASE ReadRole(c)
  BY <1>9, ReadRoleWrites DEF ReadRole
<1>10. CASE StartSession(c)
  BY <1>10, StageWrites DEF StartSession, Stage
<1>11. CASE Audit(c)
  BY <1>11, RefuseWrites DEF Audit, Answer
<1>12. CASE Interrupt(c)
  BY <1>12, RefuseWrites DEF Interrupt, Answer
<1>. QED
  BY <1>1, <1>2, <1>3, <1>4, <1>5, <1>6, <1>7, <1>8, <1>9, <1>10, <1>11, <1>12 DEF Steps

LEMMA StepsKeepTables ==
  ASSUME TypeOK, NEW c \in Callback, CallbackIsSound(c), Steps(c)
  PROVE  /\ pending' \in [State -> Row \cup {NoRow}] /\ links' \in [Identity -> Mail]
         /\ opened' \in SUBSET Callback /\ audited' \in SUBSET Callback
         /\ redeemed' \in SUBSET State /\ faults' \in Nat
<1>. DEFINE r == callback[c]
            Kept == /\ pending' \in [State -> Row \cup {NoRow}] /\ links' \in [Identity -> Mail]
                    /\ opened' \in SUBSET Callback /\ audited' \in SUBSET Callback
                    /\ redeemed' \in SUBSET State
<1>0. r \in InProgress
  BY DEF TypeOK
<1>1. ASSUME UNCHANGED <<tables, redeemed>>
      PROVE  Kept
  BY <1>1 DEF TypeOK, tables
<1>2. CASE \/ (\E s \in State, d \in State : Arrive(c, s, d)) \/ Decline(c) \/ Identify(c)
           \/ FindLink(c) \/ Match(c) \/ ReadRole(c)
  <2>1. UNCHANGED <<tables, redeemed>> /\ Works
    BY <1>2 DEF Arrive, Decline, Identify, FindLink, Match, ReadRole, provider
  <2>. QED
    BY <1>1, <2>1, FaultsTyped DEF TypeOK
<1>3. CASE Consume(c)
  BY <1>3, DeletePendingTyped, FaultsTyped DEF Consume, provider, TypeOK
<1>4. CASE Redeem(c)
  <2>1. r.code \in State
    BY <1>4 DEF CallbackIsSound, Took, HoldingStage, Redeem, At
  <2>. QED
    BY <1>4, <2>1, FaultsTyped DEF Redeem, tables, TypeOK
<1>5. CASE Link(c)
  <2>1. r.id \in Mail
    BY <1>0 DEF InProgress
  <2>. QED
    BY <1>5, <2>1, InsertLinkTyped, FaultsTyped DEF Link, provider, TypeOK
<1>6. CASE StartSession(c)
  BY <1>6, FaultsTyped DEF StartSession, InsertSession, provider, TypeOK
<1>7. CASE Audit(c)
  BY <1>7, FaultsTyped DEF Audit, RecordLogin, provider, TypeOK
<1>8. CASE Interrupt(c)
  <2>1. Kept
    BY <1>8, <1>1, EffectTyped DEF Interrupt
  <2>2. faults' \in Nat
    BY <1>8, FaultsTyped DEF Interrupt, TypeOK
  <2>. QED
    BY <2>1, <2>2
<1>. QED
  BY <1>2, <1>3, <1>4, <1>5, <1>6, <1>7, <1>8 DEF Steps

\* The steps of the browsers, the providers and the clock.
LEMMA OthersTyped ==
  ASSUME TypeOK,
         \/ Tick
         \/ \E i \in Identity : (\E s \in State : Approve(s, i)) \/ (\E a \in Mail : Rename(i, a))
         \/ \E s \in State, p \in Provider : Begin(s, p) \/ BeginFails(s, p)
  PROVE  TypeOK'
<1>. USE DEF tables, browser, provider
<1>1. CASE Tick
  BY <1>1 DEF Tick, TypeOK
<1>2. ASSUME NEW i \in Identity, NEW s \in State, Approve(s, i)
      PROVE  TypeOK'
  BY <1>2 DEF Approve, TypeOK
<1>3. ASSUME NEW i \in Identity, NEW a \in Mail, Rename(i, a)
      PROVE  TypeOK'
  <2>1. mail' \in [Identity -> Mail] /\ held' \in [Identity -> SUBSET Mail]
    BY <1>3 DEF Rename, TypeOK
  <2>. QED
    BY <1>3, <2>1 DEF Rename, TypeOK
<1>4. ASSUME NEW s \in State, NEW p \in Provider, Begin(s, p)
      PROVE  TypeOK'
  <2>1. pending' \in [State -> Row \cup {NoRow}]
    BY <1>4, InsertPendingTyped DEF Begin
  <2>2. [provider |-> p, begun |-> clock] \in Flow
    BY DEF Flow, TypeOK
  <2>3. flow' \in [State -> Flow \cup {NoFlow}]
    BY <1>4, <2>2 DEF Begin, TypeOK
  <2>. QED
    BY <1>4, <2>1, <2>3, FaultsTyped DEF Begin, TypeOK
<1>5. ASSUME NEW s \in State, NEW p \in Provider, BeginFails(s, p)
      PROVE  TypeOK'
  <2>1. pending' \in [State -> Row \cup {NoRow}]
    BY <1>5, InsertPendingTyped DEF BeginFails
  <2>. QED
    BY <1>5, <2>1, FaultsTyped DEF BeginFails, TypeOK
<1>. QED
  BY <1>1, <1>2, <1>3, <1>4, <1>5
(***************************************************************************)
(* What a step leaves in place                                             *)
(***************************************************************************)

\* Flows, approvals, emails once held and links stay; a row that was taken does
\* not come back.
Grows ==
  /\ \A s \in State : flow[s] # NoFlow => flow'[s] = flow[s]
  /\ \A s \in State : approved[s] # Null => approved'[s] = approved[s]
  /\ \A i \in Identity : held[i] \subseteq held'[i] /\ (links[i] # Null => links'[i] = links[i])
  /\ \A s \in State : flow[s] # NoFlow /\ pending[s] = NoRow => pending'[s] = NoRow

LEMMA StepsTouchTables ==
  ASSUME NEW c \in Callback, Steps(c)
  PROVE  /\ UNCHANGED links \/ InsertLink(Who(callback[c]), callback[c].id)
         /\ UNCHANGED pending \/ DeletePending(callback[c].state)
         /\ UNCHANGED opened \/ (At(c, "starting") /\ opened' = opened \cup {c})
         /\ UNCHANGED audited \/ (At(c, "auditing") /\ audited' = audited \cup {c})
<1>. USE DEF tables
<1>1. CASE \/ (\E s \in State, d \in State : Arrive(c, s, d)) \/ Decline(c) \/ Identify(c)
           \/ FindLink(c) \/ Match(c) \/ ReadRole(c) \/ Redeem(c)
  BY <1>1 DEF Arrive, Decline, Identify, FindLink, Match, ReadRole, Redeem
<1>2. CASE Consume(c)
  BY <1>2 DEF Consume
<1>3. CASE Link(c)
  BY <1>3 DEF Link
<1>4. CASE StartSession(c)
  BY <1>4 DEF StartSession, InsertSession
<1>5. CASE Audit(c)
  BY <1>5 DEF Audit, RecordLogin
<1>6. CASE Interrupt(c)
  BY <1>6 DEF Interrupt, Effect, InsertSession, RecordLogin
<1>. QED
  BY <1>1, <1>2, <1>3, <1>4, <1>5, <1>6 DEF Steps

LEMMA StepsGrow ==
  ASSUME TypeOK, NEW c \in Callback, CallbackIsSound(c), Steps(c)
  PROVE  Grows
<1>1. UNCHANGED <<flow, approved, held>>
  BY StepsWrite
<1>2. \A i \in Identity : links[i] # Null => links'[i] = links[i]
  <2>1. CASE UNCHANGED links
    BY <2>1
  <2>2. CASE InsertLink(Who(callback[c]), callback[c].id)
    BY <2>2 DEF InsertLink, TypeOK
  <2>. QED
    BY <2>1, <2>2, StepsTouchTables
<1>3. \A s \in State : pending[s] = NoRow => pending'[s] = NoRow
  BY StepsTouchTables DEF DeletePending, TypeOK
<1>. QED
  BY <1>1, <1>2, <1>3 DEF Grows

\* What a callback that does not move knows stays true.
LEMMA StaysSound ==
  ASSUME TypeOK, Grows, NEW b \in Callback, CallbackIsSound(b),
         callback'[b] = callback[b], b \in opened' <=> b \in opened
  PROVE  CallbackIsSound(b)'
<1>. DEFINE r == callback[b]
<1>0. r \in InProgress
  BY DEF TypeOK
<1>1. Took(b)' = Took(b) /\ Redeemed(b)' = Redeemed(b) /\ Identified(b)' = Identified(b)
      /\ Linked(b)' = Linked(b) /\ RoleRead(b)' = RoleRead(b)
  BY DEF Took, Redeemed, Identified, Linked, RoleRead
<1>2. Identified(b) => Redeemed(b) /\ Took(b)
  BY DEF Took, Redeemed, Identified, HoldingStage
<1>3. Linked(b) => Identified(b)
  BY DEF Linked, Identified, HoldingStage
<1>4. Took(b) \/ r.stage = "consuming" =>
        /\ r.state \in State /\ r.code \in State
        /\ flow[r.state] # NoFlow /\ flow'[r.state] = flow[r.state]
        /\ approved[r.code] # Null /\ approved'[r.code] = approved[r.code]
  BY DEF CallbackIsSound, Grows
<1>5. Took(b) => pending'[r.state] = NoRow
  BY <1>4 DEF CallbackIsSound, Grows
<1>6. Identified(b) => Who(r) \in Identity /\ Who(r)' = Who(r)
  BY <1>0, <1>2, <1>4, WhoIsTyped DEF Who
<1>7. Identified(b) => held[Who(r)] \subseteq held'[Who(r)]
  BY <1>6 DEF Grows
<1>8. Linked(b) => links'[Who(r)] # Null
  BY <1>3, <1>6 DEF Grows, CallbackIsSound
<1>. QED
  BY <1>1, <1>2, <1>3, <1>4, <1>5, <1>6, <1>7, <1>8 DEF CallbackIsSound
(***************************************************************************)
(* What a callback that moves knows next                                   *)
(***************************************************************************)

\* The parts that only the tables and the providers can change.
Knows(c) ==
  /\ TypeOK /\ TypeOK' /\ Grows /\ MailsAreHeld /\ CallbackIsSound(c)
  /\ UNCHANGED <<flow, approved, held>>

LEMMA RefusedIsSound ==
  ASSUME NEW c \in Callback, Knows(c), NEW answer \in Answer, Refuse(c, answer), UNCHANGED opened,
         c \notin opened
  PROVE  CallbackIsSound(c)'
<1>1. callback'[c].stage = "done"
  BY DEF Knows, TypeOK, Refuse, Refused, InProgress
<1>. QED
  BY <1>1 DEF CallbackIsSound, Took, Redeemed, Identified, Linked, RoleRead, HoldingStage

\* Before its session is opened no callback is among the opened ones.
LEMMA NotOpenedYet ==
  ASSUME NEW c \in Callback, CallbackIsSound(c), callback[c].stage \notin {"auditing", "done"}
  PROVE  c \notin opened
BY DEF CallbackIsSound

LEMMA ArriveIsSound ==
  ASSUME NEW c \in Callback, Knows(c), NEW s \in State, NEW d \in State, Arrive(c, s, d)
  PROVE  CallbackIsSound(c)'
<1>1. c \notin opened'
  BY NotOpenedYet DEF Knows, Arrive, At, tables
<1>2. callback'[c].stage = "consuming" /\ callback'[c].state = s /\ callback'[c].code = d
  BY DEF Knows, Arrive, TypeOK, InProgress
<1>3. flow'[s] # NoFlow /\ approved'[d] # Null
  BY DEF Arrive, Knows
<1>. QED
  BY <1>1, <1>2, <1>3 DEF CallbackIsSound, Took, Redeemed, Identified, Linked, RoleRead, HoldingStage

LEMMA ConsumeIsSound ==
  ASSUME NEW c \in Callback, Knows(c), Consume(c)
  PROVE  CallbackIsSound(c)'
<1>. DEFINE r == callback[c]
<1>1. c \notin opened /\ UNCHANGED opened
  BY NotOpenedYet DEF Knows, Consume, At
<1>2. CASE ~Live(r.state)
  BY <1>1, <1>2, RefusedIsSound DEF Consume, Answer
<1>3. CASE Live(r.state)
  <2>1. /\ callback'[c].stage = "redeeming" /\ callback'[c].state = r.state
        /\ callback'[c].code = r.code
    BY <1>3 DEF Knows, Consume, TypeOK, InProgress
  <2>2. /\ r.state \in State /\ r.code \in State
        /\ flow'[r.state] # NoFlow /\ approved'[r.code] # Null
    BY DEF Consume, At, Knows, CallbackIsSound
  <2>3. pending'[r.state] = NoRow
    BY <2>2 DEF Consume, DeletePending, Knows, TypeOK
  <2>. QED
    BY <1>1, <2>1, <2>2, <2>3
       DEF CallbackIsSound, Took, Redeemed, Identified, Linked, RoleRead, HoldingStage
<1>. QED
  BY <1>2, <1>3

\* Once the row is taken, state and code stay, and so does what they point to.
LEMMA FlowStays ==
  ASSUME NEW c \in Callback, Knows(c), Took(c),
         callback'[c].state = callback[c].state, callback'[c].code = callback[c].code
  PROVE  /\ callback'[c].state \in State /\ callback'[c].code \in State
         /\ flow'[callback'[c].state] # NoFlow /\ approved'[callback'[c].code] # Null
         /\ pending'[callback'[c].state] = NoRow
         /\ Who(callback[c]) \in Identity /\ Who(callback[c])' = Who(callback[c])
<1>. DEFINE r == callback[c]
<1>1. /\ r.state \in State /\ r.code \in State /\ flow[r.state] # NoFlow
      /\ approved[r.code] # Null /\ pending[r.state] = NoRow
  BY DEF Knows, CallbackIsSound
<1>2. Who(r) \in Identity
  BY <1>1, WhoIsTyped DEF Knows, TypeOK
<1>. QED
  BY <1>1, <1>2 DEF Knows, Grows, Who

LEMMA RedeemIsSound ==
  ASSUME NEW c \in Callback, Knows(c), Redeem(c)
  PROVE  CallbackIsSound(c)'
<1>. DEFINE r == callback[c]
<1>1. c \notin opened /\ UNCHANGED opened
  BY NotOpenedYet DEF Knows, Redeem, At, tables
<1>2. CASE Refuse(c, "exchange_rejected")
  BY <1>1, <1>2, RefusedIsSound DEF Answer
<1>3. CASE callback' = [callback EXCEPT ![c].stage = "identifying"] /\ NonceMatches(r)
  <2>1. /\ callback'[c].stage = "identifying" /\ callback'[c].state = r.state
        /\ callback'[c].code = r.code
    BY <1>3 DEF Knows, TypeOK, InProgress
  <2>2. Took(c)
    BY DEF Took, HoldingStage, Redeem, At
  <2>. QED
    BY <1>1, <1>3, <2>1, <2>2, FlowStays
       DEF CallbackIsSound, Took, Redeemed, Identified, Linked, RoleRead, HoldingStage, NonceMatches
<1>. QED
  BY <1>2, <1>3 DEF Redeem

LEMMA IdentifyIsSound ==
  ASSUME NEW c \in Callback, Knows(c), Identify(c)
  PROVE  CallbackIsSound(c)'
<1>. DEFINE r == callback[c]
<1>1. c \notin opened'
  BY NotOpenedYet DEF Knows, Identify, At, tables
<1>2. /\ callback'[c].stage = "finding" /\ callback'[c].state = r.state
      /\ callback'[c].code = r.code /\ callback'[c].email = mail[Who(r)]
  BY DEF Knows, Identify, TypeOK, InProgress
<1>3. Took(c) /\ Redeemed(c)
  BY DEF Took, Redeemed, HoldingStage, Identify, At
<1>4. mail[Who(r)] \in held'[Who(r)']
  BY <1>2, <1>3, FlowStays DEF Knows, MailsAreHeld
<1>. QED
  BY <1>1, <1>2, <1>3, <1>4, FlowStays
     DEF CallbackIsSound, Took, Redeemed, Identified, Linked, RoleRead, HoldingStage, Knows
\* From the identity on, its email too.
LEMMA IdentityStays ==
  ASSUME NEW c \in Callback, Knows(c), Identified(c),
         callback'[c].state = callback[c].state, callback'[c].code = callback[c].code
  PROVE  /\ Took(c) /\ callback[c].code = callback[c].state
         /\ Who(callback[c]) \in Identity /\ Who(callback[c])' = Who(callback[c])
         /\ callback[c].email \in held'[Who(callback[c])]
         /\ links[Who(callback[c])] # Null => links'[Who(callback[c])] = links[Who(callback[c])]
<1>1. Took(c) /\ Redeemed(c)
  BY DEF Identified, Took, Redeemed, HoldingStage
<1>2. Who(callback[c]) \in Identity /\ Who(callback[c])' = Who(callback[c])
  BY <1>1, FlowStays
<1>. QED
  BY <1>1, <1>2 DEF Knows, CallbackIsSound, Grows

LEMMA FindLinkIsSound ==
  ASSUME NEW c \in Callback, Knows(c), FindLink(c)
  PROVE  CallbackIsSound(c)'
<1>. DEFINE r == callback[c]
            a == links[Who(r)]
<1>1. c \notin opened'
  BY NotOpenedYet DEF Knows, FindLink, At, tables
<1>2. Identified(c) /\ Took(c)
  BY DEF Identified, Took, HoldingStage, FindLink, At
<1>3. callback'[c].state = r.state /\ callback'[c].code = r.code /\ callback'[c].email = r.email
  BY DEF Knows, FindLink, TypeOK, InProgress
<1>4. CASE a # Null
  <2>1. callback'[c].stage = "reading_role" /\ callback'[c].id = a
    BY <1>4 DEF Knows, FindLink, LinkOf, TypeOK, InProgress
  <2>2. a \in held[Who(r)]
    BY <1>2, <1>3, <1>4, IdentityStays DEF Knows, MailsAreHeld
  <2>3. a \in held'[Who(r)'] /\ links'[Who(r)'] # Null
    BY <1>2, <1>3, <1>4, <2>2, IdentityStays DEF Knows
  <2>. QED
    BY <1>1, <1>2, <1>3, <1>4, <2>1, <2>3, FlowStays, IdentityStays
       DEF CallbackIsSound, Took, Redeemed, Identified, Linked, RoleRead, HoldingStage
<1>5. CASE a = Null
  <2>1. callback'[c].stage = "matching"
    BY <1>5 DEF Knows, FindLink, LinkOf, TypeOK, InProgress
  <2>. QED
    BY <1>1, <1>2, <1>3, <2>1, FlowStays, IdentityStays
       DEF CallbackIsSound, Took, Redeemed, Identified, Linked, RoleRead, HoldingStage
<1>. QED
  BY <1>4, <1>5

LEMMA MatchIsSound ==
  ASSUME NEW c \in Callback, Knows(c), Match(c)
  PROVE  CallbackIsSound(c)'
<1>. DEFINE r == callback[c]
<1>1. c \notin opened /\ UNCHANGED opened
  BY NotOpenedYet DEF Knows, Match, At, tables
<1>2. Identified(c) /\ Took(c)
  BY DEF Identified, Took, HoldingStage, Match, At
<1>3. CASE r.email = Null
  <2>1. Refuse(c, "no_linked_account")
    BY <1>3 DEF Match, Refuse
  <2>. QED
    BY <1>1, <2>1, RefusedIsSound DEF Answer
<1>4. CASE r.email # Null
  <2>1. /\ callback'[c].stage = "linking" /\ callback'[c].id = r.email /\ callback'[c].email = r.email
        /\ callback'[c].state = r.state /\ callback'[c].code = r.code
    BY <1>4 DEF Knows, Match, TypeOK, InProgress
  <2>. QED
    BY <1>1, <1>2, <1>4, <2>1, FlowStays, IdentityStays
       DEF CallbackIsSound, Took, Redeemed, Identified, Linked, RoleRead, HoldingStage
<1>. QED
  BY <1>3, <1>4

LEMMA LinkIsSound ==
  ASSUME NEW c \in Callback, Knows(c), Link(c)
  PROVE  CallbackIsSound(c)'
<1>. DEFINE r == callback[c]
<1>1. c \notin opened'
  BY NotOpenedYet DEF Knows, Link, At
<1>2. Identified(c) /\ Took(c)
  BY DEF Identified, Took, HoldingStage, Link, At
<1>3. /\ callback'[c].stage = "reading_role" /\ callback'[c].id = r.id /\ callback'[c].email = r.email
      /\ callback'[c].state = r.state /\ callback'[c].code = r.code
  BY DEF Knows, Link, TypeOK, InProgress
<1>4. r.id = r.email /\ r.id # Null
  BY DEF Knows, CallbackIsSound, Link, At
<1>5. links'[Who(r)] # Null
  BY <1>2, <1>3, <1>4, IdentityStays DEF Link, InsertLink, Knows, TypeOK
<1>. QED
  BY <1>1, <1>2, <1>3, <1>4, <1>5, FlowStays, IdentityStays
     DEF CallbackIsSound, Took, Redeemed, Identified, Linked, RoleRead, HoldingStage

\* From the link on, the account too.
LEMMA LinkStays ==
  ASSUME NEW c \in Callback, Knows(c), Linked(c),
         callback'[c].state = callback[c].state, callback'[c].code = callback[c].code
  PROVE  /\ Identified(c) /\ callback[c].id # Null
         /\ callback[c].id \in held'[Who(callback[c])'] /\ links'[Who(callback[c])'] # Null
<1>1. Identified(c)
  BY DEF Linked, Identified, HoldingStage
<1>. QED
  BY <1>1, IdentityStays DEF Knows, CallbackIsSound

LEMMA ReadRoleIsSound ==
  ASSUME NEW c \in Callback, Knows(c), ReadRole(c)
  PROVE  CallbackIsSound(c)'
<1>. DEFINE r == callback[c]
<1>1. c \notin opened /\ UNCHANGED opened
  BY NotOpenedYet DEF Knows, ReadRole, At, tables
<1>2. Linked(c) /\ Identified(c) /\ Took(c)
  BY DEF Linked, Identified, Took, HoldingStage, ReadRole, At
<1>3. CASE r.email = Null
  <2>1. Refuse(c, "no_linked_account")
    BY <1>3 DEF ReadRole, Refuse
  <2>. QED
    BY <1>1, <2>1, RefusedIsSound DEF Answer
<1>4. CASE r.email # Null
  <2>1. /\ callback'[c].stage = "starting" /\ callback'[c].role = r.email
        /\ callback'[c].email = r.email /\ callback'[c].id = r.id
        /\ callback'[c].state = r.state /\ callback'[c].code = r.code
    BY <1>4 DEF Knows, ReadRole, TypeOK, InProgress
  <2>. QED
    BY <1>1, <1>2, <1>4, <2>1, FlowStays, IdentityStays, LinkStays
       DEF CallbackIsSound, Took, Redeemed, Identified, Linked, RoleRead, HoldingStage
<1>. QED
  BY <1>3, <1>4

\* A step that opens a session, or comes after that: only the stage moves.
LEMMA OpenedIsSound ==
  ASSUME NEW c \in Callback, Knows(c), RoleRead(c), c \in opened',
         /\ callback'[c].state = callback[c].state /\ callback'[c].code = callback[c].code
         /\ callback'[c].email = callback[c].email /\ callback'[c].id = callback[c].id
         /\ callback'[c].role = callback[c].role,
         \/ callback'[c].stage = "auditing"
         \/ callback'[c].stage = "done" /\ callback'[c].answer \in {"signed_in", "internal"}
  PROVE  CallbackIsSound(c)'
<1>1. Linked(c) /\ Identified(c) /\ Took(c)
  BY DEF RoleRead, Linked, Identified, Took, HoldingStage
<1>2. callback[c].role = callback[c].email /\ callback[c].role # Null
  BY DEF Knows, CallbackIsSound
<1>. QED
  BY <1>1, <1>2, FlowStays, IdentityStays, LinkStays
     DEF CallbackIsSound, Took, Redeemed, Identified, Linked, RoleRead, HoldingStage

LEMMA StartSessionIsSound ==
  ASSUME NEW c \in Callback, Knows(c), StartSession(c)
  PROVE  CallbackIsSound(c)'
<1>1. RoleRead(c) /\ c \in opened'
  BY DEF RoleRead, StartSession, InsertSession, At
<1>2. /\ callback'[c].state = callback[c].state /\ callback'[c].code = callback[c].code
      /\ callback'[c].email = callback[c].email /\ callback'[c].id = callback[c].id
      /\ callback'[c].role = callback[c].role /\ callback'[c].stage = "auditing"
  BY DEF StartSession, Knows, TypeOK, InProgress
<1>. QED
  BY <1>1, <1>2, OpenedIsSound

LEMMA RefuseKeeps ==
  ASSUME NEW c \in Callback, Knows(c), NEW answer \in Answer, Refuse(c, answer)
  PROVE  /\ callback'[c].state = callback[c].state /\ callback'[c].code = callback[c].code
         /\ callback'[c].email = callback[c].email /\ callback'[c].id = callback[c].id
         /\ callback'[c].role = callback[c].role /\ callback'[c].stage = "done"
         /\ callback'[c].answer = answer
BY DEF Refuse, Refused, Knows, TypeOK, InProgress

LEMMA AuditIsSound ==
  ASSUME NEW c \in Callback, Knows(c), Audit(c)
  PROVE  CallbackIsSound(c)'
<1>1. c \in opened /\ RoleRead(c) /\ c \in opened'
  BY DEF Audit, At, RoleRead, Knows, CallbackIsSound
<1>2. Refuse(c, "signed_in") /\ "signed_in" \in Answer
  BY DEF Audit, Answer
<1>. QED
  BY <1>1, <1>2, RefuseKeeps, OpenedIsSound

LEMMA InterruptIsSound ==
  ASSUME NEW c \in Callback, Knows(c), Interrupt(c), Steps(c)
  PROVE  CallbackIsSound(c)'
<1>1. Refuse(c, "internal") /\ "internal" \in Answer
  BY DEF Interrupt, Answer
<1>2. UNCHANGED opened \/ (At(c, "starting") /\ opened' = opened \cup {c})
  BY StepsTouchTables
<1>3. CASE c \notin opened'
  <2>1. c \notin opened /\ UNCHANGED opened
    BY <1>2, <1>3
  <2>. QED
    BY <1>1, <2>1, RefusedIsSound
<1>4. CASE c \in opened'
  <2>1. RoleRead(c)
    BY <1>2, <1>4 DEF RoleRead, At
  <2>. QED
    BY <1>1, <1>4, <2>1, RefuseKeeps, OpenedIsSound
<1>. QED
  BY <1>3, <1>4

LEMMA MovesSoundly ==
  ASSUME NEW c \in Callback, Knows(c), Steps(c)
  PROVE  CallbackIsSound(c)'
<1>1. ASSUME Decline(c)
      PROVE  CallbackIsSound(c)'
  <2>1. c \notin opened /\ UNCHANGED opened /\ Refuse(c, "declined") /\ "declined" \in Answer
    BY <1>1, NotOpenedYet DEF Knows, Decline, At, tables, Answer
  <2>. QED
    BY <2>1, RefusedIsSound
<1>. QED
  BY <1>1, ArriveIsSound, ConsumeIsSound, RedeemIsSound, IdentifyIsSound, FindLinkIsSound,
     MatchIsSound, LinkIsSound, ReadRoleIsSound, StartSessionIsSound, AuditIsSound,
     InterruptIsSound DEF Steps
(***************************************************************************)
(* The invariant                                                           *)
(***************************************************************************)

LEMMA InitSound == Init => OAuthInvariant
<1>. SUFFICES ASSUME Init PROVE OAuthInvariant
  OBVIOUS
<1>1. TypeOK
  BY InitTyped
<1>2. \A c \in Callback : callback[c].stage = "idle" /\ c \notin opened
  BY DEF Init, NoCallback
<1>3. \A c \in Callback : ~Took(c) /\ CallbackIsSound(c)
  BY <1>2 DEF CallbackIsSound, Took, Redeemed, Identified, Linked, RoleRead, HoldingStage
<1>4. ApprovalsMatch
  BY DEF Init, ApprovalsMatch
<1>5. MailsAreHeld
  BY DEF Init, MailsAreHeld
<1>. QED
  BY <1>1, <1>3, <1>4, <1>5 DEF OAuthInvariant, OneTaker

LEMMA InvariantGivesKnows ==
  ASSUME OAuthInvariant, NEW c \in Callback, Steps(c)
  PROVE  Knows(c) /\ Writes(c) /\ UNCHANGED <<flow, approved, mail, held, clock>>
<1>1. TypeOK /\ CallbackIsSound(c) /\ MailsAreHeld
  BY DEF OAuthInvariant
<1>2. Writes(c) /\ UNCHANGED <<flow, approved, mail, held, clock>>
  BY <1>1, StepsWrite
<1>3. TypeOK'
  BY <1>1, <1>2, WritesTyped, StepsKeepTables DEF TypeOK
<1>. QED
  BY <1>1, <1>2, <1>3, StepsGrow DEF Knows

\* Only c moves, and only c's session can be opened.
LEMMA OnlyOneMoves ==
  ASSUME OAuthInvariant, NEW c \in Callback, Steps(c)
  PROVE  \A b \in Callback : b # c => callback'[b] = callback[b] /\ (b \in opened' <=> b \in opened)
<1>1. \A b \in Callback : b # c => callback'[b] = callback[b]
  BY InvariantGivesKnows DEF Writes, OAuthInvariant, TypeOK
<1>2. UNCHANGED opened \/ opened' = opened \cup {c}
  BY StepsTouchTables
<1>. QED
  BY <1>1, <1>2

\* A callback takes a row that is there, or has taken it before.
LEMMA TakesWhatIsThere ==
  ASSUME OAuthInvariant, NEW c \in Callback, Steps(c), Took(c)'
  PROVE  /\ callback'[c].state = callback[c].state
         /\ Took(c) \/ (Consume(c) /\ Live(callback[c].state))
<1>. DEFINE r == callback[c]
<1>0. Knows(c)
  BY InvariantGivesKnows
<1>1. ASSUME callback'[c].stage = "done", c \notin opened'
      PROVE  FALSE
  BY <1>1 DEF Took, HoldingStage
<1>2. CASE \E s \in State, d \in State : Arrive(c, s, d)
  <2>1. c \notin opened' /\ callback'[c].stage = "consuming"
    BY <1>0, <1>2, NotOpenedYet DEF Knows, Arrive, At, tables, TypeOK, InProgress
  <2>. QED
    BY <2>1 DEF Took, HoldingStage
<1>3. CASE Decline(c)
  <2>1. c \notin opened' /\ callback'[c].stage = "done"
    BY <1>0, <1>3, NotOpenedYet, RefuseKeeps DEF Knows, Decline, At, tables, Answer
  <2>. QED
    BY <1>1, <2>1
<1>4. CASE Consume(c)
  <2>1. CASE Live(r.state)
    BY <1>0, <1>4, <2>1 DEF Consume, Knows, TypeOK, InProgress
  <2>2. CASE ~Live(r.state)
    <3>1. c \notin opened' /\ callback'[c].stage = "done"
      BY <1>0, <1>4, <2>2, NotOpenedYet, RefuseKeeps DEF Knows, Consume, At, Answer
    <3>. QED
      BY <1>1, <3>1
  <2>. QED
    BY <2>1, <2>2
<1>5. CASE Redeem(c) \/ Identify(c) \/ FindLink(c) \/ Match(c) \/ Link(c) \/ ReadRole(c)
           \/ StartSession(c) \/ Audit(c)
  <2>1. Took(c)
    BY <1>5 DEF Took, HoldingStage, Redeem, Identify, FindLink, Match, Link, ReadRole,
               StartSession, Audit, At
  <2>2. callback'[c].state = r.state
    <3>0. r \in InProgress /\ callback \in [Callback -> InProgress]
      BY <1>0 DEF Knows, TypeOK
    <3>1. ASSUME NEW answer, Refuse(c, answer)
          PROVE  callback'[c].state = r.state
      BY <3>0, <3>1 DEF Refuse, Refused, InProgress
    <3>2. CASE Redeem(c)
      BY <3>0, <3>1, <3>2 DEF Redeem, InProgress
    <3>3. CASE Identify(c)
      BY <3>0, <3>3 DEF Identify, InProgress
    <3>4. CASE FindLink(c)
      BY <3>0, <3>4 DEF FindLink, InProgress
    <3>5. CASE Match(c)
      BY <3>0, <3>5 DEF Match, Refused, InProgress
    <3>6. CASE Link(c)
      BY <3>0, <3>6 DEF Link, InProgress
    <3>7. CASE ReadRole(c)
      BY <3>0, <3>7 DEF ReadRole, Refused, InProgress
    <3>8. CASE StartSession(c)
      BY <3>0, <3>8 DEF StartSession, InProgress
    <3>9. CASE Audit(c)
      BY <3>1, <3>9 DEF Audit
    <3>. QED
      BY <1>5, <3>2, <3>3, <3>4, <3>5, <3>6, <3>7, <3>8, <3>9
  <2>. QED
    BY <2>1, <2>2
<1>6. CASE Interrupt(c)
  <2>1. callback'[c].stage = "done" /\ callback'[c].state = r.state
    BY <1>0, <1>6, RefuseKeeps DEF Interrupt, Answer
  <2>2. c \in opened'
    BY <1>1, <2>1
  <2>3. Took(c)
    BY <2>2, StepsTouchTables DEF Took, HoldingStage, At
  <2>. QED
    BY <2>1, <2>3
<1>. QED
  BY <1>2, <1>3, <1>4, <1>5, <1>6 DEF Steps

LEMMA StepsKeepInvariant ==
  ASSUME OAuthInvariant, NEW c \in Callback, Steps(c)
  PROVE  OAuthInvariant'
<1>0. Knows(c) /\ UNCHANGED <<flow, approved, mail, held, clock>>
  BY InvariantGivesKnows
<1>1. \A b \in Callback : CallbackIsSound(b)'
  <2>1. ASSUME NEW b \in Callback, b # c
        PROVE  CallbackIsSound(b)'
    BY <1>0, <2>1, OnlyOneMoves, StaysSound DEF Knows, OAuthInvariant
  <2>. QED
    BY <1>0, <2>1, MovesSoundly
<1>2. OneTaker'
  <2>1. ASSUME NEW b \in Callback, b # c, Took(b)', Took(c)', callback'[b].state = callback'[c].state
        PROVE  FALSE
    <3>1. Took(b) /\ callback'[b] = callback[b]
      BY <2>1, OnlyOneMoves DEF Took
    <3>2. callback[b].state = callback[c].state
      BY <2>1, <3>1, TakesWhatIsThere
    <3>3. ~Took(c)
      BY <2>1, <3>1, <3>2 DEF OAuthInvariant, OneTaker
    <3>4. pending[callback[c].state] # NoRow
      BY <2>1, <3>3, TakesWhatIsThere DEF Live
    <3>. QED
      BY <3>1, <3>2, <3>4 DEF OAuthInvariant, CallbackIsSound
  <2>2. \A a, b \in Callback : a # c /\ b # c /\ Took(a)' /\ Took(b)'
                               /\ callback'[a].state = callback'[b].state => a = b
    BY OnlyOneMoves DEF Took, OAuthInvariant, OneTaker
  <2>. QED
    BY <2>1, <2>2 DEF OneTaker
<1>3. ApprovalsMatch'
  BY <1>0 DEF ApprovalsMatch, OAuthInvariant
<1>4. MailsAreHeld'
  <2>1. ASSUME NEW i \in Identity, links'[i] # Null
        PROVE  links'[i] \in held[i]
    <3>1. CASE links[i] # Null
      BY <1>0, <3>1 DEF Knows, Grows, MailsAreHeld
    <3>2. CASE links[i] = Null
      <4>1. InsertLink(Who(callback[c]), callback[c].id)
        BY <2>1, <3>2, StepsTouchTables
      <4>2. links'[i] # links[i] => i = Who(callback[c]) /\ links'[i] = callback[c].id
        BY <1>0, <4>1 DEF InsertLink, Knows, TypeOK
      <4>3. Link(c) \/ (Interrupt(c) /\ At(c, "linking"))
        BY <2>1, <3>2 DEF Steps, Arrive, Decline, Consume, Redeem, Identify, FindLink, Match, ReadRole,
                     StartSession, Audit, Interrupt, Effect, tables
      <4>4. callback[c].id \in held[Who(callback[c])]
        BY <1>0, <4>3 DEF Link, At, Knows, CallbackIsSound, Identified, HoldingStage
      <4>. QED
        BY <2>1, <3>2, <4>2, <4>4
    <3>. QED
      BY <3>1, <3>2
  <2>. QED
    BY <1>0, <2>1 DEF MailsAreHeld, Knows
<1>. QED
  BY <1>0, <1>1, <1>2, <1>3, <1>4 DEF OAuthInvariant, Knows
\* Browsers, providers and the clock: callbacks know no less afterwards.
Outside ==
  \/ Tick
  \/ \E i \in Identity : (\E s \in State : Approve(s, i)) \/ (\E a \in Mail : Rename(i, a))
  \/ \E s \in State, p \in Provider : Begin(s, p) \/ BeginFails(s, p)

LEMMA OutsideGrows ==
  ASSUME OAuthInvariant, Outside
  PROVE  /\ Grows /\ UNCHANGED <<callback, opened, audited, links>>
         /\ ApprovalsMatch' /\ MailsAreHeld'
<1>. USE DEF OAuthInvariant, tables, browser, provider, Grows, ApprovalsMatch, MailsAreHeld
<1>1. CASE Tick
  BY <1>1 DEF Tick
<1>2. ASSUME NEW i \in Identity, NEW s \in State, Approve(s, i)
      PROVE  Grows /\ UNCHANGED <<callback, opened, audited, links>> /\ ApprovalsMatch' /\ MailsAreHeld'
  BY <1>2 DEF Approve, TypeOK
<1>3. ASSUME NEW i \in Identity, NEW a \in Mail, Rename(i, a)
      PROVE  Grows /\ UNCHANGED <<callback, opened, audited, links>> /\ ApprovalsMatch' /\ MailsAreHeld'
  BY <1>3 DEF Rename, TypeOK
<1>4. ASSUME NEW s \in State, NEW p \in Provider, Begin(s, p)
      PROVE  Grows /\ UNCHANGED <<callback, opened, audited, links>> /\ ApprovalsMatch' /\ MailsAreHeld'
  BY <1>4 DEF Begin, Fresh, InsertPending, TypeOK
<1>5. ASSUME NEW s \in State, NEW p \in Provider, BeginFails(s, p)
      PROVE  Grows /\ UNCHANGED <<callback, opened, audited, links>> /\ ApprovalsMatch' /\ MailsAreHeld'
  BY <1>5 DEF BeginFails, Fresh, InsertPending, TypeOK
<1>. QED
  BY <1>1, <1>2, <1>3, <1>4, <1>5 DEF Outside

LEMMA OutsideKeepsInvariant ==
  ASSUME OAuthInvariant, Outside
  PROVE  OAuthInvariant'
<1>1. TypeOK'
  BY OthersTyped DEF OAuthInvariant, Outside
<1>2. Grows /\ UNCHANGED <<callback, opened>> /\ ApprovalsMatch' /\ MailsAreHeld'
  BY OutsideGrows
<1>3. \A b \in Callback : CallbackIsSound(b)'
  BY <1>2, StaysSound DEF OAuthInvariant
<1>4. OneTaker'
  BY <1>2 DEF OAuthInvariant, OneTaker, Took
<1>. QED
  BY <1>1, <1>2, <1>3, <1>4 DEF OAuthInvariant

LEMMA StutterKeepsInvariant ==
  ASSUME OAuthInvariant, UNCHANGED vars
  PROVE  OAuthInvariant'
<1>. USE DEF vars, tables, browser, provider
<1>1. TypeOK'
  BY DEF OAuthInvariant, TypeOK
<1>2. \A b \in Callback : CallbackIsSound(b)'
  BY DEF OAuthInvariant, CallbackIsSound, Took, Redeemed, Identified, Linked, RoleRead, Who
<1>3. OneTaker' /\ ApprovalsMatch' /\ MailsAreHeld'
  BY DEF OAuthInvariant, OneTaker, Took, ApprovalsMatch, MailsAreHeld
<1>. QED
  BY <1>1, <1>2, <1>3 DEF OAuthInvariant

LEMMA NextIsOutsideOrStep == Next => Outside \/ \E c \in Callback : Steps(c)
BY DEF Next, Outside, Steps

\* The invariant holds in every reachable state of every instance.
THEOREM OAuthIsInvariant == Spec => []OAuthInvariant
<1>1. Init => OAuthInvariant
  BY InitSound
<1>2. OAuthInvariant /\ [Next]_vars => OAuthInvariant'
  BY OutsideKeepsInvariant, StepsKeepInvariant, StutterKeepsInvariant, NextIsOutsideOrStep
<1>. QED
  BY <1>1, <1>2, PTL DEF Spec

(***************************************************************************)
(* What follows from it                                                    *)
(***************************************************************************)

\* Type correctness.
THEOREM OAuthTypes == Spec => []TypeOK
<1>1. OAuthInvariant => TypeOK
  BY DEF OAuthInvariant
<1>. QED
  BY <1>1, OAuthIsInvariant, PTL

\* A session is opened by the one callback that took the flow, with the approval
\* given in that flow, at the flow's provider.
THEOREM SessionsAlwaysApproved == Spec => []SessionsAreApproved
<1>1. OAuthInvariant => SessionsAreApproved
  <2>. SUFFICES ASSUME OAuthInvariant, NEW c \in opened
                PROVE  LET r == callback[c] IN
                         /\ r.code = r.state /\ Who(r) # Null
                         /\ Who(r)[1] = flow[r.state].provider
                         /\ \A b \in opened : callback[b].state = r.state => b = c
    BY DEF SessionsAreApproved
  <2>1. c \in Callback /\ Took(c) /\ Redeemed(c) /\ CallbackIsSound(c)
    BY DEF OAuthInvariant, TypeOK, Took, Redeemed
  <2>2. \A b \in opened : b \in Callback /\ Took(b)
    BY DEF OAuthInvariant, TypeOK, Took
  <2>. QED
    BY <2>1, <2>2 DEF OAuthInvariant, CallbackIsSound, OneTaker, ApprovalsMatch, Who
<1>. QED
  BY <1>1, OAuthIsInvariant, PTL

\* Identity, link, id and role of a session agree, but for emails that changed.
THEOREM SessionsAlwaysMatch == Spec => []SessionsMatchLinks
<1>1. OAuthInvariant => SessionsMatchLinks
  <2>. SUFFICES ASSUME OAuthInvariant PROVE SessionsMatchLinks
    OBVIOUS
  <2>1. ASSUME NEW c \in opened
        PROVE  LET r == callback[c]
                   who == Who(r)
               IN  /\ links[who] # Null /\ {r.id, r.role} \subseteq held[who] \ {Null}
                   /\ ~Renamed(who) => r.id = links[who] /\ r.role = links[who]
    <3>. DEFINE r == callback[c]
                who == Who(r)
    <3>1. c \in Callback /\ Took(c) /\ Identified(c) /\ Linked(c) /\ RoleRead(c)
          /\ CallbackIsSound(c) /\ r \in InProgress
      BY DEF OAuthInvariant, TypeOK, Took, Identified, Linked, RoleRead
    <3>2. /\ links[who] # Null /\ r.id # Null /\ r.id \in held[who]
          /\ r.role # Null /\ r.role \in held[who]
      BY <3>1 DEF CallbackIsSound
    <3>3. who \in Identity
      BY <3>1, WhoIsTyped DEF CallbackIsSound, OAuthInvariant
    <3>4. links[who] \in held[who]
      BY <3>2, <3>3 DEF OAuthInvariant, MailsAreHeld
    <3>. HIDE DEF who, r
    <3>5. ~Renamed(who) => r.id = links[who] /\ r.role = links[who]
      BY <3>2, <3>4 DEF Renamed
    <3>. QED
      BY <3>2, <3>5 DEF who, r
  <2>. QED
    BY <2>1 DEF SessionsMatchLinks, OAuthInvariant, MailsAreHeld
<1>. QED
  BY <1>1, OAuthIsInvariant, PTL

\* No step moves an identity from one admin to another.
THEOREM LinksAlwaysStay == Spec => LinksStay
<1>1. OAuthInvariant /\ [Next]_vars => [\A i \in Identity : links[i] # Null => links'[i] = links[i]]_vars
  <2>. SUFFICES ASSUME OAuthInvariant, Next
                PROVE  \A i \in Identity : links[i] # Null => links'[i] = links[i]
    OBVIOUS
  <2>1. CASE Outside
    BY <2>1, OutsideGrows
  <2>2. ASSUME NEW c \in Callback, Steps(c)
        PROVE  \A i \in Identity : links[i] # Null => links'[i] = links[i]
    BY <2>2, InvariantGivesKnows DEF Knows, Grows
  <2>. QED
    BY <2>1, <2>2, NextIsOutsideOrStep
<1>. QED
  BY <1>1, OAuthIsInvariant, PTL DEF Spec, LinksStay

(***************************************************************************)
(* Where a callback ends                                                   *)
(***************************************************************************)

\* A callback is answered by its last step only; unless that step fails, a
\* callback that ends with its session opened has recorded the login.
LEMMA StepsEndOnce ==
  ASSUME OAuthInvariant, NEW c \in Callback, Steps(c)
  PROVE  /\ callback[c].stage # "done"
         /\ callback'[c].stage = "done" \/ callback'[c].answer = callback[c].answer
         /\ callback'[c].stage = "done" /\ c \in opened' => Fails \/ c \in audited'
<1>0. Knows(c) /\ callback[c] \in InProgress /\ callback \in [Callback -> InProgress]
  BY InvariantGivesKnows DEF OAuthInvariant, TypeOK
<1>1. ASSUME NEW answer, Refuse(c, answer)
      PROVE  callback'[c].stage = "done"
  BY <1>0, <1>1 DEF Refuse, Refused, InProgress
<1>2. CASE \E s \in State, d \in State : Arrive(c, s, d)
  BY <1>0, <1>2 DEF Arrive, At, InProgress
<1>3. CASE Decline(c)
  BY <1>0, <1>1, <1>3, NotOpenedYet DEF Decline, At, Knows, tables
<1>4. CASE Consume(c)
  <2>1. c \notin opened'
    BY <1>0, <1>4, NotOpenedYet DEF Consume, At, Knows
  <2>. QED
    BY <1>0, <1>1, <1>4, <2>1 DEF Consume, At, InProgress
<1>5. CASE Redeem(c)
  <2>1. c \notin opened'
    BY <1>0, <1>5, NotOpenedYet DEF Redeem, At, Knows, tables
  <2>2. callback' = [callback EXCEPT ![c].stage = "identifying"] \/ Refuse(c, "exchange_rejected")
    BY <1>5 DEF Redeem
  <2>. QED
    BY <1>0, <1>1, <1>5, <2>1, <2>2 DEF Redeem, At, InProgress
<1>6. CASE Identify(c) \/ FindLink(c) \/ Link(c) \/ StartSession(c)
  <2>1. CASE Identify(c)
    BY <1>0, <2>1 DEF Identify, At, InProgress
  <2>2. CASE FindLink(c)
    BY <1>0, <2>2 DEF FindLink, At, InProgress
  <2>3. CASE Link(c)
    BY <1>0, <2>3 DEF Link, At, InProgress
  <2>4. CASE StartSession(c)
    BY <1>0, <2>4 DEF StartSession, At, InProgress
  <2>. QED
    BY <1>6, <2>1, <2>2, <2>3, <2>4
<1>7. CASE Match(c) \/ ReadRole(c)
  <2>1. c \notin opened'
    BY <1>0, <1>7, NotOpenedYet DEF Match, ReadRole, At, Knows, tables
  <2>2. callback'[c] = Refused(callback[c], "no_linked_account") \/ callback'[c].answer = callback[c].answer
    BY <1>0, <1>7 DEF Match, ReadRole, InProgress
  <2>. QED
    BY <1>0, <1>7, <2>1, <2>2 DEF Match, ReadRole, Refused, At, InProgress
<1>8. CASE Audit(c)
  BY <1>0, <1>1, <1>8 DEF Audit, At, RecordLogin
<1>9. CASE Interrupt(c)
  BY <1>0, <1>1, <1>9 DEF Interrupt
<1>. QED
  BY <1>2, <1>3, <1>4, <1>5, <1>6, <1>7, <1>8, <1>9 DEF Steps

\* Every login in the audit trail opened a session, and every session is in the
\* audit trail once its callback is answered, unless something failed.
THEOREM LoginsAlwaysAudited == Spec => []LoginsAreAudited
<1>1. Init => LoginsAreAudited
  BY DEF Init, LoginsAreAudited
<1>2. OAuthInvariant /\ LoginsAreAudited /\ [Next]_vars => LoginsAreAudited'
  <2>. SUFFICES ASSUME OAuthInvariant, LoginsAreAudited, [Next]_vars PROVE LoginsAreAudited'
    OBVIOUS
  <2>1. CASE UNCHANGED vars
    BY <2>1 DEF vars, tables, LoginsAreAudited, At
  <2>2. CASE Outside
    <3>1. UNCHANGED <<callback, opened, audited>>
      BY <2>2, OutsideGrows
    <3>2. faults' = 0 => faults = 0
      <4>1. UNCHANGED faults \/ Fails
        BY <2>2 DEF Outside, Tick, Approve, Rename, Begin, BeginFails, Works
      <4>. QED
        BY <4>1 DEF Fails, OAuthInvariant, TypeOK
    <3>. QED
      BY <3>1, <3>2 DEF LoginsAreAudited, At
  <2>3. ASSUME NEW c \in Callback, Steps(c)
        PROVE  LoginsAreAudited'
    <3>1. /\ UNCHANGED opened \/ opened' = opened \cup {c}
          /\ UNCHANGED audited \/ (c \in opened /\ audited' = audited \cup {c})
      BY <2>3, StepsTouchTables DEF At, OAuthInvariant, CallbackIsSound
    <3>2. Works \/ Fails
      BY <2>3 DEF Steps, Arrive, Decline, Consume, Redeem, Identify, FindLink, Match, Link, ReadRole,
                  StartSession, Audit, Interrupt
    <3>3. faults' = 0 => faults = 0 /\ ~Fails
      BY <3>2 DEF Works, Fails, OAuthInvariant, TypeOK
    <3>4. ASSUME faults' = 0, NEW b \in opened', callback'[b].stage = "done"
          PROVE  b \in audited'
      <4>1. CASE b = c
        BY <2>3, <3>3, <3>4, <4>1, StepsEndOnce
      <4>2. CASE b # c
        <5>1. b \in opened
          BY <3>1, <3>4, <4>2
        <5>2. callback'[b] = callback[b]
          BY <2>3, <4>2, <5>1, OnlyOneMoves DEF OAuthInvariant, TypeOK
        <5>. QED
          BY <3>1, <3>3, <3>4, <5>1, <5>2 DEF LoginsAreAudited, At
      <4>. QED
        BY <4>1, <4>2
    <3>. QED
      BY <3>1, <3>4 DEF LoginsAreAudited, At
  <2>. QED
    BY <2>1, <2>2, <2>3, NextIsOutsideOrStep
<1>. QED
  BY <1>1, <1>2, OAuthIsInvariant, PTL DEF Spec

(***************************************************************************)
(* The ten minutes of a flow                                               *)
(***************************************************************************)

\* The row of a flow holds the second in which the flow began.
RowsAreDated ==
  \A s \in State : flow[s] # NoFlow /\ pending[s] # NoRow => pending[s].created = Stored(flow[s].begun)

AnswersComeLast == \A c \in Callback : callback[c].stage # "done" => callback[c].answer = "none"

LEMMA RowsStayDated ==
  ASSUME OAuthInvariant, RowsAreDated, [Next]_vars
  PROVE  RowsAreDated'
<1>1. CASE UNCHANGED <<pending, flow>>
  BY <1>1 DEF RowsAreDated
<1>2. ASSUME NEW c \in Callback, Steps(c)
      PROVE  RowsAreDated'
  <2>1. UNCHANGED flow /\ Grows
    BY <1>2, InvariantGivesKnows DEF Knows
  <2>2. \A s \in State : pending'[s] # NoRow => pending'[s] = pending[s]
    BY <1>2, StepsTouchTables DEF DeletePending, OAuthInvariant, TypeOK
  <2>. QED
    BY <2>1, <2>2 DEF RowsAreDated
<1>3. ASSUME NEW s \in State, NEW p \in Provider, Begin(s, p)
      PROVE  RowsAreDated'
  <2>1. pending'[s].created = Stored(clock) /\ flow'[s].begun = clock
    BY <1>3 DEF Begin, InsertPending, OAuthInvariant, TypeOK
  <2>2. \A t \in State \ {s} : pending'[t] = pending[t] /\ flow'[t] = flow[t]
    BY <1>3 DEF Begin, InsertPending, OAuthInvariant, TypeOK
  <2>. QED
    BY <2>1, <2>2 DEF RowsAreDated
<1>4. ASSUME NEW s \in State, NEW p \in Provider, BeginFails(s, p)
      PROVE  RowsAreDated'
  BY <1>4 DEF BeginFails, Fresh, InsertPending, browser, RowsAreDated, OAuthInvariant, TypeOK
<1>5. CASE Outside
  BY <1>1, <1>3, <1>4, <1>5 DEF Outside, Tick, Approve, Rename, tables, browser
<1>. QED
  BY <1>1, <1>2, <1>5, NextIsOutsideOrStep DEF vars, tables, browser

LEMMA AnswersStayLast ==
  ASSUME OAuthInvariant, AnswersComeLast, [Next]_vars
  PROVE  AnswersComeLast'
<1>1. CASE UNCHANGED callback
  BY <1>1 DEF AnswersComeLast
<1>2. ASSUME NEW c \in Callback, Steps(c)
      PROVE  AnswersComeLast'
  BY <1>2, StepsEndOnce, OnlyOneMoves DEF AnswersComeLast
<1>. QED
  BY <1>1, <1>2, OutsideGrows, NextIsOutsideOrStep DEF vars

\* What the DELETE of a callback finds, and how the callback goes on.
LEMMA ConsumesInTime ==
  ASSUME OAuthInvariant, RowsAreDated, AnswersComeLast, NEW c \in Callback, At(c, "consuming"),
         NEW b \in Callback, Steps(b),
         NEW age, age = clock - flow[callback[c].state].begun
  PROVE  /\ callback'[c].stage = "redeeming" => age <= PendingTtl
         /\ callback'[c].answer = "invalid_state" /\ pending[callback[c].state] # NoRow
              => age > PendingTtl - Second
<1>. DEFINE s == callback[c].state
<1>0. callback[c] \in InProgress /\ callback \in [Callback -> InProgress]
      /\ callback[c].stage = "consuming" /\ callback[c].answer = "none"
  BY DEF OAuthInvariant, TypeOK, At, AnswersComeLast
<1>1. s \in State /\ flow[s] # NoFlow
  BY <1>0 DEF OAuthInvariant, CallbackIsSound
<1>2. CASE b # c
  <2>1. callback'[c] = callback[c]
    BY <1>2, OnlyOneMoves
  <2>. QED
    BY <1>0, <2>1
<1>3. CASE Interrupt(c)
  BY <1>0, <1>3 DEF Interrupt, Refuse, Refused, InProgress
<1>4. CASE Consume(c)
  <2>1. /\ callback'[c].stage = "redeeming" => Live(s)
        /\ callback'[c].answer = "invalid_state" => ~Live(s)
    BY <1>0, <1>4 DEF Consume, Refuse, Refused, InProgress
  <2>2. clock \in Nat /\ flow[s].begun \in Nat
    BY <1>1 DEF OAuthInvariant, TypeOK, Flow
  <2>3. /\ Stored(flow[s].begun) \in Nat /\ Stored(flow[s].begun) <= flow[s].begun
        /\ flow[s].begun < Stored(flow[s].begun) + Second
    BY <2>2, StoredIsEarlier, StoredIsClose
  <2>4. pending[s] # NoRow => pending[s].created = Stored(flow[s].begun)
    BY <1>1 DEF RowsAreDated
  <2>5. pending[s] # NoRow => (Live(s) <=> clock - Stored(flow[s].begun) <= PendingTtl)
    BY <2>4 DEF Live
  <2>6. Live(s) => pending[s] # NoRow
    BY DEF Live
  <2>. HIDE DEF s
  <2>7. age = clock - flow[s].begun
    BY DEF s
  <2>. QED
    BY <2>1, <2>2, <2>3, <2>5, <2>6, <2>7, OAuthAssumption, SecondAssumption DEF s
<1>5. b = c => Interrupt(c) \/ Consume(c)
  BY <1>0 DEF Steps, Arrive, Decline, Redeem, Identify, FindLink, Match, Link, ReadRole, StartSession,
              Audit, At
<1>. QED
  BY <1>2, <1>3, <1>4, <1>5

\* A flow is taken within its time to live only, and refused as stale no more
\* than a fraction of a second too early.
THEOREM FlowsAlwaysExpireOnTime == Spec => FlowsExpireOnTime
<1>1. Init => RowsAreDated /\ AnswersComeLast
  BY DEF Init, RowsAreDated, AnswersComeLast, NoCallback
<1>2. OAuthInvariant /\ RowsAreDated /\ AnswersComeLast /\ [Next]_vars => (RowsAreDated /\ AnswersComeLast)'
  BY RowsStayDated, AnswersStayLast
<1>3. OAuthInvariant /\ RowsAreDated /\ AnswersComeLast /\ [Next]_vars =>
        [\A c \in Callback :
           LET s == callback[c].state
               age == clock - flow[s].begun
           IN  At(c, "consuming") =>
                 /\ callback'[c].stage = "redeeming" => age <= PendingTtl
                 /\ callback'[c].answer = "invalid_state" /\ pending[s] # NoRow
                      => age > PendingTtl - Second]_vars
  <2>. SUFFICES ASSUME OAuthInvariant, RowsAreDated, AnswersComeLast, Next,
                       NEW c \in Callback, At(c, "consuming")
                PROVE  LET s == callback[c].state
                           age == clock - flow[s].begun
                       IN  /\ callback'[c].stage = "redeeming" => age <= PendingTtl
                           /\ callback'[c].answer = "invalid_state" /\ pending[s] # NoRow
                                => age > PendingTtl - Second
    OBVIOUS
  <2>1. CASE Outside
    <3>1. callback' = callback
      BY <2>1, OutsideGrows
    <3>. QED
      BY <3>1 DEF At, AnswersComeLast
  <2>2. ASSUME NEW b \in Callback, Steps(b)
        PROVE  LET s == callback[c].state
                   age == clock - flow[s].begun
               IN  /\ callback'[c].stage = "redeeming" => age <= PendingTtl
                   /\ callback'[c].answer = "invalid_state" /\ pending[s] # NoRow
                        => age > PendingTtl - Second
    <3>1. PICK age : age = clock - flow[callback[c].state].begun
      OBVIOUS
    <3>. QED
      BY <2>2, <3>1, ConsumesInTime
  <2>. QED
    BY <2>1, <2>2, NextIsOutsideOrStep
<1>. QED
  BY <1>1, <1>2, <1>3, OAuthIsInvariant, PTL DEF Spec, FlowsExpireOnTime

(***************************************************************************)
(* The state value is a one-time ticket                                    *)
(***************************************************************************)

\* What the abstract specification sees, without its CASE and IF.
TicketReads(s) ==
  /\ flow[s] = NoFlow => TicketOf[s] = "unissued"
  /\ flow[s] # NoFlow /\ pending[s] # NoRow => TicketOf[s] = "issued"
  /\ flow[s] # NoFlow /\ pending[s] = NoRow /\ Opened(s) = {} /\ (\E c \in Callback : Holds(c, s))
       => TicketOf[s] = "held"
  /\ flow[s] # NoFlow /\ pending[s] = NoRow /\ (Opened(s) # {} \/ ~\E c \in Callback : Holds(c, s))
       => TicketOf[s] = "spent"

SessionOf == [s \in State |-> Opened(s)]

LEMMA TicketsRead == \A s \in State : TicketReads(s) /\ TicketReads(s)'
<1>. TAKE s \in State
<1>1. TicketReads(s)
  BY DEF TicketReads, TicketOf
<1>2. TicketReads(s)'
  BY DEF TicketReads, TicketOf
<1>. QED
  BY <1>1, <1>2

\* A callback that took a row keeps its state value to the end.
LEMMA TakersKeepState ==
  ASSUME OAuthInvariant, NEW c \in Callback, Steps(c), callback[c].stage # "idle"
  PROVE  callback'[c].state = callback[c].state
<1>0. Knows(c) /\ callback[c] \in InProgress /\ callback \in [Callback -> InProgress]
  BY InvariantGivesKnows DEF OAuthInvariant, TypeOK
<1>1. ASSUME NEW answer, Refuse(c, answer)
      PROVE  callback'[c].state = callback[c].state
  BY <1>0, <1>1 DEF Refuse, Refused, InProgress
<1>2. CASE Consume(c) \/ Redeem(c) \/ Audit(c) \/ Interrupt(c)
  BY <1>0, <1>1, <1>2 DEF Consume, Redeem, Audit, Interrupt, InProgress
<1>3. CASE Identify(c) \/ FindLink(c) \/ Match(c) \/ Link(c) \/ ReadRole(c) \/ StartSession(c)
  BY <1>0, <1>3 DEF Identify, FindLink, Match, Link, ReadRole, StartSession, Refused, InProgress
<1>. QED
  BY <1>2, <1>3 DEF Steps, Arrive, Decline, At

\* Holders and openers of a flow took its row.
LEMMA HoldersTook ==
  ASSUME NEW s \in State, NEW c \in Callback
  PROVE  /\ Holds(c, s) \/ c \in Opened(s) => Took(c) /\ callback[c].state = s
         /\ Took(c) /\ callback[c].state = s => Holds(c, s) \/ c \in Opened(s)
         /\ (Holds(c, s) \/ c \in Opened(s))' => Took(c)' /\ callback'[c].state = s
         /\ Took(c)' /\ callback'[c].state = s => (Holds(c, s) \/ c \in Opened(s))'
BY DEF Holds, Opened, Took

\* The flows of other callbacks, and those a step does not reach, stay as they are.
LEMMA OtherTicketsStay ==
  ASSUME OAuthInvariant, NEW c \in Callback, Steps(c), NEW s \in State, s # callback[c].state
  PROVE  TicketOf'[s] = TicketOf[s] /\ Opened(s)' = Opened(s)
<1>0. opened \subseteq Callback /\ opened' \subseteq Callback /\ Knows(c)
  BY InvariantGivesKnows DEF Knows, TypeOK
<1>1. \A b \in Callback : Holds(b, s)' <=> Holds(b, s)
  <2>1. ~Holds(c, s) /\ ~Holds(c, s)'
    BY HoldersTook, TakesWhatIsThere
  <2>. QED
    BY <2>1, OnlyOneMoves DEF Holds
<1>2. Opened(s)' = Opened(s)
  <2>1. c \notin Opened(s) /\ c \notin Opened(s)'
    BY HoldersTook, TakesWhatIsThere
  <2>2. \A b \in Callback \ {c} : b \in Opened(s)' <=> b \in Opened(s)
    BY OnlyOneMoves DEF Opened
  <2>. QED
    BY <1>0, <2>1, <2>2 DEF Opened
<1>3. pending'[s] = pending[s] /\ flow'[s] = flow[s]
  BY <1>0, StepsTouchTables DEF DeletePending, Knows, TypeOK
<1>. QED
  BY <1>1, <1>2, <1>3 DEF TicketOf

\* What a step that changes one flow looks like from above.
LEMMA OneTicketMoves ==
  ASSUME NEW s \in State, NEW now, TicketOf'[s] = now,
         \A t \in State \ {s} : TicketOf'[t] = TicketOf[t] /\ Opened(t)' = Opened(t)
  PROVE  /\ TicketOf' = [TicketOf EXCEPT ![s] = now]
         /\ SessionOf' = [SessionOf EXCEPT ![s] = Opened(s)']
BY DEF TicketOf, SessionOf

\* The flow a callback has in hand, before and after a step of the callback.
LEMMA HeldTicket ==
  ASSUME OAuthInvariant, NEW c \in Callback, Took(c), c \notin opened
  PROVE  /\ callback[c].state \in State /\ TicketOf[callback[c].state] = "held"
         /\ Opened(callback[c].state) = {}
<1>. DEFINE s == callback[c].state
<1>1. s \in State /\ flow[s] # NoFlow /\ pending[s] = NoRow
  BY DEF OAuthInvariant, CallbackIsSound
<1>2. Opened(s) = {}
  <2>1. ASSUME NEW b \in Opened(s)
        PROVE  FALSE
    <3>1. b \in Callback /\ b \in opened /\ Took(b) /\ callback[b].state = s
      BY <2>1 DEF Opened, Took, OAuthInvariant, TypeOK
    <3>. QED
      BY <3>1 DEF OAuthInvariant, OneTaker
  <2>. QED
    BY <2>1
<1>3. Holds(c, s)
  BY <1>1, <1>2, HoldersTook
<1>. QED
  BY <1>1, <1>2, <1>3, TicketsRead DEF TicketReads

LEMMA SpentTicket ==
  ASSUME OAuthInvariant, NEW c \in Callback, c \in opened
  PROVE  /\ callback[c].state \in State /\ TicketOf[callback[c].state] = "spent"
         /\ Opened(callback[c].state) = {c}
<1>. DEFINE s == callback[c].state
<1>1. Took(c)
  BY DEF Took
<1>2. s \in State /\ flow[s] # NoFlow /\ pending[s] = NoRow
  BY <1>1 DEF OAuthInvariant, CallbackIsSound
<1>3. \A b \in opened : callback[b].state = s => b = c
  BY <1>1 DEF OAuthInvariant, OneTaker, Took, TypeOK
<1>4. Opened(s) = {c}
  BY <1>3 DEF Opened
<1>. QED
  BY <1>2, <1>4, TicketsRead DEF TicketReads

\* While the row is there nobody holds the flow; it may be there no more.
LEMMA UntakenTicket ==
  ASSUME OAuthInvariant, NEW s \in State, flow[s] # NoFlow, pending[s] # NoRow
  PROVE  TicketOf[s] = "issued" /\ \A c \in Callback : ~(Took(c) /\ callback[c].state = s)
<1>1. TicketOf[s] = "issued"
  BY TicketsRead DEF TicketReads
<1>. QED
  BY <1>1 DEF OAuthInvariant, CallbackIsSound

\* A callback that neither has nor gets the row leaves its flow as it is.
LEMMA BystandersChangeNothing ==
  ASSUME OAuthInvariant, NEW c \in Callback, Steps(c), ~Took(c), ~Took(c)', UNCHANGED pending
  PROVE  TicketOf' = TicketOf /\ SessionOf' = SessionOf
<1>0. opened \subseteq Callback /\ opened' \subseteq Callback /\ Knows(c)
  BY InvariantGivesKnows DEF Knows, TypeOK
<1>1. ASSUME NEW s \in State
      PROVE  Opened(s)' = Opened(s) /\ \A b \in Callback : Holds(b, s)' <=> Holds(b, s)
  <2>1. ~Holds(c, s) /\ ~Holds(c, s)' /\ c \notin Opened(s) /\ c \notin Opened(s)'
    BY HoldersTook
  <2>2. \A b \in Callback \ {c} : (b \in Opened(s)' <=> b \in Opened(s)) /\ (Holds(b, s)' <=> Holds(b, s))
    BY OnlyOneMoves DEF Opened, Holds
  <2>3. Opened(s)' = Opened(s)
    BY <1>0, <2>1, <2>2 DEF Opened
  <2>. QED
    BY <2>1, <2>2, <2>3
<1>2. UNCHANGED flow
  BY <1>0 DEF Knows
<1>. QED
  BY <1>1, <1>2 DEF TicketOf, SessionOf

\* A flow whose row is gone and that no callback has is spent.
LEMMA LostTicket ==
  ASSUME OAuthInvariant, NEW c \in Callback, Steps(c), ~Took(c)', NEW s \in State,
         s = callback[c].state, flow[s] # NoFlow, pending'[s] = NoRow,
         \A b \in Callback \ {c} : ~(Took(b) /\ callback[b].state = s)
  PROVE  TicketOf'[s] = "spent" /\ Opened(s)' = {}
<1>0. opened' \subseteq Callback /\ flow'[s] # NoFlow
  BY InvariantGivesKnows DEF Knows, TypeOK
<1>1. \A b \in Callback : ~(Took(b)' /\ callback'[b].state = s)
  BY OnlyOneMoves DEF Took
<1>2. Opened(s)' = {} /\ ~\E b \in Callback : Holds(b, s)'
  BY <1>0, <1>1, HoldersTook DEF Opened
<1>. QED
  BY <1>0, <1>2, TicketsRead DEF TicketReads

\* The callback that takes the row has the flow in hand.
LEMMA TakenTicket ==
  ASSUME OAuthInvariant, NEW c \in Callback, NEW s, s = callback[c].state, Steps(c), ~Took(c), Took(c)'
  PROVE  /\ s \in State /\ TicketOf[s] = "issued"
         /\ TicketOf'[s] = "held"
         /\ Opened(s) = {} /\ Opened(s)' = {}
<1>0. opened \subseteq Callback /\ opened' \subseteq Callback /\ Knows(c) /\ UNCHANGED flow
  BY InvariantGivesKnows DEF Knows, TypeOK
<1>1. callback'[c].state = s /\ Consume(c) /\ Live(s)
  BY TakesWhatIsThere
<1>2. s \in State /\ flow[s] # NoFlow /\ pending[s] # NoRow /\ pending'[s] = NoRow
  BY <1>0, <1>1 DEF Consume, At, Live, DeletePending, OAuthInvariant, CallbackIsSound, TypeOK
<1>3. Opened(s) = {}
  BY <1>0, <1>2, UntakenTicket DEF Opened, Took
<1>4. Opened(s)' = {}
  <2>1. UNCHANGED opened /\ c \notin opened
    BY <1>1 DEF Consume, Took
  <2>. QED
    BY <1>0, <1>3, <2>1, OnlyOneMoves DEF Opened
<1>5. Holds(c, s)'
  BY <1>1, <1>2, <1>4, HoldersTook
<1>6. TicketOf'[s] = "held"
  BY <1>0, <1>2, <1>4, <1>5, TicketsRead DEF TicketReads
<1>. QED
  BY <1>2, <1>3, <1>4, <1>6, UntakenTicket

\* Once a session is opened with it, the flow is spent.
LEMMA OpenedTicket ==
  ASSUME OAuthInvariant, NEW c \in Callback, NEW s, s = callback[c].state, Steps(c), Took(c), c \in opened'
  PROVE  TicketOf'[s] = "spent" /\ Opened(s)' = {c}
<1>0. opened \subseteq Callback /\ opened' \subseteq Callback /\ Knows(c) /\ UNCHANGED flow
  BY InvariantGivesKnows DEF Knows, TypeOK
<1>1. callback'[c].state = s
  <2>1. Took(c)'
    BY DEF Took
  <2>. QED
    BY <2>1, TakesWhatIsThere
<1>2. s \in State /\ flow[s] # NoFlow /\ pending'[s] = NoRow
  BY <1>0 DEF OAuthInvariant, CallbackIsSound, Knows, Grows
<1>3. \A b \in opened' : callback'[b].state = s => b = c
  <2>1. ASSUME NEW b \in opened', b # c, callback'[b].state = s
        PROVE  FALSE
    <3>1. b \in Callback /\ Took(b) /\ callback[b].state = s
      BY <1>0, <2>1, OnlyOneMoves DEF Took
    <3>. QED
      BY <2>1, <3>1 DEF OAuthInvariant, OneTaker
  <2>. QED
    BY <2>1
<1>4. Opened(s)' = {c}
  BY <1>1, <1>3 DEF Opened
<1>. QED
  BY <1>0, <1>2, <1>4, TicketsRead DEF TicketReads

LEMMA KeptTicket ==
  ASSUME OAuthInvariant, NEW c \in Callback, NEW s, s = callback[c].state, Steps(c), Took(c), Took(c)', c \notin opened'
  PROVE  TicketOf'[s] = "held" /\ Opened(s)' = {}
<1>0. opened \subseteq Callback /\ opened' \subseteq Callback /\ Knows(c) /\ UNCHANGED flow
  BY InvariantGivesKnows DEF Knows, TypeOK
<1>1. callback'[c].state = s
  BY TakesWhatIsThere
<1>2. s \in State /\ flow[s] # NoFlow /\ pending'[s] = NoRow
  BY <1>0 DEF OAuthInvariant, CallbackIsSound, Knows, Grows
<1>3. Opened(s) = {}
  <2>1. c \notin opened
    BY StepsTouchTables
  <2>. QED
    BY <2>1, HeldTicket
<1>4. Opened(s)' = {}
  BY <1>0, <1>3, OnlyOneMoves DEF Opened
<1>5. Holds(c, s)'
  BY <1>1, <1>2, <1>4, HoldersTook
<1>. QED
  BY <1>0, <1>2, <1>4, <1>5, TicketsRead DEF TicketReads

\* Only a callback that arrived takes a row away.
LEMMA DeletersArrived ==
  ASSUME NEW c \in Callback, Steps(c), ~UNCHANGED pending, OAuthInvariant
  PROVE  /\ callback[c].state \in State /\ flow[callback[c].state] # NoFlow
         /\ pending[callback[c].state] # NoRow /\ pending'[callback[c].state] = NoRow
<1>. DEFINE s == callback[c].state
<1>1. At(c, "consuming")
  BY DEF Steps, Arrive, Decline, Consume, Redeem, Identify, FindLink, Match, Link, ReadRole,
         StartSession, Audit, Interrupt, Effect, tables
<1>2. s \in State /\ flow[s] # NoFlow
  BY <1>1 DEF At, OAuthInvariant, CallbackIsSound
<1>3. DeletePending(s)
  BY StepsTouchTables
<1>4. pending \in [State -> Row \cup {NoRow}]
  BY DEF OAuthInvariant, TypeOK
<1>5. pending'[s] = NoRow
  BY <1>2, <1>3, <1>4 DEF DeletePending
<1>6. pending[s] # NoRow
  <2>. SUFFICES ASSUME pending[s] = NoRow PROVE pending' = pending
    OBVIOUS
  <2>. QED
    BY <1>2, <1>3, <1>4 DEF DeletePending
<1>. QED
  BY <1>2, <1>5, <1>6

\* What a step of a callback is to the tickets.
LEMMA StepsMoveTickets ==
  ASSUME OAuthInvariant, NEW c \in Callback, Steps(c)
  PROVE  [Tickets!Next]_(Tickets!tickets)
<1>. DEFINE still == UNCHANGED <<TicketOf, approved, SessionOf>>
<1>. PICK s : s = callback[c].state
  OBVIOUS
<1>0. UNCHANGED approved /\ Knows(c)
  BY InvariantGivesKnows
<1>1. still => [Tickets!Next]_(Tickets!tickets)
  BY DEF Tickets!tickets, SessionOf
<1>2. \A t \in State \ {s} : TicketOf'[t] = TicketOf[t] /\ Opened(t)' = Opened(t)
  BY OtherTicketsStay
<1>3. ASSUME NEW now, s \in State, TicketOf'[s] = now
      PROVE  /\ TicketOf' = [TicketOf EXCEPT ![s] = now]
             /\ SessionOf' = [SessionOf EXCEPT ![s] = Opened(s)']
  BY <1>2, <1>3, OneTicketMoves
<1>4. ASSUME s \in State, TicketOf'[s] = TicketOf[s], Opened(s)' = Opened(s)
      PROVE  still
  BY <1>0, <1>2, <1>4 DEF TicketOf, SessionOf
<1>5. ASSUME s \in State, Opened(s)' = Opened(s)
      PROVE  UNCHANGED SessionOf
  BY <1>2, <1>5 DEF SessionOf
<1>6. CASE ~Took(c) /\ Took(c)'
  <2>1. Tickets!Take(s)
    <3>1. s \in State /\ TicketOf[s] = "issued" /\ TicketOf'[s] = "held" /\ Opened(s)' = Opened(s)
      BY <1>6, TakenTicket
    <3>2. TicketOf' = [TicketOf EXCEPT ![s] = "held"] /\ UNCHANGED SessionOf
      BY <1>3, <1>5, <3>1
    <3>. QED
      BY <1>0, <3>1, <3>2 DEF Tickets!Take, Tickets!Moves, SessionOf
  <2>. QED
    BY <1>6, <2>1, TakenTicket DEF Tickets!Next
<1>7. CASE ~Took(c) /\ ~Took(c)'
  <2>1. CASE UNCHANGED pending
    BY <1>0, <1>1, <1>7, <2>1, BystandersChangeNothing
  <2>2. CASE ~UNCHANGED pending
    <3>1. s \in State /\ flow[s] # NoFlow /\ pending[s] # NoRow /\ pending'[s] = NoRow
      BY <2>2, DeletersArrived
    <3>2. TicketOf[s] = "issued" /\ \A b \in Callback : ~(Took(b) /\ callback[b].state = s)
      BY <3>1, UntakenTicket
    <3>3. TicketOf'[s] = "spent" /\ Opened(s)' = {}
      BY <1>7, <3>1, <3>2, LostTicket
    <3>4. Opened(s) = {}
      BY <3>2 DEF Opened, Took, OAuthInvariant, TypeOK
    <3>5. TicketOf' = [TicketOf EXCEPT ![s] = "spent"] /\ UNCHANGED SessionOf
      BY <1>3, <1>5, <3>1, <3>3, <3>4
    <3>6. Tickets!Void(s)
      BY <1>0, <3>2, <3>3, <3>5 DEF Tickets!Void, Tickets!Moves, SessionOf
    <3>. QED
      BY <3>1, <3>6 DEF Tickets!Next
  <2>. QED
    BY <2>1, <2>2
<1>8. CASE Took(c) /\ c \notin opened
  <2>0. s \in State /\ TicketOf[s] = "held" /\ Opened(s) = {}
    BY <1>8, HeldTicket
  <2>1. CASE c \in opened'
    <3>1. TicketOf'[s] = "spent" /\ Opened(s)' = {c}
      BY <1>8, <2>1, OpenedTicket
    <3>2. TicketOf' = [TicketOf EXCEPT ![s] = "spent"] /\ SessionOf' = [SessionOf EXCEPT ![s] = {c}]
      BY <1>3, <2>0, <3>1
    <3>3. approved[s] # Null
      <4>1. At(c, "starting")
        BY <1>8, <2>1, StepsTouchTables
      <4>2. Redeemed(c)
        BY <4>1 DEF At, Redeemed, HoldingStage
      <4>. QED
        BY <1>8, <4>2 DEF OAuthInvariant, CallbackIsSound
    <3>4. SessionOf[s] = {}
      BY <2>0 DEF SessionOf
    <3>5. Tickets!Use(s, c)
      BY <1>0, <2>0, <3>1, <3>2, <3>3, <3>4 DEF Tickets!Use, Tickets!Moves, SessionOf
    <3>. QED
      BY <2>0, <3>5 DEF Tickets!Next
  <2>2. CASE c \notin opened' /\ Took(c)'
    BY <1>1, <1>4, <1>8, <2>0, <2>2, KeptTicket
  <2>3. CASE ~Took(c)'
    <3>1. flow[s] # NoFlow /\ pending'[s] = NoRow
      BY <1>0, <1>8 DEF OAuthInvariant, CallbackIsSound, Knows, Grows
    <3>2. \A b \in Callback \ {c} : ~(Took(b) /\ callback[b].state = s)
      BY <1>8 DEF OAuthInvariant, OneTaker
    <3>3. TicketOf'[s] = "spent" /\ Opened(s)' = {}
      BY <2>0, <2>3, <3>1, <3>2, LostTicket
    <3>4. TicketOf' = [TicketOf EXCEPT ![s] = "spent"] /\ UNCHANGED SessionOf
      BY <1>3, <1>5, <2>0, <3>3
    <3>5. Tickets!Void(s)
      BY <1>0, <2>0, <3>3, <3>4 DEF Tickets!Void, Tickets!Moves, SessionOf
    <3>. QED
      BY <2>0, <3>5 DEF Tickets!Next
  <2>. QED
    BY <2>1, <2>2, <2>3
<1>9. CASE c \in opened
  <2>1. c \in opened' /\ Took(c)
    BY <1>9, StepsTouchTables DEF Took
  <2>2. s \in State /\ TicketOf[s] = "spent" /\ Opened(s) = {c}
    BY <1>9, SpentTicket
  <2>3. TicketOf'[s] = "spent" /\ Opened(s)' = {c}
    BY <2>1, OpenedTicket
  <2>. QED
    BY <1>1, <1>4, <2>2, <2>3
<1>. QED
  BY <1>6, <1>7, <1>8, <1>9 DEF Took

\* Browsers and providers: a flow is issued, or somebody approves it.
LEMMA OutsideMovesTickets ==
  ASSUME OAuthInvariant, Outside
  PROVE  [Tickets!Next]_(Tickets!tickets)
<1>. DEFINE still == UNCHANGED <<TicketOf, approved, SessionOf>>
<1>. USE DEF tables, browser, provider
<1>0. pending \in [State -> Row \cup {NoRow}] /\ flow \in [State -> Flow \cup {NoFlow}]
      /\ approved \in [State -> Identity \cup {Null}]
  BY DEF OAuthInvariant, TypeOK
<1>1. still => [Tickets!Next]_(Tickets!tickets)
  BY DEF Tickets!tickets, SessionOf
<1>2. /\ \A t \in State : Opened(t)' = Opened(t)
      /\ \A t \in State, c \in Callback : Holds(c, t)' <=> Holds(c, t)
      /\ UNCHANGED SessionOf
  BY OutsideGrows DEF Opened, Holds, SessionOf
<1>3. ASSUME NEW t \in State, pending'[t] = pending[t], flow'[t] = flow[t]
      PROVE  TicketOf'[t] = TicketOf[t]
  BY <1>2, <1>3 DEF TicketOf
<1>4. CASE Tick \/ \E i \in Identity, a \in Mail : Rename(i, a)
  <2>1. UNCHANGED <<pending, flow, approved>>
    BY <1>4 DEF Tick, Rename
  <2>2. UNCHANGED TicketOf
    BY <1>3, <2>1 DEF TicketOf
  <2>. QED
    BY <1>1, <1>2, <2>1, <2>2
<1>5. ASSUME NEW s \in State, NEW i \in Identity, Approve(s, i)
      PROVE  Tickets!Next
  <2>1. UNCHANGED <<pending, flow>> /\ flow[s] # NoFlow
    BY <1>5 DEF Approve
  <2>2. UNCHANGED TicketOf
    BY <1>3, <2>1 DEF TicketOf
  <2>3. TicketOf[s] # "unissued"
    BY <2>1 DEF TicketOf
  <2>4. Tickets!Approve(s, i)
    BY <1>2, <1>5, <2>2, <2>3 DEF Approve, Tickets!Approve, SessionOf
  <2>. QED
    BY <2>4 DEF Tickets!Next
<1>6. ASSUME NEW s \in State, NEW p \in Provider, Begin(s, p)
      PROVE  Tickets!Next
  <2>1. flow[s] = NoFlow /\ flow'[s] # NoFlow /\ pending'[s] # NoRow
    <3>1. flow'[s].provider = p /\ pending'[s].provider = p /\ flow[s] = NoFlow
      BY <1>0, <1>6 DEF Begin, Fresh, InsertPending
    <3>2. NoFlow.provider = Null /\ NoRow.provider = Null /\ p # Null
      BY OAuthAssumption DEF NoFlow, NoRow
    <3>. QED
      BY <3>1, <3>2
  <2>2. \A t \in State \ {s} : pending'[t] = pending[t] /\ flow'[t] = flow[t]
    BY <1>0, <1>6 DEF Begin, InsertPending
  <2>3. TicketOf[s] = "unissued" /\ TicketOf'[s] = "issued"
    BY <2>1, TicketsRead DEF TicketReads
  <2>4. TicketOf' = [TicketOf EXCEPT ![s] = "issued"]
    BY <1>2, <1>3, <2>2, <2>3, OneTicketMoves
  <2>5. Tickets!Issue(s)
    BY <1>2, <1>6, <2>3, <2>4 DEF Begin, Tickets!Issue, Tickets!Moves, SessionOf
  <2>. QED
    BY <2>5 DEF Tickets!Next
<1>7. ASSUME NEW s \in State, NEW p \in Provider, BeginFails(s, p)
      PROVE  still
  <2>1. flow[s] = NoFlow /\ flow'[s] = NoFlow /\ UNCHANGED <<flow, approved>>
    BY <1>7 DEF BeginFails, Fresh
  <2>2. \A t \in State \ {s} : pending'[t] = pending[t]
    BY <1>0, <1>7 DEF BeginFails, InsertPending
  <2>3. TicketOf[s] = "unissued" /\ TicketOf'[s] = "unissued"
    BY <2>1, TicketsRead DEF TicketReads
  <2>4. UNCHANGED TicketOf
    BY <1>3, <2>1, <2>2, <2>3 DEF TicketOf
  <2>. QED
    BY <1>2, <2>1, <2>4
<1>. QED
  BY <1>1, <1>4, <1>5, <1>6, <1>7 DEF Outside

\* The detailed specification implements the one-time ticket.
THEOREM ImplementsTicket == Spec => TicketSpec
<1>1. Init => Tickets!Init
  BY DEF Init, Tickets!Init, TicketOf, Opened
<1>2. OAuthInvariant /\ [Next]_vars => [Tickets!Next]_(Tickets!tickets)
  <2>. SUFFICES ASSUME OAuthInvariant, [Next]_vars PROVE [Tickets!Next]_(Tickets!tickets)
    OBVIOUS
  <2>1. CASE UNCHANGED vars
    BY <2>1 DEF vars, tables, browser, Tickets!tickets, TicketOf, Opened, Holds
  <2>. QED
    BY <2>1, OutsideMovesTickets, StepsMoveTickets, NextIsOutsideOrStep
<1>. QED
  BY <1>1, <1>2, OAuthIsInvariant, PTL DEF Spec, TicketSpec, Tickets!Spec
=============================================================================
