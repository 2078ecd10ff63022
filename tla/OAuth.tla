-------------------------------- MODULE OAuth --------------------------------
(***************************************************************************)
(* OAuthLoginService and its callback handler over the tables              *)
(* oauth_pending_authorizations and admin_oauth_identities: a browser is   *)
(* sent to a provider with a fresh state value, and any number of          *)
(* callbacks come back, race, fail and are dropped half-way.               *)
(***************************************************************************)
EXTENDS EpochTime, Faults, FiniteSets

CONSTANTS
  Account,      \* rows of admin_users; an email is the account that has it
  Provider,     \* the configured providers
  Subject,      \* subject identifiers, unique within one provider only
  State,        \* state values; each stands for its nonce and PKCE pair too
  Callback,     \* requests to the callback route
  Null,
  PendingTtl,   \* PENDING_TTL, in ticks
  MaxMails,     \* a bound on the emails one identity has in a TLC run
  MaxTime       \* a bound on its clock

ASSUME OAuthAssumption ==
  /\ Null \notin Account \cup Provider \cup State \cup (Provider \X Subject)
  /\ PendingTtl \in Nat /\ MaxMails \in Nat /\ MaxTime \in Nat

VARIABLES
  pending,    \* [State -> its row of oauth_pending_authorizations]
  links,      \* admin_oauth_identities: [Identity -> Account, or Null]
  opened,     \* the callbacks whose session row was inserted
  audited,    \* the callbacks whose login is in the audit trail
  callback,   \* [Callback -> the request in progress, or its answer]
  flow,       \* the authorize URLs sent to browsers, and when
  approved,   \* at the providers: [State -> who approved the flow, or Null]
  redeemed,   \* at the providers: the flows whose code was redeemed
  mail,       \* at the providers: [Identity -> its email now]
  held,       \* history: [Identity -> every email it has had]
  clock

browser == <<flow, approved>>
provider == <<redeemed, mail, held>>
tables == <<pending, links, opened, audited>>
vars == <<tables, callback, browser, provider, clock, faults>>

\* (provider, subject): equal subjects of two providers are two people.
Identity == Provider \X Subject

\* Null stands for an email that no admin has, or that does not parse.
Mail == Account \cup {Null}

NoRow == [provider |-> Null, created |-> 0]
Row == [provider : Provider, created : Nat]
NoFlow == [provider |-> Null, begun |-> 0]
Flow == [provider : Provider, begun : Nat]

\* Where a callback stands: the call it makes next.
Stage == {"idle", "consuming", "redeeming", "identifying", "finding", "matching",
          "linking", "reading_role", "starting", "auditing", "done"}

\* What complete returns; every refusal is a redirect to the failure page.
Answer == {"none", "signed_in", "declined", "invalid_state", "exchange_rejected",
           "no_linked_account", "internal"}

InProgress == [stage : Stage, answer : Answer, state : State \cup {Null},
               code : State \cup {Null}, email : Mail, id : Mail, role : Mail]

NoCallback == [stage |-> "idle", answer |-> "none", state |-> Null, code |-> Null,
               email |-> Null, id |-> Null, role |-> Null]

TypeOK ==
  /\ pending \in [State -> Row \cup {NoRow}] /\ links \in [Identity -> Mail]
  /\ opened \in SUBSET Callback /\ audited \in SUBSET Callback
  /\ callback \in [Callback -> InProgress]
  /\ flow \in [State -> Flow \cup {NoFlow}]
  /\ approved \in [State -> Identity \cup {Null}] /\ redeemed \in SUBSET State
  /\ mail \in [Identity -> Mail] /\ held \in [Identity -> SUBSET Mail]
  /\ clock \in Nat /\ faults \in Nat

Init ==
  /\ pending = [s \in State |-> NoRow] /\ links = [i \in Identity |-> Null]
  /\ opened = {} /\ audited = {}
  /\ callback = [c \in Callback |-> NoCallback]
  /\ flow = [s \in State |-> NoFlow] /\ approved = [s \in State |-> Null] /\ redeemed = {}
  /\ mail \in [Identity -> Mail] /\ held = [i \in Identity |-> {mail[i]}]
  /\ clock = 0
  /\ FaultsInit

(***************************************************************************)
(* Browsers and providers                                                  *)
(***************************************************************************)

\* Somebody signs in at the provider and approves: the browser gets a code.
Approve(s, i) ==
  /\ flow[s] # NoFlow /\ i[1] = flow[s].provider /\ approved[s] = Null
  /\ approved' = [approved EXCEPT ![s] = i]
  /\ UNCHANGED <<tables, callback, flow, provider, clock, faults>>

\* The email of an account at the provider changes.
Rename(i, a) ==
  /\ a # mail[i] /\ Cardinality(held[i] \cup {a}) <= MaxMails
  /\ mail' = [mail EXCEPT ![i] = a] /\ held' = [held EXCEPT ![i] = @ \cup {a}]
  /\ UNCHANGED <<tables, callback, browser, redeemed, clock, faults>>

Tick ==
  /\ clock < MaxTime /\ clock' = clock + 1
  /\ UNCHANGED <<tables, callback, browser, provider, faults>>

(***************************************************************************)
(* GET /auth/oauth/{provider}/start                                        *)
(***************************************************************************)

\* A state value is 256 random bits: fresh.
Fresh(s) == flow[s] = NoFlow /\ pending[s] = NoRow

InsertPending(s, p) == pending' = [pending EXCEPT ![s] = [provider |-> p, created |-> Stored(clock)]]

Begin(s, p) ==
  /\ Fresh(s)
  /\ InsertPending(s, p)
  /\ flow' = [flow EXCEPT ![s] = [provider |-> p, begun |-> clock]]
  /\ Works
  /\ UNCHANGED <<links, opened, audited, callback, approved, provider, clock>>

\* The INSERT executed, but the browser never gets its URL: nobody consumes the
\* row, and nothing deletes it.
BeginFails(s, p) ==
  /\ Fresh(s)
  /\ InsertPending(s, p)
  /\ Fails
  /\ UNCHANGED <<links, opened, audited, callback, browser, provider, clock>>

(***************************************************************************)
(* GET /auth/oauth/{provider}/callback                                     *)
(***************************************************************************)

At(c, stage) == callback[c].stage = stage
Refused(r, answer) == [r EXCEPT !.stage = "done", !.answer = answer]
Refuse(c, answer) == callback' = [callback EXCEPT ![c] = Refused(@, answer)]

\* A URL with a state and a code that browsers have seen, not always a pair.
\* Which provider the path names makes no difference.
Arrive(c, s, d) ==
  /\ At(c, "idle") /\ flow[s] # NoFlow /\ approved[d] # Null
  /\ callback' = [callback EXCEPT ![c] = [@ EXCEPT !.stage = "consuming", !.state = s, !.code = d]]
  /\ Works
  /\ UNCHANGED <<tables, browser, provider, clock>>

\* The provider reports an error, or the URL lacks its parameters.
Decline(c) ==
  /\ At(c, "idle")
  /\ Refuse(c, "declined")
  /\ Works
  /\ UNCHANGED <<tables, browser, provider, clock>>

\* Mutant: the row is read, and not deleted by the same statement.
DeletePending_Later(s) == UNCHANGED pending

DeletePending(s) == pending' = [pending EXCEPT ![s] = NoRow]

\* Mutant: the second that storage may have cut off is taken from the flow.
Live_Early(s) == pending[s] # NoRow /\ clock - pending[s].created <= PendingTtl - Second

Live(s) == pending[s] # NoRow /\ clock - pending[s].created <= PendingTtl

\* DELETE ... RETURNING takes the row, then its age is checked.
Consume(c) ==
  LET r == callback[c] IN
  /\ At(c, "consuming")
  /\ DeletePending(r.state)
  /\ IF Live(r.state) THEN callback' = [callback EXCEPT ![c].stage = "redeeming"]
                      ELSE Refuse(c, "invalid_state")
  /\ Works
  /\ UNCHANGED <<links, opened, audited, browser, provider, clock>>

\* Mutant: the nonce is not compared.
NonceMatches_Any(r) == TRUE

\* The id_token carries the nonce of the flow its code was issued in.
NonceMatches(r) == r.code = r.state

\* POST to the token endpoint of the flow's provider.  It knows its own codes
\* and takes each once; most providers also compare the PKCE verifier, and so
\* refuse a code of another flow.
Redeem(c) ==
  LET r == callback[c]
      known == approved[r.code][1] = flow[r.state].provider /\ r.code \notin redeemed
  IN  /\ At(c, "redeeming")
      /\ \/ /\ known
            /\ redeemed' = redeemed \cup {r.code}
            /\ IF NonceMatches(r) THEN callback' = [callback EXCEPT ![c].stage = "identifying"]
                                  ELSE Refuse(c, "exchange_rejected")
         \/ /\ ~known \/ r.code # r.state
            /\ Refuse(c, "exchange_rejected")
            /\ UNCHANGED redeemed
      /\ Works
      /\ UNCHANGED <<tables, browser, mail, held, clock>>

Who(r) == approved[r.code]

\* GET to the userinfo endpoint: the subject, and its email at this moment.
Identify(c) ==
  /\ At(c, "identifying")
  /\ callback' = [callback EXCEPT ![c].stage = "finding", ![c].email = mail[Who(callback[c])]]
  /\ Works
  /\ UNCHANGED <<tables, browser, provider, clock>>

\* Mutant: the link is found by the subject alone.
LinkOf_Subject(i) ==
  IF \E j \in Identity : j[2] = i[2] /\ links[j] # Null
  THEN links[CHOOSE j \in Identity : j[2] = i[2] /\ links[j] # Null]
  ELSE Null

LinkOf(i) == links[i]

\* find_admin: an existing link wins over the email.
FindLink(c) ==
  LET r == callback[c]
      a == LinkOf(Who(r))
  IN  /\ At(c, "finding")
      /\ callback' = [callback EXCEPT ![c] =
           IF a # Null THEN [r EXCEPT !.stage = "reading_role", !.id = a]
                       ELSE [r EXCEPT !.stage = "matching"]]
      /\ Works
      /\ UNCHANGED <<tables, browser, provider, clock>>

\* find_by_email: a first-time identity needs an admin with its email.
Match(c) ==
  LET r == callback[c] IN
  /\ At(c, "matching")
  /\ callback' = [callback EXCEPT ![c] =
       IF r.email = Null THEN Refused(r, "no_linked_account")
                         ELSE [r EXCEPT !.stage = "linking", !.id = r.email]]
  /\ Works
  /\ UNCHANGED <<tables, browser, provider, clock>>

\* Mutant: on a conflict the admin is replaced, not only the email.
InsertLink_Upsert(i, a) == links' = [links EXCEPT ![i] = a]

\* INSERT ... ON CONFLICT DO UPDATE SET email: the first admin stays.
InsertLink(i, a) == links' = [links EXCEPT ![i] = IF @ = Null THEN a ELSE @]

\* The id returned is the account that was matched, whatever the table says.
Link(c) ==
  LET r == callback[c] IN
  /\ At(c, "linking")
  /\ InsertLink(Who(r), r.id)
  /\ callback' = [callback EXCEPT ![c].stage = "reading_role"]
  /\ Works
  /\ UNCHANGED <<pending, opened, audited, browser, provider, clock>>

\* The account of the email lends its role; it must exist even after a link.
ReadRole(c) ==
  LET r == callback[c] IN
  /\ At(c, "reading_role")
  /\ callback' = [callback EXCEPT ![c] =
       IF r.email = Null THEN Refused(r, "no_linked_account")
                         ELSE [r EXCEPT !.stage = "starting", !.role = r.email]]
  /\ Works
  /\ UNCHANGED <<tables, browser, provider, clock>>

\* Mutant: a failed INSERT is not noticed.
InsertSession_Lost(c) == UNCHANGED opened

InsertSession(c) == opened' = opened \cup {c}

StartSession(c) ==
  /\ At(c, "starting")
  /\ InsertSession(c)
  /\ callback' = [callback EXCEPT ![c].stage = "auditing"]
  /\ Works
  /\ UNCHANGED <<pending, links, audited, browser, provider, clock>>

RecordLogin(c) == audited' = audited \cup {c}

\* The audit record comes last and is best-effort.
Audit(c) ==
  /\ At(c, "auditing")
  /\ \/ RecordLogin(c) /\ Works
     \/ UNCHANGED audited /\ Fails
  /\ Refuse(c, "signed_in")
  /\ UNCHANGED <<pending, links, opened, browser, provider, clock>>

\* What the awaited call does to a table or to the provider.
Effect(c) ==
  LET r == callback[c] IN
  \/ At(c, "consuming") /\ DeletePending(r.state) /\ UNCHANGED <<links, opened, audited, redeemed>>
  \/ At(c, "redeeming") /\ redeemed' = redeemed \cup {r.code} /\ UNCHANGED tables
  \/ At(c, "linking") /\ InsertLink(Who(r), r.id) /\ UNCHANGED <<pending, opened, audited, redeemed>>
  \/ At(c, "starting") /\ InsertSession(c) /\ UNCHANGED <<pending, links, audited, redeemed>>
  \/ At(c, "auditing") /\ RecordLogin(c) /\ UNCHANGED <<pending, links, opened, redeemed>>

\* A call fails, its answer is unusable, or the request is dropped at its
\* await; the call may have had its effect all the same.
Interrupt(c) ==
  /\ callback[c].stage \notin {"idle", "done"}
  /\ Effect(c) \/ UNCHANGED <<tables, redeemed>>
  /\ Refuse(c, "internal")
  /\ Fails
  /\ UNCHANGED <<browser, mail, held, clock>>

Next ==
  \/ Tick
  \/ \E i \in Identity : (\E s \in State : Approve(s, i)) \/ (\E a \in Mail : Rename(i, a))
  \/ \E s \in State, p \in Provider : Begin(s, p) \/ BeginFails(s, p)
  \/ \E c \in Callback :
       \/ \E s \in State, d \in State : Arrive(c, s, d)
       \/ Decline(c) \/ Consume(c) \/ Redeem(c) \/ Identify(c) \/ FindLink(c) \/ Match(c)
       \/ Link(c) \/ ReadRole(c) \/ StartSession(c) \/ Audit(c) \/ Interrupt(c)

Spec == Init /\ [][Next]_vars

(***************************************************************************)
(* Properties                                                              *)
(***************************************************************************)

\* The callbacks that took the pending row of their state.
HoldingStage == {"redeeming", "identifying", "finding", "matching", "linking",
                 "reading_role", "starting", "auditing"}
Holds(c, s) == callback[c].state = s /\ callback[c].stage \in HoldingStage

Opened(s) == {c \in opened : callback[c].state = s}

\* The state value works as a one-time ticket.
TicketOf == [s \in State |->
  CASE flow[s] = NoFlow -> "unissued"
    [] flow[s] # NoFlow /\ pending[s] # NoRow -> "issued"
    [] OTHER -> IF Opened(s) = {} /\ \E c \in Callback : Holds(c, s) THEN "held" ELSE "spent"]

Tickets == INSTANCE SignInTicket WITH
  ticket <- TicketOf, approver <- approved, session <- [s \in State |-> Opened(s)]

TicketSpec == Tickets!Spec

\* A session is opened for the flow its callback took, as the identity that
\* approved that very flow, and a flow opens one session at most.  Which browser
\* gets the session is another matter: a state value is bound to none, and the
\* callback answers whoever presents it.
SessionsAreApproved ==
  \A c \in opened :
    LET r == callback[c] IN
      /\ r.code = r.state /\ Who(r) # Null
      /\ Who(r)[1] = flow[r.state].provider
      /\ \A b \in opened : callback[b].state = r.state => b = c

\* An identity is, and stays, one admin with one role: a session carries the
\* admin of the durable link and that admin's role, and the link was made
\* because the identity had the admin's email.  Except when the identity's email
\* changed: then the id may come from the link and the role from another admin.
Renamed(i) == held[i] # {mail[i]}

SessionsMatchLinks ==
  /\ \A i \in Identity : links[i] # Null => links[i] \in held[i]
  /\ \A c \in opened :
       LET r == callback[c]
           who == Who(r)
       IN  /\ links[who] # Null /\ {r.id, r.role} \subseteq held[who] \ {Null}
           /\ ~Renamed(who) => r.id = links[who] /\ r.role = links[who]

\* Once an identity is linked, no callback moves it to another admin, although
\* two first callbacks may both have found no link.
LinksStay ==
  [][\A i \in Identity : links[i] # Null => links'[i] = links[i]]_vars

\* A flow is accepted within the ten minutes only, and refused as stale no more
\* than the fraction of a second too early that storing its start cuts off.
FlowsExpireOnTime ==
  [][\A c \in Callback :
       LET s == callback[c].state
           age == clock - flow[s].begun
       IN  At(c, "consuming") =>
             /\ callback'[c].stage = "redeeming" => age <= PendingTtl
             /\ callback'[c].answer = "invalid_state" /\ pending[s] # NoRow
                  => age > PendingTtl - Second]_vars

\* The audit trail names no OAuth login that opened no session, and misses one
\* only if something failed.
LoginsAreAudited ==
  /\ audited \subseteq opened
  /\ faults = 0 => \A c \in opened : At(c, "done") => c \in audited
(***************************************************************************)
(* The inductive invariant of the proofs: what a callback knows, stage by  *)
(* stage, and who took which row.                                          *)
(***************************************************************************)

Took(c) == callback[c].stage \in HoldingStage \/ c \in opened

Redeemed(c) == callback[c].stage \in HoldingStage \ {"redeeming"} \/ c \in opened

Identified(c) == callback[c].stage \in HoldingStage \ {"redeeming", "identifying"} \/ c \in opened

Linked(c) == callback[c].stage \in {"reading_role", "starting", "auditing"} \/ c \in opened

RoleRead(c) == callback[c].stage \in {"starting", "auditing"} \/ c \in opened

CallbackIsSound(c) ==
  LET r == callback[c] IN
  /\ Took(c) \/ r.stage = "consuming" =>
       /\ r.state \in State /\ r.code \in State
       /\ flow[r.state] # NoFlow /\ approved[r.code] # Null
  /\ Took(c) => pending[r.state] = NoRow
  /\ Redeemed(c) => r.code = r.state
  /\ Identified(c) => r.email \in held[Who(r)]
  /\ r.stage = "linking" => r.id = r.email /\ r.id # Null
  /\ Linked(c) => r.id # Null /\ r.id \in held[Who(r)] /\ links[Who(r)] # Null
  /\ RoleRead(c) => r.role = r.email /\ r.role # Null
  /\ c \in opened => r.stage \in {"auditing", "done"}
  /\ r.stage = "auditing" => c \in opened
  /\ c \in opened /\ r.stage = "done" => r.answer \in {"signed_in", "internal"}

OneTaker == \A b, c \in Callback : Took(b) /\ Took(c) /\ callback[b].state = callback[c].state => b = c

ApprovalsMatch ==
  \A s \in State : approved[s] # Null => flow[s] # NoFlow /\ approved[s][1] = flow[s].provider

MailsAreHeld ==
  \A i \in Identity : mail[i] \in held[i] /\ (links[i] # Null => links[i] \in held[i])

OAuthInvariant ==
  /\ TypeOK /\ OneTaker /\ ApprovalsMatch /\ MailsAreHeld
  /\ \A c \in Callback : CallbackIsSound(c)
=============================================================================
