# Verification of auth-app in TLA+

auth-app is an administration back end in Rust (axum, sqlx/PostgreSQL) with a React front end. It has
three parts with real protocol content: **payments** (checkouts, admin refunds, provider webhooks, a
trail), **sign-in** (rate limit, password login with lockout, OAuth, server-side sessions) and **startup**
(configuration, migrations, the first administrator). This directory
holds TLA+ models of that code, TLC instances that check them, and TLAPS proofs.

Paths below are relative to `src/crates/` unless they start with another directory of the repository.

## 1. Inventory

| component | state | operations | what is hard | what makes it correct |
|---|---|---|---|---|
| Payment state machine (`payments/src/payment.rs`) | one status per payment | `can_transition_to` | it is the only definition of legality, and three callers rely on it | every stored move is legal |
| Payments repository (`infrastructure/src/payments_repo.rs`) | `payments.payments`, `payments.payment_status_history` | `insert`, `set_provider_reference`, `transition`, `find*`, `history` | `insert` is two statements without a transaction; callers act on rows they read earlier | status and history never drift |
| Refunds (`application/src/payments.rs`, `api/src/transactions.rs`) | locals of a request | `get`, `list`, `refund` | one provider call between the read and the write; its answer may be lost | the trail never records more money than the provider gave back |
| Provider port and Stripe adapter (`payments/src/provider.rs`, `infrastructure/src/payments_stripe.rs`) | none here; intents and refunds at the provider | `create_intent`, `refund`, `capture`, `get_status` | a refund is two HTTP calls without an idempotency key | a refund is reported only if it happened |
| Webhooks (`payments/src/webhook.rs`, `application/src/payments_webhook.rs`, `infrastructure/src/payments_stripe_webhook.rs`, `payments_webhook_store.rs`, `api/src/payments_webhook.rs`) | receipts | verify, claim, look up, apply | duplicates, reordering, retries, failure after the claim, delivery before the payment is linked | an event moves only its own payment, by legal moves, and none twice; every event is acknowledged in the end |
| Login and lockout (`domain/src/auth.rs`, `application/src/auth.rs`, `infrastructure/src/admin_repo.rs`, `api/src/auth.rs`) | failure counters per account and per IP | `login`, `create_first_admin`, the login route | counters are computed from a read made before the slow password check | failures are counted; a locked key cannot log in; what is audited is what was answered |
| Rate limiter (`api/src/rate_limit.rs`) | window and count per key, in memory | `check` | window boundary; instants read before the lock; two keys per login; restart | at most two windows' worth in any window; a refusal is deserved |
| Sessions (`domain/src/session.rs`, `application/src/session.rs`, `infrastructure/src/session_repo.rs`, `api/src/session.rs`, `api/src/rbac.rs`) | session rows | `start`, `authenticate`, `rotate`, `revoke` | requests of one browser race; rotation is three statements | a revoked or expired session authenticates nobody |
| OAuth (`application/src/oauth.rs`, `infrastructure/src/oauth_repos.rs`, `oauth_provider.rs`, `api/src/oauth.rs`) | pending requests, identity links | `begin`, `complete` | ten awaits, single use, expiry, mixed-up codes, linking race, changing e-mails | a flow opens one session at most, for whoever approved that flow, as the admin of the durable link |
| Audit (`application/src/audit.rs`) | audit rows | best-effort `record` | the record may be missing for an action that happened | a record says what happened, and is missing only when something failed |
| Migrations and modules (`infrastructure/src/db.rs`, `contracts/src/registry.rs`, `migration.rs`) | `_sqlx_migrations`, an advisory lock, the in-memory executor | `migrate`, `register`, `run_migrations`, `init` | several processes of several builds start at once, and die in the middle; equal names, and names that join to equal ids | each migration is applied once, in order; a server runs on its own schema |
| Wiring and configuration (`server/src/main.rs`, `server/src/config.rs`) | the environment, the router | `serve`, `bootstrap-admin` | settings are read before and after the migrations | nothing half-configured serves; one first admin |
| Query client (`src/packages/query/src/`) | query cache, 401 latch | retry, `onUnauthorized` | the latch fires once per client | a lost session is noticed |
| Backups (`src/infra/postgres/scripts/`) | dump files | backup, rotation, restore | a crash during a dump | a published dump is complete |

Interactions. The HTTP handlers (axum tasks, one per request) call the application services; the services
call ports (`dyn` traits) implemented by the infrastructure adapters; the only shared state is the
database, the provider, and the in-process maps of the rate limiter and of the fake provider. Those maps are behind a
mutex held for one call; otherwise requests interleave at every `await`, and the row locks, unique indexes
and the migrator's advisory lock in PostgreSQL are the only synchronisation. Nothing survives a crash but
the tables. The hazards this
creates are listed, line by line, in `PROJECT.json`.

## 2. Modules

```
PaymentStatus            the statuses and the legal moves
PaymentLedger            abstract: what the storage promises (status + trail)
Faults                   the budget of failed or dropped calls
PaymentTypes             the constants and the identifiers of the context
PaymentRepository        the tables and the adapter's statements
PaymentProvider          the provider as the program can observe it, and the Stripe adapter
Checkout, Refund,        the three kinds of request that write
WebhookIntake
PaymentViews             the detail page and the list, which read twice
Payments                 the composition, with every property
MCPayments               instances for TLC
PaymentsProofs           the trail's invariant is inductive; Payments implements PaymentLedger;
                         what a page may rely on between its two reads
MoneyProofs              what is stored and acknowledged is backed by the provider

EpochTime                instants as the tables hold them
SessionLife              abstract: who holds a token, who acts by it
SessionStore             admin_sessions, its statements and the expiry rule
Sessions                 the service, the middleware and logout, with every property
MCSessions               instances for TLC
SessionsProofs           types, provenance and deadlines are inductive; Sessions implements
                         SessionLife; expiry, logout and rotation

Lockout                  the counters of an account or an address, and the policy
Login                    concurrent attempts over both tables, with every property
MCLogin                  instances for TLC
LoginProofs              the counters stay sound; who can lift a lock or invent a failure
RateLimiter              fixed windows in the memory of one process
FrontDoor                the login route: limiter, Login, audit record, session; restarts
MCFrontDoor              instances for TLC
FrontDoorProofs          windows, handlers and the login service agree; throttling, audit, restarts

SignInTicket             abstract: what the state value of an OAuth flow promises
OAuth                    begin, the callback, the tables and the providers
MCOAuth                  an instance for TLC
OAuthProofs              what a callback knows, stage by stage, and what follows; OAuth
                         implements SignInTicket

ModuleRegistry           what a run over the migrations of a list of modules applies
Startup                  serve and bootstrap-admin, by many processes of many builds
MCStartup                an instance for TLC: three builds, nine launches
StartupProofs            one migrator at a time; the schema a server runs on; the first admins
```

**PaymentRepository.** `status`, `reference` and `history` are the columns `status` and
`provider_reference` and the rows of `payment_status_history`; `Absent` stands for a missing row.
`transition` is a compare-and-set (`UPDATE ... WHERE status = expected`) and the history row in one
transaction, so it is one atomic operator, `Transition`, beside `TransitionConflict` (no row matched) and
`TransitionFails` (rolled back, or committed with the answer lost). It does not check that the move is
legal; its callers do. `insert` issues two statements on the pool and is two
operators.

**PaymentProvider.** An intent has the program's own statuses (the adapter translates Stripe's into them)
and an amount given back, `refunded`. It moves by itself in the order the status table allows
(`ProviderProgress`), an operator of the provider's
dashboard may refund (`DashboardRefund`), and every change emits the event that announces it.
An event is a type, a reference and, for refunds, the total so far; `sent` only grows, so any event may be delivered in any order, any
number of times. `Phase` is the order in which one intent emits its events. Amounts are the smallest
numbers that separate a full refund from a partial one.

**Checkout.** Nothing in `src/` creates payments: the repository port is what a host application uses.
`Checkout` follows the only order the port's signatures allow: `insert`, `create_intent`,
`set_provider_reference`. `AbortCheckout` is a failure at any of them, before or after its effect; the intent of a
`create_intent` whose answer is lost belongs to no payment from then on.

**Refund.** One action per await of `PaymentsService::refund`: `StartRefund` (find and the checks; the
answers `not_found`, `not_refundable`, `no_reference`), `CallProvider` (two HTTP calls, the refund and the
fetch of its intent), `RecordRefund` (the transition, with its conflict), and `DropRefund` (the
client goes away, or the process dies). Once the refund call has moved money, its answer may be lost, the fetch may
fail (a 4xx is `rejected`, HTTP 422; anything else `unavailable`, 502), and a fetched intent without an amount
reads as 0 and so as fully refunded (`RefundReply`); the late check of the reply (`Replied`) is kept although it never refuses. `moved` is a history variable: did this request move money?

**WebhookIntake.** `RejectDelivery`, then `ClaimEvent`/`Deduplicate`/`ClaimFails` (the unique receipt),
`LookUp`, `Apply`, `DeliveryFails`. The five outcomes and their HTTP meaning are kept: everything but
`Error` is a 2xx or a final refusal, `Error` asks for a retry. `concluded` is a history variable: the
events that some delivery brought to Processed or Ignored.

**PaymentViews.** `get` reads the row, then the history; what it shows is compared with itself. `list` counts
the matching rows, then reads one page: a query is a filter on the status, the set of payments within its
bounds on `created_at` (which never changes, so the bounds are a set), and the limit and offset after the
clamp of route and adapter. A read that fails ends the page with a 500 and changes nothing, so there is no
action for it.

**SessionStore.** One row per token, or none. Time is counted in ticks, `Second` of them to a second: the
adapter stores whole seconds (`Stored` cuts the fraction off) while the service compares them with the
full clock, and that difference is where sessions go wrong. `opened` and `lastUse` are history variables:
the true opening and the true last use, which no row keeps. `csrf_token` and `role` are fixed when the row
is written and never change, so they ride along with the token and the admin.

**Sessions.** One request record per concurrent request, one action per await: `Arrive` reads the clock,
`FindNothing`/`FindExpired`/`FindLive` is the SELECT with the decision the code takes on it,
`DeleteExpired`, `Touch` (followed by what the middleware does without awaiting: the CSRF check and the
choice of the handler), `Revoke` (logout), `Replace` (rotate's DELETE and the fresh draw of `start`),
`SignIn` and `Insert` (`start` after a login). `Interrupt` is a statement that fails where the error is
not ignored, or a request dropped at its await; the database may or may not have executed the statement.
`jar` never shrinks: a cookie that was once sent may come back at any time, also after the session has
ended. A finished request keeps what it was answered (`answer`) for the properties to refer to.

**SessionLife.** A token is unused, held by an admin, or ended, and never leaves `ended`; a request is
granted the holder of a token at an instant at which it is held. The refinement mapping computes both from
rows and stages.

**Lockout.** `LockoutState` and `LockoutPolicy` as records and operators. `locked_until: None` is the
instant 0, which lies after no reading of the clock. The code caps its shift at 32 and its factor at 2^32 - 1;
`PolicyAssumption` asks for a ceiling that the doubling reaches before that, which the assumption says of
the policy and the recommended one (one minute, one hour) satisfies by far. Counters are unbounded here;
in the program they saturate at 2^32 - 1 and are stored as `i32`, which takes 2^31 failures to matter.

**Login.** One record per concurrent attempt, one action per await that touches a counter: `Start` reads
the clock, `RejectIp`/`PassIp` is the read of the address, `ReadAccount` is the look-up and the password
check (the check itself is a verdict, `right`, drawn at the start; an email without an account, or one that
does not parse, is `Null`), `RecordAccount` and `RecordIp` are the two writes, in the code's order, each
computed from what was read (`seen`, `ipSeen`) and not from what is there. `Interrupt` is a failed
statement, a failed hash, or a request dropped at its await. `wrong` and `refused` are history variables: the failures
that were really written since the last success that was written. A finished attempt keeps its answer.

**RateLimiter.** One window per key: a count and the instant it started. `check` is called with an instant
its caller read before it took the lock, so `Elapsed` is cut off at zero, as `saturating_duration_since`
does. Every check counts, also one that refuses.

**FrontDoor.** The login route composes `Login` (unchanged: its actions are conjuncts here) with
`RateLimiter`. A handler reads the clock (`Knock`), checks the address and then the account
(`ThrottleIp`/`PassLimitOfIp`, `ThrottleAccount`/`EnterLogin`), runs the login service (`InLogin`), records the
event (`Audit`, best-effort) and opens the session (`OpenSession`). Handlers do not await between the
clock and the two checks, so time passes in between by `MaxLag` at most; the checks of two handlers do
interleave. `Restart` kills the process: windows and requests are gone, the lockouts are not, and a statement
in flight may have been executed (`Remains`). `admitted` is a
history variable: the instants at which the handler let a request of the key through, in their order. A
restart empties the program's windows and therefore this log too: what is promised is promised per process.

**OAuth.** One record per callback, one action per await of `complete` and of the handler: `Consume` (DELETE
... RETURNING, then the age), `Redeem` (the token endpoint, then the nonce), `Identify` (userinfo),
`FindLink`, `Match`, `Link`, `ReadRole`, `StartSession`, `Audit`. `Arrive` takes any state and any code that
browsers have seen, in any combination: mixed-up callbacks, replays and second tabs are all there. A state
value stands for its nonce and PKCE pair too, which are drawn and stored with it; whether a provider checks
the PKCE verifier is its choice, whether the nonce is compared is not. `Approve` and `Rename` are the world outside: somebody
approves a flow at the provider, and an account's e-mail there changes at any moment. `Interrupt` is a
call that fails or a request dropped at its await, with or without the effect of the call (`Effect`).
`flow` and `held` remember what was begun and every e-mail an identity has had.

**SignInTicket.** The promise of a state value: issued once, held by one callback, good for one session,
and only after an approval. `OAuth` maps rows, stages and sessions to it (`TicketOf`).

**ModuleRegistry.** `ensure_unique_names` and the two loops of `run_migrations` as functions of a list of
modules. A name is the sequence of the parts that `::` separates in it, and an id is the two names joined, as the one
string is in the code: where one name ends and the next begins cannot be told from it. (A name that begins
or ends with a single colon would join in one more way.) The executor in `main.rs` starts empty, so a run is from nothing. That a
migration's name is unique within its module is what its doc says and nothing checks (`ModulesAssumption`).

**Startup.** A process runs `serve` or `bootstrap-admin` step by step. The environment is a record with one
field per section and, per field, the outcomes its `from_env` can tell apart; which sections are read before
the database is touched and which after the migrations is the code's order (`Configured`, then `Wire`). The
migrator takes an advisory lock, lists what is applied, refuses unknown versions (`Known`) and changed
checksums (`Matches`), and applies the rest, each in its transaction. `create_first_admin` parses the e-mail,
checks the password policy, counts, hashes, inserts (`Check`, `Count`, `Insert`). `Die` is a call that
fails or a kill at any step; the statement in flight may be committed all the same. `late` is a history flag: was there an
admin when this process started?

## 3. What is checked

Bounds of the payments runs: one or two payments and intents, two admins, one or two handlers, one
reader, `MaxFaults` failed or dropped calls, `MaxRejected` rejected deliveries (only `payments_live` has one: a rejection
leaves a receipt beside the claimed ones and nothing else). Two actors of each kind are what
the races need (a lost update takes two writers); the tables have one row per payment and no code
compares rows, so one payment shows everything except confusion between payments and what the list does,
which have their own run. One fault at any point covers each single failure in each state that the others can produce.

| run | shows |
|---|---|
| `payments_core` | with two refunds, two webhook tasks, one fault and an intent twice the payment, so that refunds are partial and can be repeated: types, trail = status, nothing recorded that the provider did not do (`NeverAheadOfProvider`) or pay (`RefundsAreBacked`), money that an admin's refund moved shows on the payment unless a call failed (`MovedMoneyShows`), an acknowledged event is not lost as long as nothing fails, and `LedgerSpec` (refinement) |
| `payments_two` | two payments, and a reader of the detail page and of the second page of one row of the canceled payments: an event moves only its own payment; the detail page never shows a status that its history does not explain; the list's total is never an overcount (4.1 million states, the longest run) |
| `payments_live` | every event is acknowledged in the end, one failure and one rejected delivery included |
| `payments_orderly` | with in-order delivery after linking, and partial refunds by an admin and from the dashboard, the status settles on the provider's last word as the program reads it (`SettlesInSync`) |

Bounds of the sessions runs: two requests (the races are between two), two ticks to a second (the least
that tells a cut-off fraction from none), and idle and absolute timeouts of one to three seconds.
`sessions_core` has two tokens (a rotation hands one over to the other) and two admins and stops the clock
early, since what it checks compares admins and tokens, never times; `sessions_expiry` has one token and
a clock that runs past both timeouts.

| run | shows |
|---|---|
| `sessions_core` | two requests, two admins, one failure: who acts is who signed in, a deleted row never comes back, a rotation hands over to the same admin, and, as long as nothing fails, 204 after a logout and new cookies after a rotation mean that the old row is gone |
| `sessions_expiry` | two requests touch one row in any order: no session outlives its idle or absolute timeout, and none is called expired before it is due, to within a second, unless its row does not show its last use |

Bounds of the login run: two attempts at a time (a lost update takes two), four in all (an account needs
`MaxAttempts` = 2 to be locked, one more to double, one to be answered), two accounts and two addresses, so
that an account is attacked from two addresses and an address attacks two accounts, a base delay of one
second and a ceiling below its double, so that the cap bites at the second lock, and a clock that passes
the first lock's end. `frontdoor_core` has one account, two addresses, three requests, one failure and a maximum of one per
window. `frontdoor_window` is about one key and its windows, so it has one address and no account: six requests,
two per window of two ticks, and a clock that runs through three windows, one tick of lag included. It
reaches the burst across a boundary that `AtMostTwoWindows` bounds: six admissions, of which the second and the sixth
are exactly a window apart.

| run | shows |
|---|---|
| `login_core` | whatever attempts overwrite, no counter is locked below the threshold or beyond the ceiling; only an attempt that read stale counters can lift or shorten a lock, or store a count above the failures since the last success |
| `frontdoor_core` | the composition, with a failure, a dropped request or a restart: the audit event is the one of the answer, a record is missing only if something failed, and a session is opened only for an attempt that was let in |
| `frontdoor_window` | a key is admitted twice the maximum at most in any window (of two admissions with twice the maximum between them the later is a window after the earlier, less the lag of the handlers' instants), a 429 is deserved and its Retry-After right to within a second |

Bounds of `oauth_core`: two flows and two callbacks (a replay, a mix-up and a linking race each take two), two
providers with one subject (so that equal subjects are two people), two admins, two e-mails per identity, a time
to live of one second (two ticks, so that the cut-off fraction tells) and a clock that runs half a second longer, so
that a flow is met in time, in its last fraction, and late; one failure.

| run | shows |
|---|---|
| `oauth_core` | a session is opened as the identity that approved the very flow its callback took, and a flow opens one session at most (`SessionsAreApproved`, and `TicketSpec` as a refinement); id and role are those of the durable link unless the e-mail changed; a link never moves; a flow is taken within its time only, and refused as stale at most a fraction of a second early; logins are audited |

Bounds of `startup_core`: two processes, three starts in all, one death, and three builds: an old one, its
successor, and one whose first migration was edited. Two modules of the old build call their migrations alike, the successor
adds a module that has an id of another one's, and two modules of the edited build share a name. The nine launches are
three environments that serve (everything; no payment provider; no OAuth and the fake provider), environments with
one thing wrong in each section that is read before or after the
migrations, and bootstraps with two e-mails, one of them also with a password that is too short.

| run | shows |
|---|---|
| `startup_core` | no migration is applied twice or skipped whoever dies (in this instance every build numbers its migrations alike); a serving process has its own build's schema, every migration id of its modules once, each module whole that shares no id, and exactly the surfaces configured; an admin is created only by a run that started when there was none; every start ends, also for those who wait for the lock |

One run is expected to fail; it states what the repository says and the code does not do, and is a finding in
`PROJECT.json`: `payments_retry`. `RetriesApply` says of an event whose payment was found in a status from which the
move is legal that it is processed in the end, or that its payment has moved past it. The counterexample: the event of an
action the customer must take is claimed, its payment is found `created`, and the transition fails; the answer is 500, the
provider's retry is answered Duplicate, and the payment stays `created` for ever.

More disagreements and surprises were met while modelling and have no run of their own.

* A refund can be answered with an error although the money was given back: 409 if another refund or the `charge.refunded`
webhook of the refund itself wins the race to the row (`application/src/payments.rs:168`; `api/src/transactions.rs:278-285`
answers it with the `not_refundable` of an early refusal), documented as "Payment is not in a refundable
state" (line 262); 422 if the fetch after the refund gets a 4xx (`infrastructure/src/payments_stripe.rs:69-75`, `:192`), documented as
"The provider declined the refund" (line 263); 502 or 500 if an answer or the row's write is lost. `MovedMoneyShows` is what holds
of such a refund.
* The refund of an intent whose response has no `amount` is recorded as a full one (`#[serde(default)]`,
`infrastructure/src/payments_stripe.rs:83-84`, `:193`).
* `charge.refunded` is mapped
to the terminal `refunded` whatever was refunded (`infrastructure/src/payments_stripe_webhook.rs:135`), while
the state's doc says "The full captured amount has been returned." (`payments/src/payment.rs:82`). `NeverAheadOfProvider`
therefore asks of `refunded` only that a part was given back, and `SettlesInSync` compares with the provider's last event
as the program reads it (`LastWord`), not with the amounts.
* An admin's partial refund races with its own event: recorded first, it leaves the payment `partially_refunded` if
the event had been looked up already (the conflict drops it), and the event turns it into `refunded` otherwise.
`SettlesInSync` allows both.
* The intent of a `create_intent` whose answer is lost stays at the provider without a payment
(`infrastructure/src/payments_stripe.rs:114-126`: no idempotency key); its events are ignored.
* `insert`
writes the payment and its creation history row in two statements without a transaction
(`infrastructure/src/payments_repo.rs:59-88`), while the migration says "in the same transaction"
(`0004_payments_schema.sql:30-31`); `AbortCheckout` models the lost creation row and `TrailMatchesStatus`
allows it.
* An event that arrives before an earlier one of its intent, or before the payment is linked, is
ignored for good, and nothing in `src/` calls `get_status` to reconcile, which is what `OrderlySpec` has to assume
away.
* The total of the list can be an overcount when the filter is a status that payments leave between the two
reads; the comment (`application/src/payments.rs:94-96`) names only payments that come in. `TotalsUndercount`
is stated for the filters for which it holds.
* A logout ignores the
outcome of its DELETE and answers 204 (`api/src/session.rs:269`); its comment only considers a session that
is already gone. A logout with an expired session is answered 401 by the middleware and clears no cookie
(`api/src/session.rs:101`), while `src/README.md:245` says it still does.
* Two requests that straddle a second, one of them overtaken by the other, can find a live session's row
"from the future": it is called expired and deleted (`application/src/session.rs:160`).
`ExpiredOnlyWhenDue` names this case.
* An attempt that overlaps the one that locks an account writes its older count over the lock
(`application/src/auth.rs:189`). `LockHoldsUnlessStale` names this case.
* An attempt that overlaps a successful one writes a count it read before the success cleared it: with one
failure less than the threshold before the success, a single failure after it locks the account, while the count is
documented as "Consecutive failed attempts since the last success" (`domain/src/auth.rs:230`; the read is at
`application/src/auth.rs:181`, the writes at `:189-192`). `EarnedUnlessStale` names this case.
* An OAuth session carries the id of the linked admin and the role of the admin whose e-mail the provider
reports now (`application/src/oauth.rs:186-207`), while the field is documented as "That admin's role."
(line 37). `SessionsMatchLinks` names this case.
* Two first callbacks of one identity whose e-mail changes in between match two accounts; the second link is
dropped (`ON CONFLICT ... DO NOTHING`), and its callback signs in the account it matched and not
the one the link names (`application/src/oauth.rs:237-246`). The same exception of `SessionsMatchLinks` covers it.
* The state value of an OAuth flow is described as "anti-CSRF" (`domain/src/oauth.rs:87`), and it is compared with the stored
row only: the start sets no cookie (`api/src/oauth.rs:98-107`) and the callback takes any state and code
(`:124-146`). That the browser of the callback is the one that began the flow is therefore not promised by the code and not
part of `SessionsAreApproved`, which relates a session to the flow and to the identity that approved it.
* A pending row whose flow is abandoned is never deleted: nothing prunes `oauth_pending_authorizations`. The
limiter's map of keys is not pruned either.
* Retry-After is cut off to whole seconds (`api/src/auth.rs:203`): who waits exactly that long may be refused
again. `ThrottlesAreEarned` says that a second more is enough.
* A login is recorded as succeeded before its session is started (`api/src/auth.rs:233`), which may still
fail and be answered 500.
* Two bootstraps that overlap can create two first admins with different e-mails (the count and the insert are two
statements, with the hashing in between), while the service's doc says that it refuses once any admin
exists (`application/src/auth.rs:256-258`). `FirstAdminsOnly` is what is left of it.
* The migrator compares lists, not positions: with builds whose migrations are 1, 3 and 1, 2, 3, the newer one
applies 2 after 3 on a database of the older, and the schema is then the beginning of no build's list.
`AppliedOnce` speaks of the order only for builds that number their migrations alike (`NumberedAlike`); an
instance of those two builds violates the unconditional form.
* "Modules cannot collide", says the registry of its `<module>::<name>` ids (`contracts/src/registry.rs:54-55`). A module `a` with
`b::c` and a module `a::b` with `c` pass the check of the names and have one id, so that the second migration
is skipped (line 66). `ServesWhole` excuses exactly the modules that share an id with one of another name; the modules in the
repository have names of one part, for which `PlainNamesAreIsolated` proves the promise.
* The OAuth and payment settings are read after the migrations have run (`server/src/main.rs:167`, `:194`): a
server that refuses its configuration has changed the schema.

**Deadlock** is not checked (`CHECK_DEADLOCK FALSE`): a payment ends, the clocks stop at their bounds, a
server serves, and the system may rest. That nobody waits for ever is `StartsEnd` where there is a lock.

**Fairness.** Only the liveness properties use it. Payments: a running request makes its next call (`WF` on
each step of a delivery or a refund: tokio polls every ready task). The provider redelivers an unacknowledged event until
it gets a 2xx; each delivery is a task of its own in the program, while the model has a fixed set of
handlers, so a delivery can be enabled and disabled again by others: strong fairness on `Redeliver`. No
fairness is assumed of admins, checkouts or of the provider's own progress. `OrderlySpec` adds the premise
that an event is first delivered when its payment is linked and the earlier events of its intent are dealt
with; without it `SettlesInSync` fails, since an event out of order is dropped for good. Startup: a process
makes its next step (`WF`), and whoever waits for the advisory lock gets it if it is free again and again
(`SF`), because PostgreSQL serves the waiters of a lock in turn. Nobody is assumed to start a process.

## 4. What is proved

Everything below holds for every value of the constants, under the named assumptions of the modules that
declare them (`PaymentTypes`, `PaymentViews`, `Faults`, `SessionStore`, `Sessions`, `EpochTime`, `Lockout`,
`Login`, `RateLimiter`, `FrontDoor`, `OAuth`, `Startup`); the fault budget and the bounds of the TLC runs are constants like any other.

**Payments: the trail.** `PaymentsProofs` proves `TypesHold` (`Spec => []TypeOK`), `TrailNeverDrifts`
(`Spec => []TrailMatchesStatus`) and `TrailIsInvariant` (`Spec => []TrailInvariant`, the inductive invariant they follow from).
Why a strengthening is needed: `transition` writes only if the status is the one the caller expects, but it trusts
the caller that the move is legal, and it appends to the history of a row whose creation entry may be
missing. That no illegal move is written and no such row is ever moved follows from how callers get there: only a payment past `insert` has a reference (`CreationOrder`), a refund past its
checks holds a refundable status and a legal reply to record, a reference and a payment with history (`RefundsChecked`), and a delivery
past its look-up holds a payment found by reference and a legal move (`DeliveriesChecked`). The proof has one step per
action of `Next` and one lemma per shared effect. `ImplementsLedger` (`Spec => LedgerSpec`): every step either leaves the tables
alone, inserts a row, writes its creation entry, or is one `Transition` (`TablesStep`); the abstract trail is the tail of
the concrete history, so the creation entry is a stutter and a transition is the ledger's move.

**Payments: the pages.** `PaymentsProofs` also proves `DetailsAlwaysExplain` (`Spec => DetailExplainsStatus`) and
`TotalsAlwaysUndercount` (`Spec => TotalsUndercount`) from `ViewsAlwaysSound`: what a request read first is still covered
by what it will read, because rows stay, final statuses stay and histories only grow, whatever step
`TablesStep` allows. Nothing else about the writers is used. `PaymentsOnlyMoveOn` (`Spec => [][\A p : OnlyMovesOn(p)]_payments`)
states that of the tables themselves, for every step: no payment is removed, no final status is left, no history entry is
rewritten.

**Payments: the money.** `MoneyProofs` proves `NeverAhead`, `MovedMoneyAlwaysShows`, `ReceiptsComeFirst`
(`Spec => []NeverAheadOfProvider`, `[]MovedMoneyShows`, `[]ReceiptsPrecedeEffects`) from `MoneyInvariant`, which adds what holds the proof
together: a payment has no reference before its checkout is done, and then keeps it (`UnlinkedUntilDone`), a refund past its checks holds
the payment's reference, and one with a reply has moved money (`RefundsLinked`), and a delivery under way
has its receipt and, past its look-up, the payment of its event (`DeliveriesLinked`). The argument: the provider's books and the receipts only grow (`StepsGrow`), and
every move of a status is made by one of these two holders (`EveryMoveIsHeld`). `AcksLoseNothing`
(`Spec => []AcknowledgedUnlessFailed`) follows an event from its claim to its conclusion. `RefundsAlwaysBacked`
(`Spec => []RefundsAreBacked`) is a count: the admin's rows in a history plus the requests that hold a paid refund not yet
recorded, times the amount, never exceed what the provider gave back (`AllPaid`); each step moves a request
from one side to the other, pays for a new one, or forgets one. `LinksAndReceiptsStay`: a reference once stored and an
event once claimed stay so. `IntentsHaveOnePayment` (`Spec => []OnePaymentPerIntent`): the UNIQUE index on
`provider_reference` (`migrations/0004_payments_schema.sql:24`) never refuses a write and an event concerns
one payment at most. It is not inductive, since a create request stores the intent it was given several steps earlier;
`IntentsAreOwned` adds that no two payments were ever given the same intent, and that what is stored is what was given.

**Sessions.** `SessionsProofs` proves `SessionTypes`, `ProvenanceHolds` and `DeadlinesAlwaysHold`
(`Spec => []TypeOK`, `[]Provenance`, `[]DeadlinesHold`) from one inductive invariant, their conjunction. The
parts need each other: that a row belongs to the opening of its token is kept by an INSERT only because
the token was drawn by one request alone (`DrawsDistinct`, freshness), and that a rotation serves the same
admin follows from what the request holds since its find (`Sound`), although the row is deleted by then.
It also proves `ImplementsLife` (`Spec => LifeSpec`): each step is split into what it does to the
table (one lemma per statement) and what it does to the requests (`FindGrants` for the only step that grants);
`AcceptsOnlyInTime` (`Spec => AcceptedInTime`), from `DeadlinesHold` and the expiry rule;
`ExpiresOnlyWhenDue` (`Spec => ExpiredOnlyWhenDue`), which needs the converse, that the stored ceiling is the true one cut
off to a second (`CeilingsStored`); and `EndsStand` (`Spec => []EndedUnlessFailed`): a request past its DELETE relies on a token without
a row from there to its answer (`EndsHold`), and no statement of any request brings such a row back (`GoneStays`).

**Login.** `LoginProofs` proves
`LoginTypes`, `LocksStaySound` (`Spec => []TypeOK`, `[]LocksAreSound`),
`OnlyStaleAttemptsLift` (`Spec => LockHoldsUnlessStale`) and `OnlyStaleAttemptsInvent` (`Spec => EarnedUnlessStale`). The inductive
invariant is `LoginInvariant`; it adds `AttemptsAreChecked`, what an attempt holds while others write: its instant has passed,
its address was not locked, and it writes to an account only if that was not locked either. The argument is
monotone: the clock only grows (`Onward`), so whatever an attempt holds stays good
(`FineStays`), however long it waits. The two step properties compare each write with what is stored (`StepWrites`): if the attempt
read that, it clears the counter with its failures or adds one to both. `LockDurationIsCapped` needs nothing about powers of two but the cap.
`SignInsAreVerified` (`Spec => [][\A q : Verified(q)]_state`): `Ok` is answered only to the right password of
an account, and only if neither account nor address was locked when the attempt read them. `ApartAttemptsLoseNothing`
(`Spec /\ []AttemptsApart => []CountsAreExact /\ [][LocksHold]_state`) says that overlapping attempts are the whole of the lost
updates of section 3: as long as no two attempts under way share an account or an address, every stored count is exactly the
number of failures written since the last success, and no standing lock is lifted or shortened. The hypothesis leaves attempts on different accounts and addresses concurrent. The
step that carries it is that what an attempt read is still what is stored (`ReadsAreCurrent`, `ReadsStayCurrent`).

**The front door.** `FrontDoorProofs` proves `DoorIsInvariant` (`DoorSpec => []DoorInvariant`), and from it
`DoorTypes`, `NeverThreeWindows`, `AnswersAlwaysAudited` (`[]DoorTypeOK`, `[]AtMostTwoWindows`, `[]AnswersAreAudited`),
`ThrottlesAlwaysEarned` (`DoorSpec => ThrottlesAreEarned`) and `LockoutsOutliveRestarts`
(`DoorSpec => []LocksAreSound /\ LockHoldsUnlessStale /\ EarnedUnlessStale`). Two strengthenings carry them. `WindowIsSound` relates a window to the
log of admissions: the last `count` of them (or the last `MaxRequests`, once the window refuses) came in the
window, and all but the `MaxRequests` admissions before those came a whole window before its start, less
`MaxLag`. The instant of a check may lie behind the clock, so a window may start up to one lag before the last
admission of its predecessor: that is where `MaxLag` enters, and why it is the lag of one handler and not a
sum of them. `HandlerIsSound` says what handler and login
service know of each other: a service attempt is under way exactly while its handler waits for it, the
answer a handler audits is the attempt's, and a session is opened after it. The lockout theorems of
`LoginProofs` are reused through its lemmas on `[Next]_state`: a restart is not a step of `Login`, since it ends all
attempts at once, but it only removes what the invariant of `Login` speaks about. `SessionsAreOfTheVerified` and
`RestartsLoseNothing` carry `SignInsAreVerified` and `ApartAttemptsLoseNothing` over to the route in the same way: each step of the
door is a step of `Login`, a restart, or leaves the login service alone (`DoorMovesLogin`). The bounds on
requests and on failures, restarts among them, are any numbers.

**OAuth.** `OAuthProofs` proves `OAuthIsInvariant` (`Spec => []OAuthInvariant`), `OAuthTypes`,
`SessionsAlwaysApproved` and `SessionsAlwaysMatch` (`[]TypeOK`, `[]SessionsAreApproved`, `[]SessionsMatchLinks`),
`LinksAlwaysStay` (`Spec => LinksStay`), `LoginsAlwaysAudited` (`[]LoginsAreAudited`) and `FlowsAlwaysExpireOnTime` (`Spec => FlowsExpireOnTime`). The
invariant says what a callback knows at each stage (`CallbackIsSound`: it holds the pending row from
`Consume` on, its code is of its own flow from `Redeem` on, its id was an e-mail of its identity from `Link`
on) and that two callbacks never take one row (`OneTaker`), which follows from the row being gone the
moment one has it. Flows, approvals, links and e-mails once held only grow (`Grows`), so what a callback
knows stays true while others move (`StaysSound`). The last two need a little more: a callback is answered
by its last step only (`StepsEndOnce`), and the row of a flow holds the second in which it began (`RowsAreDated`). `ImplementsTicket` (`Spec => TicketSpec`): the ticket of a state value is read off the pending
row, the stages of the callbacks and the sessions (`TicketOf`). A step concerns one ticket at most (`OneTicketMoves`):
the steps of a callback move the ticket of the state it took (`HeldTicket`, `SpentTicket`, `LostTicket`), and since `OneTaker`
leaves it no second taker the others' tickets are what they were (`OtherTicketsStay`); approvals, renamings
and what arrives move none, or approve an issued one.

**Startup.** `StartupProofs` proves `StartupIsInvariant`, and from it `StartupTypes`, `VersionsAppliedOnce`,
`AlwaysServesOnItsSchema`, `OnlyFirstAdmins` and `ServesAlwaysWhole` (`Spec => []TypeOK`, `[]VersionsOnce`, `[]ServesOnItsSchema`,
`[]FirstAdminsOnly`, `[]ServesWhole`). The point is that no list of applied
migrations is stale: the lock's holder is exactly the process between `listing` and the end of `migrating`
(`LockIsHeld`), nobody else appends, and so the schema is what the holder listed and what it has applied since
(`ListIsTrue`), also when a predecessor died with its last statement committed. `MigrationsAppliedOnce`
(`Spec => []AppliedOnce`) adds that, if builds number alike, the schema is a prefix of some build's list
(`HistoryInvariant`): what is missing from the holder's list comes next in its build (`UnlistedIsNext`). A late
bootstrap never inserts, because admins are never deleted and it counts after it started (`LateRunCounts`).
`DatabaseOnlyGrows` (`Spec => [][SchemaIsTheHolders /\ AdminsStay]_vars`) is the step form: a row of the schema is
appended by the one holder of the lock only and for a version that is really missing (`UnlistedIsNew`), and no
admin is ever removed or replaced.
`ServesAlwaysWhole` also needs to know what the loops of `run_migrations` compute, for any number of modules and
migrations (`ModulesRun`). They are recursive functions, and the prover has no induction rule for operators;
the proof uses sets instead: `StepByStep` (a set with 0 and, with each number, the next, has all up to L) from the
well-foundedness of the numbers, and `LoopExists` (there is a function that goes through a loop) from it. The run of any module
appends those of its ids that are not there yet (`ModuleGrows`); a module none of whose ids is there is appended whole and in its
order (`ModuleRuns`), and keeps its place when modules with other ids follow (`PlaceStays`). `PlainNamesAreIsolated`
(`PlainNames => (Spec => []EveryModuleIsWhole)`) needs only that joined names of one part begin differently (`PlainNamesSeparate`).

**Model-checked only.** Liveness under fairness (`EventsAreAcknowledged`, `SettlesInSync`, `StartsEnd`, and the violated `RetriesApply`) is out of the
prover's reach. Every safety property of a passing run has a theorem. Conversely, a few theorems state what no
run checks, because the step properties they name are defined with their proofs: `SignInsAreVerified`, `ApartAttemptsLoseNothing`,
`SessionsAreOfTheVerified`, `RestartsLoseNothing`, `DatabaseOnlyGrows`, `PaymentsOnlyMoveOn`, `LinksAndReceiptsStay`,
`IntentsHaveOnePayment` and `PlainNamesAreIsolated`.

## 5. Not modelled

See the components with status `not_modelled` or `partly` in `PROJECT.json`. Left out for good: password
hashing and token generation (cryptography), money formatting, HTTP encoding, telemetry, CORS, OpenAPI and
generated client code, styling and deployment files. The in-memory payment provider is a development double:
one map behind a mutex, no events. The web application is a query cache of a library around one latch; its pages
hold no state of their own. The backup scripts run one at a time
and publish a dump by one atomic rename. Within payments, `capture` and `get_status`, which no code in `src/`
calls (with `get_status` goes `map_status`, whose result `create_intent` returns and nothing stores). Within sessions, `require_role` and `me` (pure reads of what `authenticate` returned), the audit record
of a logout and the list of audit events; the role is part of the admin's model value. Within login, the cost
of a hash and the equal timing of a failed look-up, which are not matters of states.

## 6. Plan

1. *Done*: payments with list and detail pages, its properties, the inductive invariants, the refinement, the money.
2. *Done*: sessions, with the refinement and every property proved.
3. *Done*: login, the rate limiter and the front door, with every property proved.
4. *Done*: OAuth, with its abstract ticket, the refinement and every property proved.
5. *Done*: module registry, migrations, configuration and bootstrap, with restarts, with every safety
   property proved.
6. *Done*: a session of `FrontDoor` is opened only for a verified sign-in; what may lift a lock early. Only overlapping attempts
   can, and then all of it: the write that lifts it carries the counters its attempt read before the lock. What is lost is
   at most `MaxDelay`, the longest any lock lasts (`LocksStaySound`).
7. Next models: the audit record of a logout beside `Sessions`, and the role check over `OAuth`'s sessions.
