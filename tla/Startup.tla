------------------------------- MODULE Startup -------------------------------
(***************************************************************************)
(* The commands of the server binary, serve and bootstrap-admin, run by    *)
(* any number of processes on one database.  They read the environment,    *)
(* bring the schema up to date and then serve, or create the first admin.  *)
(* Processes of several builds start at the same time, die between any two *)
(* steps and are started again.                                            *)
(***************************************************************************)
EXTENDS Faults, ModuleRegistry, FiniteSets

CONSTANTS
  Process,
  Build,        \* versions of the binary
  Embedded,     \* [Build -> the migrations compiled into it: a sequence of rows]
  Modules,      \* [Build -> the feature modules main registers]
  Launch,       \* the commands operators run, each with its environment
  Email,        \* what ADMIN_BOOTSTRAP_EMAIL may name
  Null,
  MaxStarts     \* a bound on the starts of a TLC run

Command == {"serve", "bootstrap-admin"}

\* A row of _sqlx_migrations, and a migration in a binary.
Migration == [version : Nat, checksum : Nat]

\* What a password policy may ask for beside a length.
Class == {"uppercase", "lowercase", "digit", "symbol"}
Policy == [min_length : Nat, require : SUBSET Class]
Password == [length : Nat, classes : SUBSET Class]

\* What an operator types for an address: as it is stored, with capitals or
\* blanks around it, or something that is no address.
RawEmail == [form : {"plain", "spelled", "malformed"}, address : Email]

(***************************************************************************)
(* The environment: per section, what its from_env makes of it.            *)
(***************************************************************************)
Environments == [
  address   : {"ok", "malformed"},                \* APP_HOST, APP_PORT
  auth      : {"ok", "malformed", "unusable"},    \* unusable: ARGON2_* parse, and argon2 refuses them
  database  : {"ok", "missing", "malformed"},     \* DATABASE_*
  oauth     : {"off", "ok", "incomplete"},        \* OAUTH_*
  payments  : {"none", "fake", "stripe", "unknown"},  \* PAYMENT_PROVIDER
  secretKey : BOOLEAN,                            \* STRIPE_SECRET_KEY is there
  webhookSecret : BOOLEAN,                        \* STRIPE_WEBHOOK_SECRET is there
  policy    : Policy,                             \* ADMIN_PASSWORD_*
  email     : RawEmail \cup {Null},               \* ADMIN_BOOTSTRAP_EMAIL; Null: it or the password is missing
  password  : Password]                           \* ADMIN_BOOTSTRAP_PASSWORD

\* Embedded versions are unique and ascending (a test of db.rs says so).
ASSUME StartupAssumption ==
  /\ Null \notin Process \cup Email \cup Build
  /\ Embedded \in [Build -> Seq(Migration)]
  /\ \A b \in Build : \A i, j \in DOMAIN Embedded[b] :
       i < j => Embedded[b][i].version < Embedded[b][j].version
  /\ Launch \subseteq Command \X Environments
  /\ MaxStarts \in Nat

\* The name of a migration is unique within its module (its doc says so).
ASSUME ModulesAssumption ==
  /\ Modules \in [Build -> Seq(Module)]
  /\ \A b \in Build : \A i \in DOMAIN Modules[b] :
       IsInjective(Modules[b][i].migrations)

VARIABLES
  schema,     \* the rows of _sqlx_migrations, in the order they were applied
  lock,       \* who holds the migrator's advisory lock
  admins,     \* admin_users: [Email -> its row]
  process,    \* [Process -> where it stands]
  starts      \* how many starts there were

database == <<schema, lock, admins>>
vars == <<database, process, starts, faults>>

Stage == {"down", "connecting", "locking", "listing", "migrating", "wiring", "binding",
          "serving", "checking", "counting", "inserting", "created", "already", "failed"}

\* A process that does nothing more by itself.
Resting == {"down", "serving", "created", "already", "failed"}

\* The optional delivery surfaces of api::router.
Surface == {"oauth", "webhooks", "transactions"}

Running == [at : Stage, command : Command, build : Build \cup {Null},
            env : Environments \cup {Null}, late : BOOLEAN, listed : SUBSET Migration,
            next : Nat \ {0}, mounted : SUBSET Surface]

NoProcess == [at |-> "down", command |-> "serve", build |-> Null, env |-> Null, late |-> FALSE,
              listed |-> {}, next |-> 1, mounted |-> {}]

\* A process that has ended has no memory left.
Ended(stage) == [NoProcess EXCEPT !.at = stage]

NoAdmin == [by |-> Null, late |-> FALSE]
AdminRow == [by : Process, late : BOOLEAN]

TypeOK ==
  /\ schema \in Seq(Migration) /\ lock \in Process \cup {Null}
  /\ admins \in [Email -> AdminRow \cup {NoAdmin}]
  /\ process \in [Process -> Running]
  /\ starts \in Nat /\ faults \in Nat

Init ==
  /\ schema = <<>> /\ lock = Null /\ admins = [e \in Email |-> NoAdmin]
  /\ process = [p \in Process |-> NoProcess] /\ starts = 0
  /\ FaultsInit

At(p, stage) == process[p].at = stage
Go(p, stage) == process' = [process EXCEPT ![p].at = stage]

(***************************************************************************)
(* Reading the environment                                                 *)
(***************************************************************************)

\* PgConfig::from_env: DATABASE_URL, or the file it is in, and the pool's numbers.
DatabaseConfigured(env) == env.database = "ok"

\* Config::from_env: APP_HOST and APP_PORT parse, or are not there.
AddressConfigured(env) == env.address = "ok"

\* AuthConfig::from_env: no number and no flag that is there and wrong.
AuthConfigured(env) == env.auth # "malformed"

\* What each command reads before it connects.
Configured(command, env) ==
  /\ AuthConfigured(env) /\ DatabaseConfigured(env)
  /\ command = "serve" => AddressConfigured(env)
  /\ command = "bootstrap-admin" => env.email # Null

\* Argon2Hasher::new: argon2 accepts its parameters.
HasherBuilt(env) == env.auth = "ok"

\* OAuthSettings::from_env, after the migrations have run: "off" is no error.
OAuthSettings(env) ==
  CASE env.oauth = "off" -> "off"
    [] env.oauth = "ok" -> "on"
    [] env.oauth = "incomplete" -> "error"

\* PaymentProviderConfig::from_env.
PaymentProvider(env) ==
  CASE env.payments = "none" -> "off"
    [] env.payments = "fake" -> "fake"
    [] env.payments = "stripe" /\ env.secretKey -> "stripe"
    [] OTHER -> "error"

\* serve: the routes are mounted per configured surface.
Mounted(env) ==
  (IF OAuthSettings(env) = "on" THEN {"oauth"} ELSE {})
  \cup (IF PaymentProvider(env) \in {"fake", "stripe"} THEN {"transactions"} ELSE {})
  \cup (IF PaymentProvider(env) = "stripe" /\ env.webhookSecret THEN {"webhooks"} ELSE {})

End(p, stage) == process' = [process EXCEPT ![p] = Ended(stage)]

Start(p, command, b, env) ==
  /\ process[p].at \in Resting \ {"serving"} /\ starts < MaxStarts
  /\ process' = [process EXCEPT ![p] =
       IF Configured(command, env)
       THEN [NoProcess EXCEPT !.at = "connecting", !.command = command, !.build = b, !.env = env,
                              !.late = /\ command = "bootstrap-admin"
                                       /\ \E e \in Email : admins[e] # NoAdmin]
       ELSE Ended("failed")]
  /\ starts' = starts + 1
  /\ Works
  /\ UNCHANGED database

\* A database that is down or refuses the DSN is a death of the process here.
Connect(p) ==
  /\ At(p, "connecting")
  /\ Go(p, "locking")
  /\ Works
  /\ UNCHANGED <<database, starts>>

(***************************************************************************)
(* MIGRATOR.run (sqlx): a session-level advisory lock, the applied rows,   *)
(* then each embedded migration in a transaction of its own.               *)
(***************************************************************************)

\* Mutant: the migrator is told not to lock.
LockFree_Always == TRUE

LockFree == lock = Null

Lock(p) ==
  /\ At(p, "locking")
  /\ LockFree
  /\ lock' = p
  /\ Go(p, "listing")
  /\ Works
  /\ UNCHANGED <<schema, admins, starts>>

\* Mutant: the connection goes back to its pool with the lock held.
Unlock_Never(p) == UNCHANGED lock

\* The unlock of a run that succeeded, or the end of a dead process's session.
Unlock(p) == lock' = IF lock = p THEN Null ELSE lock

Versions(rows) == {m.version : m \in rows}
Migrations(p) == Embedded[process[p].build]

\* Every applied version must be one the binary knows: no older build starts on
\* a newer schema.
Known(p) == Versions(ToSet(schema)) \subseteq Versions(ToSet(Migrations(p)))

ListApplied(p) ==
  /\ At(p, "listing")
  /\ IF Known(p)
     THEN /\ process' = [process EXCEPT ![p].at = "migrating", ![p].listed = ToSet(schema)]
          /\ UNCHANGED lock
     ELSE End(p, "failed") /\ Unlock(p)
  /\ Works
  /\ UNCHANGED <<schema, admins, starts>>

Current(p) == Migrations(p)[process[p].next]
ToDo(p) == process[p].next <= Len(Migrations(p))
Advance(p) == process' = [process EXCEPT ![p].next = @ + 1]

\* Mutant: the checksum of an applied migration is not compared.
Matches_Version(p) == Current(p).version \in Versions(process[p].listed)

Matches(p) == Current(p) \in process[p].listed

\* A migration that is in the list: skipped, or a drift that ends the start.
Validate(p) ==
  /\ At(p, "migrating") /\ ToDo(p)
  /\ Current(p).version \in Versions(process[p].listed)
  /\ IF Matches(p) THEN Advance(p) /\ UNCHANGED lock
                   ELSE End(p, "failed") /\ Unlock(p)
  /\ Works
  /\ UNCHANGED <<schema, admins, starts>>

\* Mutant: a marker is recorded in place of the checksum.
Apply_Unsigned(p) == schema' = Append(schema, [version |-> Current(p).version, checksum |-> -1])

Apply(p) == schema' = Append(schema, Current(p))

Migrate(p) ==
  /\ At(p, "migrating") /\ ToDo(p)
  /\ Current(p).version \notin Versions(process[p].listed)
  /\ Apply(p)
  /\ Advance(p)
  /\ Works
  /\ UNCHANGED <<lock, admins, starts>>

Migrated(p) ==
  /\ At(p, "migrating") /\ ~ToDo(p)
  /\ Unlock(p)
  /\ Go(p, IF process[p].command = "serve" THEN "wiring" ELSE "checking")
  /\ Works
  /\ UNCHANGED <<schema, admins, starts>>

(***************************************************************************)
(* serve                                                                   *)
(***************************************************************************)

\* What the process's executor has applied: it starts empty and runs no SQL.
Executed(p) == RunMigrations(Modules[process[p].build], <<>>)

\* Module migrations (in memory), module init, Argon2Hasher::new, and only now
\* the OAuth and payment settings; then the router is put together.
Wire(p) ==
  LET r == process[p] IN
  /\ At(p, "wiring")
  /\ process' = [process EXCEPT ![p] =
       IF /\ UniqueNames(Modules[r.build]) /\ HasherBuilt(r.env)
          /\ OAuthSettings(r.env) # "error" /\ PaymentProvider(r.env) # "error"
       THEN [r EXCEPT !.at = "binding", !.mounted = Mounted(r.env)]
       ELSE Ended("failed")]
  /\ Works
  /\ UNCHANGED <<database, starts>>

Bind(p) ==
  /\ At(p, "binding")
  /\ Go(p, "serving")
  /\ Works
  /\ UNCHANGED <<database, starts>>

(***************************************************************************)
(* bootstrap-admin: BootstrapService::create_first_admin                   *)
(***************************************************************************)

\* Email::parse: capitals and blanks are dropped, so that every spelling is the
\* one account.
ParseEmail(raw) == IF raw.form = "malformed" THEN Null ELSE raw.address
EmailOf(p) == ParseEmail(process[p].env.email)

\* PasswordPolicy::validate: everything the password lacks.
Unmet(policy, password) ==
  (policy.require \ password.classes)
  \cup (IF password.length < policy.min_length THEN {"length"} ELSE {})

\* The hasher is built, then the address and the password are checked.
Check(p) ==
  LET env == process[p].env IN
  /\ At(p, "checking")
  /\ IF HasherBuilt(env) /\ EmailOf(p) # Null /\ Unmet(env.policy, env.password) = {}
     THEN Go(p, "counting") ELSE End(p, "failed")
  /\ Works
  /\ UNCHANGED <<database, starts>>

\* Mutant: whoever asks counts no admin.
NoAdmins_Always == TRUE

NoAdmins == \A e \in Email : admins[e] = NoAdmin

Count(p) ==
  /\ At(p, "counting")
  /\ IF NoAdmins THEN Go(p, "inserting") ELSE End(p, "already")
  /\ Works
  /\ UNCHANGED <<database, starts>>

Taken(p) == admins[EmailOf(p)] # NoAdmin

InsertAdmin(p) ==
  /\ ~Taken(p)
  /\ admins' = [admins EXCEPT ![EmailOf(p)] = [by |-> p, late |-> process[p].late]]

\* The password has been hashed since the count, and another run may have
\* inserted meanwhile.  A taken email is reported as an internal error.
Insert(p) ==
  /\ At(p, "inserting")
  /\ \/ InsertAdmin(p) /\ End(p, "created")
     \/ Taken(p) /\ End(p, "failed") /\ UNCHANGED admins
  /\ Works
  /\ UNCHANGED <<schema, lock, starts>>

(***************************************************************************)
(* Deaths                                                                  *)
(***************************************************************************)

\* The statement in flight may have been committed all the same.
Effect(p) ==
  \/ /\ At(p, "migrating") /\ ToDo(p)
     /\ Current(p).version \notin Versions(process[p].listed)
     /\ Apply(p) /\ UNCHANGED admins
  \/ At(p, "inserting") /\ InsertAdmin(p) /\ UNCHANGED schema

\* A call fails (database down, a module's init, the port is taken), which ends
\* the command with exit code 1, or the process is killed; the end of its session
\* releases the lock.
Die(p) ==
  /\ process[p].at \notin Resting \ {"serving"}
  /\ Effect(p) \/ UNCHANGED <<schema, admins>>
  /\ Unlock(p)
  /\ End(p, "failed")
  /\ Fails
  /\ UNCHANGED starts

Step(p) ==
  \/ Connect(p) \/ ListApplied(p) \/ Validate(p) \/ Migrate(p) \/ Migrated(p)
  \/ Wire(p) \/ Bind(p) \/ Check(p) \/ Count(p) \/ Insert(p)

Next ==
  \E p \in Process :
    \/ \E launch \in Launch, b \in Build : Start(p, launch[1], b, launch[2])
    \/ Lock(p) \/ Step(p) \/ Die(p)

Spec == Init /\ [][Next]_vars

\* Processes run on, and Postgres serves those who wait for a lock in turn.
Fairness == \A p \in Process : WF_vars(Step(p)) /\ SF_vars(Lock(p))

FairSpec == Spec /\ Fairness

(***************************************************************************)
(* Properties                                                              *)
(***************************************************************************)

\* Builds number their migrations alike: a new one gets a version above all the
\* others, so that no build fills a gap that another one left.
NumberedAlike ==
  \A a, b \in Build : \A i \in DOMAIN Embedded[a] \cap DOMAIN Embedded[b] :
    Embedded[a][i].version = Embedded[b][i].version

\* However many processes start at once, die in the middle of the migrations
\* and start again, no version is applied twice, and none is skipped: the
\* versions are those of some build, up to where a run has come.  (The migrator
\* would apply a version that fills a gap after those above it.)
AppliedOnce ==
  /\ \A i, j \in DOMAIN schema : schema[i].version = schema[j].version => i = j
  /\ NumberedAlike /\ schema # <<>> => \E b \in Build : IsPrefix(schema, Embedded[b])

\* A process that serves has its own build's schema underneath, checksums
\* included, also while newer builds migrate on.
ServesOnItsSchema ==
  \A p \in Process : At(p, "serving") => ToSet(Migrations(p)) \subseteq ToSet(schema)

Ids(module) == {IdOf(module, migration) : migration \in ToSet(module.migrations)}

\* No module of another name has an id of this one's.  Where one has ("a" with a
\* migration "b::c", and "a::b" with "c"), the second of the two is skipped.
IsSeparate(module, modules) ==
  \A i \in DOMAIN modules : modules[i].name # module.name => Ids(modules[i]) \cap Ids(module) = {}

\* The executor has the migrations of the module once each, in the declared order
\* and in one run.
IsPlaced(module, executed) ==
  \E before \in 0 .. Len(executed) :
    /\ {x \in DOMAIN executed : executed[x] \in Ids(module)}
         = before + 1 .. before + Len(module.migrations)
    /\ \A k \in DOMAIN module.migrations :
         executed[before + k] = IdOf(module, module.migrations[k])

\* A process that serves has run every id of its modules once and nothing else, and
\* a module that shares no id with one of another name as a whole.
ModulesAreIsolated(p) ==
  LET modules == Modules[process[p].build] IN
  /\ IsInjective(Executed(p))
  /\ ToSet(Executed(p)) = UNION {Ids(modules[i]) : i \in DOMAIN modules}
  /\ \A i \in DOMAIN modules :
       IsSeparate(modules[i], modules) => IsPlaced(modules[i], Executed(p))

\* It has exactly the surfaces its operator asked for (a setting that is there
\* and wrong is never skipped), and a webhook endpoint only beside the provider
\* whose events it takes.
SurfacesAreConfigured(p) ==
  LET r == process[p] IN
  /\ "oauth" \in r.mounted <=> r.env.oauth # "off"
  /\ "transactions" \in r.mounted <=> r.env.payments # "none"
  /\ "webhooks" \in r.mounted => r.env.payments = "stripe"

\* Nothing half-configured serves.
ServesWhole ==
  \A p \in Process : At(p, "serving") => ModulesAreIsolated(p) /\ SurfacesAreConfigured(p)

\* bootstrap-admin refuses once any admin exists: no admin was created by a run
\* that was started after another one was there.  Only overlapping runs can
\* create two.
FirstAdminsOnly == \A e \in Email : ~admins[e].late

\* Whoever waits, races or dies: every start comes to an end, either serving or
\* with an exit code.
StartsEnd == \A p \in Process : At(p, "connecting") ~> process[p].at \in Resting
=============================================================================
