--------------------------- MODULE StartupProofs ---------------------------
(***************************************************************************)
(* Proofs about Startup for any number of processes, builds, migrations,   *)
(* launches and deaths: the schema is the work of one migrator at a time,  *)
(* what serves has its schema and its surfaces, and the first admins are   *)
(* first.                                                                  *)
(***************************************************************************)
EXTENDS Startup, SequenceTheorems, NaturalsInduction, WellFoundedInduction, TLAPS

\* Where a process has read its environment and knows its build.
Active == Stage \ {"down", "created", "already", "failed"}

\* Where it is in MIGRATOR.run, with the lock.
Migrating == {"listing", "migrating"}

\* Where it has come back from there.
Past == {"wiring", "binding", "serving", "checking", "counting", "inserting"}

\* Where it is about to create an admin.
Bootstrapping == {"checking", "counting", "inserting"}

\* It has the environment its command needs.
RunIsConfigured(p) ==
  LET r == process[p] IN
  r.at \in Active =>
    /\ r.build \in Build /\ r.env \in Environments
    /\ Configured(r.command, r.env)
    /\ r.at \in Bootstrapping => r.command = "bootstrap-admin"

\* The lock is held by the one process that lists or applies migrations.
LockIsHeld(p) == process[p].at \in Migrating <=> lock = p

\* Before it lists the rows, it has not come to any migration.
Early == {"connecting", "locking", "listing"}
RunIsFresh(p) == process[p].at \in Early => process[p].next = 1

\* What it has listed is still there, and it has added the rest itself.
ListIsTrue(p) ==
  LET r == process[p] IN
  At(p, "migrating") =>
    /\ r.next <= Len(Migrations(p)) + 1
    /\ r.listed \subseteq ToSet(schema)
    /\ \A i \in 1 .. r.next - 1 : Migrations(p)[i] \in ToSet(schema)
    /\ \A i \in DOMAIN schema :
         schema[i] \in r.listed \/ \E k \in 1 .. r.next - 1 : schema[i] = Migrations(p)[k]

\* Back from the migrator, it has its build's schema underneath.
RunIsMigrated(p) == process[p].at \in Past => ToSet(Migrations(p)) \subseteq ToSet(schema)

\* Its router is put together from settings without an error.
RunIsWired(p) ==
  LET r == process[p] IN
  r.at \in {"binding", "serving"} =>
    /\ UniqueNames(Modules[r.build]) /\ HasherBuilt(r.env)
    /\ OAuthSettings(r.env) # "error" /\ PaymentProvider(r.env) # "error"
    /\ r.mounted = Mounted(r.env)

\* Started after an admin was there, it will count one.
SomeAdmin == \E e \in Email : admins[e] # NoAdmin
LateRunCounts(p) ==
  /\ process[p].late => SomeAdmin
  /\ At(p, "inserting") => ~process[p].late
  /\ process[p].at \in {"counting", "inserting"} => EmailOf(p) \in Email

Sound(p) ==
  /\ RunIsConfigured(p) /\ LockIsHeld(p) /\ RunIsFresh(p) /\ ListIsTrue(p)
  /\ RunIsMigrated(p) /\ RunIsWired(p) /\ LateRunCounts(p)

\* No version has two rows.
VersionsOnce ==
  \A i, j \in DOMAIN schema : schema[i].version = schema[j].version => i = j

StartupInvariant == TypeOK /\ VersionsOnce /\ FirstAdminsOnly /\ \A p \in Process : Sound(p)

(***************************************************************************)
(* One process moves                                                       *)
(***************************************************************************)

\* A process that is not the one moving keeps what it relies on: rows and admins
\* stay, and rows come only from the lock's holder.
LEMMA OthersStaySound ==
  ASSUME NEW p \in Process, NEW q \in Process, q # p,
         process'[q] = process[q], lock' = q <=> lock = q,
         schema' = schema \/ (lock = p /\ ToSet(schema) \subseteq ToSet(schema')),
         SomeAdmin => SomeAdmin', Sound(q)
  PROVE  Sound(q)'
<1>1. /\ RunIsConfigured(q)' /\ LockIsHeld(q)' /\ RunIsFresh(q)' /\ RunIsWired(q)'
      /\ LateRunCounts(q)'
  BY DEF Sound, RunIsConfigured, LockIsHeld, RunIsFresh, RunIsWired, LateRunCounts, At, EmailOf
<1>2. ListIsTrue(q)'
  BY DEF Sound, LockIsHeld, ListIsTrue, At, Migrating, Migrations
<1>3. RunIsMigrated(q)'
  BY DEF Sound, RunIsMigrated, Migrations
<1>4. QED BY <1>1, <1>2, <1>3 DEF Sound

\* A process that gives up, or is done, has nothing to keep.
LEMMA EndedRun ==
  ASSUME NEW stage \in {"down", "created", "already", "failed"}
  PROVE  /\ Ended(stage) \in Running
         /\ Ended(stage).at = stage /\ Ended(stage).late = FALSE
<1>1. NoProcess \in Running
  BY DEF NoProcess, Running, Stage, Command
<1>2. stage \in Stage
  BY DEF Stage
<1>3. Ended(stage) \in Running
  BY <1>1, <1>2 DEF Ended, Running
<1>4. Ended(stage).at = stage /\ Ended(stage).late = FALSE
  BY DEF Ended, NoProcess
<1>5. QED BY <1>3, <1>4

LEMMA EndedIsSound ==
  ASSUME NEW p \in Process, NEW stage \in {"down", "created", "already", "failed"},
         process'[p] = Ended(stage), lock' # p
  PROVE  Sound(p)'
BY EndedRun DEF Sound, RunIsConfigured, LockIsHeld, RunIsFresh, ListIsTrue, RunIsMigrated,
   RunIsWired, LateRunCounts, At, Active, Early, Migrating, Past

\* A step keeps the invariant if the tables only grow, rows by the lock's holder
\* alone, and its own process can still rely on what it has.
LEMMA StepsKeep ==
  ASSUME StartupInvariant, NEW p \in Process, NEW r \in Running,
         process' = [process EXCEPT ![p] = r],
         schema' \in Seq(Migration), VersionsOnce',
         schema' = schema \/ (lock = p /\ ToSet(schema) \subseteq ToSet(schema')),
         admins' \in [Email -> AdminRow \cup {NoAdmin}], FirstAdminsOnly', SomeAdmin => SomeAdmin',
         lock' \in Process \cup {Null},
         \A q \in Process \ {p} : lock' = q <=> lock = q,
         starts' \in Nat, faults' \in Nat,
         Sound(p)'
  PROVE  StartupInvariant'
<1>1. TypeOK'
  BY DEF StartupInvariant, TypeOK
<1>2. ASSUME NEW q \in Process, q # p
      PROVE  Sound(q)'
  <2>1. process'[q] = process[q]
    BY <1>2 DEF StartupInvariant, TypeOK
  <2>2. QED BY <1>2, <2>1, OthersStaySound DEF StartupInvariant
<1>3. QED BY <1>1, <1>2 DEF StartupInvariant

LEMMA QuietSteps ==
  ASSUME StartupInvariant, NEW p \in Process, NEW r \in Running,
         process' = [process EXCEPT ![p] = r],
         UNCHANGED <<schema, admins>>,
         lock' \in Process \cup {Null},
         \A q \in Process \ {p} : lock' = q <=> lock = q,
         starts' \in Nat, faults' \in Nat,
         Sound(p)'
  PROVE  StartupInvariant'
<1>1. VersionsOnce' /\ FirstAdminsOnly' /\ (SomeAdmin => SomeAdmin')
  BY DEF StartupInvariant, VersionsOnce, FirstAdminsOnly, SomeAdmin
<1>2. QED BY <1>1, StepsKeep DEF StartupInvariant, TypeOK

\* A process that ends without touching a table.
LEMMA Endings ==
  ASSUME StartupInvariant, NEW p \in Process,
         NEW stage \in {"down", "created", "already", "failed"},
         process' = [process EXCEPT ![p] = Ended(stage)],
         UNCHANGED <<schema, admins>>, Unlock(p) \/ (lock # p /\ UNCHANGED lock),
         starts' \in Nat, faults' \in Nat
  PROVE  StartupInvariant'
<1>1. lock' \in Process \cup {Null} /\ lock' # p /\ \A q \in Process \ {p} : lock' = q <=> lock = q
  BY StartupAssumption DEF Unlock, StartupInvariant, TypeOK
<1>2. process'[p] = Ended(stage)
  BY DEF StartupInvariant, TypeOK
<1>3. QED BY <1>1, <1>2, EndedRun, EndedIsSound, QuietSteps

(***************************************************************************)
(* The steps, one by one                                                   *)
(***************************************************************************)

\* A start that reads a complete environment.
LEMMA Starting ==
  ASSUME StartupInvariant, NEW p \in Process, NEW command \in Command, NEW b \in Build,
         NEW env \in Environments, Start(p, command, b, env)
  PROVE  StartupInvariant'
<1>1. lock # p /\ UNCHANGED <<schema, admins, lock, faults>> /\ starts' \in Nat
  BY DEF Start, StartupInvariant, Sound, LockIsHeld, Migrating, Resting, Works, TypeOK, database
<1>2. CASE ~Configured(command, env)
  <2>1. process' = [process EXCEPT ![p] = Ended("failed")]
    BY <1>2 DEF Start
  <2>2. QED BY <1>1, <2>1, Endings DEF StartupInvariant, TypeOK
<1>3. CASE Configured(command, env)
  <2> DEFINE r == [NoProcess EXCEPT !.at = "connecting", !.command = command, !.build = b,
                                    !.env = env,
                                    !.late = command = "bootstrap-admin" /\ SomeAdmin]
  <2>1. process' = [process EXCEPT ![p] = r]
    BY <1>3 DEF Start, SomeAdmin
  <2>2. r \in Running
    <3>1. (command = "bootstrap-admin" /\ SomeAdmin) \in BOOLEAN
      OBVIOUS
    <3>2. NoProcess \in Running /\ "connecting" \in Stage
      BY DEF NoProcess, Running, Stage, Command
    <3>3. QED BY <3>1, <3>2 DEF Running
  <2>3. /\ r.at = "connecting" /\ r.command = command /\ r.build = b /\ r.env = env
        /\ r.late => SomeAdmin
        /\ r.next = 1
    BY DEF NoProcess
  <2>4. process'[p] = r
    BY <2>1 DEF StartupInvariant, TypeOK
  <2> HIDE DEF r
  <2>5. RunIsConfigured(p)'
    BY <1>3, <2>3, <2>4 DEF RunIsConfigured, Bootstrapping
  <2>6. LateRunCounts(p)'
    BY <1>1, <2>3, <2>4 DEF LateRunCounts, At, SomeAdmin
  <2>7. Sound(p)'
    BY <1>1, <2>3, <2>4, <2>5, <2>6 DEF Sound, LockIsHeld, RunIsFresh, ListIsTrue,
       RunIsMigrated, RunIsWired, At, Migrating, Past
  <2>8. QED BY <1>1, <2>1, <2>2, <2>7, QuietSteps DEF StartupInvariant, TypeOK
<1>4. QED BY <1>2, <1>3

\* A step to another stage leaves the rest of the record.
LEMMA Moved ==
  ASSUME StartupInvariant, NEW p \in Process, NEW stage \in Stage, Go(p, stage)
  PROVE  /\ process' = [process EXCEPT ![p] = [process[p] EXCEPT !.at = stage]]
         /\ [process[p] EXCEPT !.at = stage] \in Running
         /\ LET r == process[p]
                s == process'[p]
            IN /\ s.at = stage /\ s.command = r.command /\ s.build = r.build /\ s.env = r.env
               /\ s.late = r.late /\ s.listed = r.listed /\ s.next = r.next
               /\ s.mounted = r.mounted
<1>1. process[p] \in Running
  BY DEF StartupInvariant, TypeOK
<1>2. process' = [process EXCEPT ![p] = [process[p] EXCEPT !.at = stage]]
  BY DEF Go
<1>3. [process[p] EXCEPT !.at = stage] \in Running
  BY <1>1 DEF Running
<1>4. process'[p] = [process[p] EXCEPT !.at = stage]
  BY <1>2 DEF StartupInvariant, TypeOK
<1>5. QED BY <1>1, <1>2, <1>3, <1>4 DEF Running

\* What a step to another stage owes, beside what its process has already.
LEMMA Moves ==
  ASSUME StartupInvariant, NEW p \in Process, NEW stage \in Active, Go(p, stage),
         process[p].at \in Active,
         UNCHANGED <<schema, admins, starts, faults>>,
         lock' \in Process \cup {Null},
         \A q \in Process \ {p} : lock' = q <=> lock = q,
         stage \in Migrating <=> lock' = p,
         stage # "migrating",
         stage \in Early => process[p].at \in Early,
         stage \in Past => ToSet(Migrations(p)) \subseteq ToSet(schema),
         stage \in {"binding", "serving"} => At(p, "binding"),
         stage \in Bootstrapping => process[p].command = "bootstrap-admin",
         stage = "inserting" => ~process[p].late,
         stage \in {"counting", "inserting"} => EmailOf(p) \in Email
  PROVE  StartupInvariant'
<1>1. stage \in Stage /\ Sound(p)
  BY DEF Active, StartupInvariant
<1>2. RunIsConfigured(p)' /\ LockIsHeld(p)' /\ RunIsFresh(p)' /\ ListIsTrue(p)'
  BY <1>1, Moved DEF Sound, RunIsConfigured, LockIsHeld, RunIsFresh, ListIsTrue, At
<1>3. RunIsMigrated(p)'
  BY <1>1, Moved DEF RunIsMigrated, Migrations
<1>4. RunIsWired(p)'
  BY <1>1, Moved DEF Sound, RunIsWired, At
<1>5. LateRunCounts(p)'
  BY <1>1, Moved DEF Sound, LateRunCounts, At, SomeAdmin, EmailOf
<1>6. Sound(p)'
  BY <1>2, <1>3, <1>4, <1>5 DEF Sound
<1>7. QED BY <1>1, <1>6, Moved, QuietSteps DEF StartupInvariant, TypeOK

LEMMA Connecting ==
  ASSUME StartupInvariant, NEW p \in Process, Connect(p)
  PROVE  StartupInvariant'
<1>1. Go(p, "locking") /\ UNCHANGED <<database, starts, faults>>
  BY DEF Connect, Works
<1>2. lock # p
  BY DEF Connect, At, StartupInvariant, Sound, LockIsHeld, Migrating
<1>3. QED
  BY <1>1, <1>2, Moves DEF Connect, At, Active, Stage, Early, Migrating, Past, Bootstrapping, database,
     StartupInvariant, TypeOK

LEMMA Locking ==
  ASSUME StartupInvariant, NEW p \in Process, Lock(p)
  PROVE  StartupInvariant'
<1>1. Go(p, "listing") /\ UNCHANGED <<schema, admins, starts, faults>>
  BY DEF Lock, Works
<1>2. lock' = p /\ \A q \in Process \ {p} : lock' = q <=> lock = q
  BY StartupAssumption DEF Lock, LockFree
<1>3. QED
  BY <1>1, <1>2, Moves DEF Lock, At, Active, Stage, Early, Migrating, Past, Bootstrapping

\* The end of the migrations: every embedded row has been matched or applied.
LEMMA Finishing ==
  ASSUME StartupInvariant, NEW p \in Process, Migrated(p)
  PROVE  StartupInvariant'
<1> DEFINE stage == IF process[p].command = "serve" THEN "wiring" ELSE "checking"
<1>1. Go(p, stage) /\ Unlock(p) /\ UNCHANGED <<schema, admins, starts, faults>>
  BY DEF Migrated, Works
<1>2. lock = p /\ process[p].at = "migrating" /\ process[p].command \in Command
  BY DEF Migrated, At, StartupInvariant, Sound, LockIsHeld, Migrating, TypeOK, Running
<1>3. lock' = Null /\ lock' # p /\ \A q \in Process \ {p} : lock' = q <=> lock = q
  BY <1>1, <1>2, StartupAssumption DEF Unlock
<1>4. ToSet(Migrations(p)) \subseteq ToSet(schema)
  <2>1. process[p].build \in Build /\ process[p].next \in Nat /\ ~ToDo(p) /\ ListIsTrue(p)
    BY <1>2 DEF Migrated, StartupInvariant, Sound, RunIsConfigured, Active, Stage, TypeOK, Running
  <2>2. Migrations(p) \in Seq(Migration)
    BY <2>1, StartupAssumption DEF Migrations
  <2>3. \A i \in DOMAIN Migrations(p) : Migrations(p)[i] \in ToSet(schema)
    BY <1>2, <2>1, <2>2 DEF ToDo, ListIsTrue, At
  <2>4. QED BY <2>3 DEF ToSet
<1>5. process[p].at \in Active /\ stage \in Active
  BY <1>2 DEF Active, Stage
<1>6. stage \in Bootstrapping => process[p].command = "bootstrap-admin"
  BY <1>2 DEF Command, Bootstrapping
<1>7. /\ stage \notin Migrating /\ stage # "migrating" /\ stage \notin {"binding", "serving"}
      /\ stage \notin {"counting", "inserting"} /\ stage # "inserting" /\ stage \notin Early
  BY DEF Migrating, Early
<1> HIDE DEF stage
<1>8. QED BY <1>1, <1>3, <1>4, <1>5, <1>6, <1>7, Moves

LEMMA Binding ==
  ASSUME StartupInvariant, NEW p \in Process, Bind(p)
  PROVE  StartupInvariant'
<1>1. Go(p, "serving") /\ At(p, "binding") /\ UNCHANGED <<database, starts, faults>>
  BY DEF Bind, Works
<1>2. lock # p /\ ToSet(Migrations(p)) \subseteq ToSet(schema)
  BY <1>1 DEF At, StartupInvariant, Sound, LockIsHeld, RunIsMigrated, Migrating, Past
<1>3. QED
  BY <1>1, <1>2, Moves DEF At, Active, Stage, Early, Migrating, Past, Bootstrapping, database,
     StartupInvariant, TypeOK

\* The bootstrap's checks: an address that parses is an Email.
LEMMA Checking ==
  ASSUME StartupInvariant, NEW p \in Process, Check(p)
  PROVE  StartupInvariant'
<1>1. At(p, "checking") /\ UNCHANGED <<database, starts, faults>>
  BY DEF Check, Works
<1>2. /\ lock # p /\ ToSet(Migrations(p)) \subseteq ToSet(schema)
      /\ RunIsConfigured(p)
  BY <1>1 DEF At, StartupInvariant, Sound, LockIsHeld, RunIsMigrated, Migrating, Past
<1>3. CASE Go(p, "counting") /\ EmailOf(p) # Null
  <2>1. /\ process[p].command = "bootstrap-admin" /\ process[p].env \in Environments
        /\ process[p].env.email # Null
    BY <1>1, <1>2 DEF RunIsConfigured, At, Active, Stage, Bootstrapping, Configured
  <2>2. process[p].env.email \in RawEmail
    BY <2>1 DEF Environments
  <2>3. EmailOf(p) \in Email
    BY <1>3, <2>2 DEF EmailOf, ParseEmail, RawEmail
  <2>4. QED
    BY <1>1, <1>2, <1>3, <2>1, <2>3, Moves DEF At, Active, Stage, Early, Migrating, Past, Bootstrapping,
       database, StartupInvariant, TypeOK
<1>4. CASE End(p, "failed")
  BY <1>1, <1>2, <1>4, Endings DEF End, database, StartupInvariant, TypeOK
<1>5. QED BY <1>3, <1>4 DEF Check

\* The count: a late run ends here.
LEMMA Counting ==
  ASSUME StartupInvariant, NEW p \in Process, Count(p)
  PROVE  StartupInvariant'
<1>1. At(p, "counting") /\ UNCHANGED <<database, starts, faults>>
  BY DEF Count, Works
<1>2. /\ lock # p /\ ToSet(Migrations(p)) \subseteq ToSet(schema)
      /\ RunIsConfigured(p) /\ LateRunCounts(p)
  BY <1>1 DEF At, StartupInvariant, Sound, LockIsHeld, RunIsMigrated, Migrating, Past
<1>3. CASE NoAdmins /\ Go(p, "inserting")
  <2>1. process[p].command = "bootstrap-admin" /\ EmailOf(p) \in Email
    BY <1>1, <1>2 DEF RunIsConfigured, LateRunCounts, At, Active, Stage, Bootstrapping
  <2>2. ~process[p].late
    BY <1>2, <1>3 DEF LateRunCounts, NoAdmins, SomeAdmin
  <2>3. QED
    BY <1>1, <1>2, <1>3, <2>1, <2>2, Moves DEF At, Active, Stage, Early, Migrating, Past, Bootstrapping,
       database, StartupInvariant, TypeOK
<1>4. CASE End(p, "already")
  BY <1>1, <1>2, <1>4, Endings DEF End, database, StartupInvariant, TypeOK
<1>5. QED BY <1>3, <1>4 DEF Count

\* A router that is put together is as its operator asked for.
LEMMA Wiring ==
  ASSUME StartupInvariant, NEW p \in Process, Wire(p)
  PROVE  StartupInvariant'
<1> DEFINE r == process[p]
           s == [r EXCEPT !.at = "binding", !.mounted = Mounted(r.env)]
<1>1. At(p, "wiring") /\ UNCHANGED <<database, starts, faults>>
  BY DEF Wire, Works
<1>2. lock # p /\ Sound(p) /\ r \in Running
  BY <1>1 DEF At, StartupInvariant, Sound, LockIsHeld, Migrating, TypeOK
<1>3. CASE /\ UniqueNames(Modules[r.build]) /\ HasherBuilt(r.env)
           /\ OAuthSettings(r.env) # "error" /\ PaymentProvider(r.env) # "error"
           /\ process' = [process EXCEPT ![p] = s]
  <2>1. s \in Running
    <3>1. Mounted(r.env) \in SUBSET Surface
      BY DEF Mounted, Surface
    <3>2. QED BY <1>2, <3>1 DEF Running, Stage
  <2>2. process'[p] = s
    BY <1>3 DEF StartupInvariant, TypeOK
  <2>3. /\ s.at = "binding" /\ s.build = r.build /\ s.env = r.env /\ s.command = r.command
        /\ s.late = r.late /\ s.mounted = Mounted(r.env)
    BY <1>2 DEF Running
  <2> HIDE DEF s
  <2>4. RunIsConfigured(p)' /\ RunIsMigrated(p)' /\ LateRunCounts(p)'
    BY <1>1, <1>2, <2>2, <2>3 DEF Sound, RunIsConfigured, RunIsMigrated, LateRunCounts, At,
       Active, Stage, Past, Bootstrapping, Migrations, SomeAdmin, database
  <2>5. RunIsWired(p)'
    BY <1>3, <2>2, <2>3 DEF RunIsWired
  <2>6. LockIsHeld(p)' /\ RunIsFresh(p)' /\ ListIsTrue(p)'
    BY <1>1, <1>2, <2>2, <2>3 DEF LockIsHeld, RunIsFresh, ListIsTrue, At, Migrating, Early, database
  <2>7. Sound(p)'
    BY <2>4, <2>5, <2>6 DEF Sound
  <2>8. QED BY <1>1, <1>3, <2>1, <2>7, QuietSteps DEF database, StartupInvariant, TypeOK
<1>4. CASE process' = [process EXCEPT ![p] = Ended("failed")]
  BY <1>1, <1>2, <1>4, Endings DEF database, StartupInvariant, TypeOK
<1>5. QED BY <1>3, <1>4 DEF Wire

\* The list is read: from here on it is the whole schema, or the start ends.
LEMMA Listing ==
  ASSUME StartupInvariant, NEW p \in Process, ListApplied(p)
  PROVE  StartupInvariant'
<1> DEFINE r == process[p]
           s == [r EXCEPT !.at = "migrating", !.listed = ToSet(schema)]
<1>1. At(p, "listing") /\ UNCHANGED <<schema, admins, starts, faults>>
  BY DEF ListApplied, Works
<1>2. lock = p /\ Sound(p) /\ r \in Running /\ r.next = 1
  BY <1>1 DEF At, StartupInvariant, Sound, LockIsHeld, RunIsFresh, Early, Migrating, TypeOK
<1>3. CASE /\ UNCHANGED lock
           /\ process' = [process EXCEPT ![p].at = "migrating", ![p].listed = ToSet(schema)]
  <2>1. s \in Running
    <3>1. ToSet(schema) \subseteq Migration
      BY DEF StartupInvariant, TypeOK, ToSet
    <3>2. QED BY <1>2, <3>1 DEF Running, Stage
  <2>2. process' = [process EXCEPT ![p] = s] /\ process'[p] = s
    BY <1>3 DEF StartupInvariant, TypeOK
  <2>3. /\ s.at = "migrating" /\ s.build = r.build /\ s.env = r.env /\ s.command = r.command
        /\ s.late = r.late /\ s.next = 1 /\ s.listed = ToSet(schema)
    BY <1>2 DEF Running
  <2> HIDE DEF s
  <2>4. RunIsConfigured(p)' /\ RunIsMigrated(p)' /\ LateRunCounts(p)' /\ RunIsWired(p)'
    BY <1>1, <1>2, <2>2, <2>3 DEF Sound, RunIsConfigured, RunIsMigrated, LateRunCounts, RunIsWired,
       At, Active, Stage, Past, Bootstrapping, SomeAdmin
  <2>5. LockIsHeld(p)' /\ RunIsFresh(p)'
    BY <1>2, <1>3, <2>2, <2>3 DEF LockIsHeld, RunIsFresh, Migrating, Early
  <2>6. ListIsTrue(p)'
    <3>1. r.build \in Build
      BY <1>1, <1>2 DEF Sound, RunIsConfigured, At, Active, Stage
    <3>2. Embedded[r.build] \in Seq(Migration)
      BY <3>1, StartupAssumption
    <3>3. \A i \in DOMAIN schema : schema[i] \in ToSet(schema)
      BY DEF ToSet
    <3>4. QED BY <1>1, <2>2, <2>3, <3>2, <3>3 DEF ListIsTrue, Migrations
  <2>7. Sound(p)'
    BY <2>4, <2>5, <2>6 DEF Sound
  <2>8. QED BY <1>1, <1>2, <1>3, <2>1, <2>2, <2>7, QuietSteps DEF StartupInvariant, TypeOK
<1>4. CASE End(p, "failed") /\ Unlock(p)
  BY <1>1, <1>4, Endings DEF End, StartupInvariant, TypeOK
<1>5. QED BY <1>3, <1>4 DEF ListApplied

\* What a process at a migration knows of its sequence.
LEMMA AtAMigration ==
  ASSUME StartupInvariant, NEW p \in Process, At(p, "migrating"), ToDo(p)
  PROVE  /\ process[p] \in Running /\ lock = p /\ Sound(p) /\ ListIsTrue(p)
         /\ Migrations(p) \in Seq(Migration)
         /\ process[p].next \in 1 .. Len(Migrations(p))
         /\ Current(p) \in Migration
         /\ \A i, j \in 1 .. Len(Migrations(p)) :
              i < j => Migrations(p)[i].version < Migrations(p)[j].version
<1>1. process[p] \in Running /\ Sound(p)
  BY DEF StartupInvariant, TypeOK
<1>2. lock = p /\ ListIsTrue(p) /\ process[p].build \in Build
  BY <1>1 DEF Sound, LockIsHeld, RunIsConfigured, At, Migrating, Active, Stage
<1>3. Migrations(p) \in Seq(Migration) /\ process[p].next \in Nat \ {0}
  BY <1>1, <1>2, StartupAssumption DEF Migrations, Running
<1>4. process[p].next \in 1 .. Len(Migrations(p))
  BY <1>3 DEF ToDo
<1>5. Current(p) \in Migration
  BY <1>3, <1>4 DEF Current
<1>6. \A i, j \in 1 .. Len(Migrations(p)) :
        i < j => Migrations(p)[i].version < Migrations(p)[j].version
  <2>1. DOMAIN Migrations(p) = 1 .. Len(Migrations(p))
    BY <1>3
  <2>2. QED BY <1>2, <2>1, StartupAssumption DEF Migrations
<1>7. QED BY <1>1, <1>2, <1>3, <1>4, <1>5, <1>6

\* The process goes on to its next migration.
LEMMA Advanced ==
  ASSUME StartupInvariant, NEW p \in Process, At(p, "migrating"), Advance(p)
  PROVE  /\ \E r \in Running : process' = [process EXCEPT ![p] = r]
         /\ process'[p].at = "migrating" /\ process'[p].next = process[p].next + 1
         /\ \A f \in {"command", "build", "env", "late", "listed"} : process'[p][f] = process[p][f]
<1> DEFINE r == [process[p] EXCEPT !.next = @ + 1]
<1>1. process[p] \in Running
  BY DEF StartupInvariant, TypeOK
<1>2. r \in Running
  BY <1>1 DEF Running
<1>3. process' = [process EXCEPT ![p] = r] /\ process'[p] = r
  BY DEF Advance, StartupInvariant, TypeOK
<1>4. /\ r.at = "migrating" /\ r.next = process[p].next + 1
      /\ \A f \in {"command", "build", "env", "late", "listed"} : r[f] = process[p][f]
  BY <1>1 DEF Running, At
<1>5. QED BY <1>2, <1>3, <1>4

\* Having passed a migration whose row is in the schema, it is still sound.
LEMMA AdvancedIsSound ==
  ASSUME StartupInvariant, NEW p \in Process, At(p, "migrating"), ToDo(p), Advance(p),
         UNCHANGED <<lock, admins>>,
         ToSet(schema) \cup {Current(p)} \subseteq ToSet(schema'),
         \A i \in DOMAIN schema' : schema'[i] \in ToSet(schema) \cup {Current(p)}
  PROVE  Sound(p)'
<1> DEFINE r == process[p]
           s == process'[p]
<1>1. /\ s.at = "migrating" /\ s.next = r.next + 1 /\ s.command = r.command
      /\ s.build = r.build /\ s.env = r.env /\ s.late = r.late /\ s.listed = r.listed
  BY Advanced
<1>2. RunIsConfigured(p)' /\ LateRunCounts(p)'
  BY <1>1, AtAMigration DEF Sound, RunIsConfigured, LateRunCounts, SomeAdmin, At, Active, Stage,
     Bootstrapping
<1>3. LockIsHeld(p)' /\ RunIsFresh(p)' /\ RunIsMigrated(p)' /\ RunIsWired(p)'
  BY <1>1, AtAMigration DEF LockIsHeld, RunIsFresh, RunIsMigrated, RunIsWired, Migrating, Early, Past
<1>4. ListIsTrue(p)'
  <2>1. Migrations(p)' = Migrations(p)
    BY <1>1 DEF Migrations
  <2>2. ListIsTrue(p) /\ r.next \in 1 .. Len(Migrations(p)) /\ Len(Migrations(p)) \in Nat
    BY AtAMigration
  <2>3. s.next <= Len(Migrations(p)) + 1
    BY <1>1, <2>2
  <2>4. s.listed \subseteq ToSet(schema')
    BY <1>1, <2>2 DEF ListIsTrue
  <2>5. ASSUME NEW i \in 1 .. s.next - 1
        PROVE  Migrations(p)[i] \in ToSet(schema')
    <3>1. CASE i = r.next
      BY <3>1 DEF Current
    <3>2. CASE i # r.next
      <4>1. i \in 1 .. r.next - 1
        BY <1>1, <2>2, <3>2
      <4>2. QED BY <2>2, <4>1 DEF ListIsTrue
    <3>3. QED BY <3>1, <3>2
  <2>6. ASSUME NEW i \in DOMAIN schema'
        PROVE  schema'[i] \in s.listed \/ \E k \in 1 .. s.next - 1 : schema'[i] = Migrations(p)[k]
    <3>1. r.next \in 1 .. s.next - 1
      BY <1>1, <2>2
    <3>2. CASE schema'[i] = Current(p)
      BY <3>1, <3>2 DEF Current
    <3>3. CASE schema'[i] \in ToSet(schema)
      <4>1. PICK j \in DOMAIN schema : schema'[i] = schema[j]
        BY <3>3 DEF ToSet
      <4>2. schema[j] \in r.listed \/ \E k \in 1 .. r.next - 1 : schema[j] = Migrations(p)[k]
        BY <2>2 DEF ListIsTrue
      <4>3. \A k \in 1 .. r.next - 1 : k \in 1 .. s.next - 1
        BY <1>1, <2>2
      <4>4. QED BY <1>1, <4>1, <4>2, <4>3
    <3>4. QED BY <3>2, <3>3
  <2>7. QED BY <1>1, <2>1, <2>3, <2>4, <2>5, <2>6 DEF ListIsTrue
<1>5. QED BY <1>2, <1>3, <1>4 DEF Sound

\* A row that the list holds is matched, or ends the start.
LEMMA Validating ==
  ASSUME StartupInvariant, NEW p \in Process, Validate(p)
  PROVE  StartupInvariant'
<1>1. /\ At(p, "migrating") /\ ToDo(p) /\ lock = p
      /\ UNCHANGED <<schema, admins, starts, faults>>
  BY AtAMigration DEF Validate, Works
<1>2. CASE Matches(p) /\ Advance(p) /\ UNCHANGED lock
  <2>1. Current(p) \in ToSet(schema)
    BY <1>1, <1>2, AtAMigration DEF Matches, ListIsTrue
  <2>2. \A i \in DOMAIN schema : schema[i] \in ToSet(schema)
    BY DEF ToSet
  <2>3. Sound(p)'
    BY <1>1, <1>2, <2>1, <2>2, AdvancedIsSound
  <2>4. PICK r \in Running : process' = [process EXCEPT ![p] = r]
    BY <1>1, <1>2, Advanced
  <2>5. QED BY <1>1, <1>2, <2>3, <2>4, QuietSteps DEF StartupInvariant, TypeOK
<1>3. CASE End(p, "failed") /\ Unlock(p)
  BY <1>1, <1>3, Endings DEF End, StartupInvariant, TypeOK
<1>4. QED BY <1>2, <1>3 DEF Validate

\* A migration that the list does not hold has no row: nobody but the process
\* itself has written since it listed, and it writes in ascending order.
LEMMA UnlistedIsNew ==
  ASSUME StartupInvariant, NEW p \in Process, At(p, "migrating"), ToDo(p),
         Current(p).version \notin Versions(process[p].listed), NEW i \in DOMAIN schema
  PROVE  schema[i].version # Current(p).version
<1>1. CASE schema[i] \in process[p].listed
  BY <1>1 DEF Versions
<1>2. CASE \E k \in 1 .. process[p].next - 1 : schema[i] = Migrations(p)[k]
  <2>1. PICK k \in 1 .. process[p].next - 1 : schema[i] = Migrations(p)[k]
    BY <1>2
  <2>2. process[p].next \in 1 .. Len(Migrations(p)) /\ Len(Migrations(p)) \in Nat
    BY AtAMigration
  <2>3. k \in 1 .. Len(Migrations(p)) /\ k < process[p].next
    BY <2>2
  <2>4. schema[i].version < Current(p).version
    BY <2>1, <2>2, <2>3, AtAMigration DEF Current
  <2>5. schema[i] \in Migration /\ Current(p) \in Migration
    BY AtAMigration DEF StartupInvariant, TypeOK
  <2>6. schema[i].version \in Nat /\ Current(p).version \in Nat
    BY <2>5 DEF Migration
  <2>7. QED BY <2>4, <2>6
<1>3. QED BY <1>1, <1>2, AtAMigration DEF ListIsTrue

\* A migration that is applied gets the one row of its version.
LEMMA Applying ==
  ASSUME StartupInvariant, NEW p \in Process, At(p, "migrating"), ToDo(p),
         Current(p).version \notin Versions(process[p].listed), Apply(p)
  PROVE  /\ schema' \in Seq(Migration) /\ VersionsOnce'
         /\ ToSet(schema) \cup {Current(p)} \subseteq ToSet(schema')
         /\ \A i \in DOMAIN schema' : schema'[i] \in ToSet(schema) \cup {Current(p)}
<1>1. schema \in Seq(Migration) /\ Current(p) \in Migration
  BY AtAMigration DEF StartupInvariant, TypeOK
<1>2. schema' \in Seq(Migration) /\ Len(schema') = Len(schema) + 1
  BY <1>1 DEF Apply
<1>3. /\ \A i \in 1 .. Len(schema) : schema'[i] = schema[i]
      /\ schema'[Len(schema) + 1] = Current(p)
  BY <1>1 DEF Apply
<1>4. DOMAIN schema = 1 .. Len(schema) /\ DOMAIN schema' = 1 .. Len(schema) + 1 /\ Len(schema) \in Nat
  BY <1>1, <1>2
<1>5. ASSUME NEW i \in 1 .. Len(schema)
      PROVE  schema[i].version # Current(p).version
  BY <1>4, UnlistedIsNew
<1>6. VersionsOnce'
  BY <1>3, <1>4, <1>5 DEF StartupInvariant, VersionsOnce
<1>7. \A i \in DOMAIN schema' : schema'[i] \in ToSet(schema) \cup {Current(p)}
  BY <1>3, <1>4 DEF ToSet
<1>8. ToSet(schema) \cup {Current(p)} \subseteq ToSet(schema')
  BY <1>3, <1>4 DEF ToSet
<1>9. QED BY <1>2, <1>6, <1>7, <1>8

LEMMA MigratingOn ==
  ASSUME StartupInvariant, NEW p \in Process, Migrate(p)
  PROVE  StartupInvariant'
<1>1. /\ At(p, "migrating") /\ ToDo(p) /\ Apply(p) /\ Advance(p) /\ lock = p
      /\ Current(p).version \notin Versions(process[p].listed)
      /\ UNCHANGED <<lock, admins, starts, faults>>
  BY AtAMigration DEF Migrate, Works
<1>2. Sound(p)'
  BY <1>1, Applying, AdvancedIsSound
<1>3. FirstAdminsOnly' /\ (SomeAdmin => SomeAdmin')
  BY <1>1 DEF StartupInvariant, FirstAdminsOnly, SomeAdmin
<1>4. PICK r \in Running : process' = [process EXCEPT ![p] = r]
  BY <1>1, Advanced
<1>5. ToSet(schema) \subseteq ToSet(schema')
  BY <1>1, Applying
<1>6. QED BY <1>1, <1>2, <1>3, <1>4, <1>5, Applying, StepsKeep DEF StartupInvariant, TypeOK

\* An admin is inserted by a run that has counted none, which is not a late one.
LEMMA InsertingAdmin ==
  ASSUME StartupInvariant, NEW p \in Process, At(p, "inserting"), InsertAdmin(p)
  PROVE  /\ admins' \in [Email -> AdminRow \cup {NoAdmin}] /\ FirstAdminsOnly'
         /\ SomeAdmin => SomeAdmin'
<1>1. process[p] \in Running /\ EmailOf(p) \in Email /\ ~process[p].late
  BY DEF StartupInvariant, TypeOK, Sound, LateRunCounts, At
<1> DEFINE row == [by |-> p, late |-> process[p].late]
<1>2. row \in AdminRow /\ row # NoAdmin /\ ~row.late
  BY <1>1, StartupAssumption DEF AdminRow, NoAdmin, Running
<1>3. admins' = [admins EXCEPT ![EmailOf(p)] = row]
  BY DEF InsertAdmin
<1> HIDE DEF row
<1>4. admins' \in [Email -> AdminRow \cup {NoAdmin}]
  BY <1>2, <1>3 DEF StartupInvariant, TypeOK
<1>5. FirstAdminsOnly'
  BY <1>1, <1>2, <1>3 DEF StartupInvariant, TypeOK, FirstAdminsOnly
<1>6. SomeAdmin'
  BY <1>1, <1>2, <1>3 DEF StartupInvariant, TypeOK, SomeAdmin
<1>7. QED BY <1>4, <1>5, <1>6

\* A process ends, and whatever its last statement did is a growth of the tables.
LEMMA EndsWithEffect ==
  ASSUME StartupInvariant, NEW p \in Process, NEW stage \in {"down", "created", "already", "failed"},
         End(p, stage),
         \/ UNCHANGED <<schema, admins>>
         \/ /\ At(p, "migrating") /\ ToDo(p) /\ Current(p).version \notin Versions(process[p].listed)
            /\ Apply(p) /\ UNCHANGED admins
         \/ At(p, "inserting") /\ InsertAdmin(p) /\ UNCHANGED schema,
         Unlock(p) \/ (lock # p /\ UNCHANGED lock), starts' \in Nat, faults' \in Nat
  PROVE  StartupInvariant'
<1>1. lock' \in Process \cup {Null} /\ lock' # p /\ \A q \in Process \ {p} : lock' = q <=> lock = q
  BY StartupAssumption DEF Unlock, StartupInvariant, TypeOK
<1>2. process' = [process EXCEPT ![p] = Ended(stage)] /\ process'[p] = Ended(stage)
  BY DEF End, StartupInvariant, TypeOK
<1>3. Sound(p)' /\ Ended(stage) \in Running
  BY <1>1, <1>2, EndedIsSound, EndedRun
<1>4. CASE UNCHANGED <<schema, admins>>
  BY <1>1, <1>2, <1>3, <1>4, QuietSteps
<1>5. CASE /\ At(p, "migrating") /\ ToDo(p) /\ Current(p).version \notin Versions(process[p].listed)
           /\ Apply(p) /\ UNCHANGED admins
  <2>1. FirstAdminsOnly' /\ (SomeAdmin => SomeAdmin') /\ lock = p
    BY <1>5, AtAMigration DEF StartupInvariant, FirstAdminsOnly, SomeAdmin
  <2>2. ToSet(schema) \subseteq ToSet(schema')
    BY <1>5, Applying
  <2>3. QED BY <1>1, <1>2, <1>3, <1>5, <2>1, <2>2, Applying, StepsKeep DEF StartupInvariant, TypeOK
<1>6. CASE At(p, "inserting") /\ InsertAdmin(p) /\ UNCHANGED schema
  <2>1. schema' \in Seq(Migration) /\ VersionsOnce'
    BY <1>6 DEF StartupInvariant, TypeOK, VersionsOnce
  <2>2. QED BY <1>1, <1>2, <1>3, <1>6, <2>1, InsertingAdmin, StepsKeep
<1>7. QED BY <1>4, <1>5, <1>6

LEMMA Inserting ==
  ASSUME StartupInvariant, NEW p \in Process, Insert(p)
  PROVE  StartupInvariant'
<1>1. At(p, "inserting") /\ UNCHANGED <<schema, lock, starts, faults>> /\ lock # p
  BY DEF Insert, Works, At, StartupInvariant, Sound, LockIsHeld, Migrating
<1>2. CASE InsertAdmin(p) /\ End(p, "created")
  BY <1>1, <1>2, EndsWithEffect DEF StartupInvariant, TypeOK
<1>3. CASE End(p, "failed") /\ UNCHANGED admins
  BY <1>1, <1>3, EndsWithEffect DEF StartupInvariant, TypeOK
<1>4. QED BY <1>2, <1>3 DEF Insert

LEMMA Dying ==
  ASSUME StartupInvariant, NEW p \in Process, Die(p)
  PROVE  StartupInvariant'
<1>1. Unlock(p) /\ End(p, "failed") /\ starts' \in Nat /\ faults' \in Nat
  BY DEF Die, Fails, StartupInvariant, TypeOK
<1>2. Effect(p) \/ UNCHANGED <<schema, admins>>
  BY DEF Die
<1>3. QED BY <1>1, <1>2, EndsWithEffect DEF Effect

(***************************************************************************)
(* The invariant                                                           *)
(***************************************************************************)

\* Nothing runs, nothing is stored.
LEMMA InitiallySound == Init => StartupInvariant
<1> SUFFICES ASSUME Init PROVE StartupInvariant
  OBVIOUS
<1>1. NoProcess \in Running
  BY DEF NoProcess, Running, Stage, Command
<1>2. TypeOK
  BY <1>1 DEF Init, TypeOK, FaultsInit
<1>3. VersionsOnce /\ FirstAdminsOnly
  BY DEF Init, VersionsOnce, FirstAdminsOnly, NoAdmin
<1>4. ASSUME NEW p \in Process PROVE Sound(p)
  <2>1. process[p].at = "down" /\ process[p].late = FALSE /\ lock # p
    BY StartupAssumption DEF Init, NoProcess
  <2>2. QED
    BY <2>1 DEF Sound, RunIsConfigured, LockIsHeld, RunIsFresh, ListIsTrue, RunIsMigrated,
       RunIsWired, LateRunCounts, At, Active, Early, Migrating, Past
<1>5. QED BY <1>2, <1>3, <1>4 DEF StartupInvariant

\* One step of one process, whichever it is.
LEMMA StepsStaySound ==
  ASSUME StartupInvariant, [Next]_vars
  PROVE  StartupInvariant'
<1>1. CASE UNCHANGED vars
  BY <1>1 DEF vars, database, StartupInvariant, TypeOK, VersionsOnce, FirstAdminsOnly, Sound,
     RunIsConfigured, LockIsHeld, RunIsFresh, ListIsTrue, RunIsMigrated, RunIsWired, LateRunCounts,
     SomeAdmin, At, Migrations, EmailOf
<1>2. ASSUME NEW p \in Process, NEW launch \in Launch, NEW b \in Build,
             Start(p, launch[1], b, launch[2])
      PROVE  StartupInvariant'
  <2>1. launch[1] \in Command /\ launch[2] \in Environments
    BY StartupAssumption
  <2>2. QED BY <1>2, <2>1, Starting
<1>3. ASSUME NEW p \in Process, Lock(p) \/ Die(p) \/ Step(p)
      PROVE  StartupInvariant'
  BY <1>3, Locking, Dying, Connecting, Listing, Validating, MigratingOn, Finishing, Wiring, Binding,
     Checking, Counting, Inserting DEF Step
<1>4. QED BY <1>1, <1>2, <1>3 DEF Next

\* The migrator's lock has one holder and no list is stale, every process that
\* runs has what it relies on, and late bootstraps never insert.
THEOREM StartupIsInvariant == Spec => []StartupInvariant
BY InitiallySound, StepsStaySound, PTL DEF Spec

\* Every variable of a startup keeps its type.
THEOREM StartupTypes == Spec => []TypeOK
BY StartupIsInvariant, PTL DEF StartupInvariant

\* However many processes start, race and die: no version is recorded twice.
THEOREM VersionsAppliedOnce == Spec => []VersionsOnce
BY StartupIsInvariant, PTL DEF StartupInvariant

\* A process that serves has its own build's schema underneath, checksums
\* included.
THEOREM AlwaysServesOnItsSchema == Spec => []ServesOnItsSchema
<1>1. StartupInvariant => ServesOnItsSchema
  BY DEF StartupInvariant, Sound, RunIsMigrated, ServesOnItsSchema, At, Past
<1>2. QED BY <1>1, StartupIsInvariant, PTL

\* No admin was created by a bootstrap that started after another admin was there.
THEOREM OnlyFirstAdmins == Spec => []FirstAdminsOnly
BY StartupIsInvariant, PTL DEF StartupInvariant

(***************************************************************************)
(* What a step may do to the database                                      *)
(***************************************************************************)

\* Rows of _sqlx_migrations are only ever added, by the one process that holds
\* the lock, and each is a migration of its build that no row has the version of.
SchemaIsTheHolders ==
  \/ UNCHANGED schema
  \/ \E p \in Process :
       /\ At(p, "migrating") /\ lock = p
       /\ \A q \in Process : process[q].at \in Migrating => q = p
       /\ Current(p) \in ToSet(Migrations(p))
       /\ \A i \in DOMAIN schema : schema[i].version # Current(p).version
       /\ schema' = Append(schema, Current(p))

\* An admin that is there is neither removed nor replaced.
AdminsStay == \A e \in Email : admins[e] # NoAdmin => admins'[e] = admins[e]

\* A statement of a process, committed, is one of these.
LEMMA StatementsGrow ==
  ASSUME StartupInvariant, NEW p \in Process,
         \/ UNCHANGED <<schema, admins>>
         \/ /\ At(p, "migrating") /\ ToDo(p) /\ Current(p).version \notin Versions(process[p].listed)
            /\ Apply(p) /\ UNCHANGED admins
         \/ At(p, "inserting") /\ InsertAdmin(p) /\ UNCHANGED schema
  PROVE  SchemaIsTheHolders /\ AdminsStay
<1>1. CASE UNCHANGED <<schema, admins>>
  BY <1>1 DEF SchemaIsTheHolders, AdminsStay
<1>2. CASE /\ At(p, "migrating") /\ ToDo(p) /\ Current(p).version \notin Versions(process[p].listed)
           /\ Apply(p) /\ UNCHANGED admins
  <2>1. lock = p /\ \A i \in DOMAIN schema : schema[i].version # Current(p).version
    BY <1>2, AtAMigration, UnlistedIsNew
  <2>2. \A q \in Process : process[q].at \in Migrating => q = p
    BY <2>1 DEF StartupInvariant, Sound, LockIsHeld
  <2>3. Current(p) \in ToSet(Migrations(p))
    BY <1>2, AtAMigration DEF Current, ToSet
  <2>4. QED BY <1>2, <2>1, <2>2, <2>3 DEF SchemaIsTheHolders, AdminsStay, Apply
<1>3. CASE At(p, "inserting") /\ InsertAdmin(p) /\ UNCHANGED schema
  BY <1>3 DEF SchemaIsTheHolders, AdminsStay, InsertAdmin, Taken, StartupInvariant, TypeOK
<1>4. QED BY <1>1, <1>2, <1>3

\* However many processes of however many builds migrate, die with a statement
\* in flight and start again, the two tables only grow: MIGRATOR.run appends, one
\* process at a time, what is really missing, and create_first_admin overwrites
\* nobody.
THEOREM DatabaseOnlyGrows == Spec => [][SchemaIsTheHolders /\ AdminsStay]_vars
<1>1. StartupInvariant /\ [Next]_vars => [SchemaIsTheHolders /\ AdminsStay]_vars
  <2>1. ASSUME UNCHANGED <<schema, admins>> PROVE SchemaIsTheHolders /\ AdminsStay
    BY <2>1 DEF SchemaIsTheHolders, AdminsStay
  <2>2. ASSUME StartupInvariant, NEW p \in Process, Migrate(p)
        PROVE  SchemaIsTheHolders /\ AdminsStay
    BY <2>2, StatementsGrow DEF Migrate
  <2>3. ASSUME StartupInvariant, NEW p \in Process, Insert(p)
        PROVE  SchemaIsTheHolders /\ AdminsStay
    BY <2>3, StatementsGrow DEF Insert
  <2>4. ASSUME StartupInvariant, NEW p \in Process, Die(p)
        PROVE  SchemaIsTheHolders /\ AdminsStay
    BY <2>4, StatementsGrow DEF Die, Effect
  <2>5. ASSUME NEW p \in Process,
               \/ \E launch \in Launch, b \in Build : Start(p, launch[1], b, launch[2])
               \/ Lock(p) \/ Connect(p) \/ ListApplied(p) \/ Validate(p) \/ Migrated(p)
               \/ Wire(p) \/ Bind(p) \/ Check(p) \/ Count(p)
        PROVE  SchemaIsTheHolders /\ AdminsStay
    BY <2>1, <2>5 DEF Start, Lock, Connect, ListApplied, Validate, Migrated, Wire, Bind, Check, Count, database
  <2>6. QED BY <2>2, <2>3, <2>4, <2>5 DEF Next, Step
<1>2. QED BY <1>1, StartupIsInvariant, PTL DEF Spec

(***************************************************************************)
(* Histories of migrations                                                 *)
(***************************************************************************)

\* What is stored is what some build begins with.
IsABuilds ==
  schema # <<>> =>
    \E b \in Build : /\ Len(schema) <= Len(Embedded[b])
                     /\ \A i \in 1 .. Len(schema) : schema[i] = Embedded[b][i]

\* As far as the migrator has come, the schema is its own build's.
PrefixSoFar(p) ==
  At(p, "migrating") =>
    /\ process[p].next - 1 <= Len(schema)
    /\ \A i \in 1 .. process[p].next - 1 : schema[i] = Migrations(p)[i]

HistoryInvariant == IsABuilds /\ \A p \in Process : PrefixSoFar(p)

\* A migration whose version is not in the list comes next in the schema.
LEMMA UnlistedIsNext ==
  ASSUME StartupInvariant, NumberedAlike, HistoryInvariant, NEW p \in Process,
         At(p, "migrating"), ToDo(p), Current(p).version \notin Versions(process[p].listed)
  PROVE  Len(schema) = process[p].next - 1
<1> DEFINE n == process[p].next
           B == Migrations(p)
<1>1. n \in 1 .. Len(B) /\ B \in Seq(Migration) /\ ListIsTrue(p) /\ PrefixSoFar(p)
  BY AtAMigration DEF HistoryInvariant
<1>2. schema \in Seq(Migration) /\ Len(schema) \in Nat /\ DOMAIN schema = 1 .. Len(schema)
  BY DEF StartupInvariant, TypeOK
<1>3. ASSUME n <= Len(schema)
      PROVE  FALSE
  <2>1. n \in 1 .. Len(schema)
    BY <1>1, <1>2, <1>3
  <2>2. PICK b \in Build : Len(schema) <= Len(Embedded[b]) /\ schema[n] = Embedded[b][n]
    BY <1>2, <2>1 DEF HistoryInvariant, IsABuilds
  <2>3. schema[n].version = B[n].version
    <3>1. process[p].build \in Build
      BY AtAMigration DEF Sound, RunIsConfigured, At, Active, Stage
    <3>2. n \in DOMAIN Embedded[b] \cap DOMAIN Embedded[process[p].build]
      BY <1>1, <1>2, <2>1, <2>2, <3>1, StartupAssumption DEF Migrations
    <3>3. QED BY <2>2, <3>1, <3>2 DEF NumberedAlike, Migrations
  <2>4. schema[n] \notin process[p].listed
    BY <2>3 DEF Current, Versions
  <2>5. PICK k \in 1 .. n - 1 : schema[n] = B[k]
    BY <1>1, <1>2, <2>1, <2>4, AtAMigration DEF ListIsTrue
  <2>6. k \in 1 .. Len(schema) /\ schema[k] = schema[n] /\ k # n
    BY <1>1, <1>2, <2>5 DEF PrefixSoFar
  <2>7. QED BY <1>2, <2>1, <2>6 DEF StartupInvariant, VersionsOnce
<1>4. QED BY <1>1, <1>2, <1>3 DEF PrefixSoFar

\* A migration that matches a listed row is in its place.
LEMMA MatchedIsInPlace ==
  ASSUME StartupInvariant, NumberedAlike, HistoryInvariant, NEW p \in Process,
         At(p, "migrating"), ToDo(p), Matches(p)
  PROVE  process[p].next <= Len(schema) /\ schema[process[p].next] = Current(p)
<1> DEFINE n == process[p].next
           B == Migrations(p)
<1>1. n \in 1 .. Len(B) /\ B \in Seq(Migration) /\ Len(B) \in Nat /\ ListIsTrue(p)
  BY AtAMigration
<1>2. schema \in Seq(Migration) /\ Len(schema) \in Nat /\ DOMAIN schema = 1 .. Len(schema)
  BY DEF StartupInvariant, TypeOK
<1>3. PICK j \in 1 .. Len(schema) : schema[j] = Current(p)
  BY <1>1, <1>2 DEF Matches, ListIsTrue, ToSet
<1>4. PICK b \in Build : Len(schema) <= Len(Embedded[b]) /\ schema[j] = Embedded[b][j]
  BY <1>2, <1>3 DEF HistoryInvariant, IsABuilds
<1>5. /\ process[p].build \in Build /\ B = Embedded[process[p].build]
      /\ Embedded[b] \in Seq(Migration) /\ Len(Embedded[b]) \in Nat
  BY <1>4, AtAMigration, StartupAssumption DEF Sound, RunIsConfigured, At, Active, Stage, Migrations
<1>6. DOMAIN B = 1 .. Len(B) /\ DOMAIN Embedded[b] = 1 .. Len(Embedded[b])
  BY <1>1, <1>5
<1>7. Embedded[b][j].version = B[n].version /\ j \in 1 .. Len(Embedded[b])
  BY <1>2, <1>3, <1>4, <1>5 DEF Current
<1>8. CASE j <= Len(B)
  <2>1. j \in 1 .. Len(B)
    BY <1>1, <1>3, <1>8
  <2>2. B[j].version = B[n].version
    BY <1>5, <1>6, <1>7, <2>1 DEF NumberedAlike
  <2>3. B[n].version \in Nat
    <3>1. B[n] \in Migration
      BY <1>1
    <3>2. QED BY <3>1 DEF Migration
  <2>4. ~(j < n) /\ ~(n < j)
    <3>1. /\ j < n => B[j].version < B[n].version
          /\ n < j => B[n].version < B[j].version
      BY <1>1, <2>1, AtAMigration
    <3>2. QED BY <2>2, <2>3, <3>1
  <2>5. QED BY <1>1, <1>3, <2>1, <2>4
<1>9. CASE j > Len(B)
  <2>1. n \in 1 .. Len(Embedded[b]) /\ n < j
    BY <1>1, <1>5, <1>7, <1>9
  <2>2. Embedded[b][n].version = B[n].version
    BY <1>1, <1>5, <1>6, <2>1 DEF NumberedAlike
  <2>3. Embedded[b][n].version < Embedded[b][j].version
    BY <1>4, <1>6, <1>7, <2>1, StartupAssumption
  <2>4. Embedded[b][n] \in Migration
    BY <1>5, <2>1
  <2>5. QED BY <1>7, <2>2, <2>3, <2>4 DEF Migration
<1>10. QED BY <1>1, <1>3, <1>8, <1>9

\* The migration that comes next goes to the end.
LEMMA AppliedInPlace ==
  ASSUME StartupInvariant, NumberedAlike, HistoryInvariant, NEW p \in Process,
         At(p, "migrating"), ToDo(p), Current(p).version \notin Versions(process[p].listed), Apply(p)
  PROVE  /\ Len(schema') = process[p].next
         /\ \A i \in 1 .. process[p].next : schema'[i] = Migrations(p)[i]
         /\ IsABuilds'
<1> DEFINE n == process[p].next
           B == Migrations(p)
<1>1. n \in 1 .. Len(B) /\ Len(schema) = n - 1 /\ PrefixSoFar(p) /\ Current(p) \in Migration
  BY AtAMigration, UnlistedIsNext DEF HistoryInvariant
<1>2. schema \in Seq(Migration)
  BY DEF StartupInvariant, TypeOK
<1>3. Len(schema') = n /\ schema'[n] = Current(p) /\ \A i \in 1 .. n - 1 : schema'[i] = schema[i]
  BY <1>1, <1>2 DEF Apply
<1>4. \A i \in 1 .. n : schema'[i] = B[i]
  BY <1>1, <1>3 DEF PrefixSoFar, Current
<1>5. IsABuilds'
  <2>1. process[p].build \in Build /\ B = Embedded[process[p].build] /\ n <= Len(B)
    BY <1>1, AtAMigration DEF Sound, RunIsConfigured, At, Active, Stage, Migrations
  <2>2. QED BY <1>3, <1>4, <2>1 DEF IsABuilds
<1>6. QED BY <1>3, <1>4, <1>5

\* The invariant follows the process that moves; the others are not migrating, or
\* the schema stays.
LEMMA HistoryGoesOn ==
  ASSUME StartupInvariant, NumberedAlike, HistoryInvariant, NEW p \in Process,
         \A q \in Process \ {p} : process'[q] = process[q],
         lock = p \/ UNCHANGED schema,
         IsABuilds', PrefixSoFar(p)'
  PROVE  HistoryInvariant'
<1>1. ASSUME NEW q \in Process, q # p
      PROVE  PrefixSoFar(q)'
  <2>1. PrefixSoFar(q) /\ LockIsHeld(q) /\ process'[q] = process[q]
    BY <1>1 DEF HistoryInvariant, StartupInvariant, Sound
  <2>2. QED BY <1>1, <2>1 DEF PrefixSoFar, LockIsHeld, Migrating, At, Migrations
<1>2. QED BY <1>1 DEF HistoryInvariant

\* A step of a process that is not migrating afterwards, or only now begins to,
\* and that leaves the schema.
LEMMA HistoryRests ==
  ASSUME StartupInvariant, NumberedAlike, HistoryInvariant, NEW p \in Process,
         \A q \in Process \ {p} : process'[q] = process[q],
         process'[p].at # "migrating" \/ process'[p].next = 1,
         UNCHANGED schema
  PROVE  HistoryInvariant'
<1>1. IsABuilds'
  BY DEF HistoryInvariant, IsABuilds
<1>2. PrefixSoFar(p)'
  <2>1. Len(schema) \in Nat
    BY DEF StartupInvariant, TypeOK
  <2>2. QED BY <2>1 DEF PrefixSoFar, At
<1>3. QED BY <1>1, <1>2, HistoryGoesOn

LEMMA StepsKeepHistory ==
  ASSUME StartupInvariant, NumberedAlike, HistoryInvariant, [Next]_vars
  PROVE  HistoryInvariant'
<1>1. CASE UNCHANGED vars
  BY <1>1 DEF vars, database, HistoryInvariant, IsABuilds, PrefixSoFar, At, Migrations
<1>2. process \in [Process -> Running]
  BY DEF StartupInvariant, TypeOK
<1>3. ASSUME NEW p \in Process,
             \/ \E launch \in Launch, b \in Build : Start(p, launch[1], b, launch[2])
             \/ Lock(p) \/ Connect(p) \/ Migrated(p) \/ Wire(p) \/ Bind(p) \/ Check(p)
             \/ Count(p) \/ Insert(p)
      PROVE  HistoryInvariant'
  <2>1. UNCHANGED schema
    BY <1>3 DEF Start, Lock, Connect, Migrated, Wire, Bind, Check, Count, Insert, InsertAdmin, database
  <2>2. process'[p].at # "migrating" /\ \A q \in Process \ {p} : process'[q] = process[q]
    <3>1. CASE \E launch \in Launch, b \in Build : Start(p, launch[1], b, launch[2])
      BY <1>2, <3>1 DEF Start, Ended, NoProcess
    <3>2. CASE Lock(p) \/ Connect(p) \/ Migrated(p) \/ Bind(p)
      BY <1>2, <3>2 DEF Lock, Connect, Migrated, Bind, Go, Running
    <3>3. CASE Wire(p)
      BY <1>2, <3>3 DEF Wire, Ended, NoProcess, Running
    <3>4. CASE Check(p) \/ Count(p) \/ Insert(p)
      BY <1>2, <3>4 DEF Check, Count, Insert, Go, End, Ended, NoProcess, Running
    <3>5. QED BY <1>3, <3>1, <3>2, <3>3, <3>4
  <2>3. QED BY <2>1, <2>2, HistoryRests
<1>4. ASSUME NEW p \in Process, ListApplied(p)
      PROVE  HistoryInvariant'
  <2>1. process[p].next = 1
    BY <1>4 DEF ListApplied, At, StartupInvariant, Sound, RunIsFresh, Early
  <2>2. process'[p].next = 1 /\ \A q \in Process \ {p} : process'[q] = process[q]
    BY <1>2, <1>4, <2>1 DEF ListApplied, End, Ended, NoProcess, Running
  <2>3. UNCHANGED schema
    BY <1>4 DEF ListApplied
  <2>4. QED BY <2>2, <2>3, HistoryRests
<1>5. ASSUME NEW p \in Process, At(p, "migrating"), ToDo(p), Advance(p),
             IsABuilds', process[p].next <= Len(schema'), lock = p \/ UNCHANGED schema,
             \A i \in 1 .. process[p].next : schema'[i] = Migrations(p)[i]
      PROVE  HistoryInvariant'
  <2>1. /\ process'[p].next = process[p].next + 1 /\ process'[p].build = process[p].build
        /\ \A q \in Process \ {p} : process'[q] = process[q]
    BY <1>2, <1>5, Advanced
  <2>2. process[p].next \in Nat
    BY <1>2 DEF Running
  <2>3. process'[p].next - 1 = process[p].next
    BY <2>1, <2>2
  <2>4. PrefixSoFar(p)'
    BY <1>5, <2>1, <2>3 DEF PrefixSoFar, Migrations
  <2>5. QED BY <1>5, <2>1, <2>4, HistoryGoesOn
<1>6. ASSUME NEW p \in Process, Validate(p)
      PROVE  HistoryInvariant'
  <2>1. At(p, "migrating") /\ ToDo(p) /\ UNCHANGED schema
    BY <1>6 DEF Validate
  <2>2. CASE Matches(p) /\ Advance(p)
    <3>1. process[p].next <= Len(schema) /\ schema[process[p].next] = Current(p) /\ PrefixSoFar(p)
      BY <2>1, <2>2, MatchedIsInPlace DEF HistoryInvariant
    <3>2. process[p].next \in Nat \ {0}
      BY <1>2 DEF Running
    <3>3. \A i \in 1 .. process[p].next : schema[i] = Migrations(p)[i]
      BY <2>1, <3>1, <3>2 DEF PrefixSoFar, Current
    <3>4. IsABuilds'
      BY <2>1 DEF HistoryInvariant, IsABuilds
    <3>5. QED BY <1>5, <2>1, <2>2, <3>1, <3>3, <3>4
  <2>3. CASE End(p, "failed")
    <3>1. process'[p].at # "migrating" /\ \A q \in Process \ {p} : process'[q] = process[q]
      BY <1>2, <2>3 DEF End, Ended, NoProcess
    <3>2. QED BY <2>1, <3>1, HistoryRests
  <2>4. QED BY <1>6, <2>2, <2>3 DEF Validate
<1>7. ASSUME NEW p \in Process, Migrate(p)
      PROVE  HistoryInvariant'
  <2>1. /\ At(p, "migrating") /\ ToDo(p) /\ Apply(p) /\ Advance(p) /\ lock = p
        /\ Current(p).version \notin Versions(process[p].listed)
    BY <1>7, AtAMigration DEF Migrate
  <2>2. process[p].next \in Nat
    BY <1>2 DEF Running
  <2>3. QED BY <1>5, <2>1, <2>2, AppliedInPlace
<1>8. ASSUME NEW p \in Process, Die(p)
      PROVE  HistoryInvariant'
  <2>1. process'[p].at # "migrating" /\ \A q \in Process \ {p} : process'[q] = process[q]
    BY <1>2, <1>8 DEF Die, End, Ended, NoProcess
  <2>2. CASE UNCHANGED schema
    BY <2>1, <2>2, HistoryRests
  <2>3. CASE /\ At(p, "migrating") /\ ToDo(p) /\ Apply(p)
             /\ Current(p).version \notin Versions(process[p].listed)
    <3>1. IsABuilds' /\ lock = p
      BY <2>3, AppliedInPlace, AtAMigration
    <3>2. PrefixSoFar(p)'
      BY <2>1 DEF PrefixSoFar, At
    <3>3. QED BY <2>1, <3>1, <3>2, HistoryGoesOn
  <2>4. QED BY <1>8, <2>2, <2>3 DEF Die, Effect
<1>9. QED BY <1>1, <1>3, <1>4, <1>6, <1>7, <1>8 DEF Next, Step

\* However many processes of however many builds start at once, die in the middle
\* of the migrations and start again: no version is recorded twice, and, if no
\* build fills a gap of another, the schema is what some build begins with.
THEOREM MigrationsAppliedOnce == Spec => []AppliedOnce
<1>1. Init => (NumberedAlike => HistoryInvariant)
  BY DEF Init, HistoryInvariant, IsABuilds, PrefixSoFar, At, NoProcess
<1>2. /\ StartupInvariant /\ (NumberedAlike => HistoryInvariant) /\ [Next]_vars
      => (NumberedAlike => HistoryInvariant)'
  BY StepsKeepHistory DEF NumberedAlike
<1>3. StartupInvariant /\ (NumberedAlike => HistoryInvariant) => AppliedOnce
  <2> SUFFICES ASSUME StartupInvariant, NumberedAlike => HistoryInvariant PROVE AppliedOnce
    OBVIOUS
  <2>1. ASSUME NumberedAlike, schema # <<>>
        PROVE  \E b \in Build : IsPrefix(schema, Embedded[b])
    <3>1. PICK b \in Build : /\ Len(schema) <= Len(Embedded[b])
                             /\ \A i \in 1 .. Len(schema) : schema[i] = Embedded[b][i]
      BY <2>1 DEF HistoryInvariant, IsABuilds
    <3>2. schema \in Seq(Migration) /\ Embedded[b] \in Seq(Migration)
      BY StartupAssumption DEF StartupInvariant, TypeOK
    <3>3. SubSeq(schema, 1, Len(schema)) = SubSeq(Embedded[b], 1, Len(schema))
      BY <3>1, <3>2
    <3>4. IsPrefix(schema, Embedded[b])
      BY <3>1, <3>3 DEF IsPrefix
    <3>5. QED BY <3>4
  <2>2. QED BY <2>1 DEF StartupInvariant, VersionsOnce, AppliedOnce
<1>4. QED BY <1>1, <1>2, <1>3, StartupIsInvariant, PTL DEF Spec

(***************************************************************************)
(* What a run over the modules applies.  The loops of run_migrations are   *)
(* recursive functions: LoopExists says that there is such a function, and *)
(* StepByStep takes the place of induction.                                *)
(***************************************************************************)

\* What holds at the start and goes on from one place to the next holds everywhere.
LEMMA StepByStep ==
  ASSUME NEW L \in Nat, NEW T, 0 \in T, \A n \in 1 .. L : n - 1 \in T => n \in T
  PROVE  0 .. L \subseteq T
<1>. DEFINE Bad == (0 .. L) \ T
            Earlier == {s \in Nat \X Nat : s[1] < s[2]}
<1>. SUFFICES ASSUME Bad # {} PROVE FALSE
  OBVIOUS
<1>1. Bad \subseteq Nat
  OBVIOUS
<1>2. IsWellFoundedOn(Earlier, Nat)
  BY NatLessThanWellFounded DEF OpToRel
<1>3. PICK n \in Bad : \A m \in Bad : ~(<<m, n>> \in Earlier)
  <2>. HIDE DEF Earlier, Bad
  <2>. QED
    BY <1>1, <1>2, WFMin
<1>4. n \in 0 .. L /\ n \notin T /\ n # 0
  OBVIOUS
<1>5. n - 1 \in 0 .. L /\ n - 1 \in Nat /\ n \in Nat /\ n - 1 < n
  BY <1>4
<1>6. <<n - 1, n>> \in Earlier
  BY <1>5
<1>7. n - 1 \in T
  BY <1>3, <1>5, <1>6
<1>. QED
  BY <1>4, <1>5, <1>7

\* A loop of L rounds that carries a member of S, and what it had after each.
IsRound(round, L, S) == \A n \in 1 .. L : \A e \in S : round[n][e] \in S
IsLoop(f, L, S, start, round) ==
  /\ f \in [0 .. L -> S] /\ f[0] = start
  /\ \A n \in 1 .. L : f[n] = round[n][f[n - 1]]

\* Such a loop can be gone through.
LEMMA LoopExists ==
  ASSUME NEW L \in Nat, NEW S, NEW start \in S, NEW round, IsRound(round, L, S)
  PROVE  \E f : IsLoop(f, L, S, start, round)
<1>. DEFINE T == {m \in 0 .. L : \E f : IsLoop(f, m, S, start, round)}
<1>1. 0 \in T
  <2>1. IsLoop([n \in 0 .. 0 |-> start], 0, S, start, round)
    BY DEF IsLoop
  <2>2. \E f : IsLoop(f, 0, S, start, round)
    BY <2>1
  <2>. QED
    BY <2>2
<1>2. ASSUME NEW m \in 1 .. L, m - 1 \in T
      PROVE  m \in T
  <2>1. PICK f : IsLoop(f, m - 1, S, start, round)
    BY <1>2
  <2>. DEFINE g == [n \in 0 .. m |-> IF n = m THEN round[m][f[m - 1]] ELSE f[n]]
  <2>2. f[m - 1] \in S /\ round[m][f[m - 1]] \in S
    BY <2>1 DEF IsLoop, IsRound
  <2>3. g \in [0 .. m -> S] /\ g[0] = start
    BY <2>1, <2>2 DEF IsLoop
  <2>4. ASSUME NEW n \in 1 .. m
        PROVE  g[n] = round[n][g[n - 1]]
    <3>1. g[n - 1] = f[n - 1]
      OBVIOUS
    <3>2. CASE n = m
      <4>1. g[m] = round[m][f[m - 1]] /\ g[m - 1] = f[m - 1]
        BY <3>1, <3>2
      <4>. HIDE DEF g
      <4>. QED
        BY <3>2, <4>1
    <3>3. CASE n # m
      <4>1. n \in 1 .. m - 1 /\ g[n] = f[n]
        BY <3>3
      <4>. QED
        BY <2>1, <3>1, <4>1 DEF IsLoop
    <3>. QED
      BY <3>2, <3>3
  <2>5. IsLoop(g, m, S, start, round)
    <3>. HIDE DEF g
    <3>. QED
      BY <2>3, <2>4 DEF IsLoop
  <2>6. \E h : IsLoop(h, m, S, start, round)
    BY <2>5
  <2>. QED
    BY <2>6
<1>3. L \in T
  <2>. HIDE DEF T
  <2>1. 0 .. L \subseteq T
    BY <1>1, <1>2, StepByStep
  <2>. QED
    BY <2>1
<1>. QED
  BY <1>3

\* The ids of a module's migrations, as the executor records them.
Id == Seq(STRING)
IdsOf(module) == [k \in DOMAIN module.migrations |-> IdOf(module, module.migrations[k])]

\* Behind one name, different ids are different migrations.
LEMMA SameName ==
  ASSUME NEW n \in Id, NEW a \in Id, NEW b \in Id, n \o a = n \o b
  PROVE  a = b
<1>1. /\ Len(n \o a) = Len(n) + Len(a) /\ Len(n \o b) = Len(n) + Len(b)
      /\ \A k \in 1 .. Len(a) : (n \o a)[Len(n) + k] = a[k]
      /\ \A k \in 1 .. Len(b) : (n \o b)[Len(n) + k] = b[k]
  OBVIOUS
<1>2. Len(a) = Len(b)
  BY <1>1
<1>3. \A k \in 1 .. Len(a) : a[k] = b[k]
  BY <1>1, <1>2
<1>4. QED BY <1>2, <1>3, SeqEqual DEF Id

\* They are those of the module, in its order.
LEMMA IdsAre ==
  ASSUME NEW module \in Module
  PROVE  /\ Len(module.migrations) \in Nat
         /\ DOMAIN module.migrations = 1 .. Len(module.migrations)
         /\ IdsOf(module) \in Seq(Id) /\ Len(IdsOf(module)) = Len(module.migrations)
         /\ \A k \in 1 .. Len(module.migrations) :
              /\ IdsOf(module)[k] = IdOf(module, module.migrations[k])
              /\ IdsOf(module)[k] \in Id
         /\ Ids(module) = {IdsOf(module)[k] : k \in 1 .. Len(module.migrations)}
<1>1. module.migrations \in Seq(Name) /\ module.name \in Name
  BY DEF Module
<1>. DEFINE L == Len(module.migrations)
            ids == [k \in 1 .. L |-> IdOf(module, module.migrations[k])]
<1>2. L \in Nat /\ DOMAIN module.migrations = 1 .. L /\ \A k \in 1 .. L : module.migrations[k] \in Name
  BY <1>1
<1>3. IdsOf(module) = ids
  BY <1>2 DEF IdsOf
<1>4. ASSUME NEW k \in 1 .. L
      PROVE  IdOf(module, module.migrations[k]) \in Id
  BY <1>1, <1>2 DEF IdOf, Id, Name
<1>5. ids \in [1 .. L -> Id]
  BY <1>4
<1>6. ids \in Seq(Id) /\ Len(ids) = L
  <2>. HIDE DEF ids, L
  <2>. QED
    BY <1>2, <1>5
<1>7. \A k \in 1 .. L : ids[k] = IdOf(module, module.migrations[k]) /\ ids[k] \in Id
  BY <1>5
<1>8. ToSet(module.migrations) = {module.migrations[k] : k \in 1 .. L}
  BY <1>2 DEF ToSet
<1>9. Ids(module) = {ids[k] : k \in 1 .. L}
  BY <1>7, <1>8 DEF Ids
<1>. QED
  BY <1>2, <1>3, <1>6, <1>7, <1>9

\* A module's own migrations never share an id.
LEMMA IdsDiffer ==
  ASSUME NEW module \in Module, IsInjective(module.migrations),
         NEW j \in 1 .. Len(module.migrations), NEW k \in 1 .. Len(module.migrations),
         IdsOf(module)[j] = IdsOf(module)[k]
  PROVE  j = k
<1>1. /\ module.name \in Id /\ module.migrations[j] \in Id /\ module.migrations[k] \in Id
      /\ DOMAIN module.migrations = 1 .. Len(module.migrations)
  BY DEF Module, Name, Id
<1>2. module.name \o module.migrations[j] = module.name \o module.migrations[k]
  BY IdsAre DEF IdOf
<1>3. module.migrations[j] = module.migrations[k]
  BY <1>1, <1>2, SameName
<1>4. QED BY <1>1, <1>3 DEF IsInjective

\* The inner loop of run_migrations, for whatever the executor has already.
LEMMA ModuleLoop ==
  ASSUME NEW module \in Module, NEW s \in Seq(Id)
  PROVE  \E f : /\ f \in [0 .. Len(module.migrations) -> Seq(Id)] /\ f[0] = s
                /\ \A k \in 1 .. Len(module.migrations) :
                     f[k] = ApplyOne(f[k - 1], IdsOf(module)[k])
                /\ RunModule(module, s) = f[Len(module.migrations)]
<1>. DEFINE L == Len(module.migrations)
            ids == IdsOf(module)
            round == [k \in 1 .. L |-> [e \in Seq(Id) |-> ApplyOne(e, ids[k])]]
            IsRun(f) == f = [k \in 0 .. L |->
              IF k = 0 THEN s ELSE ApplyOne(f[k - 1], IdOf(module, module.migrations[k]))]
<1>1. L \in Nat /\ \A k \in 1 .. L : ids[k] \in Id /\ IdOf(module, module.migrations[k]) = ids[k]
  BY IdsAre
<1>2. \A k \in 1 .. L, e \in Seq(Id) : ApplyOne(e, ids[k]) \in Seq(Id)
  <2>. HIDE DEF ids
  <2>. QED
    BY <1>1 DEF ApplyOne
<1>3. IsRound(round, L, Seq(Id))
  BY <1>2 DEF IsRound
<1>4. PICK f : IsLoop(f, L, Seq(Id), s, round)
  <2>. HIDE DEF round, L
  <2>. QED
    BY <1>1, <1>3, LoopExists
<1>5. f \in [0 .. L -> Seq(Id)] /\ f[0] = s
  BY <1>4 DEF IsLoop
<1>6. ASSUME NEW k \in 1 .. L
      PROVE  f[k] = ApplyOne(f[k - 1], ids[k])
  <2>1. f[k - 1] \in Seq(Id)
    <3>1. k - 1 \in 0 .. L
      BY <1>1
    <3>. HIDE DEF L
    <3>. QED
      BY <1>5, <3>1
  <2>2. \A e \in Seq(Id) : round[k][e] = ApplyOne(e, ids[k])
    OBVIOUS
  <2>3. f[k] = round[k][f[k - 1]]
    BY <1>4 DEF IsLoop
  <2>. HIDE DEF round
  <2>. QED
    BY <2>1, <2>2, <2>3
<1>7. IsRun(f)
  <2>1. \A k \in 0 .. L : k # 0 => k \in 1 .. L
    BY <1>1
  <2>. HIDE DEF L, ids
  <2>. QED
    BY <1>1, <1>5, <1>6, <2>1
<1>8. ASSUME NEW g, IsRun(g)
      PROVE  g = f
  <2>. DEFINE T == {k \in 0 .. L : g[k] = f[k]}
  <2>1. 0 \in T
    <3>1. 0 \in 0 .. L
      BY <1>1
    <3>. HIDE DEF L
    <3>. QED
      BY <1>5, <1>8, <3>1
  <2>2. ASSUME NEW k \in 1 .. L, k - 1 \in T
        PROVE  k \in T
    <3>1. k \in 0 .. L /\ k # 0 /\ k - 1 \in 0 .. L
      BY <1>1
    <3>. HIDE DEF L
    <3>. QED
      BY <1>7, <1>8, <2>2, <3>1
  <2>. HIDE DEF T
  <2>3. 0 .. L \subseteq T
    BY <1>1, <2>1, <2>2, StepByStep
  <2>. HIDE DEF L
  <2>. QED
    BY <1>7, <1>8, <2>3 DEF T
<1>9. RunModule(module, s) = f[L]
  <2>1. RunModule(module, s) = (CHOOSE g : IsRun(g))[L]
    BY DEF RunModule
  <2>. HIDE DEF IsRun
  <2>. QED
    BY <1>7, <1>8, <2>1
<1>. QED
  BY <1>5, <1>6, <1>9

\* One id: what is there stays, and the id is there once.
LEMMA ApplyGrows ==
  ASSUME NEW e \in Seq(Id), NEW id \in Id, IsInjective(e)
  PROVE  LET f == ApplyOne(e, id) IN
         /\ f \in Seq(Id) /\ Len(e) <= Len(f) /\ \A x \in 1 .. Len(e) : f[x] = e[x]
         /\ \A x \in Len(e) + 1 .. Len(f) : f[x] = id
         /\ IsInjective(f) /\ ToSet(f) = ToSet(e) \cup {id}
<1>. PICK f : f = ApplyOne(e, id)
  OBVIOUS
<1>. SUFFICES /\ f \in Seq(Id) /\ Len(e) <= Len(f) /\ \A x \in 1 .. Len(e) : f[x] = e[x]
              /\ \A x \in Len(e) + 1 .. Len(f) : f[x] = id
              /\ IsInjective(f) /\ ToSet(f) = ToSet(e) \cup {id}
  OBVIOUS
<1>1. CASE id \in ToSet(e)
  <2>1. f = e
    BY <1>1 DEF ApplyOne
  <2>. QED
    BY <1>1, <2>1
<1>2. CASE id \notin ToSet(e)
  <2>1. f = Append(e, id)
    BY <1>2 DEF ApplyOne
  <2>2. f \in Seq(Id) /\ Len(f) = Len(e) + 1 /\ f[Len(e) + 1] = id /\ \A x \in 1 .. Len(e) : f[x] = e[x]
    BY <2>1
  <2>3. Len(e) \in Nat /\ DOMAIN e = 1 .. Len(e) /\ DOMAIN f = 1 .. Len(e) + 1
    BY <2>2
  <2>4. \A x \in 1 .. Len(e) : e[x] # id
    BY <1>2, <2>3 DEF ToSet
  <2>5. \A x \in DOMAIN f : x \in 1 .. Len(e) \/ x = Len(e) + 1
    BY <2>3
  <2>6. IsInjective(f)
    BY <2>2, <2>3, <2>4, <2>5 DEF IsInjective
  <2>7. ToSet(f) = ToSet(e) \cup {id}
    <3>1. \A y \in ToSet(f) : y \in ToSet(e) \cup {id}
      BY <2>2, <2>3, <2>5 DEF ToSet
    <3>2. \A y \in ToSet(e) \cup {id} : y \in ToSet(f)
      <4>1. \A x \in 1 .. Len(e) : x \in DOMAIN f
        BY <2>3
      <4>2. Len(e) + 1 \in DOMAIN f
        BY <2>3
      <4>. QED
        BY <2>2, <2>3, <4>1, <4>2 DEF ToSet
    <3>. QED
      BY <3>1, <3>2
  <2>8. Len(e) <= Len(f) /\ \A x \in Len(e) + 1 .. Len(f) : f[x] = id
    BY <2>2, <2>3
  <2>. QED
    BY <2>2, <2>6, <2>7, <2>8
<1>. QED
  BY <1>1, <1>2

\* What a module's run leaves: what was there, then ids of the module.
Grown(e, s, module) ==
  /\ e \in Seq(Id) /\ Len(s) <= Len(e) /\ \A x \in 1 .. Len(s) : e[x] = s[x]
  /\ \A x \in Len(s) + 1 .. Len(e) : e[x] \in Ids(module)
  /\ IsInjective(e)

\* It runs every id of the module, and none a second time.
LEMMA ModuleGrows ==
  ASSUME NEW module \in Module, NEW s \in Seq(Id), IsInjective(s)
  PROVE  /\ Grown(RunModule(module, s), s, module)
         /\ ToSet(RunModule(module, s)) = ToSet(s) \cup Ids(module)
<1>. DEFINE L == Len(module.migrations)
            ids == IdsOf(module)
<1>1. /\ L \in Nat /\ \A k \in 1 .. L : ids[k] \in Id
      /\ Ids(module) = {ids[k] : k \in 1 .. L}
  BY IdsAre
<1>2. PICK g : /\ g \in [0 .. L -> Seq(Id)] /\ g[0] = s
               /\ \A k \in 1 .. L : g[k] = ApplyOne(g[k - 1], ids[k])
               /\ RunModule(module, s) = g[L]
  BY ModuleLoop
<1>. HIDE DEF ids, L
<1>. DEFINE Done(k) == {ids[j] : j \in 1 .. k}
            T == {k \in 0 .. L : Grown(g[k], s, module) /\ ToSet(g[k]) = ToSet(s) \cup Done(k)}
<1>3. 0 \in T
  <2>1. 0 \in 0 .. L /\ Done(0) = {} /\ Len(s) \in Nat
    BY <1>1
  <2>2. Grown(s, s, module)
    BY <2>1 DEF Grown
  <2>. QED
    BY <1>2, <2>1, <2>2
<1>4. ASSUME NEW k \in 1 .. L, k - 1 \in T
      PROVE  k \in T
  <2>1. PICK e : e = g[k - 1]
    OBVIOUS
  <2>2. Grown(e, s, module) /\ ToSet(e) = ToSet(s) \cup Done(k - 1)
    BY <1>4, <2>1
  <2>3. e \in Seq(Id) /\ IsInjective(e) /\ ids[k] \in Id
    BY <1>1, <2>2 DEF Grown
  <2>4. PICK f : f = ApplyOne(e, ids[k])
    OBVIOUS
  <2>5. /\ f \in Seq(Id) /\ Len(e) <= Len(f) /\ \A x \in 1 .. Len(e) : f[x] = e[x]
        /\ \A x \in Len(e) + 1 .. Len(f) : f[x] = ids[k]
        /\ IsInjective(f) /\ ToSet(f) = ToSet(e) \cup {ids[k]}
    BY <2>3, <2>4, ApplyGrows
  <2>6. g[k] = f
    BY <1>2, <2>1, <2>4
  <2>7. ids[k] \in Ids(module)
    BY <1>1
  <2>8. Grown(f, s, module)
    <3>1. Len(s) \in Nat /\ Len(e) \in Nat /\ Len(f) \in Nat /\ Len(s) <= Len(e)
      BY <2>3, <2>5, <2>2 DEF Grown
    <3>2. \A x \in 1 .. Len(s) : f[x] = s[x]
      BY <2>2, <2>5, <3>1 DEF Grown
    <3>3. \A x \in Len(s) + 1 .. Len(f) : f[x] \in Ids(module)
      <4>1. \A x \in Len(s) + 1 .. Len(f) : x \in Len(s) + 1 .. Len(e) \/ x \in Len(e) + 1 .. Len(f)
        BY <3>1
      <4>2. \A x \in Len(s) + 1 .. Len(e) : x \in 1 .. Len(e)
        BY <3>1
      <4>. QED
        BY <2>2, <2>5, <2>7, <4>1, <4>2 DEF Grown
    <3>. QED
      BY <2>5, <3>1, <3>2, <3>3 DEF Grown
  <2>9. Done(k) = Done(k - 1) \cup {ids[k]}
    <3>1. \A j : j \in 1 .. k <=> j \in 1 .. k - 1 \/ j = k
      BY <1>1
    <3>. QED
      BY <3>1
  <2>10. k \in 0 .. L
    BY <1>1
  <2>. HIDE DEF Done
  <2>. QED
    BY <2>2, <2>5, <2>6, <2>8, <2>9, <2>10
<1>5. L \in T
  <2>. HIDE DEF T
  <2>1. 0 .. L \subseteq T
    BY <1>1, <1>3, <1>4, StepByStep
  <2>. QED
    BY <1>1, <2>1
<1>. QED
  BY <1>1, <1>2, <1>5

\* It appends the migrations of a module that is not there yet, in their order.
LEMMA ModuleRuns ==
  ASSUME NEW module \in Module, IsInjective(module.migrations),
         NEW s \in Seq(Id), \A x \in DOMAIN s : s[x] \notin Ids(module)
  PROVE  RunModule(module, s) = s \o IdsOf(module)
<1>. DEFINE L == Len(module.migrations)
            ids == IdsOf(module)
<1>1. L \in Nat /\ ids \in Seq(Id) /\ Len(ids) = L /\ \A k \in 1 .. L : ids[k] \in Id
  BY IdsAre
<1>2. \A k \in 1 .. L : ids[k] \in Ids(module)
  BY IdsAre
<1>3. PICK g : /\ g \in [0 .. L -> Seq(Id)] /\ g[0] = s
               /\ \A k \in 1 .. L : g[k] = ApplyOne(g[k - 1], ids[k])
               /\ RunModule(module, s) = g[L]
  BY ModuleLoop
<1>4. g[L] = s \o ids
  <2>. DEFINE Good(k) == /\ g[k] \in Seq(Id) /\ Len(g[k]) = Len(s) + k
                         /\ \A x \in 1 .. Len(s) : g[k][x] = s[x]
                         /\ \A j \in 1 .. k : g[k][Len(s) + j] = ids[j]
              T == {k \in 0 .. L : Good(k)}
  <2>1. 0 \in T
    <3>1. g[0] = s /\ 0 \in 0 .. L
      BY <1>1, <1>3
    <3>. QED
      BY <3>1
  <2>2. ASSUME NEW k \in 1 .. L, k - 1 \in T PROVE k \in T
    <3>. DEFINE e == g[k - 1]
    <3>1. /\ e \in Seq(Id) /\ Len(e) = Len(s) + (k - 1)
          /\ \A x \in 1 .. Len(s) : e[x] = s[x]
          /\ \A j \in 1 .. k - 1 : e[Len(s) + j] = ids[j]
      BY <2>2
    <3>2. g[k] = ApplyOne(e, ids[k])
      BY <1>3
    <3>. HIDE DEF e, ids, L
    <3>3. ids[k] \notin ToSet(e)
      <4>0. DOMAIN e = 1 .. Len(e)
        BY <3>1
      <4>. SUFFICES ASSUME NEW x \in DOMAIN e, e[x] = ids[k] PROVE FALSE
        BY DEF ToSet
      <4>1. CASE x \in 1 .. Len(s)
        <5>1. e[x] \in Ids(module) /\ e[x] \notin Ids(module)
          BY <1>2, <3>1, <4>1
        <5>. QED
          BY <5>1
      <4>2. CASE x \notin 1 .. Len(s)
        <5>1. PICK j \in 1 .. k - 1 : x = Len(s) + j
          <6>1. x - Len(s) \in 1 .. k - 1 /\ x = Len(s) + (x - Len(s))
            BY <3>1, <4>2
          <6>. QED
            BY <6>1
        <5>2. ids[j] = ids[k] /\ j \in 1 .. L /\ j # k
          BY <1>1, <3>1, <5>1
        <5>. QED
          BY <5>2, IdsDiffer DEF ids, L
      <4>. QED
        BY <4>1, <4>2
    <3>4. g[k] = Append(e, ids[k]) /\ ids[k] \in Id
      BY <1>1, <3>2, <3>3 DEF ApplyOne
    <3>5. /\ g[k] \in Seq(Id) /\ Len(g[k]) = Len(s) + k
          /\ g[k][Len(s) + k] = ids[k]
          /\ \A x \in 1 .. Len(e) : g[k][x] = e[x]
      BY <1>1, <3>1, <3>4
    <3>6. \A x \in 1 .. Len(s) : g[k][x] = s[x]
      BY <1>1, <3>1, <3>5
    <3>7. ASSUME NEW j \in 1 .. k PROVE g[k][Len(s) + j] = ids[j]
      <4>1. CASE j = k
        BY <3>5, <4>1
      <4>2. CASE j # k
        <5>1. j \in 1 .. k - 1 /\ Len(s) + j \in 1 .. Len(e)
          BY <1>1, <3>1, <4>2
        <5>. QED
          BY <3>1, <3>5, <5>1
      <4>. QED
        BY <4>1, <4>2
    <3>8. k \in 0 .. L
      BY <1>1
    <3>. QED
      BY <3>5, <3>6, <3>7, <3>8
  <2>3. L \in T
    <3>. HIDE DEF T, L
    <3>1. 0 .. L \subseteq T
      BY <1>1, <2>1, <2>2, StepByStep
    <3>. QED
      BY <1>1, <3>1
  <2>4. Good(L)
    BY <2>3
  <2>. HIDE DEF ids, L
  <2>5. s \o ids \in Seq(Id) /\ Len(s \o ids) = Len(s) + L
    BY <1>1, ConcatProperties
  <2>6. ASSUME NEW x \in 1 .. Len(s) + L PROVE g[L][x] = (s \o ids)[x]
    <3>1. CASE x \in 1 .. Len(s)
      BY <1>1, <2>4, <3>1
    <3>2. CASE x \notin 1 .. Len(s)
      <4>1. x - Len(s) \in 1 .. L /\ x = Len(s) + (x - Len(s))
        BY <1>1, <3>2
      <4>2. g[L][x] = ids[x - Len(s)]
        BY <2>4, <4>1
      <4>3. (s \o ids)[x] = ids[x - Len(s)]
        BY <1>1, <3>2, <4>1
      <4>. QED
        BY <4>2, <4>3
    <3>. QED
      BY <3>1, <3>2
  <2>7. g[L] \in Seq(Id) /\ Len(g[L]) = Len(s \o ids)
    BY <2>4, <2>5
  <2>8. \A x \in 1 .. Len(g[L]) : g[L][x] = (s \o ids)[x]
    BY <2>4, <2>6
  <2>. QED
    BY <2>5, <2>7, <2>8, SeqEqual
<1>. QED
  BY <1>3, <1>4

\* The outer loop, from what an executor has already.
LEMMA RegistryLoop ==
  ASSUME NEW modules \in Seq(Module), NEW s \in Seq(Id)
  PROVE  \E f : /\ f \in [0 .. Len(modules) -> Seq(Id)] /\ f[0] = s
                /\ \A k \in 1 .. Len(modules) :
                     f[k] = RunModule(modules[k], f[k - 1])
                /\ RunMigrations(modules, s) = f[Len(modules)]
<1>. DEFINE L == Len(modules)
            round == [k \in 1 .. L |-> [e \in Seq(Id) |-> RunModule(modules[k], e)]]
            IsRun(f) == f = [k \in 0 .. L |->
              IF k = 0 THEN s ELSE RunModule(modules[k], f[k - 1])]
<1>1. L \in Nat /\ \A k \in 1 .. L : modules[k] \in Module
  OBVIOUS
<1>2. ASSUME NEW k \in 1 .. L, NEW e \in Seq(Id)
      PROVE  RunModule(modules[k], e) \in Seq(Id)
  <2>1. PICK module \in Module : module = modules[k]
    BY <1>1
  <2>2. PICK f : /\ f \in [0 .. Len(module.migrations) -> Seq(Id)]
                 /\ RunModule(module, e) = f[Len(module.migrations)]
    BY ModuleLoop
  <2>. DEFINE n == Len(module.migrations)
              S == Seq(Id)
  <2>3. n \in 0 .. n
    BY IdsAre
  <2>4. f \in [0 .. n -> S] /\ RunModule(module, e) = f[n]
    BY <2>2
  <2>5. RunModule(module, e) \in S
    <3>. HIDE DEF n, S
    <3>. QED
      BY <2>3, <2>4, Zenon
  <2>. QED
    BY <2>1, <2>5
<1>3. IsRound(round, L, Seq(Id))
  BY <1>2 DEF IsRound
<1>4. PICK f : IsLoop(f, L, Seq(Id), s, round)
  <2>. HIDE DEF round, L
  <2>. QED
    BY <1>1, <1>3, LoopExists
<1>5. f \in [0 .. L -> Seq(Id)] /\ f[0] = s
  BY <1>4 DEF IsLoop
<1>6. ASSUME NEW k \in 1 .. L
      PROVE  f[k] = RunModule(modules[k], f[k - 1])
  <2>1. f[k - 1] \in Seq(Id)
    <3>1. k - 1 \in 0 .. L
      BY <1>1
    <3>. HIDE DEF L
    <3>. QED
      BY <1>5, <3>1
  <2>2. \A e \in Seq(Id) : round[k][e] = RunModule(modules[k], e)
    OBVIOUS
  <2>3. f[k] = round[k][f[k - 1]]
    BY <1>4 DEF IsLoop
  <2>. HIDE DEF round
  <2>. QED
    BY <2>1, <2>2, <2>3
<1>7. IsRun(f)
  <2>1. \A k \in 0 .. L : k # 0 => k \in 1 .. L
    BY <1>1
  <2>. HIDE DEF L
  <2>. QED
    BY <1>1, <1>5, <1>6, <2>1
<1>8. ASSUME NEW g, IsRun(g)
      PROVE  g = f
  <2>. DEFINE T == {k \in 0 .. L : g[k] = f[k]}
  <2>1. 0 \in T
    <3>1. 0 \in 0 .. L
      BY <1>1
    <3>. HIDE DEF L
    <3>. QED
      BY <1>5, <1>8, <3>1
  <2>2. ASSUME NEW k \in 1 .. L, k - 1 \in T
        PROVE  k \in T
    <3>1. k \in 0 .. L /\ k # 0 /\ k - 1 \in 0 .. L
      BY <1>1
    <3>. HIDE DEF L
    <3>. QED
      BY <1>7, <1>8, <2>2, <3>1
  <2>. HIDE DEF T
  <2>3. 0 .. L \subseteq T
    BY <1>1, <2>1, <2>2, StepByStep
  <2>. HIDE DEF L
  <2>. QED
    BY <1>7, <1>8, <2>3 DEF T
<1>9. RunMigrations(modules, s) = f[L]
  <2>1. RunMigrations(modules, s) = (CHOOSE g : IsRun(g))[L]
    BY DEF RunMigrations
  <2>. HIDE DEF IsRun
  <2>. QED
    BY <1>7, <1>8, <2>1
<1>. QED
  BY <1>5, <1>6, <1>9

\* A module's place stays when ids that are not its own are appended.
LEMMA PlaceStays ==
  ASSUME NEW module \in Module, NEW other \in Module, Ids(other) \cap Ids(module) = {},
         NEW e \in Seq(Id), NEW all, Grown(all, e, other), IsPlaced(module, e)
  PROVE  IsPlaced(module, all)
<1>1. Len(module.migrations) \in Nat /\ DOMAIN module.migrations = 1 .. Len(module.migrations)
  BY IdsAre
<1>2. /\ all \in Seq(Id) /\ Len(e) \in Nat /\ Len(all) \in Nat /\ Len(e) <= Len(all)
      /\ DOMAIN e = 1 .. Len(e) /\ DOMAIN all = 1 .. Len(all)
      /\ \A x \in 1 .. Len(e) : all[x] = e[x]
  BY DEF Grown
<1>3. \A x \in DOMAIN all : x \notin 1 .. Len(e) => all[x] \notin Ids(module)
  <2>1. \A x \in DOMAIN all : x \notin 1 .. Len(e) => x \in Len(e) + 1 .. Len(all)
    BY <1>2
  <2>. QED
    BY <2>1 DEF Grown
<1>4. \A x \in DOMAIN e : x \in DOMAIN all
  BY <1>2
<1>5. {x \in DOMAIN all : all[x] \in Ids(module)} = {x \in DOMAIN e : e[x] \in Ids(module)}
  BY <1>2, <1>3, <1>4
<1>6. PICK before \in 0 .. Len(e) :
        /\ {x \in DOMAIN e : e[x] \in Ids(module)} = before + 1 .. before + Len(module.migrations)
        /\ \A k \in DOMAIN module.migrations : e[before + k] = IdOf(module, module.migrations[k])
  BY DEF IsPlaced
<1>7. before \in 0 .. Len(all)
  BY <1>2
<1>8. \A k \in DOMAIN module.migrations : all[before + k] = IdOf(module, module.migrations[k])
  <2>1. \A k \in DOMAIN module.migrations : before + k \in before + 1 .. before + Len(module.migrations)
    BY <1>1
  <2>2. \A k \in DOMAIN module.migrations : before + k \in DOMAIN e
    BY <1>6, <2>1
  <2>. QED
    BY <1>2, <1>6, <2>2
<1>. QED
  BY <1>5, <1>6, <1>7, <1>8 DEF IsPlaced

\* A module that was not there has its place when it is appended.
LEMMA PlaceTaken ==
  ASSUME NEW module \in Module, NEW e \in Seq(Id), \A x \in DOMAIN e : e[x] \notin Ids(module)
  PROVE  IsPlaced(module, e \o IdsOf(module))
<1>. DEFINE all == e \o IdsOf(module)
            L == Len(module.migrations)
<1>1. /\ L \in Nat /\ IdsOf(module) \in Seq(Id) /\ Len(IdsOf(module)) = L
      /\ DOMAIN module.migrations = 1 .. L
      /\ \A k \in 1 .. L : IdsOf(module)[k] = IdOf(module, module.migrations[k])
      /\ Ids(module) = {IdsOf(module)[k] : k \in 1 .. L}
  BY IdsAre
<1>2. all \in Seq(Id) /\ Len(all) = Len(e) + L /\ DOMAIN all = 1 .. Len(e) + L
  <2>1. \A t \in Seq(Id) : e \o t \in Seq(Id) /\ Len(e \o t) = Len(e) + Len(t)
    BY ConcatProperties
  <2>2. all \in Seq(Id) /\ Len(all) = Len(e) + L
    BY <1>1, <2>1
  <2>. HIDE DEF all, L
  <2>. QED
    BY <2>2
<1>3. /\ Len(e) \in Nat /\ DOMAIN e = 1 .. Len(e)
      /\ \A x \in 1 .. Len(e) : all[x] = e[x]
  BY <1>1
<1>4. ASSUME NEW k \in 1 .. L
      PROVE  all[Len(e) + k] = IdsOf(module)[k]
  <2>1. Len(e) + k \in 1 .. Len(e) + L /\ Len(e) + k > Len(e) /\ (Len(e) + k) - Len(e) = k
    BY <1>1, <1>3
  <2>. QED
    BY <1>1, <1>3, <2>1
<1>. HIDE DEF all, L
<1>5. ASSUME NEW x \in DOMAIN all
      PROVE  all[x] \in Ids(module) <=> x \in Len(e) + 1 .. Len(e) + L
  <2>1. CASE x \in 1 .. Len(e)
    BY <1>1, <1>3, <2>1
  <2>2. CASE x \notin 1 .. Len(e)
    <3>1. x - Len(e) \in 1 .. L /\ x = Len(e) + (x - Len(e)) /\ x \in Len(e) + 1 .. Len(e) + L
      BY <1>1, <1>2, <1>3, <2>2
    <3>2. all[x] = IdsOf(module)[x - Len(e)]
      BY <1>4, <3>1
    <3>. QED
      BY <1>1, <3>1, <3>2
  <2>. QED
    BY <2>1, <2>2
<1>6. {x \in DOMAIN all : all[x] \in Ids(module)} = Len(e) + 1 .. Len(e) + L
  <2>1. Len(e) + 1 .. Len(e) + L \subseteq DOMAIN all
    BY <1>1, <1>2, <1>3
  <2>. QED
    BY <1>5, <2>1
<1>7. Len(e) \in 0 .. Len(all)
  BY <1>1, <1>2, <1>3
<1>8. \A k \in DOMAIN module.migrations : all[Len(e) + k] = IdOf(module, module.migrations[k])
  BY <1>1, <1>4
<1>9. IsPlaced(module, all)
  BY <1>6, <1>7, <1>8 DEF IsPlaced, L
<1>. QED
  BY <1>9 DEF all

\* A run from nothing over modules with different names runs every id once, and
\* gives a module its place that shares no id.
LEMMA ModulesRun ==
  ASSUME NEW modules \in Seq(Module), UniqueNames(modules),
         \A i \in DOMAIN modules : IsInjective(modules[i].migrations)
  PROVE  /\ IsInjective(RunMigrations(modules, <<>>))
         /\ ToSet(RunMigrations(modules, <<>>)) = UNION {Ids(modules[i]) : i \in DOMAIN modules}
         /\ \A i \in DOMAIN modules :
              IsSeparate(modules[i], modules) => IsPlaced(modules[i], RunMigrations(modules, <<>>))
<1>. DEFINE N == Len(modules)
            Upto(n) == UNION {Ids(modules[i]) : i \in 1 .. n}
            Good(e, n) == /\ e \in Seq(Id) /\ IsInjective(e) /\ ToSet(e) = Upto(n)
                          /\ \A i \in 1 .. n : IsSeparate(modules[i], modules) => IsPlaced(modules[i], e)
<1>1. N \in Nat /\ DOMAIN modules = 1 .. N /\ \A i \in 1 .. N : modules[i] \in Module
  OBVIOUS
<1>2. PICK f : /\ f \in [0 .. N -> Seq(Id)] /\ f[0] = <<>>
               /\ \A n \in 1 .. N : f[n] = RunModule(modules[n], f[n - 1])
               /\ RunMigrations(modules, <<>>) = f[N]
  <2>1. <<>> \in Seq(Id)
    OBVIOUS
  <2>. QED
    BY <2>1, RegistryLoop
<1>. DEFINE T == {n \in 0 .. N : Good(f[n], n)}
<1>3. 0 \in T
  <2>1. Good(<<>>, 0)
    <3>1. IsInjective(<<>>)
      BY DEF IsInjective
    <3>2. ToSet(<<>>) = {} /\ Upto(0) = {}
      BY DEF ToSet
    <3>. QED
      BY <3>1, <3>2
  <2>2. 0 \in 0 .. N
    BY <1>1
  <2>. HIDE DEF Good, N
  <2>. QED
    BY <1>2, <2>1, <2>2
<1>4. ASSUME NEW n \in 1 .. N, n - 1 \in T
      PROVE  n \in T
  <2>1. PICK e \in Seq(Id) : e = f[n - 1]
    BY <1>4
  <2>2. PICK m \in Module : m = modules[n]
    BY <1>1
  <2>3. Good(e, n - 1)
    BY <1>4, <2>1
  <2>4. PICK all : all = f[n]
    OBVIOUS
  <2>5. all = RunModule(m, e)
    BY <1>2, <2>1, <2>2, <2>4
  <2>6. Grown(all, e, m) /\ ToSet(all) = ToSet(e) \cup Ids(m)
    BY <2>3, <2>5, ModuleGrows
  <2>7. Upto(n) = Upto(n - 1) \cup Ids(m)
    <3>1. \A i : i \in 1 .. n <=> i \in 1 .. n - 1 \/ i = n
      BY <1>1
    <3>. QED
      BY <2>2, <3>1
  <2>8. \A i \in 1 .. n - 1 : i \in 1 .. N /\ modules[i].name # m.name /\ modules[i] \in Module
    <3>1. \A i \in 1 .. n - 1 : i \in 1 .. N /\ i # n
      BY <1>1
    <3>. QED
      BY <1>1, <2>2, <3>1 DEF UniqueNames
  <2>9. ASSUME NEW i \in 1 .. n - 1, IsSeparate(modules[i], modules)
        PROVE  IsPlaced(modules[i], all)
    <3>1. IsPlaced(modules[i], e)
      BY <2>3, <2>9
    <3>2. Ids(m) \cap Ids(modules[i]) = {}
      BY <1>1, <2>2, <2>8, <2>9 DEF IsSeparate
    <3>. QED
      BY <2>6, <2>8, <3>1, <3>2, PlaceStays
  <2>10. ASSUME IsSeparate(m, modules)
         PROVE  IsPlaced(m, all)
    <3>1. \A i \in 1 .. n - 1 : Ids(modules[i]) \cap Ids(m) = {}
      BY <1>1, <2>8, <2>10 DEF IsSeparate
    <3>2. \A x \in DOMAIN e : e[x] \in Upto(n - 1)
      BY <2>3 DEF ToSet
    <3>3. \A x \in DOMAIN e : e[x] \notin Ids(m)
      BY <3>1, <3>2
    <3>4. IsInjective(m.migrations)
      BY <1>1, <2>2
    <3>5. all = e \o IdsOf(m)
      BY <2>5, <3>3, <3>4, ModuleRuns
    <3>. QED
      BY <3>3, <3>5, PlaceTaken
  <2>11. \A i \in 1 .. n : IsSeparate(modules[i], modules) => IsPlaced(modules[i], all)
    <3>1. \A i \in 1 .. n : i = n \/ i \in 1 .. n - 1
      BY <1>1
    <3>. QED
      BY <2>2, <2>9, <2>10, <3>1
  <2>12. Good(all, n)
    <3>. HIDE DEF Upto
    <3>. QED
      BY <2>3, <2>6, <2>7, <2>11 DEF Grown
  <2>13. n \in 0 .. N
    BY <1>1
  <2>. HIDE DEF Good
  <2>. QED
    BY <2>4, <2>12, <2>13
<1>5. N \in T
  <2>. HIDE DEF T, N
  <2>1. 0 .. N \subseteq T
    BY <1>1, <1>3, <1>4, StepByStep
  <2>. QED
    BY <1>1, <2>1
<1>6. Good(f[N], N)
  BY <1>5
<1>. QED
  BY <1>1, <1>2, <1>6

\* Names that are one part, without "::", keep their modules' ids apart.
LEMMA PlainNamesSeparate ==
  ASSUME NEW modules \in Seq(Module), \A i \in DOMAIN modules : Len(modules[i].name) = 1,
         NEW i \in DOMAIN modules
  PROVE  IsSeparate(modules[i], modules)
<1>1. \A j \in DOMAIN modules : modules[j] \in Module
  OBVIOUS
<1>2. ASSUME NEW m \in Module, Len(m.name) = 1, NEW id \in Ids(m)
      PROVE  id[1] = m.name[1]
  <2>1. m.name \in Id /\ m.migrations \in Seq(Name)
    BY DEF Module, Name, Id
  <2>2. PICK k \in DOMAIN m.migrations : id = m.name \o m.migrations[k]
    BY <1>2 DEF Ids, IdOf, ToSet
  <2>3. m.migrations[k] \in Id
    BY <2>1, <2>2 DEF Name, Id
  <2>4. PICK n \in Id, a \in Id : n = m.name /\ a = m.migrations[k]
    BY <2>1, <2>3
  <2>5. (n \o a)[1] = n[1]
    <3>1. \A x \in 1 .. Len(n) : (n \o a)[x] = n[x]
      BY DEF Id
    <3>2. Len(n) = 1
      BY <1>2, <2>4
    <3>3. 1 \in 1 .. Len(n)
      BY <3>2
    <3>. QED
      BY <3>1, <3>3
  <2>. QED
    BY <2>2, <2>4, <2>5
<1>3. ASSUME NEW m \in Module, NEW o \in Module, Len(m.name) = 1, Len(o.name) = 1,
             m.name[1] = o.name[1]
      PROVE  m.name = o.name
  <2>1. m.name \in Id /\ o.name \in Id
    BY DEF Module, Name, Id
  <2>2. \A k \in 1 .. Len(m.name) : m.name[k] = o.name[k]
    BY <1>3
  <2>. QED
    BY <1>3, <2>1, <2>2, SeqEqual DEF Id
<1>4. ASSUME NEW j \in DOMAIN modules, modules[j].name # modules[i].name
      PROVE  Ids(modules[j]) \cap Ids(modules[i]) = {}
  <2>. SUFFICES ASSUME NEW id \in Ids(modules[j]), id \in Ids(modules[i]) PROVE FALSE
    OBVIOUS
  <2>1. modules[j].name[1] = modules[i].name[1]
    BY <1>1, <1>2
  <2>. QED
    BY <1>1, <1>3, <1>4, <2>1
<1>. QED
  BY <1>4 DEF IsSeparate

(***************************************************************************)
(* What serves                                                             *)
(***************************************************************************)

\* Settings without an error mount what they ask for.
LEMMA WiredAsConfigured ==
  ASSUME StartupInvariant, NEW p \in Process, At(p, "serving")
  PROVE  SurfacesAreConfigured(p)
<1> DEFINE r == process[p]
<1>1. r.env \in Environments /\ r.mounted = Mounted(r.env)
      /\ OAuthSettings(r.env) # "error" /\ PaymentProvider(r.env) # "error"
  BY DEF StartupInvariant, Sound, RunIsConfigured, RunIsWired, At, Active, Stage
<1>2. /\ r.env.oauth \in {"off", "ok", "incomplete"}
      /\ r.env.payments \in {"none", "fake", "stripe", "unknown"}
  BY <1>1 DEF Environments
<1>3. "oauth" \in r.mounted <=> r.env.oauth # "off"
  BY <1>1, <1>2 DEF Mounted, OAuthSettings
<1>4. "transactions" \in r.mounted <=> r.env.payments # "none"
  BY <1>1, <1>2 DEF Mounted, PaymentProvider
<1>5. "webhooks" \in r.mounted => r.env.payments = "stripe"
  BY <1>1, <1>2 DEF Mounted, PaymentProvider
<1>6. QED BY <1>3, <1>4, <1>5 DEF SurfacesAreConfigured

\* A process that serves has passed the check of the names: its executor has run
\* every id once, and whole each module that shares none.
LEMMA WiredAsRegistered ==
  ASSUME StartupInvariant, NEW p \in Process, At(p, "serving")
  PROVE  ModulesAreIsolated(p)
<1>. DEFINE b == process[p].build
<1>1. b \in Build /\ UniqueNames(Modules[b])
  BY DEF StartupInvariant, Sound, RunIsConfigured, RunIsWired, At, Active, Stage
<1>2. Modules[b] \in Seq(Module) /\ \A i \in DOMAIN Modules[b] : IsInjective(Modules[b][i].migrations)
  BY <1>1, ModulesAssumption
<1>. HIDE DEF b
<1>3. /\ IsInjective(RunMigrations(Modules[b], <<>>))
      /\ ToSet(RunMigrations(Modules[b], <<>>)) = UNION {Ids(Modules[b][i]) : i \in DOMAIN Modules[b]}
      /\ \A i \in DOMAIN Modules[b] :
           IsSeparate(Modules[b][i], Modules[b]) => IsPlaced(Modules[b][i], RunMigrations(Modules[b], <<>>))
  BY <1>1, <1>2, ModulesRun
<1>4. QED BY <1>3 DEF ModulesAreIsolated, Executed, b

\* Nothing half-configured serves: every id of the registered modules was run
\* exactly once, a module that shares no id with one of another name was run whole
\* and in order, and exactly the surfaces are mounted that the settings ask for.
THEOREM ServesAlwaysWhole == Spec => []ServesWhole
<1>1. StartupInvariant => ServesWhole
  BY WiredAsConfigured, WiredAsRegistered DEF ServesWhole
<1>2. QED BY <1>1, StartupIsInvariant, PTL

\* The isolation that the registry's documentation promises, under the one condition
\* it needs: where no module's name has a "::" in it, every module of a process that
\* serves was run whole and in order, however the others call their migrations.
PlainNames == \A b \in Build : \A i \in DOMAIN Modules[b] : Len(Modules[b][i].name) = 1
EveryModuleIsWhole ==
  \A p \in Process : At(p, "serving") =>
    \A i \in DOMAIN Modules[process[p].build] : IsPlaced(Modules[process[p].build][i], Executed(p))

THEOREM PlainNamesAreIsolated == ASSUME PlainNames PROVE Spec => []EveryModuleIsWhole
<1>1. ASSUME StartupInvariant, NEW p \in Process, At(p, "serving"),
             NEW i \in DOMAIN Modules[process[p].build]
      PROVE  IsPlaced(Modules[process[p].build][i], Executed(p))
  <2>. DEFINE b == process[p].build
  <2>1. b \in Build
    BY <1>1 DEF StartupInvariant, Sound, RunIsConfigured, At, Active, Stage
  <2>2. IsSeparate(Modules[b][i], Modules[b])
    BY <1>1, <2>1, ModulesAssumption, PlainNamesSeparate DEF PlainNames
  <2>3. ModulesAreIsolated(p)
    BY <1>1, WiredAsRegistered
  <2>. QED
    BY <1>1, <2>2, <2>3 DEF ModulesAreIsolated
<1>2. StartupInvariant => EveryModuleIsWhole
  BY <1>1 DEF EveryModuleIsWhole
<1>3. QED BY <1>2, StartupIsInvariant, PTL
=============================================================================
