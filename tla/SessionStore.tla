---------------------------- MODULE SessionStore ----------------------------
(***************************************************************************)
(* The table admin_sessions, the statements PgSessionRepository runs       *)
(* against it, and the expiry rule.                                        *)
(***************************************************************************)
EXTENDS EpochTime

CONSTANTS
  Token,             \* session tokens; each stands for its CSRF token too
  Admin,             \* admin ids; the role rides along with the id
  Null,              \* no row, no token, no admin
  IdleTimeout,       \* SESSION_IDLE_TIMEOUT_SECS, in ticks
  AbsoluteTimeout    \* SESSION_ABSOLUTE_TIMEOUT_SECS, in ticks

ASSUME SessionAssumption ==
  /\ Null \notin Token \cup Admin
  /\ IdleTimeout \in Nat /\ AbsoluteTimeout \in Nat

VARIABLES
  rows,      \* [Token -> the row, or Null]
  opened,    \* history: what was inserted for a token, kept after its deletion
  lastUse    \* history: the latest instant a request used the token

sessions == <<rows, opened, lastUse>>

Row == [admin : Admin, lastSeen : Nat, expires : Nat]
NoRow == [admin |-> Null]     \* absence, written as a record so that fields compare

Opening == [admin : Admin, at : Nat, from : Token \cup {Null}]
NotOpened == [admin |-> Null, at |-> 0, from |-> Null]

StoreTypeOK ==
  /\ rows \in [Token -> Row \cup {NoRow}]
  /\ opened \in [Token -> Opening \cup {NotOpened}]
  /\ lastUse \in [Token -> Nat]

StoreInit ==
  /\ rows = [t \in Token |-> NoRow]
  /\ opened = [t \in Token |-> NotOpened]
  /\ lastUse = [t \in Token |-> 0]

\* Mutant: the absolute ceiling is forgotten.
IsExpired_IdleOnly(row, now) ==
  \/ now < row.lastSeen
  \/ now - row.lastSeen >= IdleTimeout

\* Mutant: the idle time is rounded up to whole seconds.
IsExpired_Early(row, now) ==
  \/ now >= row.expires
  \/ now < row.lastSeen
  \/ (now - row.lastSeen) + Second > IdleTimeout

\* SessionPolicy::is_expired; a row from the future counts as expired.
IsExpired(row, now) ==
  \/ now >= row.expires
  \/ now < row.lastSeen
  \/ now - row.lastSeen >= IdleTimeout

InsertSession(t, a, now, from) ==
  /\ rows' = [rows EXCEPT ![t] = [admin |-> a, lastSeen |-> Stored(now),
                                  expires |-> Stored(now + AbsoluteTimeout)]]
  /\ opened' = [opened EXCEPT ![t] = [admin |-> a, at |-> now, from |-> from]]
  /\ lastUse' = [lastUse EXCEPT ![t] = now]

DeleteSession(t) ==
  /\ rows' = [rows EXCEPT ![t] = NoRow]
  /\ UNCHANGED <<opened, lastUse>>

\* Mutant: an upsert, which brings back a row deleted since it was found.
TouchSession_Upsert(t, now) ==
  /\ rows' = [rows EXCEPT ![t] =
                [admin |-> opened[t].admin, lastSeen |-> Stored(now),
                 expires |-> Stored(opened[t].at + AbsoluteTimeout)]]
  /\ lastUse' = [lastUse EXCEPT ![t] = IF now > @ THEN now ELSE @]
  /\ UNCHANGED opened

\* UPDATE ... WHERE token: nothing happens to a row that is gone.
TouchSession(t, now) ==
  /\ rows' = IF rows[t] = NoRow THEN rows
             ELSE [rows EXCEPT ![t] = [@ EXCEPT !.lastSeen = Stored(now)]]
  /\ lastUse' = [lastUse EXCEPT ![t] = IF now > @ THEN now ELSE @]
  /\ UNCHANGED opened
=============================================================================
