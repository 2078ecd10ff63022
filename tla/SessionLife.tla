----------------------------- MODULE SessionLife -----------------------------
(***************************************************************************)
(* What server-side sessions promise, however requests interleave and      *)
(* whatever fails: a token is opened once, for one admin, and ended once;  *)
(* a request is granted an identity only from a token that is open at that *)
(* moment.  The detailed specification Sessions implements this one        *)
(* (Sessions!Life).                                                        *)
(***************************************************************************)
CONSTANTS Token, Request, Admin, Null, Unused, Ended

VARIABLES
  holder,   \* [Token -> Admin \cup {Unused, Ended}]
  grant     \* [Request -> the admin it acts for, or Null]

life == <<holder, grant>>

Init ==
  /\ holder = [t \in Token |-> Unused]
  /\ grant = [q \in Request |-> Null]

Open(t, a) == holder[t] = Unused /\ holder' = [holder EXCEPT ![t] = a]
End(t) == holder[t] \in Admin /\ holder' = [holder EXCEPT ![t] = Ended]

Grant(q, t) == holder[t] \in Admin /\ grant' = [grant EXCEPT ![q] = holder[t]]
Release(q) == grant' = [grant EXCEPT ![q] = Null]

\* A step may end a session and the request that asked for it together.
Next ==
  /\ \/ UNCHANGED holder
     \/ \E t \in Token : End(t) \/ \E a \in Admin : Open(t, a)
  /\ \/ UNCHANGED grant
     \/ \E q \in Request : Release(q) \/ \E t \in Token : Grant(q, t)

Spec == Init /\ [][Next]_life
=============================================================================
