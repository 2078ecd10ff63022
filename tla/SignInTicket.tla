---------------------------- MODULE SignInTicket ----------------------------
(***************************************************************************)
(* What the state value of an OAuth flow promises, however callbacks       *)
(* interleave and whatever fails: it is a ticket that is issued once, held *)
(* by one callback, and good for one session, and only after somebody      *)
(* approved the flow at the provider.  The detailed specification OAuth    *)
(* implements this one (OAuth!Tickets).                                    *)
(***************************************************************************)
CONSTANTS State, Callback, Identity, Null

VARIABLES
  ticket,     \* [State -> "unissued", "issued", "held" or "spent"]
  approver,   \* [State -> who approved the flow, or Null]
  session     \* [State -> the callbacks that opened a session with it]

tickets == <<ticket, approver, session>>

Init ==
  /\ ticket = [s \in State |-> "unissued"]
  /\ approver = [s \in State |-> Null]
  /\ session = [s \in State |-> {}]

\* (The second conjunct follows from the third; it is the cheaper one to refute.)
Moves(s, from, to) ==
  ticket[s] \in from /\ ticket'[s] = to /\ ticket' = [ticket EXCEPT ![s] = to]

Issue(s) == Moves(s, {"unissued"}, "issued") /\ UNCHANGED <<approver, session>>

Approve(s, i) ==
  /\ ticket[s] # "unissued" /\ approver[s] = Null
  /\ approver' = [approver EXCEPT ![s] = i]
  /\ UNCHANGED <<ticket, session>>

Take(s) == Moves(s, {"issued"}, "held") /\ UNCHANGED <<approver, session>>

Void(s) == Moves(s, {"issued", "held"}, "spent") /\ UNCHANGED <<approver, session>>

Use(s, c) ==
  /\ Moves(s, {"held"}, "spent")
  /\ approver[s] # Null /\ session[s] = {}
  /\ session' = [session EXCEPT ![s] = {c}]
  /\ UNCHANGED approver

Next ==
  \E s \in State :
    \/ Issue(s) \/ Take(s) \/ Void(s)
    \/ \E i \in Identity : Approve(s, i)
    \/ \E c \in Callback : Use(s, c)

Spec == Init /\ [][Next]_tickets
=============================================================================
