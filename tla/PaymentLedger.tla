--------------------------- MODULE PaymentLedger ---------------------------
(***************************************************************************)
(* What the payments storage promises, whoever calls it and whatever       *)
(* fails: a payment is created once, its status then moves only along the  *)
(* legal transitions, and each move and the line of the audit trail that   *)
(* describes it appear in one step.  The detailed specification Payments   *)
(* implements this one (Payments!Ledger).                                  *)
(***************************************************************************)
EXTENDS Sequences, PaymentStatus

CONSTANTS Payment, Reason

VARIABLES
  status,   \* [Payment -> Status \cup {Absent}]
  trail     \* [Payment -> sequence of the moves made since creation]

ledger == <<status, trail>>

Init ==
  /\ status = [p \in Payment |-> Absent]
  /\ trail = [p \in Payment |-> << >>]

Create(p) ==
  /\ status[p] = Absent
  /\ status' = [status EXCEPT ![p] = "created"]
  /\ UNCHANGED trail

Move(p, to, why) ==
  /\ CanTransition(status[p], to)
  /\ status' = [status EXCEPT ![p] = to]
  /\ trail' = [trail EXCEPT ![p] =
                 Append(@, [from |-> status[p], to |-> to, reason |-> why])]

Next ==
  \E p \in Payment :
    \/ Create(p)
    \/ \E to \in Status, why \in Reason : Move(p, to, why)

Spec == Init /\ [][Next]_ledger
=============================================================================
