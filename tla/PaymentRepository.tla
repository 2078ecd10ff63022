------------------------- MODULE PaymentRepository -------------------------
(***************************************************************************)
(* The tables payments.payments and payments.payment_status_history and    *)
(* the statements PgPaymentRepository runs against them.  Amounts are      *)
(* fixed per payment; timestamps and currencies are left out.              *)
(***************************************************************************)
EXTENDS Faults, PaymentTypes

\* Why a history row was written: NULL, or the text the two services pass.
Reason == {"none", "admin_refund", "provider_webhook"}

VARIABLES
  status,      \* the status column, Absent when there is no row
  reference,   \* the provider_reference column
  history      \* the rows of payment_status_history, by id

repository == <<status, reference, history>>

Entry == [from : Status \cup {Absent}, to : Status, reason : Reason]

RepositoryTypeOK ==
  /\ status \in [Payment -> Status \cup {Absent}]
  /\ reference \in [Payment -> Ref \cup {Null}]
  /\ history \in [Payment -> Seq(Entry)]

RepositoryInit ==
  /\ status = [p \in Payment |-> Absent]
  /\ reference = [p \in Payment |-> Null]
  /\ history = [p \in Payment |-> << >>]

Record(p, from, to, why) ==
  history' = [history EXCEPT ![p] =
                Append(@, [from |-> from, to |-> to, reason |-> why])]

\* The first statement of insert: the row, committed on its own.
InsertRow(p) ==
  /\ status[p] = Absent
  /\ status' = [status EXCEPT ![p] = "created"]
  /\ UNCHANGED <<reference, history>>

\* The second statement of insert: the history row of the creation.
InsertCreationRecord(p) ==
  /\ Record(p, Absent, "created", "none")
  /\ UNCHANGED <<status, reference>>

SetReference(p, r) ==
  /\ reference' = [reference EXCEPT ![p] = r]
  /\ UNCHANGED <<status, history>>

\* Mutant: the UPDATE forgets its "AND status = expected" clause.
Transition_Unguarded(p, expected, to, why) ==
  /\ status' = [status EXCEPT ![p] = to]
  /\ Record(p, expected, to, why)
  /\ UNCHANGED reference

\* Mutant: the history INSERT is left out of the transaction.
Transition_Unrecorded(p, expected, to, why) ==
  /\ status[p] = expected
  /\ status' = [status EXCEPT ![p] = to]
  /\ UNCHANGED <<reference, history>>

\* transition: UPDATE ... WHERE status = expected, and the history row, in one
\* transaction.  It trusts its caller for the legality of the move.
Transition(p, expected, to, why) ==
  /\ status[p] = expected
  /\ status' = [status EXCEPT ![p] = to]
  /\ Record(p, expected, to, why)
  /\ UNCHANGED reference

\* transition found no row in the expected status: PaymentRepositoryError::Conflict.
TransitionConflict(p, expected) ==
  /\ status[p] # expected
  /\ UNCHANGED repository

\* transition answered Backend: the transaction rolled back, or committed and
\* the acknowledgement of the commit was lost.
TransitionFails(p, expected, to, why) ==
  \/ UNCHANGED repository
  \/ Transition(p, expected, to, why)
=============================================================================
