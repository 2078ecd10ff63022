------------------------------ MODULE Checkout ------------------------------
(***************************************************************************)
(* How a payment comes to be.  The host application that takes payments is *)
(* not in the repository; the ports fix the order in which it can call     *)
(* them: insert returns the id, create_intent the reference, and           *)
(* set_provider_reference needs both.  Each await is a point where the     *)
(* request can fail or be dropped.                                         *)
(***************************************************************************)
EXTENDS PaymentRepository, PaymentProvider

VARIABLES
  checkout,    \* [Payment -> where the creating request stands]
  intentFor    \* [Payment -> the reference create_intent returned to it]

checkouts == <<checkout, intentFor>>

CheckoutTypeOK ==
  /\ checkout \in [Payment -> {"new", "inserting", "inserted", "linking", "linked", "aborted"}]
  /\ intentFor \in [Payment -> Ref \cup {Null}]

CheckoutInit ==
  /\ checkout = [p \in Payment |-> "new"]
  /\ intentFor = [p \in Payment |-> Null]

Goto(p, from, to) ==
  checkout[p] = from /\ checkout' = [checkout EXCEPT ![p] = to]

\* insert, first statement.
BeginInsert(p) ==
  /\ Goto(p, "new", "inserting")
  /\ InsertRow(p)
  /\ Works
  /\ UNCHANGED <<provider, intentFor>>

\* insert, second statement: only now does the caller learn the id.
FinishInsert(p) ==
  /\ Goto(p, "inserting", "inserted")
  /\ InsertCreationRecord(p)
  /\ Works
  /\ UNCHANGED <<provider, intentFor>>

ObtainIntent(p) ==
  /\ Goto(p, "inserted", "linking")
  /\ Works
  /\ \E r \in Ref : CreateIntent(r) /\ intentFor' = [intentFor EXCEPT ![p] = r]
  /\ UNCHANGED repository

LinkIntent(p) ==
  /\ Goto(p, "linking", "linked")
  /\ Works
  /\ SetReference(p, intentFor[p])
  /\ UNCHANGED <<provider, intentFor>>

\* A call fails or the request is dropped, before or after its effect: an intent
\* whose reference never arrived belongs to no payment.
AbortCheckout(p) ==
  /\ checkout[p] \in {"new", "inserting", "inserted", "linking"}
  /\ checkout' = [checkout EXCEPT ![p] = "aborted"]
  /\ Fails
  /\ \/ UNCHANGED <<repository, provider>>
     \/ checkout[p] = "new" /\ InsertRow(p) /\ UNCHANGED provider
     \/ checkout[p] = "inserting" /\ InsertCreationRecord(p) /\ UNCHANGED provider
     \/ checkout[p] = "inserted" /\ (\E r \in Ref : CreateIntent(r)) /\ UNCHANGED repository
     \/ checkout[p] = "linking" /\ SetReference(p, intentFor[p]) /\ UNCHANGED provider
  /\ UNCHANGED intentFor
=============================================================================
