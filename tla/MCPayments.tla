----------------------------- MODULE MCPayments -----------------------------
(***************************************************************************)
(* Small instances of Payments for TLC.                                    *)
(***************************************************************************)
EXTENDS Payments, TLC

\* Every payment is for one unit.
UnitAmount == [p \in Payment |-> 1]

\* An intent covers its payment exactly, or twice (so that an admin's "full"
\* refund is a partial one for the provider).
ExactIntent == [r \in Ref |-> 1]
DoubleIntent == [r \in Ref |-> 2]

\* The second page of one row each, of the canceled payments.
Pages == {[status |-> "canceled", created |-> Payment, limit |-> 0, offset |-> 1]}

NoPages == {}

Symmetry == Permutations(Admin) \cup Permutations(Handler)

IdSymmetry == Permutations(Payment) \cup Permutations(Ref)
=============================================================================
