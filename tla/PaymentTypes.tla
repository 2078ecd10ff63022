---------------------------- MODULE PaymentTypes ----------------------------
(***************************************************************************)
(* The values the payment modules share: ids, references and amounts.      *)
(***************************************************************************)
EXTENDS Naturals, Sequences, PaymentStatus

CONSTANTS
  Payment,        \* payment ids
  Ref,            \* provider references, one per provider intent
  Null,           \* SQL NULL, None
  Amount,         \* the amount of each payment, in minor units
  IntentAmount    \* the total of each intent; an intent may cover more than the payment

ASSUME PaymentAssumption ==
  /\ Null \notin Ref \cup Payment
  /\ Amount \in [Payment -> Nat \ {0}]
  /\ IntentAmount \in [Ref -> Nat \ {0}]
=============================================================================
