--------------------------- MODULE PaymentStatus ---------------------------
(***************************************************************************)
(* The payment state machine of crates/payments: the eight stored states   *)
(* and the single table of legal moves between them.                       *)
(***************************************************************************)

Status == {"created", "requires_action", "authorized", "captured",
           "partially_refunded", "refunded", "failed", "canceled"}

\* "No such payment", and the `from` of the history row that records creation.
Absent == "absent"

CanTransition(from, to) ==
  \/ from = "created" /\ to \in {"requires_action", "authorized", "failed", "canceled"}
  \/ from = "requires_action" /\ to \in {"authorized", "failed", "canceled"}
  \/ from = "authorized" /\ to \in {"captured", "failed", "canceled"}
  \/ from = "captured" /\ to \in {"partially_refunded", "refunded"}
  \/ from = "partially_refunded" /\ to \in {"partially_refunded", "refunded"}

Terminal == {s \in Status : \A t \in Status : ~CanTransition(s, t)}

\* The states PaymentsService::refund accepts.
Refundable == {"captured", "partially_refunded"}
=============================================================================
