--------------------------- MODULE PaymentStatus ---------------------------
(***************************************************************************)
(* The payment state machine: the statuses of models.PaymentStatus and the *)
(* transition table of service/statemachine.go.  A payment that has no row *)
(* yet has NoStatus, which is also the from_status "" that CreatePayment   *)
(* writes in the first audit record.                                       *)
(***************************************************************************)

NoStatus == ""

Status == {"created", "pending", "authorized", "captured",
           "partially_refunded", "refunded", "failed", "cancelled"}

\* The map the service consults; a status that is not a key allows nothing.
validTransitions ==
    [s \in Status |->
        CASE s = "created"            -> {"pending", "authorized", "failed"}
          [] s = "pending"            -> {"authorized", "captured", "failed"}
          [] s = "authorized"         -> {"captured", "cancelled", "failed"}
          [] s = "captured"           -> {"refunded", "partially_refunded"}
          [] s = "partially_refunded" -> {"refunded", "partially_refunded"}
          [] OTHER                    -> {}]

\* The error of ValidateTransition is the negation of this predicate.
ValidateTransition(from, to) == to \in validTransitions[from]

IsTerminal(s) == s \in {"failed", "cancelled", "refunded"}

=============================================================================
