------------------------------ MODULE Adapters ------------------------------
(***************************************************************************)
(* adapter/: how a call to a payment provider (PSP) can end, as the caller *)
(* of each adapter sees it, and how it names the state of a payment.  What *)
(* a PSP does with the call is the PSP's own.                              *)
(*                                                                         *)
(* "ok": carried out, and the caller knows.  "lost": carried out, but the  *)
(* caller gets an error.  "refused": not carried out.  "ignored": not even *)
(* tried, but the caller is told that it succeeded.                        *)
(***************************************************************************)

CONSTANT Psp    \* the adapter that the router selects

ASSUME PspAssumption == Psp \in {"mock", "stripe", "razorpay"}

\* The mock draws the outcome in the process and calls no one: nothing can get lost on the way.
MockAnswers == {"ok", "refused"}

\* The client libraries know neither the context of the request nor an idempotency key of ours, and
\* their errors stand for a refusal, a timeout and a broken connection alike.
StripeAnswers == {"ok", "lost", "refused"}
RazorpayAnswers == {"ok", "lost", "refused"}

\* CancelPayment of Razorpay returns nil without a call.
RazorpayCancels == {"ignored"}

Answers ==
    CASE Psp = "mock" -> MockAnswers
      [] Psp = "stripe" -> StripeAnswers
      [] Psp = "razorpay" -> RazorpayAnswers

CancelAnswers == IF Psp = "razorpay" THEN RazorpayCancels ELSE Answers

CarriedOut(a) == a \in {"ok", "lost"}
Succeeds(a) == a \in {"ok", "ignored"}

-----------------------------------------------------------------------------
(* GetPaymentStatus of a payment in status s. *)

\* The mock keeps no payments.
MockStatus(s) == "captured"

\* The status of the PaymentIntent, which a refund does not change.  An intent that CreatePayment made
\* has yet to be confirmed by the customer.
StripeStatus(s) ==
    CASE s \in {"created", "failed"} -> "requires_payment_method"
      [] s = "authorized" -> "requires_capture"
      [] s = "cancelled" -> "canceled"
      [] OTHER -> "succeeded"

\* The status of the payment: captured until all of it is refunded, and authorized although the service
\* shows it as cancelled.
RazorpayStatus(s) ==
    CASE s = "partially_refunded" -> "captured"
      [] s = "cancelled" -> "authorized"
      [] OTHER -> s

GetPaymentStatus(s) ==
    CASE Psp = "mock" -> MockStatus(s)
      [] Psp = "stripe" -> StripeStatus(s)
      [] Psp = "razorpay" -> RazorpayStatus(s)

\* The amount in the answer: the mock reports 0.
ReportedAmount(n) == IF Psp = "mock" THEN 0 ELSE n

\* What has become of a payment at the PSP when CreatePayment returns and the service stores
\* authorized: Stripe and Razorpay wait for the customer.
CreatedAs == IF Psp = "mock" THEN "authorized" ELSE "created"

=============================================================================
