------------------------- MODULE MCPaymentLifecycle -------------------------
(* Instances of PaymentLifecycle for TLC. *)
EXTENDS PaymentLifecycle, TLC

CONSTANTS d1, d2, d3, d4, d5, f1, f2

\* A first attempt to pay fails, the second succeeds, the charge is refunded.
FullHistory == <<"payment_intent.payment_failed", "payment_intent.succeeded",
                 "charge.refunded">>
SuccessHistory == <<"unhandled", "payment_intent.succeeded">>

\* Which event each delivery carries, for the deliveries of the run.
Carries(map) == [d \in Delivery |-> map[d]]

FullDeliveries == Carries(d1 :> 1 @@ d2 :> 1 @@ d3 :> 2 @@ d4 :> 2 @@ d5 :> 3)
SuccessTwice == Carries(d1 :> 1 @@ d2 :> 2 @@ d3 :> 2)
=============================================================================
