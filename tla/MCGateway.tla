------------------------------ MODULE MCGateway ------------------------------
(* Instances of Gateway for TLC. *)
EXTENDS Gateway, TLC

CONSTANTS r1, r2, k1, d1, f1

PaidHistory == <<"payment_intent.succeeded">>
OneDelivery == d1 :> 1

\* Repetitions of one request are interchangeable.
Repetitions == Permutations(Request)
=============================================================================
