------------------------- MODULE MCPaymentCreation -------------------------
(* Instances of PaymentCreation for TLC. *)
EXTENDS PaymentCreation, TLC

CONSTANTS r1, r2, r3, k1

\* All requests repeat one request.  Requests with different keys share no
\* variable, so a second key would only multiply the states.
OneKey == [r \in Request |-> k1]

\* Repetitions of one request are interchangeable.
Repetitions == Permutations(Request)
=============================================================================
