--------------------------- MODULE MCStripeClient ---------------------------
(* Instances of StripeClient for TLC. *)
EXTENDS StripeClient, TLC

CONSTANTS c1, c2

Callers == {c1, c2}

\* Coroutines are interchangeable.
Swap == Permutations(Callers)
=============================================================================
