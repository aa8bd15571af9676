------------------------------- MODULE MCSaga -------------------------------
(* Instances of Saga for TLC. *)
EXTENDS Saga, TLC

CONSTANTS s1, s2
=============================================================================
