-------------------------- MODULE MCReconciliation --------------------------
(* Instances of Reconciliation for TLC. *)
EXTENDS Reconciliation, TLC

CONSTANTS ordinary, straddler, foreign, x1, x2

\* Day 1 lasts from second 3 to second 5.  One payment lies within it, the row
\* of another just before midnight and its intent after it, and an unlinked
\* intent in the first second of the next day.
AllEqual == [p \in Payment |-> 1]
RowTimes == ordinary :> 4 @@ straddler :> 5 @@ foreign :> 6
IntentTimes == ordinary :> 4 @@ straddler :> 7 @@ foreign :> 6
NewestFirst == straddler :> 1 @@ foreign :> 2 @@ ordinary :> 3

\* Both runs are for the same day.
SameDay == [r \in Runs |-> 1]
=============================================================================
