---------------------------- MODULE AtLeastOnce ----------------------------
(***************************************************************************)
(* What the transactional outbox promises: an event is accepted by the     *)
(* queue only once it is written, and settled, so that nobody will take    *)
(* care of it any more, only once it is accepted.  Nothing is ever undone. *)
(***************************************************************************)
CONSTANT Event

VARIABLES written, accepted, settled

vars == <<written, accepted, settled>>

Init == written = {} /\ accepted = {} /\ settled = {}

Write(e) ==
  /\ e \notin written
  /\ written' = written \cup {e}
  /\ UNCHANGED <<accepted, settled>>

Accept(e) ==
  /\ e \in written
  /\ accepted' = accepted \cup {e}
  /\ UNCHANGED <<written, settled>>

Settle(es) ==
  /\ es \subseteq accepted
  /\ settled' = settled \cup es
  /\ UNCHANGED <<written, accepted>>

Next ==
  \/ \E e \in Event : Write(e) \/ Accept(e)
  \/ \E es \in SUBSET accepted : Settle(es)

Spec == Init /\ [][Next]_vars
=============================================================================
