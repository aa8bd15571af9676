-------------------------- MODULE PaymentRegister --------------------------
(***************************************************************************)
(* What creating payments promises, with no cache, lock, transaction or    *)
(* Stripe call in sight: a register that holds at most one payment per     *)
(* idempotency key, written once and never changed.  A request is either   *)
(* shown the payment of its key, or told that the payment it recorded was  *)
(* declined, or refused; each is answered at most once.                    *)
(***************************************************************************)
CONSTANTS Request, Key, KeyOf, Null

VARIABLES
  recorded,   \* the payment of each key: who recorded it, and its intent
  verdict,    \* what each request was told
  shown       \* the payment each request was shown

vars == <<recorded, verdict, shown>>

Asking(k) == {r \in Request : KeyOf[r] = k}

Entry(k) == [id : Asking(k), intent : Asking(k) \cup {Null}]

Init ==
  /\ recorded = [k \in Key |-> Null]
  /\ verdict = [r \in Request |-> "none"]
  /\ shown = [r \in Request |-> Null]

Record(k) ==
  /\ recorded[k] = Null
  /\ \E e \in Entry(k) : recorded' = [recorded EXCEPT ![k] = e]
  /\ UNCHANGED <<verdict, shown>>

Tell(r, v) ==
  /\ verdict[r] = "none"
  /\ verdict' = [verdict EXCEPT ![r] = v]
  /\ UNCHANGED recorded

Show(r) ==
  /\ Tell(r, "payment")
  /\ recorded[KeyOf[r]] # Null
  /\ shown' = [shown EXCEPT ![r] = recorded[KeyOf[r]]]

Decline(r) ==
  /\ Tell(r, "declined")
  /\ recorded[KeyOf[r]] = [id |-> r, intent |-> Null]
  /\ UNCHANGED shown

Refuse(r) ==
  /\ Tell(r, "refused")
  /\ UNCHANGED shown

Next ==
  \/ \E k \in Key : Record(k)
  \/ \E r \in Request : Show(r) \/ Decline(r) \/ Refuse(r)

Spec == Init /\ [][Next]_vars
=============================================================================
