------------------------------- MODULE Gateway -------------------------------
(***************************************************************************)
(* One payment from the first request to the last webhook: PaymentCreation *)
(* and PaymentLifecycle over one row of the payments table.                *)
(*                                                                         *)
(* Each of the two modules makes an assumption about the other.  Creation  *)
(* assumes that webhooks and refunds change nothing of a payment but the   *)
(* status, and only if it has an intent (LaterUpdate); the lifecycle,      *)
(* without Early, that the row is there before anything happens to it and  *)
(* is never written again by create_payment.  Here each is the other's     *)
(* environment, and the assumptions become properties.                     *)
(*                                                                         *)
(* Nobody can pay, and no client can ask for a refund, before the payment  *)
(* is known: the first to tell its intent and its id is a 201.             *)
(***************************************************************************)
EXTENDS Naturals, Sequences

CONSTANTS
  Request, TheKey, FixedMetadata,               \* see PaymentCreation
  History, Delivery, EventOf, Refund, RefundLimit, MaxFailures,
                                                \* see PaymentLifecycle
  Faults, Null

VARIABLES
  row,      \* both: the payment's committed row, by key
  message,  \* its error_message, which only the lifecycle looks at
  \* creation
  pc, entered, held, view, code, inserting, audit, outbox, cache, lock, intent,
  \* lifecycle: its audit and outbox under names of their own
  stage, loaded, reply, processed, refunds, failures, inOrder, events, notices

creation  == <<pc, entered, held, view, code, inserting, audit, outbox, cache, lock, intent>>
lifecycle == <<stage, loaded, reply, processed, refunds, failures, inOrder, events, notices>>
vars == <<row, message, creation, lifecycle>>

Event == DOMAIN History

LaterStatus == {"succeeded", "failed", "refunded"}

Creation == INSTANCE PaymentCreation WITH
  Key <- {TheKey}, KeyOf <- [r \in Request |-> TheKey],
  IntentStatus <- {"requires_payment_method"}

\* Seeded fault: a payment without an intent is found as well.
FoundByIntent_AnyRow ==
  IF row[TheKey] = Null THEN Null
  ELSE [status |-> row[TheKey].status, error_message |-> message]

\* Handlers look a payment up by its intent: they see a linked row or none.  A
\* refund looks it up by its id, which makes no difference once the payment is
\* Known: its row is linked.
FoundByIntent ==
  IF row[TheKey] = Null THEN Null
  ELSE IF row[TheKey].intent = Null THEN Null
  ELSE [status |-> row[TheKey].status, error_message |-> message]

Handlers == INSTANCE PaymentLifecycle WITH
  row <- FoundByIntent, pc <- stage, audit <- events, outbox <- notices, Early <- TRUE

Lifecycle == INSTANCE PaymentLifecycle WITH
  row <- FoundByIntent, pc <- stage, audit <- events, outbox <- notices, Early <- FALSE

\* The same assumptions as the two modules make.
ASSUME CreationAssumption ==
  /\ Null \notin Request /\ Null \notin Creation!Payment
  /\ Null \notin [id : Request, intent : Request \cup {Null}]

ASSUME LifecycleAssumption ==
  /\ History \in Seq(Handlers!HandledType \cup {"unhandled"})
  /\ EventOf \in [Delivery -> Event]
  /\ \A e \in Event : \E d \in Delivery : EventOf[d] = e
  /\ Delivery \cap Refund = {} /\ Event \cap Refund = {}
  /\ MaxFailures \in Nat /\ RefundLimit \in Nat
  /\ Null \notin Event
  /\ Null \notin [status : Creation!Status, error_message : Event \cup {Null}]

Init ==
  /\ Creation!Init
  /\ message = Null
  /\ inOrder = FALSE
  /\ Handlers!Init

-----------------------------------------------------------------------------
\* create_payment, its lock and its cache.
Create ==
  /\ \/ \E r \in Request :
          Creation!Progress(r) \/ Creation!Fail(r) \/ Creation!Crash(r)
     \/ Creation!LockExpire(TheKey) \/ Creation!CacheExpire(TheKey)
  /\ UNCHANGED <<message, lifecycle>>

\* Seeded fault: the id of the event's object is taken for the intent's.
Written_OtherIntent ==
  \/ UNCHANGED <<row, message>>
  \/ /\ FoundByIntent # Null
     /\ \E s \in LaterStatus, m \in Event \cup {Null}, q \in Request :
          /\ row' = [row EXCEPT ![TheKey].status = s, ![TheKey].intent = q]
          /\ message' = m

\* What a handler's UPDATE of a row it has found may write.
Written ==
  \/ UNCHANGED <<row, message>>
  \/ /\ FoundByIntent # Null
     /\ \E s \in Creation!Status, m \in Event \cup {Null} :
          /\ row' = [row EXCEPT ![TheKey].status = s]
          /\ message' = m

\* Seeded fault: the intent is known as soon as Stripe has it.
Known_AtOnce == intent[TheKey] # Null

\* Some client has been answered with the payment and its intent.
Known == \E r \in Request : pc[r] = "done" /\ code[r] = "201" /\ view[r].intent # Null

\* The handlers.
Handle ==
  /\ Known
  /\ Written
  /\ \/ \E d \in Delivery : Handlers!DeliveryStep(d) \/ Handlers!DeliveryFails(d)
     \/ \E r \in Refund : Handlers!RefundStep(r) \/ Handlers!RefundFails(r)
  /\ UNCHANGED creation

Terminating ==
  /\ Creation!Quiet
  /\ Handlers!Quiet \/ ~Known
  /\ UNCHANGED vars

Next == Create \/ Handle \/ Terminating

Spec == Init /\ [][Next]_vars

-----------------------------------------------------------------------------
\* Properties.

\* Whatever the handlers do, creation behaves as PaymentCreation says, so all
\* that is proved there about it holds.
ImplementsCreation == Creation!Spec

\* Whatever requests for the same payment do meanwhile or fail to do, its
\* lifecycle is that of PaymentLifecycle with the row recorded first: a
\* repetition never writes the row again, over a status that a webhook has set.
ImplementsLifecycle == Lifecycle!Spec

\* No event about a payment somebody could pay is acknowledged as not_found, and
\* no refund of it is refused with 404: an answer 201 is given after the commit,
\* and neither a failing commit nor a cached response can make it come earlier.
KnownIsFound ==
  /\ \A d \in Delivery : reply[d] # "not_found"
  /\ \A r \in Refund : reply[r] # "404"

\* A status a client is shown may be an old one, as nothing removes the cached
\* response, but it is one the payment has had: an audited event or refund
\* accounts for it.
ShownHasCause ==
  \A r \in Request :
    (code[r] = "201" /\ view[r].intent # Null /\ view[r].status # "requires_payment_method") =>
      \/ \E e \in Event : events[e] > 0 /\ Handlers!EffectOf(History[e]) = view[r].status
      \/ view[r].status = "refunded" /\ \E f \in Refund : events[f] > 0
=============================================================================
