-------------------------- MODULE PaymentLifecycle --------------------------
(***************************************************************************)
(* What happens to one payment once Stripe has its PaymentIntent: the      *)
(* webhooks Stripe delivers about it (WebhookHandler.process_event and its *)
(* handlers) and the refunds clients ask for (refund_payment).  Payments   *)
(* share no state, so one is enough.                                       *)
(*                                                                         *)
(* Stripe emits the events History[1], History[2], ... and delivers each   *)
(* at least once, in any order, again after a failed delivery, and may     *)
(* deliver a copy of it as well: EventOf gives the event of each delivery. *)
(* With Early, an event may overtake the commit that records the payment.  *)
(***************************************************************************)
EXTENDS Naturals, Sequences, FiniteSets

CONSTANTS
  History,        \* the types of the events Stripe emits, in order
  Delivery,       \* the deliveries of these events
  EventOf,        \* the event each delivery carries
  Refund,         \* the refund requests of clients
  RefundLimit,    \* how many of them Stripe can grant: 1 if full, more if partial
  Early,          \* TRUE if an event may arrive before the payment is recorded
  Null,
  Faults,         \* what may go wrong: "redis", "db", "stripe", "crash"
  MaxFailures     \* how many deliveries may fail

Event == DOMAIN History

HandledType == {"payment_intent.succeeded", "payment_intent.payment_failed",
                "charge.refunded"}

ASSUME HistoryAssumption == History \in Seq(HandledType \cup {"unhandled"})
ASSUME DeliveryAssumption ==
  /\ EventOf \in [Delivery -> Event]
  /\ \A e \in Event : \E d \in Delivery : EventOf[d] = e
  /\ Delivery \cap Refund = {} /\ Event \cap Refund = {}
  /\ Early \in BOOLEAN
  /\ MaxFailures \in Nat /\ RefundLimit \in Nat

Status == {"requires_payment_method", "succeeded", "failed", "refunded"}

\* The part of the row the handlers write; a message is named by its event.
Row == [status : Status, error_message : Event \cup {Null}]

ASSUME NullAssumption == Null \notin Event /\ Null \notin Row

VARIABLES
  \* PostgreSQL
  row,        \* the payment's committed row, Null before it is recorded
  audit,      \* how many payment_events each event and each refund has left
  outbox,     \* refunds with a committed payment.refunded outbox event
  \* Redis
  processed,  \* webhook:processed:{event_id}
  \* Stripe
  refunds,    \* refund requests that Stripe has carried out
  failures,   \* deliveries that failed so far
  inOrder,    \* whether it waits for an event before it sends the next, fixed
  \* the handlers
  pc,         \* where each delivery and each refund request is
  loaded,     \* the row it has read
  reply       \* what it answered

stores == <<row, audit, outbox, processed>>
vars == <<stores, refunds, failures, inOrder, pc, loaded, reply>>

Stage == {"sent", "check", "select", "call", "commit", "mark", "answered"}
Reply == {"none", "duplicate", "no_handler", "not_found", "success",
          "200", "404", "409", "503", "500"}

\* The type invariant.
TypeOK ==
  /\ row \in Row \cup {Null}
  /\ audit \in [Event \cup Refund -> Nat]
  /\ outbox \subseteq Refund
  /\ processed \subseteq Event
  /\ refunds \subseteq Refund
  /\ failures \in 0..MaxFailures
  /\ inOrder \in BOOLEAN
  /\ pc \in [Delivery \cup Refund -> Stage]
  /\ loaded \in [Delivery \cup Refund -> Row \cup {Null}]
  /\ reply \in [Delivery \cup Refund -> Reply]

Init ==
  /\ row = Null
  /\ audit = [x \in Event \cup Refund |-> 0]
  /\ outbox = {} /\ processed = {} /\ refunds = {} /\ failures = 0
  /\ inOrder \in BOOLEAN
  /\ pc = [p \in Delivery \cup Refund |-> IF p \in Delivery THEN "sent" ELSE "select"]
  /\ loaded = [p \in Delivery \cup Refund |-> Null]
  /\ reply = [p \in Delivery \cup Refund |-> "none"]

Goto(p, stage) == pc' = [pc EXCEPT ![p] = stage]

Answer(p, r) ==
  /\ Goto(p, "answered")
  /\ reply' = [reply EXCEPT ![p] = r]

\* create_payment commits the row with its PaymentIntent.
RecordPayment ==
  /\ row = Null
  /\ row' = [status |-> "requires_payment_method", error_message |-> Null]
  /\ UNCHANGED <<audit, outbox, processed, refunds, failures, inOrder, pc, loaded, reply>>

-----------------------------------------------------------------------------
\* The session's UPDATE.

\* SQLAlchemy writes the columns whose value differs from the loaded one, and
\* no others; the commit adds the audit record of source x.
Column(now, old, new) == IF new = old THEN now ELSE new

\* Seeded fault: the row is written without its audit record.
Update_NoAudit(p, new, x) ==
  /\ row' = [status |-> Column(row.status, loaded[p].status, new.status),
             error_message |-> Column(row.error_message, loaded[p].error_message,
                                      new.error_message)]
  /\ UNCHANGED audit

Update(p, new, x) ==
  /\ row' = [status |-> Column(row.status, loaded[p].status, new.status),
             error_message |-> Column(row.error_message, loaded[p].error_message,
                                      new.error_message)]
  /\ audit' = [audit EXCEPT ![x] = @ + 1]

Load(p) == loaded' = [loaded EXCEPT ![p] = row]

-----------------------------------------------------------------------------
\* Webhook deliveries.

Type(d) == History[EventOf[d]]

Due(d) ==
  /\ row # Null \/ Early
  /\ inOrder =>
       \A d2 \in Delivery : EventOf[d2] < EventOf[d] => pc[d2] = "answered"

\* verify_signature accepts what Stripe signed.
Deliver(d) ==
  /\ pc[d] = "sent"
  /\ Due(d)
  /\ Goto(d, "check")
  /\ UNCHANGED <<stores, refunds, failures, inOrder, loaded, reply>>

\* Seeded fault: a duplicate is rejected, so Stripe sends it again.
CheckDuplicate_Rejected(d) ==
  /\ pc[d] = "check"
  /\ EventOf[d] \in processed
  /\ Goto(d, "sent")
  /\ UNCHANGED <<stores, refunds, failures, inOrder, loaded, reply>>

\* is_event_processed
CheckDuplicate(d) ==
  /\ pc[d] = "check"
  /\ EventOf[d] \in processed
  /\ Answer(d, "duplicate")
  /\ UNCHANGED <<stores, refunds, failures, inOrder, loaded>>

CheckNew(d) ==
  /\ pc[d] = "check"
  /\ EventOf[d] \notin processed \/ "redis" \in Faults
  /\ Goto(d, IF Type(d) \in HandledType THEN "select" ELSE "mark")
  /\ UNCHANGED <<stores, refunds, failures, inOrder, loaded, reply>>

\* _get_payment_by_intent_id; a payment that is not there yet is no error.
SelectPayment(d) ==
  /\ pc[d] = "select"
  /\ Load(d)
  /\ Goto(d, IF row = Null THEN "mark" ELSE "commit")
  /\ UNCHANGED <<stores, refunds, failures, inOrder, reply>>

\* Seeded faults: the event type is stored as the status; a success leaves the
\* message of an earlier failure.
Handled_RawType(d) == [status |-> Type(d), error_message |-> Null]

Handled_KeepsMessage(d) ==
  [status |-> CASE Type(d) = "payment_intent.succeeded" -> "succeeded"
                [] Type(d) = "payment_intent.payment_failed" -> "failed"
                [] Type(d) = "charge.refunded" -> "refunded",
   error_message |-> IF Type(d) = "payment_intent.payment_failed"
                       THEN EventOf[d] ELSE loaded[d].error_message]

\* What the handler of the delivery's event type makes of the row it loaded.
Handled(d) ==
  [status |-> CASE Type(d) = "payment_intent.succeeded" -> "succeeded"
                [] Type(d) = "payment_intent.payment_failed" -> "failed"
                [] Type(d) = "charge.refunded" -> "refunded",
   error_message |-> IF Type(d) = "payment_intent.payment_failed"
                       THEN EventOf[d] ELSE Null]

CommitEvent(d) ==
  /\ pc[d] = "commit"
  /\ Update(d, Handled(d), EventOf[d])
  /\ Goto(d, "mark")
  /\ UNCHANGED <<outbox, processed, refunds, failures, inOrder, loaded, reply>>

\* mark_event_processed is best effort; the delivery is acknowledged anyway.
Mark(d) ==
  /\ pc[d] = "mark"
  /\ \/ processed' = processed \cup {EventOf[d]}
     \/ "redis" \in Faults /\ UNCHANGED processed
  /\ Answer(d, CASE Type(d) \notin HandledType -> "no_handler"
                 [] Type(d) \in HandledType /\ loaded[d] = Null -> "not_found"
                 [] OTHER -> "success")
  /\ UNCHANGED <<row, audit, outbox, refunds, failures, inOrder, loaded>>

\* Seeded fault: the event is marked although its handler failed.
DeliveryFails_Marked(d) ==
  /\ {"db", "crash"} \cap Faults # {}
  /\ failures < MaxFailures
  /\ failures' = failures + 1
  /\ pc[d] \in {"select", "commit"}
  /\ processed' = processed \cup {EventOf[d]}
  /\ Goto(d, "sent")
  /\ loaded' = [loaded EXCEPT ![d] = Null]
  /\ UNCHANGED <<row, audit, outbox, refunds, inOrder, reply>>

\* A statement or the commit fails and is rolled back, or the answer to the
\* commit is lost, or the process dies: Stripe sees no 200 and sends it again.
DeliveryFails(d) ==
  /\ {"db", "crash"} \cap Faults # {}
  /\ failures < MaxFailures
  /\ failures' = failures + 1
  /\ \/ pc[d] \in {"select", "commit"} /\ UNCHANGED <<row, audit, processed>>
     \/ pc[d] = "commit" /\ Update(d, Handled(d), EventOf[d]) /\ UNCHANGED processed
     \/ /\ pc[d] \in {"check", "mark"} /\ "crash" \in Faults
        /\ UNCHANGED <<row, audit>>
        /\ \/ UNCHANGED processed
           \/ pc[d] = "mark" /\ processed' = processed \cup {EventOf[d]}
  /\ Goto(d, "sent")
  /\ loaded' = [loaded EXCEPT ![d] = Null]
  /\ UNCHANGED <<outbox, refunds, inOrder, reply>>

-----------------------------------------------------------------------------
\* refund_payment

RefundSelect(r) ==
  /\ pc[r] = "select"
  /\ Load(r)
  /\ \/ row = Null /\ Answer(r, "404")
     \/ row # Null /\ row.status # "succeeded" /\ Answer(r, "409")
     \/ row # Null /\ row.status = "succeeded" /\ Goto(r, "call") /\ UNCHANGED reply
  /\ UNCHANGED <<stores, refunds, failures, inOrder>>

\* Each request has an idempotency key of its own, so Stripe takes it for a new
\* refund and grants it if the amount is still there.
Grant(r) ==
  /\ Cardinality(refunds) < RefundLimit
  /\ refunds' = refunds \cup {r}

RefundCall(r) ==
  /\ pc[r] = "call"
  /\ Grant(r)
  /\ Goto(r, "commit")
  /\ UNCHANGED <<stores, failures, inOrder, loaded, reply>>

\* create_refund is not retried: rollback, then 503 for a StripeError and 500 for
\* what _classify_error makes an AttributeError of.  The refund may have been made
\* if only the answer was lost.
RefundRaises(r) ==
  /\ pc[r] = "call"
  /\ \/ UNCHANGED refunds
     \/ "stripe" \in Faults /\ Grant(r)
  /\ Answer(r, "503") \/ Answer(r, "500")
  /\ UNCHANGED <<stores, failures, inOrder, loaded>>

RefundRow(r) == [loaded[r] EXCEPT !.status = "refunded"]

RefundCommit(r) ==
  /\ pc[r] = "commit"
  /\ Update(r, RefundRow(r), r)
  /\ outbox' = outbox \cup {r}
  /\ \/ Answer(r, "200")
     \/ "db" \in Faults /\ Answer(r, "500")   \* committed, the answer lost
  /\ UNCHANGED <<processed, refunds, failures, inOrder, loaded>>

\* Seeded fault: the client whose refund could not be committed is told that it
\* was not allowed.
RefundFails_NotAllowed(r) ==
  /\ {"db", "crash"} \cap Faults # {}
  /\ pc[r] \in {"select", "call", "commit"}
  /\ Answer(r, "409")
  /\ UNCHANGED <<stores, refunds, failures, inOrder, loaded>>

\* Another exception, or the process dies: rollback, 500 at best.
RefundFails(r) ==
  /\ {"db", "crash"} \cap Faults # {}
  /\ pc[r] \in {"select", "call", "commit"}
  /\ Answer(r, "500")
  /\ UNCHANGED <<stores, refunds, failures, inOrder, loaded>>

-----------------------------------------------------------------------------
DeliveryStep(d) ==
  \/ Deliver(d) \/ CheckDuplicate(d) \/ CheckNew(d) \/ SelectPayment(d)
  \/ CommitEvent(d) \/ Mark(d)

RefundStep(r) ==
  RefundSelect(r) \/ RefundCall(r) \/ RefundRaises(r) \/ RefundCommit(r)

Quiet == \A p \in Delivery \cup Refund : pc[p] = "answered"

Terminating == Quiet /\ row # Null /\ UNCHANGED vars

Next ==
  \/ RecordPayment
  \/ \E d \in Delivery : DeliveryStep(d) \/ DeliveryFails(d)
  \/ \E r \in Refund : RefundStep(r) \/ RefundFails(r)
  \/ Terminating

Spec == Init /\ [][Next]_vars

\* Stripe goes on delivering what was not acknowledged, handlers are resumed,
\* and create_payment commits.
FairSpec ==
  /\ Spec
  /\ WF_vars(RecordPayment)
  /\ \A d \in Delivery : WF_vars(DeliveryStep(d))
  /\ \A r \in Refund : WF_vars(RefundStep(r))

-----------------------------------------------------------------------------
\* Properties.

EffectOf(type) ==
  CASE type = "payment_intent.succeeded" -> "succeeded"
    [] type = "payment_intent.payment_failed" -> "failed"
    [] type = "charge.refunded" -> "refunded"

\* Every status the payment takes, and every error message it shows, goes back
\* to an event or a refund in the audit trail ("Payment state changes are paired
\* with immutable event records", README.md), although handlers write only the
\* columns they believe have changed.
StatusHasCause ==
  (row # Null /\ row.status # "requires_payment_method") =>
    /\ \/ \E e \in Event : audit[e] > 0 /\ EffectOf(History[e]) = row.status
       \/ row.status = "refunded" /\ \E r \in Refund : audit[r] > 0
    /\ row.error_message # Null => audit[row.error_message] > 0

\* An event about a recorded payment that was answered 200 or marked processed
\* has been applied, whatever failed on the way: Stripe will not send it again.
AcknowledgedWasApplied ==
  ~Early =>
    \A e \in Event :
      (History[e] \in HandledType
       /\ (e \in processed \/ \E d \in Delivery : EventOf[d] = e /\ pc[d] = "answered"))
        => audit[e] > 0

\* If events come one after the other, repetitions, failures, crashes and a Redis
\* that forgets cannot make the payment differ from what Stripe last said.
LastHandled == {e \in Event : /\ History[e] \in HandledType
                              /\ \A f \in Event : f > e => History[f] \notin HandledType}

FollowsStripe ==
  (Quiet /\ inOrder /\ ~Early /\ Refund = {}) =>
    \A e \in LastHandled :
      row = [status |-> EffectOf(History[e]),
             error_message |-> IF EffectOf(History[e]) = "failed" THEN e ELSE Null]

\* The books on refunds: the audit trail and the outbox agree, they tell only
\* of refunds that Stripe made, and each once.  A refund that Stripe made and the
\* books do not show is about to be committed or was answered 500 or 503, never
\* 200; and a request refused before the call to Stripe refunded nothing.
RefundBooks ==
  \A r \in Refund :
    /\ audit[r] = IF r \in outbox THEN 1 ELSE 0
    /\ r \in outbox => r \in refunds
    /\ r \in refunds \ outbox => pc[r] = "commit" \/ reply[r] \in {"500", "503"}
    /\ reply[r] = "200" => r \in outbox
    /\ reply[r] \in {"404", "409"} => r \notin refunds

\* Every delivery is acknowledged and every refund request answered.
AllAnswered == \A p \in Delivery \cup Refund : <>(pc[p] = "answered")

\* "Raised when a refund is not allowed for the current payment state"
\* (payment_processor.py): Stripe refunds only a payment that is succeeded.
RefundsOnlySucceeded == [][refunds' # refunds => row.status = "succeeded"]_vars
=============================================================================
