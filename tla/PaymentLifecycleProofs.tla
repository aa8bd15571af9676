----------------------- MODULE PaymentLifecycleProofs -----------------------
(***************************************************************************)
(* What PaymentLifecycle guarantees for any history of events, any number  *)
(* of deliveries and refund requests, and any faults.                      *)
(*                                                                         *)
(* The argument: a handler that is about to commit has loaded a row        *)
(* (Loaded), and its UPDATE leaves in each column the value that was there *)
(* or the value the handler wants (UpdateWrites).  So whatever the row     *)
(* shows was written by somebody who is in the audit trail (Caused).  If   *)
(* Stripe delivers in order, all that runs at a time are deliveries of one *)
(* event (Ordered), which want the same.                                   *)
(***************************************************************************)
EXTENDS PaymentLifecycle, TLAPS

Source == Event \cup Refund
Actor  == Delivery \cup Refund

\* What the handler of an event makes of any row.
Outcome(e) ==
  [status |-> EffectOf(History[e]),
   error_message |-> IF EffectOf(History[e]) = "failed" THEN e ELSE Null]

Loaded ==
  /\ \A p \in Actor : loaded[p] # Null => row # Null
  /\ \A p \in Actor : pc[p] \in {"call", "commit"} => loaded[p] # Null
  /\ \A d \in Delivery : pc[d] \in {"select", "commit"} => Type(d) \in HandledType

Caused ==
  row # Null =>
    /\ row.status # "requires_payment_method" =>
         \/ \E e \in Event : audit[e] > 0 /\ EffectOf(History[e]) = row.status
         \/ row.status = "refunded" /\ \E r \in Refund : audit[r] > 0
    /\ row.error_message # Null => audit[row.error_message] > 0

Applied ==
  ~Early =>
    /\ \A d \in Delivery : pc[d] # "sent" => row # Null
    /\ \A d \in Delivery : (pc[d] = "mark" /\ Type(d) \in HandledType) =>
         loaded[d] # Null /\ audit[EventOf[d]] > 0
    /\ \A d \in Delivery : reply[d] # "not_found"

Booked ==
  \A r \in Refund :
    /\ pc[r] # "answered" => r \notin outbox /\ reply[r] = "none"
    /\ pc[r] = "commit" => r \in refunds
    /\ pc[r] \in {"select", "call"} => r \notin refunds

Ordered ==
  inOrder =>
    /\ \A d, d2 \in Delivery :
         (pc[d] # "sent" /\ EventOf[d2] < EventOf[d]) => pc[d2] = "answered"
    /\ \A f \in Event, d2 \in Delivery :
         (audit[f] > 0 /\ EventOf[d2] < f) => pc[d2] = "answered"

Latest(e) ==
  /\ History[e] \in HandledType /\ audit[e] > 0
  /\ \A f \in Event : (f > e /\ History[f] \in HandledType) => audit[f] = 0

Followed ==
  (inOrder /\ Refund = {}) =>
    /\ \A d \in Delivery : pc[d] = "commit" => loaded[d] = row \/ row = Outcome(EventOf[d])
    /\ \A e \in Event : Latest(e) => row = Outcome(e)

IInv ==
  /\ TypeOK /\ Loaded /\ Caused
  /\ Applied /\ AcknowledgedWasApplied
  /\ Booked /\ RefundBooks
  /\ Ordered /\ Followed

-----------------------------------------------------------------------------
\* What the operators yield.

\* Events are numbered.
LEMMA EventIsNat == Event \subseteq Nat
  BY HistoryAssumption DEF Event

\* What a handler makes of a row depends on the event alone, and is a row.
LEMMA HandledIsOutcome ==
  ASSUME NEW d \in Delivery, Type(d) \in HandledType
  PROVE  /\ Handled(d) = Outcome(EventOf[d])
         /\ Handled(d) \in Row
         /\ Handled(d).status = EffectOf(History[EventOf[d]])
         /\ Handled(d).error_message \in {EventOf[d], Null}
<1>0. EventOf[d] \in Event
  BY DeliveryAssumption
<1>1. CASE Type(d) = "payment_intent.succeeded"
  BY <1>0, <1>1 DEF Handled, Outcome, EffectOf, Type, Row, Status
<1>2. CASE Type(d) = "payment_intent.payment_failed"
  BY <1>0, <1>2 DEF Handled, Outcome, EffectOf, Type, Row, Status
<1>3. CASE Type(d) = "charge.refunded"
  BY <1>0, <1>3 DEF Handled, Outcome, EffectOf, Type, Row, Status
<1>. QED
  BY <1>1, <1>2, <1>3 DEF HandledType

\* An UPDATE leaves in each column what was there or what the handler wants; and
\* all that it wants, if the row is as it was loaded or is so already.
LEMMA UpdateWrites ==
  ASSUME row \in Row, NEW p \in Actor, loaded[p] \in Row, NEW new \in Row,
         NEW x \in Source, Update(p, new, x)
  PROVE  /\ row' \in Row
         /\ row'.status \in {row.status, new.status}
         /\ row'.error_message \in {row.error_message, new.error_message}
         /\ new.error_message = loaded[p].error_message =>
              row'.error_message = row.error_message
         /\ (loaded[p] = row \/ row = new) => row' = new
  BY DEF Update, Column, Row

\* The audit trail only grows.
LEMMA AuditGrows ==
  ASSUME audit \in [Source -> Nat], NEW p, NEW new, NEW x \in Source, Update(p, new, x)
  PROVE  /\ audit' \in [Source -> Nat]
         /\ audit'[x] = audit[x] + 1
         /\ \A y \in Source \ {x} : audit'[y] = audit[y]
  BY DEF Update

\* What the commit of an event's handler does to row and audit trail.
LEMMA EventCommitted ==
  ASSUME TypeOK, Loaded, NEW d \in Delivery, pc[d] = "commit",
         Update(d, Handled(d), EventOf[d])
  PROVE  LET e == EventOf[d]
         IN  /\ e \in Event /\ History[e] \in HandledType
             /\ row \in Row /\ row' \in Row
             /\ row'.status \in {row.status, EffectOf(History[e])}
             /\ row'.error_message \in {row.error_message, e, Null}
             /\ (loaded[d] = row \/ row = Outcome(e)) => row' = Outcome(e)
             /\ audit' \in [Source -> Nat] /\ audit'[e] = audit[e] + 1
             /\ \A x \in Source \ {e} : audit'[x] = audit[x]
<1>1. d \in Actor /\ EventOf[d] \in Event /\ EventOf[d] \in Source
  BY DeliveryAssumption DEF Actor, Source
<1>2. Type(d) \in HandledType /\ row \in Row /\ loaded[d] \in Row
  BY <1>1 DEF TypeOK, Loaded, Actor
<1>. QED
  BY <1>1, <1>2, HandledIsOutcome, UpdateWrites, AuditGrows DEF TypeOK, Source, Type

\* What the commit of a refund does to row and audit trail.
LEMMA RefundCommitted ==
  ASSUME TypeOK, Loaded, NEW r \in Refund, pc[r] = "commit", Update(r, RefundRow(r), r)
  PROVE  /\ row \in Row /\ row' \in Row
         /\ row'.status \in {row.status, "refunded"}
         /\ row'.error_message = row.error_message
         /\ audit' \in [Source -> Nat] /\ audit'[r] = audit[r] + 1
         /\ \A x \in Source \ {r} : audit'[x] = audit[x]
<1>1. r \in Actor /\ r \in Source
  BY DEF Actor, Source
<1>2. row \in Row /\ loaded[r] \in Row
  BY <1>1 DEF TypeOK, Loaded, Actor
<1>3. /\ RefundRow(r) \in Row /\ RefundRow(r).status = "refunded"
      /\ RefundRow(r).error_message = loaded[r].error_message
  BY <1>2 DEF RefundRow, Row, Status
<1>. QED
  BY <1>1, <1>2, <1>3, UpdateWrites, AuditGrows DEF TypeOK, Source

-----------------------------------------------------------------------------
\* The initial state.

\* The invariant holds before the first delivery.
LEMMA InvInit == Init => IInv
<1>. SUFFICES ASSUME Init PROVE IInv
  OBVIOUS
<1>1. TypeOK
  <2>1. row \in Row \cup {Null} /\ inOrder \in BOOLEAN /\ failures \in 0..MaxFailures
    BY DeliveryAssumption DEF Init
  <2>2. /\ audit \in [Event \cup Refund -> Nat]
        /\ outbox \subseteq Refund /\ processed \subseteq Event /\ refunds \subseteq Refund
    BY DEF Init
  <2>3. /\ pc \in [Delivery \cup Refund -> Stage]
        /\ loaded \in [Delivery \cup Refund -> Row \cup {Null}]
        /\ reply \in [Delivery \cup Refund -> Reply]
    BY DEF Init, Stage, Reply
  <2>. QED
    BY <2>1, <2>2, <2>3 DEF TypeOK
<1>2. Loaded /\ Caused /\ Applied
  BY DEF Init, Loaded, Caused, Applied, Actor
<1>3. AcknowledgedWasApplied
  BY DEF Init, AcknowledgedWasApplied
<1>4. Booked /\ RefundBooks
  BY DeliveryAssumption DEF Init, Booked, RefundBooks
<1>5. Ordered /\ Followed
  BY EventIsNat, DeliveryAssumption DEF Init, Ordered, Followed, Latest
<1>. QED
  BY <1>1, <1>2, <1>3, <1>4, <1>5 DEF IInv

-----------------------------------------------------------------------------
\* Types and loaded rows.

\* Every step of a delivery keeps the types.
LEMMA TypeDelivery ==
  ASSUME TypeOK, Loaded, NEW d \in Delivery, DeliveryStep(d) \/ DeliveryFails(d)
  PROVE  TypeOK'
<1>0. d \in Actor /\ EventOf[d] \in Event /\ EventOf[d] \in Source
  BY DeliveryAssumption DEF Actor, Source
<1>1. ASSUME pc[d] = "commit", Update(d, Handled(d), EventOf[d])
      PROVE  row' \in Row /\ audit' \in [Source -> Nat]
  BY <1>1, EventCommitted
<1>2. CASE Deliver(d)
  BY <1>0, <1>2 DEF TypeOK, Deliver, Goto, Stage, stores, Actor
<1>3. CASE CheckDuplicate(d)
  BY <1>0, <1>3 DEF TypeOK, CheckDuplicate, Answer, Goto, Stage, Reply, stores, Actor
<1>4. CASE CheckNew(d)
  BY <1>0, <1>4 DEF TypeOK, CheckNew, Goto, Stage, stores, Actor
<1>5. CASE SelectPayment(d)
  BY <1>0, <1>5 DEF TypeOK, SelectPayment, Load, Goto, Stage, stores, Actor
<1>6. CASE CommitEvent(d)
  BY <1>0, <1>1, <1>6 DEF TypeOK, CommitEvent, Goto, Stage, Source, Actor
<1>7. CASE Mark(d)
  <2>1. PICK a \in {"no_handler", "not_found", "success"} : Answer(d, a)
    BY <1>7 DEF Mark
  <2>. QED
    BY <1>0, <1>7, <2>1 DEF TypeOK, Mark, Answer, Goto, Stage, Reply, Actor
<1>8. CASE DeliveryFails(d)
  <2>1. failures' \in 0..MaxFailures
    BY <1>8, DeliveryAssumption DEF TypeOK, DeliveryFails
  <2>2. row' \in Row \cup {Null} /\ audit' \in [Event \cup Refund -> Nat]
    BY <1>1, <1>8 DEF TypeOK, DeliveryFails, Source
  <2>3. processed' \subseteq Event
    BY <1>0, <1>8 DEF TypeOK, DeliveryFails
  <2>. QED
    BY <1>0, <1>8, <2>1, <2>2, <2>3 DEF TypeOK, DeliveryFails, Goto, Stage, Actor
<1>. QED
  BY <1>2, <1>3, <1>4, <1>5, <1>6, <1>7, <1>8 DEF DeliveryStep

\* Every step of a refund keeps the types.
LEMMA TypeRefund ==
  ASSUME TypeOK, Loaded, NEW r \in Refund, RefundStep(r) \/ RefundFails(r)
  PROVE  TypeOK'
<1>0. r \in Actor /\ r \in Source
  BY DEF Actor, Source
<1>1. CASE RefundSelect(r)
  BY <1>0, <1>1 DEF TypeOK, RefundSelect, Load, Answer, Goto, Stage, Reply, stores, Actor
<1>2. CASE RefundCall(r)
  BY <1>0, <1>2 DEF TypeOK, RefundCall, Grant, Goto, Stage, stores, Actor
<1>3. CASE RefundRaises(r)
  BY <1>0, <1>3 DEF TypeOK, RefundRaises, Grant, Answer, Goto, Stage, Reply, stores, Actor
<1>4. CASE RefundCommit(r)
  <2>1. row' \in Row /\ audit' \in [Event \cup Refund -> Nat]
    BY <1>4, RefundCommitted DEF RefundCommit, Source
  <2>. QED
    BY <1>0, <1>4, <2>1 DEF TypeOK, RefundCommit, Answer, Goto, Stage, Reply, Actor
<1>5. CASE RefundFails(r)
  BY <1>0, <1>5 DEF TypeOK, RefundFails, Answer, Goto, Stage, Reply, stores, Actor
<1>. QED
  BY <1>1, <1>2, <1>3, <1>4, <1>5 DEF RefundStep

\* Every step keeps the types.
LEMMA TypeNext == TypeOK /\ Loaded /\ [Next]_vars => TypeOK'
<1>. SUFFICES ASSUME TypeOK, Loaded, [Next]_vars PROVE TypeOK'
  OBVIOUS
<1>1. CASE RecordPayment
  BY <1>1 DEF TypeOK, RecordPayment, Row, Status
<1>2. CASE UNCHANGED vars
  BY <1>2 DEF TypeOK, vars, stores
<1>. QED
  BY <1>1, <1>2, TypeDelivery, TypeRefund DEF Next, Terminating

\* A recorded payment stays recorded.
LEMMA RowStays ==
  ASSUME TypeOK, Loaded, [Next]_vars, row # Null
  PROVE  row' # Null
<1>1. ASSUME NEW d \in Delivery, pc[d] = "commit", Update(d, Handled(d), EventOf[d])
      PROVE  row' # Null
  BY <1>1, EventCommitted, NullAssumption
<1>2. ASSUME NEW r \in Refund, RefundCommit(r) PROVE row' # Null
  BY <1>2, RefundCommitted, NullAssumption DEF RefundCommit
<1>3. ASSUME NEW r \in Refund, RefundStep(r) \/ RefundFails(r), ~RefundCommit(r)
      PROVE  row' = row
  BY <1>3 DEF RefundStep, RefundSelect, RefundCall, RefundRaises, RefundFails, stores
<1>4. ASSUME NEW d \in Delivery, DeliveryStep(d) \/ DeliveryFails(d)
      PROVE  row' = row \/ (pc[d] = "commit" /\ Update(d, Handled(d), EventOf[d]))
  BY <1>4 DEF DeliveryStep, Deliver, CheckDuplicate, CheckNew, SelectPayment, CommitEvent,
     Mark, DeliveryFails, stores
<1>. QED
  BY <1>1, <1>2, <1>3, <1>4 DEF Next, Terminating, RecordPayment, vars, stores

\* Handlers that are about to commit have loaded a row, and it is still there.
LEMMA LoadedNext == TypeOK /\ Loaded /\ [Next]_vars => Loaded'
<1>. SUFFICES ASSUME TypeOK, Loaded, [Next]_vars PROVE Loaded'
  OBVIOUS
<1>0. row # Null => row' # Null
  BY RowStays
<1>1. ASSUME NEW d \in Delivery, DeliveryStep(d) \/ DeliveryFails(d) PROVE Loaded'
  <2>0. d \in Actor /\ d \notin Refund
    BY DeliveryAssumption DEF Actor
  <2>1. CASE Deliver(d) \/ CheckDuplicate(d) \/ CheckNew(d)
    BY <1>0, <2>0, <2>1 DEF TypeOK, Loaded, Actor, Type, Deliver, CheckDuplicate, CheckNew,
       Answer, Goto, stores
  <2>2. CASE SelectPayment(d)
    BY <1>0, <2>0, <2>2 DEF TypeOK, Loaded, Actor, Type, SelectPayment, Load, Goto, stores
  <2>3. CASE CommitEvent(d)
    BY <1>0, <2>0, <2>3 DEF TypeOK, Loaded, Actor, Type, CommitEvent, Goto
  <2>4. CASE Mark(d)
    BY <1>0, <2>0, <2>4 DEF TypeOK, Loaded, Actor, Type, Mark, Answer, Goto
  <2>5. CASE DeliveryFails(d)
    BY <1>0, <2>0, <2>5 DEF TypeOK, Loaded, Actor, Type, DeliveryFails, Goto
  <2>. QED
    BY <1>1, <2>1, <2>2, <2>3, <2>4, <2>5 DEF DeliveryStep
<1>2. ASSUME NEW r \in Refund, RefundStep(r) \/ RefundFails(r) PROVE Loaded'
  <2>0. r \in Actor /\ r \notin Delivery
    BY DeliveryAssumption DEF Actor
  <2>1. CASE RefundSelect(r)
    BY <1>0, <2>0, <2>1 DEF TypeOK, Loaded, Actor, Type, RefundSelect, Load, Answer, Goto, stores
  <2>2. CASE RefundCall(r)
    BY <1>0, <2>0, <2>2 DEF TypeOK, Loaded, Actor, Type, RefundCall, Goto, stores
  <2>3. CASE RefundRaises(r) \/ RefundCommit(r) \/ RefundFails(r)
    BY <1>0, <2>0, <2>3 DEF TypeOK, Loaded, Actor, Type, RefundRaises, RefundCommit, RefundFails,
       Answer, Goto
  <2>. QED
    BY <1>2, <2>1, <2>2, <2>3 DEF RefundStep
<1>3. CASE RecordPayment \/ UNCHANGED vars
  BY <1>0, <1>3 DEF Loaded, Actor, Type, RecordPayment, vars, stores
<1>. QED
  BY <1>1, <1>2, <1>3 DEF Next, Terminating

-----------------------------------------------------------------------------
\* What the row shows has a cause.

\* Steps that neither write the row nor the audit trail.
LEMMA QuietSteps ==
  ASSUME [Next]_vars
  PROVE  \/ UNCHANGED <<row, audit>>
         \/ RecordPayment
         \/ \E d \in Delivery : pc[d] = "commit" /\ Update(d, Handled(d), EventOf[d])
                                /\ UNCHANGED <<outbox, refunds, inOrder>>
         \/ \E r \in Refund : RefundCommit(r)
  BY DEF Next, DeliveryStep, RefundStep, Terminating, Deliver, CheckDuplicate,
     CheckNew, SelectPayment, CommitEvent, Mark, DeliveryFails, RefundSelect, RefundCall,
     RefundRaises, RefundFails, vars, stores

\* A recorded payment stays recorded, its status moves only to what an event or a
\* refund makes of it, and the audit trail forgets nothing.
LEMMA StatusMoves ==
  ASSUME TypeOK, Loaded, [Next]_vars, row # Null
  PROVE  /\ row' # Null
         /\ row'.status \in {row.status, "succeeded", "failed", "refunded"}
         /\ \A x \in Source : audit[x] > 0 => audit'[x] > 0
<1>0. row \in Row /\ Null \notin Row /\ audit \in [Source -> Nat]
  BY NullAssumption DEF TypeOK, Source
<1>1. CASE UNCHANGED <<row, audit>>
  BY <1>0, <1>1
<1>2. CASE RecordPayment
  BY <1>2 DEF RecordPayment
<1>3. ASSUME NEW d \in Delivery, pc[d] = "commit", Update(d, Handled(d), EventOf[d])
      PROVE  /\ row' # Null
             /\ row'.status \in {row.status, "succeeded", "failed", "refunded"}
             /\ \A x \in Source : audit[x] > 0 => audit'[x] > 0
  <2>1. EffectOf(History[EventOf[d]]) \in {"succeeded", "failed", "refunded"}
    <3>1. CASE History[EventOf[d]] = "payment_intent.succeeded"
      BY <3>1, Zenon DEF EffectOf
    <3>2. CASE History[EventOf[d]] = "payment_intent.payment_failed"
      BY <3>2 DEF EffectOf
    <3>3. CASE History[EventOf[d]] = "charge.refunded"
      BY <3>3 DEF EffectOf
    <3>. QED
      BY <1>3, <3>1, <3>2, <3>3, EventCommitted DEF HandledType
  <2>. QED
    BY <1>0, <1>3, <2>1, EventCommitted
<1>4. ASSUME NEW r \in Refund, RefundCommit(r)
      PROVE  /\ row' # Null
             /\ row'.status \in {row.status, "succeeded", "failed", "refunded"}
             /\ \A x \in Source : audit[x] > 0 => audit'[x] > 0
  <2>1. pc[r] = "commit" /\ Update(r, RefundRow(r), r)
    BY <1>4 DEF RefundCommit
  <2>. QED
    BY <1>0, <2>1, RefundCommitted
<1>. QED
  BY <1>1, <1>2, <1>3, <1>4, QuietSteps

\* Status and message stay caused, whichever columns a commit leaves alone.
LEMMA CausedNext == TypeOK /\ Loaded /\ Caused /\ [Next]_vars => Caused'
<1>. SUFFICES ASSUME TypeOK, Loaded, Caused, [Next]_vars PROVE Caused'
  OBVIOUS
<1>1. CASE UNCHANGED <<row, audit>>
  BY <1>1 DEF Caused
<1>2. CASE RecordPayment
  BY <1>2 DEF Caused, RecordPayment
<1>3. ASSUME NEW d \in Delivery, pc[d] = "commit", Update(d, Handled(d), EventOf[d])
      PROVE  Caused'
  <2>. DEFINE e == EventOf[d]
  <2>1. /\ e \in Event
        /\ row \in Row /\ row' \in Row
        /\ row'.status \in {row.status, EffectOf(History[e])}
        /\ row'.error_message \in {row.error_message, e, Null}
    BY <1>3, EventCommitted
  <2>2. audit'[e] > 0 /\ \A x \in Source : audit[x] > 0 => audit'[x] > 0
    BY <1>3, EventCommitted DEF TypeOK, Source
  <2>3. row.error_message \in Event \cup {Null} /\ row # Null
    BY <2>1, NullAssumption DEF Row
  <2>4. row'.error_message # Null => audit'[row'.error_message] > 0
    BY <2>1, <2>2, <2>3 DEF Caused, Source
  <2>5. row'.status # "requires_payment_method" =>
          \/ \E f \in Event : audit'[f] > 0 /\ EffectOf(History[f]) = row'.status
          \/ row'.status = "refunded" /\ \E r \in Refund : audit'[r] > 0
    BY <2>1, <2>2, <2>3 DEF Caused, Source
  <2>. QED
    BY <2>4, <2>5 DEF Caused
<1>4. ASSUME NEW r \in Refund, RefundCommit(r) PROVE Caused'
  <2>1. /\ row \in Row /\ row' \in Row
        /\ row'.status \in {row.status, "refunded"}
        /\ row'.error_message = row.error_message
    BY <1>4, RefundCommitted DEF RefundCommit
  <2>2. audit'[r] > 0 /\ \A x \in Source : audit[x] > 0 => audit'[x] > 0
    BY <1>4, RefundCommitted DEF RefundCommit, TypeOK, Source
  <2>3. row.error_message \in Event \cup {Null} /\ row # Null
    BY <2>1, NullAssumption DEF Row
  <2>. QED
    BY <2>1, <2>2, <2>3 DEF Caused, Source
<1>. QED
  BY <1>1, <1>2, <1>3, <1>4, QuietSteps

-----------------------------------------------------------------------------
\* Acknowledged events are applied.

\* An event that is answered or marked has been applied, if its row was there.
LEMMA AppliedNext ==
  TypeOK /\ Loaded /\ Applied /\ AcknowledgedWasApplied /\ [Next]_vars
    => Applied' /\ AcknowledgedWasApplied'
<1>. SUFFICES ASSUME TypeOK, Loaded, Applied, AcknowledgedWasApplied, [Next]_vars, ~Early
              PROVE  Applied' /\ AcknowledgedWasApplied'
  BY DEF Applied, AcknowledgedWasApplied
<1>0. (row # Null => row' # Null) /\ \A x \in Source : audit[x] > 0 => audit'[x] > 0
  <2>1. ASSUME NEW d \in Delivery, pc[d] = "commit", Update(d, Handled(d), EventOf[d]),
               NEW x \in Source, audit[x] > 0
        PROVE  audit'[x] > 0
    BY <2>1, EventCommitted DEF TypeOK, Source
  <2>2. ASSUME NEW r \in Refund, RefundCommit(r), NEW x \in Source, audit[x] > 0
        PROVE  audit'[x] > 0
    BY <2>2, RefundCommitted DEF RefundCommit, TypeOK, Source
  <2>. QED
    BY <2>1, <2>2, RowStays, QuietSteps DEF RecordPayment
<1>1. ASSUME NEW d \in Delivery, DeliveryStep(d) \/ DeliveryFails(d)
      PROVE  Applied' /\ AcknowledgedWasApplied'
  <2>0. /\ d \in Actor /\ d \notin Refund
        /\ \A d2 \in Delivery : EventOf[d2] \in Event
        /\ \A e \in Event : e \in Source
    BY DeliveryAssumption DEF Actor, Source
  <2>1. CASE Deliver(d)
    BY <1>0, <2>0, <2>1 DEF TypeOK, Applied, AcknowledgedWasApplied, Actor, Type, Deliver, Due,
       Goto, stores
  <2>2. CASE CheckDuplicate(d) \/ CheckNew(d)
    BY <1>0, <2>0, <2>2 DEF TypeOK, Applied, AcknowledgedWasApplied, Actor, Type, CheckDuplicate,
       CheckNew, Answer, Goto, stores
  <2>3. CASE SelectPayment(d)
    BY <1>0, <2>0, <2>3 DEF TypeOK, Applied, AcknowledgedWasApplied, Actor, Type, SelectPayment,
       Load, Goto, stores
  <2>4. CASE CommitEvent(d)
    <3>1. audit'[EventOf[d]] > 0 /\ loaded[d] # Null
      BY <2>0, <2>4, EventCommitted DEF TypeOK, Loaded, CommitEvent, Source
    <3>. QED
      BY <1>0, <2>0, <2>4, <3>1 DEF TypeOK, Applied, AcknowledgedWasApplied, Actor, Type,
         CommitEvent, Goto
  <2>5. CASE Mark(d)
    <3>1. reply'[d] # "not_found" /\ \A d2 \in Delivery : d2 # d => reply'[d2] = reply[d2]
      BY <2>0, <2>5 DEF TypeOK, Applied, Actor, Mark, Answer
    <3>2. /\ pc'[d] = "answered" /\ \A d2 \in Delivery : d2 # d => pc'[d2] = pc[d2]
          /\ processed' \subseteq processed \cup {EventOf[d]}
          /\ UNCHANGED <<row, audit, loaded>> /\ pc[d] = "mark"
      BY <2>0, <2>5 DEF TypeOK, Actor, Mark, Answer, Goto
    <3>. QED
      BY <2>0, <3>1, <3>2 DEF Applied, AcknowledgedWasApplied, Type
  <2>6. CASE DeliveryFails(d)
    BY <1>0, <2>0, <2>6 DEF TypeOK, Applied, AcknowledgedWasApplied, Actor, Type,
       DeliveryFails, Goto
  <2>. QED
    BY <1>1, <2>1, <2>2, <2>3, <2>4, <2>5, <2>6 DEF DeliveryStep
<1>2. ASSUME NEW r \in Refund, RefundStep(r) \/ RefundFails(r)
      PROVE  Applied' /\ AcknowledgedWasApplied'
  <2>1. /\ \A d \in Delivery : pc'[d] = pc[d] /\ reply'[d] = reply[d] /\ loaded'[d] = loaded[d]
        /\ processed' = processed
    BY <1>2, DeliveryAssumption DEF TypeOK, RefundStep, RefundSelect, RefundCall, RefundRaises,
       RefundCommit, RefundFails, Load, Answer, Goto, stores
  <2>. QED
    BY <1>0, <2>1, DeliveryAssumption DEF Applied, AcknowledgedWasApplied, Type, Source
<1>3. CASE RecordPayment \/ UNCHANGED vars
  BY <1>0, <1>3 DEF Applied, AcknowledgedWasApplied, Type, RecordPayment, vars, stores
<1>. QED
  BY <1>1, <1>2, <1>3 DEF Next, Terminating

-----------------------------------------------------------------------------
\* The books on refunds.

\* The steps of the deliveries leave the books as they are.
LEMMA BooksApart ==
  ASSUME TypeOK, Loaded, RecordPayment \/ (\E d \in Delivery : DeliveryStep(d) \/ DeliveryFails(d))
                         \/ UNCHANGED vars
  PROVE  /\ UNCHANGED <<outbox, refunds>>
         /\ \A r \in Refund : pc'[r] = pc[r] /\ reply'[r] = reply[r] /\ audit'[r] = audit[r]
<1>1. ASSUME NEW d \in Delivery, DeliveryStep(d) \/ DeliveryFails(d), NEW r \in Refund
      PROVE  /\ UNCHANGED <<outbox, refunds>>
             /\ pc'[r] = pc[r] /\ reply'[r] = reply[r] /\ audit'[r] = audit[r]
  <2>1. d # r /\ EventOf[d] # r /\ r \in Source
    BY DeliveryAssumption DEF Source
  <2>2. UNCHANGED audit \/ (pc[d] = "commit" /\ Update(d, Handled(d), EventOf[d]))
    BY <1>1 DEF DeliveryStep, Deliver, CheckDuplicate, CheckNew, SelectPayment, CommitEvent,
       Mark, DeliveryFails, stores
  <2>3. audit'[r] = audit[r]
    BY <2>1, <2>2, EventCommitted
  <2>. QED
    BY <1>1, <2>1, <2>3 DEF TypeOK, DeliveryStep, Deliver, CheckDuplicate, CheckNew,
       SelectPayment, CommitEvent, Mark, DeliveryFails, Answer, Goto, stores
<1>2. UNCHANGED <<outbox, refunds>>
  BY <1>1 DEF RecordPayment, vars, stores, DeliveryStep, Deliver, CheckDuplicate, CheckNew,
     SelectPayment, CommitEvent, Mark, DeliveryFails
<1>3. CASE RecordPayment \/ UNCHANGED vars
  BY <1>3 DEF RecordPayment, vars, stores
<1>. QED
  BY <1>1, <1>2, <1>3

\* Every step keeps the books.
LEMMA BookedNext ==
  TypeOK /\ Loaded /\ Booked /\ RefundBooks /\ [Next]_vars => Booked' /\ RefundBooks'
<1>. SUFFICES ASSUME TypeOK, Loaded, Booked, RefundBooks, [Next]_vars
              PROVE  Booked' /\ RefundBooks'
  OBVIOUS
<1>1. ASSUME NEW r \in Refund, RefundStep(r) \/ RefundFails(r)
      PROVE  Booked' /\ RefundBooks'
  <2>0. r \in Actor /\ r \in Source /\ \A q \in Refund : q \in Actor /\ q \in Source
    BY DEF Actor, Source
  <2>1. CASE RefundSelect(r)
    BY <2>0, <2>1 DEF TypeOK, Booked, RefundBooks, Actor, RefundSelect, Answer, Goto, stores
  <2>2. CASE RefundCall(r)
    BY <2>0, <2>2 DEF TypeOK, Booked, RefundBooks, Actor, RefundCall, Grant, Goto, stores
  <2>3. CASE RefundRaises(r)
    BY <2>0, <2>3 DEF TypeOK, Booked, RefundBooks, Actor, RefundRaises, Grant, Answer, Goto, stores
  <2>4. CASE RefundCommit(r)
    <3>1. audit'[r] = audit[r] + 1 /\ \A q \in Refund : q # r => audit'[q] = audit[q]
      BY <2>0, <2>4, RefundCommitted DEF RefundCommit
    <3>2. /\ pc[r] = "commit" /\ outbox' = outbox \cup {r} /\ UNCHANGED refunds
          /\ pc'[r] = "answered" /\ reply'[r] \in {"200", "500"}
          /\ \A q \in Refund : q # r => pc'[q] = pc[q] /\ reply'[q] = reply[q]
      BY <2>0, <2>4 DEF TypeOK, Actor, RefundCommit, Answer, Goto
    <3>. QED
      BY <3>1, <3>2 DEF TypeOK, Booked, RefundBooks
  <2>5. CASE RefundFails(r)
    BY <2>0, <2>5 DEF TypeOK, Booked, RefundBooks, Actor, RefundFails, Answer, Goto, stores
  <2>. QED
    BY <1>1, <2>1, <2>2, <2>3, <2>4, <2>5 DEF RefundStep
<1>. QED
  BY <1>1, BooksApart DEF Next, Terminating, Booked, RefundBooks

-----------------------------------------------------------------------------
\* Deliveries in order.

\* If Stripe waits, only deliveries of one event are under way at a time.
LEMMA OrderedNext == TypeOK /\ Loaded /\ Ordered /\ [Next]_vars => Ordered'
<1>. SUFFICES ASSUME TypeOK, Loaded, Ordered, [Next]_vars, inOrder'
              PROVE  Ordered'
  BY DEF Ordered
<1>0. inOrder
  BY DEF Next, DeliveryStep, RefundStep, Terminating, RecordPayment, Deliver, CheckDuplicate,
     CheckNew, SelectPayment, CommitEvent, Mark, DeliveryFails, RefundSelect, RefundCall,
     RefundRaises, RefundCommit, RefundFails, vars, stores
<1>1. ASSUME NEW d \in Delivery, DeliveryStep(d) \/ DeliveryFails(d) PROVE Ordered'
  <2>1. pc[d] # "answered" /\ \A d2 \in Delivery : d2 # d => pc'[d2] = pc[d2]
    BY <1>1 DEF TypeOK, DeliveryStep, Deliver, CheckDuplicate, CheckNew,
       SelectPayment, CommitEvent, Mark, DeliveryFails, Answer, Goto
  <2>2. \A d2 \in Delivery :
          (pc'[d] # "sent" /\ EventOf[d2] < EventOf[d]) => pc[d2] = "answered"
    BY <1>0, <1>1 DEF TypeOK, Ordered, DeliveryStep, Deliver, Due, CheckDuplicate, CheckNew,
       SelectPayment, CommitEvent, Mark, DeliveryFails, Answer, Goto
  <2>3. \A f \in Event : audit'[f] = audit[f] \/ (f = EventOf[d] /\ pc[d] = "commit")
    BY <1>1, EventCommitted DEF DeliveryStep, Deliver, CheckDuplicate, CheckNew,
       SelectPayment, CommitEvent, Mark, DeliveryFails, stores, Source
  <2>4. EventOf[d] \in Nat /\ \A d2 \in Delivery : EventOf[d2] \in Nat
    BY EventIsNat, DeliveryAssumption
  <2>5. \A d1, d2 \in Delivery :
          (pc'[d1] # "sent" /\ EventOf[d2] < EventOf[d1]) => pc'[d2] = "answered"
    BY <1>0, <2>1, <2>2, <2>4 DEF Ordered
  <2>6. \A f \in Event, d2 \in Delivery :
          (audit'[f] > 0 /\ EventOf[d2] < f) => pc'[d2] = "answered"
    BY <1>0, <2>1, <2>3, <2>4 DEF Ordered
  <2>. QED
    BY <2>5, <2>6 DEF Ordered
<1>2. ASSUME NEW r \in Refund, RefundStep(r) \/ RefundFails(r) PROVE Ordered'
  <2>0. PICK stage : pc' = [pc EXCEPT ![r] = stage]
    BY <1>2 DEF RefundStep, RefundSelect, RefundCall, RefundRaises, RefundCommit, RefundFails,
       Answer, Goto
  <2>1. \A d \in Delivery : pc'[d] = pc[d]
    BY <2>0, DeliveryAssumption DEF TypeOK
  <2>2. \A f \in Event : audit'[f] = audit[f]
    <3>1. CASE RefundCommit(r)
      BY <3>1, RefundCommitted, DeliveryAssumption DEF RefundCommit, Source
    <3>. QED
      BY <1>2, <3>1 DEF RefundStep, RefundSelect, RefundCall, RefundRaises, RefundFails, stores
  <2>. QED
    BY <1>0, <2>1, <2>2 DEF Ordered
<1>3. CASE RecordPayment \/ UNCHANGED vars
  BY <1>0, <1>3 DEF Ordered, RecordPayment, vars, stores
<1>. QED
  BY <1>1, <1>2, <1>3 DEF Next, Terminating

\* If Stripe waits and nobody refunds, the row is what the last event made of it.
LEMMA FollowedNext == TypeOK /\ Loaded /\ Ordered /\ Followed /\ [Next]_vars => Followed'
<1>. SUFFICES ASSUME TypeOK, Loaded, Ordered, Followed, [Next]_vars, inOrder', Refund = {}
              PROVE  Followed'
  BY DEF Followed
<1>0. inOrder
  BY DEF Next, DeliveryStep, RefundStep, Terminating, RecordPayment, Deliver, CheckDuplicate,
     CheckNew, SelectPayment, CommitEvent, Mark, DeliveryFails, vars, stores
<1>1. ASSUME NEW d \in Delivery, pc[d] = "commit", Update(d, Handled(d), EventOf[d]),
             \A d2 \in Delivery : d2 # d => pc'[d2] = pc[d2] /\ loaded'[d2] = loaded[d2],
             pc'[d] # "commit"
      PROVE  Followed'
  <2>1. /\ EventOf[d] \in Event /\ History[EventOf[d]] \in HandledType
        /\ row' = Outcome(EventOf[d])
        /\ audit'[EventOf[d]] > 0 /\ audit' \in [Source -> Nat]
        /\ \A f \in Event : f # EventOf[d] => audit'[f] = audit[f]
    BY <1>0, <1>1, EventCommitted DEF Followed, TypeOK, Source
  <2>2. \A d2 \in Delivery : EventOf[d2] \in Nat
    BY EventIsNat, DeliveryAssumption
  <2>3. \A d2 \in Delivery : pc[d2] = "commit" => EventOf[d2] = EventOf[d]
    BY <1>0, <1>1, <2>2 DEF Ordered
  <2>4. \A d2 \in Delivery : pc'[d2] = "commit" => row' = Outcome(EventOf[d2])
    BY <1>1, <2>1, <2>3
  <2>5. \A f \in Event : f > EventOf[d] => audit[f] = 0
    BY <1>0, <1>1, <2>2, EventIsNat DEF Ordered, TypeOK, Source
  <2>6. ASSUME NEW e \in Event, Latest(e)' PROVE e = EventOf[d]
    BY <2>1, <2>2, <2>5, <2>6, EventIsNat DEF Latest
  <2>. QED
    BY <2>1, <2>4, <2>6 DEF Followed
<1>2. ASSUME NEW d \in Delivery, DeliveryStep(d) \/ DeliveryFails(d),
             UNCHANGED <<row, audit>>
      PROVE  Followed'
  <2>1. d \in Actor /\ \A d2 \in Delivery : d2 # d => pc'[d2] = pc[d2] /\ loaded'[d2] = loaded[d2]
    BY <1>2 DEF TypeOK, Actor, DeliveryStep, Deliver, CheckDuplicate, CheckNew,
       SelectPayment, CommitEvent, Mark, DeliveryFails, Load, Answer, Goto
  <2>2. pc'[d] = "commit" => loaded'[d] = row
    BY <1>2 DEF TypeOK, DeliveryStep, Deliver, CheckDuplicate, CheckNew,
       SelectPayment, CommitEvent, Mark, DeliveryFails, Load, Answer, Goto, HandledType
  <2>. QED
    BY <1>0, <1>2, <2>1, <2>2 DEF Followed, Latest
<1>3. CASE RecordPayment
  <2>1. ASSUME NEW e \in Event, History[e] \in HandledType
        PROVE  Outcome(e) # Null
    <3>1. PICK d \in Delivery : EventOf[d] = e
      BY DeliveryAssumption
    <3>. QED
      BY <2>1, <3>1, HandledIsOutcome, NullAssumption DEF Type
  <2>. QED
    BY <1>0, <1>3, <2>1 DEF Followed, Latest, Loaded, RecordPayment, Actor
<1>4. CASE UNCHANGED vars
  BY <1>0, <1>4 DEF Followed, Latest, vars, stores
<1>5. ASSUME NEW d \in Delivery, DeliveryStep(d) \/ DeliveryFails(d)
      PROVE  Followed'
  <2>1. UNCHANGED <<row, audit>> \/
          /\ pc[d] = "commit" /\ Update(d, Handled(d), EventOf[d])
          /\ \A d2 \in Delivery : d2 # d => pc'[d2] = pc[d2] /\ loaded'[d2] = loaded[d2]
          /\ pc'[d] # "commit"
    BY <1>5 DEF TypeOK, DeliveryStep, Deliver, CheckDuplicate, CheckNew,
       SelectPayment, CommitEvent, Mark, DeliveryFails, Load, Answer, Goto, stores
  <2>. QED
    BY <1>1, <1>2, <1>5, <2>1
<1>. QED
  BY <1>3, <1>4, <1>5 DEF Next, Terminating

-----------------------------------------------------------------------------
\* The inductive invariant, and what follows from it.

\* Every step keeps the invariant.
LEMMA InvNext == IInv /\ [Next]_vars => IInv'
<1>1. Caused => StatusHasCause
  BY DEF Caused, StatusHasCause
<1>. QED
  BY TypeNext, LoadedNext, CausedNext, AppliedNext, BookedNext, OrderedNext, FollowedNext
  DEF IInv

\* The inductive invariant holds in every reachable state.
THEOREM Invariance == Spec => []IInv
  BY InvInit, InvNext, PTL DEF Spec

\* Every variable keeps its type.
THEOREM TypeCorrect == Spec => []TypeOK
<1>1. IInv => TypeOK
  BY DEF IInv
<1>. QED
  BY <1>1, Invariance, PTL

\* Every status and every message of the payment goes back to the audit trail.
THEOREM NothingWithoutCause == Spec => []StatusHasCause
<1>1. IInv => StatusHasCause
  BY DEF IInv, Caused, StatusHasCause
<1>. QED
  BY <1>1, Invariance, PTL

\* An event about a recorded payment that Stripe will not send again is applied.
THEOREM NoEventLost == Spec => []AcknowledgedWasApplied
<1>1. IInv => AcknowledgedWasApplied
  BY DEF IInv
<1>. QED
  BY <1>1, Invariance, PTL

\* Every refund on the books was made by Stripe and is there once; every refund made
\* by Stripe is on the books, about to be, or was answered with an error.
THEOREM BooksAgree == Spec => []RefundBooks
<1>1. IInv => RefundBooks
  BY DEF IInv
<1>. QED
  BY <1>1, Invariance, PTL

\* Delivered in order, the events leave the payment as the last of them says.
THEOREM LastEventCounts == Spec => []FollowsStripe
<1>1. ASSUME IInv, Quiet, inOrder, ~Early, Refund = {}, NEW e \in LastHandled
      PROVE  row = Outcome(e)
  <2>1. \A f \in Event : History[f] \in HandledType => audit[f] > 0
    BY <1>1, DeliveryAssumption DEF IInv, AcknowledgedWasApplied, Quiet
  <2>2. Latest(e)
    BY <1>1, <2>1 DEF LastHandled, Latest
  <2>. QED
    BY <1>1, <2>2 DEF IInv, Followed, LastHandled
<1>2. IInv => FollowsStripe
  BY <1>1 DEF FollowsStripe, Outcome
<1>. QED
  BY <1>2, Invariance, PTL
=============================================================================
