--------------------------- MODULE GatewayProofs ---------------------------
(***************************************************************************)
(* PaymentCreation and PaymentLifecycle are each a correct environment of  *)
(* the other, for any number of requests, events, deliveries and refunds.  *)
(*                                                                         *)
(* Each component's invariant was proved under an assumption about the     *)
(* other.  Here the two hold together (GInv), by one induction on the      *)
(* steps of both: in a state where they hold, a commit of create_payment   *)
(* is the lifecycle's RecordPayment, or nothing the handlers can find, and *)
(* a handler's UPDATE is creation's LaterUpdate; so each component makes a *)
(* step of its own, and its own invariant is kept.                         *)
(***************************************************************************)
EXTENDS Gateway, TLAPS

\* The two components with their theorems.
CP == INSTANCE PaymentRegisterProofs WITH
  Key <- {TheKey}, KeyOf <- [r \in Request |-> TheKey],
  IntentStatus <- {"requires_payment_method"}

LP == INSTANCE PaymentLifecycleProofs WITH
  row <- FoundByIntent, pc <- stage, audit <- events, outbox <- notices, Early <- FALSE

\* An audited event or refund accounts for the status.
HasCause(status) ==
  \/ \E e \in Event : events[e] > 0 /\ Handlers!EffectOf(History[e]) = status
  \/ status = "refunded" /\ \E f \in Refund : events[f] > 0

Accounted(p) ==
  (p # Null /\ p.intent # Null /\ p.status # "requires_payment_method") => HasCause(p.status)

GInv ==
  /\ CP!RInv
  /\ LP!IInv
  /\ message \in Event \cup {Null}
  /\ FoundByIntent = Null => message = Null
  /\ \A r \in Request : Accounted(view[r])
  /\ Accounted(cache[TheKey])
  /\ \A r \in Refund : reply[r] # "404"

-----------------------------------------------------------------------------
\* What the two components assume of their constants.

\* Creation's assumptions hold of the one key.
LEMMA CreationAssumed ==
  /\ [r \in Request |-> TheKey] \in [Request -> {TheKey}]
  /\ Null \notin Request /\ Null \notin CP!Payment
  /\ Null \notin [id : Request, intent : Request \cup {Null}]
  /\ {"requires_payment_method"} \subseteq CP!Status /\ LaterStatus \subseteq CP!Status
  BY CreationAssumption
  DEF CP!Payment, CP!Status, Creation!Payment, Creation!Status, LaterStatus

\* The lifecycle's assumptions, with the row recorded first.
LEMMA LifecycleAssumed ==
  /\ History \in Seq(LP!HandledType \cup {"unhandled"})
  /\ EventOf \in [Delivery -> LP!Event]
  /\ \A e \in LP!Event : \E d \in Delivery : EventOf[d] = e
  /\ Delivery \cap Refund = {} /\ LP!Event \cap Refund = {}
  /\ FALSE \in BOOLEAN /\ MaxFailures \in Nat /\ RefundLimit \in Nat
  /\ Null \notin LP!Event /\ Null \notin LP!Row
  BY LifecycleAssumption
  DEF Creation!Status, Event, LP!Event, LP!HandledType, LP!Row, LP!Status, Handlers!Event, Handlers!HandledType,
      Handlers!Row, Handlers!Status

-----------------------------------------------------------------------------
\* The steps of one component as steps of its proofs' instance.

\* create_payment in the composition is create_payment in the proofs.
LEMMA RequestStep ==
  ASSUME NEW r \in Request, Creation!Progress(r) \/ Creation!Fail(r) \/ Creation!Crash(r)
  PROVE  CP!Progress(r) \/ CP!Fail(r) \/ CP!Crash(r)
  BY DEF
      Creation!CacheHit, CP!CacheHit, Creation!CacheMiss, CP!CacheMiss,
      Creation!LookupFound, CP!LookupFound, Creation!LookupNone, CP!LookupNone,
      Creation!Fill, CP!Fill, Creation!Acquire, CP!Acquire, Creation!Conflict, CP!Conflict,
      Creation!Degrade, CP!Degrade, Creation!Insert, CP!Insert,
      Creation!InsertDuplicate, CP!InsertDuplicate, Creation!StripeReply, CP!StripeReply,
      Creation!StripeLostReply, CP!StripeLostReply, Creation!StripeRaise, CP!StripeRaise,
      Creation!Save, CP!Save, Creation!Reject, CP!Reject, Creation!Refresh, CP!Refresh,
      Creation!Store, CP!Store, Creation!ReleaseNothing, CP!ReleaseNothing,
      Creation!ReleaseGet, CP!ReleaseGet, Creation!Delete, CP!Delete, Creation!Fail, CP!Fail,
      Creation!Crash, CP!Crash, Creation!Progress, CP!Progress, Creation!Goto, CP!Goto,
      Creation!WayOut, CP!WayOut, Creation!Answer, CP!Answer, Creation!Rollback, CP!Rollback,
      Creation!WriteCache, CP!WriteCache, Creation!TakeLock, CP!TakeLock,
      Creation!KeyFree, CP!KeyFree, Creation!SameCall, CP!SameCall,
      Creation!IntentAt, CP!IntentAt, Creation!Commit, CP!Commit,
      Creation!SavedEvents, CP!SavedEvents, Creation!RejectedEvents, CP!RejectedEvents,
      Creation!OwnsLock, CP!OwnsLock, Creation!local, CP!local, Creation!db, CP!db,
      Creation!redis, CP!redis

\* So do the expiries of its lock and of its cached response.
LEMMA ExpiryStep ==
  ASSUME Creation!LockExpire(TheKey) \/ Creation!CacheExpire(TheKey)
  PROVE  CP!LockExpire(TheKey) \/ CP!CacheExpire(TheKey)
  BY DEF Creation!LockExpire, CP!LockExpire, Creation!CacheExpire, CP!CacheExpire,
      Creation!local, CP!local, Creation!db, CP!db

\* A handler that finds the payment recorded runs as if events were never early.
LEMMA HandlerStep ==
  ASSUME FoundByIntent # Null,
         \/ \E d \in Delivery : Handlers!DeliveryStep(d) \/ Handlers!DeliveryFails(d)
         \/ \E r \in Refund : Handlers!RefundStep(r) \/ Handlers!RefundFails(r)
  PROVE  /\ \/ \E d \in Delivery : LP!DeliveryStep(d) \/ LP!DeliveryFails(d)
            \/ \E r \in Refund : LP!RefundStep(r) \/ LP!RefundFails(r)
         /\ \/ \E d \in Delivery : Lifecycle!DeliveryStep(d) \/ Lifecycle!DeliveryFails(d)
            \/ \E r \in Refund : Lifecycle!RefundStep(r) \/ Lifecycle!RefundFails(r)
<1>1. ASSUME NEW d \in Delivery, Handlers!DeliveryStep(d) \/ Handlers!DeliveryFails(d)
      PROVE  /\ LP!DeliveryStep(d) \/ LP!DeliveryFails(d)
             /\ Lifecycle!DeliveryStep(d) \/ Lifecycle!DeliveryFails(d)
  <2>1. LP!DeliveryStep(d) \/ LP!DeliveryFails(d)
    BY <1>1 DEF
        Handlers!DeliveryStep, LP!DeliveryStep, Handlers!DeliveryFails, LP!DeliveryFails,
        Handlers!Deliver, LP!Deliver, Handlers!CheckDuplicate, LP!CheckDuplicate,
        Handlers!CheckNew, LP!CheckNew, Handlers!SelectPayment, LP!SelectPayment,
        Handlers!CommitEvent, LP!CommitEvent, Handlers!Mark, LP!Mark, Handlers!Due, LP!Due,
        Handlers!Goto, LP!Goto, Handlers!Answer, LP!Answer, Handlers!Type, LP!Type,
        Handlers!HandledType, LP!HandledType, Handlers!Load, LP!Load,
        Handlers!Update, LP!Update, Handlers!Column, LP!Column, Handlers!Handled, LP!Handled,
        Handlers!stores, LP!stores
  <2>2. Lifecycle!DeliveryStep(d) \/ Lifecycle!DeliveryFails(d)
    BY <1>1 DEF
        Handlers!DeliveryStep, Lifecycle!DeliveryStep,
        Handlers!DeliveryFails, Lifecycle!DeliveryFails, Handlers!Deliver, Lifecycle!Deliver,
        Handlers!CheckDuplicate, Lifecycle!CheckDuplicate,
        Handlers!CheckNew, Lifecycle!CheckNew, Handlers!SelectPayment, Lifecycle!SelectPayment,
        Handlers!CommitEvent, Lifecycle!CommitEvent, Handlers!Mark, Lifecycle!Mark,
        Handlers!Due, Lifecycle!Due, Handlers!Goto, Lifecycle!Goto,
        Handlers!Answer, Lifecycle!Answer, Handlers!Type, Lifecycle!Type,
        Handlers!HandledType, Lifecycle!HandledType, Handlers!Load, Lifecycle!Load,
        Handlers!Update, Lifecycle!Update, Handlers!Column, Lifecycle!Column,
        Handlers!Handled, Lifecycle!Handled, Handlers!stores, Lifecycle!stores
  <2>. QED
    BY <2>1, <2>2
<1>2. ASSUME NEW r \in Refund, Handlers!RefundStep(r) \/ Handlers!RefundFails(r)
      PROVE  /\ LP!RefundStep(r) \/ LP!RefundFails(r)
             /\ Lifecycle!RefundStep(r) \/ Lifecycle!RefundFails(r)
  <2>1. LP!RefundStep(r) \/ LP!RefundFails(r)
    BY <1>2 DEF
        Handlers!RefundStep, LP!RefundStep, Handlers!RefundFails, LP!RefundFails,
        Handlers!RefundSelect, LP!RefundSelect, Handlers!RefundCall, LP!RefundCall,
        Handlers!RefundRaises, LP!RefundRaises, Handlers!RefundCommit, LP!RefundCommit,
        Handlers!RefundRow, LP!RefundRow, Handlers!Grant, LP!Grant,
        Handlers!Cardinality, LP!Cardinality, Handlers!Goto, LP!Goto,
        Handlers!Answer, LP!Answer, Handlers!Load, LP!Load, Handlers!Update, LP!Update,
        Handlers!Column, LP!Column, Handlers!stores, LP!stores
  <2>2. Lifecycle!RefundStep(r) \/ Lifecycle!RefundFails(r)
    BY <1>2 DEF
        Handlers!RefundStep, Lifecycle!RefundStep, Handlers!RefundFails, Lifecycle!RefundFails,
        Handlers!RefundSelect, Lifecycle!RefundSelect,
        Handlers!RefundCall, Lifecycle!RefundCall,
        Handlers!RefundRaises, Lifecycle!RefundRaises,
        Handlers!RefundCommit, Lifecycle!RefundCommit, Handlers!RefundRow, Lifecycle!RefundRow,
        Handlers!Grant, Lifecycle!Grant, Handlers!Cardinality, Lifecycle!Cardinality,
        Handlers!Goto, Lifecycle!Goto, Handlers!Answer, Lifecycle!Answer,
        Handlers!Load, Lifecycle!Load, Handlers!Update, Lifecycle!Update,
        Handlers!Column, Lifecycle!Column, Handlers!stores, Lifecycle!stores
  <2>. QED
    BY <2>1, <2>2
<1>. QED
  BY <1>1, <1>2

-----------------------------------------------------------------------------
\* The row as each component sees it.

\* What the handlers find is the row, if it is linked to its intent.
LEMMA RowFound ==
  ASSUME GInv
  PROVE  /\ row \in [{TheKey} -> CP!Payment \cup {Null}]
         /\ Null \notin CP!Payment
         /\ FoundByIntent # Null <=> (row[TheKey] # Null /\ row[TheKey].intent # Null)
         /\ FoundByIntent # Null =>
              FoundByIntent = [status |-> row[TheKey].status, error_message |-> message]
<1>1. row \in [{TheKey} -> CP!Payment \cup {Null}] /\ Null \notin CP!Payment
  BY CreationAssumed DEF GInv, CP!RInv, CP!IInv, CP!TypeOK
<1>2. row[TheKey] # Null => row[TheKey].status \in Creation!Status
  BY <1>1 DEF CP!Payment, CP!Status, Creation!Status
<1>3. row[TheKey] # Null => [status |-> row[TheKey].status, error_message |-> message] # Null
  BY <1>2, LifecycleAssumption DEF GInv
<1>. QED
  BY <1>1, <1>3 DEF FoundByIntent

\* Whoever has been told of the payment was told after its commit.
LEMMA KnownFound == GInv /\ Known => FoundByIntent # Null
<1>. SUFFICES ASSUME GInv, Known PROVE FoundByIntent # Null
  OBVIOUS
<1>1. PICK r \in Request : pc[r] = "done" /\ code[r] = "201" /\ view[r].intent # Null
  BY DEF Known
<1>2. row[TheKey] # Null /\ view[r].intent = row[TheKey].intent
  BY <1>1 DEF GInv, CP!RInv, CP!IInv, CP!Shown, CP!Same
<1>. QED
  BY <1>1, <1>2, RowFound

\* A step of create_payment is one in the proofs' instance and in Creation.
LEMMA CreateStep ==
  ASSUME Create
  PROVE  CP!Next /\ Creation!Next
  BY RequestStep, ExpiryStep DEF Create, CP!Next, Creation!Next

\* What it does to the row that the handlers can find: nothing, or it records it.
LEMMA CreateRecords ==
  ASSUME GInv, Create
  PROVE  \/ UNCHANGED FoundByIntent
         \/ /\ FoundByIntent = Null
            /\ FoundByIntent' = [status |-> "requires_payment_method", error_message |-> Null]
<1>1. ASSUME NEW r \in Request, CP!Save(r) \/ CP!Reject(r)
      PROVE  \/ UNCHANGED FoundByIntent
             \/ /\ FoundByIntent = Null
                /\ FoundByIntent' = [status |-> "requires_payment_method",
                                     error_message |-> Null]
  <2>1. /\ row[TheKey] = Null /\ view[r] # Null
        /\ view[r].intent # Null => view[r].status = "requires_payment_method"
        /\ row' = [row EXCEPT ![TheKey] = view[r]]
    BY <1>1, CP!CommitRecords, CreationAssumed DEF GInv
  <2>2. FoundByIntent = Null /\ row'[TheKey] = view[r]
    BY <2>1, RowFound
  <2>3. message' = message /\ message = Null
    BY <2>2 DEF Create, GInv
  <2>4. CASE view[r].intent = Null
    BY <2>1, <2>2, <2>4 DEF FoundByIntent
  <2>5. CASE view[r].intent # Null
    BY <2>1, <2>2, <2>3, <2>5 DEF FoundByIntent
  <2>. QED
    BY <2>4, <2>5
<1>2. CASE UNCHANGED row
  BY <1>2 DEF FoundByIntent, Create
<1>3. CP!LockExpire(TheKey) \/ CP!CacheExpire(TheKey) => UNCHANGED row
  BY DEF CP!LockExpire, CP!CacheExpire, CP!db
<1>. QED
  BY <1>1, <1>2, <1>3, RequestStep, ExpiryStep, CP!RequestWrites, CreationAssumed DEF Create

\* A step of create_payment is the lifecycle's RecordPayment or none of its steps.
LEMMA CreateForLifecycle ==
  ASSUME GInv, Create
  PROVE  [LP!Next]_(LP!vars) /\ [Lifecycle!Next]_(Lifecycle!vars)
<1>1. CASE UNCHANGED FoundByIntent
  BY <1>1 DEF Create, lifecycle, LP!vars, LP!stores, Lifecycle!vars, Lifecycle!stores
<1>2. CASE /\ FoundByIntent = Null
           /\ FoundByIntent' = [status |-> "requires_payment_method", error_message |-> Null]
  BY <1>2 DEF Create, lifecycle, LP!Next, LP!RecordPayment, Lifecycle!Next,
     Lifecycle!RecordPayment
<1>. QED
  BY <1>1, <1>2, CreateRecords

\* A step of the handlers is one of the lifecycle.
LEMMA HandleForLifecycle ==
  ASSUME GInv, Handle
  PROVE  FoundByIntent # Null /\ LP!Next /\ Lifecycle!Next
<1>1. FoundByIntent # Null
  BY KnownFound DEF Handle
<1>. QED
  BY <1>1, HandlerStep DEF Handle, LP!Next, Lifecycle!Next

\* It leaves the payment linked, with a status that an event or a refund gives,
\* and the audit trail with what it had.
LEMMA HandleMoves ==
  ASSUME GInv, Handle
  PROVE  /\ FoundByIntent' # Null
         /\ FoundByIntent'.status \in {FoundByIntent.status} \cup LaterStatus
         /\ \A x \in Event \cup Refund : events[x] > 0 => events'[x] > 0
<1>1. FoundByIntent # Null /\ [LP!Next]_(LP!vars) /\ LP!TypeOK /\ LP!Loaded
  BY HandleForLifecycle DEF GInv, LP!IInv
<1>. QED
  BY <1>1, LP!StatusMoves, LifecycleAssumed DEF LaterStatus, LP!Source, LP!Event, Event

\* What a handler writes is creation's LaterUpdate, or nothing of creation's.
LEMMA HandleForCreation ==
  ASSUME GInv, Handle
  PROVE  /\ CP!LaterUpdate(TheKey) \/ UNCHANGED CP!vars
         /\ Creation!LaterUpdate(TheKey) \/ UNCHANGED Creation!vars
<1>0. UNCHANGED creation
  BY DEF Handle
<1>1. CASE UNCHANGED row
  BY <1>0, <1>1 DEF creation, CP!vars, CP!local, CP!db, CP!redis, Creation!vars,
     Creation!local, Creation!db, Creation!redis
<1>2. ASSUME NEW s \in Creation!Status, row' = [row EXCEPT ![TheKey].status = s]
      PROVE  /\ CP!LaterUpdate(TheKey) \/ UNCHANGED row
             /\ Creation!LaterUpdate(TheKey) \/ UNCHANGED row
  <2>1. /\ row[TheKey] \in CP!Payment /\ row[TheKey] # Null /\ row[TheKey].intent # Null
        /\ FoundByIntent = [status |-> row[TheKey].status, error_message |-> message]
    BY RowFound, HandleForLifecycle
  <2>2. row'[TheKey] = [row[TheKey] EXCEPT !.status = s]
    BY <1>2, RowFound
  <2>3. row'[TheKey].status = s /\ row'[TheKey].intent = row[TheKey].intent
    BY <2>1, <2>2 DEF CP!Payment
  <2>4. FoundByIntent' = [status |-> s, error_message |-> message']
    BY <2>1, <2>3, HandleMoves DEF FoundByIntent
  <2>5. s \in {row[TheKey].status} \cup LaterStatus
    BY <2>1, <2>4, HandleMoves
  <2>6. CASE s \in LaterStatus
    BY <1>0, <1>2, <2>1, <2>6 DEF creation, CP!LaterUpdate, CP!local, CP!redis,
       Creation!LaterUpdate, Creation!local, Creation!redis
  <2>7. CASE s = row[TheKey].status
    <3>1. [row[TheKey] EXCEPT !.status = s] = row[TheKey]
      BY <2>1, <2>7 DEF CP!Payment
    <3>. QED
      BY <1>2, <2>2, <3>1, RowFound
  <2>. QED
    BY <2>5, <2>6, <2>7
<1>. QED
  BY <1>1, <1>2 DEF Handle, Written

-----------------------------------------------------------------------------
\* The joint invariant.

\* It holds of empty stores and unsent events.
LEMMA GInit == Init => GInv
<1>. SUFFICES ASSUME Init PROVE GInv
  OBVIOUS
<1>1. CP!RInv
  <2>1. CP!Init
    BY DEF Init, Creation!Init, CP!Init
  <2>. QED
    BY <2>1, CP!RegInit, CreationAssumed
<1>2. FoundByIntent = Null
  BY DEF Init, Creation!Init, FoundByIntent
<1>3. LP!IInv
  <2>1. LP!Init
    BY DEF Init, Handlers!Init, LP!Init, Handlers!Event, LP!Event
  <2>. QED
    BY <2>1, LP!InvInit, LifecycleAssumed
<1>4. /\ \A r \in Request : Accounted(view[r])
      /\ Accounted(cache[TheKey])
  BY DEF Init, Creation!Init, Accounted
<1>5. \A r \in Refund : reply[r] # "404"
  BY DEF Init, Handlers!Init
<1>. QED
  BY <1>1, <1>2, <1>3, <1>4, <1>5 DEF Init, GInv

\* A linked row has a status that is accounted for.
LEMMA RowAccounted == GInv => Accounted(row[TheKey])
<1>. SUFFICES ASSUME GInv, row[TheKey] # Null, row[TheKey].intent # Null,
                     row[TheKey].status # "requires_payment_method"
              PROVE  HasCause(row[TheKey].status)
  BY DEF Accounted
<1>1. FoundByIntent # Null /\ FoundByIntent.status = row[TheKey].status
  BY RowFound
<1>. QED
  BY <1>1 DEF GInv, LP!IInv, LP!Caused, HasCause, LP!Event, Event, LP!EffectOf,
     Handlers!EffectOf

\* What requests hold and what is cached stays accounted for.
LEMMA AccountedNext ==
  ASSUME GInv, Create \/ Handle
  PROVE  (\A r \in Request : Accounted(view[r]))' /\ Accounted(cache[TheKey])'
<1>0. /\ \A r \in Request : Accounted(view[r])
      /\ Accounted(cache[TheKey]) /\ Accounted(row[TheKey])
  BY RowAccounted DEF GInv
<1>1. CASE Handle
  <2>1. \A x \in Event \cup Refund : events[x] > 0 => events'[x] > 0
    BY <1>1, HandleMoves
  <2>2. \A s : HasCause(s) => HasCause(s)'
    BY <2>1 DEF HasCause
  <2>3. UNCHANGED <<view, cache>>
    BY <1>1 DEF Handle, creation
  <2>. QED
    BY <1>0, <2>2, <2>3 DEF Accounted
<1>2. CASE Create
  <2>1. \A s : HasCause(s)' <=> HasCause(s)
    BY <1>2 DEF HasCause, Create, lifecycle
  <2>2. ASSUME NEW r \in Request, CP!Progress(r) \/ CP!Fail(r) \/ CP!Crash(r)
        PROVE  /\ \/ view'[r] \in {view[r], row[TheKey], cache[TheKey]}
                  \/ view'[r].intent = Null
                  \/ view'[r].status = "requires_payment_method"
               /\ \A q \in Request : q # r => view'[q] = view[q]
               /\ cache'[TheKey] \in {cache[TheKey], view[r]}
    BY <2>2, CP!ViewSources, CreationAssumed DEF GInv
  <2>3. ASSUME NEW r \in Request, CP!Progress(r) \/ CP!Fail(r) \/ CP!Crash(r)
        PROVE  (\A q \in Request : Accounted(view[q]))' /\ Accounted(cache[TheKey])'
    BY <1>0, <2>1, <2>2, <2>3 DEF Accounted
  <2>4. CP!LockExpire(TheKey) \/ CP!CacheExpire(TheKey) =>
          UNCHANGED view /\ cache'[TheKey] \in {cache[TheKey], Null}
    BY DEF GInv, CP!RInv, CP!IInv, CP!TypeOK, CP!LockExpire, CP!CacheExpire, CP!local
  <2>. QED
    BY <1>0, <1>2, <2>1, <2>3, <2>4, RequestStep, ExpiryStep DEF Create, Accounted
<1>. QED
  BY <1>1, <1>2

\* A handler of a recorded payment does not answer 404.
LEMMA NotFoundNext ==
  ASSUME GInv, Handle
  PROVE  \A r \in Refund : reply'[r] # "404"
<1>0. /\ FoundByIntent # Null /\ LP!TypeOK
      /\ \A r \in Refund : reply[r] # "404"
      /\ Delivery \cap Refund = {}
  BY HandleForLifecycle, LifecycleAssumed DEF GInv, LP!IInv
<1>1. ASSUME NEW d \in Delivery, LP!DeliveryStep(d) \/ LP!DeliveryFails(d)
      PROVE  \A r \in Refund : reply'[r] # "404"
  BY <1>0, <1>1 DEF LP!TypeOK, LP!DeliveryStep, LP!DeliveryFails, LP!Deliver,
     LP!CheckDuplicate, LP!CheckNew, LP!SelectPayment, LP!CommitEvent, LP!Mark, LP!Answer
<1>2. ASSUME NEW r \in Refund, LP!RefundStep(r) \/ LP!RefundFails(r)
      PROVE  \A q \in Refund : reply'[q] # "404"
  BY <1>0, <1>2 DEF LP!TypeOK, LP!RefundStep, LP!RefundFails, LP!RefundSelect, LP!RefundCall,
     LP!RefundRaises, LP!RefundCommit, LP!Answer
<1>. QED
  BY <1>0, <1>1, <1>2, HandlerStep DEF Handle

\* Every step of either component keeps the invariants of both.
LEMMA GNext == GInv /\ [Next]_vars => GInv'
<1>. SUFFICES ASSUME GInv, [Next]_vars PROVE GInv'
  OBVIOUS
<1>1. CASE Create
  <2>1. CP!RInv'
    BY <1>1, CreateStep, CP!RegNext, CreationAssumed DEF GInv
  <2>2. LP!IInv'
    BY <1>1, CreateForLifecycle, LP!InvNext, LifecycleAssumed DEF GInv
  <2>3. /\ (message \in Event \cup {Null})'
        /\ (FoundByIntent = Null => message = Null)'
        /\ (\A r \in Refund : reply[r] # "404")'
    BY <1>1, CreateRecords DEF GInv, Create, lifecycle
  <2>. QED
    BY <1>1, <2>1, <2>2, <2>3, AccountedNext DEF GInv
<1>2. CASE Handle
  <2>1. CP!RInv'
    <3>1. [CP!Next]_(CP!vars)
      BY <1>2, HandleForCreation DEF CP!Next
    <3>. QED
      BY <3>1, CP!RegNext, CreationAssumed DEF GInv
  <2>2. LP!IInv'
    BY <1>2, HandleForLifecycle, LP!InvNext, LifecycleAssumed DEF GInv
  <2>3. (message \in Event \cup {Null})'
    BY <1>2 DEF GInv, Handle, Written
  <2>4. FoundByIntent' # Null
    BY <1>2, HandleMoves
  <2>. QED
    BY <1>2, <2>1, <2>2, <2>3, <2>4, AccountedNext, NotFoundNext DEF GInv
<1>3. CASE UNCHANGED vars
  <2>1. UNCHANGED CP!vars /\ UNCHANGED LP!vars
    BY <1>3 DEF vars, creation, lifecycle, FoundByIntent, CP!vars, CP!local, CP!db, CP!redis,
       LP!vars, LP!stores
  <2>2. CP!RInv' /\ LP!IInv'
    BY <2>1, CP!RegNext, LP!InvNext, CreationAssumed, LifecycleAssumed DEF GInv
  <2>. QED
    BY <1>3, <2>2 DEF GInv, vars, creation, lifecycle, FoundByIntent, Accounted, HasCause
<1>. QED
  BY <1>1, <1>2, <1>3 DEF Next, Terminating

\* The invariants of both components hold of the composition.
THEOREM JointInvariance == Spec => []GInv
  BY GInit, GNext, PTL DEF Spec

-----------------------------------------------------------------------------
\* What follows.

\* Whatever the handlers do, creation behaves as PaymentCreation says.
THEOREM CreationRefined == Spec => ImplementsCreation
<1>1. Init => Creation!Init
  BY DEF Init
<1>2. GInv /\ [Next]_vars => [Creation!Next]_(Creation!vars)
  <2>. SUFFICES ASSUME GInv, [Next]_vars PROVE [Creation!Next]_(Creation!vars)
    OBVIOUS
  <2>1. CASE Create
    BY <2>1, CreateStep
  <2>2. CASE Handle
    BY <2>2, HandleForCreation DEF Creation!Next
  <2>3. CASE UNCHANGED vars
    BY <2>3 DEF vars, creation, Creation!vars, Creation!local, Creation!db, Creation!redis
  <2>. QED
    BY <2>1, <2>2, <2>3 DEF Next, Terminating
<1>. QED
  BY <1>1, <1>2, JointInvariance, PTL DEF Spec, ImplementsCreation, Creation!Spec

\* Whatever create_payment does meanwhile, the lifecycle is that of a payment
\* recorded once, before the first event, and written by its handlers only.
THEOREM LifecycleRefined == Spec => ImplementsLifecycle
<1>1. Init => Lifecycle!Init
  BY DEF Init, Creation!Init, FoundByIntent, Handlers!Init, Lifecycle!Init, Handlers!Event,
     Lifecycle!Event
<1>2. GInv /\ [Next]_vars => [Lifecycle!Next]_(Lifecycle!vars)
  <2>. SUFFICES ASSUME GInv, [Next]_vars PROVE [Lifecycle!Next]_(Lifecycle!vars)
    OBVIOUS
  <2>1. CASE UNCHANGED vars
    BY <2>1 DEF vars, lifecycle, FoundByIntent, Lifecycle!vars, Lifecycle!stores
  <2>. QED
    BY <2>1, CreateForLifecycle, HandleForLifecycle DEF Next, Terminating
<1>. QED
  BY <1>1, <1>2, JointInvariance, PTL DEF Spec, ImplementsLifecycle, Lifecycle!Spec

\* What was proved of the parts holds of the whole: one request at a time for Stripe,
\* one payment told to everybody, books that agree, no acknowledged event and no refund
\* lost, and a cause for every status.
THEOREM PartsHold ==
  Spec => [](/\ Creation!OneStripeCaller /\ Creation!SamePayment
             /\ Creation!DeclinedIsRecorded /\ Creation!LedgerMatchesRows
             /\ Lifecycle!StatusHasCause /\ Lifecycle!AcknowledgedWasApplied
             /\ Lifecycle!RefundBooks)
<1>1. GInv => Creation!OneStripeCaller /\ Creation!SamePayment
  <2>1. CP!Owner => Creation!OneStripeCaller
    BY DEF CP!Owner, CP!InTransaction, Creation!OneStripeCaller, Creation!InTransaction
  <2>2. CP!Shown => Creation!SamePayment
    BY DEF CP!Shown, CP!Same, Creation!SamePayment, Creation!Same
  <2>. QED
    BY <2>1, <2>2 DEF GInv, CP!RInv, CP!IInv
<1>2. GInv => Creation!DeclinedIsRecorded /\ Creation!LedgerMatchesRows
  <2>1. CP!DeclinedIsRecorded <=> Creation!DeclinedIsRecorded
    BY DEF CP!DeclinedIsRecorded, Creation!DeclinedIsRecorded
  <2>2. CP!LedgerMatchesRows <=> Creation!LedgerMatchesRows
    BY DEF CP!LedgerMatchesRows, CP!SavedEvents, CP!RejectedEvents, CP!EventType,
       Creation!LedgerMatchesRows, Creation!SavedEvents, Creation!RejectedEvents,
       Creation!EventType
  <2>. QED
    BY <2>1, <2>2 DEF GInv, CP!RInv
<1>3. GInv => Lifecycle!StatusHasCause
  BY DEF GInv, LP!IInv, LP!Caused, LP!EffectOf, LP!Event, Lifecycle!StatusHasCause,
     Lifecycle!EffectOf, Lifecycle!Event
<1>4. GInv => Lifecycle!AcknowledgedWasApplied /\ Lifecycle!RefundBooks
  BY DEF GInv, LP!IInv, LP!AcknowledgedWasApplied, LP!RefundBooks, LP!Event, LP!HandledType,
     Lifecycle!AcknowledgedWasApplied, Lifecycle!RefundBooks, Lifecycle!Event,
     Lifecycle!HandledType
<1>. QED
  BY <1>1, <1>2, <1>3, <1>4, JointInvariance, PTL

\* No event is acknowledged as not_found and no refund refused with 404 once the
\* payment is known to anybody.
THEOREM KnownPaymentsFound == Spec => []KnownIsFound
<1>1. GInv => KnownIsFound
  BY DEF GInv, LP!IInv, LP!Applied, KnownIsFound
<1>. QED
  BY <1>1, JointInvariance, PTL

\* Every status a client is shown is one that an event or a refund gave the
\* payment, although nothing removes a cached response.
THEOREM ShownStatusesReal == Spec => []ShownHasCause
<1>1. GInv => ShownHasCause
  <2>. SUFFICES ASSUME GInv, NEW r \in Request, code[r] = "201", view[r].intent # Null,
                       view[r].status # "requires_payment_method"
                PROVE  HasCause(view[r].status)
    BY DEF ShownHasCause, HasCause
  <2>1. view[r] # Null
    BY DEF GInv, CP!RInv, CP!IInv, CP!Shown
  <2>. QED
    BY <2>1 DEF GInv, Accounted
<1>. QED
  BY <1>1, JointInvariance, PTL
=============================================================================
