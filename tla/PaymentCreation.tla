-------------------------- MODULE PaymentCreation --------------------------
(***************************************************************************)
(* POST /payments: PaymentProcessor.create_payment with everything it      *)
(* calls, for any number of concurrent requests served by any number of    *)
(* gateway processes that share PostgreSQL, Redis and Stripe.              *)
(*                                                                         *)
(* A request r carries the idempotency key KeyOf[r] that generate_key      *)
(* computes from its user, amount, currency and metadata: two requests     *)
(* with the same key are the same request sent twice.  The uuid4 values a  *)
(* request draws (payment id, lock token) and the PaymentIntent Stripe     *)
(* creates on its call are all named by the request itself.                *)
(*                                                                         *)
(* A step ends where the handler awaits Redis, PostgreSQL or Stripe.       *)
(***************************************************************************)
EXTENDS Naturals

CONSTANTS
  Request,       \* the requests clients send, repetitions included
  Key,           \* idempotency keys
  KeyOf,         \* the key of each request
  FixedMetadata, \* keys of requests whose own metadata names both ids Stripe is sent
  Null,          \* "no value"
  IntentStatus,  \* statuses a PaymentIntent may have when Stripe returns it
  LaterStatus,   \* statuses a webhook or a refund may give a payment later
  Faults         \* what may go wrong: "redis", "db", "stripe", "crash", "expiry"

\* The statuses the CHECK constraint of the payments table admits.
Status == {"pending", "processing", "requires_payment_method",
           "requires_confirmation", "requires_action", "succeeded", "failed",
           "refunded"}

Payment == [id : Request, status : Status, intent : Request \cup {Null}]

ASSUME KeyAssumption == KeyOf \in [Request -> Key]
ASSUME NullAssumption ==
  /\ Null \notin Request /\ Null \notin Payment
  /\ Null \notin [id : Request, intent : Request \cup {Null}]
ASSUME StatusAssumption == IntentStatus \subseteq Status /\ LaterStatus \subseteq Status

EventType == {"payment.created", "payment.processing", "payment.failed",
              "stripe.payment_intent_created"}

VARIABLES
  \* one per request: the state of the coroutine that serves it
  pc,         \* the await it is suspended at
  entered,    \* past the first lookup, inside the try with the finally
  held,       \* lock_token is not None
  view,       \* the payment it holds: the ORM object or the response body
  code,       \* the HTTP status it will answer, "none" while undecided
  \* PostgreSQL
  row,        \* the committed row of each key
  inserting,  \* the open transaction that has inserted a row with the key
  audit,      \* committed payment_events, as <<payment id, event type>>
  outbox,     \* payment ids with a committed payment.created outbox event
  \* Redis
  cache,      \* idempotency:{key}
  lock,       \* payment:lock:{key}, the token stored there
  \* Stripe
  intent      \* the PaymentIntent made under the idempotency key

local == <<pc, entered, held, view, code>>
db    == <<row, inserting, audit, outbox>>
redis == <<cache, lock>>
vars  == <<local, db, redis, intent>>

Stage == {"cache", "db", "fill", "lock", "insert", "stripe", "save", "reject",
          "refresh", "store", "release", "delete", "done", "crashed"}
Code  == {"none", "201", "409", "422", "503", "500"}

\* The type invariant.
TypeOK ==
  /\ pc \in [Request -> Stage]
  /\ entered \in [Request -> BOOLEAN]
  /\ held \in [Request -> BOOLEAN]
  /\ view \in [Request -> Payment \cup {Null}]
  /\ code \in [Request -> Code]
  /\ row \in [Key -> Payment \cup {Null}]
  /\ inserting \in [Key -> Request \cup {Null}]
  /\ audit \subseteq Request \X EventType
  /\ outbox \subseteq Request
  /\ cache \in [Key -> Payment \cup {Null}]
  /\ lock \in [Key -> Request \cup {Null}]
  /\ intent \in [Key -> Request \cup {Null}]

Init ==
  /\ pc = [r \in Request |-> "cache"]
  /\ entered = [r \in Request |-> FALSE]
  /\ held = [r \in Request |-> FALSE]
  /\ view = [r \in Request |-> Null]
  /\ code = [r \in Request |-> "none"]
  /\ row = [k \in Key |-> Null]
  /\ inserting = [k \in Key |-> Null]
  /\ audit = {}
  /\ outbox = {}
  /\ cache = [k \in Key |-> Null]
  /\ lock = [k \in Key |-> Null]
  /\ intent = [k \in Key |-> Null]

-----------------------------------------------------------------------------
\* Control.

Goto(r, stage) == pc' = [pc EXCEPT ![r] = stage]

\* Once create_payment is inside its try, every way out runs the finally.
WayOut(r) == IF entered[r] THEN "release" ELSE "done"

\* Seeded fault: 200 where the route answers 201.
Answer_PlainOk(r, c) ==
  /\ code' = [code EXCEPT ![r] = IF c = "201" THEN "200" ELSE c]
  /\ Goto(r, WayOut(r))

Answer(r, c) ==
  /\ code' = [code EXCEPT ![r] = c]
  /\ Goto(r, WayOut(r))

\* Seeded fault: the transaction of a failed request stays open.
Rollback_LeftOpen(r) == UNCHANGED inserting

\* Rollback, or the end of the connection, drops what the transaction wrote.
Rollback(r) ==
  inserting' = [inserting EXCEPT ![KeyOf[r]] = IF @ = r THEN Null ELSE @]

-----------------------------------------------------------------------------
\* check_idempotency, run before the lock and again under it.

CacheHit(r) ==
  /\ pc[r] = "cache"
  /\ cache[KeyOf[r]] # Null
  /\ view' = [view EXCEPT ![r] = cache[KeyOf[r]]]
  /\ Answer(r, "201")
  /\ UNCHANGED <<entered, held, db, redis, intent>>

CacheMiss(r) ==
  /\ pc[r] = "cache"
  /\ cache[KeyOf[r]] = Null \/ "redis" \in Faults
  /\ Goto(r, "db")
  /\ UNCHANGED <<entered, held, view, code, db, redis, intent>>

LookupFound(r) ==
  /\ pc[r] = "db"
  /\ row[KeyOf[r]] # Null
  /\ view' = [view EXCEPT ![r] = row[KeyOf[r]]]
  /\ Goto(r, "fill")
  /\ UNCHANGED <<entered, held, code, db, redis, intent>>

LookupNone(r) ==
  /\ pc[r] = "db"
  /\ row[KeyOf[r]] = Null
  /\ Goto(r, IF entered[r] THEN "insert" ELSE "lock")
  /\ UNCHANGED <<entered, held, view, code, db, redis, intent>>

\* setex and store_response are best effort.
WriteCache(r) ==
  \/ cache' = [cache EXCEPT ![KeyOf[r]] = view[r]]
  \/ "redis" \in Faults /\ UNCHANGED cache

Fill(r) ==
  /\ pc[r] = "fill"
  /\ WriteCache(r)
  /\ Answer(r, "201")
  /\ UNCHANGED <<entered, held, view, db, lock, intent>>

-----------------------------------------------------------------------------
\* _acquire_payment_lock

TakeLock(r) == lock' = [lock EXCEPT ![KeyOf[r]] = r]

Acquire(r) ==
  /\ pc[r] = "lock"
  /\ lock[KeyOf[r]] = Null
  /\ TakeLock(r)
  /\ held' = [held EXCEPT ![r] = TRUE]
  /\ entered' = [entered EXCEPT ![r] = TRUE]
  /\ Goto(r, "cache")
  /\ UNCHANGED <<view, code, db, cache, intent>>

Conflict(r) ==
  /\ pc[r] = "lock"
  /\ lock[KeyOf[r]] # Null
  /\ entered' = [entered EXCEPT ![r] = TRUE]
  /\ code' = [code EXCEPT ![r] = "409"]
  /\ Goto(r, "release")
  /\ UNCHANGED <<held, view, db, redis, intent>>

\* Redis failed: go on without a lock.  If only the reply was lost the token is
\* stored all the same, and this request does not know that it is.
Degrade(r) ==
  /\ pc[r] = "lock"
  /\ "redis" \in Faults
  /\ \/ UNCHANGED lock
     \/ lock[KeyOf[r]] = Null /\ TakeLock(r)
  /\ entered' = [entered EXCEPT ![r] = TRUE]
  /\ Goto(r, "cache")
  /\ UNCHANGED <<held, view, code, db, cache, intent>>

-----------------------------------------------------------------------------
\* The payment's transaction: INSERT, the Stripe call, UPDATE, COMMIT.

\* Seeded faults: no unique index; an INSERT that replaces an existing row.
KeyFree_NoIndex(k) == row[k] = Null
KeyFree_Replace(k) == inserting[k] = Null

\* The unique index on idempotency_key: an INSERT waits while another open
\* transaction has inserted the key, and fails once a row has it.
KeyFree(k) == inserting[k] = Null /\ row[k] = Null

Insert(r) ==
  /\ pc[r] = "insert"
  /\ KeyFree(KeyOf[r])
  /\ inserting' = [inserting EXCEPT ![KeyOf[r]] = r]
  /\ view' = [view EXCEPT ![r] = [id |-> r, status |-> "processing", intent |-> Null]]
  /\ Goto(r, "stripe")
  /\ UNCHANGED <<entered, held, code, row, audit, outbox, redis, intent>>

InsertDuplicate(r) ==
  /\ pc[r] = "insert"
  /\ row[KeyOf[r]] # Null
  /\ Answer(r, "500")
  /\ UNCHANGED <<entered, held, view, db, redis, intent>>

\* Stripe answers a repeated key only if the call is the same.  Its metadata has the
\* payment id and the correlation id, fresh in every request and fixed through its
\* attempts; but a client's metadata is merged over them, and may name both.
SameCall(r) == intent[KeyOf[r]] \in {Null, r} \/ KeyOf[r] \in FixedMetadata

\* What Stripe keeps under an idempotency key: the intent of the first call.
IntentAt(k, r) == IF intent[k] = Null THEN r ELSE intent[k]

StripeReply(r) ==
  /\ pc[r] = "stripe"
  /\ SameCall(r)
  /\ intent' = [intent EXCEPT ![KeyOf[r]] = IntentAt(KeyOf[r], r)]
  /\ \E s \in IntentStatus :
       view' = [view EXCEPT ![r] = [@ EXCEPT !.status = s,
                                             !.intent = IntentAt(KeyOf[r], r)]]
  /\ Goto(r, "save")
  /\ UNCHANGED <<entered, held, code, db, redis>>

\* The intent was made but the attempt failed; tenacity may try again.
StripeLostReply(r) ==
  /\ pc[r] = "stripe"
  /\ SameCall(r)
  /\ "stripe" \in Faults
  /\ intent' = [intent EXCEPT ![KeyOf[r]] = IntentAt(KeyOf[r], r)]
  /\ UNCHANGED <<local, db, redis>>

\* except StripeError: the last attempt failed, or was refused by Stripe or by an
\* open circuit.
StripeRaise(r) ==
  /\ pc[r] = "stripe"
  /\ view' = [view EXCEPT ![r] = [@ EXCEPT !.status = "failed"]]
  /\ Goto(r, "reject")
  /\ UNCHANGED <<entered, held, code, db, redis, intent>>

\* What a COMMIT makes visible, all of it or nothing.
Commit(r, types, notices) ==
  /\ row' = [row EXCEPT ![KeyOf[r]] = view[r]]
  /\ audit' = audit \cup ({r} \X types)
  /\ outbox' = outbox \cup notices
  /\ Rollback(r)

SavedEvents == {"payment.created", "payment.processing",
                "stripe.payment_intent_created"}
RejectedEvents == {"payment.created", "payment.processing", "payment.failed"}

Save(r) ==
  /\ pc[r] = "save"
  /\ Commit(r, SavedEvents, {r})
  /\ \/ Goto(r, "refresh") /\ UNCHANGED code
     \/ "db" \in Faults /\ Answer(r, "500")   \* committed, the answer lost
  /\ UNCHANGED <<entered, held, view, redis, intent>>

\* Seeded fault: raise before the commit.
Reject_Uncommitted(r) ==
  /\ pc[r] = "reject"
  /\ Rollback(r)
  /\ Answer(r, "422") \/ Answer(r, "503")
  /\ UNCHANGED <<entered, held, view, row, audit, outbox, redis, intent>>

\* 422 for a permanent StripeError, 503 for the other types.
Reject(r) ==
  /\ pc[r] = "reject"
  /\ Commit(r, RejectedEvents, {})
  /\ \/ Answer(r, "422")
     \/ Answer(r, "503")
     \/ "db" \in Faults /\ Answer(r, "500")
  /\ UNCHANGED <<entered, held, view, redis, intent>>

\* db.refresh reads the row again, in a new transaction.
Refresh(r) ==
  /\ pc[r] = "refresh"
  /\ view' = [view EXCEPT ![r] = row[KeyOf[r]]]
  /\ Goto(r, "store")
  /\ UNCHANGED <<entered, held, code, db, redis, intent>>

Store(r) ==
  /\ pc[r] = "store"
  /\ WriteCache(r)
  /\ Answer(r, "201")
  /\ UNCHANGED <<entered, held, view, db, lock, intent>>

\* Seeded fault: the outbox event is written in a transaction of its own.
Fail_OutboxApart(r) ==
  /\ pc[r] = "stripe" \/ "db" \in Faults
  /\ pc[r] \in {"db", "insert", "stripe", "save", "reject", "refresh"}
  /\ Rollback(r)
  /\ outbox' = IF pc[r] = "save" THEN outbox \cup {r} ELSE outbox
  /\ Answer(r, "500")
  /\ UNCHANGED <<entered, held, view, row, audit, redis, intent>>

\* A statement or a COMMIT fails, or an exception that is no StripeError comes
\* out of the Stripe call: rollback and 500.
Fail(r) ==
  /\ pc[r] = "stripe" \/ "db" \in Faults
  /\ pc[r] \in {"db", "insert", "stripe", "save", "reject", "refresh"}
  /\ Rollback(r)
  /\ Answer(r, "500")
  /\ UNCHANGED <<entered, held, view, row, audit, outbox, redis, intent>>

-----------------------------------------------------------------------------
\* _release_payment_lock

OwnsLock(r) == lock[KeyOf[r]] = r

\* No token; or the GET shows another token or none; or Redis fails.
ReleaseNothing(r) ==
  /\ pc[r] = "release"
  /\ ~held[r] \/ ~OwnsLock(r) \/ "redis" \in Faults
  /\ Goto(r, "done")
  /\ UNCHANGED <<entered, held, view, code, db, redis, intent>>

ReleaseGet(r) ==
  /\ pc[r] = "release"
  /\ held[r] /\ OwnsLock(r)
  /\ Goto(r, "delete")
  /\ UNCHANGED <<entered, held, view, code, db, redis, intent>>

\* DELETE names the lock key only.
Delete(r) ==
  /\ pc[r] = "delete"
  /\ \/ lock' = [lock EXCEPT ![KeyOf[r]] = Null]
     \/ "redis" \in Faults /\ UNCHANGED lock
  /\ Goto(r, "done")
  /\ UNCHANGED <<entered, held, view, code, db, cache, intent>>

-----------------------------------------------------------------------------
\* The environment.

\* The process dies; PostgreSQL aborts its transaction, Redis keeps its lock.
Crash(r) ==
  /\ "crash" \in Faults
  /\ pc[r] \notin {"done", "crashed"}
  /\ Rollback(r)
  /\ Goto(r, "crashed")
  /\ UNCHANGED <<entered, held, view, code, row, audit, outbox, redis, intent>>

\* PX redis_lock_timeout runs out; it bounds no step of the request.
LockExpire(k) ==
  /\ "expiry" \in Faults
  /\ lock[k] # Null
  /\ lock' = [lock EXCEPT ![k] = Null]
  /\ UNCHANGED <<local, db, cache, intent>>

CacheExpire(k) ==
  /\ "expiry" \in Faults
  /\ cache[k] # Null
  /\ cache' = [cache EXCEPT ![k] = Null]
  /\ UNCHANGED <<local, db, lock, intent>>

\* Seeded fault: webhooks reach a payment that has no intent.
LaterUpdate_AnyPayment(k) ==
  /\ row[k] # Null
  /\ \E s \in LaterStatus : row' = [row EXCEPT ![k].status = s]
  /\ UNCHANGED <<local, inserting, audit, outbox, redis, intent>>

\* A webhook or a refund moves the status of a payment that has an intent.
\* None of them touches the cached response.
LaterUpdate(k) ==
  /\ row[k] # Null
  /\ row[k].intent # Null
  /\ \E s \in LaterStatus : row' = [row EXCEPT ![k].status = s]
  /\ UNCHANGED <<local, inserting, audit, outbox, redis, intent>>

-----------------------------------------------------------------------------
\* The steps that need nothing to go wrong, and the whole next-state relation.

Progress(r) ==
  \/ CacheHit(r) \/ CacheMiss(r) \/ LookupFound(r) \/ LookupNone(r) \/ Fill(r)
  \/ Acquire(r) \/ Conflict(r) \/ Degrade(r)
  \/ Insert(r) \/ InsertDuplicate(r)
  \/ StripeReply(r) \/ StripeLostReply(r) \/ StripeRaise(r)
  \/ Save(r) \/ Reject(r) \/ Refresh(r) \/ Store(r)
  \/ ReleaseNothing(r) \/ ReleaseGet(r) \/ Delete(r)

Quiet == \A r \in Request : pc[r] \in {"done", "crashed"}

Terminating == Quiet /\ UNCHANGED vars

Next ==
  \/ \E r \in Request : Progress(r) \/ Fail(r) \/ Crash(r)
  \/ \E k \in Key : LockExpire(k) \/ CacheExpire(k) \/ LaterUpdate(k)
  \/ Terminating

Spec == Init /\ [][Next]_vars

\* The event loop resumes a coroutine whose await has returned.
FairSpec == Spec /\ \A r \in Request : WF_vars(Progress(r))

-----------------------------------------------------------------------------
\* Properties.

InTransaction(r) == pc[r] \in {"stripe", "save", "reject"}

\* At most one request of a key is between its INSERT and the end of its
\* transaction, hence at most one is talking to Stripe, whatever becomes of the
\* Redis lock: expired after 30 s, taken by nobody because Redis is down, or
\* deleted by another request.
OneStripeCaller ==
  \A r1, r2 \in Request :
    (KeyOf[r1] = KeyOf[r2] /\ InTransaction(r1) /\ InTransaction(r2)) => r1 = r2

\* The same payment, but for the status.
Same(p, q) == p.id = q.id /\ p.intent = q.intent

\* Every request answered 201, and the cached response it may have been
\* answered from, shows the one payment recorded for its key ("Duplicate
\* requests return the same payment", routes.py).
SamePayment ==
  /\ \A r \in Request :
       code[r] = "201" => row[KeyOf[r]] # Null /\ Same(view[r], row[KeyOf[r]])
  /\ \A k \in Key :
       cache[k] # Null => row[k] # Null /\ Same(cache[k], row[k])

\* A request answered 422 or 503 is the one that recorded the failed payment,
\* and that payment has no intent and keeps the status "failed" for good.
DeclinedIsRecorded ==
  \A r \in Request :
    code[r] \in {"422", "503"} =>
      row[KeyOf[r]] = [id |-> r, status |-> "failed", intent |-> Null]

\* The commit is all or nothing: the audit trail and the outbox hold exactly
\* the events of the recorded payments, whichever statement or commit failed
\* and whichever process died.
LedgerMatchesRows ==
  /\ outbox = {r \in Request : row[KeyOf[r]] # Null /\ row[KeyOf[r]].id = r
                               /\ row[KeyOf[r]].intent # Null}
  /\ \A r \in Request :
       {e \in EventType : <<r, e>> \in audit} =
         IF row[KeyOf[r]] = Null \/ row[KeyOf[r]].id # r THEN {}
         ELSE IF row[KeyOf[r]].intent = Null THEN RejectedEvents
         ELSE SavedEvents

\* Once a payment is recorded for a key no request makes Stripe create an
\* intent for that key, so a payment recorded as failed is never charged later
\* by a repetition of its request; and the record is never replaced.
SettledStays ==
  [][\A k \in Key : row[k] # Null =>
       intent'[k] = intent[k] /\ row'[k] # Null /\ Same(row[k], row'[k])]_vars

\* Every request is answered, unless its process dies: nobody waits for ever
\* for the unique index, and no lock left behind blocks a request.
AllAnswered == \A r \in Request : <>(pc[r] \in {"done", "crashed"})

\* The requests and the stores together implement a write-once register of
\* payments (PaymentRegister): a request is answered at most once, and only
\* with what the register holds.
Entry(p) == IF p = Null THEN Null ELSE [id |-> p.id, intent |-> p.intent]

Told(r) ==
  CASE pc[r] # "done" -> "none"
    [] code[r] = "201" /\ pc[r] = "done" -> "payment"
    [] code[r] \in {"422", "503"} /\ pc[r] = "done" -> "declined"
    [] OTHER -> "refused"

Register == INSTANCE PaymentRegister WITH
  recorded <- [k \in Key |-> Entry(row[k])],
  verdict  <- [r \in Request |-> Told(r)],
  shown    <- [r \in Request |-> IF Told(r) = "payment" THEN Entry(view[r]) ELSE Null]

ImplementsRegister == Register!Spec
=============================================================================
