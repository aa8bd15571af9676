# Formal models of the payment gateway

TLA+ models of the gateway, model-checked with TLC on small instances, and
theorems about them proved with TLAPS for every value of the constants.
Definitions are translated from the code; `PROJECT.json` gives the lines each of
them stands for.

## 1. The system

A FastAPI service, run as any number of processes that share PostgreSQL, Redis
and Stripe, and two background workers.

| Part | State it keeps | Operations | Interacts with |
| --- | --- | --- | --- |
| Payment creation, `core/payment_processor.py` | rows of `payments`, `payment_events`, `outbox_events`; lock `payment:lock:{key}` in Redis | `create_payment`, `get_payment_status` | idempotency, Stripe client, PostgreSQL, Redis |
| Refunds, same file | the payment's row, its audit and outbox records | `refund_payment` | Stripe client, PostgreSQL; races with webhooks |
| Idempotency, `core/idempotency.py` | `idempotency:{key}` in Redis, with a TTL | `generate_key`, `check_idempotency`, `store_response`, `invalidate` (never called) | Redis, then `payments` |
| Stripe client, `integrations/stripe_client.py` | circuit breaker of the client: state, two counters, time of the last failure | create, retrieve, confirm, refund, list | Stripe; a process has two clients, the payment processor's and reconciliation's, each shared by the coroutines that use it |
| Webhooks, `integrations/webhook_handler.py` | `webhook:processed:{event_id}` in Redis; the payment's row and audit records | `verify_signature`, `process_event`, three handlers | PostgreSQL, Redis; called when Stripe delivers |
| Outbox, `core/outbox.py`, `workers/outbox_publisher.py` | the `published` flag of `outbox_events` | fetch, publish, mark, start, stop | PostgreSQL, the message queue |
| Sagas, `core/saga.py` | in memory: steps, their status, active sagas | `execute`, `_compensate`, orchestrator | caller's functions; nothing in the repository calls it |
| Reconciliation, `core/reconciliation.py`, `workers/reconciliation_worker.py` | `reconciliation_status`, one row per date | `reconcile_date`, daily worker, admin route | PostgreSQL, Stripe list calls |
| API, `api/` | none | maps exceptions to status codes; a session per request that ends in commit or rollback | everything above |
| Database, `database/` | schema, sessions | constraints: unique `idempotency_key`, CHECK on `status` | |
| Monitoring, settings | metrics, health probes, configuration | read-only | |

What is hard in it, and what correct means:

* **Creation.** Two awaits on Redis, three on PostgreSQL and one (with up to five
  attempts) on Stripe, any of which may fail, while repetitions of the request
  run in other processes. The lock expires after `redis_lock_timeout` and is not
  renewed; with Redis down there is no lock. Correct: one payment and one
  PaymentIntent per key, everybody is told of that payment, and what is committed
  is complete.
* **Stripe client.** Coroutines whose attempts interleave drive one breaker.
  Correct: the circuit opens at the threshold, reopens on a failed first probe,
  closes again for good once Stripe answers, and every operation ends.
* **Webhooks and refunds.** Deliveries are repeated, reordered and concurrent; the
  duplicate check, the transaction and the mark are three steps; refunds call
  Stripe between reading and writing the row. Correct: no acknowledged event is
  lost, every status has a cause on record, the books tell only of refunds that
  Stripe made, and who is told 200 or refused is told the truth.
* **Outbox.** Publishing and marking are two steps, the queue may accept an event
  and the publication still fail, rows are fetched without a lock, a worker may be
  stopped anywhere. Correct: nothing is lost, everything the
  queue accepts is delivered in the end.
* **Sagas.** Actions fail before or after their effect, compensations fail or are
  missing, the coroutine is cancelled anywhere. Correct: what is left behind can be
  told from the status of the steps, effects are taken back in reverse, and nothing
  unfinished is forgotten.
* **Reconciliation.** One row per date and a second run, pagination, two time
  intervals with different ends, separate reads while payments go on. Correct:
  what is lost is reported, what is reported is a difference, silence means none.
* **Creation and lifecycle together.** Webhooks and refunds write the row that
  `create_payment` has committed. Correct: neither disturbs the other.

`PROJECT.json` lists the hazards line by line, with the properties aimed at them.

## 2. Modules

| Module | Models |
| --- | --- |
| `PaymentCreation` | `create_payment` with `check_idempotency`, `store_response`, the lock, the transaction and the Stripe call |
| `PaymentRegister` | abstract: a write-once register of payments per key |
| `PaymentCreationProofs`, `PaymentRegisterProofs` | theorems on `PaymentCreation`; that it implements the register |
| `StripeClient`, `StripeClientProofs` | circuit breaker and retries; theorems |
| `PaymentLifecycle`, `PaymentLifecycleProofs` | webhook deliveries and refunds of a recorded payment; theorems |
| `Outbox`, `OutboxProofs` | publisher workers; theorems |
| `AtLeastOnce` | abstract: at-least-once delivery |
| `Saga`, `SagaProofs` | `SagaStep`, `Saga.execute`, `_compensate`, `SagaOrchestrator`; theorems |
| `Reconciliation`, `ReconciliationProofs` | `reconcile_date` as the admin route runs it, beside a gateway at work; theorems |
| `Gateway`, `GatewayProofs` | `PaymentCreation` and `PaymentLifecycle` composed over one row; that each is a correct environment of the other |
| `MC*` | instances for TLC: constant values, symmetry |

Definitions named `X_Something` next to `X`, commented "Seeded fault", are mutated
forms of `X`. Nothing uses them; putting one in the place of `X` breaks a
property, which shows that the property depends on the code being as it is.

### PaymentCreation

`pc[r]` is the await at which the coroutine of request `r` is suspended; an action
is what happens from there to the next await.

| Code | Actions |
| --- | --- |
| `check_idempotency`, before and under the lock | `CacheHit`, `CacheMiss`, `LookupFound`, `LookupNone`, `Fill` |
| `_acquire_payment_lock` | `Acquire`, `Conflict`, `Degrade` |
| INSERT and flushes | `Insert`, `InsertDuplicate` |
| `create_payment_intent` | `StripeReply`, `StripeLostReply`, `StripeRaise` |
| commits, refresh, `store_response` | `Save`, `Reject`, `Refresh`, `Store` |
| `except Exception` | `Fail` |
| `_release_payment_lock` | `ReleaseNothing`, `ReleaseGet`, `Delete` |
| around the code | `Crash`, `LockExpire`, `CacheExpire`, `LaterUpdate` |

State: `row`, `audit`, `outbox` are committed rows, `inserting` the open transaction
that holds the index entry of a key, `cache` and `lock` the two Redis keys, `intent`
the PaymentIntent Stripe keeps under the idempotency key. PostgreSQL runs at READ
COMMITTED, its default: an INSERT of a key that another open transaction has
inserted waits for it; once a row is committed the INSERT fails. A lost answer to
a COMMIT, a lost reply of Stripe and a lost reply of `SET NX` are all there: what was
asked for has happened, the code takes the error path.

Abstractions: the amounts, user and metadata of a request are its key; a repetition
is a request with the same key. The clock is absent: the lock and the cache may
expire at any time. Requests that fail validation end before any state is touched
and are left out.

Stripe answers a repeated idempotency key only if the call is the same. The
metadata of the call holds the payment id and the correlation id, fresh in every
request, so a repetition of a request whose row was lost is refused, and ends as
`Fail` (500), or as `StripeRaise` if the circuit is open or Stripe limits the rate;
the attempts of one request repeat one call. But the client's own metadata is merged
over these entries: where it names both ids the calls of two requests are the same.
`FixedMetadata` are the keys of such requests; `SameCall` is the condition. The run
`creation_race` has such a key, `creation_faults` and `gateway` have not.

`Reject` answers 422 or 503, though with the library assumed below a permanent
StripeError never arises: the handler distinguishes the two, and the model keeps its
distinction. It only adds behaviours, so what is proved of safety holds without them.

### StripeClient

`CircuitBreaker.call` contains no await, so an attempt is one atomic step; callers
interleave between attempts, where tenacity sleeps. `kind` separates
`create_payment_intent`, retried, from the other four operations. `cooled` stands for
`time.time() - last_failure_time > timeout`. Failures are counted up to `CountCap`.
A breaker belongs to one `StripeClient`. `routes.py` builds a processor and a
reconciliation engine, each with a client of its own; two breakers share nothing, so
one breaker with its callers is the whole state.

`Classified` is what `_classify_error` can end in. It tests for
`stripe.error.ServiceUnavailableError` in the tuple it evaluates after
`RateLimitError`. The library is not in the repository; stripe 7.11.0, the version
`requirements.txt` pins, is taken to have no such class. Then only a rate limit
becomes a StripeError; any other error of Stripe ends in an AttributeError, which the
breaker has counted by then and tenacity does not retry, and which is answered 500.
The other StripeError is the refusal of an open circuit.

### PaymentLifecycle

One payment, as payments share nothing here. `loaded` is the row a handler has
read; `Column` is what the ORM does at flush: it writes a column only if the
handler's value differs from the loaded one. So two handlers may each write half
of a row. `History` is what Stripe emits, `EventOf` what each delivery carries.
Failed deliveries go back to `sent`, as Stripe sends again what was not answered
200. Each refund request has its own Stripe idempotency key, so Stripe grants as
many as the amount allows: `RefundLimit`.

### Outbox

Events are numbered by `created_at`, taken before the commit, so rows appear out of
order. `Raises` is what a publication that raises may have done: the queue has refused
the event, or accepted it and its acknowledgement was lost; the code cannot tell, and
leaves the event unpublished. `Stop` is SIGTERM, whose handler calls `sys.exit` at once,
or a crash; `Restart` is somebody who starts the worker again.
`Poison` are events the queue refuses whenever it is asked.

### Saga

`pc[s]` is `forward` or `backward` while the coroutine awaits the action of step
`at[s]`; `status`, `completed` and `active` are the fields of the same name
(`completed_steps` always holds the first steps, so its length is enough).
`effects` is the world outside: a forward action puts `<<saga, step>>` there, its
compensating action takes it away. `compensate` returns at once for a step without a
compensating action, so `Backward` goes straight to the next step that has one.

| Code | Actions |
| --- | --- |
| `create_saga`, start of `execute_saga` | `Create`, `Begin` |
| loop of `execute` | `StepReturns`, `StepRaises` |
| `_compensate`, `SagaStep.compensate` | `CompensationReturns`, `CompensationRaises` |
| `CancelledError`, which `except Exception` does not catch | `Cancel` |

### Reconciliation

A run awaits, in this order, the INSERT of its report, the database totals, the
pages of Stripe's list for Stripe's totals, the rows, the pages again, and the
COMMIT; `pc` names them. `cursor` is `starting_after`. Stripe lists the newest first:
`Place` is the place of each intent in its list, a page is the set of the first
`PageSize` intents of what is left behind the cursor (`First`, `Rest`). What a page
shows to be missing is kept page by page in `found`, so that an intent reported twice
would be seen; a sum of amounts is the number of their cents. Around the runs `intent` and
`row` move as the gateway, Stripe and webhooks move them: an intent is created
before its row can be seen, pays, is marked by its webhook, and moves on. `since`,
`seen` and `missed` are history: what a run could have read. No action looks at them.

After an exception the handler writes `failed` and commits. It can do so after an
error of Stripe. After a refused INSERT or a lost connection its session needs a
rollback first, so its own commit raises and the report stays as it was:
`InsertRefused`, `DbFails`. At the totals, the first statement after the commit of the
report, a connection that cannot be had leaves the session usable, and there the
handler may do either.

### Gateway

The modules are used as they are: `Creation` and `Handlers` are instances whose
variables are those of `Gateway`, with one `row` for both. Handlers look payments up by
intent, so the row they see is `FoundByIntent`. Refunds look it up by its id; that makes
no difference here, as both come only once a 201 has told of the payment (`Known`), whose
row then has its intent. `Create` takes any step of
`PaymentCreation` and leaves the lifecycle alone, `Handle` any step of the handlers and
leaves the rest of creation alone. Neither is told what the other may do to the
row; that each stays within what the other assumes is checked, by `ImplementsCreation`
and `ImplementsLifecycle`.

### Refinements

* `Spec` of `Gateway` implements `PaymentCreation!Spec`, where webhooks and refunds are
  `LaterUpdate`, and `PaymentLifecycle!Spec` with `Early` = FALSE, where the commit of
  `create_payment` is `RecordPayment` and nothing else it does is seen.

* `Spec` of `PaymentCreation` implements `PaymentRegister!Spec`: the register is the rows
  without their status, a verdict is the answer of a finished request.
* `Spec` of `Outbox` implements `AtLeastOnce!Spec`: accepted is what has been delivered
  at least once, settled is what is marked.

## 3. Runs

| Run | Checks | Instance and bounds |
| --- | --- | --- |
| `creation_race` | `OneStripeCaller`, `SamePayment`, `SettledStays`, `ImplementsRegister` | three repetitions; Redis faults, expiry of lock and cache, crashes; metadata that lets Stripe answer a repeated key; symmetry in the requests |
| `creation_faults` | `TypeOK`, `DeclinedIsRecorded`, `LedgerMatchesRows`, `AllAnswered` | two repetitions, all faults, fairness |
| `stripe_breaker` | `TypeOK`, `CountsMatchState`, `RaisesAfterLastAttempt`, `FailedProbeReopens`, `Recovers`, `OperationsEnd` | two callers, the code's thresholds 5, 2 and 5, count capped at 6, fairness |
| `lifecycle_events` | `StatusHasCause`, `AcknowledgedWasApplied`, `FollowsStripe` | failed, succeeded, refunded events; four deliveries, one failing, in any order and (`inOrder`, chosen at the start) one event after the other |
| `lifecycle_refunds` | `TypeOK`, `RefundBooks`, `AllAnswered` | two partial refunds, a success delivered twice, all faults, events may overtake the recording, fairness |
| `outbox_delivery` | `TypeOK`, `MarkedWasDelivered`, `BoundedDuplicates`, `ImplementsAtLeastOnce`, `AllDelivered` | three events, one of them refused for ever, two workers, batches of 2, two faults, fairness of the workers that run |
| `saga` | `TypeOK`, `NothingHidden`, `ActiveIsUnfinished`, `UndoneInReverse`, `SagasEnd` | two sagas of five steps: one step without a compensating action, one whose compensating action may fail, three others; fairness |
| `reconciliation` | `TypeOK`, `LostAreReported`, `NoFalseAlarm`, `AllClearIsTrue`, `ToldIsStored`, `RunsEnd` | two runs for one day, pages of one intent; a payment within the day, one around midnight and an unlinked intent in the first second after it; all faults, fairness |
| `gateway` | `KnownIsFound`, `ShownHasCause`, `ImplementsCreation`, `ImplementsLifecycle` | two repetitions, one event, one refund, one failing delivery; faults of Redis and the database, expiry; symmetry in the requests |

Why the bounds suffice. Requests of different keys share no variable of
`PaymentCreation`, so one key is enough; three repetitions give a lock holder
whose lock expired, its successor and an onlooker. Two callers already interleave
a probe with another's failures; one failure above the threshold behaves like any
more, so `CountCap` is one more than the threshold. In the outbox, three events
and batches of two give a full batch and a rest, two workers every overlap of two.
Five steps give a saga something to take back above and below a step without a
compensating action and above and below a failing compensation. Pages of one
intent give a day of two payments a first page and a last; a third run for a day
meets what a second meets; other days share no report with it. In `gateway` the
richness of each side is left to the runs of its own module; two requests give a
repetition that is under way while webhooks arrive. Crashes are left out of it: a
crash leaves the row as a rollback does and the lock as a lost reply of `SET NX`
does, and `GatewayProofs` covers every set of faults. The runs use small
instances; where a theorem is proved (section 5) the result holds for any.

**Fairness.** A coroutine whose await has returned is resumed by the event loop, so
each request, caller, delivery, refund and worker has weak fairness on its own
steps. Not on faults or expiry. The clock goes on: an open circuit cools in the end,
which `Recovers` needs. An await does return:
PostgreSQL, Redis and Stripe answer or fail, and tenacity stops after five attempts.
`PaymentLifecycle` also takes from Stripe that it goes on delivering until it is
answered, and that the payment's commit comes; `MaxFailures` bounds how often a
delivery fails, since one that fails for ever is never acknowledged. `Outbox`
does not assume that somebody restarts a stopped worker: nothing in the repository
does, `docker-compose.yml` starts it once and has no restart policy for it. So
`AllDelivered` is conditional: some worker is, from some time on, not stopped. `Recovers`
is conditional as well, on a Stripe that fails no call from some time on and on
clients that go on calling. `Saga`
assumes that the functions given to the steps return or raise: `timeout_seconds` is
stored and never used. `Reconciliation` assumes that its reads and list calls return.

### Disagreements between the code and what is said about it

Each of these runs states a sentence of a docstring or of a comment, and TLC finds
a behaviour of the code that contradicts it.

| Run | Property | The behaviour |
| --- | --- | --- |
| `lifecycle_stale` | `RefundsOnlySucceeded` | two refunds pass the status check; the second reaches Stripe when the payment is refunded |
| `outbox_once` | `DeliveredOnce` | with one worker and one fault: the queue accepts an event, the publication raises, the next batch publishes it again |
| `reconciliation_missing` | `MissingIsAbsent` | a payment whose webhook has not come yet, or that has been refunded, is reported as `missing_in_database` |

More of the kind, visible in the models without a run of their own:

* `_release_payment_lock` says "only if we still own it", but reads and deletes in two
  commands (`ReleaseGet`, `Delete`): a lock that expires in between is another's. No
  double charge follows, as `OneStripeCaller` holds without the lock.
* "Same request → Same response" (QUICKSTART.md): a request answered 503 (or 422) leaves a failed
  payment, with which its repetition is answered 201 (`LookupFound`).
* "Apply consistent payment state updates" (webhook_handler.py): `Column` lets a success
  that was loaded before a failure committed leave a succeeded payment with the
  failure's message.
* "Don't retry these" (stripe_client.py, of permanent errors): `retry_if_exception_type`
  names every `StripeError`. With the library assumed here none is ever permanent; with
  one that has the missing class, a declined card would be tried five times.

`MissingIsAbsent` looks at the row when the report is at hand; the counterexample
is a payment whose row was there from before the run, but not as succeeded.
`outbox_once` has one worker, as `docker-compose.yml` starts it; how often an event
may come is what `BoundedDuplicates` says.

## 4. What the checks say

The safety of payment creation rests on the unique index, the transaction around
the Stripe call and Stripe's idempotency key, not on the lock: every property
holds with the lock expired, lost or never taken. The lock only turns waiting for
the index, and a 500 after it, into a 409.

A 500 does not mean that nothing happened: the payment may be committed, or the
intent may exist with no row. In the first case a repetition is told of the
payment. In the second Stripe refuses the repetition, as its metadata differs, and it
is answered 500 again; if it meets an open circuit or a rate limit instead, the
payment is recorded as failed without the intent, for good. Either way the intent is
orphaned. Only a client whose metadata names both ids is given the same intent.

Webhooks leave the payment as Stripe last said if they come one after the other.
If they overlap or come late the last commit wins, and the audit trail, not the
row, tells what happened. Two deliveries of one event that overlap both pass the
duplicate check, and both are applied and audited.

The outbox delivers everything the queue accepts as long as a worker runs and the events
it never accepts do not fill a batch: the oldest come first, so `BatchSize` of them are
fetched for ever and no other event is. `AllDelivered` states the condition. With
one worker and no failure an event is delivered once (`BoundedDuplicates`).

A saga that ends as compensated may leave effects behind: those of steps without
a compensating action, those a compensating action failed to take back, and the half
of the step that failed. `status` tells which. A cancelled saga stays in
`active_sagas`, and only there; in a process that dies it leaves no trace, as sagas
are kept in memory.

A refund that Stripe has made may be on no books, if its commit fails or Stripe's answer
is lost; `RefundBooks` says that its client was then told 500 or 503, or, if the
process died, nothing: the model's 500 stands for that too.

The circuit closes again (`Recovers`). A first probe that fails reopens it; one that
fails after another has succeeded leaves it half open, since a success resets the
count of failures.

Reconciliation finds what the rest of the gateway loses. An orphaned intent that
is paid, a payment whose event came before its row and one whose status a late
event has turned back have succeeded at Stripe and are not "succeeded" in the
database, so every run that ends reports them (`LostAreReported`), whatever goes
on meanwhile. It reports as missing, however, also every payment refunded since,
paid but not yet marked, or created around midnight: `NoFalseAlarm` is as much as
can be said. Rows that Stripe does not have show only in the totals, so silence
takes both (`AllClearIsTrue`). A date has one chance: after a run that failed, or
died, every other run for the date is refused by the unique index. And nothing
runs it daily: `start_reconciliation_worker` defines a function whose annotation
names `Any`, which the module does not import, and ends with a NameError; the
admin route is the only caller.

An event overtakes the recording of its payment only if somebody pays before a 201
has told of the intent (`KnownIsFound`). What a repetition is shown from the cache may
be old, but it has been true (`ShownHasCause`).

## 5. Theorems

Proved for every set of requests, keys, events, deliveries, workers, sagas, payments
and runs, every threshold, batch and page size and every combination of faults. The
assumptions are those on constants, named in the modules:

* numbers are numbers of the right range, finite sets are finite, and `Null` is none of
  the values it stands beside;
* `PaymentLifecycle`: Stripe delivers every event at least once (`AcknowledgedWasApplied`
  would say nothing of an event that is never delivered), and the identifiers of
  refunds are not those of events;
* `Reconciliation`: a row is not younger than its intent, and Stripe's list has the newest
  intent first and no two in one place.

TLC evaluates them on the instances of the runs.

**PaymentCreationProofs.** The properties are not inductive. `IInv` adds:

* `Owner`: a request is inside its transaction exactly if it holds the index entry of
  its key. Hence `MutualExclusion`: two such requests of a key would be the one
  holder.
* `IndexFree`: while an entry is held there is no row. So a commit never replaces a
  row, and every row is written once.
* `Undecisive`: a request that has not finished has no answer yet.
* `Shown`: payments that are about to be answered, answered or cached are the row of
  their key but for the status.

`TypeCorrect`, `MutualExclusion`, `OnePayment` follow from `IInv`; `RecordedForGood`
needs one look at each step under `IInv`: the only steps that touch a row or an
intent belong to a request inside its transaction, where there is no row.
No lemma assumes anything about the lock.

**PaymentRegisterProofs.** `RInv` adds to that invariant what a request carries
through its transaction (`Drafted`): its own payment, without an intent until Stripe has
answered, then with an intent of its key (`IntentOfKey`). So each of the two commits
writes a payment of that key together with exactly its events (`CommitRecords`), which
gives `LedgerAgrees`, and a request told 422 or 503 has written the failed payment
itself, which no webhook can find, as it has no intent (`DeclinedForGood`).
`Refinement` maps a row to its entry and an answer to a verdict. Two lemmas carry it:
a step writes at most one entry and gives at most one verdict (`OneMoves`), and a
payment on its way to the client is the entry of its key (`OnTheWay`).

**PaymentLifecycleProofs.** A handler writes only the columns that differ from what it
has loaded, so a row may be a mixture of two handlers. `UpdateWrites` says what the mixture
can be: each column is what was there or what the handler wants. So whoever can
be seen in the row is in the audit trail (`Caused`), which is `NothingWithoutCause`.
`Applied` follows a delivery from its commit to its mark, hence `NoEventLost`; `Booked` follows
a refund from Stripe to the books, and to an answer 500 or 503 where it never gets
there, hence `BooksAgree`. `LastEventCounts` is the deep
one: if Stripe delivers in order, then all deliveries at work are of one event
(`Ordered`); a delivery that has loaded another row than the present one finds the row
as it wants it (`Followed`), so even overlapping repetitions leave the payment as their
event says. `StatusMoves` gives the steps of the status.

**StripeClientProofs.** `CountsMatchState` is inductive with `TypeOK`;
`RaisesAfterLastAttempt` needs `AttemptsLeft`, that a coroutine that still tries has
attempts left. `ProbesReopen` is where the link between state and counter matters:
an open circuit has at least threshold failures, the half-open transition does not
reset them, so one more failure opens it again.

**OutboxProofs.** `IInv` adds `HoldsWritten`: workers hold only committed events.
`NothingLost` is part of it, and `Refinement` maps each step: publishing to `Accept`,
marking to `Settle`, all the rest to a write or a stutter. `DuplicatesBounded` counts:
before an event is marked, each of its deliveries is accounted for by a worker that
still holds it (`Holders`) or by a failure, a publication that was accepted and raised
included; once it is marked no worker fetches it
again, and only those that had fetched it before (`Pending`) deliver it. `Tally`
says both; `BatchShrinks` keeps `Holders` and `Pending` apart, so that their sizes
add up to at most the number of workers when marking moves an event from one
count to the other.

**SagaProofs.** `IInv` says, for each saga, how the place of its coroutine, its state
and `active_sagas` go together (`Linked`), that effects are accounted for (`Accounted`),
that forwards the steps before the current one are done and those after it are not
begun (`Forwards`), and that backwards every step above the current one that can be
taken back has been (`Backwards`). The last is what makes `ReverseOrder` true, and
`BackwardGoes` is the one place where it is established: the way back goes to the
highest step that is left. `OthersStay` reduces a step to the saga that makes it.

**GatewayProofs.** Each component was proved against an environment it was given:
`LaterUpdate` for creation, `RecordPayment` for the lifecycle. Here each is the other's
environment, and that is circular: the handlers may be trusted with the row only if
it is what creation says, and creation only if the handlers write what they should.
The circle is cut by induction on the steps: `GInv` holds the invariants of both
instances, a commit of creation is one `RecordPayment`, or invisible to a handler, a
handler's UPDATE is a `LaterUpdate`, and so each step is one of each component or a
stutter, under which that component's own lemmas (cited as `CP!` and `LP!`) keep its
invariant. `CreationRefined` and `LifecycleRefined` state the two refinements as TLC
checks them, `PartsHold` that the safety of the parts is that of the whole,
`KnownPaymentsFound` and `ShownStatusesReal` what they are good for
(`Accounted`: every payment that is cached or held by a request has a status with a cause).

**ReconciliationProofs.** `OneRunPerDate`: the unique date leaves one run under way for
it, and none beside an answer 200; with it `ReportIsMine`. For the rest `RunInv`, of
one run: each of its readings of the rows lies between what was "succeeded" all the
time and what was at some time (`Reading`); what it has taken from Stripe's list is, of
the intents up to its cursor, all that had succeeded before it began, and none twice
(`Collected`), and after the last page the same of the whole list (`Complete`). The step
from one to the other is `PageTurned`, for pages of any size; it rests on
`FirstIsInitial`, that a page leaves nothing behind that is listed before its last
intent. `NoneLost` and `NoneInVain` follow by comparing the two. For
`EqualTotalsSuffice`, an undisturbed run has one reading and one collection: an empty list
puts Stripe's payments among the rows of the day, the same count makes the two finite
sets equal. The amounts are not needed.

Only model-checked: liveness, that is `AllAnswered`, `OperationsEnd`, `Recovers`,
`AllDelivered`, `SagasEnd` and `RunsEnd`, as fairness and ENABLED are beyond the
prover, with the fairness in the specifications of the runs. Every other property
of the passing runs has a theorem. The three disagreements of section 3 are
counterexamples and need none.

## 6. Not modelled

* Stripe forgets an idempotency key after some time (a day); the models never do.
  Every repetition they consider comes within that time.
* The expiry of `webhook:processed:` keys after seven days: later than Stripe's
  redeliveries.
* `generate_key` itself: two different requests have two different keys.
* The status a cached response shows: it may be stale by design, `SamePayment`
  compares payment and intent.
* Two executions of one saga object at a time, or one after a cancellation: nothing in
  the repository does it. Status and result are kept on the steps, so they would mix.
* The time zone of `start_date.timestamp()`: days at Stripe and in the database begin
  at the same moment, as they do on a server that runs in UTC.
* `amount_mismatch`: the amounts of a row and its intent are the same, as
  `create_payment` sends the amount it stores and nothing changes either.
* The reconciliation worker, which ends before its first run (section 4), and table
  creation at start-up by several processes at once.
* Monitoring, settings, start-up, connections and the pool, table creation,
  validation of requests, signature verification: they keep no state the
  properties are about.

## 7. Plan

Done, in this order: `PaymentCreation` with `PaymentRegister`; `StripeClient`;
`PaymentLifecycle`; `Outbox` with `AtLeastOnce`; `Saga`; `Reconciliation`; `Gateway`;
and the proofs of all of them.

To come: that a completed report is never changed, and that the runs of a date, of
any number, implement a write-once report.
