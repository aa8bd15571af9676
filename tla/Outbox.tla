------------------------------- MODULE Outbox -------------------------------
(***************************************************************************)
(* OutboxPublisher: worker processes that poll the outbox table, publish   *)
(* every unpublished event of a batch to the message queue, then mark the  *)
(* ones that went through as published.                                    *)
(*                                                                         *)
(* Events are numbered in the order of created_at, the time the writing    *)
(* process took before its commit, so rows may appear in another order.    *)
(***************************************************************************)
EXTENDS Naturals, FiniteSets

CONSTANTS
  Events,      \* how many events are written
  Publisher,   \* worker processes
  BatchSize,   \* LIMIT of the query
  Poison,      \* events the queue never accepts
  MaxFaults    \* how many publications, commits or processes may fail

Event == 1..Events

ASSUME OutboxAssumption ==
  /\ Events \in Nat
  /\ BatchSize \in Nat \ {0}
  /\ Poison \subseteq Event
  /\ MaxFaults \in Nat
  /\ IsFiniteSet(Publisher)

VARIABLES
  written,     \* events whose row is committed
  published,   \* events whose row has published = TRUE
  delivered,   \* how many times the queue has accepted each event
  pc,          \* what each worker does
  batch,       \* events it has fetched and not yet tried
  sent,        \* published_ids
  faults       \* failures so far

table == <<written, published>>
worker == <<pc, batch, sent>>
vars == <<table, delivered, worker, faults>>

\* The type invariant.
TypeOK ==
  /\ written \subseteq Event
  /\ published \subseteq written
  /\ delivered \in [Event -> Nat]
  /\ pc \in [Publisher -> {"poll", "publish", "mark", "stopped"}]
  /\ batch \in [Publisher -> SUBSET Event]
  /\ sent \in [Publisher -> SUBSET Event]
  /\ faults \in 0..MaxFaults

Init ==
  /\ written = {} /\ published = {}
  /\ delivered = [e \in Event |-> 0]
  /\ pc = [p \in Publisher |-> "poll"]
  /\ batch = [p \in Publisher |-> {}]
  /\ sent = [p \in Publisher |-> {}]
  /\ faults = 0

Fault == faults < MaxFaults /\ faults' = faults + 1

-----------------------------------------------------------------------------
\* A payment transaction commits its event.
Write(e) ==
  /\ e \notin written
  /\ written' = written \cup {e}
  /\ UNCHANGED <<published, delivered, worker, faults>>

\* _fetch_unpublished_events: the oldest ones, no row lock taken.
\* Seeded faults: uncommitted rows are read; the flag is ignored.
Unpublished_Dirty == Event \ published

Unpublished == written \ published

Oldest_IgnoresFlag == {e \in written : Cardinality({f \in written : f < e}) < BatchSize}

Oldest == {e \in Unpublished : Cardinality({f \in Unpublished : f < e}) < BatchSize}

\* An empty batch leaves the worker where it is: it sleeps and polls again.
Fetch(p) ==
  /\ pc[p] = "poll"
  /\ Unpublished # {}
  /\ batch' = [batch EXCEPT ![p] = Oldest]
  /\ sent' = [sent EXCEPT ![p] = {}]
  /\ pc' = [pc EXCEPT ![p] = "publish"]
  /\ UNCHANGED <<table, delivered, faults>>

\* The event of its batch a worker tries next.
Turn(p, e) == e \in batch[p] /\ \A f \in batch[p] : e <= f

\* After the last one it marks what it has sent, if anything.
Advance(p, e, done) ==
  /\ sent' = [sent EXCEPT ![p] = done]
  /\ batch' = [batch EXCEPT ![p] = @ \ {e}]
  /\ pc' = [pc EXCEPT ![p] = IF batch[p] # {e} THEN "publish"
                             ELSE IF done # {} THEN "mark" ELSE "poll"]

\* The queue accepts the event.
Deliver(e) == e \notin Poison /\ delivered' = [delivered EXCEPT ![e] = @ + 1]

Publish(p, e) ==
  /\ pc[p] = "publish" /\ Turn(p, e)
  /\ Deliver(e)
  /\ Advance(p, e, sent[p] \cup {e})
  /\ UNCHANGED <<table, faults>>

\* publisher_func raises: the queue refuses the event, now or always, or accepts
\* it and only its acknowledgement is lost.
Raises(e) ==
  \/ e \in Poison /\ UNCHANGED <<delivered, faults>>
  \/ Fault /\ (Deliver(e) \/ UNCHANGED delivered)

\* Seeded faults: a failed event is counted as published; a failure ends the
\* batch.
PublishFails_Counted(p, e) ==
  /\ pc[p] = "publish" /\ Turn(p, e)
  /\ Raises(e)
  /\ Advance(p, e, sent[p] \cup {e})
  /\ UNCHANGED table

PublishFails_EndsBatch(p, e) ==
  /\ pc[p] = "publish" /\ Turn(p, e)
  /\ Raises(e)
  /\ batch' = [batch EXCEPT ![p] = {}]
  /\ pc' = [pc EXCEPT ![p] = IF sent[p] # {} THEN "mark" ELSE "poll"]
  /\ UNCHANGED <<table, sent>>

\* The event is skipped and stays unpublished.
PublishFails(p, e) ==
  /\ pc[p] = "publish" /\ Turn(p, e)
  /\ Raises(e)
  /\ Advance(p, e, sent[p])
  /\ UNCHANGED table

Mark(p) ==
  /\ pc[p] = "mark"
  /\ published' = published \cup sent[p]
  /\ pc' = [pc EXCEPT ![p] = "poll"]
  /\ UNCHANGED <<written, delivered, batch, sent, faults>>

\* The UPDATE or its commit fails, or only the answer to the commit is lost.
MarkFails(p) ==
  /\ pc[p] = "mark"
  /\ Fault
  /\ published' \in {published, published \cup sent[p]}
  /\ pc' = [pc EXCEPT ![p] = "poll"]
  /\ UNCHANGED <<written, delivered, batch, sent>>

\* SIGTERM: the signal handler exits at once, wherever the worker is; a crash
\* does the same.  A publication or a commit under way may have gone through.
Stop(p) ==
  /\ pc[p] # "stopped"
  /\ Fault
  /\ \/ UNCHANGED <<published, delivered>>
     \/ /\ pc[p] = "publish"
        /\ \E e \in Event : Turn(p, e) /\ Deliver(e)
        /\ UNCHANGED published
     \/ /\ pc[p] = "mark"
        /\ published' = published \cup sent[p]
        /\ UNCHANGED delivered
  /\ pc' = [pc EXCEPT ![p] = "stopped"]
  /\ batch' = [batch EXCEPT ![p] = {}]
  /\ sent' = [sent EXCEPT ![p] = {}]
  /\ UNCHANGED written

\* Somebody starts the worker again; nothing in the repository does.
Restart(p) ==
  /\ pc[p] = "stopped"
  /\ pc' = [pc EXCEPT ![p] = "poll"]
  /\ UNCHANGED <<table, delivered, batch, sent, faults>>

Work(p) ==
  \/ Fetch(p) \/ Mark(p)
  \/ \E e \in Event : Publish(p, e) \/ PublishFails(p, e)

\* Nothing is left to publish; the workers go on polling.
Idle ==
  /\ Unpublished = {} /\ \A p \in Publisher : pc[p] = "poll"
  /\ UNCHANGED vars

Next ==
  \/ \E e \in Event : Write(e)
  \/ \E p \in Publisher : Work(p) \/ MarkFails(p) \/ Stop(p) \/ Restart(p)
  \/ Idle

Spec == Init /\ [][Next]_vars

\* A worker that runs goes on running its loop; every payment transaction commits.
FairSpec ==
  /\ Spec
  /\ \A e \in Event : WF_vars(Write(e))
  /\ \A p \in Publisher : WF_vars(Work(p))

-----------------------------------------------------------------------------
\* Properties.

\* No event is lost: one marked as published, or about to be, has been accepted
\* by the queue, whatever failed and whoever stopped in between.
MarkedWasDelivered ==
  /\ \A e \in published : delivered[e] > 0
  /\ \A p \in Publisher : \A e \in sent[p] : delivered[e] > 0

\* How often an event may be delivered: once by each worker, since all may fetch
\* it before one of them marks it, and once more for every failure.
BoundedDuplicates ==
  \A e \in Event : delivered[e] <= faults + Cardinality(Publisher)

\* Every event the queue accepts is delivered, and marked, in the end, provided
\* the events it never accepts do not fill the batch and some worker is not
\* stopped for ever, whatever the others were doing when they were stopped.
AllDelivered ==
  (Cardinality(Poison) < BatchSize /\ \E p \in Publisher : <>[](pc[p] # "stopped")) =>
    \A e \in Event \ Poison : <>[](delivered[e] > 0 /\ e \in published)

\* "Ensures exactly-once message delivery" (outbox.py).
DeliveredOnce == \A e \in Event : delivered[e] <= 1

\* What at-least-once delivery promises, with no workers in sight.
Promise == INSTANCE AtLeastOnce WITH
  accepted <- {e \in Event : delivered[e] > 0},
  settled  <- published

ImplementsAtLeastOnce == Promise!Spec
=============================================================================
