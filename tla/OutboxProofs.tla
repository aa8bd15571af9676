---------------------------- MODULE OutboxProofs ----------------------------
(***************************************************************************)
(* No event is lost, for any number of events, workers and failures: what  *)
(* a worker has sent, and so what it marks, the queue has accepted; and    *)
(* what it fetches is committed.  With that, Outbox implements AtLeastOnce *)
(* step by step.  The last part bounds how often an event is delivered.    *)
(***************************************************************************)
EXTENDS Outbox, FiniteSetTheorems, TLAPS

\* A worker holds only committed events.
HoldsWritten == \A p \in Publisher : batch[p] \subseteq written /\ sent[p] \subseteq written

IInv == TypeOK /\ MarkedWasDelivered /\ HoldsWritten

\* The invariant holds of an empty table and idle workers.
LEMMA InvInit == Init => IInv
  BY OutboxAssumption DEF Init, IInv, TypeOK, MarkedWasDelivered, HoldsWritten

\* A delivery count that grows stays positive.
LEMMA DeliveredGrows ==
  ASSUME TypeOK, NEW e \in Event, delivered' = [delivered EXCEPT ![e] = @ + 1]
  PROVE  /\ delivered' \in [Event -> Nat]
         /\ delivered'[e] > 0
         /\ \A f \in Event : delivered[f] > 0 => delivered'[f] > 0
  BY DEF TypeOK

\* _publish_event keeps the invariant, whether the event is accepted, refused, or
\* accepted and not acknowledged.
LEMMA InvPublish ==
  ASSUME IInv, NEW p \in Publisher, NEW e \in Event, Publish(p, e) \/ PublishFails(p, e)
  PROVE  IInv'
<1>1. e \in written
  BY DEF IInv, HoldsWritten, Publish, PublishFails, Turn
<1>2. CASE Publish(p, e)
  <2>1. delivered' = [delivered EXCEPT ![e] = @ + 1]
    BY <1>2 DEF Publish, Deliver
  <2>2. /\ delivered' \in [Event -> Nat]
        /\ delivered'[e] > 0
        /\ \A f \in Event : delivered[f] > 0 => delivered'[f] > 0
    BY <2>1, DeliveredGrows DEF IInv
  <2>3. /\ sent' = [sent EXCEPT ![p] = sent[p] \cup {e}]
        /\ batch' = [batch EXCEPT ![p] = @ \ {e}]
        /\ UNCHANGED <<written, published, faults>>
    BY <1>2 DEF Publish, Advance, table
  <2>4. pc' \in [Publisher -> {"poll", "publish", "mark", "stopped"}]
    BY <1>2 DEF IInv, TypeOK, Publish, Advance
  <2>5. TypeOK'
    BY <2>2, <2>3, <2>4 DEF IInv, TypeOK
  <2>6. MarkedWasDelivered'
    BY <2>2, <2>3 DEF IInv, TypeOK, MarkedWasDelivered
  <2>7. HoldsWritten'
    BY <1>1, <2>3 DEF IInv, TypeOK, HoldsWritten
  <2>. QED
    BY <2>5, <2>6, <2>7 DEF IInv
<1>3. CASE PublishFails(p, e)
  <2>1. /\ sent' = [sent EXCEPT ![p] = sent[p]]
        /\ batch' = [batch EXCEPT ![p] = @ \ {e}]
        /\ UNCHANGED <<written, published>>
    BY <1>3 DEF PublishFails, Advance, table
  <2>2. pc' \in [Publisher -> {"poll", "publish", "mark", "stopped"}]
    BY <1>3 DEF IInv, TypeOK, PublishFails, Advance
  <2>3. faults' \in 0..MaxFaults
    BY <1>3, OutboxAssumption DEF IInv, TypeOK, PublishFails, Raises, Fault
  <2>4. /\ delivered' \in [Event -> Nat]
        /\ \A f \in Event : delivered[f] > 0 => delivered'[f] > 0
    BY <1>3, DeliveredGrows DEF IInv, TypeOK, PublishFails, Raises, Deliver
  <2>5. TypeOK'
    BY <2>1, <2>2, <2>3, <2>4 DEF IInv, TypeOK
  <2>6. MarkedWasDelivered'
    BY <2>1, <2>4 DEF IInv, TypeOK, MarkedWasDelivered
  <2>7. HoldsWritten'
    BY <2>1 DEF IInv, TypeOK, HoldsWritten
  <2>. QED
    BY <2>5, <2>6, <2>7 DEF IInv
<1>. QED
  BY <1>2, <1>3

\* Fetching, marking, stopping and restarting keep the invariant.
LEMMA InvWorker ==
  ASSUME IInv, NEW p \in Publisher,
         Fetch(p) \/ Mark(p) \/ MarkFails(p) \/ Stop(p) \/ Restart(p)
  PROVE  IInv'
<1>1. CASE Fetch(p)
  <2>1. Oldest \subseteq written
    BY DEF Oldest, Unpublished
  <2>. QED
    BY <1>1, <2>1 DEF IInv, TypeOK, MarkedWasDelivered, HoldsWritten, Fetch, table
<1>2. CASE Mark(p)
  BY <1>2 DEF IInv, TypeOK, MarkedWasDelivered, HoldsWritten, Mark
<1>3. CASE MarkFails(p)
  <2>1. faults' \in 0..MaxFaults
    BY <1>3, OutboxAssumption DEF IInv, TypeOK, MarkFails, Fault
  <2>2. /\ published' \subseteq published \cup sent[p]
        /\ UNCHANGED <<written, delivered, batch, sent>>
        /\ pc' = [pc EXCEPT ![p] = "poll"]
    BY <1>3 DEF MarkFails
  <2>. QED
    BY <2>1, <2>2 DEF IInv, TypeOK, MarkedWasDelivered, HoldsWritten
<1>4. CASE Stop(p)
  <2>1. faults' \in 0..MaxFaults
    BY <1>4, OutboxAssumption DEF IInv, TypeOK, Stop, Fault
  <2>2. /\ delivered' \in [Event -> Nat]
        /\ \A f \in Event : delivered[f] > 0 => delivered'[f] > 0
    BY <1>4, DeliveredGrows DEF IInv, TypeOK, Stop, Deliver
  <2>3. /\ published' \subseteq published \cup sent[p]
        /\ written' = written
        /\ pc' = [pc EXCEPT ![p] = "stopped"]
        /\ batch' = [batch EXCEPT ![p] = {}]
        /\ sent' = [sent EXCEPT ![p] = {}]
    BY <1>4 DEF Stop
  <2>4. TypeOK'
    BY <2>1, <2>2, <2>3 DEF IInv, TypeOK, HoldsWritten
  <2>5. MarkedWasDelivered'
    BY <2>2, <2>3 DEF IInv, TypeOK, MarkedWasDelivered
  <2>6. HoldsWritten'
    BY <2>3 DEF IInv, TypeOK, HoldsWritten
  <2>. QED
    BY <2>4, <2>5, <2>6 DEF IInv
<1>5. CASE Restart(p)
  BY <1>5 DEF IInv, TypeOK, MarkedWasDelivered, HoldsWritten, Restart, table
<1>. QED
  BY <1>1, <1>2, <1>3, <1>4, <1>5

\* Every step keeps the invariant.
LEMMA InvNext == IInv /\ [Next]_vars => IInv'
<1>. SUFFICES ASSUME IInv, [Next]_vars PROVE IInv'
  OBVIOUS
<1>1. ASSUME NEW e \in Event, Write(e) PROVE IInv'
  BY <1>1 DEF IInv, TypeOK, MarkedWasDelivered, HoldsWritten, Write, worker
<1>2. CASE UNCHANGED vars
  BY <1>2 DEF IInv, TypeOK, MarkedWasDelivered, HoldsWritten, vars, table, worker
<1>. QED
  BY <1>1, <1>2, InvPublish, InvWorker DEF Next, Work, Idle

\* The inductive invariant holds in every reachable state.
THEOREM Invariance == Spec => []IInv
  BY InvInit, InvNext, PTL DEF Spec

\* Every variable keeps its type, and only committed events are marked.
THEOREM TypeCorrect == Spec => []TypeOK
<1>1. IInv => TypeOK
  BY DEF IInv
<1>. QED
  BY <1>1, Invariance, PTL

\* No event is lost: one that is marked, or about to be, has been accepted.
THEOREM NothingLost == Spec => []MarkedWasDelivered
<1>1. IInv => MarkedWasDelivered
  BY DEF IInv
<1>. QED
  BY <1>1, Invariance, PTL

-----------------------------------------------------------------------------
\* Refinement.

Accepted == {e \in Event : delivered[e] > 0}

\* A step that leaves the table alone and at most delivers one committed event.
LEMMA AcceptOne ==
  ASSUME IInv, NEW e \in written, delivered' = [delivered EXCEPT ![e] = @ + 1],
         UNCHANGED <<written, published>>
  PROVE  Promise!Next
<1>1. e \in Event
  BY DEF IInv, TypeOK
<1>2. Accepted' = Accepted \cup {e}
  BY <1>1 DEF IInv, TypeOK, Accepted
<1>. QED
  BY <1>1, <1>2 DEF Promise!Next, Promise!Accept, Accepted

\* A step that only marks, and marks only what has been accepted.
LEMMA SettleSome ==
  ASSUME IInv, NEW p \in Publisher, published' = published \cup sent[p],
         UNCHANGED <<written, delivered>>
  PROVE  Promise!Next
<1>1. sent[p] \subseteq Accepted
  BY DEF IInv, TypeOK, MarkedWasDelivered, Accepted
<1>. QED
  BY <1>1 DEF Promise!Next, Promise!Settle, Accepted

\* Every step of the workers is a step of AtLeastOnce or changes nothing it sees.
LEMMA StepImplements == IInv /\ [Next]_vars => [Promise!Next]_(Promise!vars)
<1>. SUFFICES ASSUME IInv, [Next]_vars PROVE [Promise!Next]_(Promise!vars)
  OBVIOUS
<1>1. ASSUME NEW e \in Event, Write(e) PROVE Promise!Next
  BY <1>1 DEF Write, Promise!Next, Promise!Write
<1>2. ASSUME NEW p \in Publisher, NEW e \in Event, Publish(p, e) PROVE Promise!Next
  BY <1>2, AcceptOne DEF IInv, HoldsWritten, Publish, Deliver, Turn, table
<1>3. ASSUME NEW p \in Publisher, Mark(p) PROVE Promise!Next
  BY <1>3, SettleSome DEF Mark
<1>4. ASSUME NEW p \in Publisher, MarkFails(p) PROVE [Promise!Next]_(Promise!vars)
  BY <1>4, SettleSome DEF MarkFails, Promise!vars
<1>5. ASSUME NEW p \in Publisher, Stop(p) PROVE [Promise!Next]_(Promise!vars)
  BY <1>5, SettleSome, AcceptOne DEF IInv, HoldsWritten, Stop, Deliver, Turn, Promise!vars
<1>6. ASSUME NEW p \in Publisher, NEW e \in Event, PublishFails(p, e)
      PROVE  [Promise!Next]_(Promise!vars)
  BY <1>6, AcceptOne
  DEF IInv, HoldsWritten, PublishFails, Raises, Deliver, Turn, table, Promise!vars
<1>7. ASSUME UNCHANGED <<written, published, delivered>> PROVE UNCHANGED Promise!vars
  BY <1>7 DEF Promise!vars
<1>. QED
  BY <1>1, <1>2, <1>3, <1>4, <1>5, <1>6, <1>7
  DEF Next, Work, Idle, Fetch, Restart, vars, table

\* The publisher delivers at least once: it implements AtLeastOnce.
THEOREM Refinement == Spec => ImplementsAtLeastOnce
<1>1. Init => Promise!Init
  BY DEF Init, Promise!Init
<1>. QED
  BY <1>1, StepImplements, Invariance, PTL DEF Spec, ImplementsAtLeastOnce, Promise!Spec

-----------------------------------------------------------------------------
\* How often an event may be delivered.

\* Workers that have published e in the batch they are at and may yet mark it.
Holders(e) == {p \in Publisher : e \in sent[p] /\ pc[p] \in {"publish", "mark"}}

\* Workers that have fetched e and not yet tried it.
Pending(e) == {p \in Publisher : e \in batch[p]}

\* An event is tried once per batch, and only while publishing.
BatchShrinks ==
  \A p \in Publisher :
    /\ batch[p] # {} => pc[p] = "publish"
    /\ batch[p] \cap sent[p] = {}

\* Before an event is marked, each delivery is still held by its worker or was
\* cut short by a failure; afterwards only the workers that had fetched it
\* before will deliver it.
Tally(e) ==
  IF e \in published
  THEN delivered[e] + Cardinality(Pending(e)) <= faults + Cardinality(Publisher)
  ELSE delivered[e] <= faults + Cardinality(Holders(e))

DInv == BatchShrinks /\ \A e \in Event : Tally(e)

\* Sets of workers are finite, and one worker more or less changes their size by 1.
LEMMA Workers ==
  ASSUME NEW S \in SUBSET Publisher
  PROVE  /\ IsFiniteSet(S)
         /\ Cardinality(S) \in Nat
         /\ Cardinality(S) <= Cardinality(Publisher)
         /\ Cardinality(Publisher) \in Nat
         /\ \A p \in Publisher \ S : Cardinality(S \cup {p}) = Cardinality(S) + 1
         /\ \A p \in S : Cardinality(S \ {p}) = Cardinality(S) - 1
<1>1. IsFiniteSet(S) /\ Cardinality(S) <= Cardinality(Publisher)
  BY FS_Subset, OutboxAssumption
<1>2. Cardinality(S) \in Nat /\ Cardinality(Publisher) \in Nat
  BY <1>1, FS_CardinalityType, OutboxAssumption
<1>3. \A p \in Publisher \ S : Cardinality(S \cup {p}) = Cardinality(S) + 1
  BY <1>1, FS_AddElement
<1>4. \A p \in S : Cardinality(S \ {p}) = Cardinality(S) - 1
  BY <1>1, FS_RemoveElement
<1>. QED
  BY <1>1, <1>2, <1>3, <1>4

\* A worker holds an event or has yet to try it, never both.
LEMMA HoldersAndPending ==
  ASSUME BatchShrinks, NEW e \in Event
  PROVE  Cardinality(Holders(e)) + Cardinality(Pending(e)) <= Cardinality(Publisher)
<1>1. /\ Holders(e) \in SUBSET Publisher
      /\ Pending(e) \in SUBSET Publisher
      /\ Holders(e) \cap Pending(e) = {}
  BY DEF Holders, Pending, BatchShrinks
<1>2. Cardinality(Holders(e) \cup Pending(e))
      = Cardinality(Holders(e)) + Cardinality(Pending(e)) - Cardinality({})
  BY <1>1, FS_Union, Workers
<1>3. Holders(e) \cup Pending(e) \in SUBSET Publisher
  BY <1>1
<1>. QED
  BY <1>1, <1>2, <1>3, FS_EmptySet, Workers

\* No worker and no delivery at the start.
LEMMA DupInit == Init => DInv
<1>. SUFFICES ASSUME Init PROVE DInv
  OBVIOUS
<1>1. BatchShrinks
  BY DEF Init, BatchShrinks
<1>2. ASSUME NEW e \in Event PROVE Tally(e)
  <2>1. Holders(e) \in SUBSET Publisher
    BY DEF Holders
  <2>. QED
    BY <2>1, Workers DEF Init, Tally
<1>. QED
  BY <1>1, <1>2 DEF DInv

\* A step that delivers nothing, marks nothing, takes no event from its holders
\* unless a failure is counted, and adds no worker to a marked event.
LEMMA TallyKept ==
  ASSUME IInv, DInv, NEW e \in Event,
         faults' \in Nat, faults <= faults',
         delivered'[e] = delivered[e],
         e \in published' <=> e \in published,
         e \in published => Pending(e)' \subseteq Pending(e),
         e \notin published =>
           \/ Holders(e) \subseteq Holders(e)'
           \/ /\ faults' = faults + 1
              /\ \E p \in Publisher : Holders(e)' = Holders(e) \ {p}
  PROVE  Tally(e)'
<1>1. /\ Holders(e) \in SUBSET Publisher /\ Holders(e)' \in SUBSET Publisher
      /\ Pending(e) \in SUBSET Publisher /\ Pending(e)' \in SUBSET Publisher
  BY DEF Holders, Pending
<1>2. delivered[e] \in Nat /\ faults \in Nat /\ Tally(e)
  BY OutboxAssumption DEF IInv, TypeOK, DInv
<1>3. CASE e \in published
  <2>1. Cardinality(Pending(e)') <= Cardinality(Pending(e))
    BY <1>1, <1>3, FS_Subset, Workers
  <2>2. Cardinality(Pending(e)') \in Nat /\ Cardinality(Pending(e)) \in Nat
        /\ Cardinality(Publisher) \in Nat
    BY <1>1, Workers
  <2>. QED
    BY <1>2, <1>3, <2>1, <2>2 DEF Tally
<1>4. CASE e \notin published /\ Holders(e) \subseteq Holders(e)'
  <2>1. Cardinality(Holders(e)) <= Cardinality(Holders(e)')
    BY <1>1, <1>4, FS_Subset, Workers
  <2>2. Cardinality(Holders(e)) \in Nat /\ Cardinality(Holders(e)') \in Nat
    BY <1>1, Workers
  <2>. QED
    BY <1>2, <1>4, <2>1, <2>2 DEF Tally
<1>5. ASSUME e \notin published, faults' = faults + 1,
             NEW p \in Publisher, Holders(e)' = Holders(e) \ {p}
      PROVE  Tally(e)'
  <2>1. Cardinality(Holders(e)) <= Cardinality(Holders(e)') + 1
    <3>1. CASE p \in Holders(e)
      BY <1>1, <1>5, <3>1, Workers
    <3>2. CASE p \notin Holders(e)
      <4>1. Holders(e)' = Holders(e)
        BY <1>5, <3>2
      <4>. QED
        BY <1>1, <4>1, Workers
    <3>. QED
      BY <3>1, <3>2
  <2>2. Cardinality(Holders(e)) \in Nat /\ Cardinality(Holders(e)') \in Nat
    BY <1>1, Workers
  <2>. QED
    BY <1>2, <1>5, <2>1, <2>2 DEF Tally
<1>. QED
  BY <1>3, <1>4, <1>5

\* A step that marks an event and delivers nothing.
LEMMA TallyMarked ==
  ASSUME IInv, DInv, NEW e \in Event,
         faults' \in Nat, faults <= faults',
         delivered'[e] = delivered[e],
         e \notin published, e \in published',
         Pending(e)' \subseteq Pending(e)
  PROVE  Tally(e)'
<1>1. /\ Holders(e) \in SUBSET Publisher
      /\ Pending(e) \in SUBSET Publisher /\ Pending(e)' \in SUBSET Publisher
  BY DEF Holders, Pending
<1>2. delivered[e] \in Nat /\ faults \in Nat /\ delivered[e] <= faults + Cardinality(Holders(e))
  BY OutboxAssumption DEF IInv, TypeOK, DInv, Tally
<1>3. Cardinality(Pending(e)') <= Cardinality(Pending(e))
  BY <1>1, FS_Subset, Workers
<1>4. Cardinality(Holders(e)) + Cardinality(Pending(e)) <= Cardinality(Publisher)
  BY HoldersAndPending DEF DInv
<1>5. /\ Cardinality(Holders(e)) \in Nat /\ Cardinality(Publisher) \in Nat
      /\ Cardinality(Pending(e)) \in Nat /\ Cardinality(Pending(e)') \in Nat
  BY <1>1, Workers
<1>. QED
  BY <1>2, <1>3, <1>4, <1>5 DEF Tally

\* A delivery: the worker becomes a holder of the event, or a failure is counted,
\* and it has the event no longer to try.
LEMMA TallyDelivered ==
  ASSUME IInv, DInv, NEW e \in Event, NEW p \in Publisher,
         faults' \in Nat,
         delivered'[e] = delivered[e] + 1,
         published' = published,
         p \in Pending(e), p \notin Holders(e),
         Pending(e)' = Pending(e) \ {p},
         \/ faults' = faults /\ Holders(e)' = Holders(e) \cup {p}
         \/ faults' = faults + 1 /\ Holders(e)' = Holders(e)
  PROVE  Tally(e)'
<1>1. Holders(e) \in SUBSET Publisher /\ Pending(e) \in SUBSET Publisher
  BY DEF Holders, Pending
<1>2. delivered[e] \in Nat /\ faults \in Nat /\ Tally(e)
  BY OutboxAssumption DEF IInv, TypeOK, DInv
<1>3. Cardinality(Pending(e)') = Cardinality(Pending(e)) - 1
  BY <1>1, Workers
<1>4. Cardinality(Holders(e) \cup {p}) = Cardinality(Holders(e)) + 1
  BY <1>1, Workers
<1>5. /\ Cardinality(Holders(e)) \in Nat /\ Cardinality(Pending(e)) \in Nat
      /\ Cardinality(Publisher) \in Nat
  BY <1>1, Workers
<1>6. CASE e \in published
  BY <1>2, <1>3, <1>5, <1>6 DEF Tally
<1>7. CASE e \notin published
  <2>1. e \notin published' /\ delivered[e] <= faults + Cardinality(Holders(e))
    BY <1>2, <1>7 DEF Tally
  <2>2. delivered'[e] <= faults' + Cardinality(Holders(e)')
    <3>1. CASE faults' = faults /\ Holders(e)' = Holders(e) \cup {p}
      BY <1>2, <1>4, <1>5, <2>1, <3>1
    <3>2. CASE faults' = faults + 1 /\ Holders(e)' = Holders(e)
      BY <1>2, <1>5, <2>1, <3>2
    <3>. QED
      BY <3>1, <3>2
  <2>. QED
    BY <2>1, <2>2 DEF Tally
<1>. QED
  BY <1>6, <1>7

\* _publish_event keeps the tally: an event that is accepted and not acknowledged
\* has its failure to account for it.
LEMMA DupPublish ==
  ASSUME IInv, DInv, NEW p \in Publisher, NEW e \in Event, Publish(p, e) \/ PublishFails(p, e)
  PROVE  DInv'
<1>1. /\ pc[p] = "publish" /\ e \in batch[p] /\ e \notin sent[p]
      /\ published' = published
      /\ batch' = [batch EXCEPT ![p] = @ \ {e}]
      /\ pc' = [pc EXCEPT ![p] = pc'[p]]
      /\ sent' = [sent EXCEPT ![p] = sent'[p]]
      /\ sent'[p] = sent[p] \/ sent'[p] = sent[p] \cup {e}
      /\ pc'[p] = "publish" \/ (batch[p] = {e} /\ (pc'[p] = "mark" \/ sent'[p] = {}))
  BY DEF IInv, TypeOK, DInv, BatchShrinks, Publish, PublishFails, Advance, Turn, table
<1>2. faults \in Nat /\ faults' \in Nat /\ (faults' = faults \/ faults' = faults + 1)
  BY OutboxAssumption DEF IInv, TypeOK, Publish, PublishFails, Raises, Fault
<1>3. BatchShrinks'
  BY <1>1 DEF IInv, TypeOK, DInv, BatchShrinks
<1>4. ASSUME NEW f \in Event PROVE Pending(f)' = IF f = e THEN Pending(f) \ {p} ELSE Pending(f)
  BY <1>1 DEF IInv, TypeOK, Pending
<1>5. CASE Publish(p, e)
  <2>1. /\ delivered' = [delivered EXCEPT ![e] = @ + 1]
        /\ sent'[p] = sent[p] \cup {e}
        /\ pc'[p] \in {"publish", "mark"}
        /\ faults' = faults
    BY <1>5 DEF IInv, TypeOK, Publish, Deliver, Advance
  <2>2. ASSUME NEW f \in Event
        PROVE  Holders(f)' = IF f = e THEN Holders(f) \cup {p} ELSE Holders(f)
    BY <1>1, <2>1 DEF IInv, TypeOK, Holders
  <2>3. p \in Pending(e) /\ p \notin Holders(e)
    BY <1>1 DEF Pending, Holders
  <2>4. delivered'[e] = delivered[e] + 1
    BY <2>1 DEF IInv, TypeOK
  <2>5. Tally(e)'
    BY <1>1, <1>2, <1>4, <2>1, <2>2, <2>3, <2>4, TallyDelivered
  <2>6. ASSUME NEW f \in Event, f # e PROVE Tally(f)'
    <3>1. delivered'[f] = delivered[f] /\ faults <= faults'
      BY <1>2, <2>1, <2>6 DEF IInv, TypeOK
    <3>2. Holders(f) \subseteq Holders(f)' /\ Pending(f)' \subseteq Pending(f)
      BY <1>4, <2>2, <2>6
    <3>. QED
      BY <1>1, <1>2, <3>1, <3>2, TallyKept
  <2>. QED
    BY <1>3, <2>5, <2>6 DEF DInv
<1>6. CASE PublishFails(p, e)
  <2>1. /\ sent'[p] = sent[p]
        /\ \/ delivered' = delivered
           \/ faults' = faults + 1 /\ delivered' = [delivered EXCEPT ![e] = @ + 1]
    BY <1>6 DEF IInv, TypeOK, PublishFails, Raises, Deliver, Fault, Advance
  <2>2. ASSUME NEW f \in Event PROVE Holders(f) \subseteq Holders(f)'
    BY <1>1, <2>1 DEF IInv, TypeOK, Holders
  <2>3. ASSUME NEW f \in Event, delivered'[f] = delivered[f] PROVE Tally(f)'
    <3>1. Pending(f)' \subseteq Pending(f)
      BY <1>4
    <3>2. faults <= faults'
      BY <1>2
    <3>. QED
      BY <1>1, <1>2, <2>2, <2>3, <3>1, <3>2, TallyKept
  <2>4. CASE delivered' = delivered
    BY <1>3, <2>3, <2>4 DEF DInv
  <2>5. CASE faults' = faults + 1 /\ delivered' = [delivered EXCEPT ![e] = @ + 1]
    <3>1. p \in Pending(e) /\ p \notin Holders(e)
      BY <1>1 DEF Pending, Holders
    <3>2. Holders(e)' = Holders(e)
      BY <1>1, <2>1 DEF IInv, TypeOK, Holders
    <3>3. delivered'[e] = delivered[e] + 1
      BY <2>5 DEF IInv, TypeOK
    <3>4. Tally(e)'
      BY <1>1, <1>2, <1>4, <2>5, <3>1, <3>2, <3>3, TallyDelivered
    <3>5. ASSUME NEW f \in Event, f # e PROVE Tally(f)'
      BY <2>3, <2>5, <3>5 DEF IInv, TypeOK
    <3>. QED
      BY <1>3, <3>4, <3>5 DEF DInv
  <2>. QED
    BY <2>1, <2>4, <2>5
<1>. QED
  BY <1>5, <1>6

\* Marking moves events from their holders to the marked ones.
LEMMA DupMark ==
  ASSUME IInv, DInv, NEW p \in Publisher, Mark(p) \/ MarkFails(p)
  PROVE  DInv'
<1>1. /\ pc[p] = "mark"
      /\ pc' = [pc EXCEPT ![p] = "poll"]
      /\ UNCHANGED <<batch, sent, delivered>>
      /\ \/ published' = published \cup sent[p] /\ faults <= faults'
         \/ published' = published /\ faults' = faults + 1
  BY OutboxAssumption DEF IInv, TypeOK, Mark, MarkFails, Fault
<1>2. faults \in Nat /\ faults' \in Nat /\ faults <= faults'
  BY <1>1, OutboxAssumption DEF IInv, TypeOK, Mark, MarkFails, Fault
<1>3. BatchShrinks'
  BY <1>1 DEF IInv, TypeOK, DInv, BatchShrinks
<1>4. ASSUME NEW e \in Event PROVE Tally(e)'
  <2>1. Pending(e)' = Pending(e)
    BY <1>1 DEF Pending
  <2>2. Holders(e)' = Holders(e) \ {p}
    BY <1>1 DEF IInv, TypeOK, Holders
  <2>3. CASE e \notin published /\ e \in published'
    BY <1>1, <1>2, <2>1, <2>3, TallyMarked
  <2>4. CASE e \in published <=> e \in published'
    <3>1. e \notin published =>
            \/ Holders(e) \subseteq Holders(e)'
            \/ faults' = faults + 1 /\ Holders(e)' = Holders(e) \ {p}
      BY <1>1, <2>2, <2>4 DEF Holders
    <3>. QED
      BY <1>1, <1>2, <2>1, <2>4, <3>1, TallyKept
  <2>. QED
    BY <1>1, <2>3, <2>4
<1>. QED
  BY <1>3, <1>4 DEF DInv

\* A stop costs its worker what it holds; the failure makes up for it.
LEMMA DupStop ==
  ASSUME IInv, DInv, NEW p \in Publisher, Stop(p)
  PROVE  DInv'
<1>1. /\ pc' = [pc EXCEPT ![p] = "stopped"]
      /\ batch' = [batch EXCEPT ![p] = {}]
      /\ sent' = [sent EXCEPT ![p] = {}]
      /\ faults' = faults + 1
  BY DEF Stop, Fault
<1>2. faults \in Nat /\ faults' \in Nat /\ faults <= faults'
  BY <1>1, OutboxAssumption DEF IInv, TypeOK
<1>3. BatchShrinks'
  BY <1>1 DEF IInv, TypeOK, DInv, BatchShrinks
<1>4. ASSUME NEW e \in Event
      PROVE  Holders(e)' = Holders(e) \ {p} /\ Pending(e)' = Pending(e) \ {p}
  BY <1>1 DEF IInv, TypeOK, Holders, Pending
<1>5. ASSUME NEW e \in Event, delivered'[e] = delivered[e], published' = published
      PROVE  Tally(e)'
  BY <1>1, <1>2, <1>4, <1>5, TallyKept
<1>6. CASE UNCHANGED <<published, delivered>>
  BY <1>3, <1>5, <1>6 DEF DInv
<1>7. ASSUME NEW e \in Event, e \in batch[p], UNCHANGED published,
             delivered' = [delivered EXCEPT ![e] = @ + 1]
      PROVE  DInv'
  <2>1. p \in Pending(e) /\ p \notin Holders(e)
    BY <1>7 DEF Pending, Holders, DInv, BatchShrinks
  <2>2. Holders(e)' = Holders(e)
    BY <1>4, <2>1
  <2>3. delivered'[e] = delivered[e] + 1
    BY <1>7 DEF IInv, TypeOK
  <2>4. Tally(e)'
    BY <1>1, <1>2, <1>4, <1>7, <2>1, <2>2, <2>3, TallyDelivered
  <2>5. ASSUME NEW f \in Event, f # e PROVE Tally(f)'
    BY <1>5, <1>7, <2>5 DEF IInv, TypeOK
  <2>. QED
    BY <1>3, <2>4, <2>5 DEF DInv
<1>8. CASE published' = published \cup sent[p] /\ UNCHANGED delivered
  <2>1. ASSUME NEW e \in Event PROVE Tally(e)'
    <3>1. CASE e \notin published /\ e \in published'
      BY <1>2, <1>4, <1>8, <3>1, TallyMarked
    <3>2. CASE e \in published <=> e \in published'
      BY <1>1, <1>2, <1>4, <1>8, <3>2, TallyKept
    <3>. QED
      BY <1>8, <3>1, <3>2
  <2>. QED
    BY <1>3, <2>1 DEF DInv
<1>. QED
  BY <1>6, <1>7, <1>8 DEF Stop, Turn, Deliver

\* Fetching and restarting hold nothing yet, and only unmarked events are fetched.
LEMMA DupFetch ==
  ASSUME IInv, DInv, NEW p \in Publisher, Fetch(p) \/ Restart(p)
  PROVE  DInv'
<1>1. /\ pc[p] \in {"poll", "stopped"} /\ batch[p] = {}
      /\ UNCHANGED <<published, delivered, faults>>
      /\ batch' = [batch EXCEPT ![p] = batch'[p]]
      /\ sent' = [sent EXCEPT ![p] = sent'[p]]
      /\ pc' = [pc EXCEPT ![p] = pc'[p]]
      /\ batch'[p] \cap published = {}
      /\ \/ sent'[p] = {} /\ pc'[p] = "publish"
         \/ batch'[p] = {}
  BY DEF IInv, TypeOK, DInv, BatchShrinks, Fetch, Restart, Oldest, Unpublished, table
<1>2. BatchShrinks'
  BY <1>1 DEF IInv, TypeOK, DInv, BatchShrinks
<1>3. ASSUME NEW e \in Event PROVE Tally(e)'
  <2>1. Holders(e) \subseteq Holders(e)'
    BY <1>1 DEF IInv, TypeOK, Holders
  <2>2. e \in published => Pending(e)' \subseteq Pending(e)
    BY <1>1 DEF IInv, TypeOK, Pending
  <2>3. faults \in Nat
    BY OutboxAssumption DEF IInv, TypeOK
  <2>. QED
    BY <1>1, <2>1, <2>2, <2>3, TallyKept
<1>. QED
  BY <1>2, <1>3 DEF DInv

\* Every step keeps the tally.
LEMMA DupNext == IInv /\ DInv /\ [Next]_vars => DInv'
<1>. SUFFICES ASSUME IInv, DInv, [Next]_vars PROVE DInv'
  OBVIOUS
<1>1. CASE UNCHANGED <<published, delivered, pc, batch, sent, faults>>
  BY <1>1 DEF DInv, BatchShrinks, Tally, Holders, Pending
<1>2. ASSUME NEW e \in Event, Write(e) PROVE DInv'
  BY <1>1, <1>2 DEF Write, worker
<1>3. CASE UNCHANGED vars
  BY <1>1, <1>3 DEF vars, table, worker
<1>. QED
  BY <1>2, <1>3, DupPublish, DupMark, DupStop, DupFetch DEF Next, Work, Idle

\* An event is delivered at most once by each worker and once more for every
\* failure, however many workers share the table and wherever they are stopped.
THEOREM DuplicatesBounded == Spec => []BoundedDuplicates
<1>1. IInv /\ DInv => BoundedDuplicates
  <2>. SUFFICES ASSUME IInv, DInv, NEW e \in Event
                PROVE  delivered[e] <= faults + Cardinality(Publisher)
    BY DEF BoundedDuplicates
  <2>1. Holders(e) \in SUBSET Publisher /\ Pending(e) \in SUBSET Publisher
    BY DEF Holders, Pending
  <2>2. delivered[e] \in Nat /\ faults \in Nat /\ Tally(e)
    BY OutboxAssumption DEF IInv, TypeOK, DInv
  <2>3. /\ Cardinality(Holders(e)) \in Nat /\ Cardinality(Pending(e)) \in Nat
        /\ Cardinality(Publisher) \in Nat
        /\ Cardinality(Holders(e)) <= Cardinality(Publisher)
    BY <2>1, Workers
  <2>. QED
    BY <2>2, <2>3 DEF Tally
<1>. QED
  BY <1>1, DupInit, DupNext, Invariance, PTL DEF Spec
=============================================================================
