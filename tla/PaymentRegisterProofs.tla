------------------------ MODULE PaymentRegisterProofs ------------------------
(***************************************************************************)
(* PaymentCreation keeps its books, tells the truth about declined         *)
(* payments, and implements PaymentRegister.                               *)
(*                                                                         *)
(* The argument rests on PaymentCreationProofs and follows what a request  *)
(* holds through its transaction (Drafted): its own payment, without an    *)
(* intent until Stripe has answered, with one of its key's afterwards.     *)
(* What it commits is therefore an entry of the register, and all that the *)
(* commit writes belongs to that entry.                                    *)
(***************************************************************************)
EXTENDS PaymentCreationProofs

\* The intents that may belong to a key.
IntentOfKey == \A k \in Key : intent[k] # Null => KeyOf[intent[k]] = k

Drafted ==
  \A r \in Request :
    /\ pc[r] = "stripe" => view[r] = [id |-> r, status |-> "processing", intent |-> Null]
    /\ pc[r] = "save" =>
         /\ view[r].id = r /\ view[r].status \in IntentStatus
         /\ view[r].intent \in Request /\ KeyOf[view[r].intent] = KeyOf[r]
    /\ pc[r] = "reject" => view[r] = [id |-> r, status |-> "failed", intent |-> Null]

\* A row is the payment of a request of its key, with an intent of its key or none.
RowOfKey ==
  \A k \in Key : row[k] # Null =>
    /\ KeyOf[row[k].id] = k
    /\ row[k].intent # Null => KeyOf[row[k].intent] = k

\* Requests that are past the first lookup run the finally.
Inside ==
  \A r \in Request :
    pc[r] \in {"insert", "stripe", "save", "reject", "refresh", "store", "release", "delete"}
      => entered[r]

RInv ==
  /\ IInv /\ IntentOfKey /\ Drafted /\ RowOfKey /\ Inside
  /\ DeclinedIsRecorded /\ LedgerMatchesRows

-----------------------------------------------------------------------------
\* The invariant.

\* The invariant holds of empty stores.
LEMMA RegInit == Init => RInv
<1>. SUFFICES ASSUME Init PROVE RInv
  OBVIOUS
<1>1. IInv
  BY InvInit
<1>2. IntentOfKey /\ RowOfKey
  BY DEF Init, IntentOfKey, RowOfKey
<1>3. Drafted /\ Inside /\ DeclinedIsRecorded
  BY DEF Init, Drafted, Inside, DeclinedIsRecorded
<1>4. LedgerMatchesRows
  BY KeyAssumption DEF Init, LedgerMatchesRows
<1>. QED
  BY <1>1, <1>2, <1>3, <1>4 DEF RInv

\* A request writes rows, audit trail and outbox only when it commits.
LEMMA RequestWrites ==
  ASSUME NEW r \in Request, Progress(r) \/ Fail(r) \/ Crash(r)
  PROVE  Save(r) \/ Reject(r) \/ UNCHANGED <<row, audit, outbox>>
  BY DEF Progress, CacheHit, CacheMiss, LookupFound, LookupNone, Fill, Acquire, Conflict,
     Degrade, Insert, InsertDuplicate, StripeReply, StripeLostReply, StripeRaise, Refresh, Store,
     ReleaseNothing, ReleaseGet, Delete, Fail, Crash, local, db

\* Every step is a commit of a request, a later update of a row, or leaves rows,
\* audit trail and outbox alone.
LEMMA Writers ==
  ASSUME [Next]_vars
  PROVE  \/ \E r \in Request : Save(r) \/ Reject(r)
         \/ \E k \in Key : LaterUpdate(k)
         \/ UNCHANGED <<row, audit, outbox>>
<1>1. ASSUME NEW k \in Key, LockExpire(k) \/ CacheExpire(k)
      PROVE  UNCHANGED <<row, audit, outbox>>
  BY <1>1 DEF LockExpire, CacheExpire, db
<1>. QED
  BY <1>1, RequestWrites DEF Next, Terminating, vars, db

\* A later update changes the status of a payment with an intent.
LEMMA UpdateOfRow ==
  ASSUME TypeOK, NEW k \in Key, LaterUpdate(k)
  PROVE  /\ row[k] \in Payment /\ row[k].intent # Null /\ row'[k] \in Payment
         /\ Same(row[k], row'[k])
         /\ \A l \in Key : l # k => row'[l] = row[l]
         /\ UNCHANGED <<pc, entered, held, view, code, inserting, audit, outbox, cache, lock, intent>>
<1>1. PICK s \in LaterStatus : row' = [row EXCEPT ![k].status = s]
  BY DEF LaterUpdate
<1>2. row[k] \in Payment /\ row[k].intent # Null
  BY DEF TypeOK, LaterUpdate
<1>3. row'[k] = [row[k] EXCEPT !.status = s] /\ \A l \in Key : l # k => row'[l] = row[l]
  BY <1>1 DEF TypeOK
<1>4. row'[k] \in Payment /\ Same(row[k], row'[k])
  <2>1. s \in Status /\ Null \in Request \cup {Null}
    BY StatusAssumption
  <2>. QED
    BY <1>2, <1>3, <2>1, StatusUpdate
<1>. QED
  BY <1>2, <1>3, <1>4 DEF LaterUpdate, local, redis

\* Stripe keeps one intent for each key, and it was made for that key.
LEMMA IntentNext == RInv /\ [Next]_vars => IntentOfKey'
<1>. SUFFICES ASSUME RInv, [Next]_vars PROVE IntentOfKey'
  OBVIOUS
<1>0. TypeOK /\ IntentOfKey
  BY DEF RInv, IInv
<1>1. ASSUME NEW r \in Request, StripeReply(r) \/ StripeLostReply(r) PROVE IntentOfKey'
  <2>1. intent' = [intent EXCEPT ![KeyOf[r]] = IntentAt(KeyOf[r], r)]
    BY <1>1 DEF StripeReply, StripeLostReply
  <2>. QED
    BY <1>0, <2>1, KeyAssumption, NullAssumption DEF IntentOfKey, IntentAt, TypeOK
<1>2. ASSUME NEW r \in Request, Progress(r) \/ Fail(r) \/ Crash(r),
             ~(StripeReply(r) \/ StripeLostReply(r))
      PROVE  intent' = intent
  BY <1>2 DEF Progress, CacheHit, CacheMiss, LookupFound, LookupNone, Fill, Acquire, Conflict,
     Degrade, Insert, InsertDuplicate, StripeRaise, Save, Reject, Refresh, Store,
     ReleaseNothing, ReleaseGet, Delete, Fail, Crash
<1>3. ASSUME NEW k \in Key, LockExpire(k) \/ CacheExpire(k) \/ LaterUpdate(k)
      PROVE  intent' = intent
  BY <1>3 DEF LockExpire, CacheExpire, LaterUpdate
<1>4. intent' = intent => IntentOfKey'
  BY <1>0 DEF IntentOfKey
<1>. QED
  BY <1>1, <1>2, <1>3, <1>4 DEF Next, Terminating, vars

\* A request holds its own payment until it has committed it, and every request
\* past the first lookup runs the finally.
LEMMA DraftedNext == RInv /\ [Next]_vars => Drafted' /\ Inside'
<1>. SUFFICES ASSUME RInv, [Next]_vars PROVE Drafted' /\ Inside'
  OBVIOUS
<1>0. TypeOK /\ Drafted /\ Inside /\ IntentOfKey
  BY DEF RInv, IInv
<1>1. ASSUME NEW r \in Request, CacheHit(r) \/ CacheMiss(r) \/ LookupFound(r) \/ LookupNone(r)
                                \/ Fill(r)
      PROVE  Drafted' /\ Inside'
  BY <1>0, <1>1 DEF TypeOK, Drafted, Inside, CacheHit, CacheMiss, LookupFound, LookupNone, Fill,
     Answer, Goto, WayOut
<1>2. ASSUME NEW r \in Request, Acquire(r) \/ Conflict(r) \/ Degrade(r)
                                \/ ReleaseNothing(r) \/ ReleaseGet(r) \/ Delete(r)
      PROVE  Drafted' /\ Inside'
  BY <1>0, <1>2 DEF TypeOK, Drafted, Inside, Acquire, Conflict, Degrade, ReleaseNothing,
     ReleaseGet, Delete, Goto
<1>3. ASSUME NEW r \in Request, Insert(r) \/ InsertDuplicate(r) \/ Refresh(r) \/ Store(r)
                                \/ Fail(r) \/ Crash(r)
      PROVE  Drafted' /\ Inside'
  BY <1>0, <1>3 DEF TypeOK, Drafted, Inside, Insert, InsertDuplicate, Refresh, Store, Fail, Crash,
     Answer, Goto, WayOut
<1>4. ASSUME NEW r \in Request, StripeReply(r)
      PROVE  Drafted' /\ Inside'
  <2>1. PICK s \in IntentStatus :
          view' = [view EXCEPT ![r] = [@ EXCEPT !.status = s,
                                                !.intent = IntentAt(KeyOf[r], r)]]
    BY <1>4 DEF StripeReply
  <2>2. view[r] = [id |-> r, status |-> "processing", intent |-> Null]
    BY <1>0, <1>4 DEF Drafted, StripeReply
  <2>3. view'[r].id = r /\ view'[r].status = s /\ view'[r].intent = IntentAt(KeyOf[r], r)
    <3>1. view'[r] = [view[r] EXCEPT !.status = s, !.intent = IntentAt(KeyOf[r], r)]
      BY <1>0, <2>1 DEF TypeOK
    <3>2. view[r] \in [id : {r}, status : {"processing"}, intent : {Null}]
      BY <2>2
    <3>. QED
      BY <3>1, <3>2
  <2>4. IntentAt(KeyOf[r], r) \in Request /\ KeyOf[IntentAt(KeyOf[r], r)] = KeyOf[r]
    BY <1>0, KeyAssumption DEF TypeOK, IntentOfKey, IntentAt
  <2>5. /\ pc' = [pc EXCEPT ![r] = "save"] /\ pc[r] = "stripe" /\ UNCHANGED entered
        /\ \A q \in Request : q # r => view'[q] = view[q]
    BY <1>0, <1>4, <2>1 DEF TypeOK, StripeReply, Goto
  <2>. QED
    BY <1>0, <2>3, <2>4, <2>5 DEF TypeOK, Drafted, Inside
<1>5. ASSUME NEW r \in Request, StripeRaise(r)
      PROVE  Drafted' /\ Inside'
  <2>1. view[r] = [id |-> r, status |-> "processing", intent |-> Null]
    BY <1>0, <1>5 DEF Drafted, StripeRaise
  <2>2. view'[r] = [id |-> r, status |-> "failed", intent |-> Null]
    BY <1>0, <1>5, <2>1 DEF TypeOK, StripeRaise
  <2>. QED
    BY <1>0, <1>5, <2>2 DEF TypeOK, Drafted, Inside, StripeRaise, Goto
<1>6. ASSUME NEW r \in Request, StripeLostReply(r) \/ Save(r) \/ Reject(r)
      PROVE  Drafted' /\ Inside'
  BY <1>0, <1>6 DEF TypeOK, Drafted, Inside, StripeLostReply, Save, Reject, Answer, Goto, WayOut,
     local
<1>7. ASSUME NEW k \in Key, LockExpire(k) \/ CacheExpire(k) \/ LaterUpdate(k)
      PROVE  Drafted' /\ Inside'
  BY <1>0, <1>7 DEF Drafted, Inside, LockExpire, CacheExpire, LaterUpdate, local
<1>8. CASE UNCHANGED vars
  BY <1>0, <1>8 DEF Drafted, Inside, vars, local
<1>. QED
  BY <1>1, <1>2, <1>3, <1>4, <1>5, <1>6, <1>7, <1>8 DEF Next, Progress, Terminating

\* What a step of a request makes it hold: what it held, what the row or the cache
\* of its key shows, or a payment without an intent or as Stripe has it; and what
\* it leaves in the cache.
LEMMA ViewSources ==
  ASSUME RInv, NEW r \in Request, Progress(r) \/ Fail(r) \/ Crash(r)
  PROVE  /\ \/ view'[r] \in {view[r], row[KeyOf[r]], cache[KeyOf[r]]}
            \/ view'[r].intent = Null
            \/ view'[r].status \in IntentStatus
         /\ \A q \in Request : q # r => view'[q] = view[q]
         /\ \A k \in Key : cache'[k] \in {cache[k], view[r]}
<1>0. TypeOK /\ Drafted /\ KeyOf[r] \in Key
  BY KeyAssumption DEF RInv, IInv
<1>1. CASE UNCHANGED view
  <2>1. \A k \in Key : cache'[k] \in {cache[k], view[r]}
    BY <1>0, <1>1 DEF TypeOK, Progress, CacheHit, CacheMiss, LookupFound, LookupNone, Fill,
       Acquire, Conflict, Degrade, Insert, InsertDuplicate, StripeReply, StripeLostReply,
       StripeRaise, Save, Reject, Refresh, Store, ReleaseNothing, ReleaseGet, Delete, Fail, Crash,
       WriteCache, local, redis
  <2>. QED
    BY <1>1, <2>1
<1>2. CASE CacheHit(r) \/ LookupFound(r) \/ Refresh(r)
  BY <1>0, <1>2 DEF TypeOK, CacheHit, LookupFound, Refresh, redis
<1>3. CASE Insert(r)
  <2>1. view' = [view EXCEPT ![r] = [id |-> r, status |-> "processing", intent |-> Null]]
    BY <1>3 DEF Insert
  <2>2. view'[r] = [id |-> r, status |-> "processing", intent |-> Null]
    BY <1>0, <2>1 DEF TypeOK
  <2>. QED
    BY <1>0, <1>3, <2>1, <2>2 DEF TypeOK, Insert, redis
<1>4. CASE StripeRaise(r)
  <2>1. /\ view[r] = [id |-> r, status |-> "processing", intent |-> Null]
        /\ view' = [view EXCEPT ![r] = [@ EXCEPT !.status = "failed"]]
    BY <1>0, <1>4 DEF Drafted, StripeRaise
  <2>2. view'[r] = [id |-> r, status |-> "failed", intent |-> Null]
    BY <1>0, <2>1 DEF TypeOK
  <2>. QED
    BY <1>0, <1>4, <2>1, <2>2 DEF TypeOK, StripeRaise, redis
<1>5. CASE StripeReply(r)
  <2>1. PICK s \in IntentStatus :
          view' = [view EXCEPT ![r] = [@ EXCEPT !.status = s,
                                                !.intent = IntentAt(KeyOf[r], r)]]
    BY <1>5 DEF StripeReply
  <2>2. view[r] \in [id : {r}, status : {"processing"}, intent : {Null}]
    <3>1. view[r] = [id |-> r, status |-> "processing", intent |-> Null]
      BY <1>0, <1>5 DEF Drafted, StripeReply
    <3>. QED
      BY <3>1
  <2>3. view'[r] = [view[r] EXCEPT !.status = s, !.intent = IntentAt(KeyOf[r], r)]
    BY <1>0, <2>1 DEF TypeOK
  <2>4. view'[r].status = s
    BY <2>2, <2>3
  <2>. QED
    BY <1>0, <1>5, <2>1, <2>4 DEF TypeOK, StripeReply, redis
<1>. QED
  BY <1>1, <1>2, <1>3, <1>4, <1>5 DEF Progress, CacheMiss, LookupNone, Fill, Acquire, Conflict,
     Degrade, InsertDuplicate, StripeLostReply, Save, Reject, Store, ReleaseNothing, ReleaseGet,
     Delete, Fail, Crash, local

-----------------------------------------------------------------------------
\* What a commit records.

EventsFor(p) == IF p.intent = Null THEN RejectedEvents ELSE SavedEvents

\* A commit records the request's own payment for a key that had none, with an
\* intent of the key or none, and with the events and notice that belong to it.
LEMMA CommitRecords ==
  ASSUME RInv, NEW r \in Request, Save(r) \/ Reject(r)
  PROVE  /\ KeyOf[r] \in Key /\ row[KeyOf[r]] = Null
         /\ view[r] \in Payment /\ view[r] # Null /\ view[r].id = r
         /\ view[r].intent # Null => KeyOf[view[r].intent] = KeyOf[r]
         /\ view[r].intent # Null => view[r].status \in IntentStatus
         /\ view[r].intent = Null => view[r].status = "failed"
         /\ row' = [row EXCEPT ![KeyOf[r]] = view[r]]
         /\ audit' = audit \cup ({r} \X EventsFor(view[r]))
         /\ outbox' = IF view[r].intent = Null THEN outbox ELSE outbox \cup {r}
         /\ UNCHANGED view
<1>0. TypeOK /\ KeyOf[r] \in Key /\ Null \notin Request /\ Null \notin Payment
  BY KeyAssumption, NullAssumption DEF RInv, IInv
<1>1. InTransaction(r)
  BY DEF Save, Reject, InTransaction
<1>2. inserting[KeyOf[r]] = r /\ row[KeyOf[r]] = Null /\ view[r] \in Payment
  BY <1>0, <1>1 DEF RInv, IInv, TypeOK, Owner, IndexFree, Shown
<1>3. CASE Save(r)
  <2>1. /\ view[r].id = r /\ view[r].intent \in Request /\ view[r].status \in IntentStatus
        /\ KeyOf[view[r].intent] = KeyOf[r]
    BY <1>3 DEF RInv, Drafted, Save
  <2>2. Commit(r, SavedEvents, {r}) /\ UNCHANGED view
    BY <1>3 DEF Save
  <2>3. EventsFor(view[r]) = SavedEvents /\ view[r].intent # Null /\ view[r] # Null
    BY <1>0, <1>2, <2>1 DEF EventsFor
  <2>. QED
    <3>1. row' = [row EXCEPT ![KeyOf[r]] = view[r]]
      BY <2>2 DEF Commit
    <3>2. audit' = audit \cup ({r} \X EventsFor(view[r]))
      BY <2>2, <2>3 DEF Commit
    <3>3. outbox' = IF view[r].intent = Null THEN outbox ELSE outbox \cup {r}
      BY <2>2, <2>3 DEF Commit
    <3>. QED
      BY <1>0, <1>2, <2>1, <2>2, <2>3, <3>1, <3>2, <3>3
<1>4. CASE Reject(r)
  <2>0. view[r] = [id |-> r, status |-> "failed", intent |-> Null]
    BY <1>4 DEF RInv, Drafted, Reject
  <2>1. view[r].id = r /\ view[r].intent = Null /\ view[r].status = "failed"
    BY <2>0
  <2>2. Commit(r, RejectedEvents, {}) /\ UNCHANGED view
    BY <1>4 DEF Reject
  <2>3. EventsFor(view[r]) = RejectedEvents /\ view[r] # Null
    BY <1>0, <1>2, <2>1 DEF EventsFor
  <2>. QED
    BY <1>0, <1>2, <2>1, <2>2, <2>3 DEF Commit
<1>. QED
  BY <1>3, <1>4

\* Rows stay payments of their key.
LEMMA RowNext == RInv /\ [Next]_vars => RowOfKey'
<1>. SUFFICES ASSUME RInv, [Next]_vars PROVE RowOfKey'
  OBVIOUS
<1>0. TypeOK /\ RowOfKey
  BY DEF RInv, IInv
<1>1. ASSUME NEW r \in Request, Save(r) \/ Reject(r) PROVE RowOfKey'
  BY <1>0, <1>1, CommitRecords DEF TypeOK, RowOfKey
<1>2. ASSUME NEW k \in Key, LaterUpdate(k) PROVE RowOfKey'
  BY <1>0, <1>2, UpdateOfRow, NullAssumption DEF TypeOK, RowOfKey, Same
<1>3. CASE UNCHANGED row
  BY <1>0, <1>3 DEF RowOfKey
<1>. QED
  BY <1>1, <1>2, <1>3, Writers

\* Audit trail and outbox stay those of the rows.
LEMMA LedgerNext == RInv /\ [Next]_vars => LedgerMatchesRows'
<1>. SUFFICES ASSUME RInv, [Next]_vars PROVE LedgerMatchesRows'
  OBVIOUS
<1>0. TypeOK /\ LedgerMatchesRows /\ \A r \in Request : KeyOf[r] \in Key
  BY KeyAssumption DEF RInv, IInv
<1>1. ASSUME NEW r \in Request, Save(r) \/ Reject(r) PROVE LedgerMatchesRows'
  <2>1. /\ row[KeyOf[r]] = Null
        /\ view[r] # Null /\ view[r].id = r
        /\ row' = [row EXCEPT ![KeyOf[r]] = view[r]]
        /\ audit' = audit \cup ({r} \X EventsFor(view[r]))
        /\ outbox' = IF view[r].intent = Null THEN outbox ELSE outbox \cup {r}
    BY <1>1, CommitRecords
  <2>2. /\ row'[KeyOf[r]] = view[r]
        /\ \A q \in Request : KeyOf[q] # KeyOf[r] => row'[KeyOf[q]] = row[KeyOf[q]]
        /\ \A q \in Request : KeyOf[q] = KeyOf[r] => row'[KeyOf[q]] = view[r]
    BY <1>0, <2>1 DEF TypeOK
  <2>3. r \notin outbox
    BY <1>0, <2>1 DEF LedgerMatchesRows
  <2>4. outbox' = {q \in Request : row'[KeyOf[q]] # Null /\ row'[KeyOf[q]].id = q
                                   /\ row'[KeyOf[q]].intent # Null}
    <3>1. ASSUME NEW q \in Request
          PROVE  q \in outbox' <=> /\ row'[KeyOf[q]] # Null /\ row'[KeyOf[q]].id = q
                                   /\ row'[KeyOf[q]].intent # Null
      <4>1. q \in outbox <=> /\ row[KeyOf[q]] # Null /\ row[KeyOf[q]].id = q
                             /\ row[KeyOf[q]].intent # Null
        BY <1>0 DEF LedgerMatchesRows
      <4>. QED
        BY <2>1, <2>2, <4>1
    <3>2. outbox' \subseteq Request
      BY <1>0, <2>1 DEF TypeOK
    <3>. QED
      BY <3>1, <3>2
  <2>5. ASSUME NEW q \in Request
        PROVE  {e \in EventType : <<q, e>> \in audit'} =
                 IF row'[KeyOf[q]] = Null \/ row'[KeyOf[q]].id # q THEN {}
                 ELSE IF row'[KeyOf[q]].intent = Null THEN RejectedEvents
                 ELSE SavedEvents
    <3>1. {e \in EventType : <<q, e>> \in audit} =
            IF row[KeyOf[q]] = Null \/ row[KeyOf[q]].id # q THEN {}
            ELSE IF row[KeyOf[q]].intent = Null THEN RejectedEvents
            ELSE SavedEvents
      BY <1>0 DEF LedgerMatchesRows
    <3>2. CASE q = r
      <4>1. {e \in EventType : <<q, e>> \in audit} = {}
        BY <2>1, <3>1, <3>2
      <4>2. EventsFor(view[r]) \subseteq EventType
        BY DEF EventsFor, RejectedEvents, SavedEvents, EventType
      <4>3. {e \in EventType : <<q, e>> \in audit'} = EventsFor(view[r])
        BY <2>1, <3>2, <4>1, <4>2
      <4>. QED
        BY <2>1, <2>2, <3>2, <4>3 DEF EventsFor
    <3>3. CASE q # r
      <4>1. \A e \in EventType : <<q, e>> \in audit' <=> <<q, e>> \in audit
        BY <2>1, <3>3
      <4>2. {e \in EventType : <<q, e>> \in audit'} = {e \in EventType : <<q, e>> \in audit}
        BY <4>1
      <4>3. CASE KeyOf[q] = KeyOf[r]
        BY <2>1, <2>2, <3>1, <3>3, <4>2, <4>3
      <4>4. CASE KeyOf[q] # KeyOf[r]
        BY <2>2, <3>1, <4>2, <4>4
      <4>. QED
        BY <4>3, <4>4
    <3>. QED
      BY <3>2, <3>3
  <2>. QED
    BY <2>4, <2>5 DEF LedgerMatchesRows
<1>2. ASSUME NEW k \in Key, LaterUpdate(k) PROVE LedgerMatchesRows'
  <2>1. \A l \in Key : /\ row'[l] = Null <=> row[l] = Null
                       /\ row[l] # Null => row'[l].id = row[l].id /\ row'[l].intent = row[l].intent
    BY <1>0, <1>2, UpdateOfRow, NullAssumption DEF TypeOK, Same
  <2>2. UNCHANGED <<audit, outbox>>
    BY <1>2 DEF LaterUpdate
  <2>3. outbox' = {q \in Request : row'[KeyOf[q]] # Null /\ row'[KeyOf[q]].id = q
                                   /\ row'[KeyOf[q]].intent # Null}
    BY <1>0, <2>1, <2>2 DEF LedgerMatchesRows
  <2>4. ASSUME NEW q \in Request
        PROVE  {e \in EventType : <<q, e>> \in audit'} =
                 IF row'[KeyOf[q]] = Null \/ row'[KeyOf[q]].id # q THEN {}
                 ELSE IF row'[KeyOf[q]].intent = Null THEN RejectedEvents
                 ELSE SavedEvents
    BY <1>0, <2>1, <2>2 DEF LedgerMatchesRows
  <2>. QED
    BY <2>3, <2>4 DEF LedgerMatchesRows
<1>3. CASE UNCHANGED <<row, audit, outbox>>
  BY <1>0, <1>3 DEF LedgerMatchesRows
<1>. QED
  BY <1>1, <1>2, <1>3, Writers

\* Who is told that its payment was declined has recorded it so, for good.
LEMMA DeclinedNext == RInv /\ [Next]_vars => DeclinedIsRecorded'
<1>. SUFFICES ASSUME RInv, [Next]_vars PROVE DeclinedIsRecorded'
  OBVIOUS
<1>0. TypeOK /\ DeclinedIsRecorded /\ Null \notin Payment /\ \A r \in Request : KeyOf[r] \in Key
  BY KeyAssumption, NullAssumption DEF RInv, IInv
<1>1. ASSUME NEW r \in Request, Save(r) \/ Reject(r) PROVE DeclinedIsRecorded'
  <2>1. row[KeyOf[r]] = Null /\ row' = [row EXCEPT ![KeyOf[r]] = view[r]]
    BY <1>1, CommitRecords
  <2>2. \A q \in Request : code[q] \in {"422", "503"} => KeyOf[q] # KeyOf[r]
    <3>1. ASSUME NEW q \in Request, code[q] \in {"422", "503"}
          PROVE  row[KeyOf[q]] \in Payment
      <4>1. row[KeyOf[q]] = [id |-> q, status |-> "failed", intent |-> Null]
        BY <1>0, <3>1 DEF DeclinedIsRecorded
      <4>. QED
        BY <4>1 DEF Payment, Status
    <3>. QED
      BY <1>0, <2>1, <3>1
  <2>3. code[r] = "none" /\ \A q \in Request : q # r => code'[q] = code[q]
    BY <1>0, <1>1 DEF TypeOK, Save, Reject, Answer, RInv, IInv, Undecisive, Undecided
  <2>4. code'[r] \in {"422", "503"} =>
          view[r] = [id |-> r, status |-> "failed", intent |-> Null]
    BY <1>0, <1>1, <2>3 DEF TypeOK, Save, Reject, Answer, RInv, Drafted
  <2>. QED
    BY <1>0, <2>1, <2>2, <2>3, <2>4 DEF TypeOK, DeclinedIsRecorded
<1>2. ASSUME NEW k \in Key, LaterUpdate(k) PROVE DeclinedIsRecorded'
  BY <1>0, <1>2, UpdateOfRow DEF DeclinedIsRecorded
<1>3. ASSUME NEW r \in Request, Progress(r) \/ Fail(r) \/ Crash(r), ~(Save(r) \/ Reject(r))
      PROVE  /\ UNCHANGED row
             /\ \A q \in Request : code'[q] \in {"422", "503"} => code[q] = code'[q]
  BY <1>0, <1>3 DEF TypeOK, Progress, CacheHit, CacheMiss, LookupFound, LookupNone, Fill, Acquire,
     Conflict, Degrade, Insert, InsertDuplicate, StripeReply, StripeLostReply, StripeRaise,
     Refresh, Store, ReleaseNothing, ReleaseGet, Delete, Fail, Crash, Answer, local, db
<1>4. ASSUME NEW k \in Key, LockExpire(k) \/ CacheExpire(k)
      PROVE  UNCHANGED <<row, code>>
  BY <1>4 DEF LockExpire, CacheExpire, local, db
<1>5. (/\ UNCHANGED row
       /\ \A q \in Request : code'[q] \in {"422", "503"} => code[q] = code'[q])
        => DeclinedIsRecorded'
  BY <1>0 DEF DeclinedIsRecorded
<1>. QED
  BY <1>1, <1>2, <1>3, <1>4, <1>5 DEF Next, Terminating, vars, local, db

\* Every step keeps the invariant.
LEMMA RegNext == RInv /\ [Next]_vars => RInv'
  BY InvNext, IntentNext, DraftedNext, RowNext, LedgerNext, DeclinedNext DEF RInv

\* The strengthened invariant holds in every reachable state.
THEOREM RegInvariance == Spec => []RInv
  BY RegInit, RegNext, PTL DEF Spec

\* A 422 or 503 is the truth about the record, for good.
THEOREM DeclinedForGood == Spec => []DeclinedIsRecorded
<1>1. RInv => DeclinedIsRecorded
  BY DEF RInv
<1>. QED
  BY <1>1, RegInvariance, PTL

\* Audit trail and outbox hold exactly the events of the recorded payments.
THEOREM LedgerAgrees == Spec => []LedgerMatchesRows
<1>1. RInv => LedgerMatchesRows
  BY DEF RInv
<1>. QED
  BY <1>1, RegInvariance, PTL

-----------------------------------------------------------------------------
\* The refinement.

Recorded == [k \in Key |-> Entry(row[k])]
Verdict  == [r \in Request |-> Told(r)]
Seen     == [r \in Request |-> IF Told(r) = "payment" THEN Entry(view[r]) ELSE Null]

\* What a request is told, by where it is and the code it has.
LEMMA ToldBy ==
  ASSUME NEW r \in Request
  PROVE  /\ pc[r] # "done" => Told(r) = "none"
         /\ (pc[r] = "done" /\ code[r] = "201") => Told(r) = "payment"
         /\ (pc[r] = "done" /\ code[r] \in {"422", "503"}) => Told(r) = "declined"
         /\ (pc[r] = "done" /\ code[r] \notin {"201", "422", "503"}) => Told(r) = "refused"
<1>1. CASE pc[r] # "done"
  BY <1>1, Zenon DEF Told
<1>2. CASE pc[r] = "done" /\ code[r] = "201"
  BY <1>2, Zenon DEF Told
<1>3. CASE pc[r] = "done" /\ code[r] \in {"422", "503"}
  BY <1>3 DEF Told
<1>4. CASE pc[r] = "done" /\ code[r] \notin {"201", "422", "503"}
  BY <1>4 DEF Told
<1>. QED
  BY <1>1, <1>2, <1>3, <1>4

\* The same after a step.
LEMMA ToldNext ==
  ASSUME NEW r \in Request
  PROVE  /\ pc'[r] # "done" => Told(r)' = "none"
         /\ (pc'[r] = "done" /\ code'[r] = "201") => Told(r)' = "payment"
         /\ (pc'[r] = "done" /\ code'[r] \in {"422", "503"}) => Told(r)' = "declined"
         /\ (pc'[r] = "done" /\ code'[r] \notin {"201", "422", "503"}) => Told(r)' = "refused"
<1>1. CASE pc'[r] # "done"
  BY <1>1, Zenon DEF Told
<1>2. CASE pc'[r] = "done" /\ code'[r] = "201"
  BY <1>2, Zenon DEF Told
<1>3. CASE pc'[r] = "done" /\ code'[r] \in {"422", "503"}
  BY <1>3 DEF Told
<1>4. CASE pc'[r] = "done" /\ code'[r] \notin {"201", "422", "503"}
  BY <1>4 DEF Told
<1>. QED
  BY <1>1, <1>2, <1>3, <1>4

\* Entries of payments that are the same but for the status are equal.
LEMMA EntryOfSame ==
  ASSUME NEW p \in Payment, NEW q \in Payment, Same(p, q)
  PROVE  Entry(p) = Entry(q) /\ Entry(p) = [id |-> p.id, intent |-> p.intent]
  BY NullAssumption DEF Entry, Same

\* No entry of the register is "no value".
LEMMA NullIsNoEntry == \A p \in Payment : [id |-> p.id, intent |-> p.intent] # Null
  BY NullAssumption DEF Payment

\* A request moves only itself, and only while it is not done.
LEMMA OneMoves ==
  ASSUME TypeOK, NEW r \in Request, Progress(r) \/ Fail(r) \/ Crash(r)
  PROVE  /\ pc[r] # "done"
         /\ \A q \in Request : q # r => pc'[q] = pc[q] /\ code'[q] = code[q] /\ view'[q] = view[q]
<1>1. CASE Fail(r) \/ Crash(r)
  BY <1>1 DEF TypeOK, Fail, Crash, Answer, Goto
<1>2. CASE CacheHit(r) \/ CacheMiss(r) \/ LookupFound(r) \/ LookupNone(r) \/ Fill(r)
  BY <1>2 DEF TypeOK, CacheHit, CacheMiss, LookupFound, LookupNone, Fill, Answer, Goto
<1>3. CASE \/ Acquire(r) \/ Conflict(r) \/ Degrade(r)
           \/ ReleaseNothing(r) \/ ReleaseGet(r) \/ Delete(r)
  BY <1>3 DEF TypeOK, Acquire, Conflict, Degrade, ReleaseNothing, ReleaseGet, Delete, Goto
<1>4. CASE \/ Insert(r) \/ InsertDuplicate(r) \/ StripeReply(r) \/ StripeLostReply(r)
           \/ StripeRaise(r)
  BY <1>4 DEF TypeOK, Insert, InsertDuplicate, StripeReply, StripeLostReply, StripeRaise, Answer,
     Goto, local
<1>5. CASE Save(r) \/ Reject(r) \/ Refresh(r) \/ Store(r)
  BY <1>5 DEF TypeOK, Save, Reject, Refresh, Store, Answer, Goto
<1>. QED
  BY <1>1, <1>2, <1>3, <1>4, <1>5 DEF Progress

\* A commit is the register's Record.
LEMMA CommitIsRecord ==
  ASSUME RInv, NEW r \in Request, Save(r) \/ Reject(r)
  PROVE  Register!Record(KeyOf[r])
<1>. DEFINE k == KeyOf[r]
<1>0. TypeOK /\ k \in Key /\ Null \notin Payment
  BY KeyAssumption, NullAssumption DEF RInv, IInv
<1>1. /\ row[k] = Null /\ view[r] \in Payment /\ view[r].id = r
      /\ view[r].intent # Null => KeyOf[view[r].intent] = k
      /\ row' = [row EXCEPT ![k] = view[r]]
      /\ UNCHANGED view
  BY CommitRecords
<1>2. pc'[r] # "done"
  BY <1>0 DEF RInv, Inside, TypeOK, Save, Reject, Answer, Goto, WayOut
<1>3. UNCHANGED <<Verdict, Seen>>
  <2>1. \A q \in Request : Told(q)' = Told(q) /\ (q # r \/ Told(q) # "payment")
    <3>1. ASSUME NEW q \in Request, q # r
          PROVE  pc'[q] = pc[q] /\ code'[q] = code[q]
      BY <1>0, <3>1, OneMoves DEF Progress
    <3>2. Told(r) = "none" /\ Told(r)' = "none"
      BY <1>0, <1>2, OneMoves, ToldBy, ToldNext DEF Progress
    <3>3. ASSUME NEW q \in Request, q # r PROVE Told(q)' = Told(q)
      BY <3>1, <3>3 DEF Told
    <3>. QED
      BY <3>2, <3>3
  <2>. QED
    BY <1>1, <2>1 DEF Verdict, Seen, Entry
<1>4. Recorded[k] = Null /\ Recorded' = [Recorded EXCEPT ![k] = Entry(view[r])]
  BY <1>0, <1>1 DEF Recorded, Entry, TypeOK
<1>5. Entry(view[r]) \in Register!Entry(k)
  <2>1. Entry(view[r]) = [id |-> view[r].id, intent |-> view[r].intent]
    BY <1>0, <1>1 DEF Entry
  <2>2. view[r].intent \in Request \cup {Null}
    BY <1>1 DEF Payment
  <2>. QED
    BY <1>1, <2>1, <2>2 DEF Register!Entry, Register!Asking
<1>. QED
  BY <1>3, <1>4, <1>5 DEF Register!Record, Recorded, Verdict, Seen

\* The end of a request is an answer of the register.
LEMMA EndIsAnswer ==
  ASSUME RInv, RInv', NEW r \in Request, pc[r] # "done", pc'[r] = "done",
         \A q \in Request : q # r => pc'[q] = pc[q] /\ code'[q] = code[q] /\ view'[q] = view[q],
         UNCHANGED row
  PROVE  Register!Show(r) \/ Register!Decline(r) \/ Register!Refuse(r)
<1>0. /\ TypeOK /\ TypeOK' /\ KeyOf[r] \in Key /\ Null \notin Payment
      /\ UNCHANGED Recorded /\ Told(r) = "none" /\ Recorded[KeyOf[r]] = Entry(row[KeyOf[r]])
  BY KeyAssumption, NullAssumption, ToldBy DEF RInv, IInv, Recorded
<1>1. \A q \in Request : q # r => Told(q)' = Told(q) /\ view'[q] = view[q]
  BY DEF Told
<1>2. Verdict' = [Verdict EXCEPT ![r] = Told(r)'] /\ Verdict[r] = "none"
  BY <1>0, <1>1 DEF Verdict
<1>3. Told(r)' # "payment" => UNCHANGED Seen
  BY <1>0, <1>1 DEF Seen
<1>4. CASE code'[r] = "201"
  <2>1. Told(r)' = "payment"
    BY <1>4, ToldNext
  <2>2. view'[r] \in Payment /\ row[KeyOf[r]] \in Payment /\ Same(view'[r], row[KeyOf[r]])
    BY <1>0, <1>4 DEF RInv, IInv, Shown, TypeOK
  <2>3. Entry(view'[r]) = Recorded[KeyOf[r]] /\ Recorded[KeyOf[r]] # Null
    <3>1. Entry(view'[r]) = Entry(row[KeyOf[r]])
      BY <2>2, EntryOfSame
    <3>2. Entry(row[KeyOf[r]]) # Null
      BY <1>0, <2>2, NullIsNoEntry DEF Entry
    <3>. QED
      BY <1>0, <3>1, <3>2
  <2>4. Seen' = [Seen EXCEPT ![r] = Recorded[KeyOf[r]]]
    BY <1>0, <1>1, <2>1, <2>3 DEF Seen
  <2>5. Register!Show(r)
    BY <1>0, <1>2, <2>1, <2>3, <2>4 DEF Register!Show, Register!Tell, Recorded, Verdict, Seen
  <2>. QED
    BY <2>5
<1>5. CASE code'[r] \in {"422", "503"}
  <2>1. Told(r)' = "declined"
    BY <1>5, ToldNext
  <2>2. row[KeyOf[r]] = [id |-> r, status |-> "failed", intent |-> Null]
    BY <1>0, <1>5 DEF RInv, DeclinedIsRecorded
  <2>3. row[KeyOf[r]] \in Payment
    BY <2>2 DEF Payment, Status
  <2>4. Recorded[KeyOf[r]] = [id |-> r, intent |-> Null]
    BY <1>0, <2>2, <2>3 DEF Entry
  <2>5. Register!Decline(r)
    BY <1>0, <1>2, <1>3, <2>1, <2>4 DEF Register!Decline, Register!Tell, Recorded, Verdict, Seen
  <2>. QED
    BY <2>5
<1>6. CASE code'[r] \notin {"201", "422", "503"}
  <2>1. Told(r)' = "refused"
    BY <1>6, ToldNext
  <2>2. Register!Refuse(r)
    BY <1>0, <1>2, <1>3, <2>1 DEF Register!Refuse, Register!Tell, Recorded, Verdict, Seen
  <2>. QED
    BY <2>2
<1>. QED
  BY <1>4, <1>5, <1>6

\* A step of a request that neither commits nor ends it moves nothing the
\* register shows.
LEMMA OnTheWay ==
  ASSUME RInv, NEW r \in Request, Progress(r) \/ Fail(r) \/ Crash(r),
         UNCHANGED row, pc'[r] # "done"
  PROVE  UNCHANGED Register!vars
<1>0. TypeOK
  BY DEF RInv, IInv
<1>1. Told(r) = "none" /\ Told(r)' = "none"
  BY <1>0, OneMoves, ToldBy, ToldNext
<1>2. \A q \in Request : q # r => Told(q)' = Told(q) /\ view'[q] = view[q]
  BY <1>0, OneMoves DEF Told
<1>3. UNCHANGED <<Recorded, Verdict, Seen>>
  BY <1>1, <1>2 DEF Recorded, Verdict, Seen
<1>. QED
  BY <1>3 DEF Register!vars, Recorded, Verdict, Seen

\* Empty stores are an empty register.
LEMMA RegisterInit == Init => Register!Init
<1>. SUFFICES ASSUME Init PROVE Register!Init
  OBVIOUS
<1>1. Recorded = [k \in Key |-> Null]
  BY DEF Init, Recorded, Entry
<1>2. \A r \in Request : Told(r) = "none"
  BY ToldBy DEF Init
<1>3. Verdict = [r \in Request |-> "none"] /\ Seen = [r \in Request |-> Null]
  BY <1>2 DEF Verdict, Seen
<1>. QED
  BY <1>1, <1>3 DEF Register!Init, Recorded, Verdict, Seen

\* Every step is one of the register, or none.
LEMMA RegisterNext ==
  RInv /\ RInv' /\ [Next]_vars => [Register!Next]_(Register!vars)
<1>. SUFFICES ASSUME RInv, RInv', [Next]_vars
              PROVE  Register!Next \/ UNCHANGED Register!vars
  OBVIOUS
<1>0. TypeOK /\ Null \notin Payment /\ \A r \in Request : KeyOf[r] \in Key
  BY KeyAssumption, NullAssumption DEF RInv, IInv
<1>1. ASSUME NEW r \in Request, Progress(r) \/ Fail(r) \/ Crash(r)
      PROVE  Register!Next \/ UNCHANGED Register!vars
  <2>1. CASE Save(r) \/ Reject(r)
    BY <1>0, <2>1, CommitIsRecord DEF Register!Next
  <2>2. CASE ~(Save(r) \/ Reject(r))
    <3>1. UNCHANGED row
      BY <1>1, <2>2, RequestWrites
    <3>2. CASE pc'[r] = "done"
      BY <1>0, <1>1, <3>1, <3>2, OneMoves, EndIsAnswer DEF Register!Next
    <3>3. CASE pc'[r] # "done"
      BY <1>1, <3>1, <3>3, OnTheWay
    <3>. QED
      BY <3>2, <3>3
  <2>. QED
    BY <2>1, <2>2
<1>2. ASSUME NEW k \in Key, LaterUpdate(k)
      PROVE  UNCHANGED Register!vars
  <2>1. \A l \in Key : Entry(row[l])' = Entry(row[l])
    <3>1. Entry(row[k])' = Entry(row[k])
      <4>1. row[k] \in Payment /\ row'[k] \in Payment /\ Same(row[k], row'[k])
        BY <1>0, <1>2, UpdateOfRow
      <4>2. Entry(row[k]) = Entry(row'[k])
        BY <4>1, EntryOfSame
      <4>. QED
        BY <4>2 DEF Entry
    <3>2. \A l \in Key : l # k => row'[l] = row[l]
      BY <1>0, <1>2, UpdateOfRow
    <3>. QED
      BY <3>1, <3>2 DEF Entry
  <2>2. UNCHANGED <<pc, code, view>>
    BY <1>2 DEF LaterUpdate, local
  <2>3. UNCHANGED <<Recorded, Verdict, Seen>>
    BY <2>1, <2>2 DEF Recorded, Verdict, Seen, Told
  <2>. QED
    BY <2>3 DEF Register!vars, Recorded, Verdict, Seen
<1>3. CASE UNCHANGED <<row, pc, code, view>>
  <2>1. UNCHANGED <<Recorded, Verdict, Seen>>
    BY <1>3 DEF Recorded, Verdict, Seen, Told, Entry
  <2>. QED
    BY <2>1 DEF Register!vars, Recorded, Verdict, Seen
<1>4. ASSUME NEW k \in Key, LockExpire(k) \/ CacheExpire(k)
      PROVE  UNCHANGED <<row, pc, code, view>>
  BY <1>4 DEF LockExpire, CacheExpire, local, db
<1>. QED
  BY <1>1, <1>2, <1>3, <1>4 DEF Next, Terminating, vars, local, db

\* Requests and stores together implement the write-once register of payments.
THEOREM Refinement == Spec => ImplementsRegister
<1>1. Init => Register!Init
  BY RegisterInit
<1>2. RInv /\ RInv' /\ [Next]_vars => [Register!Next]_(Register!vars)
  BY RegisterNext
<1>. QED
  BY <1>1, <1>2, RegInvariance, PTL DEF Spec, ImplementsRegister, Register!Spec
=============================================================================
