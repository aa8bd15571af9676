----------------------- MODULE PaymentCreationProofs -----------------------
(***************************************************************************)
(* What PaymentCreation guarantees for any set of requests and keys, any   *)
(* statuses and any faults.                                                *)
(*                                                                         *)
(* The argument: the unique index makes the request whose INSERT is open   *)
(* the only one of its key between its INSERT and the end of its           *)
(* transaction (Owner), and keeps such a request away from a key that      *)
(* already has a row (IndexFree).  So a row is written once, and every     *)
(* payment a request holds after that, or the cache holds, is that row     *)
(* but for its status (Shown).                                             *)
(***************************************************************************)
EXTENDS PaymentCreation, TLAPS

\* The requests that have not decided on an answer.
Undecided(r) == pc[r] \notin {"release", "delete", "done", "crashed"}

Owner ==
  /\ \A r \in Request : InTransaction(r) <=> inserting[KeyOf[r]] = r
  /\ \A k \in Key, r \in Request : inserting[k] = r => KeyOf[r] = k

IndexFree == \A k \in Key : inserting[k] # Null => row[k] = Null

Undecisive == \A r \in Request : Undecided(r) => code[r] = "none"

Shown ==
  /\ \A r \in Request : InTransaction(r) => view[r] # Null
  /\ \A r \in Request : pc[r] = "refresh" => row[KeyOf[r]] # Null
  /\ \A r \in Request :
       (pc[r] \in {"fill", "store"} \/ code[r] = "201") =>
         view[r] # Null /\ row[KeyOf[r]] # Null /\ Same(view[r], row[KeyOf[r]])
  /\ \A k \in Key :
       cache[k] # Null => row[k] # Null /\ Same(cache[k], row[k])

IInv == TypeOK /\ Owner /\ IndexFree /\ Undecisive /\ Shown

-----------------------------------------------------------------------------
\* Type correctness.

\* The initial state is well typed.
LEMMA TypeInit == Init => TypeOK
  BY DEF Init, TypeOK, Stage, Code

\* check_idempotency keeps the types.
LEMMA TypeLookup ==
  ASSUME TypeOK, NEW r \in Request,
         CacheHit(r) \/ CacheMiss(r) \/ LookupFound(r) \/ LookupNone(r) \/ Fill(r)
  PROVE  TypeOK'
<1>0. KeyOf[r] \in Key
  BY KeyAssumption
<1>1. CASE CacheHit(r)
  BY <1>0, <1>1 DEF TypeOK, CacheHit, Answer, Goto, WayOut, Stage, Code, db, redis
<1>2. CASE CacheMiss(r)
  BY <1>0, <1>2 DEF TypeOK, CacheMiss, Goto, Stage, db, redis
<1>3. CASE LookupFound(r)
  BY <1>0, <1>3 DEF TypeOK, LookupFound, Goto, Stage, db, redis
<1>4. CASE LookupNone(r)
  BY <1>0, <1>4 DEF TypeOK, LookupNone, Goto, Stage, db, redis
<1>5. CASE Fill(r)
  BY <1>0, <1>5 DEF TypeOK, Fill, WriteCache, Answer, Goto, WayOut, Stage, Code, db
<1>. QED
  BY <1>1, <1>2, <1>3, <1>4, <1>5

\* Acquiring and releasing the lock keep the types.
LEMMA TypeLock ==
  ASSUME TypeOK, NEW r \in Request,
         \/ Acquire(r) \/ Conflict(r) \/ Degrade(r)
         \/ ReleaseNothing(r) \/ ReleaseGet(r) \/ Delete(r)
  PROVE  TypeOK'
<1>0. KeyOf[r] \in Key
  BY KeyAssumption
<1>1. CASE Acquire(r)
  BY <1>0, <1>1 DEF TypeOK, Acquire, TakeLock, Goto, Stage, db
<1>2. CASE Conflict(r)
  BY <1>0, <1>2 DEF TypeOK, Conflict, Goto, Stage, Code, db, redis
<1>3. CASE Degrade(r)
  BY <1>0, <1>3 DEF TypeOK, Degrade, TakeLock, Goto, Stage, db
<1>4. CASE ReleaseNothing(r)
  BY <1>0, <1>4 DEF TypeOK, ReleaseNothing, Goto, Stage, db, redis
<1>5. CASE ReleaseGet(r)
  BY <1>0, <1>5 DEF TypeOK, ReleaseGet, Goto, Stage, db, redis
<1>6. CASE Delete(r)
  BY <1>0, <1>6 DEF TypeOK, Delete, Goto, Stage, db
<1>. QED
  BY <1>1, <1>2, <1>3, <1>4, <1>5, <1>6

\* A commit writes a well-typed row, audit trail and outbox.
LEMMA TypeCommit ==
  ASSUME TypeOK, NEW r \in Request, view[r] # Null,
         NEW types \in SUBSET EventType, NEW notices \in SUBSET Request,
         Commit(r, types, notices)
  PROVE  /\ row' \in [Key -> Payment \cup {Null}]
         /\ inserting' \in [Key -> Request \cup {Null}]
         /\ audit' \subseteq Request \X EventType
         /\ outbox' \subseteq Request
  BY KeyAssumption DEF TypeOK, Commit, Rollback

\* The steps from the INSERT to the cached response keep the types.
LEMMA TypeTransaction ==
  ASSUME TypeOK, NEW r \in Request, InTransaction(r) => view[r] # Null,
         \/ Insert(r) \/ InsertDuplicate(r)
         \/ StripeReply(r) \/ StripeLostReply(r) \/ StripeRaise(r)
         \/ Save(r) \/ Reject(r) \/ Refresh(r) \/ Store(r) \/ Fail(r)
  PROVE  TypeOK'
<1>0. KeyOf[r] \in Key
  BY KeyAssumption
<1>1. CASE Insert(r)
  BY <1>0, <1>1 DEF TypeOK, Insert, Goto, Stage, Payment, Status, redis
<1>2. CASE InsertDuplicate(r)
  BY <1>0, <1>2 DEF TypeOK, InsertDuplicate, Answer, Goto, WayOut, Stage, Code, db, redis
<1>3. CASE StripeReply(r)
  <2>1. view[r] \in Payment
    BY <1>3 DEF TypeOK, StripeReply, InTransaction
  <2>2. IntentAt(KeyOf[r], r) \in Request
    BY <1>0 DEF TypeOK, IntentAt
  <2>3. intent' \in [Key -> Request \cup {Null}]
    BY <1>0, <1>3, <2>2 DEF TypeOK, StripeReply
  <2>4. view' \in [Request -> Payment \cup {Null}]
    <3>1. PICK s \in IntentStatus :
            view' = [view EXCEPT ![r] = [@ EXCEPT !.status = s,
                                                  !.intent = IntentAt(KeyOf[r], r)]]
      BY <1>3 DEF StripeReply
    <3>2. [view[r] EXCEPT !.status = s, !.intent = IntentAt(KeyOf[r], r)] \in Payment
      BY <2>1, <2>2, StatusAssumption DEF Payment
    <3>. QED
      BY <3>1, <3>2 DEF TypeOK
  <2>. QED
    BY <1>3, <2>3, <2>4 DEF TypeOK, StripeReply, Goto, Stage, db, redis
<1>4. CASE StripeLostReply(r)
  <2>1. IntentAt(KeyOf[r], r) \in Request
    BY <1>0 DEF TypeOK, IntentAt
  <2>. QED
    BY <1>0, <1>4, <2>1 DEF TypeOK, StripeLostReply, local, db, redis
<1>5. CASE StripeRaise(r)
  <2>1. view[r] \in Payment
    BY <1>5 DEF TypeOK, StripeRaise, InTransaction
  <2>2. [view[r] EXCEPT !.status = "failed"] \in Payment
    BY <2>1 DEF Payment, Status
  <2>. QED
    BY <1>5, <2>2 DEF TypeOK, StripeRaise, Goto, Stage, db, redis
<1>6. CASE Save(r)
  <2>1. SavedEvents \in SUBSET EventType /\ {r} \in SUBSET Request
    BY DEF SavedEvents, EventType
  <2>2. Commit(r, SavedEvents, {r}) /\ view[r] # Null
    BY <1>6 DEF Save, InTransaction
  <2>. QED
    BY <1>6, <2>1, <2>2, TypeCommit
      DEF TypeOK, Save, Answer, Goto, WayOut, Stage, Code, redis
<1>7. CASE Reject(r)
  <2>1. RejectedEvents \in SUBSET EventType /\ {} \in SUBSET Request
    BY DEF RejectedEvents, EventType
  <2>2. Commit(r, RejectedEvents, {}) /\ view[r] # Null
    BY <1>7 DEF Reject, InTransaction
  <2>. QED
    BY <1>7, <2>1, <2>2, TypeCommit
      DEF TypeOK, Reject, Answer, Goto, WayOut, Stage, Code, redis
<1>8. CASE Refresh(r)
  BY <1>0, <1>8 DEF TypeOK, Refresh, Goto, Stage, db, redis
<1>9. CASE Store(r)
  BY <1>0, <1>9 DEF TypeOK, Store, WriteCache, Answer, Goto, WayOut, Stage, Code, db
<1>10. CASE Fail(r)
  BY <1>0, <1>10 DEF TypeOK, Fail, Rollback, Answer, Goto, WayOut, Stage, Code, redis
<1>. QED
  BY <1>1, <1>2, <1>3, <1>4, <1>5, <1>6, <1>7, <1>8, <1>9, <1>10

\* Crashes, expiries and later updates keep the types.
LEMMA TypeEnvironment ==
  ASSUME TypeOK,
         \/ \E r \in Request : Crash(r)
         \/ \E k \in Key : LockExpire(k) \/ CacheExpire(k) \/ LaterUpdate(k)
         \/ UNCHANGED vars
  PROVE  TypeOK'
<1>1. ASSUME NEW r \in Request, Crash(r) PROVE TypeOK'
  BY <1>1, KeyAssumption DEF TypeOK, Crash, Rollback, Goto, Stage, redis
<1>2. ASSUME NEW k \in Key, LockExpire(k) PROVE TypeOK'
  BY <1>2 DEF TypeOK, LockExpire, local, db
<1>3. ASSUME NEW k \in Key, CacheExpire(k) PROVE TypeOK'
  BY <1>3 DEF TypeOK, CacheExpire, local, db
<1>4. ASSUME NEW k \in Key, LaterUpdate(k) PROVE TypeOK'
  <2>1. PICK s \in LaterStatus : row' = [row EXCEPT ![k].status = s]
    BY <1>4 DEF LaterUpdate
  <2>2. [row[k] EXCEPT !.status = s] \in Payment
    BY <1>4, StatusAssumption DEF TypeOK, LaterUpdate, Payment
  <2>. QED
    BY <1>4, <2>1, <2>2 DEF TypeOK, LaterUpdate, local, redis
<1>5. CASE UNCHANGED vars
  BY <1>5 DEF TypeOK, vars, local, db, redis
<1>. QED
  BY <1>1, <1>2, <1>3, <1>4, <1>5

\* Every step keeps the types.
LEMMA TypeNext ==
  ASSUME TypeOK, \A r \in Request : InTransaction(r) => view[r] # Null, [Next]_vars
  PROVE  TypeOK'
<1>1. ASSUME NEW r \in Request, Progress(r) \/ Fail(r) PROVE TypeOK'
  BY <1>1, TypeLookup, TypeLock, TypeTransaction DEF Progress
<1>. QED
  BY <1>1, TypeEnvironment DEF Next, Terminating

-----------------------------------------------------------------------------
\* The inductive invariant.

\* The invariant holds of empty stores and requests that have just arrived.
LEMMA InvInit == Init => IInv
<1>. SUFFICES ASSUME Init PROVE IInv
  OBVIOUS
<1>1. TypeOK
  BY TypeInit
<1>2. Owner /\ IndexFree
  BY KeyAssumption, NullAssumption DEF Init, Owner, IndexFree, InTransaction
<1>3. Undecisive /\ Shown
  BY DEF Init, Undecisive, Shown, InTransaction
<1>. QED
  BY <1>1, <1>2, <1>3 DEF IInv

\* The steps before the lock is held and the payment inserted.
LEMMA InvLookup ==
  ASSUME IInv, NEW r \in Request,
         CacheHit(r) \/ CacheMiss(r) \/ LookupFound(r) \/ LookupNone(r) \/ Fill(r)
  PROVE  Owner' /\ IndexFree' /\ Undecisive' /\ Shown'
<1>0. KeyOf[r] \in Key /\ TypeOK
  BY KeyAssumption DEF IInv
<1>1. CASE CacheHit(r)
  BY <1>0, <1>1 DEF TypeOK, IInv, Owner, IndexFree, Undecisive, Undecided, Shown, Same,
     InTransaction, CacheHit, Answer, Goto, WayOut, db, redis
<1>2. CASE CacheMiss(r)
  BY <1>0, <1>2 DEF TypeOK, IInv, Owner, IndexFree, Undecisive, Undecided, Shown, Same,
     InTransaction, CacheMiss, Goto, db, redis
<1>3. CASE LookupFound(r)
  BY <1>0, <1>3 DEF TypeOK, IInv, Owner, IndexFree, Undecisive, Undecided, Shown, Same,
     InTransaction, LookupFound, Goto, db, redis
<1>4. CASE LookupNone(r)
  BY <1>0, <1>4 DEF TypeOK, IInv, Owner, IndexFree, Undecisive, Undecided, Shown, Same,
     InTransaction, LookupNone, Goto, db, redis
<1>5. CASE Fill(r)
  BY <1>0, <1>5 DEF TypeOK, IInv, Owner, IndexFree, Undecisive, Undecided, Shown, Same,
     InTransaction, Fill, WriteCache, Answer, Goto, WayOut, db
<1>. QED
  BY <1>1, <1>2, <1>3, <1>4, <1>5

\* Acquiring and releasing the lock keep the invariant: it does not rest on the lock.
LEMMA InvLock ==
  ASSUME IInv, NEW r \in Request,
         \/ Acquire(r) \/ Conflict(r) \/ Degrade(r)
         \/ ReleaseNothing(r) \/ ReleaseGet(r) \/ Delete(r)
  PROVE  Owner' /\ IndexFree' /\ Undecisive' /\ Shown'
<1>0. KeyOf[r] \in Key /\ TypeOK
  BY KeyAssumption DEF IInv
<1>1. CASE Acquire(r)
  BY <1>0, <1>1 DEF TypeOK, IInv, Owner, IndexFree, Undecisive, Undecided, Shown, Same,
     InTransaction, Acquire, Goto, db
<1>2. CASE Conflict(r)
  BY <1>0, <1>2 DEF TypeOK, IInv, Owner, IndexFree, Undecisive, Undecided, Shown, Same,
     InTransaction, Conflict, Goto, db, redis
<1>3. CASE Degrade(r)
  BY <1>0, <1>3 DEF TypeOK, IInv, Owner, IndexFree, Undecisive, Undecided, Shown, Same,
     InTransaction, Degrade, Goto, db
<1>4. CASE ReleaseNothing(r)
  BY <1>0, <1>4 DEF TypeOK, IInv, Owner, IndexFree, Undecisive, Undecided, Shown, Same,
     InTransaction, ReleaseNothing, Goto, db, redis
<1>5. CASE ReleaseGet(r)
  BY <1>0, <1>5 DEF TypeOK, IInv, Owner, IndexFree, Undecisive, Undecided, Shown, Same,
     InTransaction, ReleaseGet, Goto, db, redis
<1>6. CASE Delete(r)
  BY <1>0, <1>6 DEF TypeOK, IInv, Owner, IndexFree, Undecisive, Undecided, Shown, Same,
     InTransaction, Delete, Goto, db
<1>. QED
  BY <1>1, <1>2, <1>3, <1>4, <1>5, <1>6

\* A payment with another status is a payment, and so not Null.
LEMMA StatusUpdate ==
  ASSUME NEW p \in Payment, NEW s \in Status, NEW i \in Request \cup {Null}
  PROVE  /\ [p EXCEPT !.status = s] \in Payment
         /\ Same(p, [p EXCEPT !.status = s]) /\ Same([p EXCEPT !.status = s], p)
         /\ [p EXCEPT !.status = s, !.intent = i] \in Payment
  BY DEF Payment, Same

\* The end of the transaction: the request leaves it, its row appears.
LEMMA InvCommit ==
  ASSUME IInv, NEW r \in Request, InTransaction(r),
         NEW types, NEW notices, Commit(r, types, notices),
         NEW stage \in {"refresh", "release", "done"}, Goto(r, stage),
         NEW c \in {"none", "422", "503", "500"}, code' = [code EXCEPT ![r] = c],
         stage = "refresh" => c = "none",
         UNCHANGED <<view, cache>>
  PROVE  Owner' /\ IndexFree' /\ Undecisive' /\ Shown'
<1>0. KeyOf[r] \in Key /\ TypeOK /\ Null \notin Request /\ Null \notin Payment
  BY KeyAssumption, NullAssumption DEF IInv
<1>1. inserting[KeyOf[r]] = r /\ row[KeyOf[r]] = Null /\ view[r] # Null
  BY <1>0 DEF IInv, Owner, IndexFree, Shown
<1>2. /\ row' = [row EXCEPT ![KeyOf[r]] = view[r]]
      /\ inserting' = [inserting EXCEPT ![KeyOf[r]] = Null]
  BY <1>1 DEF Commit, Rollback
<1>3. ~InTransaction(r)' /\ \A q \in Request \ {r} : InTransaction(q)' <=> InTransaction(q)
  BY <1>0 DEF TypeOK, Goto, InTransaction
<1>4. Owner'
  BY <1>0, <1>1, <1>2, <1>3, KeyAssumption DEF TypeOK, IInv, Owner
<1>5. IndexFree'
  BY <1>0, <1>1, <1>2 DEF TypeOK, IInv, IndexFree
<1>6. Undecisive'
  BY <1>0 DEF TypeOK, IInv, Undecisive, Undecided, Goto
<1>7. \A q \in Request : KeyOf[q] = KeyOf[r] => pc[q] \notin {"refresh", "fill", "store"} /\ code[q] # "201"
  BY <1>1 DEF IInv, Shown
<1>8. cache[KeyOf[r]] = Null
  BY <1>0, <1>1 DEF IInv, Shown
<1>9. Shown'
  BY <1>0, <1>1, <1>2, <1>3, <1>7, <1>8, KeyAssumption DEF TypeOK, IInv, Shown, Same, Goto
<1>. QED
  BY <1>4, <1>5, <1>6, <1>9

\* The steps from the INSERT to the cached response keep the invariant.
LEMMA InvTransaction ==
  ASSUME IInv, NEW r \in Request,
         \/ Insert(r) \/ InsertDuplicate(r)
         \/ StripeReply(r) \/ StripeLostReply(r) \/ StripeRaise(r)
         \/ Save(r) \/ Reject(r) \/ Refresh(r) \/ Store(r) \/ Fail(r)
  PROVE  Owner' /\ IndexFree' /\ Undecisive' /\ Shown'
<1>0. KeyOf[r] \in Key /\ TypeOK /\ Null \notin Request /\ Null \notin Payment
  BY KeyAssumption, NullAssumption DEF IInv
<1>1. CASE Insert(r)
  <2>1. /\ pc[r] = "insert" /\ Goto(r, "stripe")
        /\ inserting[KeyOf[r]] = Null /\ row[KeyOf[r]] = Null
        /\ inserting' = [inserting EXCEPT ![KeyOf[r]] = r]
        /\ UNCHANGED <<code, row, cache>>
    BY <1>1 DEF Insert, KeyFree, redis
  <2>2. view'[r] \in Payment /\ \A q \in Request : q # r => view'[q] = view[q]
    BY <1>0, <1>1 DEF TypeOK, Insert, Payment, Status
  <2>3. Owner'
    BY <1>0, <2>1, KeyAssumption DEF TypeOK, IInv, Owner, InTransaction, Goto
  <2>4. IndexFree' /\ Undecisive'
    BY <1>0, <2>1 DEF TypeOK, IInv, IndexFree, Undecisive, Undecided, Goto
  <2>5. Shown'
    BY <1>0, <2>1, <2>2 DEF TypeOK, IInv, Shown, Undecisive, Undecided, Same,
       InTransaction, Goto
  <2>. QED
    BY <2>3, <2>4, <2>5
<1>2. CASE InsertDuplicate(r)
  BY <1>0, <1>2 DEF TypeOK, IInv, Owner, IndexFree, Undecisive, Undecided, Shown, Same,
     InTransaction, InsertDuplicate, Answer, Goto, WayOut, db, redis
<1>3. CASE StripeReply(r)
  <2>1. PICK s \in IntentStatus :
          view' = [view EXCEPT ![r] = [@ EXCEPT !.status = s,
                                                !.intent = IntentAt(KeyOf[r], r)]]
    BY <1>3 DEF StripeReply
  <2>2. view[r] \in Payment
    BY <1>3 DEF IInv, TypeOK, Shown, InTransaction, StripeReply
  <2>3. view'[r] \in Payment
    BY <1>0, <2>1, <2>2, StatusUpdate, StatusAssumption DEF TypeOK, IntentAt
  <2>4. \A q \in Request : q # r => view'[q] = view[q]
    BY <1>0, <2>1 DEF TypeOK
  <2>5. pc[r] = "stripe" /\ Goto(r, "save") /\ UNCHANGED <<code, row, inserting, cache>>
    BY <1>3 DEF StripeReply, db, redis
  <2>6. Owner' /\ IndexFree' /\ Undecisive'
    BY <1>0, <2>5 DEF TypeOK, IInv, Owner, IndexFree, Undecisive, Undecided,
       InTransaction, Goto
  <2>7. Shown'
    BY <1>0, <2>3, <2>4, <2>5 DEF TypeOK, IInv, Shown, Undecisive, Undecided, Same,
       InTransaction, Goto
  <2>. QED
    BY <2>6, <2>7
<1>4. CASE StripeLostReply(r)
  BY <1>0, <1>4 DEF TypeOK, IInv, Owner, IndexFree, Undecisive, Undecided, Shown, Same,
     InTransaction, StripeLostReply, local, db, redis
<1>5. CASE StripeRaise(r)
  <2>1. view' = [view EXCEPT ![r] = [@ EXCEPT !.status = "failed"]]
    BY <1>5 DEF StripeRaise
  <2>2. view[r] \in Payment
    BY <1>5 DEF IInv, TypeOK, Shown, InTransaction, StripeRaise
  <2>3. view'[r] \in Payment
    BY <1>0, <2>1, <2>2, StatusUpdate DEF TypeOK, Status
  <2>4. \A q \in Request : q # r => view'[q] = view[q]
    BY <1>0, <2>1 DEF TypeOK
  <2>. QED
    BY <1>0, <1>5, <2>3, <2>4 DEF TypeOK, IInv, Owner, IndexFree, Undecisive, Undecided, Shown, Same,
       InTransaction,
       StripeRaise, Goto, db, redis
<1>6. CASE Save(r)
  <2>1. InTransaction(r) /\ code[r] = "none" /\ UNCHANGED <<view, cache>>
    BY <1>6 DEF Save, InTransaction, IInv, Undecisive, Undecided, redis
  <2>2. Commit(r, SavedEvents, {r})
    BY <1>6 DEF Save
  <2>3. PICK stage \in {"refresh", "release", "done"}, c \in {"none", "422", "503", "500"} :
          /\ Goto(r, stage)
          /\ code' = [code EXCEPT ![r] = c]
          /\ stage = "refresh" => c = "none"
    BY <1>0, <1>6, <2>1 DEF Save, Answer, WayOut, TypeOK
  <2>. QED
    BY <2>1, <2>2, <2>3, InvCommit
<1>7. CASE Reject(r)
  <2>1. InTransaction(r) /\ code[r] = "none" /\ UNCHANGED <<view, cache>>
    BY <1>7 DEF Reject, InTransaction, IInv, Undecisive, Undecided, redis
  <2>2. Commit(r, RejectedEvents, {})
    BY <1>7 DEF Reject
  <2>3. PICK stage \in {"refresh", "release", "done"}, c \in {"none", "422", "503", "500"} :
          /\ Goto(r, stage)
          /\ code' = [code EXCEPT ![r] = c]
          /\ stage = "refresh" => c = "none"
    BY <1>0, <1>7, <2>1 DEF Reject, Answer, WayOut, TypeOK
  <2>. QED
    BY <2>1, <2>2, <2>3, InvCommit
<1>8. CASE Refresh(r)
  BY <1>0, <1>8 DEF TypeOK, IInv, Owner, IndexFree, Undecisive, Undecided, Shown, Same,
     InTransaction, Refresh, Goto, db, redis
<1>9. CASE Store(r)
  BY <1>0, <1>9 DEF TypeOK, IInv, Owner, IndexFree, Undecisive, Undecided, Shown, Same,
     InTransaction, Store, WriteCache, Answer, Goto, WayOut, db
<1>10. CASE Fail(r)
  BY <1>0, <1>10 DEF TypeOK, IInv, Owner, IndexFree, Undecisive, Undecided, Shown, Same,
     InTransaction, Fail, Rollback, Answer, Goto, WayOut, redis
<1>. QED
  BY <1>1, <1>2, <1>3, <1>4, <1>5, <1>6, <1>7, <1>8, <1>9, <1>10

\* Crashes, expiries and later updates keep the invariant.
LEMMA InvEnvironment ==
  ASSUME IInv,
         \/ \E r \in Request : Crash(r)
         \/ \E k \in Key : LockExpire(k) \/ CacheExpire(k) \/ LaterUpdate(k)
         \/ UNCHANGED vars
  PROVE  Owner' /\ IndexFree' /\ Undecisive' /\ Shown'
<1>0. TypeOK /\ Null \notin Request /\ Null \notin Payment
  BY NullAssumption DEF IInv
<1>1. ASSUME NEW r \in Request, Crash(r)
      PROVE  Owner' /\ IndexFree' /\ Undecisive' /\ Shown'
  <2>1. KeyOf[r] \in Key
    BY KeyAssumption
  <2>2. Owner'
    BY <1>0, <1>1, <2>1, KeyAssumption DEF TypeOK, IInv, Owner, InTransaction, Crash,
       Rollback, Goto
  <2>3. IndexFree' /\ Undecisive'
    BY <1>0, <1>1, <2>1 DEF TypeOK, IInv, IndexFree, Undecisive, Undecided, Crash,
       Rollback, Goto
  <2>4. Shown'
    BY <1>0, <1>1 DEF TypeOK, IInv, Shown, Same, InTransaction, Crash, Goto, redis
  <2>. QED
    BY <2>2, <2>3, <2>4
<1>2. ASSUME NEW k \in Key, LockExpire(k)
      PROVE  Owner' /\ IndexFree' /\ Undecisive' /\ Shown'
  BY <1>0, <1>2 DEF IInv, Owner, IndexFree, Undecisive, Undecided, Shown, Same,
     InTransaction, LockExpire, local, db
<1>3. ASSUME NEW k \in Key, CacheExpire(k)
      PROVE  Owner' /\ IndexFree' /\ Undecisive' /\ Shown'
  BY <1>0, <1>3 DEF TypeOK, IInv, Owner, IndexFree, Undecisive, Undecided, Shown, Same,
     InTransaction, CacheExpire, local, db
<1>4. ASSUME NEW k \in Key, LaterUpdate(k)
      PROVE  Owner' /\ IndexFree' /\ Undecisive' /\ Shown'
  <2>1. PICK s \in LaterStatus : row' = [row EXCEPT ![k].status = s]
    BY <1>4 DEF LaterUpdate
  <2>2. row[k] \in Payment /\ inserting[k] = Null
    BY <1>0, <1>4 DEF TypeOK, IInv, IndexFree, LaterUpdate
  <2>3. row'[k] # Null /\ Same(row'[k], row[k])
    <3>1. row'[k] = [row[k] EXCEPT !.status = s]
      BY <1>0, <2>1 DEF TypeOK
    <3>2. s \in Status /\ Null \in Request \cup {Null}
      BY StatusAssumption
    <3>3. row'[k] \in Payment
      BY <2>2, <3>1, <3>2, StatusUpdate
    <3>4. row'[k] # Null
      BY <3>3, NullAssumption
    <3>5. Same(row'[k], row[k])
      BY <2>2, <3>1 DEF Same, Payment
    <3>. QED
      BY <3>4, <3>5
  <2>4. \A l \in Key : l # k => row'[l] = row[l]
    BY <1>0, <2>1 DEF TypeOK
  <2>5. UNCHANGED <<pc, code, view, inserting, cache>>
    BY <1>4 DEF LaterUpdate, local, redis
  <2>6. Owner' /\ IndexFree' /\ Undecisive'
    BY <2>2, <2>4, <2>5 DEF IInv, Owner, IndexFree, Undecisive, Undecided, InTransaction
  <2>7. Shown'
    BY <2>3, <2>4, <2>5, KeyAssumption DEF IInv, Shown, Same, InTransaction
  <2>. QED
    BY <2>6, <2>7
<1>5. CASE UNCHANGED vars
  BY <1>5 DEF IInv, Owner, IndexFree, Undecisive, Undecided, Shown, Same,
     InTransaction, vars, local, db, redis
<1>. QED
  BY <1>1, <1>2, <1>3, <1>4, <1>5

\* Every step keeps the invariant.
LEMMA InvNext == IInv /\ [Next]_vars => IInv'
<1>. SUFFICES ASSUME IInv, [Next]_vars PROVE IInv'
  OBVIOUS
<1>1. TypeOK'
  BY TypeNext DEF IInv, Shown
<1>2. ASSUME NEW r \in Request, Progress(r) \/ Fail(r)
      PROVE  Owner' /\ IndexFree' /\ Undecisive' /\ Shown'
  BY <1>2, InvLookup, InvLock, InvTransaction DEF Progress
<1>3. Owner' /\ IndexFree' /\ Undecisive' /\ Shown'
  BY <1>2, InvEnvironment DEF Next, Terminating
<1>. QED
  BY <1>1, <1>3 DEF IInv

\* The inductive invariant holds in every reachable state.
THEOREM Invariance == Spec => []IInv
  BY InvInit, InvNext, PTL DEF Spec

-----------------------------------------------------------------------------
\* What follows from it.

\* Every variable keeps its type.
THEOREM TypeCorrect == Spec => []TypeOK
<1>1. IInv => TypeOK
  BY DEF IInv
<1>. QED
  BY <1>1, Invariance, PTL

\* At most one request of a key is between its INSERT and the end of its
\* transaction, where it calls Stripe, whatever becomes of the Redis lock.
THEOREM MutualExclusion == Spec => []OneStripeCaller
<1>1. IInv => OneStripeCaller
  BY DEF IInv, Owner, OneStripeCaller
<1>. QED
  BY <1>1, Invariance, PTL

\* Every 201 and every cached response shows the recorded payment of its key.
THEOREM OnePayment == Spec => []SamePayment
<1>1. IInv => SamePayment
  BY DEF IInv, Shown, SamePayment
<1>. QED
  BY <1>1, Invariance, PTL

\* No request changes a recorded payment or the intent behind it.
LEMMA SettledByRequest ==
  ASSUME IInv, NEW r \in Request, Progress(r) \/ Fail(r) \/ Crash(r),
         NEW k \in Key, row[k] # Null
  PROVE  UNCHANGED <<intent[k], row[k]>>
<1>0. KeyOf[r] \in Key /\ TypeOK
  BY KeyAssumption DEF IInv
<1>1. InTransaction(r) => KeyOf[r] # k
  BY <1>0, NullAssumption DEF IInv, Owner, IndexFree
<1>2. CASE StripeReply(r) \/ StripeLostReply(r)
  BY <1>0, <1>1, <1>2 DEF TypeOK, InTransaction, StripeReply, StripeLostReply, db
<1>3. CASE Save(r) \/ Reject(r)
  BY <1>0, <1>1, <1>3 DEF TypeOK, InTransaction, Save, Reject, Commit
<1>4. CASE UNCHANGED <<intent, row>>
  BY <1>4
<1>5. StripeReply(r) \/ StripeLostReply(r) \/ Save(r) \/ Reject(r) \/ UNCHANGED <<intent, row>>
  BY DEF Progress, CacheHit, CacheMiss, LookupFound, LookupNone, Fill, Acquire, Conflict,
     Degrade, Insert, InsertDuplicate, StripeRaise, Refresh, Store, ReleaseNothing,
     ReleaseGet, Delete, Fail, Crash, db
<1>. QED
  BY <1>2, <1>3, <1>4, <1>5

\* Once a payment is recorded for a key, no request makes Stripe create an
\* intent for that key, and only the status of the record changes.
THEOREM RecordedForGood == Spec => SettledStays
<1>1. ASSUME IInv, [Next]_vars, NEW k \in Key, row[k] # Null
      PROVE  intent'[k] = intent[k] /\ row'[k] # Null /\ Same(row[k], row'[k])
  <2>0. TypeOK /\ Null \notin Payment
    BY <1>1, NullAssumption DEF IInv
  <2>1. ASSUME NEW r \in Request, Progress(r) \/ Fail(r) \/ Crash(r)
        PROVE  UNCHANGED <<intent[k], row[k]>>
    BY <1>1, <2>1, SettledByRequest
  <2>2. ASSUME NEW l \in Key, LockExpire(l) \/ CacheExpire(l)
        PROVE  UNCHANGED <<intent, row>>
    BY <2>2 DEF LockExpire, CacheExpire, db
  <2>3. ASSUME NEW l \in Key, LaterUpdate(l)
        PROVE  intent'[k] = intent[k] /\ row'[k] # Null /\ Same(row[k], row'[k])
    <3>1. PICK s \in LaterStatus : row' = [row EXCEPT ![l].status = s]
      BY <2>3 DEF LaterUpdate
    <3>2. row[k] \in Payment
      BY <1>1, <2>0 DEF TypeOK
    <3>3. row'[k] = row[k] \/ row'[k] = [row[k] EXCEPT !.status = s]
      BY <2>0, <3>1 DEF TypeOK
    <3>4. row'[k] # Null /\ Same(row[k], row'[k])
      <4>1. s \in Status /\ Null \in Request \cup {Null} /\ Same(row[k], row[k])
        BY StatusAssumption DEF Same
      <4>. QED
        BY <2>0, <3>2, <3>3, <4>1, StatusUpdate
    <3>. QED
      BY <2>3, <3>4 DEF LaterUpdate
  <2>4. CASE UNCHANGED vars
    BY <1>1, <2>4 DEF vars, db, Same
  <2>5. Same(row[k], row[k])
    BY DEF Same
  <2>. QED
    BY <1>1, <2>1, <2>2, <2>3, <2>4, <2>5 DEF Next, Terminating
<1>2. IInv /\ [Next]_vars =>
        [\A k \in Key : row[k] # Null =>
           intent'[k] = intent[k] /\ row'[k] # Null /\ Same(row[k], row'[k])]_vars
  BY <1>1
<1>. QED
  BY <1>2, Invariance, PTL DEF Spec, SettledStays
=============================================================================
