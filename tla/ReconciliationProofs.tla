------------------------ MODULE ReconciliationProofs ------------------------
(***************************************************************************)
(* What Reconciliation guarantees for any payments and times, any number   *)
(* of runs, pages of any size and any faults.                              *)
(*                                                                         *)
(* The argument: the unique date leaves at most one run at work on it      *)
(* (OneRunPerDate).  What a run has read of the rows is bounded by what    *)
(* they were at some time and at all times while it ran (Observed,         *)
(* DbSide).  What it has read of Stripe's list is all of the list up to    *)
(* its cursor, each intent once (Collected), and in the end all of it      *)
(* (Complete).  The totals are those of two such sets, and finite sets of  *)
(* one size, one within the other, are the same set.                       *)
(***************************************************************************)
EXTENDS Reconciliation, FiniteSetTheorems, TLAPS

OneRunPerDate ==
  /\ \A r \in UnderWay : report[DateOf[r]] # Null
  /\ \A r, x \in UnderWay : DateOf[r] = DateOf[x] => r = x
  /\ \A r \in Runs : reply[r] = "200" =>
       /\ pc[r] = "answered" /\ report[DateOf[r]] # Null
       /\ \A x \in UnderWay : DateOf[x] # DateOf[r]

\* Nothing has been read before its stage.
Untouched(r) ==
  /\ pc[r] \in {"insert", "db_totals", "db_rows"} => cursor[r] = Null
  /\ pc[r] \in {"insert", "db_totals"} => stripeTotals[r] = ZeroTotals
  /\ pc[r] \in {"insert", "db_totals", "stripe_totals", "db_rows"} =>
       dbRows[r] = {} /\ found[r] = << >>

Observed(r) ==
  r \in UnderWay =>
    /\ \A p \in since[r] : Succeeded(p)
    /\ \A p \in Payment : p \in (IF row[p] = "succeeded" THEN seen[r] ELSE missed[r])

\* S is a reading of the rows of the day: those that were "succeeded" all the time
\* are in it, those that were not at any time are not.
Reading(r, S) ==
  /\ \A p \in S : RowInDay(r, p) /\ p \in seen[r]
  /\ \A p \in Payment \ S : RowInDay(r, p) => p \in missed[r]

DbSide(r) ==
  /\ pc[r] \in {"stripe_totals", "db_rows", "stripe_pages", "finish"} =>
       \E S \in SUBSET Payment : Reading(r, S) /\ dbTotals[r] = TotalsOf(S)
  /\ pc[r] \in {"stripe_pages", "finish"} => Reading(r, dbRows[r])

\* The cursor has passed p.
Behind(r, p) == cursor[r] # Null /\ Place[p] <= Place[cursor[r]]

\* S is what a run has taken from Stripe's list up to its cursor.
Collected(r, S) ==
  /\ \A p \in S : Succeeded(p) /\ IntentInDay(r, p) /\ Behind(r, p)
  /\ \A p \in since[r] : IntentInDay(r, p) /\ Behind(r, p) => p \in S

\* S is what a run has taken from all of Stripe's list.
Complete(r, S) ==
  /\ \A p \in S : Succeeded(p) /\ IntentInDay(r, p)
  /\ \A p \in since[r] : IntentInDay(r, p) => p \in S

StripeSide(r) ==
  /\ pc[r] = "stripe_totals" =>
       \E S \in SUBSET Payment : Collected(r, S) /\ stripeTotals[r].count = Cardinality(S)
  /\ pc[r] \in {"db_rows", "stripe_pages", "finish"} =>
       \E S \in SUBSET Payment : Complete(r, S) /\ stripeTotals[r].count = Cardinality(S)

FoundSide(r) ==
  /\ pc[r] = "stripe_pages" =>
       \E S \in SUBSET Payment : Collected(r, S) /\ Reported(r) = S \ dbRows[r]
  /\ pc[r] = "finish" =>
       \E S \in SUBSET Payment : Complete(r, S) /\ Reported(r) = S \ dbRows[r]

\* NoFalseAlarm, of one run.
Sound(r) ==
  /\ \A i, j \in DOMAIN found[r] : i # j => found[r][i] \cap found[r][j] = {}
  /\ \A p \in Reported(r) :
       Succeeded(p) /\ IntentInDay(r, p) /\ (RowInDay(r, p) => p \in missed[r])

RunInv(r) ==
  /\ Untouched(r) /\ Observed(r) /\ DbSide(r)
  /\ StripeSide(r) /\ FoundSide(r) /\ Sound(r)

IInv ==
  /\ TypeOK
  /\ OneRunPerDate /\ ToldIsStored
  /\ \A r \in Runs : RunInv(r)

-----------------------------------------------------------------------------
\* What the operators yield.

\* Sets of payments are finite.
LEMMA FinitePayments ==
  ASSUME NEW S \in SUBSET Payment
  PROVE  IsFiniteSet(S) /\ Cardinality(S) \in Nat
<1>1. IsFiniteSet(S)
  BY FS_Subset, PaymentAssumption
<1>. QED
  BY <1>1, FS_CardinalityType

\* The amounts of a set of payments have a sum.
LEMMA SumIsNat ==
  ASSUME NEW S \in SUBSET Payment
  PROVE  Sum(S) \in Nat
<1>. DEFINE Cents(p) == {p} \X (1 .. Amount[p])
            T == {Cents(p) : p \in S}
            f == [p \in S |-> Cents(p)]
<1>1. \A p \in S : IsFiniteSet(Cents(p))
  <2>. TAKE p \in S
  <2>1. Amount[p] \in Nat
    BY PaymentAssumption
  <2>2. IsFiniteSet(1 .. Amount[p])
    BY <2>1, FS_Interval
  <2>. QED
    BY <2>2, FS_Singleton, FS_Product
<1>2. f \in Surjection(S, T)
  BY Zenon DEF Surjection
<1>3. IsFiniteSet(T)
  BY <1>2, FS_Surjection, FinitePayments
<1>4. IsFiniteSet(UNION T)
  <2>. HIDE DEF Cents
  <2>1. \A U \in T : IsFiniteSet(U)
    BY <1>1
  <2>. QED
    BY <1>3, <2>1, FS_UNION
<1>5. Cardinality(UNION T) \in Nat
  BY <1>4, FS_CardinalityType
<1>. QED
  BY <1>5 DEF Sum

\* Totals are totals.
LEMMA TotalsOfIsTotals ==
  ASSUME NEW S \in SUBSET Payment
  PROVE  TotalsOf(S) \in Totals /\ TotalsOf(S).count = Cardinality(S)
BY FinitePayments, SumIsNat DEF TotalsOf, Totals

\* A distance is never negative.
LEMMA DistanceIsNat ==
  ASSUME NEW m \in Nat, NEW n \in Nat
  PROVE  Distance(m, n) \in Nat
BY DEF Distance

\* The first intents of a set leave none behind that is listed before one of them.
LEMMA FirstIsInitial ==
  ASSUME NEW S \in SUBSET Payment, NEW n \in Nat,
         NEW q \in First(n, S), NEW p \in S, Place[p] <= Place[q]
  PROVE  p \in First(n, S)
<1>. DEFINE B(x) == {y \in S : Place[y] < Place[x]}
<1>1. q \in Payment /\ \A y \in S : Place[y] \in Nat
  BY PlaceAssumption DEF First
<1>1a. Place[q] \in Nat
  BY <1>1, PlaceAssumption
<1>2. B(p) \in SUBSET B(q) /\ B(q) \in SUBSET Payment
  BY <1>1, <1>1a
<1>3. IsFiniteSet(B(q)) /\ Cardinality(B(q)) \in Nat /\ Cardinality(B(p)) \in Nat
  BY <1>2, FinitePayments
<1>4. Cardinality(B(p)) <= Cardinality(B(q))
  BY <1>2, <1>3, FS_Subset
<1>5. Cardinality(B(q)) < n
  BY DEF First
<1>. HIDE DEF B
<1>6. Cardinality(B(p)) < n
  BY <1>3, <1>4, <1>5
<1>. QED
  BY <1>6 DEF First, B

\* What a run reports, intent by intent.
LEMMA ReportedIs ==
  ASSUME NEW r \in Runs, NEW p
  PROVE  p \in Reported(r) <=> \E i \in DOMAIN found[r] : p \in found[r][i]
BY DEF Reported, Range

\* One more page adds its own.
LEMMA ReportedGrows ==
  ASSUME NEW r \in Runs, found[r] \in Seq(SUBSET Payment), NEW S \in SUBSET Payment,
         found'[r] = Append(found[r], S)
  PROVE  /\ Reported(r)' = Reported(r) \cup S
         /\ DOMAIN found'[r] = DOMAIN found[r] \cup {Len(found[r]) + 1}
         /\ found'[r][Len(found[r]) + 1] = S
         /\ \A i \in DOMAIN found[r] : found'[r][i] = found[r][i] /\ i # Len(found[r]) + 1
<1>1. /\ DOMAIN found'[r] = DOMAIN found[r] \cup {Len(found[r]) + 1}
      /\ found'[r][Len(found[r]) + 1] = S
      /\ \A i \in DOMAIN found[r] : found'[r][i] = found[r][i] /\ i # Len(found[r]) + 1
  OBVIOUS
<1>2. \A p : p \in Reported(r) <=> \E i \in DOMAIN found[r] : p \in found[r][i]
  BY ReportedIs
<1>3. \A p : p \in Reported(r)' <=> \E i \in DOMAIN found'[r] : p \in found'[r][i]
  BY DEF Reported, Range
<1>4. \A p : p \in Reported(r)' <=> p \in Reported(r) \cup S
  BY <1>1, <1>2, <1>3
<1>. QED
  BY <1>1, <1>4

\* The report of a run depends on what it has read.
LEMMA ResultKept ==
  ASSUME NEW r \in Runs,
         dbTotals'[r] = dbTotals[r], stripeTotals'[r] = stripeTotals[r], found'[r] = found[r]
  PROVE  Reported(r)' = Reported(r) /\ ResultOf(r)' = ResultOf(r)
<1>1. Reported(r)' = Reported(r)
  BY DEF Reported
<1>. QED
  BY <1>1 DEF ResultOf

\* A result is a result.
LEMMA ResultIsResult ==
  ASSUME TypeOK, NEW r \in Runs
  PROVE  Reported(r) \in SUBSET Payment /\ ResultOf(r) \in Result
<1>1. Reported(r) \in SUBSET Payment
  BY ReportedIs DEF TypeOK
<1>2. First(StoredLimit, Reported(r)) \in SUBSET Payment
  BY <1>1 DEF First
<1>3. /\ dbTotals[r] \in Totals /\ dbTotals[r].count \in Nat /\ dbTotals[r].total_cents \in Nat
      /\ stripeTotals[r] \in Totals /\ stripeTotals[r].count \in Nat
      /\ stripeTotals[r].total_cents \in Nat
  BY DEF TypeOK, Totals
<1>. QED
  BY <1>1, <1>2, <1>3, DistanceIsNat DEF ResultOf, Result

\* What has been added to the totals of Stripe is totals.
LEMMA AddedIsTotals ==
  ASSUME TypeOK, NEW r \in Runs
  PROVE  /\ Paid(r) \in SUBSET Payment
         /\ Added(r) \in Totals
         /\ Added(r).count = stripeTotals[r].count + Cardinality(Paid(r))
<1>1. Paid(r) \in SUBSET Payment
  BY DEF Paid, Page, First, Rest
<1>2. Cardinality(Paid(r)) \in Nat /\ Sum(Paid(r)) \in Nat
  BY <1>1, FinitePayments, SumIsNat
<1>3. stripeTotals[r].count \in Nat /\ stripeTotals[r].total_cents \in Nat
  BY DEF TypeOK, Totals
<1>. QED
  BY <1>1, <1>2, <1>3 DEF Added, Totals

-----------------------------------------------------------------------------
\* The type invariant.

\* It holds at the start.
LEMMA TypeInit == Init => TypeOK
<1>1. ZeroTotals \in Totals
  BY DEF ZeroTotals, Totals
<1>. QED
  BY <1>1 DEF Init, TypeOK, Date

\* A row is set to a status, and histories are of payments.
LEMMA TypeSetRow ==
  ASSUME TypeOK, NEW p \in Payment, NEW st \in RowStatus, SetRow(p, st)
  PROVE  /\ row' \in [Payment -> RowStatus \cup {Null}]
         /\ seen' \in [Runs -> SUBSET Payment]
         /\ missed' \in [Runs -> SUBSET Payment]
BY DEF TypeOK, SetRow

\* The cursor is an intent.
LEMMA TypeTurnPage ==
  ASSUME TypeOK, NEW r \in Runs, NEW next \in {"db_rows", "finish"}, TurnPage(r, next)
  PROVE  /\ cursor' \in [Runs -> Payment \cup {Null}]
         /\ pc' \in [Runs -> {"insert", "db_totals", "stripe_totals", "db_rows",
                      "stripe_pages", "finish", "failing", "answered", "crashed"}]
BY DEF TypeOK, TurnPage, Goto

\* The gateway and Stripe keep it.
LEMMA TypeEnvironment == TypeOK /\ Environment => TypeOK'
<1>. SUFFICES ASSUME TypeOK, NEW p \in Payment,
                     CreateIntent(p) \/ RecordRow(p) \/ Pay(p) \/ Webhook(p) \/ MoveOn(p),
                     UNCHANGED <<report, pc, cursor, results, reply, since>>
              PROVE  TypeOK'
  BY DEF Environment
<1>1. CASE CreateIntent(p)
  BY <1>1 DEF CreateIntent, TypeOK, results, IntentStatus
<1>2. CASE RecordRow(p)
  BY <1>2, TypeSetRow DEF RecordRow, TypeOK, results, RowStatus
<1>3. CASE Pay(p)
  BY <1>3 DEF Pay, TypeOK, results, IntentStatus
<1>4. CASE Webhook(p)
  BY <1>4, TypeSetRow DEF Webhook, TypeOK, results, RowStatus
<1>5. CASE MoveOn(p)
  <2>1. PICK st \in LaterStatus : SetRow(p, st)
    BY <1>5 DEF MoveOn
  <2>2. st \in RowStatus
    BY PaymentAssumption DEF RowStatus
  <2>. QED
    BY <1>5, <2>1, <2>2, TypeSetRow DEF MoveOn, TypeOK, results
<1>. QED
  BY <1>1, <1>2, <1>3, <1>4, <1>5

\* A run keeps it.
LEMMA TypeRun ==
  ASSUME TypeOK, NEW r \in Runs,
         Reconcile(r) \/ StripeFails(r) \/ DbFails(r) \/ Crash(r)
  PROVE  TypeOK'
<1>. USE DEF payments, results, history
<1>0. DateOf[r] \in Date /\ Null \notin Report
  BY NullAssumption DEF Date
<1>1. CASE InsertReport(r)
  <2>1. Unfinished("in_progress") \in Report
    BY DEF Unfinished, Report
  <2>. QED
    BY <1>0, <1>1, <2>1 DEF InsertReport, TypeOK, Goto
<1>2. CASE InsertRefused(r)
  BY <1>2 DEF InsertRefused, Answer, TypeOK, Goto
<1>3. CASE ReadDbTotals(r)
  <2>1. TotalsOf(RowsSelected(r)) \in Totals
    BY TotalsOfIsTotals DEF RowsSelected
  <2>. QED
    BY <1>3, <2>1 DEF ReadDbTotals, TypeOK, Goto
<1>4. CASE ReadStripeTotals(r)
  <2>. QED
    BY <1>4, AddedIsTotals, TypeTurnPage DEF ReadStripeTotals, TypeOK
<1>5. CASE ReadDbRows(r)
  <2>1. RowsSelected(r) \in SUBSET Payment
    BY DEF RowsSelected
  <2>. QED
    BY <1>5, <2>1 DEF ReadDbRows, TypeOK, Goto
<1>6. CASE ComparePage(r)
  <2>1. Append(found[r], Paid(r) \ dbRows[r]) \in Seq(SUBSET Payment)
    <3>1. Paid(r) \ dbRows[r] \in SUBSET Payment /\ found[r] \in Seq(SUBSET Payment)
      BY AddedIsTotals DEF TypeOK
    <3>. QED
      BY <3>1
  <2>. QED
    BY <1>6, <2>1, TypeTurnPage DEF ComparePage, TypeOK
<1>7. CASE SaveReport(r)
  <2>1. [status |-> "completed", result |-> ResultOf(r)] \in Report
    BY ResultIsResult DEF Report
  <2>. QED
    BY <1>0, <1>7, <2>1 DEF SaveReport, Answer, TypeOK, Goto
<1>8. CASE RecordFailure(r)
  <2>1. Unfinished("failed") \in Report
    BY DEF Unfinished, Report
  <2>. QED
    BY <1>0, <1>8, <2>1 DEF RecordFailure, Answer, TypeOK, Goto
<1>9. CASE StripeFails(r)
  BY <1>9 DEF StripeFails, TypeOK, Goto
<1>10. CASE DbFails(r)
  <2>1. Unfinished("in_progress") \in Report
    BY DEF Unfinished, Report
  <2>2. /\ report' = report \/ report' = [report EXCEPT ![DateOf[r]] = Unfinished("in_progress")]
        /\ UNCHANGED <<payments, cursor, results, history>>
    BY <1>10 DEF DbFails
  <2>3. /\ pc' = [pc EXCEPT ![r] = "failing"] \/ pc' = [pc EXCEPT ![r] = "answered"]
        /\ reply' = reply \/ reply' = [reply EXCEPT ![r] = "500"]
    BY <1>10 DEF DbFails, Answer, Goto
  <2>4. report' \in [Date -> Report \cup {Null}]
    BY <1>0, <2>1, <2>2 DEF TypeOK
  <2>5. /\ pc' \in [Runs -> {"insert", "db_totals", "stripe_totals", "db_rows",
                            "stripe_pages", "finish", "failing", "answered", "crashed"}]
        /\ reply' \in [Runs -> {"none", "200", "500"}]
    BY <2>3 DEF TypeOK
  <2>. QED
    BY <2>2, <2>4, <2>5 DEF TypeOK
<1>11. CASE Crash(r)
  BY <1>11 DEF Crash, TypeOK, Goto
<1>. QED
  BY <1>1, <1>2, <1>3, <1>4, <1>5, <1>6, <1>7, <1>8, <1>9, <1>10, <1>11 DEF Reconcile

\* Every step keeps it.
LEMMA TypeNext == TypeOK /\ [Next]_vars => TypeOK'
<1>. SUFFICES ASSUME TypeOK, [Next]_vars PROVE TypeOK'
  OBVIOUS
<1>1. CASE UNCHANGED vars
  BY <1>1 DEF TypeOK, vars, payments, results, history
<1>2. CASE Next
  BY <1>1, <1>2, TypeEnvironment, TypeRun DEF Next, Terminating
<1>. QED
  BY <1>1, <1>2

-----------------------------------------------------------------------------
\* One run.

\* What steps of the gateway, of Stripe and of other runs, failures and the end
\* leave of a run.
Kept(r) ==
  /\ \/ pc'[r] = pc[r]
     \/ pc'[r] \in {"answered", "crashed"}
     \/ r \in UnderWay /\ pc'[r] = "failing"
  /\ cursor'[r] = cursor[r] /\ dbTotals'[r] = dbTotals[r]
  /\ stripeTotals'[r] = stripeTotals[r] /\ dbRows'[r] = dbRows[r] /\ found'[r] = found[r]
  /\ since'[r] = since[r] /\ seen[r] \subseteq seen'[r] /\ missed[r] \subseteq missed'[r]
  /\ \A p \in Payment : Succeeded(p) => Succeeded(p)'
  /\ r \in UnderWay => \A p \in Payment :
       row'[p] = row[p] \/ p \in (IF row'[p] = "succeeded" THEN seen'[r] ELSE missed'[r])

\* What is collected stays so.
LEMMA CollectedKept ==
  ASSUME NEW r \in Runs, NEW S \in SUBSET Payment,
         cursor'[r] = cursor[r], since'[r] = since[r],
         \A p \in Payment : Succeeded(p) => Succeeded(p)'
  PROVE  /\ Collected(r, S) => Collected(r, S)'
         /\ Complete(r, S) => Complete(r, S)'
BY DEF Collected, Complete, Behind, IntentInDay, Start, End

\* A reading stays one.
LEMMA ReadingKept ==
  ASSUME NEW r \in Runs, NEW S,
         seen[r] \subseteq seen'[r], missed[r] \subseteq missed'[r], Reading(r, S)
  PROVE  Reading(r, S)'
BY DEF Reading, RowInDay, Start, End

\* A run that is let alone, or ends, keeps its invariant.
LEMMA RunKept ==
  ASSUME TypeOK, NEW r \in Runs, RunInv(r), Kept(r)
  PROVE  RunInv(r)'
<1>0. /\ r \in UnderWay' => r \in UnderWay
      /\ pc'[r] \in {pc[r], "answered", "crashed", "failing"}
      /\ Reported(r)' = Reported(r)
  BY ResultKept DEF Kept, UnderWay, Ended
<1>1. Untouched(r)'
  BY <1>0 DEF RunInv, Kept, Untouched
<1>2. Observed(r)'
  BY <1>0 DEF RunInv, Kept, Observed, TypeOK
<1>3. DbSide(r)'
  <2>1. ASSUME NEW S, Reading(r, S) PROVE Reading(r, S)'
    BY <2>1, ReadingKept DEF Kept
  <2>2. Reading(r, dbRows[r]) => Reading(r, dbRows[r])'
    BY DEF Kept, Reading, RowInDay, Start, End
  <2>. QED
    BY <1>0, <2>1, <2>2 DEF RunInv, Kept, DbSide
<1>4. ASSUME NEW S \in SUBSET Payment
      PROVE  /\ Collected(r, S) => Collected(r, S)'
             /\ Complete(r, S) => Complete(r, S)'
  BY CollectedKept DEF Kept
<1>5. StripeSide(r)'
  BY <1>0, <1>4 DEF RunInv, Kept, StripeSide
<1>6. FoundSide(r)'
  BY <1>0, <1>4 DEF RunInv, Kept, FoundSide
<1>7. Sound(r)'
  <2>1. Reported(r) \in SUBSET Payment
    BY ResultIsResult
  <2>. QED
    BY <1>0, <2>1 DEF RunInv, Kept, Sound, IntentInDay, RowInDay, Start, End
<1>. QED
  BY <1>1, <1>2, <1>3, <1>5, <1>6, <1>7 DEF RunInv

\* A page and the turn of it: what it adds is new, what comes before the new cursor
\* is collected, and after the last page all of it.
LEMMA PageTurned ==
  ASSUME TypeOK, NEW r \in Runs, NEW next, pc[r] # next,
         NEW S \in SUBSET Payment, Collected(r, S), \A p \in since[r] : Succeeded(p),
         NEW T, T = S \cup Paid(r),
         TurnPage(r, next), UNCHANGED <<intent, since>>
  PROVE  /\ S \cap Paid(r) = {}
         /\ T \in SUBSET Payment
         /\ \/ pc'[r] = pc[r] /\ Collected(r, T)'
            \/ pc'[r] = next /\ cursor'[r] = Null /\ Complete(r, T)'
<1>1. /\ Rest(r) \in SUBSET Payment
      /\ Page(r) \subseteq Rest(r) /\ Paid(r) \subseteq Page(r)
      /\ PageSize \in Nat
  BY SizeAssumption DEF Rest, Page, Paid, First
<1>2. \A p \in Payment : p \in Rest(r) <=>
        intent[p] # Null /\ IntentInDay(r, p) /\ ~Behind(r, p)
  <2>1. ASSUME NEW p \in Payment, cursor[r] # Null
        PROVE  Place[cursor[r]] < Place[p] <=> ~(Place[p] <= Place[cursor[r]])
    <3>1. Place[p] \in Nat /\ Place[cursor[r]] \in Nat
      BY <2>1, PlaceAssumption DEF TypeOK
    <3>. QED
      BY <3>1
  <2>. QED
    BY <2>1 DEF Rest, Behind
<1>3. S \cap Paid(r) = {} /\ T \in SUBSET Payment
  BY <1>1, <1>2 DEF Collected
<1>4. \A p \in Payment : Succeeded(p) => intent[p] # Null
  BY NullAssumption DEF Succeeded, IntentStatus
<1>5. CASE HasMore(r)
  <2>1. PICK q \in Payment : IsLast(q, Page(r)) /\ cursor' = [cursor EXCEPT ![r] = q]
    BY <1>5 DEF TurnPage
  <2>2. pc'[r] = pc[r]
    BY <1>5 DEF TurnPage
  <2>3. cursor'[r] = q /\ q # Null /\ q \in Page(r) /\ \A p \in Page(r) : Place[p] <= Place[q]
    BY <2>1, NullAssumption DEF TypeOK, IsLast
  <2>4. \A p \in Payment : Behind(r, p)' <=> Place[p] <= Place[q]
    BY <2>3 DEF Behind
  <2>5. ASSUME NEW p \in Payment, Behind(r, p) PROVE Behind(r, p)'
    <3>1. /\ Place[p] \in Nat /\ Place[q] \in Nat
          /\ cursor[r] \in Payment /\ Place[cursor[r]] \in Nat
      BY <2>5, PlaceAssumption DEF TypeOK, Behind
    <3>2. Place[cursor[r]] < Place[q] /\ Place[p] <= Place[cursor[r]]
      BY <1>1, <2>3, <2>5, <3>1 DEF Rest, Behind
    <3>. QED
      BY <2>4, <3>1, <3>2
  <2>6. ASSUME NEW p \in T
        PROVE  Succeeded(p)' /\ IntentInDay(r, p)' /\ Behind(r, p)'
    <3>1. CASE p \in S
      BY <2>5, <3>1 DEF Collected, Succeeded, IntentInDay, Start, End
    <3>2. CASE p \in Paid(r)
      BY <1>1, <1>2, <2>3, <2>4, <3>2 DEF Paid, Succeeded, IntentInDay, Start, End
    <3>. QED
      BY <3>1, <3>2
  <2>7. ASSUME NEW p \in since'[r], IntentInDay(r, p)', Behind(r, p)'
        PROVE  p \in T
    <3>1. p \in Payment /\ p \in since[r] /\ Succeeded(p) /\ IntentInDay(r, p) /\ intent[p] # Null
      BY <1>4, <2>7 DEF TypeOK, IntentInDay, Start, End
    <3>2. CASE Behind(r, p)
      BY <3>1, <3>2 DEF Collected
    <3>3. CASE ~Behind(r, p)
      <4>1. p \in Rest(r)
        BY <1>2, <3>1, <3>3
      <4>2. p \in Page(r)
        BY <1>1, <2>3, <2>4, <2>7, <3>1, <4>1, FirstIsInitial DEF Page
      <4>. QED
        BY <3>1, <4>2 DEF Paid
    <3>. QED
      BY <3>2, <3>3
  <2>. QED
    BY <1>3, <2>2, <2>6, <2>7 DEF Collected
<1>6. CASE ~HasMore(r)
  <2>1. Page(r) = Rest(r)
    BY <1>6 DEF HasMore
  <2>2. pc'[r] = next /\ cursor'[r] = Null
    BY <1>6 DEF TurnPage, Goto, TypeOK
  <2>3. ASSUME NEW p \in T
        PROVE  Succeeded(p)' /\ IntentInDay(r, p)'
    BY <1>1, <1>2 DEF Collected, Paid, Succeeded, IntentInDay, Start, End
  <2>4. ASSUME NEW p \in since'[r], IntentInDay(r, p)'
        PROVE  p \in T
    <3>1. p \in Payment /\ p \in since[r] /\ Succeeded(p) /\ IntentInDay(r, p) /\ intent[p] # Null
      BY <1>4, <2>4 DEF TypeOK, IntentInDay, Start, End
    <3>. QED
      BY <1>2, <2>1, <3>1 DEF Collected, Paid
  <2>. QED
    BY <1>3, <2>2, <2>3, <2>4 DEF Complete
<1>. QED
  BY <1>5, <1>6

-----------------------------------------------------------------------------
\* What each step leaves of the runs.

\* A row that is set is written into the histories of the runs under way.
LEMMA SetRowRecorded ==
  ASSUME TypeOK, NEW p \in Payment, NEW st, SetRow(p, st), NEW r \in Runs
  PROVE  /\ seen[r] \subseteq seen'[r] /\ missed[r] \subseteq missed'[r]
         /\ r \in UnderWay => \A q \in Payment :
              row'[q] = row[q] \/ q \in (IF row'[q] = "succeeded" THEN seen'[r] ELSE missed'[r])
BY DEF TypeOK, SetRow

\* The gateway and Stripe let the runs alone.
LEMMA EnvironmentKeeps ==
  ASSUME TypeOK, Environment, NEW r \in Runs
  PROVE  Kept(r)
<1>1. PICK p \in Payment :
        CreateIntent(p) \/ RecordRow(p) \/ Pay(p) \/ Webhook(p) \/ MoveOn(p)
  BY DEF Environment
<1>2. UNCHANGED <<pc, cursor, dbTotals, stripeTotals, dbRows, found, since>>
  BY DEF Environment, results
<1>3. \A q \in Payment : Succeeded(q) => Succeeded(q)'
  BY <1>1, NullAssumption
     DEF CreateIntent, RecordRow, Pay, Webhook, MoveOn, Succeeded, TypeOK, IntentStatus
<1>4. /\ seen[r] \subseteq seen'[r] /\ missed[r] \subseteq missed'[r]
      /\ r \in UnderWay => \A q \in Payment :
           row'[q] = row[q] \/ q \in (IF row'[q] = "succeeded" THEN seen'[r] ELSE missed'[r])
  BY <1>1, SetRowRecorded DEF CreateIntent, RecordRow, Pay, Webhook, MoveOn
<1>. QED
  BY <1>2, <1>3, <1>4 DEF Kept

\* So does a run with the others.
LEMMA OthersKept ==
  ASSUME TypeOK, NEW r \in Runs, NEW x \in Runs \ {r},
         Reconcile(r) \/ StripeFails(r) \/ DbFails(r) \/ Crash(r)
  PROVE  Kept(x)
<1>. USE DEF payments, results, history, Goto, Answer, TypeOK
<1>1. /\ UNCHANGED <<intent, row>>
      /\ cursor'[x] = cursor[x] /\ dbTotals'[x] = dbTotals[x]
      /\ stripeTotals'[x] = stripeTotals[x] /\ dbRows'[x] = dbRows[x] /\ found'[x] = found[x]
      /\ since'[x] = since[x] /\ seen'[x] = seen[x] /\ missed'[x] = missed[x]
      /\ pc'[x] = pc[x]
  <2>1. CASE InsertReport(r) \/ InsertRefused(r) \/ ReadDbTotals(r) \/ ReadDbRows(r)
    BY <2>1 DEF InsertReport, InsertRefused, ReadDbTotals, ReadDbRows
  <2>2. CASE ReadStripeTotals(r)
    BY <2>2 DEF ReadStripeTotals, TurnPage
  <2>3. CASE ComparePage(r)
    BY <2>3 DEF ComparePage, TurnPage
  <2>4. CASE SaveReport(r) \/ RecordFailure(r) \/ StripeFails(r) \/ DbFails(r) \/ Crash(r)
    BY <2>4 DEF SaveReport, RecordFailure, StripeFails, DbFails, Crash
  <2>. QED
    BY <2>1, <2>2, <2>3, <2>4 DEF Reconcile
<1>. QED
  BY <1>1 DEF Kept, Succeeded

\* A run that fails or ends keeps what it has read.
LEMMA EndKept ==
  ASSUME TypeOK, NEW r \in Runs,
         \/ InsertRefused(r) \/ SaveReport(r) \/ RecordFailure(r)
         \/ StripeFails(r) \/ DbFails(r) \/ Crash(r)
  PROVE  Kept(r)
<1>1. pc'[r] \in {"answered", "crashed"} \/ (r \in UnderWay /\ pc'[r] = "failing")
  BY DEF InsertRefused, SaveReport, RecordFailure, StripeFails, DbFails, Crash,
         Goto, Answer, TypeOK, UnderWay, Ended
<1>2. UNCHANGED <<intent, row, cursor, dbTotals, stripeTotals, dbRows, found, since, seen, missed>>
  BY DEF InsertRefused, SaveReport, RecordFailure, StripeFails, DbFails, Crash,
         payments, results, history
<1>. QED
  BY <1>1, <1>2 DEF Kept, Succeeded

\* A run begins with nothing but the state of the payments.
LEMMA InsertReportKeeps ==
  ASSUME TypeOK, NEW r \in Runs, RunInv(r), InsertReport(r)
  PROVE  RunInv(r)'
<1>1. /\ pc[r] = "insert" /\ pc'[r] = "db_totals"
      /\ UNCHANGED <<intent, row, cursor, dbTotals, stripeTotals, dbRows, found>>
      /\ since'[r] = {p \in Payment : Succeeded(p)}
      /\ seen'[r] = {p \in Payment : row[p] = "succeeded"}
      /\ missed'[r] = {p \in Payment : row[p] # "succeeded"}
  BY DEF InsertReport, Goto, TypeOK, payments, results
<1>2. Untouched(r)'
  BY <1>1 DEF RunInv, Untouched
<1>3. Observed(r)'
  BY <1>1 DEF Observed, Succeeded
<1>4. DbSide(r)' /\ StripeSide(r)' /\ FoundSide(r)'
  BY <1>1 DEF DbSide, StripeSide, FoundSide
<1>5. Sound(r)'
  <2>1. found'[r] = << >>
    BY <1>1 DEF RunInv, Untouched
  <2>. QED
    BY <2>1 DEF Sound, Reported, Range
<1>. QED
  BY <1>2, <1>3, <1>4, <1>5 DEF RunInv

\* What the rows of the day show is a reading.
LEMMA SelectedIsReading ==
  ASSUME NEW r \in UnderWay, Observed(r)
  PROVE  Reading(r, RowsSelected(r))
BY DEF Observed, Reading, RowsSelected

\* The totals of the rows are those of a reading.
LEMMA ReadDbTotalsKeeps ==
  ASSUME TypeOK, NEW r \in Runs, RunInv(r), ReadDbTotals(r)
  PROVE  RunInv(r)'
<1>1. /\ pc[r] = "db_totals" /\ pc'[r] = "stripe_totals"
      /\ UNCHANGED <<intent, row, cursor, stripeTotals, dbRows, found, since, seen, missed>>
      /\ dbTotals'[r] = TotalsOf(RowsSelected(r))
      /\ r \in UnderWay
  BY DEF ReadDbTotals, Goto, TypeOK, payments, history, UnderWay, Ended
<1>2. cursor[r] = Null /\ stripeTotals[r] = ZeroTotals /\ found[r] = << >>
  BY <1>1 DEF RunInv, Untouched
<1>3. Untouched(r)' /\ FoundSide(r)'
  BY <1>1 DEF RunInv, Untouched, FoundSide
<1>4. Observed(r)'
  BY <1>1 DEF RunInv, Observed, Succeeded
<1>5. DbSide(r)'
  <2>1. PICK S \in SUBSET Payment : S = RowsSelected(r)
    BY DEF RowsSelected
  <2>2. Reading(r, S)
    BY <1>1, <2>1, SelectedIsReading DEF RunInv
  <2>3. Reading(r, S)'
    BY <1>1, <2>2 DEF Reading, RowInDay, Start, End
  <2>4. dbTotals'[r] = TotalsOf(S)
    BY <1>1, <2>1
  <2>. QED
    BY <1>1, <2>3, <2>4 DEF DbSide
<1>6. StripeSide(r)'
  <2>1. Collected(r, {})'
    BY <1>1, <1>2 DEF Collected, Behind
  <2>2. stripeTotals'[r].count = Cardinality({})
    BY <1>1, <1>2, FS_EmptySet DEF ZeroTotals
  <2>. QED
    BY <1>1, <2>1, <2>2 DEF StripeSide
<1>7. Sound(r)'
  BY <1>1 DEF RunInv, Sound, Reported, Succeeded, IntentInDay, RowInDay, Start, End
<1>. QED
  BY <1>3, <1>4, <1>5, <1>6, <1>7 DEF RunInv

\* Each page is added to the totals once, and in the end all of them.
LEMMA ReadStripeTotalsKeeps ==
  ASSUME TypeOK, NEW r \in Runs, RunInv(r), ReadStripeTotals(r)
  PROVE  RunInv(r)'
<1>1. /\ pc[r] = "stripe_totals" /\ r \in UnderWay
      /\ TurnPage(r, "db_rows")
      /\ UNCHANGED <<intent, row, dbTotals, dbRows, found, since, seen, missed>>
      /\ stripeTotals'[r] = Added(r)
  BY DEF ReadStripeTotals, TypeOK, payments, history, UnderWay, Ended
<1>2. PICK S \in SUBSET Payment : Collected(r, S) /\ stripeTotals[r].count = Cardinality(S)
  BY <1>1 DEF RunInv, StripeSide
<1>3. \A p \in since[r] : Succeeded(p)
  BY <1>1 DEF RunInv, Observed
<1>. DEFINE T == S \cup Paid(r)
<1>4. PICK U : U = T
  OBVIOUS
<1>5. /\ S \cap Paid(r) = {} /\ U \in SUBSET Payment
      /\ \/ pc'[r] = pc[r] /\ Collected(r, U)'
         \/ pc'[r] = "db_rows" /\ cursor'[r] = Null /\ Complete(r, U)'
  BY <1>1, <1>2, <1>3, <1>4, PageTurned
<1>6. stripeTotals'[r].count = Cardinality(U)
  <2>1. /\ IsFiniteSet(S) /\ IsFiniteSet(Paid(r))
        /\ Cardinality(S) \in Nat /\ Cardinality(Paid(r)) \in Nat
    BY AddedIsTotals, FinitePayments
  <2>2. Cardinality(U) = Cardinality(S) + Cardinality(Paid(r)) - Cardinality(S \cap Paid(r))
    BY <1>4, <2>1, FS_Union
  <2>3. Cardinality(S \cap Paid(r)) = 0
    BY <1>5, FS_EmptySet
  <2>. QED
    BY <1>1, <1>2, <2>1, <2>2, <2>3, AddedIsTotals
<1>7. Untouched(r)'
  BY <1>1, <1>5 DEF RunInv, Untouched
<1>8. Observed(r)'
  BY <1>1 DEF RunInv, Observed, Succeeded, UnderWay
<1>9. DbSide(r)'
  BY <1>1, <1>5 DEF RunInv, DbSide, Reading, RowInDay, Start, End
<1>10. StripeSide(r)'
  BY <1>1, <1>5, <1>6 DEF StripeSide
<1>11. FoundSide(r)'
  BY <1>1, <1>5 DEF FoundSide
<1>12. Sound(r)'
  BY <1>1 DEF RunInv, Sound, Reported, Succeeded, IntentInDay, RowInDay, Start, End
<1>. QED
  BY <1>7, <1>8, <1>9, <1>10, <1>11, <1>12 DEF RunInv

\* The rows that are compared are a reading.
LEMMA ReadDbRowsKeeps ==
  ASSUME TypeOK, NEW r \in Runs, RunInv(r), ReadDbRows(r)
  PROVE  RunInv(r)'
<1>1. /\ pc[r] = "db_rows" /\ pc'[r] = "stripe_pages" /\ r \in UnderWay
      /\ UNCHANGED <<intent, row, cursor, dbTotals, stripeTotals, found, since, seen, missed>>
      /\ dbRows'[r] = RowsSelected(r)
  BY DEF ReadDbRows, Goto, TypeOK, payments, history, UnderWay, Ended
<1>2. cursor'[r] = Null /\ found[r] = << >> /\ found'[r] = << >>
  BY <1>1 DEF RunInv, Untouched
<1>3. Untouched(r)'
  BY <1>1 DEF Untouched
<1>4. Observed(r)'
  BY <1>1 DEF RunInv, Observed, Succeeded
<1>5. DbSide(r)'
  <2>1. Reading(r, RowsSelected(r))
    BY <1>1, SelectedIsReading DEF RunInv
  <2>2. Reading(r, dbRows[r])'
    BY <1>1, <2>1 DEF Reading, RowInDay, Start, End
  <2>3. PICK S \in SUBSET Payment : Reading(r, S) /\ dbTotals[r] = TotalsOf(S)
    BY <1>1 DEF RunInv, DbSide
  <2>4. Reading(r, S)' /\ dbTotals'[r] = TotalsOf(S)
    BY <1>1, <2>3 DEF Reading, RowInDay, Start, End
  <2>. QED
    BY <2>2, <2>4 DEF DbSide
<1>6. StripeSide(r)'
  <2>1. PICK S \in SUBSET Payment : Complete(r, S) /\ stripeTotals[r].count = Cardinality(S)
    BY <1>1 DEF RunInv, StripeSide
  <2>2. Complete(r, S)' /\ stripeTotals'[r].count = Cardinality(S)
    BY <1>1, <2>1 DEF Complete, Succeeded, IntentInDay, Start, End
  <2>. QED
    BY <1>1, <2>2 DEF StripeSide
<1>7. FoundSide(r)'
  <2>1. Collected(r, {})'
    BY <1>2 DEF Collected, Behind
  <2>2. Reported(r)' = {} \ dbRows'[r]
    BY <1>2 DEF Reported, Range
  <2>. QED
    BY <1>1, <2>1, <2>2 DEF FoundSide
<1>8. Sound(r)'
  BY <1>2 DEF Sound, Reported, Range
<1>. QED
  BY <1>3, <1>4, <1>5, <1>6, <1>7, <1>8 DEF RunInv

\* Each page is compared once, and in the end all of them.
LEMMA ComparePageKeeps ==
  ASSUME TypeOK, NEW r \in Runs, RunInv(r), ComparePage(r)
  PROVE  RunInv(r)'
<1>. DEFINE N == Paid(r) \ dbRows[r]
<1>1. /\ pc[r] = "stripe_pages" /\ r \in UnderWay
      /\ TurnPage(r, "finish")
      /\ UNCHANGED <<intent, row, dbTotals, stripeTotals, dbRows, since, seen, missed>>
      /\ found'[r] = Append(found[r], N)
  BY DEF ComparePage, TypeOK, payments, history, UnderWay, Ended
<1>2. PICK S \in SUBSET Payment : Collected(r, S) /\ Reported(r) = S \ dbRows[r]
  BY <1>1 DEF RunInv, FoundSide
<1>3. \A p \in since[r] : Succeeded(p)
  BY <1>1 DEF RunInv, Observed
<1>4. PICK U : U = S \cup Paid(r)
  OBVIOUS
<1>5. /\ S \cap Paid(r) = {} /\ U \in SUBSET Payment
      /\ \/ pc'[r] = pc[r] /\ Collected(r, U)'
         \/ pc'[r] = "finish" /\ cursor'[r] = Null /\ Complete(r, U)'
  BY <1>1, <1>2, <1>3, <1>4, PageTurned
<1>6. N \in SUBSET Payment /\ found[r] \in Seq(SUBSET Payment)
  BY AddedIsTotals DEF TypeOK
<1>7. /\ Reported(r)' = Reported(r) \cup N
      /\ DOMAIN found'[r] = DOMAIN found[r] \cup {Len(found[r]) + 1}
      /\ found'[r][Len(found[r]) + 1] = N
      /\ \A i \in DOMAIN found[r] : found'[r][i] = found[r][i] /\ i # Len(found[r]) + 1
  <2>. HIDE DEF N
  <2>. QED
    BY <1>1, <1>6, ReportedGrows
<1>8. Untouched(r)'
  BY <1>1, <1>5 DEF RunInv, Untouched
<1>9. Observed(r)'
  BY <1>1 DEF RunInv, Observed, Succeeded, UnderWay
<1>10. DbSide(r)'
  <2>1. Reading(r, dbRows[r])'
    BY <1>1 DEF RunInv, DbSide, Reading, RowInDay, Start, End
  <2>2. PICK D \in SUBSET Payment : Reading(r, D) /\ dbTotals[r] = TotalsOf(D)
    BY <1>1 DEF RunInv, DbSide
  <2>3. Reading(r, D)' /\ dbTotals'[r] = TotalsOf(D)
    BY <1>1, <2>2 DEF Reading, RowInDay, Start, End
  <2>. QED
    BY <2>1, <2>3 DEF DbSide
<1>11. StripeSide(r)'
  <2>1. PICK C \in SUBSET Payment : Complete(r, C) /\ stripeTotals[r].count = Cardinality(C)
    BY <1>1 DEF RunInv, StripeSide
  <2>2. Complete(r, C)' /\ stripeTotals'[r].count = Cardinality(C)
    BY <1>1, <2>1 DEF Complete, Succeeded, IntentInDay, Start, End
  <2>. QED
    BY <1>1, <1>5, <2>2 DEF StripeSide
<1>12. FoundSide(r)'
  <2>1. Reported(r)' = U \ dbRows'[r]
    BY <1>1, <1>2, <1>4, <1>7
  <2>. QED
    BY <1>1, <1>5, <2>1 DEF FoundSide
<1>13. Sound(r)'
  <2>1. /\ \A i, j \in DOMAIN found[r] : i # j => found[r][i] \cap found[r][j] = {}
        /\ \A p \in Reported(r) :
             Succeeded(p) /\ IntentInDay(r, p) /\ (RowInDay(r, p) => p \in missed[r])
    BY DEF RunInv, Sound
  <2>2. \A i \in DOMAIN found[r] : found[r][i] \cap N = {}
    <3>1. \A i \in DOMAIN found[r] : found[r][i] \subseteq Reported(r)
      BY ReportedIs
    <3>. QED
      BY <1>2, <1>5, <3>1
  <2>3. \A i, j \in DOMAIN found'[r] : i # j => found'[r][i] \cap found'[r][j] = {}
    <3>. HIDE DEF N
    <3>. QED
      BY <1>7, <2>1, <2>2
  <2>4. ASSUME NEW p \in Reported(r)'
        PROVE  Succeeded(p)' /\ IntentInDay(r, p)' /\ (RowInDay(r, p)' => p \in missed'[r])
    <3>1. CASE p \in Reported(r)
      BY <1>1, <2>1, <3>1 DEF Succeeded, IntentInDay, RowInDay, Start, End
    <3>2. CASE p \in N
      <4>1. p \in Payment /\ Succeeded(p) /\ IntentInDay(r, p) /\ p \notin dbRows[r]
        BY <1>6, <3>2 DEF Paid, Page, First, Rest
      <4>2. RowInDay(r, p) => p \in missed[r]
        BY <1>1, <4>1 DEF RunInv, DbSide, Reading
      <4>. QED
        BY <1>1, <4>1, <4>2 DEF Succeeded, IntentInDay, RowInDay, Start, End
    <3>. QED
      BY <1>7, <2>4, <3>1, <3>2
  <2>. QED
    BY <2>3, <2>4 DEF Sound
<1>. QED
  BY <1>8, <1>9, <1>10, <1>11, <1>12, <1>13 DEF RunInv

\* Every step of a run keeps the invariant of every run.
LEMMA RunNext ==
  ASSUME TypeOK, \A x \in Runs : RunInv(x), NEW r \in Runs,
         Reconcile(r) \/ StripeFails(r) \/ DbFails(r) \/ Crash(r)
  PROVE  \A x \in Runs : RunInv(x)'
<1>1. ASSUME NEW x \in Runs \ {r} PROVE RunInv(x)'
  BY <1>1, OthersKept, RunKept
<1>2. RunInv(r)'
  <2>1. CASE \/ InsertRefused(r) \/ SaveReport(r) \/ RecordFailure(r)
             \/ StripeFails(r) \/ DbFails(r) \/ Crash(r)
    BY <2>1, EndKept, RunKept
  <2>2. CASE \/ InsertReport(r) \/ ReadDbTotals(r) \/ ReadStripeTotals(r)
             \/ ReadDbRows(r) \/ ComparePage(r)
    BY <2>2, InsertReportKeeps, ReadDbTotalsKeeps, ReadStripeTotalsKeeps,
       ReadDbRowsKeeps, ComparePageKeeps
  <2>. QED
    BY <2>1, <2>2 DEF Reconcile
<1>. QED
  BY <1>1, <1>2

-----------------------------------------------------------------------------
\* One run at a time for a date, and its report.

\* What a run writes: its own report only, while it is under way or when it starts;
\* and it answers 200 only with its result stored.
Writes(r) ==
  /\ \A x \in Runs \ {r} : pc'[x] = pc[x] /\ reply'[x] = reply[x]
  /\ \A d \in Date : \/ report'[d] = report[d]
                     \/ /\ d = DateOf[r] /\ report'[d] # Null
                        /\ r \in UnderWay \/ report[d] = Null
  /\ (r \in UnderWay)' =>
       r \in UnderWay \/ (report[DateOf[r]] = Null /\ report'[DateOf[r]] # Null)
  /\ reply'[r] = "200" =>
       /\ r \in UnderWay /\ pc'[r] = "answered"
       /\ report'[DateOf[r]] = [status |-> "completed", result |-> ResultOf(r)]
       /\ report'[DateOf[r]] # Null
       /\ UNCHANGED <<dbTotals, stripeTotals, found>>

\* Every step of a run is of this kind.
LEMMA RunWrites ==
  ASSUME TypeOK, OneRunPerDate, NEW r \in Runs,
         Reconcile(r) \/ StripeFails(r) \/ DbFails(r) \/ Crash(r)
  PROVE  Writes(r)
<1>. DateOf[r] \in Date /\ Null \notin Report
  BY NullAssumption DEF Date
<1>. USE DEF Writes, payments, results, history, Goto, UnderWay, Ended
<1>1. \A st \in {"in_progress", "failed"} : Unfinished(st) # Null
  BY DEF Unfinished, Report
<1>2. [status |-> "completed", result |-> ResultOf(r)] # Null
  BY ResultIsResult DEF Report
<1>3. reply[r] = "200" => pc[r] = "answered"
  BY DEF OneRunPerDate
<1>4. CASE InsertReport(r)
  BY <1>1, <1>3, <1>4 DEF InsertReport, DateFree, TypeOK
<1>5. CASE InsertRefused(r)
  BY <1>3, <1>5 DEF InsertRefused, Answer, TypeOK
<1>6. CASE ReadDbTotals(r)
  BY <1>3, <1>6 DEF ReadDbTotals, TypeOK
<1>7. CASE ReadStripeTotals(r)
  BY <1>3, <1>7 DEF ReadStripeTotals, TurnPage, TypeOK
<1>8. CASE ReadDbRows(r)
  BY <1>3, <1>8 DEF ReadDbRows, TypeOK
<1>9. CASE ComparePage(r)
  BY <1>3, <1>9 DEF ComparePage, TurnPage, TypeOK
<1>10. CASE SaveReport(r)
  BY <1>2, <1>3, <1>10 DEF SaveReport, Answer, TypeOK
<1>11. CASE RecordFailure(r)
  BY <1>1, <1>3, <1>11 DEF RecordFailure, Answer, TypeOK
<1>12. CASE StripeFails(r)
  BY <1>3, <1>12 DEF StripeFails, TypeOK
<1>13. CASE DbFails(r)
  BY <1>1, <1>3, <1>13 DEF DbFails, DateFree, Answer, TypeOK
<1>14. CASE Crash(r)
  BY <1>3, <1>14 DEF Crash, TypeOK
<1>. QED
  BY <1>4, <1>5, <1>6, <1>7, <1>8, <1>9, <1>10, <1>11, <1>12, <1>13, <1>14 DEF Reconcile

\* So the unique date keeps all others away from it.
LEMMA OneRunNext ==
  ASSUME TypeOK, OneRunPerDate, NEW r \in Runs,
         Writes(r)
  PROVE  OneRunPerDate'
<1>1. \A x \in Runs : DateOf[x] \in Date
  BY DEF Date
<1>2. \A x \in UnderWay' : x \in Runs /\ (x \in UnderWay \/ x = r)
  BY DEF Writes, UnderWay, Ended
<1>3. ASSUME NEW x \in UnderWay'
      PROVE  report'[DateOf[x]] # Null
  BY <1>1, <1>2, <1>3 DEF OneRunPerDate, Writes
<1>4. ASSUME NEW x \in UnderWay', NEW y \in UnderWay', DateOf[x] = DateOf[y]
      PROVE  x = y
  BY <1>1, <1>2, <1>4 DEF OneRunPerDate, Writes
<1>5. ASSUME NEW x \in Runs, reply'[x] = "200"
      PROVE  /\ pc'[x] = "answered" /\ report'[DateOf[x]] # Null
             /\ \A y \in UnderWay' : DateOf[y] # DateOf[x]
  <2>1. CASE x = r
    <3>1. r \in UnderWay /\ pc'[r] = "answered" /\ report'[DateOf[r]] # Null
      BY <1>5, <2>1 DEF Writes
    <3>2. \A y \in UnderWay' : y \in UnderWay /\ y # r
      BY <1>2, <3>1 DEF UnderWay, Ended
    <3>. QED
      BY <2>1, <3>1, <3>2 DEF OneRunPerDate
  <2>2. CASE x # r
    <3>1. /\ pc'[x] = "answered" /\ report[DateOf[x]] # Null
          /\ \A y \in UnderWay : DateOf[y] # DateOf[x]
      BY <1>5, <2>2 DEF OneRunPerDate, Writes
    <3>. QED
      BY <1>1, <1>2, <3>1 DEF Writes
  <2>. QED
    BY <2>1, <2>2
<1>. QED
  BY <1>3, <1>4, <1>5 DEF OneRunPerDate

\* Hence nobody writes where a result has been stored.
LEMMA ToldNext ==
  ASSUME TypeOK, OneRunPerDate, ToldIsStored, NEW r \in Runs,
         Reconcile(r) \/ StripeFails(r) \/ DbFails(r) \/ Crash(r)
  PROVE  ToldIsStored'
<1>1. SUFFICES ASSUME NEW x \in Runs, reply'[x] = "200"
               PROVE  report'[DateOf[x]] = [status |-> "completed", result |-> ResultOf(x)']
  BY DEF ToldIsStored
<1>0. Writes(r)
  BY RunWrites
<1>2. CASE x = r
  BY <1>1, <1>2, <1>0, ResultKept DEF Writes
<1>3. CASE x # r
  <2>1. /\ reply[x] = "200" /\ DateOf[x] \in Date
        /\ report[DateOf[x]] = [status |-> "completed", result |-> ResultOf(x)]
    BY <1>0, <1>1, <1>3 DEF Writes, ToldIsStored, Date
  <2>2. report'[DateOf[x]] = report[DateOf[x]]
    BY <1>0, <2>1 DEF Writes, OneRunPerDate
  <2>3. ResultOf(x)' = ResultOf(x)
    BY <1>3, OthersKept, ResultKept DEF Kept
  <2>. QED
    BY <2>1, <2>2, <2>3
<1>. QED
  BY <1>2, <1>3

-----------------------------------------------------------------------------
\* The invariant.

\* It holds at the start.
LEMMA InvInit == Init => IInv
<1>. SUFFICES ASSUME Init PROVE IInv
  OBVIOUS
<1>1. TypeOK
  BY TypeInit
<1>2. OneRunPerDate /\ ToldIsStored
  BY DEF Init, OneRunPerDate, ToldIsStored, UnderWay
<1>3. ASSUME NEW r \in Runs PROVE RunInv(r)
  <2>1. pc[r] = "insert" /\ found[r] = << >>
    BY DEF Init
  <2>2. Untouched(r) /\ Observed(r) /\ DbSide(r) /\ StripeSide(r) /\ FoundSide(r)
    BY <2>1 DEF Init, Untouched, Observed, DbSide, StripeSide, FoundSide, UnderWay
  <2>3. Sound(r)
    BY <2>1 DEF Sound, Reported, Range
  <2>. QED
    BY <2>2, <2>3 DEF RunInv
<1>. QED
  BY <1>1, <1>2, <1>3 DEF IInv

\* Every step keeps it.
LEMMA InvNext == IInv /\ [Next]_vars => IInv'
<1>. SUFFICES ASSUME IInv, [Next]_vars PROVE IInv'
  OBVIOUS
<1>0. TypeOK /\ OneRunPerDate /\ ToldIsStored /\ \A r \in Runs : RunInv(r)
  BY DEF IInv
<1>1. TypeOK'
  BY <1>0, TypeNext
<1>2. CASE Environment
  <2>1. UNCHANGED <<report, pc, reply, dbTotals, stripeTotals, found>>
    BY <1>2 DEF Environment, results
  <2>2. OneRunPerDate'
    BY <1>0, <2>1 DEF OneRunPerDate, UnderWay, Ended
  <2>3. ToldIsStored'
    BY <1>0, <2>1, ResultKept DEF ToldIsStored
  <2>4. \A r \in Runs : RunInv(r)'
    BY <1>0, <1>2, EnvironmentKeeps, RunKept
  <2>. QED
    BY <1>1, <2>2, <2>3, <2>4 DEF IInv
<1>3. ASSUME NEW r \in Runs,
             Reconcile(r) \/ StripeFails(r) \/ DbFails(r) \/ Crash(r)
      PROVE  IInv'
  BY <1>0, <1>1, <1>3, RunWrites, OneRunNext, ToldNext, RunNext DEF IInv
<1>4. CASE UNCHANGED vars
  <2>1. /\ UNCHANGED <<intent, row, report, pc, cursor, dbTotals, stripeTotals>>
        /\ UNCHANGED <<dbRows, found, reply, since, seen, missed>>
    BY <1>4 DEF vars, payments, results, history
  <2>2. OneRunPerDate'
    BY <1>0, <2>1 DEF OneRunPerDate, UnderWay, Ended
  <2>3. ToldIsStored'
    BY <1>0, <2>1, ResultKept DEF ToldIsStored
  <2>4. \A r \in Runs : Kept(r)
    BY <2>1 DEF Kept, Succeeded
  <2>5. \A r \in Runs : RunInv(r)'
    BY <1>0, <2>4, RunKept
  <2>. QED
    BY <1>1, <2>2, <2>3, <2>5 DEF IInv
<1>. QED
  BY <1>2, <1>3, <1>4 DEF Next, Terminating

\* The inductive invariant holds in every reachable state.
THEOREM Invariance == Spec => []IInv
  BY InvInit, InvNext, PTL DEF Spec

-----------------------------------------------------------------------------
\* What follows.

\* The type invariant, for any payments, times, runs and faults.
THEOREM TypeCorrect == Spec => []TypeOK
<1>1. IInv => TypeOK
  BY DEF IInv
<1>. QED
  BY <1>1, Invariance, PTL

\* A run that was answered 200 finds its own result in the report of its date, for
\* good, however many runs there are for the date (reconcile_date).
THEOREM ReportIsMine == Spec => []ToldIsStored
<1>1. IInv => ToldIsStored
  BY DEF IInv
<1>. QED
  BY <1>1, Invariance, PTL

\* What a run reports are intents of its day that have succeeded, once each, and
\* none whose row was "succeeded" all the time (_find_discrepancies).
THEOREM NoneInVain == Spec => []NoFalseAlarm
<1>1. IInv => NoFalseAlarm
  BY DEF IInv, RunInv, Sound, NoFalseAlarm
<1>. QED
  BY <1>1, Invariance, PTL

\* No intent that had succeeded before the run and that no row shows is left out,
\* whatever the size of the pages and whatever goes on meanwhile.
THEOREM NoneLost == Spec => []LostAreReported
<1>1. IInv => LostAreReported
  <2>. SUFFICES ASSUME IInv, NEW r \in Runs, pc[r] = "finish",
                       NEW p \in since[r] \ seen[r], IntentInDay(r, p)
                PROVE  p \in Reported(r)
    BY DEF LostAreReported
  <2>1. PICK S \in SUBSET Payment : Complete(r, S) /\ Reported(r) = S \ dbRows[r]
    BY DEF IInv, RunInv, FoundSide
  <2>2. p \in S
    BY <2>1 DEF Complete
  <2>3. p \notin dbRows[r]
    BY DEF IInv, RunInv, DbSide, Reading
  <2>. QED
    BY <2>1, <2>2, <2>3
<1>. QED
  BY <1>1, Invariance, PTL

\* If nothing changed meanwhile, equal totals and an empty list mean that both sides
\* have the same payments: one side is within the other, and they are as many.
THEOREM EqualTotalsSuffice == Spec => []AllClearIsTrue
<1>1. IInv => AllClearIsTrue
  <2>. SUFFICES ASSUME IInv, NEW r \in Runs, pc[r] = "finish", Undisturbed(r),
                       Reported(r) = {}, dbTotals[r] = stripeTotals[r]
                PROVE  {p \in seen[r] : RowInDay(r, p)} = {p \in since[r] : IntentInDay(r, p)}
    BY DEF AllClearIsTrue
  <2>. DEFINE D == {p \in seen[r] : RowInDay(r, p)}
              I == {p \in since[r] : IntentInDay(r, p)}
  <2>0. D \in SUBSET Payment /\ I \in SUBSET Payment
    BY DEF IInv, TypeOK
  <2>1. PICK S \in SUBSET Payment : Reading(r, S) /\ dbTotals[r] = TotalsOf(S)
    BY DEF IInv, RunInv, DbSide
  <2>2. S = D
    BY <2>0, <2>1 DEF Reading, Undisturbed
  <2>3. PICK C \in SUBSET Payment : Complete(r, C) /\ stripeTotals[r].count = Cardinality(C)
    BY DEF IInv, RunInv, StripeSide
  <2>4. C = I
    BY <2>0, <2>3 DEF Complete, Undisturbed
  <2>5. Cardinality(D) = Cardinality(I)
    BY <2>1, <2>2, <2>3, <2>4, TotalsOfIsTotals
  <2>6. I \subseteq D
    <3>1. PICK S2 \in SUBSET Payment : Complete(r, S2) /\ {} = S2 \ dbRows[r]
      BY DEF IInv, RunInv, FoundSide
    <3>2. I \subseteq dbRows[r]
      BY <3>1 DEF Complete
    <3>3. dbRows[r] \subseteq D
      BY DEF IInv, RunInv, DbSide, Reading
    <3>. QED
      BY <3>2, <3>3
  <2>7. IsFiniteSet(D)
    BY <2>0, FinitePayments
  <2>. HIDE DEF D, I
  <2>8. D = I
    BY <2>5, <2>6, <2>7, FS_Subset
  <2>. QED
    BY <2>8 DEF D, I
<1>. QED
  BY <1>1, Invariance, PTL
=============================================================================
