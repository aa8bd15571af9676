--------------------------- MODULE Reconciliation ---------------------------
(***************************************************************************)
(* ReconciliationEngine.reconcile_date, as POST /admin/reconcile runs it:  *)
(* any number of runs, for any dates, beside a gateway that goes on        *)
(* creating, settling and refunding payments.                              *)
(*                                                                         *)
(* A payment p is a row created at RowTime[p] and a PaymentIntent created  *)
(* later, at IntentTime[p].  An intent in Unlinked has no row that names   *)
(* it: it was not made by the gateway, or every answer about it was lost   *)
(* and its row is recorded without it.  Times are counted from the first   *)
(* second of day 0.                                                        *)
(***************************************************************************)
EXTENDS Naturals, Sequences, FiniteSets, Functions

CONSTANTS
  Payment, Amount, RowTime, IntentTime,
  Unlinked,      \* intents that no row names
  Place,         \* the place of each intent in Stripe's list, newest first
  DayLength,     \* seconds in a day
  LaterStatus,   \* statuses that a payment may have after "succeeded"
  Runs, DateOf,  \* the reconciliations, and the date (day number) of each
  PageSize,      \* payment intents on a page of Stripe's list
  StoredLimit,   \* how many discrepancies the report keeps
  Faults,        \* what may go wrong: "stripe", "db", "crash"
  Null

ASSUME PaymentAssumption ==
  /\ IsFiniteSet(Payment) /\ Unlinked \subseteq Payment
  /\ LaterStatus \subseteq {"failed", "refunded"}
  /\ Amount \in [Payment -> Nat]
  /\ RowTime \in [Payment -> Nat] /\ IntentTime \in [Payment -> Nat]
  /\ \A p \in Payment : RowTime[p] <= IntentTime[p]
ASSUME PlaceAssumption ==
  /\ Place \in [Payment -> Nat]
  /\ \A p, q \in Payment : p # q =>
       Place[p] # Place[q] /\ (Place[p] < Place[q] => IntentTime[p] >= IntentTime[q])
ASSUME RunAssumption == DateOf \in [Runs -> Nat]
ASSUME SizeAssumption == {DayLength, PageSize} \subseteq Nat \ {0} /\ StoredLimit \in Nat

Date == {DateOf[r] : r \in Runs}

VARIABLES
  intent,   \* Stripe: status of each intent, Null before it is created
  row,      \* PostgreSQL: status of each payment's row
  report,   \* reconciliation_status: the row of each date, or Null
  \* the runs
  pc, cursor, dbTotals, stripeTotals, dbRows, found, reply,
  \* history, for the properties
  since,    \* intents that had succeeded before the run
  seen,     \* payments whose row was "succeeded" at some time during the run
  missed    \* payments whose row was not, at some time during the run

payments == <<intent, row>>
history  == <<since, seen, missed>>
results  == <<dbTotals, stripeTotals, dbRows, found>>
vars == <<payments, report, pc, cursor, results, reply, history>>

IntentStatus == {"requires_payment_method", "succeeded"}
RowStatus == {"requires_payment_method", "succeeded", "failed", "refunded"}

Totals == [count : Nat, total_cents : Nat]
ZeroTotals == [count |-> 0, total_cents |-> 0]

Result == [dbTotals : Totals, stripeTotals : Totals,
           discrepancy_cents : Nat, discrepancy_count : Nat, details : SUBSET Payment]

Report == [status : {"in_progress", "failed", "completed"}, result : Result \cup {Null}]

ASSUME NullAssumption ==
  Null \notin Payment /\ Null \notin IntentStatus /\ Null \notin RowStatus /\ Null \notin Report

Unfinished(st) == [status |-> st, result |-> Null]

\* The type invariant.
TypeOK ==
  /\ intent \in [Payment -> IntentStatus \cup {Null}]
  /\ row \in [Payment -> RowStatus \cup {Null}]
  /\ report \in [Date -> Report \cup {Null}]
  /\ pc \in [Runs -> {"insert", "db_totals", "stripe_totals", "db_rows",
                      "stripe_pages", "finish", "failing", "answered", "crashed"}]
  /\ cursor \in [Runs -> Payment \cup {Null}]
  /\ dbTotals \in [Runs -> Totals] /\ stripeTotals \in [Runs -> Totals]
  /\ dbRows \in [Runs -> SUBSET Payment]
  /\ found \in [Runs -> Seq(SUBSET Payment)]
  /\ reply \in [Runs -> {"none", "200", "500"}]
  /\ since \in [Runs -> SUBSET Payment] /\ seen \in [Runs -> SUBSET Payment]
  /\ missed \in [Runs -> SUBSET Payment]

Init ==
  /\ intent = [p \in Payment |-> Null]
  /\ row = [p \in Payment |-> Null]
  /\ report = [d \in Date |-> Null]
  /\ pc = [r \in Runs |-> "insert"]
  /\ cursor = [r \in Runs |-> Null]
  /\ dbTotals = [r \in Runs |-> ZeroTotals]
  /\ stripeTotals = [r \in Runs |-> ZeroTotals]
  /\ dbRows = [r \in Runs |-> {}]
  /\ found = [r \in Runs |-> << >>]
  /\ reply = [r \in Runs |-> "none"]
  /\ since = [r \in Runs |-> {}]
  /\ seen = [r \in Runs |-> {}]
  /\ missed = [r \in Runs |-> {}]

Ended(r) == pc[r] \in {"answered", "crashed"}

Goto(r, stage) == pc' = [pc EXCEPT ![r] = stage]

\* The route answers 200 with the result, or 500 for any exception.
Answer(r, code) ==
  /\ reply' = [reply EXCEPT ![r] = code]
  /\ Goto(r, "answered")

-----------------------------------------------------------------------------
\* The payments, as the gateway, Stripe and the webhooks move them.

Succeeded(p) == intent[p] = "succeeded"

\* The runs under way may read the row as it is or as it was.
UnderWay == {r \in Runs : pc[r] # "insert" /\ ~Ended(r)}

SetRow(p, st) ==
  /\ row' = [row EXCEPT ![p] = st]
  /\ seen' = [r \in Runs |-> IF r \in UnderWay /\ st = "succeeded"
                              THEN seen[r] \cup {p} ELSE seen[r]]
  /\ missed' = [r \in Runs |-> IF r \in UnderWay /\ st # "succeeded"
                                THEN missed[r] \cup {p} ELSE missed[r]]

CreateIntent(p) ==
  /\ intent[p] = Null
  /\ intent' = [intent EXCEPT ![p] = "requires_payment_method"]
  /\ UNCHANGED <<row, seen, missed>>

RecordRow(p) ==
  /\ intent[p] # Null /\ p \notin Unlinked /\ row[p] = Null
  /\ SetRow(p, "requires_payment_method")
  /\ UNCHANGED intent

Pay(p) ==
  /\ intent[p] = "requires_payment_method"
  /\ intent' = [intent EXCEPT ![p] = "succeeded"]
  /\ UNCHANGED <<row, seen, missed>>

\* The webhook of payment_intent.succeeded.
Webhook(p) ==
  /\ row[p] # Null /\ Succeeded(p)
  /\ SetRow(p, "succeeded")
  /\ UNCHANGED intent

\* A refund, or the webhook of an earlier event that comes late.
MoveOn(p) ==
  /\ row[p] = "succeeded"
  /\ \E st \in LaterStatus : SetRow(p, st)
  /\ UNCHANGED intent

\* What happens after the last run is over concerns none of them.
Environment ==
  /\ \E r \in Runs : ~Ended(r)
  /\ \E p \in Payment :
       CreateIntent(p) \/ RecordRow(p) \/ Pay(p) \/ Webhook(p) \/ MoveOn(p)
  /\ UNCHANGED <<report, pc, cursor, results, reply, since>>

-----------------------------------------------------------------------------
\* What the database and Stripe answer.

Start(r) == DateOf[r] * DayLength
End(r)   == (DateOf[r] + 1) * DayLength

\* created_at >= start and created_at < end
RowInDay(r, p) == Start(r) <= RowTime[p] /\ RowTime[p] < End(r)

\* created gte start, lte end: the first second of the next day counts as well.
IntentInDay(r, p) == Start(r) <= IntentTime[p] /\ IntentTime[p] <= End(r)

RowsSelected(r) == {p \in Payment : row[p] = "succeeded" /\ RowInDay(r, p)}

\* A sum counts the cents of the payments one by one.
Sum(S) == Cardinality(UNION {{p} \X (1 .. Amount[p]) : p \in S})
TotalsOf(S) == [count |-> Cardinality(S), total_cents |-> Sum(S)]

\* The intents of the day that come after the cursor in Stripe's list.
Rest(r) ==
  {p \in Payment : /\ intent[p] # Null /\ IntentInDay(r, p)
                   /\ cursor[r] # Null => Place[cursor[r]] < Place[p]}

\* The first n of a set of intents, as they are listed.
First(n, S) == {p \in S : Cardinality({q \in S : Place[q] < Place[p]}) < n}

IsLast(p, S) == p \in S /\ \A q \in S : Place[q] <= Place[p]

Page(r) == First(PageSize, Rest(r))
HasMore(r) == Page(r) # Rest(r)

\* Seeded faults: starting_after is never moved; or it jumps over an intent.
TurnPage_Stuck(r, next) ==
  /\ UNCHANGED cursor
  /\ IF HasMore(r) THEN UNCHANGED pc ELSE Goto(r, next)

TurnPage_Jumps(r, next) ==
  IF HasMore(r)
    THEN /\ \E p \in Payment : /\ IsLast(p, First(PageSize + 1, Rest(r)))
                               /\ cursor' = [cursor EXCEPT ![r] = p]
         /\ UNCHANGED pc
    ELSE cursor' = [cursor EXCEPT ![r] = Null] /\ Goto(r, next)

\* starting_after is the last intent of the page; the next stage starts anew.
TurnPage(r, next) ==
  IF HasMore(r)
    THEN /\ \E p \in Payment : IsLast(p, Page(r)) /\ cursor' = [cursor EXCEPT ![r] = p]
         /\ UNCHANGED pc
    ELSE cursor' = [cursor EXCEPT ![r] = Null] /\ Goto(r, next)

\* Seeded fault: intents that have not succeeded are listed, too.
Paid_AnyStatus(r) == Page(r)

Paid(r) == {p \in Page(r) : Succeeded(p)}

-----------------------------------------------------------------------------
\* reconcile_date

\* Seeded fault: the row of the date is replaced.
DateFree_Replaced(r) == TRUE

\* reconciliation_date is unique.
DateFree(r) == report[DateOf[r]] = Null

InsertReport(r) ==
  /\ pc[r] = "insert"
  /\ DateFree(r)
  /\ report' = [report EXCEPT ![DateOf[r]] = Unfinished("in_progress")]
  /\ Goto(r, "db_totals")
  /\ since' = [since EXCEPT ![r] = {p \in Payment : Succeeded(p)}]
  /\ seen' = [seen EXCEPT ![r] = {p \in Payment : row[p] = "succeeded"}]
  /\ missed' = [missed EXCEPT ![r] = {p \in Payment : row[p] # "succeeded"}]
  /\ UNCHANGED <<payments, cursor, results, reply>>

\* The failed flush left the session unusable: the handler's own commit raises.
InsertRefused(r) ==
  /\ pc[r] = "insert"
  /\ ~DateFree(r)
  /\ Answer(r, "500")
  /\ UNCHANGED <<payments, report, cursor, results, history>>

ReadDbTotals(r) ==
  /\ pc[r] = "db_totals"
  /\ dbTotals' = [dbTotals EXCEPT ![r] = TotalsOf(RowsSelected(r))]
  /\ Goto(r, "stripe_totals")
  /\ UNCHANGED <<payments, report, cursor, stripeTotals, dbRows, found, reply, history>>

\* Seeded fault: intents that have not succeeded are added up, too.
Added_AnyStatus(r) ==
  [count |-> stripeTotals[r].count + Cardinality(Page(r)),
   total_cents |-> stripeTotals[r].total_cents + Sum(Page(r))]

Added(r) ==
  [count |-> stripeTotals[r].count + Cardinality(Paid(r)),
   total_cents |-> stripeTotals[r].total_cents + Sum(Paid(r))]

ReadStripeTotals(r) ==
  /\ pc[r] = "stripe_totals"
  /\ stripeTotals' = [stripeTotals EXCEPT ![r] = Added(r)]
  /\ TurnPage(r, "db_rows")
  /\ UNCHANGED <<payments, report, dbTotals, dbRows, found, reply, history>>

\* _find_discrepancies: the rows with an intent.
ReadDbRows(r) ==
  /\ pc[r] = "db_rows"
  /\ dbRows' = [dbRows EXCEPT ![r] = RowsSelected(r)]
  /\ Goto(r, "stripe_pages")
  /\ UNCHANGED <<payments, report, cursor, dbTotals, stripeTotals, found, reply, history>>

\* An intent that no row of the day explains is missing_in_database.  The two
\* amounts of a payment are the same, so there is no amount_mismatch.  The
\* discrepancies are kept page by page.
ComparePage(r) ==
  /\ pc[r] = "stripe_pages"
  /\ found' = [found EXCEPT ![r] = Append(@, Paid(r) \ dbRows[r])]
  /\ TurnPage(r, "finish")
  /\ UNCHANGED <<payments, report, dbTotals, stripeTotals, dbRows, reply, history>>

\* All discrepancies a run has found.
Reported(r) == UNION Range(found[r])

\* Seeded fault: a difference with its sign.
Distance_Signed(m, n) == m - n

Distance(m, n) == IF m < n THEN n - m ELSE m - n

ResultOf(r) ==
  [dbTotals |-> dbTotals[r], stripeTotals |-> stripeTotals[r],
   discrepancy_cents |-> Distance(dbTotals[r].total_cents, stripeTotals[r].total_cents),
   discrepancy_count |-> Distance(dbTotals[r].count, stripeTotals[r].count),
   details |-> First(StoredLimit, Reported(r))]

SaveReport(r) ==
  /\ pc[r] = "finish"
  /\ report' = [report EXCEPT ![DateOf[r]] = [status |-> "completed", result |-> ResultOf(r)]]
  /\ \/ Answer(r, "200")
     \/ "db" \in Faults /\ Answer(r, "500")   \* committed, the answer lost
  /\ UNCHANGED <<payments, cursor, results, history>>

StripeFails(r) ==
  /\ "stripe" \in Faults
  /\ pc[r] \in {"stripe_totals", "stripe_pages"}
  /\ Goto(r, "failing")
  /\ UNCHANGED <<payments, report, cursor, results, reply, history>>

\* The handler records the failure, if its own commit succeeds.
RecordFailure(r) ==
  /\ pc[r] = "failing"
  /\ \/ report' = [report EXCEPT ![DateOf[r]] = Unfinished("failed")]
     \/ "db" \in Faults /\ UNCHANGED report
  /\ Answer(r, "500")
  /\ UNCHANGED <<payments, cursor, results, history>>

\* A read or a commit fails, and so does the handler's commit in the same session:
\* the report stays in_progress.  Only the totals begin a transaction of their
\* own: if it gets no connection the handler still may.
DbFails(r) ==
  /\ "db" \in Faults
  /\ \/ /\ pc[r] \in {"insert", "db_totals", "db_rows", "finish"}
        /\ Answer(r, "500")
        /\ UNCHANGED report
     \/ /\ pc[r] = "insert" /\ DateFree(r)     \* committed, the answer lost
        /\ report' = [report EXCEPT ![DateOf[r]] = Unfinished("in_progress")]
        /\ Answer(r, "500")
     \/ /\ pc[r] = "db_totals"
        /\ Goto(r, "failing")
        /\ UNCHANGED <<report, reply>>
  /\ UNCHANGED <<payments, cursor, results, history>>

Crash(r) ==
  /\ "crash" \in Faults
  /\ r \in UnderWay
  /\ Goto(r, "crashed")
  /\ UNCHANGED <<payments, report, cursor, results, reply, history>>

-----------------------------------------------------------------------------
Reconcile(r) ==
  \/ InsertReport(r) \/ InsertRefused(r) \/ ReadDbTotals(r) \/ ReadStripeTotals(r)
  \/ ReadDbRows(r) \/ ComparePage(r) \/ SaveReport(r) \/ RecordFailure(r)

Terminating == (\A r \in Runs : Ended(r)) /\ UNCHANGED vars

Next ==
  \/ Environment
  \/ \E r \in Runs : Reconcile(r) \/ StripeFails(r) \/ DbFails(r) \/ Crash(r)
  \/ Terminating

Spec == Init /\ [][Next]_vars

\* The run's awaits return; its list calls give a page or an error.
FairSpec == Spec /\ \A r \in Runs : WF_vars(Reconcile(r))

-----------------------------------------------------------------------------
\* Properties.

\* A payment that had succeeded at Stripe before the run, and that the database
\* does not show as succeeded at any time while it runs, is reported: it was
\* recorded without its intent, its event came before its row, or a late event
\* or a refund has moved it on.  Pages, and payments that go on meanwhile, make
\* no difference.
LostAreReported ==
  \A r \in Runs : pc[r] = "finish" =>
    \A p \in since[r] \ seen[r] : IntentInDay(r, p) => p \in Reported(r)

\* What is reported, once each, are intents of the day that have succeeded, and
\* if the row of one belongs to the day it was not "succeeded" all the time.
NoFalseAlarm ==
  \A r \in Runs :
    /\ \A i, j \in DOMAIN found[r] : i # j => found[r][i] \cap found[r][j] = {}
    /\ \A p \in Reported(r) :
         Succeeded(p) /\ IntentInDay(r, p) /\ (RowInDay(r, p) => p \in missed[r])

\* If nothing changed while it ran, a run with no difference in the totals and
\* an empty list has found the same payments on both sides.  The list alone
\* would not do: it does not look for rows that Stripe does not have.
Undisturbed(r) == since[r] = {p \in Payment : Succeeded(p)} /\ seen[r] \cap missed[r] = {}

AllClearIsTrue ==
  \A r \in Runs :
    (/\ pc[r] = "finish" /\ Undisturbed(r)
     /\ Reported(r) = {} /\ dbTotals[r] = stripeTotals[r]) =>
      {p \in seen[r] : RowInDay(r, p)} = {p \in since[r] : IntentInDay(r, p)}

\* A run that is answered 200 finds its own result in the report of its date, for
\* good: no other run of the date has written or writes there.
ToldIsStored ==
  \A r \in Runs : reply[r] = "200" =>
    report[DateOf[r]] = [status |-> "completed", result |-> ResultOf(r)]

\* Every run is answered, unless its process dies: the pages come to an end.
RunsEnd == \A r \in Runs : <>Ended(r)

\* "Payment in Stripe but not in database" (reconciliation.py): a payment reported
\* as missing_in_database has no row.
MissingIsAbsent ==
  \A r \in Runs : \A p \in Reported(r) : row[p] = Null
=============================================================================
