------------------------- MODULE StripeClientProofs -------------------------
(***************************************************************************)
(* The breaker's counters agree with its state for any number of           *)
(* coroutines and any thresholds, and a retried operation gives up exactly *)
(* at its limit.  The invariant is inductive once it also says that a      *)
(* coroutine that still tries has attempts left.                           *)
(***************************************************************************)
EXTENDS StripeClient, TLAPS

AttemptsLeft == \A c \in Caller : pc[c] = "trying" => attempts[c] < Limit(c)

IInv == TypeOK /\ CountsMatchState /\ AttemptsLeft /\ RaisesAfterLastAttempt

\* The invariant holds of a closed circuit and idle callers.
LEMMA InvInit == Init => IInv
<1>. SUFFICES ASSUME Init PROVE IInv
  OBVIOUS
<1>1. TypeOK
  <2>1. state \in {"closed", "open", "half_open"} /\ cooled \in BOOLEAN
    BY Zenon DEF Init
  <2>2. failure_count \in 0..CountCap /\ success_count \in 0..SuccessThreshold
    BY ThresholdAssumption DEF Init
  <2>3. /\ pc \in [Caller -> {"idle", "trying", "returned", "raised"}]
        /\ kind \in [Caller -> {"create", "once"}]
        /\ attempts \in [Caller -> 0..MaxAttempts]
        /\ error \in [Caller -> ErrorType \cup {"none"}]
    BY ThresholdAssumption DEF Init
  <2>. QED
    BY <2>1, <2>2, <2>3 DEF TypeOK
<1>2. CountsMatchState
  BY ThresholdAssumption DEF Init, CountsMatchState
<1>3. AttemptsLeft /\ RaisesAfterLastAttempt
  BY DEF Init, AttemptsLeft, RaisesAfterLastAttempt
<1>. QED
  BY <1>1, <1>2, <1>3 DEF IInv

\* What an admitted call does to the breaker.
LEMMA BreakerStep ==
  ASSUME TypeOK, CountsMatchState, Admits, OnSuccess \/ OnFailure
  PROVE  /\ CountsMatchState'
         /\ state' \in {"closed", "open", "half_open"}
         /\ failure_count' \in 0..CountCap
         /\ success_count' \in 0..SuccessThreshold
         /\ cooled' \in BOOLEAN
<1>1. CASE OnSuccess
  BY <1>1, ThresholdAssumption
  DEF TypeOK, CountsMatchState, Admits, OnSuccess, Entered, Successes
<1>2. CASE OnFailure
  <2>1. Counted \in 0..CountCap /\ (Counted < FailureThreshold => failure_count < FailureThreshold)
    BY ThresholdAssumption DEF TypeOK, Counted
  <2>2. /\ failure_count' = Counted /\ success_count' = Successes /\ cooled' = FALSE
        /\ state' = IF Counted >= FailureThreshold THEN "open" ELSE Entered
    BY <1>2 DEF OnFailure
  <2>3. state = "open" => Counted >= FailureThreshold
    BY <2>1, ThresholdAssumption DEF TypeOK, CountsMatchState
  <2>4. CountsMatchState'
    BY <2>1, <2>2, <2>3, ThresholdAssumption DEF TypeOK, CountsMatchState, Entered, Successes
  <2>5. cooled' \in BOOLEAN
    BY <2>2, Zenon
  <2>6. success_count' \in 0..SuccessThreshold
    BY <2>2, ThresholdAssumption DEF TypeOK, Successes
  <2>7. state' \in {"closed", "open", "half_open"}
    BY <2>2 DEF TypeOK, Entered
  <2>. QED
    BY <2>1, <2>2, <2>4, <2>5, <2>6, <2>7
<1>. QED
  BY <1>1, <1>2

\* What an attempt does to the coroutine that makes it, and to no other.
LEMMA CallerStep ==
  ASSUME IInv, NEW c \in Caller, pc[c] = "trying",
         \/ \E e \in ErrorType : AfterError(c, e)
         \/ /\ attempts' = [attempts EXCEPT ![c] = @ + 1]
            /\ pc' = [pc EXCEPT ![c] = "returned"]
            /\ UNCHANGED <<kind, error>>
  PROVE  /\ AttemptsLeft' /\ RaisesAfterLastAttempt'
         /\ pc' \in [Caller -> {"idle", "trying", "returned", "raised"}]
         /\ kind' \in [Caller -> {"create", "once"}]
         /\ attempts' \in [Caller -> 0..MaxAttempts]
         /\ error' \in [Caller -> ErrorType \cup {"none"}]
<1>1. attempts[c] < Limit(c) /\ attempts[c] + 1 \in 0..MaxAttempts
  BY ThresholdAssumption DEF IInv, TypeOK, AttemptsLeft, Limit
<1>2. ASSUME NEW e \in ErrorType, AfterError(c, e)
      PROVE  /\ AttemptsLeft' /\ RaisesAfterLastAttempt'
             /\ pc' \in [Caller -> {"idle", "trying", "returned", "raised"}]
             /\ kind' \in [Caller -> {"create", "once"}]
             /\ attempts' \in [Caller -> 0..MaxAttempts]
             /\ error' \in [Caller -> ErrorType \cup {"none"}]
  <2>1. Retried(c, e) <=> e # "other" /\ attempts[c] + 1 < Limit(c)
    BY DEF Retried
  <2>2. AttemptsLeft'
    BY <1>1, <1>2, <2>1, ThresholdAssumption
    DEF IInv, TypeOK, AttemptsLeft, AfterError, Limit
  <2>3. RaisesAfterLastAttempt'
    BY <1>1, <1>2, <2>1, ThresholdAssumption
    DEF IInv, TypeOK, RaisesAfterLastAttempt, AfterError, Limit
  <2>. QED
    BY <1>1, <1>2, <2>2, <2>3 DEF IInv, TypeOK, AfterError
<1>3. CASE /\ attempts' = [attempts EXCEPT ![c] = @ + 1]
           /\ pc' = [pc EXCEPT ![c] = "returned"]
           /\ UNCHANGED <<kind, error>>
  BY <1>1, <1>3 DEF IInv, TypeOK, AttemptsLeft, RaisesAfterLastAttempt, Limit
<1>. QED
  BY <1>2, <1>3

\* Every step keeps the invariant.
LEMMA InvNext == IInv /\ [Next]_vars => IInv'
<1>. SUFFICES ASSUME IInv, [Next]_vars PROVE IInv'
  OBVIOUS
<1>1. ASSUME NEW c \in Caller, Begin(c) PROVE IInv'
  BY <1>1, ThresholdAssumption
  DEF IInv, TypeOK, CountsMatchState, AttemptsLeft, RaisesAfterLastAttempt, Limit,
      Begin, breaker
<1>2. ASSUME NEW c \in Caller, Succeed(c) PROVE IInv'
  BY <1>2, BreakerStep, CallerStep DEF IInv, TypeOK, Succeed
<1>3. ASSUME NEW c \in Caller, NEW e \in Classified, FailWith(c, e) PROVE IInv'
  BY <1>3, BreakerStep, CallerStep DEF IInv, TypeOK, FailWith, ErrorType
<1>4. ASSUME NEW c \in Caller, Refuse(c) PROVE IInv'
  <2>1. "transient" \in ErrorType
    BY DEF ErrorType
  <2>2. UNCHANGED <<state, failure_count, success_count, cooled>>
    BY <1>4 DEF Refuse, breaker
  <2>3. CountsMatchState'
    BY <2>2 DEF IInv, CountsMatchState
  <2>. QED
    BY <1>4, <2>1, <2>2, <2>3, CallerStep DEF IInv, TypeOK, Refuse
<1>5. CASE CoolDown
  BY <1>5 DEF IInv, TypeOK, CountsMatchState, AttemptsLeft, RaisesAfterLastAttempt, Limit,
     CoolDown, callers
<1>6. CASE UNCHANGED vars
  BY <1>6 DEF IInv, TypeOK, CountsMatchState, AttemptsLeft, RaisesAfterLastAttempt, Limit,
     vars, breaker, callers
<1>. QED
  BY <1>1, <1>2, <1>3, <1>4, <1>5, <1>6 DEF Next, Attempt

\* The inductive invariant holds in every reachable state.
THEOREM Invariance == Spec => []IInv
  BY InvInit, InvNext, PTL DEF Spec

\* The breaker and the operations keep their types: every count stays within its
\* limit, however the coroutines interleave.
THEOREM TypeCorrect == Spec => []TypeOK
<1>1. IInv => TypeOK
  BY DEF IInv
<1>. QED
  BY <1>1, Invariance, PTL

\* The circuit is open exactly while the failures reach the threshold, and half
\* open only between its first and its last success.
THEOREM BreakerIsConsistent == Spec => []CountsMatchState
<1>1. IInv => CountsMatchState
  BY DEF IInv
<1>. QED
  BY <1>1, Invariance, PTL

\* A StripeError comes out of an operation only after its last attempt.
THEOREM RetriesExhausted == Spec => []RaisesAfterLastAttempt
<1>1. IInv => RaisesAfterLastAttempt
  BY DEF IInv
<1>. QED
  BY <1>1, Invariance, PTL

\* A probe of an open circuit that fails leaves it open for another timeout.
THEOREM ProbesReopen == Spec => FailedProbeReopens
<1>1. ASSUME IInv, [Next]_vars, NEW c \in Caller,
             state = "open", attempts'[c] = attempts[c] + 1, pc'[c] # "returned"
      PROVE  state' = "open" /\ ~cooled'
  <2>0. attempts[c] \in Nat
    BY <1>1 DEF IInv, TypeOK
  <2>1. ASSUME NEW d \in Caller, Begin(d) PROVE FALSE
    BY <1>1, <2>0, <2>1 DEF IInv, TypeOK, Begin
  <2>2. ASSUME NEW d \in Caller, Succeed(d) PROVE FALSE
    BY <1>1, <2>0, <2>2 DEF IInv, TypeOK, Succeed
  <2>3. ASSUME NEW d \in Caller, NEW e \in Classified, FailWith(d, e)
        PROVE  state' = "open" /\ ~cooled'
    BY <1>1, <2>3, ThresholdAssumption
    DEF IInv, TypeOK, CountsMatchState, FailWith, OnFailure, Counted
  <2>4. ASSUME NEW d \in Caller, Refuse(d) PROVE state' = "open" /\ ~cooled'
    BY <1>1, <2>4 DEF Refuse, Admits, breaker
  <2>5. ~CoolDown /\ ~(UNCHANGED vars)
    BY <1>1, <2>0 DEF CoolDown, vars, callers
  <2>. QED
    BY <1>1, <2>1, <2>2, <2>3, <2>4, <2>5 DEF Next, Attempt
<1>2. IInv /\ [Next]_vars =>
        [\A c \in Caller :
           (state = "open" /\ attempts'[c] = attempts[c] + 1 /\ pc'[c] # "returned")
             => state' = "open" /\ ~cooled']_vars
  BY <1>1
<1>. QED
  BY <1>2, Invariance, PTL DEF Spec, FailedProbeReopens
=============================================================================
