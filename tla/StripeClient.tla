---------------------------- MODULE StripeClient ----------------------------
(***************************************************************************)
(* The wrapper around Stripe: the CircuitBreaker of one StripeClient,      *)
(* shared by every coroutine that uses that client, and the tenacity retry *)
(* around create_payment_intent.  The other operations call Stripe once.   *)
(*                                                                         *)
(* CircuitBreaker.call is synchronous, so an attempt is one step; between  *)
(* the attempts of one operation the coroutine sleeps and others run.      *)
(***************************************************************************)
EXTENDS Naturals

CONSTANTS
  Caller,             \* coroutines that use the client
  FailureThreshold,   \* failures that open the circuit
  SuccessThreshold,   \* successes that close it again
  MaxAttempts,        \* stop_after_attempt
  CountCap            \* where the model stops counting failures

ASSUME ThresholdAssumption ==
  /\ FailureThreshold \in Nat \ {0}
  /\ SuccessThreshold \in Nat \ {0}
  /\ MaxAttempts \in Nat \ {0}
  /\ CountCap \in Nat /\ CountCap >= FailureThreshold

VARIABLES
  state, failure_count, success_count,   \* the breaker
  cooled,     \* more than timeout seconds since last_failure_time
  pc,         \* what each caller does
  kind,       \* its operation: "create" is retried, "once" is not
  attempts,   \* attempts its operation has made
  error       \* type of the last error of its operation

breaker == <<state, failure_count, success_count, cooled>>
callers == <<pc, kind, attempts, error>>
vars == <<breaker, callers>>

\* What a failed call to Stripe ends in.  _classify_error names a class that
\* stripe 7.11.0 does not define (ServiceUnavailableError), and names it before it
\* comes to any other but RateLimitError: every other error turns into an
\* AttributeError, "other", that is no StripeError.
Classified == {"rate_limit", "other"}

\* "transient" is left to the open circuit.
ErrorType == Classified \cup {"transient"}

\* The type invariant.
TypeOK ==
  /\ state \in {"closed", "open", "half_open"}
  /\ failure_count \in 0..CountCap
  /\ success_count \in 0..SuccessThreshold
  /\ cooled \in BOOLEAN
  /\ pc \in [Caller -> {"idle", "trying", "returned", "raised"}]
  /\ kind \in [Caller -> {"create", "once"}]
  /\ attempts \in [Caller -> 0..MaxAttempts]
  /\ error \in [Caller -> ErrorType \cup {"none"}]

Init ==
  /\ state = "closed" /\ failure_count = 0 /\ success_count = 0
  /\ cooled = FALSE
  /\ pc = [c \in Caller |-> "idle"]
  /\ kind = [c \in Caller |-> "once"]
  /\ attempts = [c \in Caller |-> 0]
  /\ error = [c \in Caller |-> "none"]

-----------------------------------------------------------------------------
\* CircuitBreaker.call

Admits == state # "open" \/ cooled

\* The state in which an admitted call runs: an open circuit becomes half open.
Entered == IF state = "open" THEN "half_open" ELSE state

Successes == IF state = "open" THEN 0 ELSE success_count

\* Seeded faults: a half-open circuit that never closes; one whose count of
\* successes starts over with each.
OnSuccess_NeverCloses ==
  /\ failure_count' = 0
  /\ success_count' = Successes + (IF Entered = "half_open" THEN 1 ELSE 0)
  /\ state' = Entered
  /\ UNCHANGED cooled

OnSuccess_Forgets ==
  /\ failure_count' = 0
  /\ success_count' = IF Entered = "half_open" THEN 1 ELSE success_count
  /\ state' = IF Entered = "half_open" /\ success_count' >= SuccessThreshold
                THEN "closed" ELSE Entered
  /\ UNCHANGED cooled

OnSuccess ==
  /\ failure_count' = 0
  /\ success_count' = Successes + (IF Entered = "half_open" THEN 1 ELSE 0)
  /\ state' = IF Entered = "half_open" /\ success_count' >= SuccessThreshold
                THEN "closed" ELSE Entered
  /\ UNCHANGED cooled

\* Failures beyond the threshold are all alike, so the count stops at CountCap.
Counted == IF failure_count < CountCap THEN failure_count + 1 ELSE CountCap

\* Seeded faults: open one failure too late; start a probe from zero failures.
OnFailure_Late ==
  /\ failure_count' = Counted
  /\ success_count' = Successes
  /\ cooled' = FALSE
  /\ state' = IF failure_count' > FailureThreshold THEN "open" ELSE Entered

OnFailure_FreshProbe ==
  /\ failure_count' = IF state = "open" THEN 1 ELSE Counted
  /\ success_count' = Successes
  /\ cooled' = FALSE
  /\ state' = IF failure_count' >= FailureThreshold THEN "open" ELSE Entered

OnFailure ==
  /\ failure_count' = Counted
  /\ success_count' = Successes
  /\ cooled' = FALSE
  /\ state' = IF failure_count' >= FailureThreshold THEN "open" ELSE Entered

-----------------------------------------------------------------------------
\* One attempt of an operation.

Limit(c) == IF kind[c] = "create" THEN MaxAttempts ELSE 1

\* retry_if_exception_type(StripeError): any type of StripeError, not others.
Retried(c, e) == e # "other" /\ attempts[c] + 1 < Limit(c)

\* Seeded fault: give up one attempt early.
AfterError_Early(c, e) ==
  /\ attempts' = [attempts EXCEPT ![c] = @ + 1]
  /\ error' = [error EXCEPT ![c] = e]
  /\ pc' = [pc EXCEPT ![c] = IF e # "other" /\ attempts[c] + 2 < Limit(c)
                               THEN "trying" ELSE "raised"]
  /\ UNCHANGED kind

AfterError(c, e) ==
  /\ attempts' = [attempts EXCEPT ![c] = @ + 1]
  /\ error' = [error EXCEPT ![c] = e]
  /\ pc' = [pc EXCEPT ![c] = IF Retried(c, e) THEN "trying" ELSE "raised"]
  /\ UNCHANGED kind

Begin(c) ==
  /\ pc[c] # "trying"
  /\ pc' = [pc EXCEPT ![c] = "trying"]
  /\ \E k \in {"create", "once"} : kind' = [kind EXCEPT ![c] = k]
  /\ attempts' = [attempts EXCEPT ![c] = 0]
  /\ error' = [error EXCEPT ![c] = "none"]
  /\ UNCHANGED breaker

Succeed(c) ==
  /\ pc[c] = "trying"
  /\ Admits
  /\ OnSuccess
  /\ attempts' = [attempts EXCEPT ![c] = @ + 1]
  /\ pc' = [pc EXCEPT ![c] = "returned"]
  /\ UNCHANGED <<kind, error>>

FailWith(c, e) ==
  /\ pc[c] = "trying"
  /\ Admits
  /\ OnFailure
  /\ AfterError(c, e)

\* Seeded fault: a refusal is not counted as an attempt.
Refuse_Uncounted(c) ==
  /\ pc[c] = "trying"
  /\ ~Admits
  /\ error' = [error EXCEPT ![c] = "transient"]
  /\ UNCHANGED <<breaker, pc, kind, attempts>>

\* "Circuit breaker is open", a transient StripeError.
Refuse(c) ==
  /\ pc[c] = "trying"
  /\ ~Admits
  /\ AfterError(c, "transient")
  /\ UNCHANGED breaker

\* The breaker's timeout runs out; only an open circuit looks at the clock.
CoolDown ==
  /\ state = "open" /\ ~cooled
  /\ cooled' = TRUE
  /\ UNCHANGED <<state, failure_count, success_count, callers>>

Attempt(c) == Succeed(c) \/ (\E e \in Classified : FailWith(c, e)) \/ Refuse(c)

Next == (\E c \in Caller : Begin(c) \/ Attempt(c)) \/ CoolDown

Spec == Init /\ [][Next]_vars

\* A retried coroutine is resumed when its sleep ends; the clock goes on.
FairSpec == Spec /\ WF_vars(CoolDown) /\ \A c \in Caller : WF_vars(Attempt(c))

-----------------------------------------------------------------------------
\* Properties.

\* How the counters and the state belong together, over any interleaving of
\* callers: a circuit is open only after enough failures; it is closed, or half
\* open between two probes, only while the failures since are below the
\* threshold; and it is half open only between its first and its last success.
CountsMatchState ==
  /\ state = "open" <=> failure_count >= FailureThreshold
  /\ state = "half_open" => success_count \in 1 .. SuccessThreshold - 1

\* If the first probe of an open circuit fails, the circuit is open again at
\* once and waits another timeout, however many callers were ready to probe.
FailedProbeReopens ==
  [][\A c \in Caller :
       (state = "open" /\ attempts'[c] = attempts[c] + 1 /\ pc'[c] # "returned")
         => state' = "open" /\ ~cooled']_vars

\* An operation ends with a StripeError only after its last attempt: five for
\* create_payment_intent, one for the others, an open circuit's refusals
\* counted.
RaisesAfterLastAttempt ==
  \A c \in Caller :
    (pc[c] = "raised" /\ error[c] # "other") => attempts[c] = Limit(c)

\* Every operation ends, whatever Stripe answers and however long the circuit
\* stays open.
OperationsEnd == \A c \in Caller : pc[c] = "trying" ~> pc[c] \in {"returned", "raised"}

\* The circuit recovers: if from some time on Stripe fails no call and clients go
\* on calling, it is closed in the end and stays closed, whatever mixture of
\* failures, probes and refusals has gone before.
Recovers ==
  (/\ <>[][\A c \in Caller, e \in Classified : ~FailWith(c, e)]_vars
   /\ []<>(\E c \in Caller : pc[c] = "trying"))
  => <>[](state = "closed")
=============================================================================
