------------------------------ MODULE SagaProofs ------------------------------
(***************************************************************************)
(* Theorems on Saga, for any sagas, any number of steps, any choice of the *)
(* steps that have a compensating action and of those whose compensating   *)
(* action may fail, and any faults.                                        *)
(***************************************************************************)
EXTENDS Saga, Integers, TLAPS

\* How the coroutine's place, Saga.state and active_sagas go together.
Linked(s) ==
  /\ s \in active <=> pc[s] \notin {"new", "returned"}
  /\ pc[s] \in {"new", "created"} <=> state[s] = "pending"
  /\ pc[s] = "returned" <=> state[s] \in {"completed", "compensated"}

\* An effect is accounted for by the status of its step.
Accounted(s) ==
  \A i \in Step : <<s, i>> \in effects =>
    status[s][i] \in {"completed", "failed"} \/ (pc[s] = "cancelled" /\ i = at[s])

\* Forwards, the steps before the current one are done, and no others begun.
Forwards(s) ==
  /\ pc[s] \in {"new", "created"} => at[s] = 1
  /\ pc[s] \in {"new", "created", "forward"} =>
       /\ completed[s] = at[s] - 1
       /\ \A i \in Step : i < at[s] => status[s][i] = "completed" /\ <<s, i>> \in effects
       /\ \A i \in Step : i >= at[s] => status[s][i] = "pending"
  /\ state[s] = "completed" => \A i \in Step : <<s, i>> \in effects

\* Backwards, what lies above the current step and can be taken back has been.
Backwards(s) ==
  /\ pc[s] = "backward" =>
       \A i \in Compensable \ Stubborn : i > at[s] => status[s][i] # "completed"
  /\ state[s] = "compensated" =>
       \A i \in Compensable \ Stubborn : status[s][i] # "completed"

IInv == TypeOK /\ \A s \in Sagas : Linked(s) /\ Accounted(s) /\ Forwards(s) /\ Backwards(s)

LEMMA InitIInv == Init => IInv
  BY StepsAssumption DEF Init, IInv, TypeOK, Linked, Accounted, Forwards, Backwards,
     SagaState, StepStatus, Step

-----------------------------------------------------------------------------
\* Every way on from a step keeps the types.
LEMMA FinishTypes ==
  ASSUME TypeOK, NEW s \in Sagas, NEW o \in SagaState, Finish(s, o)
  PROVE  /\ state' \in [Sagas -> SagaState] /\ at' \in [Sagas -> Step]
         /\ pc' \in [Sagas -> {"new", "created", "forward", "backward", "returned", "cancelled"}]
         /\ active' \subseteq Sagas
  BY DEF TypeOK, Finish

LEMMA ForwardTypes ==
  ASSUME TypeOK, NEW s \in Sagas, Forward(s, at[s])
  PROVE  /\ state' \in [Sagas -> SagaState] /\ at' \in [Sagas -> Step]
         /\ pc' \in [Sagas -> {"new", "created", "forward", "backward", "returned", "cancelled"}]
         /\ active' \subseteq Sagas
<1>1. CASE Finish(s, "completed")
  BY <1>1, FinishTypes DEF SagaState
<1>2. CASE ~Finish(s, "completed")
  <2>1. at[s] \in Step /\ at[s] < NumSteps
    BY <1>2 DEF TypeOK, Forward
  <2>2. at[s] + 1 \in Step
    BY <2>1, StepsAssumption DEF Step
  <2> QED BY <1>2, <2>2 DEF TypeOK, Forward
<1> QED BY <1>1, <1>2

LEMMA BackwardTypes ==
  ASSUME TypeOK, NEW s \in Sagas, NEW n, Backward(s, n)
  PROVE  /\ state' \in [Sagas -> SagaState] /\ at' \in [Sagas -> Step]
         /\ pc' \in [Sagas -> {"new", "created", "forward", "backward", "returned", "cancelled"}]
         /\ active' \subseteq Sagas
<1>1. CASE Finish(s, "compensated")
  BY <1>1, FinishTypes DEF SagaState
<1>2. CASE ~Finish(s, "compensated")
  <2>1. PICK i \in Undoable(s, n) :
          /\ at' = [at EXCEPT ![s] = i]
          /\ pc' = [pc EXCEPT ![s] = "backward"]
          /\ state' = [state EXCEPT ![s] = "compensating"]
          /\ UNCHANGED active
    BY <1>2 DEF Backward
  <2>2. i \in Step
    BY CompensableAssumption DEF Undoable
  <2> QED BY <2>1, <2>2 DEF TypeOK, SagaState
<1> QED BY <1>1, <1>2

LEMMA TypeStep == TypeOK /\ [Next]_vars => TypeOK'
<1> SUFFICES ASSUME TypeOK, [Next]_vars PROVE TypeOK'
  OBVIOUS
<1>1. CASE UNCHANGED vars
  BY <1>1 DEF TypeOK, vars
<1>2. ASSUME NEW s \in Sagas, Create(s) PROVE TypeOK'
  BY <1>2 DEF TypeOK, Create
<1>3. ASSUME NEW s \in Sagas, Begin(s) PROVE TypeOK'
  BY <1>3 DEF TypeOK, Begin, SagaState
<1>4. ASSUME NEW s \in Sagas, StepReturns(s) PROVE TypeOK'
  <2>1. at[s] \in Step /\ at[s] \in 0..NumSteps
    BY StepsAssumption DEF TypeOK, Step
  <2>2. status' \in [Sagas -> [Step -> StepStatus]]
    BY <1>4, <2>1 DEF TypeOK, StepReturns, Mark, StepStatus
  <2>3. completed' \in [Sagas -> 0..NumSteps] /\ effects' \subseteq Sagas \X Step
    BY <1>4, <2>1 DEF TypeOK, StepReturns, Does
  <2> QED BY <1>4, <2>2, <2>3, ForwardTypes DEF TypeOK, StepReturns
<1>5. ASSUME NEW s \in Sagas, StepRaises(s) PROVE TypeOK'
  <2>1. status' \in [Sagas -> [Step -> StepStatus]]
    BY <1>5 DEF TypeOK, StepRaises, Mark, StepStatus
  <2>2. completed' \in [Sagas -> 0..NumSteps] /\ effects' \subseteq Sagas \X Step
    BY <1>5 DEF TypeOK, StepRaises, Does
  <2> QED BY <1>5, <2>1, <2>2, BackwardTypes DEF TypeOK, StepRaises
<1>6. ASSUME NEW s \in Sagas, CompensationReturns(s) PROVE TypeOK'
  <2>1. status' \in [Sagas -> [Step -> StepStatus]]
    BY <1>6 DEF TypeOK, CompensationReturns, Mark, StepStatus
  <2>2. completed' \in [Sagas -> 0..NumSteps] /\ effects' \subseteq Sagas \X Step
    BY <1>6 DEF TypeOK, CompensationReturns, Undoes
  <2> QED BY <1>6, <2>1, <2>2, BackwardTypes DEF TypeOK, CompensationReturns
<1>7. ASSUME NEW s \in Sagas, CompensationRaises(s) PROVE TypeOK'
  <2>1. /\ status' \in [Sagas -> [Step -> StepStatus]]
        /\ completed' \in [Sagas -> 0..NumSteps] /\ effects' \subseteq Sagas \X Step
    BY <1>7 DEF TypeOK, CompensationRaises, Undoes
  <2> QED BY <1>7, <2>1, BackwardTypes DEF TypeOK, CompensationRaises
<1>8. ASSUME NEW s \in Sagas, Cancel(s) PROVE TypeOK'
  BY <1>8 DEF TypeOK, Cancel, Does, Undoes
<1> QED BY <1>1, <1>2, <1>3, <1>4, <1>5, <1>6, <1>7, <1>8 DEF Next, Run, Terminating

-----------------------------------------------------------------------------
\* A step of one saga leaves the others alone.
Same(t) ==
  /\ state'[t] = state[t] /\ status'[t] = status[t] /\ completed'[t] = completed[t]
  /\ pc'[t] = pc[t] /\ at'[t] = at[t]
  /\ t \in active' <=> t \in active
  /\ \A i \in Step : <<t, i>> \in effects' <=> <<t, i>> \in effects

LEMMA OthersStay ==
  ASSUME TypeOK, NEW s \in Sagas, Create(s) \/ Run(s) \/ Cancel(s),
         NEW t \in Sagas, t # s
  PROVE  Same(t)
<1>1. CASE Create(s)
  BY <1>1 DEF TypeOK, Same, Create
<1>2. CASE Begin(s)
  BY <1>2 DEF TypeOK, Same, Begin
<1>3. CASE Cancel(s)
  BY <1>3 DEF TypeOK, Same, Cancel, Does, Undoes
<1>4. ASSUME NEW n, Backward(s, n)
      PROVE  /\ state'[t] = state[t] /\ pc'[t] = pc[t] /\ at'[t] = at[t]
             /\ t \in active' <=> t \in active
  BY <1>4 DEF TypeOK, Backward, Finish
<1>5. CASE StepReturns(s)
  <2>1. /\ state'[t] = state[t] /\ pc'[t] = pc[t] /\ at'[t] = at[t]
        /\ t \in active' <=> t \in active
    BY <1>5 DEF TypeOK, StepReturns, Forward, Finish
  <2> QED BY <1>5, <2>1 DEF TypeOK, Same, StepReturns, Mark, Does
<1>6. CASE StepRaises(s)
  BY <1>4, <1>6 DEF TypeOK, Same, StepRaises, Mark, Does
<1>7. CASE CompensationReturns(s)
  BY <1>4, <1>7 DEF TypeOK, Same, CompensationReturns, Mark, Undoes
<1>8. CASE CompensationRaises(s)
  BY <1>4, <1>8 DEF TypeOK, Same, CompensationRaises, Undoes
<1> QED BY <1>1, <1>2, <1>3, <1>5, <1>6, <1>7, <1>8 DEF Run

Sane(s) == Linked(s) /\ Accounted(s) /\ Forwards(s) /\ Backwards(s)

LEMMA SameIsSane ==
  ASSUME TypeOK, NEW t \in Sagas, Sane(t), Same(t) PROVE Sane(t)'
  BY DEF Sane, Same, Linked, Accounted, Forwards, Backwards

-----------------------------------------------------------------------------
\* Where the way back from step n leads, if the steps above n that can be taken
\* back have been.
LEMMA BackwardGoes ==
  ASSUME TypeOK, TypeOK', NEW s \in Sagas, NEW n \in Int, Backward(s, n),
         \A i \in Compensable \ Stubborn : i > n => status'[s][i] # "completed"
  PROVE  Backwards(s)'
<1>1. CASE Finish(s, "compensated")
  <2>1. state'[s] = "compensated" /\ pc'[s] = "returned"
    BY <1>1 DEF TypeOK, Finish
  <2>2. CASE Undoable(s, n) = {}
    <3>1. ASSUME NEW i \in Compensable \ Stubborn PROVE status'[s][i] # "completed"
      <4>1. i \in Int
        BY CompensableAssumption, StepsAssumption DEF Step
      <4> QED BY <2>2, <4>1 DEF Undoable
    <3> QED BY <2>1, <3>1 DEF Backwards
  <2>3. CASE Undoable(s, n) # {}
    BY <2>1, <2>3 DEF Backward, TypeOK
  <2> QED BY <2>2, <2>3
<1>2. CASE ~Finish(s, "compensated")
  <2>1. PICK i \in Undoable(s, n) :
          /\ \A j \in Undoable(s, n) : j <= i
          /\ at'[s] = i /\ pc'[s] = "backward" /\ state'[s] = "compensating"
    BY <1>2 DEF Backward, TypeOK
  <2>2. ASSUME NEW j \in Compensable \ Stubborn, j > at'[s]
        PROVE  status'[s][j] # "completed"
    <3>1. j \in Int /\ i \in Int
      BY <2>1, CompensableAssumption, StepsAssumption DEF Step, Undoable
    <3> QED BY <2>1, <2>2, <3>1 DEF Undoable
  <2> QED BY <2>1, <2>2 DEF Backwards
<1> QED BY <1>1, <1>2

\* It ends the saga or not, but never makes it new or completed.
LEMMA BackwardLinks ==
  ASSUME TypeOK, NEW s \in Sagas, NEW n, Backward(s, n), s \in active
  PROVE  /\ Linked(s)'
         /\ pc'[s] \in {"backward", "returned"} /\ state'[s] # "completed"
  BY DEF TypeOK, Backward, Finish, Linked

LEMMA StepReturnsSane ==
  ASSUME TypeOK, TypeOK', NEW s \in Sagas, Sane(s), StepReturns(s) PROVE Sane(s)'
<1> DEFINE a == at[s]
<1>1. /\ a \in Int /\ a >= 1 /\ a <= NumSteps /\ pc[s] = "forward" /\ s \in active
      /\ NumSteps \in Int
  BY StepsAssumption DEF TypeOK, Step, StepReturns, Sane, Linked
<1>2. /\ completed'[s] = a
      /\ status'[s] = [status[s] EXCEPT ![a] = "completed"]
      /\ effects' = effects \cup {<<s, a>>}
  BY DEF TypeOK, StepReturns, Mark, Does
<1>3. \A i \in Step : i <= a => status'[s][i] = "completed" /\ <<s, i>> \in effects'
  BY <1>1, <1>2 DEF TypeOK, Sane, Forwards, Step
<1>4. \A i \in Step : i > a => status'[s][i] = "pending"
  BY <1>1, <1>2 DEF TypeOK, Sane, Forwards, Step
<1>5. \A i \in Step : <<s, i>> \in effects' => status'[s][i] \in {"completed", "failed"}
  BY <1>1, <1>2 DEF TypeOK, Sane, Accounted, Step
<1>6. CASE a = NumSteps
  <2>1. pc'[s] = "returned" /\ state'[s] = "completed" /\ s \notin active'
    BY <1>1, <1>6 DEF TypeOK, StepReturns, Forward, Finish
  <2>2. \A i \in Step : i <= a
    BY <1>1, <1>6 DEF Step
  <2> QED BY <1>3, <1>5, <2>1, <2>2 DEF Sane, Linked, Accounted, Forwards, Backwards
<1>7. CASE a < NumSteps
  <2>1. at'[s] = a + 1 /\ pc'[s] = pc[s] /\ state'[s] = state[s] /\ active' = active
    BY <1>1, <1>7 DEF TypeOK, StepReturns, Forward, Finish
  <2>2. Linked(s)' /\ Accounted(s)'
    BY <1>5, <2>1 DEF Sane, Linked, Accounted
  <2>3. state'[s] \notin {"completed", "compensated"}
    BY <1>1, <2>1 DEF Sane, Linked
  <2>4. Forwards(s)'
    BY <1>1, <1>2, <1>3, <1>4, <2>1, <2>3 DEF Forwards, Step
  <2> QED BY <1>1, <2>1, <2>2, <2>3, <2>4 DEF Sane, Backwards
<1> QED BY <1>1, <1>6, <1>7

LEMMA StepRaisesSane ==
  ASSUME TypeOK, TypeOK', NEW s \in Sagas, Sane(s), StepRaises(s) PROVE Sane(s)'
<1> DEFINE a == at[s]
<1>1. /\ a \in Int /\ a >= 1 /\ pc[s] = "forward" /\ s \in active
      /\ completed[s] = a - 1 /\ Backward(s, a - 1)
  BY StepsAssumption DEF TypeOK, Step, StepRaises, Sane, Linked, Forwards
<1>2. /\ status'[s] = [status[s] EXCEPT ![a] = "failed"]
      /\ effects' \subseteq effects \cup {<<s, a>>}
  BY DEF TypeOK, StepRaises, Mark, Does
<1>3. Linked(s)' /\ Forwards(s)'
  BY <1>1, BackwardLinks DEF Forwards
<1>4. Accounted(s)'
  BY <1>1, <1>2 DEF TypeOK, Sane, Accounted
<1>5. ASSUME NEW i \in Compensable \ Stubborn, i > a - 1
      PROVE  status'[s][i] # "completed"
  <2>1. i \in Step /\ i \in Int
    BY CompensableAssumption, StepsAssumption DEF Step
  <2>2. i >= a /\ status[s][i] = "pending"
    BY <1>1, <1>5, <2>1 DEF Sane, Forwards
  <2> QED BY <1>2, <2>1, <2>2 DEF TypeOK
<1>6. Backwards(s)'
  BY <1>1, <1>5, BackwardGoes
<1> QED BY <1>3, <1>4, <1>6 DEF Sane

LEMMA CompensationReturnsSane ==
  ASSUME TypeOK, TypeOK', NEW s \in Sagas, Sane(s), CompensationReturns(s) PROVE Sane(s)'
<1> DEFINE a == at[s]
<1>1. a \in Int /\ a \in Step /\ pc[s] = "backward" /\ s \in active /\ Backward(s, a - 1)
  BY StepsAssumption DEF TypeOK, Step, CompensationReturns, Sane, Linked
<1>2. /\ status'[s] = [status[s] EXCEPT ![a] = "compensated"]
      /\ effects' = effects \ {<<s, a>>}
  BY DEF TypeOK, CompensationReturns, Mark, Undoes
<1>3. Linked(s)' /\ Forwards(s)'
  BY <1>1, BackwardLinks DEF Forwards
<1>4. Accounted(s)'
  BY <1>1, <1>2 DEF TypeOK, Sane, Accounted
<1>5. ASSUME NEW i \in Compensable \ Stubborn, i > a - 1
      PROVE  status'[s][i] # "completed"
  <2>1. i \in Step /\ i \in Int
    BY CompensableAssumption, StepsAssumption DEF Step
  <2>2. i = a \/ (i > a /\ status[s][i] # "completed")
    BY <1>1, <1>5, <2>1 DEF Sane, Backwards
  <2> QED BY <1>2, <2>1, <2>2 DEF TypeOK
<1>6. Backwards(s)'
  BY <1>1, <1>5, BackwardGoes
<1> QED BY <1>3, <1>4, <1>6 DEF Sane

LEMMA CompensationRaisesSane ==
  ASSUME TypeOK, TypeOK', NEW s \in Sagas, Sane(s), CompensationRaises(s) PROVE Sane(s)'
<1> DEFINE a == at[s]
<1>1. /\ a \in Int /\ a \in Stubborn /\ pc[s] = "backward" /\ s \in active
      /\ Backward(s, a - 1)
  BY StepsAssumption DEF TypeOK, Step, CompensationRaises, Sane, Linked
<1>2. status'[s] = status[s] /\ effects' \subseteq effects
  BY DEF CompensationRaises, Undoes
<1>3. Linked(s)' /\ Forwards(s)'
  BY <1>1, BackwardLinks DEF Forwards
<1>4. Accounted(s)'
  BY <1>1, <1>2 DEF Sane, Accounted
<1>5. ASSUME NEW i \in Compensable \ Stubborn, i > a - 1
      PROVE  status'[s][i] # "completed"
  <2>1. i \in Int
    BY CompensableAssumption, StepsAssumption DEF Step
  <2> QED BY <1>1, <1>2, <1>5, <2>1 DEF Sane, Backwards
<1>6. Backwards(s)'
  BY <1>1, <1>5, BackwardGoes
<1> QED BY <1>3, <1>4, <1>6 DEF Sane

LEMMA OtherStepsSane ==
  ASSUME TypeOK, TypeOK', NEW s \in Sagas, Sane(s), Create(s) \/ Begin(s) \/ Cancel(s)
  PROVE  Sane(s)'
<1>1. CASE Create(s)
  BY <1>1 DEF TypeOK, Create, Sane, Linked, Accounted, Forwards, Backwards
<1>2. CASE Begin(s)
  BY <1>2 DEF TypeOK, Begin, Sane, Linked, Accounted, Forwards, Backwards
<1>3. CASE Cancel(s)
  <2>1. /\ pc[s] \in {"forward", "backward"} /\ pc'[s] = "cancelled"
        /\ UNCHANGED <<state, status, completed, at, active>>
        /\ effects' \subseteq effects \cup {<<s, at[s]>>}
    BY <1>3 DEF TypeOK, Cancel, Does, Undoes
  <2>2. state[s] \notin {"pending", "completed", "compensated"} /\ s \in active
    BY <2>1 DEF Sane, Linked
  <2>3. Linked(s)' /\ Forwards(s)' /\ Backwards(s)'
    BY <2>1, <2>2 DEF Linked, Forwards, Backwards
  <2>4. Accounted(s)'
    BY <2>1 DEF Sane, Accounted
  <2> QED BY <2>3, <2>4 DEF Sane
<1> QED BY <1>1, <1>2, <1>3

LEMMA StepIInv == IInv /\ [Next]_vars => IInv'
<1> SUFFICES ASSUME IInv, [Next]_vars PROVE IInv'
  OBVIOUS
<1>1. TypeOK /\ TypeOK' /\ \A t \in Sagas : Sane(t)
  BY TypeStep DEF IInv, Sane
<1>2. SUFFICES ASSUME NEW t \in Sagas PROVE Sane(t)'
  BY <1>1 DEF IInv, Sane
<1>3. CASE UNCHANGED vars
  <2>1. Same(t)
    BY <1>3 DEF vars, Same
  <2> QED BY <1>1, <2>1, SameIsSane
<1>4. ASSUME NEW s \in Sagas, Create(s) \/ Run(s) \/ Cancel(s) PROVE Sane(t)'
  <2>1. CASE t # s
    BY <1>1, <1>4, <2>1, OthersStay, SameIsSane
  <2>2. CASE t = s
    BY <1>1, <1>4, <2>2, StepReturnsSane, StepRaisesSane, CompensationReturnsSane,
       CompensationRaisesSane, OtherStepsSane DEF Run
  <2> QED BY <2>1, <2>2
<1> QED BY <1>3, <1>4 DEF Next, Terminating

-----------------------------------------------------------------------------
\* The inductive invariant holds in every reachable state.
THEOREM Invariance == Spec => []IInv
  BY InitIInv, StepIInv, PTL DEF Spec

\* The type invariant.
THEOREM TypeCorrect == Spec => []TypeOK
<1>1. IInv => TypeOK
  BY DEF IInv
<1> QED BY <1>1, Invariance, PTL

\* No effect of a saga stands unseen: the status of its step tells of it, and
\* what a finished saga leaves standing could not be taken back.
THEOREM EffectsAreSeen == Spec => []NothingHidden
<1>1. ASSUME IInv PROVE NothingHidden
  <2> SUFFICES ASSUME NEW s \in Sagas
               PROVE  /\ Accounted(s)
                      /\ state[s] = "completed" => \A i \in Step : <<s, i>> \in effects
                      /\ state[s] = "compensated" =>
                           \A i \in Step : <<s, i>> \in effects =>
                             status[s][i] = "failed" \/ i \notin Compensable \/ i \in Stubborn
    BY DEF NothingHidden, Accounted
  <2>1. Linked(s) /\ Accounted(s) /\ Forwards(s) /\ Backwards(s)
    BY <1>1 DEF IInv
  <2>2. state[s] = "compensated" => pc[s] # "cancelled"
    BY <2>1 DEF Linked
  <2> QED BY <2>1, <2>2 DEF Accounted, Forwards, Backwards
<1> QED BY <1>1, Invariance, PTL

\* The orchestrator's active sagas are those created and not brought to an end.
THEOREM OrchestratorKnows == Spec => []ActiveIsUnfinished
<1>1. IInv => ActiveIsUnfinished
  BY DEF IInv, Linked, ActiveIsUnfinished
<1> QED BY <1>1, Invariance, PTL

\* Effects are taken back in the reverse order of the steps.
THEOREM ReverseOrder == Spec => UndoneInReverse
<1> DEFINE Undone ==
      \A s \in Sagas : \A i \in Step :
        (<<s, i>> \in effects /\ <<s, i>> \notin effects') =>
          \A j \in Step : (j > i /\ Retractable(s, j)) => <<s, j>> \notin effects
<1>1. ASSUME IInv, [Next]_vars PROVE [Undone]_vars
  <2> SUFFICES ASSUME NEW s \in Sagas, NEW i \in Step,
                      <<s, i>> \in effects, <<s, i>> \notin effects',
                      NEW j \in Step, j > i, Retractable(s, j)
               PROVE  <<s, j>> \notin effects
    OBVIOUS
  <2>1. pc[s] = "backward" /\ i = at[s]
    <3>1. PICK t \in Sagas : Create(t) \/ Run(t) \/ Cancel(t)
      BY <1>1 DEF Next, Terminating, vars
    <3>2. t = s
      BY <1>1, <3>1, OthersStay DEF IInv, Same
    <3> QED BY <3>1, <3>2 DEF Create, Run, Begin, Cancel, StepReturns, StepRaises,
            CompensationReturns, CompensationRaises, Does, Undoes
  <2>2. j \in Compensable \ Stubborn /\ status[s][j] \notin {"completed", "failed"}
    BY <1>1, <2>1 DEF IInv, Backwards, Retractable
  <2> QED BY <1>1, <2>1, <2>2 DEF IInv, Accounted
<1>2. Spec => [][Undone]_vars
  BY <1>1, Invariance, PTL DEF Spec
<1> QED BY <1>2 DEF UndoneInReverse
=============================================================================
