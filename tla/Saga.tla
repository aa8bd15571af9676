-------------------------------- MODULE Saga --------------------------------
(***************************************************************************)
(* Saga orchestration: SagaOrchestrator.execute_saga with Saga.execute,    *)
(* _compensate and SagaStep.  The steps of a saga are numbered in the      *)
(* order of add_step, and each saga is executed once, by one coroutine.    *)
(*                                                                         *)
(* What a forward action does to the world is its effect; its compensating *)
(* action takes the effect back.  Both are the caller's functions: they    *)
(* may raise, with or without having done their work.                      *)
(***************************************************************************)
EXTENDS Naturals

CONSTANTS
  Sagas,         \* the sagas of one orchestrator
  NumSteps,      \* how many steps each has
  Compensable,   \* the steps added with a compensating action
  Stubborn,      \* the steps whose compensating action may raise
  Faults         \* what else may happen: "late" (a forward action raises
                 \* after its effect), "cancel" (the coroutine is cancelled)

Step == 1..NumSteps

ASSUME StepsAssumption == NumSteps \in Nat \ {0}
ASSUME CompensableAssumption == Stubborn \subseteq Compensable /\ Compensable \subseteq Step

VARIABLES
  state,      \* Saga.state
  status,     \* SagaStep.status of each step
  completed,  \* how many steps completed_steps holds: always the first ones
  pc,         \* where the coroutine is
  at,         \* the step it awaits
  active,     \* SagaOrchestrator.active_sagas
  effects     \* the world: <<saga, step>> whose effect stands

vars == <<state, status, completed, pc, at, active, effects>>

SagaState == {"pending", "in_progress", "completed", "compensating", "compensated"}
StepStatus == {"pending", "completed", "failed", "compensated"}

\* The type invariant.
TypeOK ==
  /\ state \in [Sagas -> SagaState]
  /\ status \in [Sagas -> [Step -> StepStatus]]
  /\ completed \in [Sagas -> 0..NumSteps]
  /\ pc \in [Sagas -> {"new", "created", "forward", "backward", "returned", "cancelled"}]
  /\ at \in [Sagas -> Step]
  /\ active \subseteq Sagas
  /\ effects \subseteq Sagas \X Step

Init ==
  /\ state = [s \in Sagas |-> "pending"]
  /\ status = [s \in Sagas |-> [i \in Step |-> "pending"]]
  /\ completed = [s \in Sagas |-> 0]
  /\ pc = [s \in Sagas |-> "new"]
  /\ at = [s \in Sagas |-> 1]
  /\ active = {}
  /\ effects = {}

\* create_saga
Create(s) ==
  /\ pc[s] = "new"
  /\ pc' = [pc EXCEPT ![s] = "created"]
  /\ active' = active \cup {s}
  /\ UNCHANGED <<state, status, completed, at, effects>>

\* execute_saga calls execute, which awaits the first forward action.
Begin(s) ==
  /\ pc[s] = "created"
  /\ state' = [state EXCEPT ![s] = "in_progress"]
  /\ pc' = [pc EXCEPT ![s] = "forward"]
  /\ UNCHANGED <<status, completed, at, active, effects>>

-----------------------------------------------------------------------------
\* Ways on, none of which awaits anything.

\* Seeded fault: execute_saga forgets only the sagas that succeed.
Finish_KeepsFailed(s, outcome) ==
  /\ state' = [state EXCEPT ![s] = outcome]
  /\ pc' = [pc EXCEPT ![s] = "returned"]
  /\ active' = IF outcome = "completed" THEN active \ {s} ELSE active
  /\ UNCHANGED at

\* execute returns and execute_saga drops the saga.
Finish(s, outcome) ==
  /\ state' = [state EXCEPT ![s] = outcome]
  /\ pc' = [pc EXCEPT ![s] = "returned"]
  /\ active' = active \ {s}
  /\ UNCHANGED at

\* Seeded faults: the loop goes on behind the last step; or starts over.
Forward_PastEnd(s, i) ==
  /\ at' = [at EXCEPT ![s] = i + 1]
  /\ UNCHANGED <<state, pc, active>>

Forward_StartsOver(s, i) ==
  /\ at' = [at EXCEPT ![s] = IF i = NumSteps THEN 1 ELSE i + 1]
  /\ UNCHANGED <<state, pc, active>>

\* After step i: the next forward action, or the end.
Forward(s, i) ==
  \/ i = NumSteps /\ Finish(s, "completed")
  \/ i < NumSteps /\ at' = [at EXCEPT ![s] = i + 1] /\ UNCHANGED <<state, pc, active>>

\* What compensate has work to do for, among the first n steps.
Undoable(s, n) ==
  {i \in Compensable : i <= n /\ status'[s][i] = "completed"}

\* Seeded faults: completed steps are compensated in the order they ran; the
\* last of them is left out.
Backward_InOrder(s, n) ==
  \/ Undoable(s, n) = {} /\ Finish(s, "compensated")
  \/ \E i \in Undoable(s, n) :
       /\ \A j \in Undoable(s, n) : i <= j
       /\ at' = [at EXCEPT ![s] = i]
       /\ pc' = [pc EXCEPT ![s] = "backward"]
       /\ state' = [state EXCEPT ![s] = "compensating"]
       /\ UNCHANGED active

Backward_SkipsLast(s, n) ==
  \/ Undoable(s, n) \ {completed[s]} = {} /\ Finish(s, "compensated")
  \/ \E i \in Undoable(s, n) \ {completed[s]} :
       /\ \A j \in Undoable(s, n) \ {completed[s]} : j <= i
       /\ at' = [at EXCEPT ![s] = i]
       /\ pc' = [pc EXCEPT ![s] = "backward"]
       /\ state' = [state EXCEPT ![s] = "compensating"]
       /\ UNCHANGED active

\* _compensate from step n downwards: the next compensating action, or the end.
Backward(s, n) ==
  \/ Undoable(s, n) = {} /\ Finish(s, "compensated")
  \/ \E i \in Undoable(s, n) :
       /\ \A j \in Undoable(s, n) : j <= i
       /\ at' = [at EXCEPT ![s] = i]
       /\ pc' = [pc EXCEPT ![s] = "backward"]
       /\ state' = [state EXCEPT ![s] = "compensating"]
       /\ UNCHANGED active

Mark(s, st) == status' = [status EXCEPT ![s][at[s]] = st]

-----------------------------------------------------------------------------
\* What a coroutine awaits comes back.

Does(s)  == effects' = effects \cup {<<s, at[s]>>}
Undoes(s) == effects' = effects \ {<<s, at[s]>>}

StepReturns(s) ==
  /\ pc[s] = "forward"
  /\ Does(s)
  /\ Mark(s, "completed")
  /\ completed' = [completed EXCEPT ![s] = at[s]]
  /\ Forward(s, at[s])

StepRaises(s) ==
  /\ pc[s] = "forward"
  /\ UNCHANGED effects \/ ("late" \in Faults /\ Does(s))
  /\ Mark(s, "failed")
  /\ Backward(s, completed[s])
  /\ UNCHANGED completed

CompensationReturns(s) ==
  /\ pc[s] = "backward"
  /\ Undoes(s)
  /\ Mark(s, "compensated")
  /\ Backward(s, at[s] - 1)
  /\ UNCHANGED completed

\* Logged, and the saga goes on.
CompensationRaises(s) ==
  /\ pc[s] = "backward"
  /\ at[s] \in Stubborn
  /\ UNCHANGED effects \/ Undoes(s)
  /\ UNCHANGED <<status, completed>>
  /\ Backward(s, at[s] - 1)

\* CancelledError is no Exception: nothing catches it, nothing is compensated,
\* and the saga stays with the orchestrator.
Cancel(s) ==
  /\ "cancel" \in Faults
  /\ \/ pc[s] = "forward" /\ (UNCHANGED effects \/ Does(s))
     \/ pc[s] = "backward" /\ (UNCHANGED effects \/ Undoes(s))
  /\ pc' = [pc EXCEPT ![s] = "cancelled"]
  /\ UNCHANGED <<state, status, completed, at, active>>

Run(s) ==
  \/ Begin(s) \/ StepReturns(s) \/ StepRaises(s)
  \/ CompensationReturns(s) \/ CompensationRaises(s)

Ended(s) == pc[s] \in {"returned", "cancelled"}

Terminating == (\A s \in Sagas : Ended(s)) /\ UNCHANGED vars

Next == (\E s \in Sagas : Create(s) \/ Run(s) \/ Cancel(s)) \/ Terminating

Spec == Init /\ [][Next]_vars

\* The caller awaits execute_saga, and the functions it gave the steps return or
\* raise: timeout_seconds is stored and never used.
FairSpec == Spec /\ \A s \in Sagas : WF_vars(Run(s))

-----------------------------------------------------------------------------
\* Properties.

\* Nothing done is hidden by a step's status: an effect stands only where the
\* step says completed or failed, or in the one step a cancellation cut short;
\* and what a finished saga leaves standing is everything, or else only what has
\* no compensating action, what a compensating action failed to take back, or
\* the half-done step that failed.
NothingHidden ==
  \A s \in Sagas :
    /\ \A i \in Step :
         <<s, i>> \in effects =>
           status[s][i] \in {"completed", "failed"} \/ (pc[s] = "cancelled" /\ i = at[s])
    /\ state[s] = "completed" => \A i \in Step : <<s, i>> \in effects
    /\ state[s] = "compensated" =>
         \A i \in Step : <<s, i>> \in effects =>
           status[s][i] = "failed" \/ i \notin Compensable \/ i \in Stubborn

\* Effects are taken back in the reverse order of the steps ("Compensate
\* completed steps in reverse order"): when one is, none above it stands that
\* could have been taken back.
Retractable(s, i) == i \in Compensable \ Stubborn /\ status[s][i] # "failed"

UndoneInReverse ==
  [][\A s \in Sagas : \A i \in Step :
       (<<s, i>> \in effects /\ <<s, i>> \notin effects') =>
         \A j \in Step : (j > i /\ Retractable(s, j)) => <<s, j>> \notin effects]_vars

\* The orchestrator knows of exactly the sagas that have been created and not
\* brought to an end, those a cancellation abandoned half-way among them.
ActiveIsUnfinished ==
  \A s \in Sagas :
    s \in active <=> pc[s] # "new" /\ state[s] \notin {"completed", "compensated"}

\* A saga that has begun comes to an end: a failing compensation does not stop
\* those that are still to come.
SagasEnd == \A s \in Sagas : pc[s] = "created" ~> Ended(s)
=============================================================================
