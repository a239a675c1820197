------------------------------ MODULE Healing ------------------------------
(***************************************************************************)
(* SelfHealingLoop.execute() (self_healing_loop.py): the steps of a plan   *)
(* one after the other, each called until it passes or its retries are     *)
(* used up, with a suggestion of the model before every retry.             *)
(*                                                                         *)
(* A step made by plan() has a validation or None; the steps that POST     *)
(* /autonomous/execute makes have no such attribute at all, and reading it *)
(* raises inside the try block, after the executor was called.             *)
(***************************************************************************)
EXTENDS Naturals

CONSTANTS
    NSteps,      \* number of steps of the plan
    MaxRetries   \* AutonomousStep.max_retries: 3

ASSUME HealingAssumption == NSteps \in Nat \ {0} /\ MaxRetries \in Nat

VARIABLES
    validation,  \* of a step: "none", "given", or "unset" in the API's steps
    at,          \* the step execute() is at
    doing,       \* what it awaits: "call", "validate", "fix"; or "left"
                 \* (returned), "aborted" (the request was cancelled)
    health,      \* StepStatus of a step
    retries,     \* AutonomousStep.retries
    calls,       \* history: how often the executor was called for a step
    history      \* length of _history

healingVars == <<validation, at, doing, health, retries, calls, history>>

PlanSteps == 1..NSteps

HealingTypeOK ==
    /\ validation \in [PlanSteps -> {"none", "given", "unset"}]
    /\ at \in 1..(NSteps + 1)
    /\ doing \in {"call", "validate", "fix", "left", "aborted"}
    /\ health \in [PlanSteps -> {"pending", "running", "passed", "failed", "fixed"}]
    /\ retries \in [PlanSteps -> Nat]
    /\ calls \in [PlanSteps -> Nat]
    /\ history \in Nat

\* The steps come from plan() or from the API, all of them.
HealingInit ==
    /\ validation \in [PlanSteps -> {"none", "given"}]
                      \cup {[s \in PlanSteps |-> "unset"]}
    /\ at = 1
    /\ doing = "call"
    /\ health = [s \in PlanSteps |-> IF s = 1 THEN "running" ELSE "pending"]
    /\ retries = [s \in PlanSteps |-> 0]
    /\ calls = [s \in PlanSteps |-> 0]
    /\ history = 0

-----------------------------------------------------------------------------
\* The step at hand is settled as h: the next one runs, or execute() returns
\* and appends to its history.  A step that failed does not end the plan.
Settle(h) ==
    /\ health' = [s \in PlanSteps |-> IF s = at THEN h
                                      ELSE IF s = at + 1 THEN "running"
                                      ELSE health[s]]
    /\ at' = at + 1
    /\ IF at = NSteps THEN doing' = "left" /\ history' = history + 1
                      ELSE doing' = "call" /\ UNCHANGED history

\* Mutant: the retries are compared before they are counted.
Fault_Mutation ==
    /\ retries' = [retries EXCEPT ![at] = @ + 1]
    /\ \/ /\ retries[at] <= MaxRetries
          /\ doing' = "fix"
          /\ UNCHANGED <<at, health, history>>
       \/ retries[at] > MaxRetries /\ Settle("failed")

\* The except clause: count the retry, then ask for a fix or give up.
Fault ==
    /\ retries' = [retries EXCEPT ![at] = @ + 1]
    /\ \/ /\ retries[at] + 1 <= MaxRetries
          /\ doing' = "fix"
          /\ UNCHANGED <<at, health, history>>
       \/ retries[at] + 1 > MaxRetries /\ Settle("failed")

\* The executor returns, or raises.
Call ==
    /\ doing = "call"
    /\ calls' = [calls EXCEPT ![at] = @ + 1]
    /\ \/ validation[at] = "none" /\ Settle("passed") /\ UNCHANGED retries
       \/ /\ validation[at] = "given"
          /\ doing' = "validate"
          /\ UNCHANGED <<at, health, retries, history>>
       \/ Fault
    /\ UNCHANGED validation

\* _validate(): the model says "true", or something else, which raises.
Validate ==
    /\ doing = "validate"
    /\ \/ Settle("passed") /\ UNCHANGED retries
       \/ Fault
    /\ UNCHANGED <<validation, calls>>

\* Mutant: the step stays with the suggestion, asking the model for the next.
Fix_Mutation ==
    /\ doing = "fix"
    /\ health' = [health EXCEPT ![at] = "fixed"]
    /\ UNCHANGED <<validation, at, doing, retries, calls, history>>

\* _auto_fix(): its suggestion is logged, and the step is called again.
Fix ==
    /\ doing = "fix"
    /\ doing' = "call"
    /\ health' = [health EXCEPT ![at] = "fixed"]
    /\ UNCHANGED <<validation, at, retries, calls, history>>

\* The request is cancelled: CancelledError is no Exception and passes.
Abort ==
    /\ doing \in {"call", "validate", "fix"}
    /\ doing' = "aborted"
    /\ UNCHANGED <<validation, at, health, retries, calls, history>>

Heal == Call \/ Validate \/ Fix
HealingNext == Heal \/ Abort

HealingSpec == HealingInit /\ [][HealingNext]_healingVars /\ WF_healingVars(Heal)

-----------------------------------------------------------------------------
(* Properties                                                              *)

\* Every step before the one at hand is settled, passed or failed and never
\* "fixed"; it passed with one call more than it had retries, or failed after
\* exactly MaxRetries + 1 calls, each counted; no step is called beyond that
\* budget, none before its turn, and no step of the API ever passes.  The
\* history has an entry exactly when all steps are settled.
HealingBudget ==
    /\ \A s \in PlanSteps :
          /\ s < at => \/ health[s] = "passed" /\ calls[s] = retries[s] + 1
                       \/ health[s] = "failed" /\ calls[s] = retries[s]
          /\ health[s] = "failed" => calls[s] = MaxRetries + 1
          /\ calls[s] <= MaxRetries + 1
          /\ s > at => calls[s] = 0 /\ health[s] = "pending"
          /\ validation[s] = "unset" => health[s] # "passed"
    /\ history = IF at = NSteps + 1 THEN 1 ELSE 0

\* A plan whose first step was called ends, whatever the executor and the
\* model answer.
HealingEnds == (calls[1] > 0) ~> (doing \in {"left", "aborted"})

=============================================================================
