------------------------------ MODULE Scenarios ------------------------------
(***************************************************************************)
(* The scenarios that are executed: what ScenarioRun, the abstract         *)
(* execution, and DagEngine, the detailed one, take as given.              *)
(***************************************************************************)
CONSTANTS
  Runs,        \* executions
  Steps,       \* the steps of all scenarios
  Root,        \* stands for "no parent": the top level
  Reserved,    \* the step names "start" and "end"
  StepsOf,     \* the steps of the scenario a run executes
  Parent, DependsOn

ASSUME StepsAssumption == Root \notin Steps /\ StepsOf \in [Runs -> SUBSET Steps]

INSTANCE ScenarioGraph

(* The top-level steps of a run. *)
Top == [r \in Runs |-> {s \in StepsOf[r] : Parent[s] = Root}]
==============================================================================
