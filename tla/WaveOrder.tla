------------------------------ MODULE WaveOrder ------------------------------
(***************************************************************************)
(* What sorting a scenario into waves promises, without saying how degrees *)
(* are counted: place, wave after wave, every step whose dependencies are  *)
(* placed, and refuse a graph with an unknown dependency or a cycle.       *)
(* TopoSort, the translation of _topo_sort, implements this specification. *)
(***************************************************************************)
EXTENDS Naturals
CONSTANTS Step,        \* the steps sorted together
          Foreign,     \* names in depends_on that are no step of this level
          Reserved     \* "start" and "end"

INSTANCE ScenarioGraph

Name == Step \cup Foreign \cup Reserved

VARIABLES dependsOn,   \* the names each step waits for
          wave,        \* the wave of a step, 0 while it is not placed
          round,       \* how many waves there are so far
          outcome      \* what the caller gets
vars == <<dependsOn, wave, round, outcome>>

Outcomes == {"sorting", "waves", "unknown", "circular"}

Placed == {s \in Step : wave[s] > 0}

Init ==
  /\ dependsOn \in [Step -> SUBSET Name]
  /\ wave = [s \in Step |-> 0]
  /\ round = 0
  /\ outcome = "sorting"

(* Only a graph all of whose dependencies are known is ever laid out. *)
PlaceWave ==
  /\ outcome = "sorting"
  /\ KnownDependencies(dependsOn, Step)
  /\ Frontier(dependsOn, Step, Placed) # {}
  /\ round' = round + 1
  /\ wave' = [s \in Step |-> IF s \in Frontier(dependsOn, Step, Placed)
                             THEN round + 1 ELSE wave[s]]
  /\ UNCHANGED <<dependsOn, outcome>>

Refuse ==
  /\ outcome = "sorting"
  /\ ~ KnownDependencies(dependsOn, Step)
  /\ outcome' = "unknown"
  /\ UNCHANGED <<dependsOn, wave, round>>

Finish ==
  /\ outcome = "sorting"
  /\ KnownDependencies(dependsOn, Step)
  /\ Frontier(dependsOn, Step, Placed) = {}
  /\ outcome' = IF Placed = Step THEN "waves" ELSE "circular"
  /\ UNCHANGED <<dependsOn, wave, round>>

Next == PlaceWave \/ Refuse \/ Finish

Spec == Init /\ [][Next]_vars
------------------------------------------------------------------------------
TypeOK ==
  /\ dependsOn \in [Step -> SUBSET Name]
  /\ wave \in [Step -> Nat]
  /\ round \in Nat
  /\ outcome \in Outcomes
  /\ \A s \in Step : wave[s] <= round

(* A step is never in a wave before, or with, a step it depends on: the    *)
(* waves _topo_sort returns respect every counted dependency.              *)
DependenciesFirst ==
  \A s \in Placed : \A d \in Counted(dependsOn, s) :
    d \in Placed /\ wave[d] < wave[s]

(* The outcome is exact: waves for the sortable graphs, and for no other,  *)
(* and each refusal names its real cause.                                  *)
OutcomeExact ==
  /\ outcome = "waves" => Sortable(dependsOn, Step) /\ Placed = Step
  /\ outcome = "circular" => KnownDependencies(dependsOn, Step) /\ ~ Acyclic(dependsOn, Step)
  /\ outcome = "unknown" => ~ KnownDependencies(dependsOn, Step) /\ Placed = {}
==============================================================================
