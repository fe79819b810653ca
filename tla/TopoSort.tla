------------------------------- MODULE TopoSort -------------------------------
(***************************************************************************)
(* DagExecutionEngine._topo_sort (dag_engine/engine.py): Kahn's algorithm  *)
(* with in-degree counters over the steps of one level. depends_on is a    *)
(* list and may name a step more than once, so it is a bag: mentions[s][n] *)
(* is how often n occurs in the depends_on of s. Step ids are unique (the  *)
(* validation of a scenario refuses duplicates).                           *)
(***************************************************************************)
EXTENDS ScenarioGraph, Integers, FiniteSets, Sequences
CONSTANTS Step, Foreign,
          Most,         \* bound: how often a depends_on may hold a name
          Repeated      \* bound: the names it may hold more than once

(* The steps of a level are a list; what is no step of it is foreign. *)
ASSUME SortAssumption == IsFiniteSet(Step) /\ Step \cap Foreign = {} /\ Most \in Nat

Name == Step \cup Foreign \cup Reserved

VARIABLES mentions,      \* the depends_on lists
          inDegree,      \* in_degree
          groups,        \* the waves built so far
          ready,         \* the members of the current wave not scanned yet
          nextReady,     \* next_ready
          pc
sortVars == <<mentions, inDegree, groups, ready, nextReady, pc>>

(* Slip in the counting loop: the reserved names are counted. *)
EdgesReserved(s, d) == mentions[s][d]

(* How many edges from d to s the counting loop creates: none for the      *)
(* reserved names, which it skips.                                         *)
Edges(s, d) == IF d \in Reserved THEN 0 ELSE mentions[s][d]

(* The edges into s: the step at their other end, and which of its mentions. *)
EdgesInto(s) == {e \in Step \X (1..Most) : e[2] <= Edges(s, e[1])}
Degree(s) == Cardinality(EdgesInto(s))

Lists == {f \in [Name -> 0..Most] : \A n \in Name \ Repeated : f[n] < 2}
SortInit ==
  /\ mentions \in [Step -> Lists]
  /\ inDegree = [s \in Step |-> 0]
  /\ groups = <<>> /\ ready = {} /\ nextReady = {}
  /\ pc = "degrees"

(* `if dep not in step_map: raise ValueError`, met while counting. *)
UnknownDependency ==
  /\ pc = "degrees"
  /\ \E s \in Step, n \in Foreign : mentions[s][n] > 0 /\ n \notin Reserved
  /\ pc' = "unknown"
  /\ UNCHANGED <<mentions, inDegree, groups, ready, nextReady>>

OpenWave(R) ==
  /\ ready' = R
  /\ nextReady' = {}
  /\ groups' = IF R = {} THEN groups ELSE Append(groups, R)

CountDegrees ==
  /\ pc = "degrees"
  /\ \A s \in Step, n \in Foreign : n \in Reserved \/ mentions[s][n] = 0
  /\ inDegree' = [s \in Step |-> Degree(s)]
  /\ OpenWave({s \in Step : Degree(s) = 0})
  /\ pc' = "scan"
  /\ UNCHANGED mentions

(* The body of `for sid in ready`: one decrement per edge out of sid; a    *)
(* step joins the next wave at the decrement that makes its degree zero.   *)
ScanStep(sid) ==
  /\ inDegree' = [c \in Step |-> inDegree[c] - Edges(c, sid)]
  /\ nextReady' = nextReady \cup
        {c \in Step : Edges(c, sid) > 0 /\ inDegree[c] = Edges(c, sid)}

Scan ==
  /\ pc = "scan"
  /\ \E sid \in ready : ScanStep(sid) /\ ready' = ready \ {sid}
  /\ UNCHANGED <<mentions, groups, pc>>

NextWave ==
  /\ pc = "scan" /\ ready = {} /\ nextReady # {}
  /\ OpenWave(nextReady)
  /\ UNCHANGED <<mentions, inDegree, pc>>

(* The lengths of the groups, all together: the places in them. *)
Sizes(gs) == Cardinality({p \in (1..Len(gs)) \X Step : p[2] \in gs[p[1]]})

Return ==
  /\ pc = "scan" /\ ready = {} /\ nextReady = {}
  /\ pc' = IF Sizes(groups) # Cardinality(Step) THEN "circular" ELSE "waves"
  /\ UNCHANGED <<mentions, inDegree, groups, ready, nextReady>>

SortNext == UnknownDependency \/ CountDegrees \/ Scan \/ NextWave \/ Return

Returned == pc \in {"waves", "circular", "unknown"}
SortSpec == SortInit /\ [][SortNext]_sortVars
SortFairSpec == SortSpec /\ WF_sortVars(SortNext)
------------------------------------------------------------------------------
Grouped == UNION {groups[i] : i \in DOMAIN groups}

TypeOK ==
  /\ mentions \in [Step -> Lists]
  /\ inDegree \in [Step -> Nat]
  /\ groups \in Seq(SUBSET Step) /\ ready \subseteq Step /\ nextReady \subseteq Step
  /\ pc \in {"degrees", "scan", "waves", "circular", "unknown"}

(* in_degree always equals the number of edges from steps whose turn has   *)
(* not come: the counter of a step listed twice in a depends_on goes down  *)
(* as often as it went up, and never below zero.                           *)
DegreeCountsUnscanned ==
  pc \in {"scan", "waves", "circular"} =>
    \A s \in Step :
      inDegree[s] = Cardinality({e \in EdgesInto(s) : e[1] \notin Grouped \ ready})

(* The abstract sort. The wave of a step is the group that holds it. *)
DependsOn == [s \in Step |-> {n \in Name : mentions[s][n] > 0}]
WaveOf(s) ==
  IF \E i \in DOMAIN groups : s \in groups[i]
  THEN CHOOSE i \in DOMAIN groups : s \in groups[i] ELSE 0
Waves == [s \in Step |-> WaveOf(s)]
Outcome == IF Returned THEN pc ELSE "sorting"
Order == INSTANCE WaveOrder WITH
  dependsOn <- DependsOn, wave <- Waves, round <- Len(groups), outcome <- Outcome

(* Kahn's counters lay the steps out exactly as WaveOrder prescribes, wave *)
(* by wave, and refuse exactly the graphs WaveOrder refuses.               *)
ImplementsWaveOrder == Order!Spec

(* A step is never in a wave before, or with, a step it depends on, also   *)
(* when the name of one is repeated: see WaveOrder.                        *)
DependenciesFirst == Order!DependenciesFirst

(* Waves for the sortable graphs and for no other; each refusal names its  *)
(* real cause: see WaveOrder.                                              *)
OutcomeExact == Order!OutcomeExact

(* The sort always returns or raises: `while ready` drains. *)
Terminates == <>Returned
==============================================================================
