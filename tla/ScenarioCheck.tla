----------------------------- MODULE ScenarioCheck -----------------------------
(***************************************************************************)
(* ScenarioService.validate_scenario_doc (services/scenario_service.py)    *)
(* beside what the engine needs of a document.  A document gives each of   *)
(* its nodes a type, a parent and the names it depends on; sound says that *)
(* the step ids are distinct and that every step has its own settings.     *)
(***************************************************************************)
EXTENDS ScenarioGraph, FiniteSets
CONSTANT Root         \* no parent

Nodes(doc) == DOMAIN doc.type
Typed(doc, types) == {s \in Nodes(doc) : doc.type[s] \in types}
Containers == {"condition", "loop"}

OneStartOneEnd(doc) ==
  Cardinality(Typed(doc, {"start"})) = 1 /\ Cardinality(Typed(doc, {"end"})) = 1
ParentsAreContainers(doc) ==
  \A s \in Nodes(doc) :
    doc.parent[s] = Root \/ doc.parent[s] \in Typed(doc, Containers) \ {s}
DependenciesExist(doc) == \A s \in Nodes(doc) : doc.deps[s] \ Reserved \subseteq Nodes(doc)

(* The depth first search for a cycle, over the steps but start and end:   *)
(* visiting is the path to where it stands, dfs the steps it returns true  *)
(* for.  (The code also remembers, as visited, from where it found none.)  *)
Executable(doc) == Nodes(doc) \ Typed(doc, {"start", "end"})
(* Slip: only the steps of the top level are searched. *)
AdjacentTop(doc) ==
  [s \in Executable(doc) |-> {d \in doc.deps[s] \cap Executable(doc) : doc.parent[d] = Root}]
Adjacent(doc) == [s \in Executable(doc) |-> doc.deps[s] \cap Executable(doc)]
Cyclic(doc) ==
  LET dfs[visiting \in SUBSET Executable(doc)] ==
        {s \in Executable(doc) :
           s \in visiting \/ \E d \in Adjacent(doc)[s] : d \in dfs[visiting \cup {s}]}
  IN  dfs[{}] # {}

Valid(doc) ==
  doc.sound /\ OneStartOneEnd(doc) /\ ParentsAreContainers(doc) /\ DependenciesExist(doc)
  /\ ~Cyclic(doc)

(* What a cycle is: executable steps of which each waits for one of them.  *)
HasCycle(doc) ==
  \E C \in SUBSET Executable(doc) : C # {} /\ \A s \in C : doc.deps[s] \cap C # {}

(* The levels the engine sorts: the top, and the children of a container.  *)
Level(doc, c) == {s \in Nodes(doc) : doc.parent[s] = c}
Levels(doc) == {Level(doc, c) : c \in Typed(doc, Containers) \cup {Root}}
Runnable(doc) == \A K \in Levels(doc) : Sortable(doc.deps, K)
OnItsLevel(doc) ==
  \A s \in Nodes(doc) : Counted(doc.deps, s) \subseteq Level(doc, doc.parent[s])
MarkersReserved(doc) == Typed(doc, {"start", "end"}) \subseteq Reserved
==============================================================================
