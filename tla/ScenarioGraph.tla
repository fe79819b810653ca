---------------------------- MODULE ScenarioGraph ----------------------------
(***************************************************************************)
(* The dependency graph of a scenario, as dag_engine/engine.py reads it:   *)
(* pure operators over D, the function that gives every step the set of    *)
(* names its depends_on list holds, and K, the steps sorted together (the  *)
(* top-level steps of a scenario, or the children of one container).       *)
(***************************************************************************)
CONSTANT Reserved      \* the names "start" and "end", never counted as steps

(* The names of depends_on that _topo_sort counts. *)
Counted(D, s) == D[s] \ Reserved

(* No step names a dependency outside K: _topo_sort raises ValueError       *)
(* ("unknown step dependency") otherwise.                                  *)
KnownDependencies(D, K) == \A s \in K : Counted(D, s) \subseteq K

(* The reference notion of "no circular dependency": every non-empty set   *)
(* of steps has a member that depends on no other member.                  *)
Acyclic(D, K) ==
  \A C \in SUBSET K : C # {} => \E s \in C : Counted(D, s) \cap C = {}

(* The next wave: the steps not yet placed whose dependencies all are.     *)
Frontier(D, K, placed) ==
  {s \in K \ placed : Counted(D, s) \subseteq placed}

(* What _topo_sort accepts; it raises ValueError on anything else. *)
Sortable(D, K) == KnownDependencies(D, K) /\ Acyclic(D, K)
==============================================================================
