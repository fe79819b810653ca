------------------------------ MODULE MCTopoSort ------------------------------
(* TopoSort over every dependency graph of a start node and two steps. *)
EXTENDS TopoSort
CONSTANTS a, b, start, ghost

ThreeSteps == {start, a, b}
StartOnly == {start}
GhostOnly == {ghost}
StartAndA == {start, a}
==============================================================================
