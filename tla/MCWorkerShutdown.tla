--------------------------- MODULE MCWorkerShutdown ---------------------------
(* WorkerShutdown for two loops of analyzer.py in one group, and the diff  *)
(* service's loop after them.                                              *)
EXTENDS WorkerShutdown
CONSTANTS analyze, scenario, diff

AnalyzerThenDiff == <<{analyze, scenario}, {diff}>>
UnderSupervisor == {analyze, scenario}
==============================================================================
