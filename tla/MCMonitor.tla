------------------------------- MODULE MCMonitor -------------------------------
(* Monitor for two bodies of the response. *)
EXTENDS Monitor, TLC
CONSTANTS b1, b2
TwoBodies == {b1, b2}
BodySymmetry == Permutations(TwoBodies)
==============================================================================
