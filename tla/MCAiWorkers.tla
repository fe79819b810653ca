------------------------------ MODULE MCAiWorkers -----------------------------
(* AiWorkers for one job of any kind. *)
EXTENDS AiWorkers
CONSTANTS j1, c1, c2, c3

OneJob == {j1}
ThreeCoroutines == {c1, c2, c3}
AllKinds == {"doc", "asserts", "scenario", "data_template", "monitor",
             "diff", "diagnose", "alert"}
==============================================================================
