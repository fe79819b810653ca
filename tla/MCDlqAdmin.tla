------------------------------ MODULE MCDlqAdmin ------------------------------
(* DlqAdmin for an old job of the analysis queue and one of documentation. *)
EXTENDS DlqAdmin, TLC
CONSTANTS j1, j2, a1, a2, w1, w2

Home == j1 :> "ai_analyze" @@ j2 :> "ai_analyze_doc"
TwoJobs == {j1, j2}
OldJob == {j1}
TwoAdmins == {a1, a2}
TwoCoroutines == {w1, w2}
Alike == Permutations(Coroutines)
==============================================================================
