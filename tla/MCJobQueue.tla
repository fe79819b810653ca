------------------------------ MODULE MCJobQueue ------------------------------
(* JobQueue for two jobs that analyse one API. *)
EXTENDS JobQueue, TLC
CONSTANTS j1, j2, api, c1, c2

TwoJobs == {j1, j2}
FirstJob == {j1}
NoJob == {}
OneApi == {api}
SameApi == j1 :> api @@ j2 :> api
FirstOnly == j1 :> api
ServiceAndHar == j1 :> "service" @@ j2 :> "har"
JustService == j1 :> "service"
Two == {c1, c2}
==============================================================================
