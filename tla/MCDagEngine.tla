----------------------------- MODULE MCDagEngine -----------------------------
(* Small scenarios for DagEngine. *)
EXTENDS DagEngine, TLC
CONSTANTS r1, r2, e1, start, a, c, k1, k2, l, m, n, z, b

Fun(D, special, default) == [s \in D |-> IF s \in DOMAIN special THEN special[s] ELSE default]
Reads(v, f) == [reads |-> v, onFalse |-> f]
Always == Reads("none", "skip")
StartOnly == {start}

\* One run: start and a; then a condition container over two parallel calls
\* beside a loop of two iterations over m and then n; then z, which waits for both.
OneRun == {r1}
OneEngine == {e1}
SoloEngine == r1 :> e1
SoloSteps == {start, a, c, k1, k2, l, m, n, z}
SoloStepsOf == r1 :> SoloSteps
SoloKind == Fun(SoloSteps, start :> "start" @@ c :> "condition" @@ l :> "loop", "api")
SoloParent == Fun(SoloSteps, k1 :> c @@ k2 :> c @@ m :> l @@ n :> l, Root)
SoloDependsOn == Fun(SoloSteps, a :> {start} @@ c :> {a} @@ l :> {a} @@ n :> {m} @@ z :> {c, l}, {})
SoloRetry == Fun(SoloSteps, m :> 1, 0)
SoloCondition == Fun(SoloSteps, c :> Reads(a, "skip") @@ n :> Reads(m, "skip") @@ z :> Reads(k1, "fail"), Always)
SoloTimes == Fun(SoloSteps, l :> {0, 2}, {1})
AllOutcomes == {"pass", "bare", "fail", "missing", "raise"}
PlainOutcomes == {"pass", "fail"}

\* Two runs of different scenarios: a, then a condition container over k1;
\* b, then a loop of one iteration over m.
TwoRuns == {r1, r2}
PairSteps == {a, c, k1, b, l, m}
SharedEngine == r1 :> e1 @@ r2 :> e1
PairStepsOf == r1 :> {a, c, k1} @@ r2 :> {b, l, m}
PairKind == Fun(PairSteps, c :> "condition" @@ l :> "loop", "api")
PairParent == Fun(PairSteps, k1 :> c @@ m :> l, Root)
PairDependsOn == Fun(PairSteps, c :> {a} @@ l :> {b}, {})
PairRetry == Fun(PairSteps, <<>>, 0)
PairCondition == Fun(PairSteps, c :> Reads("any", "fail"), Always)
PairTimes == Fun(PairSteps, <<>>, {1})
==============================================================================
