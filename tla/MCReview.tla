------------------------------ MODULE MCReview --------------------------------
(* Review, with Dependencies and Knowledge, for two versions and three requests. *)
EXTENDS Review
CONSTANTS a1, a2, a3, v1, v2, p1, p2, r1, r2, r3, t1, t2, t3

ThreeApis == {a1, a2, a3}
(* A chain: a1 feeds a2 by a name alike, a2 feeds a3 by the same name. *)
ChainOfTwo == (<<a1, a2>> :> 12) @@ (<<a2, a3>> :> 18)
Recorded == {<<a1, a2>>}
EndsAndAll == {{a1, a3}, {a1, a2, a3}}
ThreeRequests == {r1, r2, r3}
TwoReviewers == {r1, r2}
TwoVersions == {v1, v2}
TwoParts == {p1, p2}
(* v1 holds both parts, v2 the second only. *)
Held == (v1 :> {p1, p2}) @@ (v2 :> {p2})
(* All of it can be used; of v1 the second part only; of v2 nothing. *)
ThreeUsables == {Held, (v1 :> {p2}) @@ (v2 :> {p2}), (v1 :> {p1}) @@ (v2 :> {})}
Switches(trial, auto, required) ==
  [trial_run_enabled |-> trial, auto_review_enabled |-> auto, auto_review_trial_required |-> required]
(* Trials run and required, and neither (a person may still ask for one).  *)
TwoSettings == {Switches(TRUE, TRUE, TRUE), Switches(FALSE, TRUE, FALSE)}
AllKinds == {"doc", "asserts", "scenario", "scenarios", "data_template", "monitor", "chat_suggestion"}
Risky == [risk |-> "high", gate0 |-> TRUE, gate1 |-> TRUE, rate |-> 100]
Malformed == [risk |-> "low", gate0 |-> FALSE, gate1 |-> TRUE, rate |-> 100]
Fit == [risk |-> "medium", gate0 |-> TRUE, gate1 |-> FALSE, rate |-> 100]
Outvoted == [risk |-> "low", gate0 |-> TRUE, gate1 |-> TRUE, rate |-> 0]
TwoGradings == {(v1 :> Fit) @@ (v2 :> Risky), (v1 :> Malformed) @@ (v2 :> Outvoted)}

(* Titles of which the first and the last are each like the one between.   *)
ThreeTitles == {t1, t2, t3}
Chained == (t1 :> {t1, t2}) @@ (t2 :> {t1, t2, t3}) @@ (t3 :> {t2, t3})
TitlesOf == (a1 :> <<t1>>) @@ (a2 :> <<t1>>) @@ (a3 :> <<t2>>)
Op(op, on) == [op |-> op, on |-> on]
Nobody == Op("none", 0)
Lesson(stock, x, y, z) == [stock |-> stock, asks |-> (r1 :> x) @@ (r2 :> y) @@ (r3 :> z)]
Stocks == { <<Entry(t1, {a1}, 50), Entry(t2, {a2}, 60), Entry(t3, {a3}, 40)>>,
            <<Entry(t2, ThreeApis, 50), Entry(t1, {a2}, 50), Entry(t3, {a3}, 60)>> }
Beside == {Op("extract", a1), Op("consolidate", 0), Nobody}
Votes == {Op("upvote", 2), Op("downvote", 1), Op("rename", 1), Op("delete", {1, 3})}
SomeLessons ==
  { Lesson(<<>>, Op("batch", 0), y, Nobody) :
      y \in {Op("extract", a3), Op("downvote", 1), Op("delete", {1})} }
  \cup { Lesson(s, y, Op("consolidate", 0), z) : s \in Stocks, y \in Beside, z \in Votes }
===============================================================================
