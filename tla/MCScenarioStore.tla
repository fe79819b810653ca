---------------------------- MODULE MCScenarioStore ----------------------------
(* Every small document run once; a few of them under two or three requests. *)
EXTENDS ScenarioStore
CONSTANTS c1, c2, c3, s1, s2, start, end, begin, a, b, k, one, missing

ThreeCallers == {c1, c2, c3}
TwoIds == {s1, s2}
StartAndEnd == {start, end}
Doc(type, parent, deps) == [type |-> type, parent |-> parent, deps |-> deps, sound |-> TRUE]
Types == (start :> "start") @@ (end :> "end") @@ (a :> "api") @@ (b :> "api") @@ (k :> "condition")
Names == DOMAIN Types
At0(f) == [n \in Names |-> IF n \in DOMAIN f THEN f[n] ELSE Root]
Waits(f) == [n \in Names |-> IF n \in DOMAIN f THEN f[n] ELSE {}]
AllDocs ==
  { Doc(Types, At0((a :> pa) @@ (b :> pb) @@ (k :> pk)), Waits((a :> da) @@ (b :> db) @@ (k :> dk))) :
      pa \in {Root, k}, pb \in {Root, k}, pk \in {Root, k}, da \in SUBSET {start, b, k},
      db \in SUBSET {a, k}, dk \in SUBSET {a, b} }
Renamed == Doc((begin :> "start") @@ (end :> "end") @@ (a :> "api"),
               [n \in {begin, end, a} |-> Root],
               (begin :> {a}) @@ (end :> {}) @@ (a :> {begin}))
Taken == Doc((begin :> "start") @@ (end :> "end") @@ (start :> "api"),
             [n \in {begin, end, start} |-> Root],
             (begin :> {}) @@ (end :> {start}) @@ (start :> {begin, start}))
Plain == Doc(Types, At0(<<>>), Waits(a :> {start}))
Inside == Doc(Types, At0(a :> k), Waits(b :> {k}))
Across == Doc(Types, At0(a :> k), Waits(b :> {a}))
Ring == Doc(Types, At0(<<>>), Waits((a :> {b}) @@ (b :> {a})))
Bare == [Plain EXCEPT !.sound = FALSE]

Op(op, on, doc) == [op |-> op, on |-> on, doc |-> doc]
Idle == Op("none", <<>>, Plain)
Asks(x, y, z) == (c1 :> x) @@ (c2 :> y) @@ (c3 :> z)
Judged == {[stock |-> (s1 :> d), asks |-> Asks(Op("run", <<s1>>, Plain), Idle, Idle)] :
             d \in AllDocs \cup {Renamed, Taken, Bare}}
Edits == {Op("update", <<s1>>, Inside), Op("update", <<s1>>, Ring), Op("restore", <<s1>>, Plain)}
Removal == {Op("delete", <<s1>>, Plain), Op("import", <<s1>>, Across), Op("create", <<s2>>, Plain)}
Runs == {Op("run", <<s1>>, Plain), Op("batch", <<s1, s2>>, Plain)}
Contested == {[stock |-> (s1 :> d), asks |-> Asks(x, y, z)] :
                d \in {Plain, Across}, x \in {Op("update", <<s1>>, Inside)}, y \in Edits,
                z \in Edits \cup Removal \cup Runs}
Batches == {[stock |-> (s1 :> d) @@ (s2 :> e), asks |-> Asks(Op("batch", on, Plain), y, Idle)] :
              d \in {Plain, Ring}, e \in {Across}, on \in {<<s1, s2>>, <<s2, s2>>},
              y \in Runs \cup {Op("delete", <<s1, s2>>, Plain)}}
Step(type, id, parent, deps) == [type |-> type, id |-> id, parent |-> parent, deps |-> deps]
Answers ==
  { Step("api", id, parent, deps) : id \in {a, missing}, parent \in {Root, k}, deps \in {missing, {a}} }
  \cup { Step("api", a, Root, {k}), Step("condition", k, Root, missing), Step("condition", k, Root, {a}),
         Step("api", k, Root, missing), Step("loop", missing, k, missing),
         Step("loop", one, Root, missing), Step(missing, start, Root, {a}),
         Step("api", start, Root, missing), Step(missing, end, Root, {a}),
         Step("loop", end, Root, missing), Step("api", missing, end, missing) }
RawScenes == UNION {[1 .. n -> Answers] : n \in 0 .. 3}
Generated == {[stock |-> <<>>, asks |-> Asks(Op("generate", <<s1>>, raw), Idle, Idle)] :
                raw \in RawScenes}
SomePlans == Generated \cup Judged \cup Contested \cup Batches
==============================================================================
