------------------------------- MODULE MCTraffic ------------------------------
(* Catalog and Traffic for three requests and what two callers may bring. *)
EXTENDS Traffic
CONSTANTS c1, c2, ra, rb, rc

TwoCallers == {c1, c2}
ThreeRequests == {ra, rb, rc}
(* ra and rb share their path and differ in their fields, rc is elsewhere. *)
TwoPaths == (ra :> "POST /orders") @@ (rb :> "POST /orders") @@ (rc :> "GET /users")
FieldsOf == (ra :> {"id"}) @@ (rb :> {"id", "sum"}) @@ (rc :> {"name"})
WithBody == {ra, rb}

Brings(s, items) == [source |-> s, items |-> items, whole |-> TRUE]
Torn(s, items) == [source |-> s, items |-> items, whole |-> FALSE]
Hars == {Brings("har", <<ra, "static", rb>>), Brings("har", <<ra, ra>>), Torn("har", <<ra>>)}
Streams == {Brings("stream", <<rb, "static", ra>>), Torn("stream", <<rb, ra, rc>>),
            Brings("stream", <<>>)}
Specs == {Brings("openapi", <<ra, rc>>), Brings("openapi", <<rb>>),
          Brings("openapi", <<"static">>)}
One(s, r) == Brings(s, <<r>>)
Singles == {One("capture", ra), One("form", ra), One("curl", rb), One("curl", rc), One("capture", "static")}
Flows == {One("flow", ra), One("flow", "static")}
Posts == {One("batch", ra), One("batch", "static")}
Edits == {One("edit", rb)}
Mixes(x, y) == {(c1 :> a) @@ (c2 :> b) : a \in x, b \in y}
SomePlans == Mixes(Hars, Streams \cup Specs) \cup Mixes(Hars \cup Streams, Singles \cup Edits)
             \cup Mixes(Specs, Specs \cup Edits) \cup Mixes(Streams, Specs) \cup Mixes(Singles, Singles \cup Edits)
             \cup Mixes(Flows, Flows \cup Posts \cup Singles \cup Edits)
Rule(a, w, at, n) == [action |-> a, record |-> w, at |-> at, on |-> {ra}, rank |-> n]
SomeRules == {Rule("mock_response", FALSE, "request", 1), Rule("drop", TRUE, "both", 2),
              Rule("record", TRUE, "response", 3)}
==============================================================================
