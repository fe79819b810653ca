---------------------------- MODULE ScenarioRepair ----------------------------
(***************************************************************************)
(* ScenarioAnalyzer._normalize_scenario_graph (ai_analyzer/analyzer.py):   *)
(* how the steps a language model returns for a scenario become a document *)
(* with one start and one end.  The settings of the steps (API, condition, *)
(* loop, assertions) are filled in likewise and are left out.              *)
(***************************************************************************)
EXTENDS ScenarioCheck, Naturals, Sequences, SequencesExt, TLC
CONSTANTS
  Start, End, Step1,   \* the ids "start", "end" and "step_1"
  Missing              \* a step_id, a type or a depends_on that is not there
ASSUME RepairAssumption ==
  /\ Reserved = {Start, End} /\ Start # End /\ Step1 \notin Reserved
  /\ Missing \notin {"start", "end", "api"} \cup Containers

Type(r) == CASE r.type # Missing -> r.type
             [] r.type = Missing /\ r.id = Start -> "start"
             [] r.type = Missing /\ r.id = End -> "end"
             [] OTHER -> "api"

Empty == [type |-> <<>>, parent |-> <<>>, deps |-> <<>>, sound |-> TRUE]
Added(doc, s, type, parent, deps) ==
  LET With(f, v) == [n \in Nodes(doc) \cup {s} |-> IF n = s THEN v ELSE f[n]]
  IN  [type |-> With(doc.type, type), parent |-> With(doc.parent, parent),
       deps |-> With(doc.deps, deps), sound |-> doc.sound]

(* An id that is taken gets the first number from 2 on that is free. *)
Fresh(doc, id) ==
  LET used == Nodes(doc) \cup {Start, End}
  IN  IF id \notin used THEN id
      ELSE <<id, CHOOSE n \in 2 .. Cardinality(used) + 2 :
                   /\ <<id, n>> \notin used
                   /\ \A m \in 2 .. n - 1 : <<id, m>> \in used>>

(* A step without a list of dependencies follows the last one of the top   *)
(* level, unless it sits in a container.                                   *)
DefaultDeps(r, last) == IF r.parent = Root THEN {last} ELSE {}
FollowsLast(r, last, id) == id                    \* slip: the last step of any level
LastTop(r, last, id) == IF r.parent = Root THEN id ELSE last

Absorb(made, r) ==
  LET doc == made.doc
      id == Fresh(doc, IF r.id = Missing THEN <<Type(r), made.read + 1>> ELSE r.id)
      next == [made EXCEPT !.read = @ + 1]
  IN  CASE Type(r) = "end" \/ (Type(r) = "start" /\ Start \in Nodes(doc)) -> next
        [] Type(r) = "start" /\ Start \notin Nodes(doc) ->
             [next EXCEPT !.doc = Added(doc, Start, "start", r.parent, {})]
        [] OTHER ->
             [next EXCEPT !.doc = Added(doc, id, Type(r), r.parent,
                                    IF r.deps = Missing THEN DefaultDeps(r, made.last) ELSE r.deps),
                          !.last = LastTop(r, made.last, id)]

HasStart(raw) == \E k \in DOMAIN raw : raw[k].type = "start" \/ raw[k].id = Start
First(raw) == IF HasStart(raw) THEN Empty ELSE Added(Empty, Start, "start", Root, {})

(* The end follows every API step, those inside containers included; where *)
(* there is none one is made up, whose id a container may have already.    *)
Closed(doc) ==
  LET leaves == Nodes(doc) \ Typed(doc, {"start"} \cup Containers)
  IN  CASE leaves # {} -> Added(doc, End, "end", Root, leaves)
        [] leaves = {} /\ Step1 \notin Nodes(doc) ->
             Added(Added(doc, Step1, "api", Root, {Start}), End, "end", Root, {Step1})
        [] OTHER -> [Added(doc, End, "end", Root, {Step1}) EXCEPT !.sound = FALSE]

Absorbed(raw) ==
  LET made[k \in 0 .. Len(raw)] ==
        IF k = 0 THEN [doc |-> First(raw), last |-> Start, read |-> 0]
        ELSE Absorb(made[k - 1], raw[k])
  IN  made[Len(raw)]
Repaired(raw) == Closed(Absorbed(raw).doc)
------------------------------------------------------------------------------
(* What the model may be trusted with: its types are those there are;      *)
(* parents and dependencies name steps before them, by names that are not  *)
(* also made up for others; a parent is a container, a dependency is of    *)
(* the same level; and no other step takes the names of start, of end and  *)
(* of the made up one.                                                     *)
MadeUp(raw) ==
  LET numbered == {<<Type(raw[k]), k>> : k \in DOMAIN raw}
  IN  numbered \cup ((numbered \cup {raw[k].id : k \in DOMAIN raw}) \X (2 .. Len(raw) + 4))
Before(raw, k, id) ==
  {j \in 1 .. k - 1 : /\ raw[j].id = id /\ \A i \in 1 .. j - 1 : raw[i].id # id
                      /\ id \notin MadeUp(raw) \cup {Missing}}
Sensible(raw) ==
  /\ Step1 \notin MadeUp(raw)
  /\ \A k \in DOMAIN raw :
       /\ Type(raw[k]) \in {"start", "end", "api"} \cup Containers
       /\ raw[k].id = Start => Type(raw[k]) = "start"
       /\ raw[k].id = End => Type(raw[k]) = "end"
       /\ Type(raw[k]) \in {"start", "end"} => raw[k].parent = Root
       /\ Type(raw[k]) \in Containers => raw[k].id # Step1
       /\ raw[k].parent # Root =>
            \E j \in Before(raw, k, raw[k].parent) : Type(raw[j]) \in Containers
       /\ raw[k].deps # Missing =>
            \A d \in raw[k].deps \ Reserved :
              \E j \in Before(raw, k, d) : /\ Type(raw[j]) \notin {"start", "end"}
                                           /\ raw[j].parent = raw[k].parent
==============================================================================
