----------------------------- MODULE Dependencies ------------------------------
(***************************************************************************)
(* services/dependency_service.py: which API feeds which, as edges with a  *)
(* confidence, found in the documents, probed in recorded responses,       *)
(* confirmed or refused by people, and weakened when a generated scenario  *)
(* is rejected; and services/cluster_pipeline.py, which splits a scenario  *)
(* job along them.  Every writer reads the edge first and writes the whole *)
(* of it in a later await.  Confidences are in twentieths.                 *)
(***************************************************************************)
EXTENDS Integers, FiniteSets, SequencesExt
CONSTANTS
  Apis,
  Score,      \* what the documents say: ordered pairs of APIs |-> confidence
  Sampled,    \* the pairs whose fields are in a recorded response
  Tasks,      \* the requests that touch the edges
  JobApis,    \* the sets of APIs that scenario jobs ask for
  BatchSize,  \* cluster_batch_max_apis
  Threshold   \* dependency_min_confidence

Pairs == DOMAIN Score
ASSUME DependencyAssumption ==
  /\ IsFiniteSet(Apis) /\ Pairs \subseteq Apis \X Apis /\ Sampled \subseteq Pairs /\ Score \in [Pairs -> Nat]
  /\ JobApis \subseteq (SUBSET Apis) \ {{}} /\ BatchSize \in Nat \ {0} /\ Threshold \in Nat

VARIABLES
  edges,      \* the documents of each pair: concurrent inserts may leave two
  task        \* what each request is about to do
depVars == <<edges, task>>

Edge(status, conf, obs, evidence) ==
  [status |-> status, conf |-> conf, obs |-> obs, evidence |-> evidence]
Resting == [pc |-> "free", kind |-> "none", todo |-> {}, found |-> <<>>]
Static(p) == Edge("candidate", Score[p], 0, "static")
DependencyInit ==
  /\ edges \in {[p \in Pairs |-> <<>>], [p \in Pairs |-> <<Static(p)>>]}
  /\ task = [t \in Tasks |-> Resting]

MaxOf(a, b) == IF a > b THEN a ELSE b
(* What a request saw when it listed the edges: pair, place and document. *)
Listed(statuses) ==
  UNION {{[pair |-> p, at |-> i, edge |-> edges[p][i]] :
            i \in {j \in DOMAIN edges[p] : edges[p][j].status \in statuses}} : p \in Pairs}
Starts(t, kind, todo) ==
  /\ task[t].pc = "free"
  /\ task' = [task EXCEPT ![t] = [pc |-> "next", kind |-> kind, todo |-> todo, found |-> <<>>]]
  /\ UNCHANGED edges
------------------------------------------------------------------------------
(* discover_static_edges looks for every pair whose fields match, and      *)
(* probe_dependencies for the candidates with a sample; both merge what    *)
(* they know into the edge with upsert_edge, one pair after the other.     *)
Unseen(p) == [pair |-> p, at |-> 0, edge |-> Edge("candidate", 0, 0, "static")]
Discover(t) == Starts(t, "discover", {Unseen(p) : p \in Pairs})
Probe(t) == Starts(t, "probe", {x \in Listed({"candidate"}) : x.pair \in Sampled})

Adding(t, x) ==
  IF task[t].kind = "probe"
  THEN [conf |-> MaxOf(x.edge.conf, 14), obs |-> 1, evidence |-> "dynamic"]
  ELSE [conf |-> Score[x.pair], obs |-> 0, evidence |-> "none"]
MergedAfresh(e, new) ==           \* slip: an edge found again is a candidate again
  Edge(IF new.evidence # "none" THEN "confirmed" ELSE "candidate", MaxOf(e.conf, new.conf),
       e.obs + new.obs, e.evidence)
Merged(e, new) ==
  LET seen == e.obs + new.obs
      twice == seen >= 2 /\ e.status # "rejected"
      proven == twice \/ new.evidence # "none"
  IN Edge(IF proven THEN "confirmed" ELSE e.status, MaxOf(e.conf, new.conf), seen,
          IF twice THEN "dynamic" ELSE IF proven THEN new.evidence ELSE e.evidence)
Find(t) ==
  /\ task[t].pc = "next" /\ task[t].kind \in {"discover", "probe"}
  /\ \E x \in task[t].todo :
       task' = [task EXCEPT ![t].pc = "write", ![t].todo = @ \ {x},
                            ![t].found = <<x, IF edges[x.pair] = <<>> THEN <<>> ELSE <<edges[x.pair][1]>> >>]
  /\ UNCHANGED edges
Upsert(t) ==
  /\ task[t].pc = "write" /\ task[t].kind \in {"discover", "probe"}
  /\ LET x == task[t].found[1]
         known == task[t].found[2]
         new == Adding(t, x)
     IN edges' = [edges EXCEPT ![x.pair] =
                    IF known = <<>> THEN Append(@, Static(x.pair))
                    ELSE [@ EXCEPT ![1] = Merged(known[1], new)]]
  /\ task' = [task EXCEPT ![t].pc = "next", ![t].found = <<>>]

(* decay_edges_for_generation: a tenth less, never below two tenths; what  *)
(* falls below the threshold is a candidate again unless a person vouched. *)
Weakened(e) ==
  LET conf == MaxOf(4, e.conf - 2)
  IN [conf |-> conf, status |-> IF conf < Threshold /\ e.evidence # "human"
                                THEN "candidate" ELSE e.status]
Decay(t) == Starts(t, "decay", Listed({"candidate", "confirmed"}))
Weaken(t) ==
  /\ task[t].pc = "next" /\ task[t].kind = "decay"
  /\ \E x \in task[t].todo :
       /\ edges' = [edges EXCEPT ![x.pair][x.at].conf = Weakened(x.edge).conf,
                                 ![x.pair][x.at].status = Weakened(x.edge).status]
       /\ task' = [task EXCEPT ![t].todo = @ \ {x}]

EndTask(t) ==
  /\ task[t].pc = "next" /\ task[t].todo = {}
  /\ task' = [task EXCEPT ![t] = [Resting EXCEPT !.pc = "over"]]
  /\ UNCHANGED edges

(* A person: confirm writes the status, then the evidence; reject writes   *)
(* the status.                                                             *)
Confirm(t) ==
  /\ task[t].pc = "free"
  /\ \E p \in Pairs : \E i \in DOMAIN edges[p] :
       /\ edges' = [edges EXCEPT ![p][i].status = "confirmed"]
       /\ task' = [task EXCEPT ![t] = [pc |-> "vouch", kind |-> "confirm", todo |-> {},
                                       found |-> <<p, i>>]]
Vouch(t) ==
  /\ task[t].pc = "vouch"
  /\ LET p == task[t].found[1] IN
       edges' = [edges EXCEPT ![p][task[t].found[2]].status = "confirmed",
                              ![p][task[t].found[2]].evidence = "human"]
  /\ task' = [task EXCEPT ![t].pc = "over"]
Refuse(t) ==
  /\ task[t].pc = "free"
  /\ \E p \in Pairs : \E i \in DOMAIN edges[p] :
       edges' = [edges EXCEPT ![p][i].status = "rejected"]
  /\ task' = [task EXCEPT ![t] = [Resting EXCEPT !.pc = "over", !.kind = "refuse"]]

------------------------------------------------------------------------------
(* The graph, its connected components and the batches cut along them. *)

Trusted(e) == e.conf >= Threshold /\ e.status # "rejected"
Graph == {p \in Pairs : \E i \in DOMAIN edges[p] : Trusted(edges[p][i])}
BothWays(a) == {b \in Apis : <<a, b>> \in Graph \/ <<b, a>> \in Graph}
Upstream(a) == {b \in Apis : <<b, a>> \in Graph}   \* slip: an edge is followed one way only
Adjacent(a) == BothWays(a)

(* The loop over the stack: pop a node, push its neighbours not yet seen.  *)
(* It is over after as many turns as there are APIs, or before.            *)
Pop(s) ==
  IF s.stack = <<>> THEN s
  ELSE LET new == SetToSeq(Adjacent(Last(s.stack)) \ s.seen)
       IN [stack |-> Front(s.stack) \o new, seen |-> s.seen \cup ToSet(new),
           comp |-> Append(s.comp, Last(s.stack))]
Explore(a, seen) ==
  LET after[n \in 0 .. Cardinality(Apis)] ==
        IF n = 0 THEN [stack |-> <<a>>, seen |-> seen \cup {a}, comp |-> <<>>] ELSE Pop(after[n - 1])
  IN  after[Cardinality(Apis)].comp
Nodes == {a \in Apis : BothWays(a) # {}}
Grown(s, a) ==
  IF a \in s.seen THEN s
  ELSE LET comp == Explore(a, s.seen)
       IN [seen |-> s.seen \cup ToSet(comp), clusters |-> Append(s.clusters, comp)]
Components ==
  LET nodes == SetToSeq(Nodes)
      after[n \in 0 .. Len(nodes)] ==
        IF n = 0 THEN [seen |-> {}, clusters |-> <<>>] ELSE Grown(after[n - 1], nodes[n])
  IN  after[Len(nodes)].clusters

(* plan_batches: of every cluster the APIs asked for that no earlier one   *)
(* had, then those of no cluster, each list cut from left to right.  The   *)
(* group 0 has the latter; a batch is named by its group and its number.   *)
InOrder(K) ==
  [n \in 1 .. Cardinality(K) |-> CHOOSE k \in K : Cardinality({j \in K : j < k}) = n - 1]
Among(list, S) ==
  LET K == {i \in DOMAIN list : list[i] \in S} IN [n \in 1 .. Cardinality(K) |-> list[InOrder(K)[n]]]
Cuts(list) == {k \in 0 .. Len(list) : k * BatchSize < Len(list)}
Cut(list, k) ==
  SubSeq(list, k * BatchSize + 1,
         IF (k + 1) * BatchSize < Len(list) THEN (k + 1) * BatchSize ELSE Len(list))
Earlier(clusters, g) == UNION {ToSet(clusters[h]) : h \in 1 .. g - 1}
Group(ids, clusters, g) ==
  IF g = 0 THEN Among(ids, ToSet(ids) \ Earlier(clusters, Len(clusters) + 1))
  ELSE Among(clusters[g], ToSet(ids) \ Earlier(clusters, g))
Batches(ids, clusters) ==
  [x \in UNION {{<<g, k>> : k \in Cuts(Group(ids, clusters, g))} : g \in 0 .. Len(clusters)} |->
     Cut(Group(ids, clusters, x[1]), x[2])]

(* ClusterPipeline.build_batches, for the APIs of a scenario job. *)
Split(t) ==
  /\ task[t].pc = "free"
  /\ \E ids \in JobApis :
       task' = [task EXCEPT ![t] = [Resting EXCEPT !.pc = "over", !.kind = "split",
                  !.found = [ids |-> ids, graph |-> Graph,
                             batches |-> Batches(SetToSeq(ids), Components)]]]
  /\ UNCHANGED edges

Ask(t) == Discover(t) \/ Probe(t) \/ Confirm(t) \/ Refuse(t) \/ Split(t)
Continue(t) == Find(t) \/ Upsert(t) \/ Weaken(t) \/ EndTask(t) \/ Vouch(t)
------------------------------------------------------------------------------
(* However the edges stand, a scenario job is split into batches within    *)
(* the size that hold each of its APIs exactly once and no other, and APIs *)
(* that the graph links, directly or through others, stay in one batch     *)
(* whenever those of their cluster in the job fit into one.                *)
Cluster(graph, a) ==
  {b \in Apis : \A S \in SUBSET Apis :
     a \in S /\ (\A e \in graph : e[1] \in S <=> e[2] \in S) => b \in S}
FollowClusters(ids, graph, batches) ==
  LET Of(a) == {k \in DOMAIN batches : a \in ToSet(batches[k])}
  IN /\ UNION {ToSet(batches[k]) : k \in DOMAIN batches} = ids
     /\ \A k \in DOMAIN batches : Len(batches[k]) \in 1..BatchSize
     /\ \A a \in ids : LET near == Cluster(graph, a) \cap ids
          IN /\ Cardinality(Of(a)) = 1
             /\ Cardinality(near) <= BatchSize => \A b \in near : Of(a) = Of(b)
BatchesFollowClusters ==
  \A t \in Tasks : task[t].kind = "split" =>
    FollowClusters(task[t].found.ids, task[t].found.graph, task[t].found.batches)

(* What a person refused stays out of the graph: it comes back only by a  *)
(* person's word, or by a request that had read the edge before it was     *)
(* refused, and writes what it made of it.                                 *)
Refused(p) == edges[p] # <<>> /\ \A i \in DOMAIN edges[p] : edges[p][i].status = "rejected"
HadRead(t, p) ==
  \/ task[t].kind \in {"probe", "decay"} /\ \E x \in task[t].todo : x.pair = p
  \/ /\ task[t].pc = "write" /\ task[t].found[1].pair = p
     /\ task[t].kind = "probe" \/ task[t].found[2] = <<>>
        \/ task[t].found[2][1].status # "rejected"
RefusedStaysOut ==
  [][\A p \in Pairs : Refused(p) /\ p \in Graph' =>
        \E t \in Tasks : task'[t].kind = "confirm" \/ HadRead(t, p)]_depVars
==============================================================================
