----------------------------- MODULE ScenarioStore -----------------------------
(***************************************************************************)
(* ScenarioService (services/scenario_service.py) and its routes           *)
(* (api/routers/scenarios.py): scenarios are created, imported, edited,    *)
(* restored to an earlier version, deleted and run, singly in the          *)
(* background or by batches.  Every request reads, keeps a version and     *)
(* writes in separate awaits, and a run shows itself in the status of its  *)
(* scenario.  What happens inside a run is DagEngine.                      *)
(***************************************************************************)
EXTENDS ScenarioRepair, Integers
CONSTANTS
  Callers, Ids,
  None,      \* no document, no status
  Plans,     \* what there is and what is asked: [stock, asks : [Callers -> [op, on, doc]]]
  Slots,     \* the semaphore of a batch
  Faults,    \* bound: calls of the database that fail
  Restarts   \* bound: restarts of the process

Ops == {"none", "create", "import", "generate", "update", "restore", "delete", "run", "batch"}
(* Steps are a list: those of a document, and those of an answer. *)
Listed(ask) ==
  /\ ask.op \in {"create", "import", "update"} => IsFiniteSet(Nodes(ask.doc))
  /\ ask.op = "generate" => ask.doc \in Seq(ToSet(ask.doc))
ASSUME StoreAssumption ==
  /\ Slots \in Nat \ {0} /\ Faults \in Nat /\ Restarts \in Nat
  /\ \A p \in Plans :
       /\ DOMAIN p.stock \subseteq Ids
       /\ \A id \in DOMAIN p.stock : IsFiniteSet(Nodes(p.stock[id]))
       /\ \A c \in Callers : p.asks[c].op \in Ops /\ Listed(p.asks[c])

VARIABLES
  scenario,   \* scenarios, by id: the document and the status
  versions,   \* scenario_versions
  plan,       \* what each request asks
  caller,     \* the requests
  run,        \* the executions, by request and place in its list
  budget,     \* what is left of Faults and Restarts
  replaced,   \* history: documents that were written over
  stuck       \* history: scenarios a run broke off on, or that were brought as running
history == <<replaced, stuck>>
vars == <<scenario, versions, plan, caller, run, budget, history>>

Blank == [doc |-> None, status |-> None]
Asked(c) == plan.asks[c]
On(c) == Asked(c).on
Executions == {<<c, k>> : c \in Callers, k \in 1 .. 2}
Init ==
  /\ plan \in Plans
  /\ scenario = [id \in DOMAIN plan.stock |-> [doc |-> plan.stock[id], status |-> "draft"]]
  /\ versions = {}
  /\ caller = [c \in Callers |-> [pc |-> "start", old |-> Blank, take |-> Blank, number |-> 0,
                                  end |-> "none"]]
  /\ run = [x \in Executions |-> [pc |-> "none", doc |-> None, passed |-> FALSE]]
  /\ budget \in {[faults |-> Faults, restarts |-> 0], [faults |-> 0, restarts |-> Restarts]}
  /\ replaced = {} /\ stuck = {}

Live == DOMAIN scenario
At(c, pc) == caller[c].pc = pc
Is(c, op) == Asked(c).op = op /\ At(c, "start")
Moves(c, pc) == caller' = [caller EXCEPT ![c].pc = pc]
Ends(c, how) == caller' = [caller EXCEPT ![c].pc = "over", ![c].end = how]
Put(id, as) == [i \in Live \cup {id} |-> IF i = id THEN as ELSE scenario[i]]
Without(ids) == [i \in Live \ ids |-> scenario[i]]
------------------------------------------------------------------------------
(* Creation draws a new id, and so does the acceptance of what the         *)
(* analyzer generated and repaired; an import keeps the ids of its items,  *)
(* and one that is taken is counted as failed.  Nothing is validated, and  *)
(* an import takes the status it is given.                                 *)

Brought(c) == IF Is(c, "generate") THEN Repaired(Asked(c).doc) ELSE Asked(c).doc
Create(c) ==
  /\ Is(c, "create") \/ Is(c, "import") \/ Is(c, "generate")
  /\ LET id == On(c)[1]
         brought == [doc |-> Brought(c), status |-> IF Is(c, "import") THEN "running" ELSE "draft"]
     IN  IF id \in Live THEN Ends(c, "failed") /\ UNCHANGED <<scenario, stuck>>
         ELSE /\ scenario' = Put(id, brought)
              /\ stuck' = IF Is(c, "import") THEN stuck \cup {id} ELSE stuck
              /\ Ends(c, "ok")
  /\ UNCHANGED <<versions, plan, run, budget, replaced>>

Delete(c) ==
  /\ Is(c, "delete")
  /\ scenario' = Without(ToSet(On(c)))
  /\ Ends(c, IF ToSet(On(c)) \cap Live = {} THEN "missing" ELSE "ok")
  /\ UNCHANGED <<versions, plan, run, budget, history>>
------------------------------------------------------------------------------
(* PUT and restore: the current document is read, a version of it is kept  *)
(* under the next number, and the new one is written.                      *)

Looks(c, old, take) ==
  caller' = [caller EXCEPT ![c].pc = "number", ![c].old = old, ![c].take = take]
Kept(id) == {v \in versions : v.of = id}
(* An update is validated with the documents of the moment; it carries no  *)
(* status.                                                                 *)
Update(c) ==
  /\ Is(c, "update")
  /\ LET id == On(c)[1]
     IN  CASE id \notin Live -> Ends(c, "missing")
           [] id \in Live /\ ~Valid(Asked(c).doc) -> Ends(c, "refused")
           [] OTHER -> Looks(c, scenario[id], [doc |-> Asked(c).doc, status |-> None])
  /\ UNCHANGED <<scenario, versions, plan, run, budget, history>>
(* A restore takes any version of the list, with the status it was kept in.*)
Restore(c) ==
  /\ Is(c, "restore")
  /\ LET id == On(c)[1]
     IN  IF id \notin Live \/ Kept(id) = {} THEN Ends(c, "missing")
         ELSE \E v \in Kept(id) : Looks(c, scenario[id], v.was)
  /\ UNCHANGED <<scenario, versions, plan, run, budget, history>>

Newest(id) == LET numbers == {v.number : v \in Kept(id)}
              IN  IF numbers = {} THEN 0 ELSE Max(numbers)
Number(c) ==
  /\ At(c, "number")
  /\ caller' = [caller EXCEPT ![c].pc = "keep", ![c].number = Newest(On(c)[1]) + 1]
  /\ UNCHANGED <<scenario, versions, plan, run, budget, history>>
Keep(c) ==
  /\ At(c, "keep")
  /\ versions' = versions \cup {[of |-> On(c)[1], number |-> caller[c].number,
                                 was |-> caller[c].old, by |-> c]}
  /\ Moves(c, "write")
  /\ UNCHANGED <<scenario, plan, run, budget, history>>

(* $set of an update, replace_one of a restore: neither inserts. *)
Written(c, id) ==
  LET take == caller[c].take IN
  CASE id \notin Live -> scenario
    [] id \in Live /\ take.status # None -> Put(id, take)
    [] OTHER -> [scenario EXCEPT ![id].doc = take.doc]
Write(c) ==
  /\ At(c, "write")
  /\ LET id == On(c)[1]
         take == caller[c].take
     IN  /\ scenario' = Written(c, id)
         /\ replaced' = IF id \notin Live THEN replaced
                        ELSE replaced \cup {[of |-> id, doc |-> scenario[id].doc,
                                             crossed |-> scenario[id].doc # caller[c].old.doc]}
         /\ stuck' = IF id \in Live /\ take.status = "running" THEN stuck \cup {id} ELSE stuck
         /\ Ends(c, IF id \in Live \/ Asked(c).op = "restore" THEN "ok" ELSE "missing")
  /\ UNCHANGED <<versions, plan, run, budget>>
------------------------------------------------------------------------------
(* Runs.  A single one is accepted once its document validates, and then   *)
(* goes on in the background, where everything is read again.              *)

Batched(x) == Asked(x[1]).op = "batch"
Subject(x) == On(x[1])[x[2]]
Goes(x, pc) == run' = [run EXCEPT ![x].pc = pc]
Run(c) ==
  /\ Is(c, "run")
  /\ LET id == On(c)[1]
     IN  CASE id \notin Live -> Ends(c, "missing") /\ UNCHANGED run
           [] id \in Live /\ ~Valid(scenario[id].doc) -> Ends(c, "refused") /\ UNCHANGED run
           [] OTHER -> Ends(c, "ok") /\ Goes(<<c, 1>>, "read")
  /\ UNCHANGED <<scenario, versions, plan, budget, history>>

(* A batch starts one coroutine per id of its list, Slots at a time.       *)
Members(c) == {<<c, k>> : k \in DOMAIN On(c)}
Batch(c) ==
  /\ Is(c, "batch")
  /\ run' = [x \in Executions |-> IF x \in Members(c) THEN [run[x] EXCEPT !.pc = "waiting"]
                                                      ELSE run[x]]
  /\ Moves(c, "gather")
  /\ UNCHANGED <<scenario, versions, plan, budget, history>>
(* Slip: who returns early keeps the semaphore. *)
HoldsTillEnd(x) == run[x].pc \notin {"none", "waiting", "over"} \/ (run[x].pc = "over" /\ run[x].doc = None)
Holds(x) == run[x].pc \notin {"none", "waiting", "over"}
Enter(x) ==
  /\ run[x].pc = "waiting"
  /\ Cardinality({y \in Members(x[1]) : Holds(y)}) < Slots
  /\ Goes(x, "read")
  /\ UNCHANGED <<scenario, versions, plan, caller, budget, history>>

Read(x) ==
  /\ run[x].pc = "read"
  /\ IF Subject(x) \in Live /\ Valid(scenario[Subject(x)].doc)
     THEN run' = [run EXCEPT ![x].pc = "mark", ![x].doc = scenario[Subject(x)].doc]
     ELSE Goes(x, "over")
  /\ UNCHANGED <<scenario, versions, plan, caller, budget, history>>
Shows(id, status) ==
  scenario' = IF id \in Live THEN [scenario EXCEPT ![id].status = status] ELSE scenario
Mark(x) ==
  /\ run[x].pc = "mark"
  /\ Shows(Subject(x), "running") /\ Goes(x, "engine")
  /\ UNCHANGED <<versions, plan, caller, budget, history>>
(* The engine fails a document whose top level it cannot sort. *)
Verdicts(doc) == {passed \in BOOLEAN : passed => Sortable(doc.deps, Level(doc, Root))}
Engine(x) ==
  /\ run[x].pc = "engine"
  /\ \E passed \in Verdicts(run[x].doc) :
       run' = [run EXCEPT ![x].pc = "close", ![x].passed = passed]
  /\ UNCHANGED <<scenario, versions, plan, caller, budget, history>>
Close(x) ==
  /\ run[x].pc = "close"
  /\ Shows(Subject(x), IF run[x].passed THEN "done" ELSE "failed") /\ Goes(x, "over")
  /\ stuck' = stuck \ {Subject(x)}
  /\ UNCHANGED <<versions, plan, caller, budget, replaced>>
(* Slip: the exception is answered, the status stays. *)
RescueKeeps(x) == UNCHANGED scenario
(* What raises inside a batch shows as failed. *)
Rescued(x) == Shows(Subject(x), "failed")
Rescue(x) ==
  /\ run[x].pc = "rescue"
  /\ Rescued(x) /\ Goes(x, "over")
  /\ UNCHANGED <<versions, plan, caller, budget, history>>
Gathered(c) ==
  /\ At(c, "gather") /\ \A x \in Members(c) : run[x].pc = "over"
  /\ Ends(c, "ok")
  /\ UNCHANGED <<scenario, versions, plan, run, budget, history>>
------------------------------------------------------------------------------
(* A call fails.  A request answers 500.  A single run breaks off as it is;*)
(* a batch catches what comes after its find_one, the validation included, *)
(* and what it does not catch (the find_one and the rescue's own write)    *)
(* ends its gather while the other members go on.                          *)
Underway(x) == run[x].pc \in {"engine", "close", "rescue"}
Spends == budget.faults > 0 /\ budget' = [budget EXCEPT !.faults = @ - 1]
(* Slip: a version that cannot be kept does not stop the write. *)
AfterFaultWrites(c) == IF At(c, "keep") THEN Moves(c, "write") ELSE Ends(c, "fault")
AfterFault(c) == Ends(c, "fault")
FaultOfRequest(c) ==
  /\ Spends /\ caller[c].pc \notin {"over", "gather"}
  /\ AfterFault(c)
  /\ UNCHANGED <<scenario, versions, plan, run, history>>
Catches(x) == \/ run[x].pc \in {"mark", "engine", "close"}
              \/ run[x].pc = "read" /\ Subject(x) \in Live      \* the validation fails
FaultOfRun(x) ==
  /\ Spends /\ Holds(x)
  /\ \/ Batched(x) /\ Catches(x) /\ Goes(x, "rescue") /\ UNCHANGED <<caller, stuck>>
     \/ /\ ~Batched(x) \/ run[x].pc \in {"read", "rescue"}
        /\ Goes(x, "over")
        /\ stuck' = IF Underway(x) THEN stuck \cup {Subject(x)} ELSE stuck
        /\ IF Batched(x) /\ At(x[1], "gather") THEN Ends(x[1], "failed") ELSE UNCHANGED caller
  /\ UNCHANGED <<scenario, versions, plan, replaced>>
(* A restart takes every request and every run with it. *)
Restart ==
  /\ budget.restarts > 0 /\ budget' = [budget EXCEPT !.restarts = @ - 1]
  /\ caller' = [c \in Callers |-> IF At(c, "over") THEN caller[c]
                                  ELSE [caller[c] EXCEPT !.pc = "over", !.end = "lost"]]
  /\ stuck' = stuck \cup {Subject(x) : x \in {y \in Executions : Underway(y)}}
  /\ run' = [x \in Executions |-> IF Holds(x) \/ run[x].pc = "waiting"
                                  THEN [run[x] EXCEPT !.pc = "over"] ELSE run[x]]
  /\ UNCHANGED <<scenario, versions, plan, replaced>>

Ask(c) == Create(c) \/ Delete(c) \/ Update(c) \/ Restore(c) \/ Run(c) \/ Batch(c)
Continue(c) == Number(c) \/ Keep(c) \/ Write(c) \/ Gathered(c)
Execute(x) == Enter(x) \/ Read(x) \/ Mark(x) \/ Engine(x) \/ Close(x) \/ Rescue(x)
Next ==
  \/ \E c \in Callers : Ask(c) \/ Continue(c) \/ FaultOfRequest(c)
  \/ \E x \in Executions : Execute(x) \/ FaultOfRun(x)
  \/ Restart
Spec == Init /\ [][Next]_vars
(* The event loop does not rest while a batch can go on, and an execution  *)
(* ends (DagEngine).                                                       *)
BatchGoesOn ==
  \/ \E c \in Callers : Gathered(c)
  \/ \E x \in Executions : Batched(x) /\ Execute(x)
FairSpec == Spec /\ WF_vars(BatchGoesOn)
------------------------------------------------------------------------------
(* save_scenario_version exists so that a save or a restore can be undone: *)
(* what a write replaced is in some version, unless somebody else wrote    *)
(* between its reading and its writing.                                    *)
ReplacedIsKept ==
  \A r \in replaced : r.crossed \/ \E v \in versions : v.of = r.of /\ v.was.doc = r.doc

(* The list shows a scenario as running only while a run of it is under    *)
(* way: it stays so only when a single run broke off, the process          *)
(* restarted, the status of a batch could not be written twice, or the     *)
(* status came with a restored version or an import.                       *)
RunningIsUnderway ==
  \A id \in Live :
    scenario[id].status = "running" =>
      id \in stuck \/ \E x \in Executions : Underway(x) /\ Subject(x) = id

(* A deleted scenario is not brought back by an update, a restore or a run *)
(* that had read it before: only a creation or an import inserts.          *)
DeletedStaysOut ==
  [][\A id \in Ids : (id \notin Live /\ id \in DOMAIN scenario') =>
       \E c \in Callers : Asked(c).op \in {"create", "import", "generate"} /\ On(c)[1] = id
                          /\ At(c, "start")]_vars

(* The validation and the engine agree: what it calls a cycle is one, and  *)
(* what it lets run the engine can sort on every level, as long as no      *)
(* dependency leaves its level and start and end bear their own names.     *)
ValidIsRunnable ==
  \A c \in Callers : Is(c, "run") =>
    \A id \in ToSet(On(c)) \cap Live :
      LET doc == scenario[id].doc IN
      /\ Cyclic(doc) = HasCycle(doc)
      /\ (Valid(doc) /\ OnItsLevel(doc) /\ MarkersReserved(doc)) => Runnable(doc)

(* The analyzer repairs what the language model returned into a document   *)
(* the validation accepts and the engine can sort, unless the model named  *)
(* what is not there or took a reserved id, or an API step sits in a       *)
(* container: the end is then made to follow it, across the level.         *)
GeneratedIsRunnable ==
  \A c \in Callers : (Is(c, "generate") /\ Sensible(Asked(c).doc)) =>
    LET doc == Repaired(Asked(c).doc) IN
    /\ Valid(doc)
    /\ (\A s \in Typed(doc, {"api"}) : doc.parent[s] = Root) => Runnable(doc)

(* A batch is answered: whoever returns early or fails frees its slot, and *)
(* the members that wait get one.                                          *)
BatchesAnswer == \A c \in Callers : At(c, "gather") ~> At(c, "over")
==============================================================================
