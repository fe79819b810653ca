------------------------------ MODULE DagEngine ------------------------------
(***************************************************************************)
(* DagExecutionEngine (dag_engine/engine.py): the execution of scenarios.  *)
(* A run sorts the steps of a level into waves, starts every step of a     *)
(* wave as an asyncio task, merges results and extracted variables when    *)
(* the wave is over, and stops at the first wave with a failure.           *)
(* Condition and loop containers run their children the same way, one      *)
(* level down, reading them from a map held by the engine INSTANCE.        *)
(*                                                                         *)
(* An action is the code between two awaits.  A context is the set of      *)
(* steps whose variables it holds; two scenarios share no step.            *)
(***************************************************************************)
EXTENDS Scenarios, Naturals, FiniteSets
CONSTANTS
  Engines,     \* engine instances
  Nobody,      \* no run
  EngineOf,    \* the engine instance a run uses
  Kind, Retry,
  Condition,   \* reads: a step, "any" or "none"; onFalse: "skip", "fail", "continue"
  Times,       \* the iteration counts the loop settings of a step can give
  Outcomes     \* what one call can come to in this instance

ASSUME EngineAssumption ==
  /\ Nobody \notin Runs /\ EngineOf \in [Runs -> Engines]
  /\ Kind \in [Steps -> {"start", "end", "api", "condition", "loop"}]
  /\ Parent \in [Steps -> Steps \cup {Root}]
  /\ Retry \in [Steps -> Nat] /\ Times \in [Steps -> SUBSET Nat]
  /\ \A s \in Steps : Condition[s].reads \in Steps \cup {"any", "none"}
  /\ Outcomes \subseteq {"pass", "bare", "fail", "missing", "raise"}

VARIABLES
  children,    \* the run whose scenario _scenario_children was built from, per engine
  phase,       \* where run_scenario is
  task,        \* the coroutine of a step
  frame,       \* the level being executed: _run_subgraph / the loop over groups
  record       \* the ExecutionRecord: passed, steps, stored; diagnosed: sent to the diagnosis queue
vars == <<children, phase, task, frame, record>>

Levels == Steps \cup {Root}
Result == [step : Steps, verdict : {"passed", "failed", "skipped"}, extracted : BOOLEAN]
Res(s, v) == [step |-> s, verdict |-> v, extracted |-> FALSE]
Failures(R) == {x \in R : x.verdict = "failed"}
Extractors(R) == {x.step : x \in {y \in R : y.extracted}}

NoTask == [st |-> "none", attempt |-> 0, left |-> 0, res |-> {}]
Created == [NoTask EXCEPT !.st = "ready"]
Live(t) == t.st \in {"ready", "calling", "backoff", "inside"}
NoFrame == [st |-> "off", kids |-> {}, placed |-> {}, wave |-> {},
            home |-> Root, ctx |-> {}, res |-> {}]

Init ==
  /\ children = [e \in Engines |-> Nobody]
  /\ phase = [r \in Runs |-> "idle"]
  /\ task = [r \in Runs |-> [s \in Steps |-> NoTask]]
  /\ frame = [r \in Runs |-> [c \in Levels |-> NoFrame]]
  /\ record = [r \in Runs |-> [passed |-> FALSE, steps |-> {}, stored |-> FALSE,
                               diagnosed |-> FALSE]]
------------------------------------------------------------------------------
(* Levels and waves. *)

(* _scenario_children after run_scenario has rebuilt it. *)
Built(r) == [children EXCEPT ![EngineOf[r]] = r]

(* _build_children_map, as looked up by a container of run r; as a slip,   *)
(* without the children that wait for another one.                         *)
ChildrenFirst(r, c) ==
  LET owner == children[EngineOf[r]]
  IN IF owner = Nobody THEN {}
     ELSE {s \in StepsOf[owner] : Parent[s] = c /\ DependsOn[s] = {}}
Children(r, c) ==
  LET owner == children[EngineOf[r]]
  IN IF owner = Nobody THEN {} ELSE {s \in StepsOf[owner] : Parent[s] = c}

(* A level at its start; the contexts of a condition container and of its  *)
(* parent level are one object, which lives at the level named by home.    *)
Opened(K, home, ctx) ==
  [st |-> "open", kids |-> K, placed |-> Frontier(DependsOn, K, {}),
   wave |-> Frontier(DependsOn, K, {}), home |-> home, ctx |-> ctx, res |-> {}]

(* The tasks of run r after the coroutines of W are created. *)
WithCreated(T, W) == [s \in Steps |-> IF s \in W THEN Created ELSE T[s]]

Home(r, s) == frame[r][Parent[s]].home
Context(r, s) == frame[r][Home(r, s)].ctx

(* run_scenario up to its first wave. A ValueError of _topo_sort lands in   *)
(* its except branch: the run fails with no step executed.                 *)
Start(r) ==
  LET K == {s \in StepsOf[r] : Parent[s] = Root} IN
  /\ phase[r] = "idle"
  /\ children' = Built(r)
  /\ IF Sortable(DependsOn, K)
     THEN /\ phase' = [phase EXCEPT ![r] = "running"]
          /\ frame' = [frame EXCEPT ![r][Root] = Opened(K, Root, {})]
          /\ task' = [task EXCEPT ![r] = WithCreated(@, Frontier(DependsOn, K, {}))]
     ELSE /\ phase' = [phase EXCEPT ![r] = "saving"]
          /\ UNCHANGED <<frame, task>>
  /\ UNCHANGED record
------------------------------------------------------------------------------
(* _dispatch_step: the first slice of a step's coroutine. *)

Settle(r, s, R) ==
  task' = [task EXCEPT ![r][s].st = "done", ![r][s].res = R]

(* _eval_condition on a variable extracted by the step that is read. *)
Truths(r, s) ==
  CASE Condition[s].reads = "none" -> {TRUE}
    [] Condition[s].reads = "any"  -> BOOLEAN
    [] OTHER -> {Condition[s].reads \in Context(r, s)}

(* start puts its default parameters into the context at once; end does    *)
(* nothing.                                                                *)
DispatchMarker(r, s) ==
  /\ Kind[s] \in {"start", "end"}
  /\ Settle(r, s, {Res(s, "passed")})
  /\ frame' = IF Kind[s] = "start"
              THEN [frame EXCEPT ![r][Home(r, s)].ctx = @ \cup {s}] ELSE frame

(* The condition is false. "continue" runs an api step all the same, but   *)
(* skips a condition container.                                            *)
DispatchUnmet(r, s) ==
  /\ Kind[s] \in {"api", "condition"}
  /\ FALSE \in Truths(r, s)
  /\ Kind[s] = "api" => Condition[s].onFalse # "continue"
  /\ Settle(r, s, {Res(s, IF Condition[s].onFalse = "fail" THEN "failed" ELSE "skipped")})
  /\ UNCHANGED frame

(* An api step: a loop_var list may be empty, which yields no result. *)
DispatchApi(r, s) ==
  /\ Kind[s] = "api"
  /\ TRUE \in Truths(r, s) \/ Condition[s].onFalse = "continue"
  /\ \E n \in Times[s] :
       IF n = 0 THEN Settle(r, s, {})
       ELSE task' = [task EXCEPT ![r][s].st = "calling", ![r][s].attempt = 1,
                                 ![r][s].left = n]
  /\ UNCHANGED frame

(* A container opens its level over the children the map holds for it; a   *)
(* loop works on a copy of the context. A ValueError of _topo_sort leaves  *)
(* the coroutine.                                                          *)
Enter(r, s, n) ==
  LET K == Children(r, s)
      level == IF Kind[s] = "loop" THEN Opened(K, s, Context(r, s))
                                   ELSE Opened(K, Home(r, s), {})
  IN IF Sortable(DependsOn, K)
     THEN /\ frame' = [frame EXCEPT ![r][s] = level]
          /\ task' = [task EXCEPT ![r] =
               [WithCreated(@, level.wave) EXCEPT ![s].st = "inside", ![s].left = n]]
     ELSE /\ task' = [task EXCEPT ![r][s].st = "raised", ![r][s].left = n]
          /\ UNCHANGED frame

DispatchContainer(r, s) ==
  \/ Kind[s] = "condition" /\ TRUE \in Truths(r, s) /\ Enter(r, s, 1)
  \/ /\ Kind[s] = "loop"
     /\ \E n \in Times[s] :
          IF n = 0 THEN Settle(r, s, {Res(s, "passed")}) /\ UNCHANGED frame
          ELSE Enter(r, s, n)

Dispatch(r, s) ==
  /\ task[r][s].st = "ready"
  /\ \/ DispatchMarker(r, s) \/ DispatchUnmet(r, s)
     \/ DispatchApi(r, s) \/ DispatchContainer(r, s)
  /\ UNCHANGED <<children, phase, record>>
------------------------------------------------------------------------------
(* _execute_step: the attempts of one iteration, with exponential backoff. *)

(* An iteration of an api step ends; the next one starts unless it was the *)
(* last, or it failed (fail-fast).                                         *)
IterationOver(r, s, x) ==
  LET t == task[r][s] IN
  task' = [task EXCEPT ![r][s] =
    IF x.verdict # "failed" /\ t.left > 1
    THEN [t EXCEPT !.attempt = 1, !.left = @ - 1, !.res = @ \cup {x}]
    ELSE [t EXCEPT !.st = "done", !.res = @ \cup {x}]]

(* A call that passes may or may not find the variables to extract. *)
CallPasses(r, s, o) ==
  /\ o \in {"pass", "bare"}
  /\ IterationOver(r, s, [Res(s, "passed") EXCEPT !.extracted = (o = "pass")])

(* find_one has no document for the API: no retry. *)
ApiMissing(r, s, o) ==
  /\ o = "missing" /\ task[r][s].attempt = 1
  /\ IterationOver(r, s, Res(s, "failed"))

(* Assertions, timeouts, connection errors and any other exception that    *)
(* _http_call catches give a failed result alike: all of them are retried. *)
CallFails(r, s, o) ==
  /\ o = "fail"
  /\ IF task[r][s].attempt <= Retry[s]
     THEN task' = [task EXCEPT ![r][s].st = "backoff"]
     ELSE IterationOver(r, s, Res(s, "failed"))

(* What runs outside the try of _http_call (data injection, loading the    *)
(* API, rendering the request) raises.                                     *)
CallRaises(r, s, o) ==
  /\ o = "raise"
  /\ task' = [task EXCEPT ![r][s].st = "raised"]

Call(r, s, o) ==
  /\ task[r][s].st = "calling"
  /\ \/ CallPasses(r, s, o) \/ ApiMissing(r, s, o)
     \/ CallFails(r, s, o) \/ CallRaises(r, s, o)
  /\ UNCHANGED <<children, phase, frame, record>>

(* asyncio.sleep is over: the next attempt; as a slip, one that is not     *)
(* counted.                                                                *)
RetriedUncounted(r, s) ==
  /\ task[r][s].st = "backoff"
  /\ task' = [task EXCEPT ![r][s].st = "calling"]
  /\ UNCHANGED <<children, phase, frame, record>>
Retried(r, s) ==
  /\ task[r][s].st = "backoff"
  /\ task' = [task EXCEPT ![r][s].st = "calling", ![r][s].attempt = @ + 1]
  /\ UNCHANGED <<children, phase, frame, record>>
------------------------------------------------------------------------------
(* _run_wave and its callers. *)

(* The results a wave of one step appends: it returns at the first failing *)
(* one, and a failed container comes before the results of its children.   *)
Appended(W, R) ==
  IF Cardinality(W) = 1 /\ \E s \in W : Res(s, "failed") \in R /\ Kind[s] \in {"condition", "loop"}
  THEN {Res(s, "failed") : s \in W} ELSE R

(* The results and the extracted variables of a wave are kept; as a slip,   *)
(* the results alone.                                                      *)
MergedResults(F, c, added) == [F EXCEPT ![c].res = @ \cup added]
Merged(F, c, added) ==
  [F EXCEPT ![c].res = @ \cup added, ![F[c].home].ctx = @ \cup Extractors(added)]

(* record.passed, once the loop over the waves has ended well or not: every *)
(* step passed or was skipped.                                             *)
Verdict(ok, R) == ok /\ Failures(R) = {}

(* The level c of run r is over: run_scenario takes its verdict, a         *)
(* container settles, a loop opens its next iteration.  F and T are its    *)
(* frames and tasks after the last merge.                                  *)
Close(r, c, ok, F, T) ==
  LET done == [F EXCEPT ![c].st = "over"] IN
  IF c = Root
  THEN /\ phase' = [phase EXCEPT ![r] = IF ok THEN "saving" ELSE "savingFailed"]
       /\ record' = [record EXCEPT ![r].steps = F[Root].res,
            ![r].passed = Verdict(ok, F[Root].res)]
       /\ frame' = [frame EXCEPT ![r] = done]
       /\ task' = [task EXCEPT ![r] = T]
  ELSE LET all == T[c].res \cup F[c].res
           again == Opened(Children(r, c), c, F[F[Parent[c]].home].ctx)
       IN /\ IF Kind[c] = "loop" /\ ok /\ T[c].left > 1
             THEN IF Sortable(DependsOn, Children(r, c))
                  THEN /\ frame' = [frame EXCEPT ![r] = [done EXCEPT ![c] = again]]
                       /\ task' = [task EXCEPT ![r] = [WithCreated(T, again.wave)
                                     EXCEPT ![c].left = @ - 1, ![c].res = all]]
                  ELSE /\ frame' = [frame EXCEPT ![r] = done]
                       /\ task' = [task EXCEPT ![r] = [T EXCEPT ![c].st = "raised"]]
             ELSE /\ frame' = [frame EXCEPT ![r] = done]
                  /\ task' = [task EXCEPT ![r] = [T EXCEPT ![c].st = "done",
                        ![c].res = all \cup {Res(c, IF ok THEN "passed" ELSE "failed")}]]
          /\ UNCHANGED <<phase, record>>

(* No task of the wave is awaited any more; as a slip, the first one to     *)
(* return ends the wave.                                                   *)
WaveOverFirst(r, c) == \E s \in frame[r][c].wave : task[r][s].st = "done"
WaveOver(r, c) == \A s \in frame[r][c].wave : task[r][s].st = "done"

(* Every task of the wave returned: results are appended, variables merged, *)
(* and the next wave starts unless a result failed.                        *)
WaveDone(r, c) ==
  LET f == frame[r][c]
      added == Appended(f.wave, UNION {task[r][s].res : s \in f.wave})
      F == Merged(frame[r], c, added)
      next == Frontier(DependsOn, f.kids, f.placed)
  IN /\ f.st = "open"
     /\ WaveOver(r, c)
     /\ IF Failures(added) = {} /\ next # {}
        THEN /\ frame' = [frame EXCEPT ![r] = [F EXCEPT ![c].wave = next,
                                                         ![c].placed = @ \cup next]]
             /\ task' = [task EXCEPT ![r] = WithCreated(@, next)]
             /\ UNCHANGED <<phase, record>>
        ELSE Close(r, c, Failures(added) = {}, F, task[r])
     /\ UNCHANGED children

(* A wave of one step is awaited directly: its exception goes through the  *)
(* level, to the except branch of run_scenario or into the container.      *)
SoleStepRaises(r, c) ==
  /\ frame[r][c].st = "open"
  /\ \E s \in Steps : frame[r][c].wave = {s} /\ task[r][s].st = "raised"
  /\ frame' = [frame EXCEPT ![r][c].st = "over"]
  /\ IF c = Root
     THEN /\ phase' = [phase EXCEPT ![r] = "saving"]
          /\ record' = [record EXCEPT ![r].steps = frame[r][Root].res]
          /\ UNCHANGED task
     ELSE /\ task' = [task EXCEPT ![r][c].st = "raised"]
          /\ UNCHANGED <<phase, record>>
  /\ UNCHANGED children

(* The steps a container step is inside of, through any number of levels.  *)
Ancestors == [s \in Steps |->
  {a \in Steps : \A S \in SUBSET Steps :
     (/\ Parent[s] \in S \cup {Root}
      /\ \A u \in S : Parent[u] \in S \cup {Root}) => Parent[s] # Root /\ a \in S}]

(* The coroutines inside the task of s: cancelling it reaches the children *)
(* a container awaits directly, and not those a wave of several steps has  *)
(* made tasks of their own.  As a slip: nothing is cancelled.              *)
WithinNothing(r, s) == {}
Within(r, s) ==
  {s} \cup {t \in Steps : /\ s \in Ancestors[t]
                          /\ \A u \in {t} \cup Ancestors[t] :
                               s \in Ancestors[u] => frame[r][Parent[u]].wave = {u}}

(* One of several concurrent steps raised: the pending ones are cancelled, *)
(* the results of those iterated before the exception are kept (`done` is  *)
(* a set, so which ones those are is open), and the level fails.           *)
WaveRaises(r, c) ==
  LET f == frame[r][c]
      returned == {s \in f.wave : task[r][s].st = "done"}
      pending == {s \in f.wave : Live(task[r][s])}
      cancelled == {t \in UNION {Within(r, s) : s \in pending} : Live(task[r][t])}
      T == [s \in Steps |-> IF s \in cancelled THEN [task[r][s] EXCEPT !.st = "cancelled"]
                            ELSE task[r][s]]
      dropped == [k \in Levels |-> IF k \in cancelled /\ frame[r][k].st = "open"
                    THEN [frame[r][k] EXCEPT !.st = "over"] ELSE frame[r][k]]
  IN /\ f.st = "open" /\ Cardinality(f.wave) > 1
     /\ \E s \in f.wave : task[r][s].st = "raised"
     /\ \E kept \in SUBSET returned :
          Close(r, c, FALSE,
                Merged(dropped, c, UNION {task[r][s].res : s \in kept}), T)
     /\ UNCHANGED children
------------------------------------------------------------------------------
(* The end of run_scenario. *)

(* Saving a failed record inside the try: an error is caught, and the      *)
(* record is saved once more below.                                        *)
SaveFailed(r) ==
  /\ phase[r] = "savingFailed"
  /\ \/ /\ record' = [record EXCEPT ![r].stored = TRUE]
        /\ phase' = [phase EXCEPT ![r] = "diagnosing"]
     \/ /\ phase' = [phase EXCEPT ![r] = "saving"]
        /\ UNCHANGED record
  /\ UNCHANGED <<children, task, frame>>

(* The last save: an error leaves run_scenario. *)
Save(r) ==
  /\ phase[r] = "saving"
  /\ \/ /\ record' = [record EXCEPT ![r].stored = TRUE]
        /\ phase' = [phase EXCEPT ![r] = IF record[r].passed THEN "returned" ELSE "diagnosing"]
     \/ /\ phase' = [phase EXCEPT ![r] = "crashed"]
        /\ UNCHANGED record
  /\ UNCHANGED <<children, task, frame>>

(* _enqueue_diagnosis never raises: without Redis, or on its error, the    *)
(* execution is just not queued.                                           *)
EnqueueDiagnosis(r) ==
  /\ phase[r] = "diagnosing"
  /\ phase' = [phase EXCEPT ![r] = "returned"]
  /\ \E queued \in BOOLEAN : record' = [record EXCEPT ![r].diagnosed = queued]
  /\ UNCHANGED <<children, task, frame>>
------------------------------------------------------------------------------
Next ==
  \/ \E r \in Runs : Start(r) \/ SaveFailed(r) \/ Save(r) \/ EnqueueDiagnosis(r)
  \/ \E r \in Runs, s \in Steps :
       Dispatch(r, s) \/ Retried(r, s) \/ \E o \in Outcomes : Call(r, s, o)
  \/ \E r \in Runs, c \in Levels :
       WaveDone(r, c) \/ SoleStepRaises(r, c) \/ WaveRaises(r, c)

Spec == Init /\ [][Next]_vars

(* The event loop runs every coroutine that can run; a call has a timeout. *)
FairSpec == Spec /\ WF_vars(Next)
------------------------------------------------------------------------------
Task == [st : {"none", "ready", "calling", "backoff", "inside", "done", "raised", "cancelled"},
         attempt : Nat, left : Nat, res : SUBSET Result]
Frame == [st : {"off", "open", "over"}, kids : SUBSET Steps, placed : SUBSET Steps,
          wave : SUBSET Steps, home : Levels, ctx : SUBSET Steps, res : SUBSET Result]

TypeOK ==
  /\ children \in [Engines -> Runs \cup {Nobody}]
  /\ phase \in [Runs -> {"idle", "running", "savingFailed", "saving", "diagnosing",
                         "returned", "crashed"}]
  /\ task \in [Runs -> [Steps -> Task]]
  /\ frame \in [Runs -> [Levels -> Frame]]
  /\ record \in [Runs -> [passed : BOOLEAN, steps : SUBSET Result, stored : BOOLEAN,
                          diagnosed : BOOLEAN]]

Settled(r) == phase[r] \in {"returned", "crashed"}
Concluded(r) == phase[r] \notin {"idle", "running"}
Failed(t) == t.st \in {"raised", "cancelled"} \/ Failures(t.res) # {}
Ran(t) == t.st = "done" /\ Failures(t.res) = {}

(* A step is under way only after every step it depends on came to its end *)
(* without a failure, in this iteration of its container: the waves of     *)
(* _topo_sort, the merge of _run_wave and the early return on a failure    *)
(* together keep the order of depends_on, at every level.                  *)
DependencyOrder ==
  \A r \in Runs, s \in Steps : task[r][s].st \in {"calling", "backoff", "inside"} =>
    \A d \in Counted(DependsOn, s) : Ran(task[r][d])

(* A run never reports success over a failure: once the verdict "passed"   *)
(* is out, no step of the run failed, raised, was cancelled or still runs  *)
(* -- whatever level it is at and whichever sibling tasks there were.      *)
PassedMeansClean ==
  \A r \in Runs : Concluded(r) /\ record[r].passed =>
    \A s \in Steps : ~ Failed(task[r][s]) /\ ~ Live(task[r][s])

(* The steps a run has to execute for its verdict to mean anything: the    *)
(* top level, and the children of every container that was entered.        *)
Reached(r, s) ==
  \/ Parent[s] = Root
  \/ /\ Kind[Parent[s]] \in {"condition", "loop"} /\ task[r][Parent[s]].left > 0
     /\ Res(Parent[s], "passed") \in task[r][Parent[s]].res

(* A passed run executed (or skipped by its condition) every step of its   *)
(* own scenario that was reached, children of containers included.         *)
PassedMeansComplete ==
  \A r \in Runs : Concluded(r) /\ record[r].passed =>
    \A s \in StepsOf[r] : Reached(r, s) => Ran(task[r][s])

(* Nothing of a run is still executing after its verdict, but for the      *)
(* steps below a container that was cancelled.                             *)
QuietAfterVerdict ==
  \A r \in Runs, s \in Steps : Concluded(r) /\ Live(task[r][s]) =>
    \E a \in Ancestors[s] : task[r][a].st = "cancelled"

(* A condition sees what the dependencies of its step extracted: whichever *)
(* level, sibling order or loop iteration the value comes from, it is in   *)
(* the context when the step can be dispatched.                            *)
ConditionSeesDependencies ==
  \A r \in Runs, s \in Steps : task[r][s].st = "ready" =>
    \A d \in Counted(DependsOn, s) : Extractors(task[r][d].res) \subseteq Context(r, s)

(* A run is failed for a cause only: a step of it failed, raised or was    *)
(* cancelled after another one raised, or its graph cannot be sorted.      *)
FailureHasCause ==
  \A r \in Runs : Concluded(r) /\ ~ record[r].passed =>
    \/ \E s \in Steps : Failed(task[r][s])
    \/ ~ Sortable(DependsOn, Top[r])

(* "Keep the state of the instance from being overwritten by concurrent    *)
(* executions" (engine.py:46, 877): a container that is entered works on   *)
(* the children its own scenario gives it.                                 *)
ContainersKeepChildren ==
  \A r \in Runs, c \in Steps : frame[r][c].st # "off" =>
    frame[r][c].kids = {s \in StepsOf[r] : Parent[s] = c}

(* A run that starts comes to its verdict and its record is stored, or the *)
(* error of storing it reaches the caller; no wave waits for ever.         *)
Concludes == \A r \in Runs : phase[r] = "running" ~> Settled(r)

(* The abstract run of the top-level steps. *)
Progress(t) ==
  CASE t.st = "none" -> "todo"
    [] Live(t) -> "busy"
    [] Ran(t) -> "ok"
    [] OTHER -> "bad"
ProgressOf(r, s) == IF s \in Top[r] THEN Progress(task[r][s]) ELSE "todo"
VerdictOf(r) ==
  CASE ~ Concluded(r) -> "none"
    [] Concluded(r) /\ record[r].passed -> "passed"
    [] OTHER -> "failed"
Abstract == INSTANCE ScenarioRun WITH
  progress <- [r \in Runs |-> [s \in Steps |-> ProgressOf(r, s)]],
  verdict <- [r \in Runs |-> VerdictOf(r)]

(* Every run is a run of the abstract specification: waves, tasks, merges  *)
(* and cancellation add nothing a caller of run_scenario could observe.    *)
ImplementsScenarioRun == Abstract!Spec
==============================================================================
