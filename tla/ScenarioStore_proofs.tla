-------------------------- MODULE ScenarioStore_proofs -------------------------
(* What saving and restoring owe to whoever wants the old document back,   *)
(* and what a scenario shown as running is owed, for any scenarios,        *)
(* requests, documents and failing calls.  Then what the validation of a   *)
(* document tells of its cycles, what the analyzer makes of an answer, and *)
(* that the sort of what is executed lays out every graph wave by wave, for*)
(* documents, answers and levels of any size.                              *)
EXTENDS ScenarioStore, TopoSort, FiniteSetTheorems, TLAPS

(* Every request is a record of its fields, whatever it holds. *)
Shaped ==
  caller = [c \in Callers |-> [pc |-> caller[c].pc, old |-> caller[c].old, take |-> caller[c].take,
                               number |-> caller[c].number, end |-> caller[c].end]]

(* Who is about to write has kept, under the scenario's name, what it read.*)
WritersKept ==
  \A c \in Callers :
    At(c, "write") => \E v \in versions : v.of = On(c)[1] /\ v.was = caller[c].old

Keeping == Shaped /\ WritersKept /\ ReplacedIsKept
------------------------------------------------------------------------------
LEMMA KeepingAtFirst == Init => Keeping
BY DEF Init, Keeping, Shaped, WritersKept, ReplacedIsKept, At

(* A step of one request c: the others are where they were, and versions   *)
(* are never taken away.                                                   *)
LEMMA OneMoves ==
  ASSUME Keeping, NEW c \in Callers, Shaped',
         \A d \in Callers \ {c} : caller'[d] = caller[d],
         versions \subseteq versions', UNCHANGED plan, ReplacedIsKept',
         caller'[c].pc = "write" => \E v \in versions' : v.of = On(c)[1] /\ v.was = caller'[c].old
  PROVE  Keeping'
<1>1. ASSUME NEW d \in Callers, At(d, "write")'
      PROVE  \E v \in versions' : v.of = On(d)[1]' /\ v.was = caller'[d].old
  <2>1. On(d)[1]' = On(d)[1]
    BY DEF On, Asked
  <2>2. CASE d = c
    BY <1>1, <2>1, <2>2 DEF At
  <2>3. CASE d # c
    BY <1>1, <2>1, <2>3 DEF At, Keeping, WritersKept
  <2>. QED
    BY <2>2, <2>3
<1>. QED
  BY <1>1 DEF Keeping, WritersKept

LEMMA VersionsStay ==
  ASSUME ReplacedIsKept, versions \subseteq versions', UNCHANGED replaced
  PROVE  ReplacedIsKept'
BY DEF ReplacedIsKept

(* What the ways of moving on do to the request that moves. *)
LEMMA MovesOn ==
  ASSUME Shaped, NEW c \in Callers, NEW goal, NEW old, NEW take, NEW number, NEW how,
         \/ Moves(c, goal)
         \/ Ends(c, how) /\ goal = "over"
         \/ Looks(c, old, take) /\ goal = "number"
         \/ caller' = [caller EXCEPT ![c].pc = goal, ![c].number = number]
  PROVE  /\ Shaped' /\ caller'[c].pc = goal
         /\ \A d \in Callers \ {c} : caller'[d] = caller[d]
<1>1. caller' \in {[caller EXCEPT ![c].pc = goal], [caller EXCEPT ![c].pc = goal, ![c].end = how],
                   [caller EXCEPT ![c].pc = goal, ![c].old = old, ![c].take = take],
                   [caller EXCEPT ![c].pc = goal, ![c].number = number]}
  BY DEF Moves, Ends, Looks
<1>. QED
  BY <1>1 DEF Shaped

(* A request that moves on, and not to its writing. *)
LEMMA MovesKeep ==
  ASSUME Keeping, NEW c \in Callers,
         \/ \E goal \in {"gather"} : Moves(c, goal)
         \/ \E how \in {"ok", "failed", "missing", "refused", "fault"} : Ends(c, how)
         \/ \E old, take : Looks(c, old, take)
         \/ \E n : caller' = [caller EXCEPT ![c].pc = "keep", ![c].number = n],
         UNCHANGED <<versions, plan, replaced>>
  PROVE  Keeping'
<1>1. PICK goal \in {"gather", "over", "number", "keep"} :
        /\ Shaped' /\ caller'[c].pc = goal
        /\ \A d \in Callers \ {c} : caller'[d] = caller[d]
  BY MovesOn DEF Keeping
<1>. QED
  BY <1>1, OneMoves, VersionsStay DEF Keeping
------------------------------------------------------------------------------
LEMMA AskKeeps == ASSUME Keeping, NEW c \in Callers, Ask(c) PROVE Keeping'
<1> USE DEF history
<1>1. CASE Create(c)
  BY <1>1, MovesKeep DEF Create
<1>2. CASE Delete(c)
  BY <1>2, MovesKeep DEF Delete
<1>3. CASE Update(c)
  BY <1>3, MovesKeep DEF Update
<1>4. CASE Restore(c)
  BY <1>4, MovesKeep DEF Restore
<1>5. CASE Run(c)
  BY <1>5, MovesKeep DEF Run
<1>6. CASE Batch(c)
  BY <1>6, MovesKeep DEF Batch
<1>. QED
  BY <1>1, <1>2, <1>3, <1>4, <1>5, <1>6 DEF Ask

(* The version kept is of what the request read, and the document that the *)
(* write replaces is that one, or somebody wrote in between.               *)
LEMMA ContinueKeeps == ASSUME Keeping, NEW c \in Callers, Continue(c) PROVE Keeping'
<1>1. CASE Number(c)
  BY <1>1, MovesKeep DEF Number, history
<1>2. CASE Keep(c)
  <2>1. /\ Shaped' /\ caller'[c].pc = "write"
        /\ \A d \in Callers \ {c} : caller'[d] = caller[d]
    BY <1>2, MovesOn DEF Keep, Keeping
  <2>2. caller'[c].old = caller[c].old
    BY <1>2 DEF Keep, Moves, Keeping, Shaped
  <2> DEFINE kept == [of |-> On(c)[1], number |-> caller[c].number, was |-> caller[c].old, by |-> c]
  <2>3. \E v \in versions' : v.of = On(c)[1] /\ v.was = caller'[c].old
    <3>1. kept \in versions'
      BY <1>2 DEF Keep
    <3>2. kept.of = On(c)[1] /\ kept.was = caller'[c].old
      BY <2>2
    <3>. QED
      BY <3>1, <3>2
  <2>4. versions \subseteq versions' /\ UNCHANGED <<plan, replaced>>
    BY <1>2 DEF Keep, history
  <2>. QED
    BY <2>1, <2>3, <2>4, OneMoves, VersionsStay DEF Keeping
<1>3. CASE Write(c)
  <2> DEFINE id == On(c)[1]
             new == [of |-> id, doc |-> scenario[id].doc,
                     crossed |-> scenario[id].doc # caller[c].old.doc]
  <2>1. /\ Shaped' /\ caller'[c].pc = "over"
        /\ \A d \in Callers \ {c} : caller'[d] = caller[d]
    BY <1>3, MovesOn DEF Write, Keeping
  <2>2. UNCHANGED <<versions, plan>> /\ replaced' \subseteq replaced \cup {new}
    BY <1>3 DEF Write
  <2>3. PICK v \in versions : v.of = id /\ v.was = caller[c].old
    BY <1>3 DEF Write, Keeping, WritersKept
  <2>4. new.crossed \/ (v.of = new.of /\ v.was.doc = new.doc)
    BY <2>3
  <2>5. ReplacedIsKept'
    BY <2>2, <2>4 DEF ReplacedIsKept, Keeping
  <2>. QED
    BY <2>1, <2>2, <2>5, OneMoves
<1>4. CASE Gathered(c)
  BY <1>4, MovesKeep DEF Gathered, history
<1>. QED
  BY <1>1, <1>2, <1>3, <1>4 DEF Continue

LEMMA RunsKeep ==
  ASSUME Keeping, NEW x \in Executions, Execute(x) \/ FaultOfRun(x)
  PROVE  Keeping'
<1>1. UNCHANGED <<versions, plan, replaced>>
  BY DEF Execute, FaultOfRun, Enter, Read, Mark, Engine, Close, Rescue, history
<1>2. CASE UNCHANGED caller
  BY <1>1, <1>2 DEF Keeping, Shaped, WritersKept, ReplacedIsKept, At, On, Asked
<1>3. CASE Ends(x[1], "failed")
  <2>1. x[1] \in Callers
    BY DEF Executions
  <2>. QED
    BY <1>1, <1>3, <2>1, MovesKeep
<1>. QED
  BY <1>2, <1>3 DEF Execute, FaultOfRun, Enter, Read, Mark, Engine, Close, Rescue

LEMMA RestartKeeps == ASSUME Keeping, Restart PROVE Keeping'
<1>1. UNCHANGED <<versions, plan, replaced>>
  BY DEF Restart
<1>2. ASSUME NEW c \in Callers
      PROVE  /\ caller'[c].pc = "over"
             /\ caller'[c] = [pc |-> caller'[c].pc, old |-> caller'[c].old, take |-> caller'[c].take,
                              number |-> caller'[c].number, end |-> caller'[c].end]
  <2>1. caller[c] = [pc |-> caller[c].pc, old |-> caller[c].old, take |-> caller[c].take,
                     number |-> caller[c].number, end |-> caller[c].end]
    BY DEF Keeping, Shaped
  <2>2. CASE At(c, "over")
    <3>1. caller'[c] = caller[c]
      BY <2>2 DEF Restart
    <3>. QED
      BY <2>1, <2>2, <3>1 DEF At
  <2>3. CASE ~ At(c, "over")
    <3>1. caller'[c] = [caller[c] EXCEPT !.pc = "over", !.end = "lost"]
      BY <2>3 DEF Restart
    <3>2. caller'[c] = [pc |-> "over", old |-> caller[c].old, take |-> caller[c].take,
                        number |-> caller[c].number, end |-> "lost"]
      BY <2>1, <3>1
    <3>. QED
      BY <3>2
  <2>. QED
    BY <2>2, <2>3
<1>3. Shaped' /\ \A c \in Callers : caller'[c].pc = "over"
  <2>1. caller' = [c \in Callers |-> caller'[c]]
    BY DEF Restart
  <2>. QED
    BY <1>2, <2>1 DEF Shaped
<1>. QED
  BY <1>1, <1>2, <1>3 DEF Keeping, WritersKept, ReplacedIsKept, At

(* What a save or a restore replaced is in some version of its scenario,   *)
(* or another request wrote between its reading and its writing: for any   *)
(* number of requests, failing calls and restarts, whatever the documents. *)
THEOREM WhatIsReplacedIsKept == Spec => []ReplacedIsKept
<1>1. Keeping /\ [Next]_vars => Keeping'
  <2> SUFFICES ASSUME Keeping, [Next]_vars PROVE Keeping'
    OBVIOUS
  <2>1. ASSUME NEW c \in Callers, FaultOfRequest(c) PROVE Keeping'
    BY <2>1, MovesKeep DEF FaultOfRequest, AfterFault, history
  <2>2. CASE UNCHANGED vars
    BY <2>2 DEF vars, history, Keeping, Shaped, WritersKept, ReplacedIsKept, At, On, Asked
  <2>. QED
    BY <2>1, <2>2, AskKeeps, ContinueKeeps, RunsKeep, RestartKeeps DEF Next
<1>2. Keeping => ReplacedIsKept
  BY DEF Keeping
<1>. QED
  BY <1>1, <1>2, KeepingAtFirst, PTL DEF Spec
------------------------------------------------------------------------------
(* The status of a scenario and its runs.  A scenario is a document with a *)
(* status, and a request that has not begun has no run under way, so that  *)
(* it cannot take a run from whoever relies on it.                         *)
Pair(d) == d = [doc |-> d.doc, status |-> d.status]
Stocked == scenario = [id \in Live |-> scenario[id]] /\ \A id \in Live : Pair(scenario[id])
Carried ==
  /\ \A c \in Callers : Pair(caller[c].old) /\ Pair(caller[c].take)
  /\ \A v \in versions : Pair(v.was)
RunsShaped ==
  run = [x \in Executions |-> [pc |-> run[x].pc, doc |-> run[x].doc, passed |-> run[x].passed]]
NoneBefore == \A x \in Executions : At(x[1], "start") => run[x].pc = "none"
Showing == Shaped /\ Stocked /\ Carried /\ RunsShaped /\ NoneBefore /\ RunningIsUnderway

LEMMA ShowingAtFirst == Init => Showing
<1> SUFFICES ASSUME Init PROVE Showing
  OBVIOUS
<1>1. Shaped /\ Stocked /\ Carried /\ RunsShaped /\ NoneBefore
  BY DEF Init, Shaped, Stocked, Carried, Pair, Blank, RunsShaped, NoneBefore, Live
<1>2. \A id \in Live : scenario[id].status = "draft"
  BY DEF Init, Live
<1>. QED
  BY <1>1, <1>2 DEF Showing, RunningIsUnderway

(* A request moves: no run does, and a scenario that comes to say that it  *)
(* is running is among those excused.                                      *)
LEMMA RequestShows ==
  ASSUME Showing, UNCHANGED <<plan, run>>, Shaped', Carried', Stocked', stuck \subseteq stuck',
         \A c \in Callers : At(c, "start")' => At(c, "start"),
         \A id \in Live' : scenario'[id].status = "running" =>
           id \in stuck' \/ (id \in Live /\ scenario[id].status = "running")
  PROVE  Showing'
<1>1. \A x \in Executions : x[1] \in Callers /\ Subject(x)' = Subject(x) /\ Underway(x)' = Underway(x)
  BY DEF Executions, Subject, On, Asked, Underway
<1>2. RunsShaped' /\ NoneBefore'
  BY <1>1 DEF Showing, RunsShaped, NoneBefore
<1>3. RunningIsUnderway'
  BY <1>1 DEF Showing, RunningIsUnderway
<1>. QED
  BY <1>2, <1>3 DEF Showing

LEMMA OnlyTheRequestMoves ==
  ASSUME Showing, NEW c \in Callers,
         \/ \E goal \in {"write", "gather"} : Moves(c, goal)
         \/ \E how \in {"ok", "failed", "missing", "refused", "fault"} : Ends(c, how)
         \/ \E old, take : Pair(old) /\ Pair(take) /\ Looks(c, old, take)
         \/ \E n : caller' = [caller EXCEPT ![c].pc = "keep", ![c].number = n]
  PROVE  /\ Shaped' /\ caller'[c].pc # "start"
         /\ \A d \in Callers \ {c} : caller'[d] = caller[d]
         /\ \A d \in Callers : At(d, "start")' => At(d, "start")
         /\ \A d \in Callers : Pair(caller'[d].old) /\ Pair(caller'[d].take)
<1>0. /\ caller[c] = [pc |-> caller[c].pc, old |-> caller[c].old, take |-> caller[c].take,
                     number |-> caller[c].number, end |-> caller[c].end]
      /\ caller = [d \in Callers |-> caller[d]]
  BY DEF Showing, Shaped
<1>2. Pair(caller'[c].old) /\ Pair(caller'[c].take)
  <2>1. CASE \E old, take : Pair(old) /\ Pair(take) /\ Looks(c, old, take)
    <3>1. PICK old, take : Pair(old) /\ Pair(take) /\ Looks(c, old, take)
      BY <2>1
    <3>2. caller'[c] = [caller[c] EXCEPT !.pc = "number", !.old = old, !.take = take]
      BY <1>0, <3>1 DEF Looks
    <3>3. caller'[c].old = old /\ caller'[c].take = take
      BY <1>0, <3>2
    <3>. QED
      BY <3>1, <3>3
  <2>2. CASE caller'[c].old = caller[c].old /\ caller'[c].take = caller[c].take
    BY <2>2 DEF Showing, Carried
  <2>3. ASSUME NEW goal, Moves(c, goal)
        PROVE  caller'[c].old = caller[c].old /\ caller'[c].take = caller[c].take
    <3>1. caller'[c] = [caller[c] EXCEPT !.pc = goal]
      BY <1>0, <2>3 DEF Moves
    <3>. QED
      BY <1>0, <3>1
  <2>4. ASSUME NEW how, Ends(c, how)
        PROVE  caller'[c].old = caller[c].old /\ caller'[c].take = caller[c].take
    <3>1. caller'[c] = [caller[c] EXCEPT !.pc = "over", !.end = how]
      BY <1>0, <2>4 DEF Ends
    <3>. QED
      BY <1>0, <3>1
  <2>5. ASSUME NEW n, caller' = [caller EXCEPT ![c].pc = "keep", ![c].number = n]
        PROVE  caller'[c].old = caller[c].old /\ caller'[c].take = caller[c].take
    <3>1. caller'[c] = [caller[c] EXCEPT !.pc = "keep", !.number = n]
      BY <1>0, <2>5
    <3>. QED
      BY <1>0, <3>1
  <2>. QED
    BY <2>1, <2>2, <2>3, <2>4, <2>5
<1>3. \A d \in Callers : Pair(caller[d].old) /\ Pair(caller[d].take)
  BY DEF Showing, Carried
<1>1. PICK goal \in {"write", "gather", "over", "number", "keep"} :
        /\ Shaped' /\ caller'[c].pc = goal
        /\ \A d \in Callers \ {c} : caller'[d] = caller[d]
  BY MovesOn DEF Showing
<1>. QED
  BY <1>1, <1>2, <1>3 DEF At

LEMMA RequestsShow ==
  ASSUME Showing, NEW c \in Callers,
         \/ Create(c) \/ Delete(c) \/ Update(c) \/ Restore(c) \/ Continue(c) \/ FaultOfRequest(c)
  PROVE  Showing'
<1>1. /\ Shaped' /\ Carried' /\ UNCHANGED <<plan, run>>
      /\ \A d \in Callers : At(d, "start")' => At(d, "start")
  <2>1. UNCHANGED <<plan, run>>
    BY DEF Create, Delete, Update, Restore, Continue, Number, Keep, Write, Gathered, FaultOfRequest
  <2>2. CASE Create(c) \/ Delete(c)
    BY <2>1, <2>2, OnlyTheRequestMoves DEF Create, Delete, Showing, Carried
  <2>3. CASE Update(c)
    <3> DEFINE old == scenario[On(c)[1]]
               take == [doc |-> Asked(c).doc, status |-> None]
    <3>1. Pair(take)
      BY DEF Pair
    <3>2. \/ \E how \in {"missing", "refused"} : Ends(c, how)
          \/ Looks(c, old, take) /\ Pair(old)
      BY <2>3 DEF Update, Showing, Stocked
    <3>. QED
      BY <2>1, <2>3, <3>1, <3>2, OnlyTheRequestMoves DEF Update, Showing, Carried
  <2>4. CASE Restore(c)
    <3>1. \/ Ends(c, "missing")
          \/ \E old, take : Pair(old) /\ Pair(take) /\ Looks(c, old, take)
      BY <2>4 DEF Restore, Kept, Showing, Stocked, Carried
    <3>. QED
      BY <2>1, <2>4, <3>1, OnlyTheRequestMoves DEF Restore, Showing, Carried
  <2>5. CASE Number(c) \/ Write(c)
    BY <2>1, <2>5, OnlyTheRequestMoves DEF Number, Write, Showing, Carried
  <2>6. CASE Keep(c)
    <3> DEFINE kept == [of |-> On(c)[1], number |-> caller[c].number, was |-> caller[c].old, by |-> c]
    <3>1. versions' = versions \cup {kept} /\ Moves(c, "write")
      BY <2>6 DEF Keep
    <3>2. Pair(kept.was)
      BY DEF Showing, Carried
    <3>3. \A v \in versions' : Pair(v.was)
      <4> HIDE DEF kept
      <4>. QED
        BY <3>1, <3>2 DEF Showing, Carried
    <3>. QED
      BY <2>1, <3>1, <3>3, OnlyTheRequestMoves DEF Showing, Carried
  <2>7. CASE Gathered(c) \/ FaultOfRequest(c)
    BY <2>1, <2>7, OnlyTheRequestMoves DEF Gathered, FaultOfRequest, AfterFault, Showing, Carried
  <2>. QED
    BY <2>2, <2>3, <2>4, <2>5, <2>6, <2>7 DEF Continue
<1>2. CASE UNCHANGED <<scenario, stuck>>
  BY <1>1, <1>2, RequestShows DEF Showing, Stocked, Live, Pair
<1>3. CASE Create(c) /\ ~ UNCHANGED <<scenario, stuck>>
  <2> DEFINE id == On(c)[1]
             brought == [doc |-> Brought(c), status |-> IF Is(c, "import") THEN "running" ELSE "draft"]
  <2>1. /\ scenario' = Put(id, brought) /\ id \notin Live
        /\ stuck' = IF Is(c, "import") THEN stuck \cup {id} ELSE stuck
    BY <1>3 DEF Create
  <2>2. /\ Live' = Live \cup {id} /\ scenario'[id] = brought
        /\ \A i \in Live : scenario'[i] = scenario[i]
    BY <2>1 DEF Put, Live
  <2>3. Stocked'
    BY <2>1, <2>2 DEF Put, Stocked, Live, Showing, Pair
  <2>. QED
    BY <1>1, <2>1, <2>2, <2>3, RequestShows
<1>4. CASE Delete(c)
  <2>1. scenario' = Without(ToSet(On(c))) /\ UNCHANGED stuck
    BY <1>4 DEF Delete, history
  <2>2. Live' \subseteq Live /\ \A i \in Live' : scenario'[i] = scenario[i]
    BY <2>1 DEF Without, Live
  <2>3. Stocked'
    BY <2>1, <2>2 DEF Without, Stocked, Live, Showing, Pair
  <2>. QED
    BY <1>1, <2>1, <2>2, <2>3, RequestShows
<1>5. CASE Write(c)
  <2> DEFINE id == On(c)[1]
             take == caller[c].take
  <2>1. CASE id \notin Live
    BY <1>2, <1>5, <2>1 DEF Write, Written
  <2>2. CASE id \in Live /\ take.status # None
    <3>1. /\ scenario' = Put(id, take)
          /\ stuck' = IF take.status = "running" THEN stuck \cup {id} ELSE stuck
      BY <1>5, <2>2 DEF Write, Written
    <3>2. Live' = Live /\ scenario'[id] = take /\ \A i \in Live \ {id} : scenario'[i] = scenario[i]
      BY <2>2, <3>1 DEF Put, Live
    <3>3. Stocked'
      BY <3>1, <3>2 DEF Put, Stocked, Live, Showing, Carried, Pair
    <3>. QED
      BY <1>1, <2>2, <3>1, <3>2, <3>3, RequestShows
  <2>3. CASE id \in Live /\ take.status = None
    <3>1. scenario' = [scenario EXCEPT ![id].doc = take.doc] /\ stuck \subseteq stuck'
      BY <1>5, <2>3 DEF Write, Written
    <3>2. /\ Live' = Live /\ \A i \in Live \ {id} : scenario'[i] = scenario[i]
          /\ scenario'[id] = [scenario[id] EXCEPT !.doc = take.doc]
      BY <2>3, <3>1 DEF Live, Showing, Stocked
    <3>3. scenario'[id] = [doc |-> take.doc, status |-> scenario[id].status]
      BY <2>3, <3>2 DEF Showing, Stocked, Pair
    <3>4. Stocked'
      <4>1. scenario' = [i \in Live' |-> scenario'[i]]
        BY <2>3, <3>1, <3>2 DEF Stocked, Live, Showing
      <4>2. Pair(scenario'[id])
        BY <3>3 DEF Pair
      <4>3. \A i \in Live \ {id} : Pair(scenario'[i])
        BY <3>2 DEF Stocked, Showing
      <4>. QED
        BY <3>2, <4>1, <4>2, <4>3 DEF Stocked, Pair
    <3>. QED
      BY <1>1, <2>3, <3>1, <3>2, <3>3, <3>4, RequestShows
  <2>. QED
    BY <2>1, <2>2, <2>3
<1>. QED
  BY <1>2, <1>3, <1>4, <1>5
     DEF Update, Restore, Continue, Number, Keep, Gathered, FaultOfRequest, history

(* A run starts only where none was under way. *)
LEMMA RunsAreNew ==
  ASSUME Showing, NEW c \in Callers, At(c, "start"), Shaped', caller'[c].pc # "start",
         \A d \in Callers \ {c} : caller'[d] = caller[d],
         UNCHANGED <<plan, scenario, versions, stuck>>, Carried', RunsShaped',
         \A x \in Executions : x[1] # c => run'[x] = run[x]
  PROVE  Showing'
<1>1. \A x \in Executions : x[1] \in Callers /\ Subject(x)' = Subject(x)
  BY DEF Executions, Subject, On, Asked
<1>2. \A x \in Executions : Underway(x) => x[1] # c
  BY <1>1 DEF Showing, NoneBefore, Underway
<1>3. RunningIsUnderway'
  <2>1. \A x \in Executions : Underway(x) => Underway(x)'
    BY <1>2 DEF Underway
  <2>. QED
    BY <1>1, <2>1 DEF Showing, RunningIsUnderway, Live
<1>4. NoneBefore'
  BY <1>1 DEF Showing, NoneBefore, At
<1>5. Stocked'
  BY DEF Showing, Stocked, Live, Pair
<1>. QED
  BY <1>3, <1>4, <1>5 DEF Showing

LEMMA StartsShow ==
  ASSUME Showing, NEW c \in Callers, Run(c) \/ Batch(c)
  PROVE  Showing'
<1>1. CASE Run(c)
  <2>1. CASE UNCHANGED run
    <3>1. \E how \in {"ok", "missing", "refused"} : Ends(c, how)
      BY <1>1 DEF Run
    <3>2. UNCHANGED <<scenario, versions, plan, stuck>>
      BY <1>1 DEF Run, history
    <3>3. Stocked'
      BY <3>2 DEF Showing, Stocked, Live, Pair
    <3>4. /\ Shaped' /\ Carried'
          /\ \A d \in Callers : At(d, "start")' => At(d, "start")
      BY <3>1, <3>2, OnlyTheRequestMoves DEF Showing, Carried
    <3>. QED
      BY <2>1, <3>2, <3>3, <3>4, RequestShows DEF Live
  <2>2. CASE Ends(c, "ok") /\ Goes(<<c, 1>>, "read")
    <3>1. UNCHANGED <<scenario, versions, plan, stuck>> /\ At(c, "start")
      BY <1>1 DEF Run, history, Is
    <3>2. /\ Shaped' /\ Carried' /\ caller'[c].pc # "start"
          /\ \A d \in Callers \ {c} : caller'[d] = caller[d]
      BY <2>2, <3>1, OnlyTheRequestMoves DEF Showing, Carried
    <3>3. RunsShaped' /\ \A x \in Executions : x[1] # c => run'[x] = run[x]
      <4>0. RunsShaped
        BY DEF Showing
      <4>1. PICK x \in Executions : x = <<c, 1>>
        <5>1. 1 \in 1 .. 2
          OBVIOUS
        <5>2. <<c, 1>> \in Executions
          BY <5>1 DEF Executions
        <5>. QED
          BY <5>2
      <4>2. x[1] = c
        BY <4>1
      <4>3. Goes(x, "read")
        BY <2>2, <4>1
      <4>4. RunsShaped' /\ \A y \in Executions \ {x} : run'[y] = run[y]
        <5>1. x \in Executions
          BY <4>1
        <5>. QED
          BY <4>0, <4>3, <5>1 DEF RunsShaped, Goes
      <4>. QED
        BY <4>2, <4>4
    <3>. QED
      BY <3>1, <3>2, <3>3, RunsAreNew
  <2>. QED
    BY <1>1, <2>1, <2>2 DEF Run
<1>2. CASE Batch(c)
  <2>1. UNCHANGED <<scenario, versions, plan, stuck>> /\ At(c, "start") /\ Moves(c, "gather")
    BY <1>2 DEF Batch, history, Is
  <2>2. /\ Shaped' /\ Carried' /\ caller'[c].pc # "start"
        /\ \A d \in Callers \ {c} : caller'[d] = caller[d]
    BY <2>1, OnlyTheRequestMoves DEF Showing, Carried
  <2>3. run' = [x \in Executions |-> IF x \in Members(c) THEN [run[x] EXCEPT !.pc = "waiting"]
                                     ELSE run[x]]
    BY <1>2 DEF Batch
  <2>4. \A x \in Executions : x[1] # c => run'[x] = run[x]
    BY <2>3 DEF Members
  <2>5. RunsShaped'
    BY <2>3 DEF Showing, RunsShaped
  <2>. QED
    BY <2>1, <2>2, <2>4, <2>5, RunsAreNew
<1>. QED
  BY <1>1, <1>2

(* One execution moves; it shows itself in its own scenario only.          *)
LEMMA OneRunMoves ==
  ASSUME Showing, NEW x \in Executions, run[x].pc # "none", UNCHANGED <<plan, versions>>,
         Shaped', Carried', Stocked', RunsShaped', Live' = Live,
         \A c \in Callers : At(c, "start")' => At(c, "start"),
         \A y \in Executions \ {x} : run'[y] = run[y],
         \A id \in Live : id # Subject(x) =>
           scenario'[id].status = scenario[id].status /\ (id \in stuck => id \in stuck'),
         Subject(x) \in Live /\ scenario'[Subject(x)].status = "running" =>
           Subject(x) \in stuck' \/ Underway(x)'
             \/ (~ Underway(x) /\ scenario[Subject(x)].status = "running" /\ stuck \subseteq stuck')
  PROVE  Showing'
<1>1. \A y \in Executions : y[1] \in Callers /\ Subject(y)' = Subject(y)
  <2>1. \A y \in Executions : y[1] \in Callers
    BY ONLY TRUE DEF Executions
  <2>2. \A y \in Executions : Subject(y)' = Subject(y)
    BY ONLY UNCHANGED <<plan, versions>> DEF Subject, On, Asked
  <2>. QED
    BY ONLY <2>1, <2>2
<1>2. \A y \in Executions \ {x} : Underway(y)' = Underway(y)
  BY DEF Underway
<1>3. NoneBefore'
  <2>1. NoneBefore
    BY DEF Showing
  <2>2. \A y \in Executions : run'[y].pc # "none" => run[y].pc # "none"
    OBVIOUS
  <2>. QED
    BY ONLY <1>1, <2>1, <2>2, \A c \in Callers : At(c, "start")' => At(c, "start") DEF NoneBefore
<1>4. RunningIsUnderway'
  <2> SUFFICES ASSUME NEW id \in Live, scenario'[id].status = "running", id \notin stuck'
               PROVE  \E y \in Executions : Underway(y)' /\ Subject(y)' = id
    BY DEF RunningIsUnderway
  <2>1. CASE id = Subject(x) /\ Underway(x)'
    BY <1>1, <2>1
  <2>2. CASE id = Subject(x) /\ ~ Underway(x)'
    <3>1. ~ Underway(x) /\ scenario[id].status = "running" /\ id \notin stuck
      BY <2>2
    <3>2. PICK y \in Executions : Underway(y) /\ Subject(y) = id
      BY <3>1 DEF Showing, RunningIsUnderway
    <3>. QED
      BY <1>1, <1>2, <3>1, <3>2
  <2>3. CASE id # Subject(x)
    <3>1. PICK y \in Executions : Underway(y) /\ Subject(y) = id
      BY <2>3 DEF Showing, RunningIsUnderway
    <3>. QED
      BY <1>1, <1>2, <2>3, <3>1
  <2>. QED
    BY <2>1, <2>2, <2>3
<1>. QED
  BY <1>3, <1>4 DEF Showing

LEMMA RunIs ==
  ASSUME RunsShaped, NEW x \in Executions, NEW goal, Goes(x, goal)
  PROVE  RunsShaped' /\ run'[x].pc = goal /\ \A y \in Executions \ {x} : run'[y] = run[y]
BY DEF RunsShaped, Goes

LEMMA RunIsAnew ==
  ASSUME RunsShaped, NEW x \in Executions, NEW goal,
         \/ run' = [run EXCEPT ![x].pc = goal, ![x].doc = scenario[Subject(x)].doc]
         \/ \E passed : run' = [run EXCEPT ![x].pc = goal, ![x].passed = passed]
  PROVE  RunsShaped' /\ run'[x].pc = goal /\ \A y \in Executions \ {x} : run'[y] = run[y]
<1>1. /\ run[x] = [pc |-> run[x].pc, doc |-> run[x].doc, passed |-> run[x].passed]
      /\ run = [y \in Executions |-> run[y]]
  BY DEF RunsShaped
<1>2. /\ \E doc, passed : run'[x] = [pc |-> goal, doc |-> doc, passed |-> passed]
      /\ \A y \in Executions \ {x} : run'[y] = run[y]
      /\ run' = [y \in Executions |-> run'[y]]
  <2>1. CASE run' = [run EXCEPT ![x].pc = goal, ![x].doc = scenario[Subject(x)].doc]
    <3>1. run'[x] = [run[x] EXCEPT !.pc = goal, !.doc = scenario[Subject(x)].doc]
      BY <1>1, <2>1
    <3>2. run'[x] = [pc |-> goal, doc |-> scenario[Subject(x)].doc, passed |-> run[x].passed]
      BY <1>1, <3>1
    <3>. QED
      BY <1>1, <2>1, <3>2
  <2>2. ASSUME NEW passed, run' = [run EXCEPT ![x].pc = goal, ![x].passed = passed]
        PROVE  /\ \E doc, val : run'[x] = [pc |-> goal, doc |-> doc, passed |-> val]
               /\ \A y \in Executions \ {x} : run'[y] = run[y]
               /\ run' = [y \in Executions |-> run'[y]]
    <3>1. run'[x] = [run[x] EXCEPT !.pc = goal, !.passed = passed]
      BY <1>1, <2>2
    <3>2. run'[x] = [pc |-> goal, doc |-> run[x].doc, passed |-> passed]
      BY <1>1, <3>1
    <3>. QED
      BY <1>1, <2>2, <3>2
  <2>. QED
    BY <2>1, <2>2
<1>3. run'[x] = [pc |-> run'[x].pc, doc |-> run'[x].doc, passed |-> run'[x].passed] /\ run'[x].pc = goal
  BY <1>2
<1>4. RunsShaped'
  <2>1. ASSUME NEW y \in Executions \ {x}
        PROVE  run'[y] = [pc |-> run'[y].pc, doc |-> run'[y].doc, passed |-> run'[y].passed]
    <3>1. run'[y] = run[y]
      BY <1>2
    <3>2. run[y] = [pc |-> run[y].pc, doc |-> run[y].doc, passed |-> run[y].passed]
      BY DEF RunsShaped
    <3>. QED
      BY <3>1, <3>2
  <2>. QED
    BY <1>2, <1>3, <2>1 DEF RunsShaped
<1>. QED
  BY <1>2, <1>3, <1>4

LEMMA ShowingOne ==
  ASSUME Showing, NEW id, NEW status, Shows(id, status)
  PROVE  /\ Stocked' /\ Live' = Live
         /\ \A i \in Live \ {id} : scenario'[i].status = scenario[i].status
         /\ id \in Live => scenario'[id].status = status
<1>1. CASE id \notin Live
  BY <1>1 DEF Shows, Showing, Stocked, Live, Pair
<1>2. CASE id \in Live
  <2>1. scenario' = [scenario EXCEPT ![id].status = status]
    BY <1>2 DEF Shows
  <2>2. /\ Live' = Live /\ \A i \in Live \ {id} : scenario'[i] = scenario[i]
        /\ scenario'[id] = [scenario[id] EXCEPT !.status = status]
    BY <1>2, <2>1 DEF Live, Showing, Stocked
  <2>3. scenario'[id] = [doc |-> scenario[id].doc, status |-> status]
    BY <1>2, <2>2 DEF Showing, Stocked, Pair
  <2>4. scenario' = [i \in Live' |-> scenario'[i]] /\ Pair(scenario'[id])
    BY <1>2, <2>1, <2>2, <2>3 DEF Stocked, Live, Showing, Pair
  <2>5. \A i \in Live \ {id} : Pair(scenario'[i])
    BY <2>2 DEF Stocked, Showing
  <2>. QED
    BY <1>2, <2>2, <2>3, <2>4, <2>5 DEF Stocked, Pair
<1>. QED
  BY <1>1, <1>2

LEMMA ExecutionsShow ==
  ASSUME Showing, NEW x \in Executions, Execute(x)
  PROVE  Showing'
<1>1. UNCHANGED <<plan, versions, caller>> /\ Shaped' /\ Carried' /\ run[x].pc # "none"
      /\ \A c \in Callers : At(c, "start")' => At(c, "start")
  <2>1. UNCHANGED <<plan, versions, caller>> /\ run[x].pc # "none"
    BY DEF Execute, Enter, Read, Mark, Engine, Close, Rescue
  <2>. QED
    BY <2>1 DEF Showing, Shaped, Carried, At, Pair
<1>2. CASE Enter(x) \/ Read(x) \/ Engine(x)
  <2>1. /\ UNCHANGED <<scenario, stuck>> /\ Live' = Live /\ Stocked'
        /\ Underway(x) => run[x].pc = "engine"
    BY <1>2 DEF Enter, Read, Engine, history, Live, Showing, Stocked, Pair, Underway
  <2>2. /\ RunsShaped' /\ \A y \in Executions \ {x} : run'[y] = run[y]
        /\ Underway(x) => run'[x].pc = "close"
    <3>1. CASE Enter(x) \/ (Read(x) /\ Goes(x, "over"))
      BY <2>1, <3>1, RunIs DEF Enter, Read, Showing, Underway
    <3>2. CASE Read(x) /\ run' = [run EXCEPT ![x].pc = "mark", ![x].doc = scenario[Subject(x)].doc]
      <4>1. run[x].pc = "read"
        BY <3>2 DEF Read
      <4>. QED
        BY <3>2, <4>1, RunIsAnew DEF Showing, Underway
    <3>3. CASE Engine(x)
      <4>1. PICK passed \in BOOLEAN : run' = [run EXCEPT ![x].pc = "close", ![x].passed = passed]
        BY <3>3 DEF Engine, Verdicts
      <4>. QED
        BY <4>1, RunIsAnew DEF Showing
    <3>. QED
      BY <1>2, <3>1, <3>2, <3>3 DEF Read
  <2>. QED
    BY <1>1, <2>1, <2>2, OneRunMoves DEF Underway
<1>3. CASE Mark(x)
  <2>1. Shows(Subject(x), "running") /\ Goes(x, "engine") /\ UNCHANGED stuck
    BY <1>3 DEF Mark, history
  <2>. QED
    BY <1>1, <2>1, ShowingOne, RunIs, OneRunMoves DEF Underway, Showing
<1>4. CASE Close(x)
  <2>1. PICK status \in {"done", "failed"} : Shows(Subject(x), status)
    BY <1>4 DEF Close
  <2>2. Goes(x, "over") /\ stuck' = stuck \ {Subject(x)}
    BY <1>4 DEF Close
  <2>. QED
    BY <1>1, <2>1, <2>2, ShowingOne, RunIs, OneRunMoves DEF Showing
<1>5. CASE Rescue(x)
  <2>1. Shows(Subject(x), "failed") /\ Goes(x, "over") /\ UNCHANGED stuck
    BY <1>5 DEF Rescue, Rescued, history
  <2>. QED
    BY <1>1, <2>1, ShowingOne, RunIs, OneRunMoves DEF Showing
<1>. QED
  BY <1>2, <1>3, <1>4, <1>5 DEF Execute

LEMMA FaultsOfRunsShow ==
  ASSUME Showing, NEW x \in Executions, FaultOfRun(x)
  PROVE  Showing'
<1>1. /\ UNCHANGED <<scenario, plan, versions>> /\ run[x].pc # "none" /\ Live' = Live /\ Stocked'
      /\ x[1] \in Callers
  BY DEF FaultOfRun, Holds, Live, Showing, Stocked, Pair, Executions
<1>2. \/ Goes(x, "rescue") /\ UNCHANGED <<caller, stuck>>
      \/ /\ Goes(x, "over")
         /\ stuck' = IF Underway(x) THEN stuck \cup {Subject(x)} ELSE stuck
         /\ Ends(x[1], "failed") \/ UNCHANGED caller
  BY DEF FaultOfRun
<1>3. Shaped' /\ Carried' /\ \A c \in Callers : At(c, "start")' => At(c, "start")
  <2>1. CASE UNCHANGED caller
    BY <1>1, <2>1 DEF Showing, Shaped, Carried, At, Pair
  <2>2. CASE Ends(x[1], "failed")
    BY <1>1, <2>2, OnlyTheRequestMoves DEF Showing, Carried
  <2>. QED
    BY <1>2, <2>1, <2>2
<1>4. CASE Goes(x, "rescue") /\ UNCHANGED <<caller, stuck>>
  BY <1>1, <1>3, <1>4, RunIs, OneRunMoves DEF Showing, Underway
<1>5. CASE Goes(x, "over") /\ stuck' = IF Underway(x) THEN stuck \cup {Subject(x)} ELSE stuck
  BY <1>1, <1>3, <1>5, RunIs, OneRunMoves DEF Showing
<1>. QED
  BY <1>2, <1>4, <1>5

LEMMA RestartShows == ASSUME Showing, Restart PROVE Showing'
<1>1. UNCHANGED <<scenario, versions, plan>>
  BY DEF Restart
<1>2. ASSUME NEW c \in Callers
      PROVE  /\ caller'[c].pc = "over" /\ caller'[c].old = caller[c].old
             /\ caller'[c].take = caller[c].take
             /\ caller'[c] = [pc |-> "over", old |-> caller[c].old, take |-> caller[c].take,
                              number |-> caller[c].number, end |-> caller'[c].end]
  <2>1. caller[c] = [pc |-> caller[c].pc, old |-> caller[c].old, take |-> caller[c].take,
                     number |-> caller[c].number, end |-> caller[c].end]
    BY DEF Showing, Shaped
  <2>2. CASE At(c, "over")
    BY <2>1, <2>2 DEF Restart, At
  <2>3. CASE ~ At(c, "over")
    <3>1. caller'[c] = [caller[c] EXCEPT !.pc = "over", !.end = "lost"]
      BY <2>3 DEF Restart
    <3>. QED
      BY <2>1, <3>1
  <2>. QED
    BY <2>2, <2>3
<1>3. Shaped' /\ Carried' /\ NoneBefore'
  <2>1. caller' = [c \in Callers |-> caller'[c]]
    BY DEF Restart
  <2>2. \A c \in Callers : caller'[c].old = caller[c].old /\ caller'[c].take = caller[c].take
    BY <1>2
  <2>3. \A x \in Executions : x[1] \in Callers
    BY DEF Executions
  <2>4. Shaped'
    BY <1>2, <2>1 DEF Shaped
  <2>5. Carried'
    BY <1>1, <2>2 DEF Showing, Carried
  <2>6. NoneBefore'
    BY <1>2, <2>3 DEF NoneBefore, At
  <2>. QED
    BY <2>4, <2>5, <2>6
<1>4. RunsShaped' /\ Stocked'
  <2>1. ASSUME NEW x \in Executions
        PROVE  run'[x] = [pc |-> run'[x].pc, doc |-> run'[x].doc, passed |-> run'[x].passed]
    <3>1. run[x] = [pc |-> run[x].pc, doc |-> run[x].doc, passed |-> run[x].passed]
      BY DEF Showing, RunsShaped
    <3>2. run'[x] = run[x] \/ run'[x] = [run[x] EXCEPT !.pc = "over"]
      BY DEF Restart
    <3>. QED
      BY <3>1, <3>2
  <2>2. run' = [x \in Executions |-> run'[x]]
    BY DEF Restart
  <2>3. Stocked'
    BY <1>1 DEF Showing, Stocked, Live, Pair
  <2>. QED
    BY <2>1, <2>2, <2>3 DEF RunsShaped
<1>5. RunningIsUnderway'
  <2>1. \A x \in Executions : Underway(x) => Subject(x) \in stuck'
    BY DEF Restart
  <2>2. stuck \subseteq stuck'
    BY DEF Restart
  <2>. QED
    BY <1>1, <2>1, <2>2 DEF Showing, RunningIsUnderway, Live
<1>. QED
  BY <1>3, <1>4, <1>5 DEF Showing

(* Every step keeps what is known of the scenarios that show as running.   *)
LEMMA ItAlwaysShows == Spec => []Showing
<1>1. Showing /\ [Next]_vars => Showing'
  <2> SUFFICES ASSUME Showing, [Next]_vars PROVE Showing'
    OBVIOUS
  <2>1. CASE UNCHANGED vars
    <3>1. UNCHANGED <<scenario, versions, plan, caller, run, stuck>>
      BY <2>1 DEF vars, history
    <3>2. /\ Shaped' /\ Carried' /\ Stocked' /\ \A c \in Callers : At(c, "start")' => At(c, "start")
          /\ Live' = Live
      BY <3>1 DEF Showing, Shaped, Carried, Stocked, Live, Pair, At
    <3>. QED
      BY <3>1, <3>2, RequestShows
  <2>2. ASSUME NEW c \in Callers, Ask(c) \/ Continue(c) \/ FaultOfRequest(c)
        PROVE  Showing'
    BY <2>2, RequestsShow, StartsShow DEF Ask
  <2>3. ASSUME NEW x \in Executions, Execute(x) \/ FaultOfRun(x)
        PROVE  Showing'
    BY <2>3, ExecutionsShow, FaultsOfRunsShow
  <2>. QED
    BY <2>1, <2>2, <2>3, RestartShows DEF Next
<1>. QED
  BY <1>1, ShowingAtFirst, PTL DEF Spec

(* A scenario that says it is running has a run under way, unless a single *)
(* run of it broke off, the process restarted, or the status came with a   *)
(* restored version or an import (scenario_service.py:433, :497): however  *)
(* many runs and batches of it cross.                                      *)
THEOREM WhatRunsIsUnderway == Spec => []RunningIsUnderway
<1>1. Showing => RunningIsUnderway
  BY DEF Showing
<1>. QED
  BY <1>1, ItAlwaysShows, PTL
------------------------------------------------------------------------------
(* No request but a creation, an acceptance of what was generated or an    *)
(* import adds a scenario: the writes of an update, a restore and a run    *)
(* (scenario_service.py:112, :169, :428) leave out what was deleted since. *)
LEMMA RequestsInsertNone ==
  ASSUME NEW c \in Callers, Ask(c) \/ Continue(c) \/ FaultOfRequest(c), ~ Create(c)
  PROVE  DOMAIN scenario' \subseteq Live
<1>1. CASE UNCHANGED scenario
  BY <1>1 DEF Live
<1>2. CASE Delete(c)
  BY <1>2 DEF Delete, Without, Live
<1>3. CASE Write(c)
  BY <1>3 DEF Write, Written, Put, Live
<1>. QED
  BY <1>1, <1>2, <1>3 DEF Ask, Update, Restore, Run, Batch, Continue, Number, Keep, Gathered, FaultOfRequest

(* A scenario that was deleted comes back only by a request that creates it *)
(* anew: no update, restore or run writes it again.                         *)
THEOREM WhatIsDeletedStaysOut == Spec => DeletedStaysOut
<1> DEFINE Brings(c, id) == /\ Asked(c).op \in {"create", "import", "generate"} /\ On(c)[1] = id
                            /\ At(c, "start")
<1>1. [Next]_vars => \A id \in Ids : (id \notin Live /\ id \in DOMAIN scenario') =>
        \E c \in Callers : Asked(c).op \in {"create", "import", "generate"} /\ On(c)[1] = id
                           /\ At(c, "start")
  <2> SUFFICES ASSUME [Next]_vars, NEW id \in Ids, id \notin Live, id \in DOMAIN scenario'
               PROVE  \E c \in Callers : Brings(c, id)
    OBVIOUS
  <2>1. CASE UNCHANGED vars
    BY <2>1 DEF vars, Live
  <2>2. CASE Restart
    BY <2>2 DEF Restart, Live
  <2>3. ASSUME NEW x \in Executions, Execute(x) \/ FaultOfRun(x) PROVE FALSE
    <3>1. UNCHANGED scenario \/ \E status : Shows(Subject(x), status)
      BY <2>3 DEF Execute, FaultOfRun, Enter, Read, Mark, Engine, Close, Rescue, Rescued
    <3>. QED
      BY <3>1 DEF Shows, Live
  <2>4. ASSUME NEW c \in Callers, Ask(c) \/ Continue(c) \/ FaultOfRequest(c)
        PROVE  Brings(c, id)
    <3>1. Create(c)
      BY <2>4, RequestsInsertNone
    <3>2. Is(c, "create") \/ Is(c, "import") \/ Is(c, "generate")
      BY <3>1 DEF Create
    <3>3. id = On(c)[1]
      BY <3>1 DEF Create, Put, Live
    <3>. QED
      BY <3>2, <3>3 DEF Is
  <2>. QED
    BY <2>1, <2>2, <2>3, <2>4 DEF Next
<1>. QED
  BY <1>1, PTL DEF Spec, DeletedStaysOut
------------------------------------------------------------------------------
(* Where a search for a cycle along A, over the steps E, finds nothing:    *)
(* in a set that A does not leave, apart from the path V, with no ring.    *)
ClosedUnder(A, X) == \A t \in X : A[t] \subseteq X
Ring(A, D) == D # {} /\ \A t \in D : A[t] \cap D # {}
ClearSet(A, C) == ClosedUnder(A, C) /\ \A D \in SUBSET C : ~ Ring(A, D)
Clear(E, A, s, V) == \E C \in SUBSET (E \ V) : s \in C /\ ClearSet(A, C)
Reach(E, A, d) == {t \in E : \A X \in SUBSET E : (d \in X /\ ClosedUnder(A, X)) => t \in X}

(* What is reached from a step is the least set with it that A does not    *)
(* leave.                                                                  *)
LEMMA ReachIsClosed ==
  ASSUME NEW E, NEW A, \A s \in E : A[s] \subseteq E, NEW d \in E
  PROVE  /\ d \in Reach(E, A, d) /\ ClosedUnder(A, Reach(E, A, d))
         /\ \A X \in SUBSET E : (d \in X /\ ClosedUnder(A, X)) => Reach(E, A, d) \subseteq X
<1>1. d \in Reach(E, A, d)
  BY DEF Reach
<1>2. ClosedUnder(A, Reach(E, A, d))
  BY DEF Reach, ClosedUnder
<1>3. \A X \in SUBSET E : (d \in X /\ ClosedUnder(A, X)) => Reach(E, A, d) \subseteq X
  BY DEF Reach
<1>. QED
  BY <1>1, <1>2, <1>3

(* What is reached from t lies behind one of the steps t waits for.        *)
LEMMA ReachGoesOn ==
  ASSUME NEW E, NEW A, \A s \in E : A[s] \subseteq E, NEW t \in E,
         NEW s \in Reach(E, A, t), s # t
  PROVE  \E u \in A[t] : s \in Reach(E, A, u)
<1> DEFINE X == {t} \cup {v \in E : \E u \in A[t] : v \in Reach(E, A, u)}
<1>1. X \in SUBSET E /\ t \in X
  OBVIOUS
<1>2. ClosedUnder(A, X)
  <2> SUFFICES ASSUME NEW v \in X PROVE A[v] \subseteq X
    BY DEF ClosedUnder
  <2>1. CASE v = t
    <3>1. \A u \in A[t] : u \in E /\ u \in Reach(E, A, u)
      BY ReachIsClosed
    <3>. QED
      BY <2>1, <3>1
  <2>2. CASE v # t
    <3>1. PICK u \in A[t] : v \in Reach(E, A, u)
      BY <2>2
    <3>2. ClosedUnder(A, Reach(E, A, u))
      BY ReachIsClosed
    <3>3. A[v] \subseteq Reach(E, A, u)
      BY <3>1, <3>2 DEF ClosedUnder
    <3>4. A[v] \subseteq E
      BY <1>1
    <3>. QED
      BY <3>1, <3>3, <3>4
  <2>. QED
    BY <2>1, <2>2
<1>3. s \in X
  BY <1>1, <1>2 DEF Reach
<1>. QED
  BY <1>3

(* The equation of the search: s is clear of the path V when it is not on  *)
(* it and all it waits for is clear of the path one step longer.           *)
LEMMA ClearGoesOn ==
  ASSUME NEW E, NEW A, \A t \in E : A[t] \subseteq E, NEW s \in E, NEW V \in SUBSET E,
         Clear(E, A, s, V), NEW d \in A[s]
  PROVE  s \notin V /\ Clear(E, A, d, V \cup {s})
<1>1. PICK C \in SUBSET (E \ V) : s \in C /\ ClearSet(A, C)
  BY DEF Clear
<1> DEFINE R == Reach(E, A, d)
           D == {t \in R : s \in Reach(E, A, t)}
<1>2. d \in C /\ C \subseteq E
  BY <1>1 DEF ClearSet, ClosedUnder
<1>3. d \in R /\ ClosedUnder(A, R) /\ R \subseteq C
  BY <1>1, <1>2, ReachIsClosed DEF ClearSet
<1>4. s \notin R
  <2> SUFFICES ASSUME s \in R PROVE FALSE
    OBVIOUS
  <2>1. s \in D
    BY ReachIsClosed
  <2>2. ASSUME NEW t \in D PROVE A[t] \cap D # {}
    <3>1. CASE t = s
      <4>1. d \in D
        BY <1>3
      <4>. QED
        BY <3>1, <4>1
    <3>2. CASE t # s
      <4>1. t \in E /\ s \in Reach(E, A, t)
        BY <1>2, <1>3
      <4>2. PICK u \in A[t] : s \in Reach(E, A, u)
        BY <3>2, <4>1, ReachGoesOn
      <4>3. u \in R
        BY <1>3 DEF ClosedUnder
      <4>. QED
        BY <4>2, <4>3
    <3>. QED
      BY <3>1, <3>2
  <2>3. Ring(A, D) /\ D \in SUBSET C
    BY <1>3, <2>1, <2>2 DEF Ring
  <2>. QED
    BY <1>1, <2>3 DEF ClearSet
<1>5. ClearSet(A, R)
  BY <1>1, <1>3 DEF ClearSet
<1>6. R \in SUBSET (E \ (V \cup {s}))
  BY <1>1, <1>3, <1>4
<1>. QED
  BY <1>1, <1>3, <1>5, <1>6 DEF Clear

(* And the other way round.                                                *)
LEMMA ClearComesBack ==
  ASSUME NEW E, NEW A, \A t \in E : A[t] \subseteq E, NEW s \in E, NEW V \in SUBSET E,
         s \notin V, \A d \in A[s] : Clear(E, A, d, V \cup {s})
  PROVE  Clear(E, A, s, V)
<1> DEFINE In(X) == X \in SUBSET (E \ (V \cup {s})) /\ ClearSet(A, X)
           C == {s} \cup {t \in E : \E X \in SUBSET E : In(X) /\ t \in X}
<1>1. C \in SUBSET (E \ V) /\ s \in C
  OBVIOUS
<1>2. \A d \in A[s] : d \in C
  BY DEF Clear
<1>3. \A t \in C \ {s} : \E X \in SUBSET C : In(X) /\ t \in X
  OBVIOUS
<1>4. ClosedUnder(A, C)
  BY <1>2, <1>3 DEF ClosedUnder, ClearSet
<1>5. ASSUME NEW D \in SUBSET C, Ring(A, D) PROVE FALSE
  <2>1. CASE D \subseteq {s}
    <3>1. s \in A[s]
      BY <1>5, <2>1 DEF Ring
    <3>2. PICK X \in SUBSET (E \ (V \cup {s})) : s \in X
      BY <3>1 DEF Clear
    <3>. QED
      BY <3>2
  <2>2. CASE ~ (D \subseteq {s})
    <3>1. PICK t \in D : t # s
      BY <2>2
    <3>2. PICK X \in SUBSET C : In(X) /\ t \in X
      BY <1>3, <3>1
    <3>3. Ring(A, D \cap X)
      BY <1>5, <3>1, <3>2 DEF Ring, ClearSet, ClosedUnder
    <3>. QED
      BY <3>2, <3>3 DEF ClearSet
  <2>. QED
    BY <2>1, <2>2
<1>. QED
  BY <1>1, <1>4, <1>5 DEF Clear, ClearSet

(* The search on finitely many steps is determined by its equation, and    *)
(* there is a function that satisfies it.                                  *)
Searches(f, E, A) ==
  f = [V \in SUBSET E |-> {s \in E : s \in V \/ \E d \in A[s] : d \in f[V \cup {s}]}]

(* Over finitely many steps the equation of the search has one solution:   *)
(* the path grows with every call.                                         *)
LEMMA SearchIsUnique ==
  ASSUME NEW E, NEW A, IsFiniteSet(E), \A t \in E : A[t] \subseteq E,
         NEW f, Searches(f, E, A), NEW g, Searches(g, E, A)
  PROVE  \A V \in SUBSET E : f[V] = g[V]
<1> DEFINE T == {X \in SUBSET E : f[E \ X] # g[E \ X]}
<1>1. \A V \in SUBSET E :
        /\ f[V] = {s \in E : s \in V \/ \E d \in A[s] : d \in f[V \cup {s}]}
        /\ g[V] = {s \in E : s \in V \/ \E d \in A[s] : d \in g[V \cup {s}]}
  BY DEF Searches
<1>2. SUFFICES ASSUME T # {} PROVE FALSE
  <2>1. ASSUME NEW V \in SUBSET E, f[V] # g[V] PROVE E \ V \in T
    <3>1. E \ (E \ V) = V
      OBVIOUS
    <3>. QED
      BY <2>1, <3>1
  <2>. QED
    BY <2>1
<1>3. IsWellFoundedOn(StrictSubsetOrdering(E), SUBSET E)
  BY FS_StrictSubsetOrderingWellFounded, FS_FiniteSubsetsOfFinite
<1>4. PICK X \in T : \A Y \in T : ~ (<<Y, X>> \in StrictSubsetOrdering(E))
  <2>1. T \subseteq SUBSET E
    OBVIOUS
  <2> HIDE DEF T
  <2>. QED
    BY <1>2, <1>3, <2>1, WFMin
<1>5. PICK s \in E : ~ (s \in f[E \ X] <=> s \in g[E \ X])
  <2>1. f[E \ X] \subseteq E /\ g[E \ X] \subseteq E /\ f[E \ X] # g[E \ X]
    BY <1>1
  <2>. QED
    BY <2>1
<1>6. s \notin E \ X /\ f[(E \ X) \cup {s}] # g[(E \ X) \cup {s}]
  BY <1>1, <1>5
<1>7. (E \ X) \cup {s} = E \ (X \ {s})
  BY <1>6
<1>8. X \ {s} \in T
  BY <1>6, <1>7
<1>9. <<X \ {s}, X>> \in StrictSubsetOrdering(E)
  BY <1>6 DEF StrictSubsetOrdering
<1>. QED
  BY <1>4, <1>8, <1>9

(* The steps that are not clear of the path solve it.                      *)
LEMMA SearchExists ==
  ASSUME NEW E, NEW A, \A t \in E : A[t] \subseteq E
  PROVE  Searches([V \in SUBSET E |-> {s \in E : ~ Clear(E, A, s, V)}], E, A)
<1> DEFINE f == [V \in SUBSET E |-> {s \in E : ~ Clear(E, A, s, V)}]
<1>1. ASSUME NEW s \in E, NEW V \in SUBSET E
      PROVE  s \in f[V] <=> (s \in V \/ \E d \in A[s] : d \in f[V \cup {s}])
  <2>1. \A d \in A[s] : d \in f[V \cup {s}] <=> ~ Clear(E, A, d, V \cup {s})
    OBVIOUS
  <2>2. ASSUME Clear(E, A, s, V)
        PROVE  s \notin V /\ \A d \in A[s] : Clear(E, A, d, V \cup {s})
    <3>1. s \notin V
      BY <2>2 DEF Clear
    <3>. QED
      BY <2>2, <3>1, ClearGoesOn
  <2>3. (s \notin V /\ \A d \in A[s] : Clear(E, A, d, V \cup {s})) => Clear(E, A, s, V)
    BY ClearComesBack
  <2>4. s \in f[V] <=> ~ Clear(E, A, s, V)
    OBVIOUS
  <2> HIDE DEF f
  <2>. QED
    BY <2>1, <2>2, <2>3, <2>4
<1>2. f = [V \in SUBSET E |-> {s \in E : s \in V \/ \E d \in A[s] : d \in f[V \cup {s}]}]
  <2>1. \A V \in SUBSET E : f[V] \subseteq E
    OBVIOUS
  <2>2. f = [V \in SUBSET E |-> f[V]]
    OBVIOUS
  <2> HIDE DEF f
  <2>3. \A V \in SUBSET E : f[V] = {s \in E : s \in V \/ \E d \in A[s] : d \in f[V \cup {s}]}
    BY <1>1, <2>1
  <2>. QED
    BY <2>2, <2>3
<1>. QED
  BY <1>2 DEF Searches

(* The search of the validation finds a cycle exactly where there is one.  *)
LEMMA CyclesAreFound ==
  ASSUME NEW doc, IsFiniteSet(Nodes(doc))
  PROVE  Cyclic(doc) <=> HasCycle(doc)
<1> DEFINE E == Executable(doc)
           A == Adjacent(doc)
           f == CHOOSE f : Searches(f, E, A)
<1>1. \A t \in E : A[t] = doc.deps[t] \cap E
  BY DEF Adjacent
<1>2. IsFiniteSet(E)
  BY FS_Subset DEF Executable
<1>3. Searches(f, E, A)
  <2>1. \A t \in E : A[t] \subseteq E
    BY <1>1
  <2>2. Searches([V \in SUBSET E |-> {s \in E : ~ Clear(E, A, s, V)}], E, A)
    BY <2>1, SearchExists
  <2>3. \E g : Searches(g, E, A)
    BY <2>2
  <2>. QED
    BY <2>3
<1>4. Cyclic(doc) <=> f[{}] # {}
  BY DEF Cyclic, Searches
<1>5. f[{}] = {s \in E : ~ Clear(E, A, s, {})}
  <2> HIDE DEF E, A, f
  <2> DEFINE g == [V \in SUBSET E |-> {s \in E : ~ Clear(E, A, s, V)}]
  <2>1. \A t \in E : A[t] \subseteq E
    BY <1>1
  <2>2. Searches(g, E, A)
    BY <2>1, SearchExists
  <2>3. g[{}] = {s \in E : ~ Clear(E, A, s, {})}
    OBVIOUS
  <2>4. f[{}] = g[{}]
    <3> HIDE DEF g
    <3>. QED
      BY <1>2, <1>3, <2>1, <2>2, SearchIsUnique
  <2>. QED
    BY <2>3, <2>4
<1>6. HasCycle(doc) <=> \E D \in SUBSET E : Ring(A, D)
  BY <1>1 DEF HasCycle, Ring
<1>7. (\A D \in SUBSET E : ~ Ring(A, D)) => \A s \in E : Clear(E, A, s, {})
  BY <1>1 DEF Clear, ClearSet, ClosedUnder
<1>8. ASSUME NEW D \in SUBSET E, Ring(A, D) PROVE \E s \in E : ~ Clear(E, A, s, {})
  <2>1. PICK s \in D : TRUE
    BY <1>8 DEF Ring
  <2>2. ASSUME Clear(E, A, s, {}) PROVE FALSE
    <3>1. PICK C \in SUBSET E : s \in C /\ ClearSet(A, C)
      BY <2>2 DEF Clear
    <3>2. Ring(A, D \cap C)
      BY <1>8, <2>1, <3>1 DEF Ring, ClearSet, ClosedUnder
    <3>. QED
      BY <3>1, <3>2 DEF ClearSet
  <2>. QED
    BY <2>1, <2>2
<1>. QED
  BY <1>4, <1>5, <1>6, <1>7, <1>8

(* What validates, with no dependency across levels and with start and end *)
(* under their own names, the engine can sort on every level.              *)
LEMMA ValidCanRun ==
  ASSUME NEW doc, IsFiniteSet(Nodes(doc)), Valid(doc), OnItsLevel(doc), MarkersReserved(doc)
  PROVE  Runnable(doc)
<1> SUFFICES ASSUME NEW c, NEW K, K = Level(doc, c) PROVE Sortable(doc.deps, K)
  BY DEF Runnable, Levels
<1>1. KnownDependencies(doc.deps, K)
  BY DEF KnownDependencies, OnItsLevel, Level
<1>2. ASSUME NEW C \in SUBSET K, C # {}, \A s \in C : Counted(doc.deps, s) \cap C # {}
      PROVE  FALSE
  <2> DEFINE D == C \cap Executable(doc)
  <2>1. ASSUME NEW s \in C PROVE doc.deps[s] \cap D # {}
    <3>1. PICK t \in C : t \in Counted(doc.deps, s)
      BY <1>2
    <3>2. t \in Nodes(doc) /\ t \notin Reserved /\ t \in doc.deps[s]
      BY <3>1 DEF Level, Counted
    <3>3. t \in Executable(doc)
      BY <3>2 DEF Executable, MarkersReserved
    <3>. QED
      BY <3>2, <3>3
  <2>2. HasCycle(doc)
    BY <1>2, <2>1 DEF HasCycle
  <2>. QED
    BY <2>2, CyclesAreFound DEF Valid
<1>. QED
  BY <1>1, <1>2 DEF Sortable, Acyclic
------------------------------------------------------------------------------
(* A document is a record of functions on its nodes.                       *)
WellFormed(doc) ==
  /\ doc = [type |-> doc.type, parent |-> doc.parent, deps |-> doc.deps, sound |-> doc.sound]
  /\ doc.type = [s \in Nodes(doc) |-> doc.type[s]]
  /\ doc.parent = [s \in Nodes(doc) |-> doc.parent[s]]
  /\ doc.deps = [s \in Nodes(doc) |-> doc.deps[s]]

(* What adding a step does, and to a document that does not have it.       *)
LEMMA AddedIs ==
  ASSUME NEW doc, NEW s, NEW type, NEW parent, NEW deps, NEW new,
         new = Added(doc, s, type, parent, deps)
  PROVE  /\ WellFormed(new) /\ Nodes(new) = Nodes(doc) \cup {s} /\ new.sound = doc.sound
         /\ new.type[s] = type /\ new.parent[s] = parent /\ new.deps[s] = deps
         /\ \A t \in Nodes(doc) \ {s} : /\ new.type[t] = doc.type[t]
                                        /\ new.parent[t] = doc.parent[t]
                                        /\ new.deps[t] = doc.deps[t]
<1> DEFINE With(f, v) == [n \in Nodes(doc) \cup {s} |-> IF n = s THEN v ELSE f[n]]
<1>1. new = [type |-> With(doc.type, type), parent |-> With(doc.parent, parent),
             deps |-> With(doc.deps, deps), sound |-> doc.sound]
  BY DEF Added
<1>2. /\ new.type = With(doc.type, type) /\ new.parent = With(doc.parent, parent)
      /\ new.deps = With(doc.deps, deps) /\ new.sound = doc.sound
  BY <1>1
<1>3. Nodes(new) = Nodes(doc) \cup {s}
  BY <1>2 DEF Nodes
<1>4. new = [type |-> new.type, parent |-> new.parent, deps |-> new.deps, sound |-> new.sound]
  BY <1>1, <1>2
<1>. QED
  BY <1>2, <1>3, <1>4 DEF WellFormed

LEMMA AddedAnew ==
  ASSUME NEW doc, NEW s, NEW type, NEW parent, NEW deps, NEW new,
         new = Added(doc, s, type, parent, deps), s \notin Nodes(doc)
  PROVE  /\ WellFormed(new) /\ Nodes(new) = Nodes(doc) \cup {s} /\ new.sound = doc.sound
         /\ new.type[s] = type /\ new.parent[s] = parent /\ new.deps[s] = deps
         /\ \A t \in Nodes(doc) : /\ new.type[t] = doc.type[t] /\ new.parent[t] = doc.parent[t]
                                  /\ new.deps[t] = doc.deps[t]
<1>1. Nodes(doc) \ {s} = Nodes(doc)
  OBVIOUS
<1>. QED
  BY <1>1, AddedIs

(* What a step that is added to a document leaves true of it.              *)
Ordered(doc) == Acyclic(doc.deps, Nodes(doc)) /\ DependenciesExist(doc)

(* Adding a step keeps a document acyclic, its parents containers and its  *)
(* dependencies on their level, when the step is new and what it names is  *)
(* there.                                                                  *)
LEMMA AddedStaysOrdered ==
  ASSUME NEW doc, NEW s, NEW type, NEW parent, NEW deps, NEW new,
         new = Added(doc, s, type, parent, deps), s \notin Nodes(doc),
         Ordered(doc), deps \ Reserved \subseteq Nodes(doc)
  PROVE  Ordered(new)
<1>1. /\ Nodes(new) = Nodes(doc) \cup {s} /\ new.deps[s] = deps
      /\ \A t \in Nodes(doc) : new.deps[t] = doc.deps[t]
  BY AddedAnew
<1>2. DependenciesExist(new)
  BY <1>1 DEF Ordered, DependenciesExist
<1>3. ASSUME NEW C \in SUBSET Nodes(new), C # {}
      PROVE  \E t \in C : Counted(new.deps, t) \cap C = {}
  <2>1. CASE C = {s}
    BY <1>1, <2>1 DEF Counted
  <2>2. CASE C # {s}
    <3> DEFINE B == C \ {s}
    <3>1. B \in SUBSET Nodes(doc) /\ B # {}
      BY <1>1, <1>3, <2>2
    <3>2. PICK t \in B : Counted(doc.deps, t) \cap B = {}
      BY <3>1 DEF Ordered, Acyclic
    <3>3. t \in Nodes(doc) /\ Counted(new.deps, t) = Counted(doc.deps, t)
      BY <1>1, <3>1 DEF Counted
    <3>4. s \notin Counted(doc.deps, t)
      BY <3>3 DEF Ordered, DependenciesExist, Counted
    <3>. QED
      BY <3>2, <3>3, <3>4
  <2>. QED
    BY <2>1, <2>2
<1>. QED
  BY <1>2, <1>3 DEF Ordered, Acyclic

LEMMA AddedStaysNested ==
  ASSUME NEW doc, NEW s, NEW type, NEW parent, NEW deps, NEW new,
         new = Added(doc, s, type, parent, deps), s \notin Nodes(doc),
         ParentsAreContainers(doc), parent = Root \/ parent \in Typed(doc, Containers)
  PROVE  ParentsAreContainers(new)
<1>1. /\ Nodes(new) = Nodes(doc) \cup {s} /\ new.parent[s] = parent
      /\ \A t \in Nodes(doc) : new.type[t] = doc.type[t] /\ new.parent[t] = doc.parent[t]
  BY AddedAnew
<1>2. Typed(doc, Containers) \subseteq Typed(new, Containers) /\ s \notin Typed(doc, Containers)
  BY <1>1 DEF Typed
<1>. QED
  BY <1>1, <1>2 DEF ParentsAreContainers

LEMMA AddedStaysLevel ==
  ASSUME NEW doc, NEW s, NEW type, NEW parent, NEW deps, NEW new,
         new = Added(doc, s, type, parent, deps), s \notin Nodes(doc),
         OnItsLevel(doc), deps \ Reserved \subseteq Level(doc, parent)
  PROVE  OnItsLevel(new)
<1>1. /\ Nodes(new) = Nodes(doc) \cup {s} /\ new.parent[s] = parent /\ new.deps[s] = deps
      /\ \A t \in Nodes(doc) : new.deps[t] = doc.deps[t] /\ new.parent[t] = doc.parent[t]
  BY AddedAnew
<1>2. \A c : Level(doc, c) \subseteq Level(new, c)
  BY <1>1 DEF Level
<1>. QED
  BY <1>1, <1>2 DEF OnItsLevel, Counted
------------------------------------------------------------------------------
(* Of some numbers up to N there is a least one. *)
LEMMA Least ==
  ASSUME NEW N \in Nat, NEW T \in SUBSET (0 .. N), T # {}
  PROVE  \E n \in T : \A k \in T : n <= k
<1> DEFINE S == {X \in SUBSET (0 .. N) : \E n \in T : X = 0 .. n}
<1>1. IsWellFoundedOn(StrictSubsetOrdering(0 .. N), SUBSET (0 .. N))
  <2>1. IsFiniteSet(0 .. N)
    BY FS_Interval
  <2>. QED
    BY <2>1, FS_StrictSubsetOrderingWellFounded, FS_FiniteSubsetsOfFinite
<1>2. S \subseteq SUBSET (0 .. N) /\ S # {}
  <2>1. PICK n \in T : TRUE
    OBVIOUS
  <2>2. 0 .. n \in S
    OBVIOUS
  <2>. QED
    BY <2>2
<1>3. PICK X \in S : \A Y \in S : ~ (<<Y, X>> \in StrictSubsetOrdering(0 .. N))
  <2> HIDE DEF S
  <2>. QED
    BY <1>1, <1>2, WFMin
<1>4. PICK n \in T : X = 0 .. n
  OBVIOUS
<1>5. ASSUME NEW k \in T, k < n PROVE FALSE
  <2>1. 0 .. k \in S /\ 0 .. k \subseteq 0 .. n /\ 0 .. k # 0 .. n
    <3>1. n \in 0 .. n /\ n \notin 0 .. k
      BY <1>5
    <3>. QED
      BY <1>5, <3>1
  <2>2. <<0 .. k, X>> \in StrictSubsetOrdering(0 .. N)
    BY <1>4, <2>1 DEF StrictSubsetOrdering
  <2>. QED
    BY <1>3, <2>1, <2>2
<1>. QED
  BY <1>5

(* The number that makes an id fresh exists, and is small.                 *)
LEMMA FreshIs ==
  ASSUME NEW doc, NEW id, NEW m \in Nat, IsFiniteSet(Nodes(doc)), Cardinality(Nodes(doc)) <= m
  PROVE  /\ Fresh(doc, id) \notin Nodes(doc) \cup {Start, End}
         /\ id \notin Nodes(doc) \cup {Start, End} => Fresh(doc, id) = id
         /\ Fresh(doc, id) = id \/ \E n \in 2 .. m + 4 : Fresh(doc, id) = <<id, n>>
<1> DEFINE used == Nodes(doc) \cup {Start, End}
           c == Cardinality(used)
           Free(n) == <<id, n>> \notin used /\ \A k \in 2 .. n - 1 : <<id, k>> \in used
           T == {n \in 2 .. c + 2 : <<id, n>> \notin used}
<1>1. IsFiniteSet(used) /\ c \in Nat /\ c <= m + 2
  <2> DEFINE some == Nodes(doc) \cup {Start}
  <2>1. IsFiniteSet(some) /\ Cardinality(some) <= m + 1 /\ Cardinality(some) \in Nat
    <3>1. Cardinality(Nodes(doc)) \in Nat
      BY FS_CardinalityType
    <3>. QED
      BY <3>1, FS_AddElement
  <2>2. used = some \cup {End}
    OBVIOUS
  <2> HIDE DEF some
  <2>. QED
    BY <2>1, <2>2, FS_AddElement
<1>2. T # {}
  <2> SUFFICES ASSUME T = {} PROVE FALSE
    OBVIOUS
  <2> DEFINE S == 2 .. c + 2
             f == [n \in S |-> <<id, n>>]
  <2>1. \A n \in S : <<id, n>> \in used
    OBVIOUS
  <2>2. f \in [S -> used]
    BY <2>1
  <2>3. IsFiniteSet(S) /\ Cardinality(S) = c + 1
    <3> HIDE DEF c
    <3>1. (c + 2) - 2 + 1 = c + 1 /\ c + 2 \in Int /\ 2 \in Int /\ ~ (2 > c + 2)
      BY <1>1
    <3>2. IsFiniteSet(2 .. c + 2) /\ Cardinality(2 .. c + 2) = (c + 2) - 2 + 1
      BY <3>1, FS_Interval
    <3>. QED
      BY <3>1, <3>2
  <2>4. PICK x \in S, y \in S : x # y /\ f[x] = f[y]
    <3> HIDE DEF f, S, used
    <3>. QED
      BY <1>1, <2>2, <2>3, FS_PigeonHole
  <2>. QED
    BY <2>4
<1>3. PICK n \in T : \A k \in T : n <= k
  <2>1. T \in SUBSET (0 .. c + 2) /\ c + 2 \in Nat
    BY <1>1
  <2> HIDE DEF T
  <2>. QED
    BY <1>2, <2>1, Least
<1>4. n \in 2 .. c + 2 /\ Free(n)
  <2>1. ASSUME NEW k \in 2 .. n - 1, <<id, k>> \notin used PROVE FALSE
    <3>1. k \in 2 .. c + 2 /\ ~ (n <= k)
      BY <1>1
    <3>. QED
      BY <1>3, <2>1, <3>1
  <2>. QED
    BY <2>1
<1>5. Fresh(doc, id) = IF id \notin used THEN id ELSE <<id, CHOOSE k \in 2 .. c + 2 : Free(k)>>
  BY DEF Fresh
<1>6. PICK k \in 2 .. c + 2 : k = (CHOOSE n2 \in 2 .. c + 2 : Free(n2)) /\ Free(k)
  <2> HIDE DEF Free
  <2>. QED
    BY <1>4
<1>7. 2 .. c + 2 \subseteq 2 .. m + 4
  BY <1>1
<1>8. CASE id \notin used
  <2> HIDE DEF used
  <2>. QED
    BY <1>5, <1>8 DEF used
<1>9. CASE id \in used
  <2>1. Fresh(doc, id) = <<id, k>>
    BY <1>5, <1>6, <1>9
  <2>. QED
    BY <1>6, <1>7, <1>9, <2>1
<1>. QED
  BY <1>8, <1>9

(* The three ways to absorb a step.                                        *)
IdOf(made, r) == Fresh(made.doc, IF r.id = Missing THEN <<Type(r), made.read + 1>> ELSE r.id)
DepsOf(made, r) == IF r.deps = Missing THEN DefaultDeps(r, made.last) ELSE r.deps
Skips(made, r) == Type(r) = "end" \/ (Type(r) = "start" /\ Start \in Nodes(made.doc))
Begins(made, r) == Type(r) = "start" /\ Start \notin Nodes(made.doc)
Joins(r) == Type(r) \notin {"start", "end"}
Triple(made) == made = [doc |-> made.doc, last |-> made.last, read |-> made.read]

LEMMA NextIs ==
  ASSUME NEW made, Triple(made)
  PROVE  [made EXCEPT !.read = @ + 1]
           = [doc |-> made.doc, last |-> made.last, read |-> made.read + 1]
BY DEF Triple

(* The three things a step of the answer can come to.                      *)
LEMMA AbsorbSkips ==
  ASSUME NEW made, Triple(made), NEW r, Skips(made, r), NEW after, after = Absorb(made, r)
  PROVE  /\ Triple(after) /\ after.read = made.read + 1
         /\ after.doc = made.doc /\ after.last = made.last
<1>1. after = [made EXCEPT !.read = @ + 1]
  BY DEF Absorb, Skips
<1>. QED
  BY <1>1, NextIs DEF Triple

LEMMA AbsorbBegins ==
  ASSUME NEW made, Triple(made), NEW r, Begins(made, r), NEW after, after = Absorb(made, r)
  PROVE  /\ Triple(after) /\ after.read = made.read + 1
         /\ after.doc = Added(made.doc, Start, "start", r.parent, {}) /\ after.last = made.last
<1>1. after = [[made EXCEPT !.read = @ + 1] EXCEPT !.doc = Added(made.doc, Start, "start", r.parent, {})]
  BY DEF Absorb, Begins
<1>2. after = [doc |-> Added(made.doc, Start, "start", r.parent, {}), last |-> made.last,
               read |-> made.read + 1]
  BY <1>1, NextIs
<1>. QED
  BY <1>2 DEF Triple

LEMMA AbsorbJoins ==
  ASSUME NEW made, Triple(made), NEW r, Joins(r), NEW after, after = Absorb(made, r)
  PROVE  /\ Triple(after) /\ after.read = made.read + 1
         /\ after.doc = Added(made.doc, IdOf(made, r), Type(r), r.parent, DepsOf(made, r))
         /\ after.last = LastTop(r, made.last, IdOf(made, r))
<1> DEFINE joined == Added(made.doc, IdOf(made, r), Type(r), r.parent, DepsOf(made, r))
<1>1. after = [[made EXCEPT !.read = @ + 1] EXCEPT !.doc = joined,
                                                   !.last = LastTop(r, made.last, IdOf(made, r))]
  BY DEF Absorb, Joins, IdOf, DepsOf
<1>2. after = [doc |-> joined, last |-> LastTop(r, made.last, IdOf(made, r)),
               read |-> made.read + 1]
  BY <1>1, NextIs
<1>. QED
  BY <1>2 DEF Triple

LEMMA OneOfThree == ASSUME NEW made, NEW r PROVE Skips(made, r) \/ Begins(made, r) \/ Joins(r)
BY DEF Skips, Begins, Joins
------------------------------------------------------------------------------
(* The steps of an answer, absorbed one after the other.                   *)
Begun(raw) == [doc |-> First(raw), last |-> Start, read |-> 0]
UpTo(f, raw, n) ==
  f = [k \in 0 .. n |-> IF k = 0 THEN Begun(raw) ELSE Absorb(f[k - 1], raw[k])]

(* The recursive function of Absorbed is what its equations say.           *)
LEMMA EachIsAbsorbed ==
  ASSUME NEW raw, NEW N \in Nat
  PROVE  \E f : UpTo(f, raw, N)
<1> DEFINE T == {n \in 0 .. N : ~ \E f : UpTo(f, raw, n)}
<1>1. SUFFICES ASSUME T # {} PROVE FALSE
  OBVIOUS
<1>2. PICK n \in T : \A k \in T : n <= k
  <2>1. T \in SUBSET (0 .. N)
    OBVIOUS
  <2> HIDE DEF T
  <2>. QED
    BY <1>1, <2>1, Least
<1>3. CASE n = 0
  <2> DEFINE f == [k \in 0 .. 0 |-> Begun(raw)]
  <2>1. f = [k \in 0 .. 0 |-> IF k = 0 THEN Begun(raw) ELSE Absorb(f[k - 1], raw[k])]
    <3> HIDE DEF f
    <3>1. f = [k \in 0 .. 0 |-> Begun(raw)] /\ \A k \in 0 .. 0 : k = 0
      BY DEF f
    <3>. QED
      BY <3>1
  <2>. QED
    BY <1>3, <2>1 DEF UpTo
<1>4. CASE n # 0
  <2>1. n - 1 \in 0 .. N /\ n - 1 \notin T
    BY <1>2, <1>4
  <2>2. PICK f : UpTo(f, raw, n - 1)
    BY <2>1
  <2> DEFINE g == [k \in 0 .. n |-> IF k = n THEN Absorb(f[n - 1], raw[n]) ELSE f[k]]
  <2>3. \A k \in 0 .. n - 1 : /\ f[k] = (IF k = 0 THEN Begun(raw) ELSE Absorb(f[k - 1], raw[k]))
                              /\ g[k] = f[k]
    BY <2>2 DEF UpTo
  <2>4. ASSUME NEW k \in 0 .. n
        PROVE  g[k] = IF k = 0 THEN Begun(raw) ELSE Absorb(g[k - 1], raw[k])
    <3>1. CASE k = n
      <4>1. n - 1 \in 0 .. n - 1
        BY <1>4
      <4>2. g[n] = Absorb(f[n - 1], raw[n]) /\ g[n - 1] = f[n - 1]
        BY <2>3, <4>1
      <4>. QED
        BY <1>4, <3>1, <4>2
    <3>2. CASE k # n
      <4>1. k \in 0 .. n - 1 /\ (k # 0 => k - 1 \in 0 .. n - 1)
        BY <3>2
      <4> HIDE DEF g
      <4>. QED
        BY <2>3, <4>1
    <3>. QED
      BY <3>1, <3>2
  <2>5. UpTo(g, raw, n)
    <3>1. g = [k \in 0 .. n |-> g[k]]
      OBVIOUS
    <3> HIDE DEF g
    <3>. QED
      BY <2>4, <3>1 DEF UpTo
  <2>. QED
    BY <2>5
<1>. QED
  BY <1>3, <1>4

LEMMA AbsorbedIs ==
  ASSUME NEW raw, Len(raw) \in Nat
  PROVE  \E made : /\ made[0] = Begun(raw)
                   /\ \A k \in 1 .. Len(raw) : made[k] = Absorb(made[k - 1], raw[k])
                   /\ Absorbed(raw) = made[Len(raw)]
<1> DEFINE made == CHOOSE f : UpTo(f, raw, Len(raw))
<1>1. UpTo(made, raw, Len(raw))
  BY EachIsAbsorbed
<1>2. Absorbed(raw) = made[Len(raw)]
  BY DEF Absorbed, UpTo, Begun
<1>. QED
  <2> HIDE DEF made
  <2>. QED
    BY <1>1, <1>2 DEF UpTo

(* What is made of any answer is a finite document without an end.         *)
Formed(made, n) ==
  /\ Triple(made) /\ made.read = n
  /\ WellFormed(made.doc) /\ made.doc.sound = TRUE /\ End \notin Nodes(made.doc)
  /\ IsFiniteSet(Nodes(made.doc)) /\ Cardinality(Nodes(made.doc)) <= n + 1

LEMMA FormedGrows ==
  ASSUME NEW doc, NEW n \in Nat, NEW s, NEW type, NEW parent, NEW deps, NEW new,
         new = Added(doc, s, type, parent, deps),
         s \notin Nodes(doc), s # End, End \notin Nodes(doc),
         IsFiniteSet(Nodes(doc)), Cardinality(Nodes(doc)) <= n + 1
  PROVE  /\ WellFormed(new) /\ new.sound = doc.sound /\ End \notin Nodes(new)
         /\ IsFiniteSet(Nodes(new)) /\ Cardinality(Nodes(new)) <= (n + 1) + 1
<1>1. WellFormed(new) /\ Nodes(new) = Nodes(doc) \cup {s} /\ new.sound = doc.sound
  BY AddedAnew
<1>2. /\ IsFiniteSet(Nodes(doc) \cup {s})
      /\ Cardinality(Nodes(doc) \cup {s}) = Cardinality(Nodes(doc)) + 1
  BY FS_AddElement
<1>3. Cardinality(Nodes(doc)) \in Nat
  BY FS_CardinalityType
<1>. QED
  BY <1>1, <1>2, <1>3

(* Whatever the answer, the document made of it is finite, and no step is  *)
(* its end yet.                                                            *)
LEMMA FormedAtFirst == ASSUME NEW raw PROVE Formed(Begun(raw), 0)
<1> DEFINE doc == First(raw)
<1>1. Nodes(Empty) = {} /\ WellFormed(Empty) /\ Empty.sound = TRUE
  <2>1. DOMAIN << >> = {}
    OBVIOUS
  <2>2. << >> = [s \in {} |-> << >>[s]]
    OBVIOUS
  <2>. QED
    BY <2>1, <2>2 DEF Empty, Nodes, WellFormed
<1>2. CASE HasStart(raw)
  <2>1. doc = Empty
    BY <1>2 DEF First
  <2>2. IsFiniteSet(Nodes(doc)) /\ Cardinality(Nodes(doc)) <= 0 + 1
    BY <1>1, <2>1, FS_EmptySet
  <2>. QED
    BY <1>1, <2>1, <2>2 DEF Formed, Begun, Triple
<1>3. CASE ~ HasStart(raw)
  <2>1. doc = Added(Empty, Start, "start", Root, {})
    BY <1>3 DEF First
  <2>2. WellFormed(doc) /\ Nodes(doc) = {Start} /\ doc.sound = TRUE
    BY <1>1, <2>1, AddedAnew
  <2>3. IsFiniteSet(Nodes(doc)) /\ Cardinality(Nodes(doc)) <= 0 + 1
    <3>1. IsFiniteSet({Start}) /\ Cardinality({Start}) = 1
      BY FS_Singleton
    <3>. QED
      BY <2>2, <3>1
  <2>. QED
    BY <2>2, <2>3, RepairAssumption DEF Formed, Begun, Triple
<1>. QED
  BY <1>2, <1>3

LEMMA FormedGoesOn ==
  ASSUME NEW made, NEW n \in Nat, Formed(made, n), NEW r, NEW after, after = Absorb(made, r)
  PROVE  Formed(after, n + 1)
<1>1. Triple(after) /\ after.read = n + 1
  BY OneOfThree, AbsorbSkips, AbsorbBegins, AbsorbJoins DEF Formed
<1>0. /\ made.doc.sound = TRUE /\ End \notin Nodes(made.doc)
      /\ IsFiniteSet(Nodes(made.doc)) /\ Cardinality(Nodes(made.doc)) <= n + 1
  BY DEF Formed
<1>2. CASE Skips(made, r)
  <2>1. after.doc = made.doc /\ Cardinality(Nodes(made.doc)) \in Nat
    BY <1>2, AbsorbSkips, FS_CardinalityType DEF Formed
  <2>. QED
    BY <1>1, <2>1 DEF Formed
<1>3. CASE Begins(made, r)
  <2>1. after.doc = Added(made.doc, Start, "start", r.parent, {}) /\ Start \notin Nodes(made.doc)
    BY <1>3, AbsorbBegins DEF Formed, Begins
  <2>2. /\ WellFormed(after.doc) /\ after.doc.sound = made.doc.sound /\ End \notin Nodes(after.doc)
        /\ IsFiniteSet(Nodes(after.doc)) /\ Cardinality(Nodes(after.doc)) <= (n + 1) + 1
    BY <1>0, <2>1, FormedGrows, RepairAssumption
  <2>. QED
    BY <1>1, <2>2 DEF Formed
<1>4. CASE Joins(r)
  <2>1. after.doc = Added(made.doc, IdOf(made, r), Type(r), r.parent, DepsOf(made, r))
    BY <1>4, AbsorbJoins DEF Formed
  <2>2. IdOf(made, r) \notin Nodes(made.doc) /\ IdOf(made, r) # End
    BY FreshIs DEF Formed, IdOf
  <2>3. /\ WellFormed(after.doc) /\ after.doc.sound = made.doc.sound /\ End \notin Nodes(after.doc)
        /\ IsFiniteSet(Nodes(after.doc)) /\ Cardinality(Nodes(after.doc)) <= (n + 1) + 1
    BY <1>0, <2>1, <2>2, FormedGrows
  <2>. QED
    BY <1>1, <2>3 DEF Formed
<1>. QED
  BY <1>2, <1>3, <1>4, OneOfThree

LEMMA AnyAnswerIsFormed ==
  ASSUME NEW raw, Len(raw) \in Nat, NEW made, made[0] = Begun(raw),
         \A k \in 1 .. Len(raw) : made[k] = Absorb(made[k - 1], raw[k])
  PROVE  \A n \in 0 .. Len(raw) : Formed(made[n], n)
<1> DEFINE T == {n \in 0 .. Len(raw) : ~ Formed(made[n], n)}
<1>1. SUFFICES ASSUME T # {} PROVE FALSE
  OBVIOUS
<1>2. PICK n \in T : \A k \in T : n <= k
  <2>1. T \in SUBSET (0 .. Len(raw))
    OBVIOUS
  <2> HIDE DEF T
  <2>. QED
    BY <1>1, <2>1, Least
<1>3. n # 0
  BY FormedAtFirst
<1>4. n \in 1 .. Len(raw) /\ n - 1 \in Nat /\ n - 1 \in 0 .. Len(raw) /\ n - 1 \notin T /\ (n - 1) + 1 = n
  BY <1>2, <1>3
<1>5. Formed(made[n - 1], n - 1) /\ made[n] = Absorb(made[n - 1], raw[n])
  BY <1>4
<1>6. Formed(made[n], n)
  BY <1>4, <1>5, FormedGoesOn
<1>. QED
  BY <1>6

(* Nor does closing it take the finiteness away.                           *)
LEMMA RepairedIsFinite ==
  ASSUME NEW raw, Len(raw) \in Nat
  PROVE  IsFiniteSet(Nodes(Repaired(raw)))
<1> DEFINE doc == Absorbed(raw).doc
           new == Repaired(raw)
<1>1. IsFiniteSet(Nodes(doc)) /\ End \notin Nodes(doc)
  <2>1. PICK made : /\ made[0] = Begun(raw) /\ Absorbed(raw) = made[Len(raw)]
                    /\ \A k \in 1 .. Len(raw) : made[k] = Absorb(made[k - 1], raw[k])
    BY AbsorbedIs
  <2>2. Len(raw) \in 0 .. Len(raw)
    OBVIOUS
  <2>3. Formed(Absorbed(raw), Len(raw))
    BY <2>1, <2>2, AnyAnswerIsFormed
  <2>. QED
    BY <2>3 DEF Formed
<1>2. \/ Nodes(new) = Nodes(doc) \cup {End}
      \/ Nodes(new) = (Nodes(doc) \cup {Step1}) \cup {End}
  <2> DEFINE leaves == Nodes(doc) \ Typed(doc, {"start"} \cup Containers)
             more == Added(doc, Step1, "api", Root, {Start})
             last == Added(doc, End, "end", Root, {Step1})
  <2>1. CASE leaves # {}
    <3>1. new = Added(doc, End, "end", Root, leaves)
      BY <2>1 DEF Repaired, Closed
    <3>. QED
      BY <3>1, AddedIs
  <2>2. CASE leaves = {} /\ Step1 \notin Nodes(doc)
    <3>1. new = Added(more, End, "end", Root, {Step1})
      BY <2>2 DEF Repaired, Closed
    <3>2. Nodes(more) = Nodes(doc) \cup {Step1}
      BY AddedIs
    <3>. QED
      BY <3>1, <3>2, AddedIs
  <2>3. CASE leaves = {} /\ Step1 \in Nodes(doc)
    <3>1. new = [last EXCEPT !.sound = FALSE]
      BY <2>3 DEF Repaired, Closed
    <3>2. Nodes(last) = Nodes(doc) \cup {End} /\ WellFormed(last)
      BY AddedIs
    <3>3. new.type = last.type
      BY <3>1, <3>2 DEF WellFormed
    <3>. QED
      BY <3>2, <3>3 DEF Nodes
  <2>. QED
    BY <2>1, <2>2, <2>3
<1>3. /\ IsFiniteSet(Nodes(doc) \cup {End}) /\ IsFiniteSet(Nodes(doc) \cup {Step1})
      /\ \A S : IsFiniteSet(S) => IsFiniteSet(S \cup {End})
  BY <1>1, FS_AddElement
<1>. QED
  BY <1>2, <1>3
------------------------------------------------------------------------------
(* What is made of the first n steps of a sensible answer.  A name that    *)
(* the answer gives for the first time, and that is made up for no other   *)
(* step, names its own step.                                               *)
Answer(raw) == Len(raw) \in Nat /\ DOMAIN raw = 1 .. Len(raw)
KnownTypes(doc) ==
  \A s \in Nodes(doc) : /\ doc.type[s] \in {"start", "api"} \cup Containers
                        /\ doc.type[s] = "start" <=> s = Start
Given(raw, j) ==
  /\ Joins(raw[j]) /\ raw[j].id \notin MadeUp(raw) \cup {Missing}
  /\ \A i \in 1 .. j - 1 : raw[i].id # raw[j].id
NamesAreKept(raw, doc, n) ==
  \A j \in 1 .. n : Given(raw, j) =>
    raw[j].id \in Nodes(doc) /\ doc.type[raw[j].id] = Type(raw[j])
    /\ doc.parent[raw[j].id] = raw[j].parent
NamesAreKnown(raw, doc, n) ==
  Nodes(doc) \subseteq {Start} \cup {raw[j].id : j \in 1 .. n} \cup MadeUp(raw)
Sane(raw, made, n) ==
  /\ ParentsAreContainers(made.doc) /\ Ordered(made.doc) /\ OnItsLevel(made.doc)
  /\ KnownTypes(made.doc)
  /\ Start \in Nodes(made.doc) \/ \E j \in n + 1 .. Len(raw) : Type(raw[j]) = "start"
  /\ made.last = Start \/ made.last \in Level(made.doc, Root)
  /\ Step1 \in Nodes(made.doc) => made.doc.type[Step1] = "api"
  /\ NamesAreKnown(raw, made.doc, n) /\ NamesAreKept(raw, made.doc, n)

(* The id a step gets is its own or a made up one, and new.                *)
LEMMA IdsAre ==
  ASSUME NEW raw, Answer(raw), NEW k \in 1 .. Len(raw), NEW made, Formed(made, k - 1),
         NEW id, id = IdOf(made, raw[k])
  PROVE  /\ id \notin Nodes(made.doc) \cup {Start, End}
         /\ id \in MadeUp(raw) \/ (raw[k].id # Missing /\ id = raw[k].id)
         /\ raw[k].id \notin Nodes(made.doc) \cup {Start, End, Missing} => id = raw[k].id
<1> DEFINE numbered == {<<Type(raw[j]), j>> : j \in DOMAIN raw}
           ids == {raw[j].id : j \in DOMAIN raw}
           base == IF raw[k].id = Missing THEN <<Type(raw[k]), made.read + 1>> ELSE raw[k].id
<1>1. k \in DOMAIN raw /\ made.read + 1 = k /\ k \in Nat /\ k <= Len(raw)
  BY DEF Answer, Formed
<1>2. base \in numbered \cup ids /\ (raw[k].id = Missing => base \in numbered)
  BY <1>1
<1>3. /\ id \notin Nodes(made.doc) \cup {Start, End}
      /\ base \notin Nodes(made.doc) \cup {Start, End} => id = base
      /\ id = base \/ \E n \in 2 .. k + 4 : id = <<base, n>>
  <2>1. id = Fresh(made.doc, base)
    BY DEF IdOf
  <2>2. IsFiniteSet(Nodes(made.doc)) /\ Cardinality(Nodes(made.doc)) <= k
    BY <1>1 DEF Formed
  <2> HIDE DEF base
  <2>. QED
    BY <1>1, <2>1, <2>2, FreshIs
<1>4. MadeUp(raw) = numbered \cup ((numbered \cup ids) \X (2 .. Len(raw) + 4))
  BY DEF MadeUp
<1>5. 2 .. k + 4 \subseteq 2 .. Len(raw) + 4
  BY <1>1 DEF Answer
<1>6. id \in MadeUp(raw) \/ id = base
  <2> HIDE DEF numbered, ids, base
  <2>. QED
    BY <1>2, <1>3, <1>4, <1>5
<1>. QED
  BY <1>2, <1>3, <1>4, <1>6

(* Sanity holds of the beginning, and each sensible step keeps it.         *)
LEMMA SaneAtFirst ==
  ASSUME NEW raw, Answer(raw), Sensible(raw)
  PROVE  Sane(raw, Begun(raw), 0)
<1> DEFINE doc == First(raw)
<1>1. Nodes(Empty) = {}
  <2>1. DOMAIN << >> = {}
    OBVIOUS
  <2>. QED
    BY <2>1 DEF Empty, Nodes
<1>2. Begun(raw).doc = doc /\ Begun(raw).last = Start
  BY DEF Begun
<1>3. CASE HasStart(raw)
  <2>1. Nodes(doc) = {}
    BY <1>1, <1>3 DEF First
  <2>2. PICK j \in 1 .. Len(raw) : raw[j].type = "start" \/ raw[j].id = Start
    BY <1>3 DEF HasStart, Answer
  <2>3. Type(raw[j]) = "start"
    <3>1. CASE raw[j].id = Start
      BY <3>1 DEF Sensible, Answer
    <3>2. CASE raw[j].id # Start
      <4>1. raw[j].type = "start"
        BY <2>2, <3>2
      <4>2. CASE raw[j].type # Missing
        BY <4>1, <4>2 DEF Type
      <4>3. CASE raw[j].type = Missing
        BY <4>1, <4>3, RepairAssumption
      <4>. QED
        BY <4>2, <4>3
    <3>. QED
      BY <3>1, <3>2
  <2>4. 0 + 1 = 1 /\ j \in 0 + 1 .. Len(raw)
    OBVIOUS
  <2>. QED
    BY <1>2, <2>1, <2>3, <2>4
       DEF Sane, ParentsAreContainers, Ordered, Acyclic, DependenciesExist, OnItsLevel,
           KnownTypes, NamesAreKnown, NamesAreKept
<1>4. CASE ~ HasStart(raw)
  <2>1. doc = Added(Empty, Start, "start", Root, {}) /\ Start \notin Nodes(Empty)
    BY <1>1, <1>4 DEF First
  <2>2. Nodes(doc) = {Start} /\ doc.type[Start] = "start" /\ doc.parent[Start] = Root
        /\ doc.deps[Start] = {}
    BY <1>1, <2>1, AddedAnew
  <2>3. Step1 \notin Nodes(doc)
    BY <2>2, RepairAssumption
  <2>. QED
    BY <1>2, <2>2, <2>3
       DEF Sane, ParentsAreContainers, Ordered, Acyclic, DependenciesExist, OnItsLevel, Counted,
           KnownTypes, NamesAreKnown, NamesAreKept
<1>. QED
  BY <1>3, <1>4

(* A step that joins a sane document joins it sanely.                      *)
LEMMA JoinsSanely ==
  ASSUME NEW raw, Answer(raw), Sensible(raw), NEW k \in 1 .. Len(raw), NEW made,
         Formed(made, k - 1), Sane(raw, made, k - 1), Joins(raw[k])
  PROVE  /\ Type(raw[k]) \in {"api"} \cup Containers
         /\ IdOf(made, raw[k]) = Step1 => Type(raw[k]) = "api"
         /\ raw[k].parent = Root \/ raw[k].parent \in Typed(made.doc, Containers)
         /\ DepsOf(made, raw[k]) \ Reserved \subseteq Level(made.doc, raw[k].parent)
<1>0. k \in DOMAIN raw /\ k - 1 \in Nat
  BY DEF Answer
<1>1. Type(raw[k]) \in {"api"} \cup Containers
  BY <1>0 DEF Sensible, Joins
<1>2. ASSUME IdOf(made, raw[k]) = Step1 PROVE Type(raw[k]) = "api"
  <2>1. raw[k].id = Step1
    BY <1>2, IdsAre DEF Sensible
  <2>2. Type(raw[k]) \notin Containers
    BY <1>0, <2>1 DEF Sensible
  <2>. QED
    BY <1>1, <2>2
<1>3. ASSUME NEW id, NEW j \in Before(raw, k, id), Joins(raw[j])
      PROVE  /\ id \in Nodes(made.doc) /\ made.doc.type[id] = Type(raw[j])
             /\ made.doc.parent[id] = raw[j].parent
  <2>1. j \in 1 .. k - 1 /\ raw[j].id = id /\ Given(raw, j)
    BY <1>3 DEF Before, Given
  <2>. QED
    BY <2>1 DEF Sane, NamesAreKept
<1>4. raw[k].parent = Root \/ raw[k].parent \in Typed(made.doc, Containers)
  <2> SUFFICES ASSUME raw[k].parent # Root PROVE raw[k].parent \in Typed(made.doc, Containers)
    OBVIOUS
  <2>1. PICK j \in Before(raw, k, raw[k].parent) : Type(raw[j]) \in Containers
    BY <1>0 DEF Sensible
  <2>2. Joins(raw[j])
    BY <2>1 DEF Joins, Containers
  <2>. QED
    BY <1>3, <2>1, <2>2 DEF Typed
<1>5. DepsOf(made, raw[k]) \ Reserved \subseteq Level(made.doc, raw[k].parent)
  <2>1. CASE raw[k].deps = Missing
    <3>1. DepsOf(made, raw[k]) = IF raw[k].parent = Root THEN {made.last} ELSE {}
      BY <2>1 DEF DepsOf, DefaultDeps
    <3>2. made.last \in Reserved \/ made.last \in Level(made.doc, Root)
      BY RepairAssumption DEF Sane
    <3>. QED
      BY <3>1, <3>2
  <2>2. CASE raw[k].deps # Missing
    <3>1. DepsOf(made, raw[k]) = raw[k].deps
      BY <2>2 DEF DepsOf
    <3>2. ASSUME NEW d \in raw[k].deps \ Reserved PROVE d \in Level(made.doc, raw[k].parent)
      <4>1. PICK j \in Before(raw, k, d) : /\ Type(raw[j]) \notin {"start", "end"}
                                           /\ raw[j].parent = raw[k].parent
        BY <1>0, <2>2, <3>2 DEF Sensible
      <4>2. Joins(raw[j])
        BY <4>1 DEF Joins
      <4>. QED
        BY <1>3, <4>1, <4>2 DEF Level
    <3>. QED
      BY <3>1, <3>2
  <2>. QED
    BY <2>1, <2>2
<1>. QED
  BY <1>1, <1>2, <1>4, <1>5

(* The names of the answer, when nothing or one more step was made.        *)
LEMMA NamesGoOn ==
  ASSUME NEW raw, NEW n \in Nat, NEW doc, NEW new, Nodes(doc) \subseteq Nodes(new),
         \A s \in Nodes(doc) : new.type[s] = doc.type[s] /\ new.parent[s] = doc.parent[s],
         NamesAreKnown(raw, doc, n), NamesAreKept(raw, doc, n),
         \A s \in Nodes(new) \ Nodes(doc) : s \in {Start, raw[n + 1].id} \cup MadeUp(raw),
         Given(raw, n + 1) =>
           /\ raw[n + 1].id \in Nodes(new) /\ new.type[raw[n + 1].id] = Type(raw[n + 1])
           /\ new.parent[raw[n + 1].id] = raw[n + 1].parent
  PROVE  NamesAreKnown(raw, new, n + 1) /\ NamesAreKept(raw, new, n + 1)
<1>1. 1 .. n + 1 = (1 .. n) \cup {n + 1}
  OBVIOUS
<1>2. NamesAreKnown(raw, new, n + 1)
  BY <1>1 DEF NamesAreKnown
<1>3. NamesAreKept(raw, new, n + 1)
  <2> SUFFICES ASSUME NEW j \in 1 .. n + 1, Given(raw, j)
               PROVE  /\ raw[j].id \in Nodes(new) /\ new.type[raw[j].id] = Type(raw[j])
                      /\ new.parent[raw[j].id] = raw[j].parent
    BY DEF NamesAreKept
  <2>1. CASE j = n + 1
    BY <2>1
  <2>2. CASE j \in 1 .. n
    <3>1. /\ raw[j].id \in Nodes(doc) /\ doc.type[raw[j].id] = Type(raw[j])
          /\ doc.parent[raw[j].id] = raw[j].parent
      BY <2>2 DEF NamesAreKept
    <3>. QED
      BY <3>1
  <2>. QED
    BY <1>1, <2>1, <2>2
<1>. QED
  BY <1>2, <1>3
------------------------------------------------------------------------------
LEMMA SaneGoesOn ==
  ASSUME NEW raw, Answer(raw), Sensible(raw), NEW k \in 1 .. Len(raw), NEW made,
         Formed(made, k - 1), Sane(raw, made, k - 1), NEW after, after = Absorb(made, raw[k])
  PROVE  Sane(raw, after, k)
<1> DEFINE doc == made.doc
           new == after.doc
           n == k - 1
<1>0. k \in DOMAIN raw /\ n \in Nat /\ n + 1 = k /\ k \in n + 1 .. Len(raw)
      /\ n + 1 .. Len(raw) = {k} \cup (k + 1 .. Len(raw))
  BY DEF Answer
<1>1. Triple(made)
  BY DEF Formed
<1>2. CASE Skips(made, raw[k])
  <2>1. new = doc /\ after.last = made.last
    BY <1>1, <1>2, AbsorbSkips
  <2>2. ~ Given(raw, k)
    BY <1>2 DEF Given, Skips, Joins
  <2>3. NamesAreKnown(raw, new, k) /\ NamesAreKept(raw, new, k)
    BY <1>0, <2>1, <2>2, NamesGoOn DEF Sane
  <2>4. Start \in Nodes(new) \/ \E j \in k + 1 .. Len(raw) : Type(raw[j]) = "start"
    BY <1>0, <1>2, <2>1 DEF Sane, Skips
  <2>. QED
    BY <2>1, <2>3, <2>4 DEF Sane
<1>3. CASE Begins(made, raw[k])
  <2>1. new = Added(doc, Start, "start", raw[k].parent, {}) /\ after.last = made.last
    BY <1>1, <1>3, AbsorbBegins
  <2>2. raw[k].parent = Root /\ Start \notin Nodes(doc) /\ ~ Given(raw, k)
    BY <1>0, <1>3 DEF Begins, Sensible, Given, Joins
  <2>3. /\ Nodes(new) = Nodes(doc) \cup {Start} /\ new.type[Start] = "start"
        /\ \A t \in Nodes(doc) : new.type[t] = doc.type[t] /\ new.parent[t] = doc.parent[t]
    BY <2>1, <2>2, AddedAnew
  <2>4. ParentsAreContainers(new) /\ Ordered(new) /\ OnItsLevel(new)
    BY <2>1, <2>2, AddedStaysNested, AddedStaysOrdered, AddedStaysLevel DEF Sane
  <2>5. KnownTypes(new)
    BY <2>2, <2>3 DEF Sane, KnownTypes
  <2>6. NamesAreKnown(raw, new, k) /\ NamesAreKept(raw, new, k)
    BY <1>0, <2>2, <2>3, NamesGoOn DEF Sane
  <2>7. made.last = Start \/ made.last \in Level(new, Root)
    BY <2>3 DEF Sane, Level
  <2>8. Step1 \in Nodes(new) => new.type[Step1] = "api"
    BY <2>3, RepairAssumption DEF Sane
  <2>. QED
    BY <2>1, <2>3, <2>4, <2>5, <2>6, <2>7, <2>8 DEF Sane
<1>4. CASE Joins(raw[k])
  <2> DEFINE id == IdOf(made, raw[k])
  <2>1. /\ new = Added(doc, id, Type(raw[k]), raw[k].parent, DepsOf(made, raw[k]))
        /\ after.last = LastTop(raw[k], made.last, id)
    BY <1>1, <1>4, AbsorbJoins
  <2>2. /\ id \notin Nodes(doc) \cup {Start, End}
        /\ id \in MadeUp(raw) \cup {raw[k].id}
        /\ raw[k].id \notin Nodes(doc) \cup {Start, End, Missing} => id = raw[k].id
    BY IdsAre
  <2>3. /\ Type(raw[k]) \in {"api"} \cup Containers
        /\ id = Step1 => Type(raw[k]) = "api"
        /\ raw[k].parent = Root \/ raw[k].parent \in Typed(doc, Containers)
        /\ DepsOf(made, raw[k]) \ Reserved \subseteq Level(doc, raw[k].parent)
    BY <1>4, JoinsSanely
  <2>4. /\ Nodes(new) = Nodes(doc) \cup {id} /\ new.type[id] = Type(raw[k])
        /\ new.parent[id] = raw[k].parent
        /\ \A t \in Nodes(doc) : new.type[t] = doc.type[t] /\ new.parent[t] = doc.parent[t]
    BY <2>1, <2>2, AddedAnew
  <2>5. ParentsAreContainers(new)
    BY <2>1, <2>2, <2>3, AddedStaysNested DEF Sane
  <2>6. Ordered(new) /\ OnItsLevel(new)
    <3>1. DepsOf(made, raw[k]) \ Reserved \subseteq Nodes(doc)
      BY <2>3 DEF Level
    <3>. QED
      BY <2>1, <2>2, <2>3, <3>1, AddedStaysOrdered, AddedStaysLevel DEF Sane
  <2>7. KnownTypes(new)
    BY <2>2, <2>3, <2>4 DEF Sane, KnownTypes, Containers
  <2>8. Given(raw, k) => raw[k].id = id
    <3> SUFFICES ASSUME Given(raw, k) PROVE raw[k].id = id
      OBVIOUS
    <3>1. raw[k].id # Start /\ raw[k].id # End
      BY <1>0, <1>4 DEF Sensible, Joins
    <3>2. raw[k].id \notin {raw[j].id : j \in 1 .. n} \cup MadeUp(raw) \cup {Missing}
      BY DEF Given
    <3>3. raw[k].id \notin Nodes(doc)
      BY <3>1, <3>2 DEF Sane, NamesAreKnown
    <3>. QED
      BY <2>2, <3>1, <3>2, <3>3
  <2>9. NamesAreKnown(raw, new, k) /\ NamesAreKept(raw, new, k)
    <3>1. \A s \in Nodes(new) \ Nodes(doc) : s \in {Start, raw[k].id} \cup MadeUp(raw)
      BY <2>2, <2>4
    <3>2. Given(raw, k) => /\ raw[k].id \in Nodes(new) /\ new.type[raw[k].id] = Type(raw[k])
                           /\ new.parent[raw[k].id] = raw[k].parent
      BY <2>4, <2>8
    <3>3. Nodes(doc) \subseteq Nodes(new)
      BY <2>4
    <3>4. NamesAreKnown(raw, doc, n) /\ NamesAreKept(raw, doc, n)
      BY DEF Sane
    <3> HIDE DEF id, doc, new, n
    <3>. QED
      BY <1>0, <2>4, <3>1, <3>2, <3>3, <3>4, NamesGoOn
  <2>10. after.last = Start \/ after.last \in Level(new, Root)
    BY <2>1, <2>4 DEF Sane, Level, LastTop
  <2>11. Step1 \in Nodes(new) => new.type[Step1] = "api"
    BY <2>3, <2>4 DEF Sane
  <2>12. Start \in Nodes(new) \/ \E j \in k + 1 .. Len(raw) : Type(raw[j]) = "start"
    BY <1>0, <1>4, <2>4 DEF Sane, Joins
  <2>. QED
    BY <2>5, <2>6, <2>7, <2>9, <2>10, <2>11, <2>12 DEF Sane
<1>. QED
  BY <1>2, <1>3, <1>4, OneOfThree

LEMMA SensibleAnswerIsSane ==
  ASSUME NEW raw, Answer(raw), Sensible(raw), NEW made, made[0] = Begun(raw),
         \A k \in 1 .. Len(raw) : made[k] = Absorb(made[k - 1], raw[k])
  PROVE  Sane(raw, made[Len(raw)], Len(raw))
<1> DEFINE T == {n \in 0 .. Len(raw) : ~ Sane(raw, made[n], n)}
<1>0. Len(raw) \in Nat
  BY DEF Answer
<1>1. SUFFICES ASSUME T # {} PROVE FALSE
  BY <1>0
<1>2. PICK n \in T : \A k \in T : n <= k
  <2>1. T \in SUBSET (0 .. Len(raw))
    OBVIOUS
  <2> HIDE DEF T
  <2>. QED
    BY <1>0, <1>1, <2>1, Least
<1>3. n # 0
  BY SaneAtFirst
<1>4. n \in 1 .. Len(raw) /\ n - 1 \in 0 .. Len(raw) /\ n - 1 \notin T
  BY <1>0, <1>2, <1>3
<1>5. Sane(raw, made[n - 1], n - 1) /\ made[n] = Absorb(made[n - 1], raw[n])
  BY <1>4
<1>6. Formed(made[n - 1], n - 1)
  BY <1>0, <1>4, AnyAnswerIsFormed
<1>7. Sane(raw, made[n], n)
  BY <1>4, <1>5, <1>6, SaneGoesOn
<1>. QED
  BY <1>7
------------------------------------------------------------------------------
(* Dependencies in order leave no cycle, and on their levels sort there.   *)
LEMMA OrderedIsAcyclic ==
  ASSUME NEW doc, Ordered(doc), Executable(doc) \cap Reserved = {}
  PROVE  ~ HasCycle(doc)
<1> SUFFICES ASSUME NEW C \in SUBSET Executable(doc), C # {},
                    \A s \in C : doc.deps[s] \cap C # {}
             PROVE  FALSE
  BY DEF HasCycle
<1>1. C \in SUBSET Nodes(doc)
  BY DEF Executable
<1>2. PICK s \in C : Counted(doc.deps, s) \cap C = {}
  BY <1>1 DEF Ordered, Acyclic
<1>3. PICK d \in C : d \in doc.deps[s]
  OBVIOUS
<1>. QED
  BY <1>2, <1>3 DEF Counted

(* An ordered document can be sorted on each of its levels.                *)
LEMMA OrderedIsRunnable ==
  ASSUME NEW doc, Ordered(doc), OnItsLevel(doc)
  PROVE  Runnable(doc)
<1> SUFFICES ASSUME NEW c, NEW K, K = Level(doc, c) PROVE Sortable(doc.deps, K)
  BY DEF Runnable, Levels
<1>1. K \subseteq Nodes(doc) /\ \A s \in K : Counted(doc.deps, s) \subseteq K
  BY DEF Level, OnItsLevel
<1>. QED
  BY <1>1 DEF Sortable, KnownDependencies, Acyclic, Ordered

(* An end that follows some of the calls completes the document.           *)
LEMMA TheEndCompletes ==
  ASSUME NEW doc, doc.sound = TRUE, End \notin Nodes(doc), Start \in Nodes(doc),
         ParentsAreContainers(doc), Ordered(doc), OnItsLevel(doc), KnownTypes(doc),
         NEW L \in SUBSET Typed(doc, {"api"}), NEW new, new = Added(doc, End, "end", Root, L),
         IsFiniteSet(Nodes(new))
  PROVE  /\ Valid(new)
         /\ (\A s \in Typed(new, {"api"}) : new.parent[s] = Root) => Runnable(new)
<1>1. /\ Nodes(new) = Nodes(doc) \cup {End} /\ new.type[End] = "end" /\ new.sound = doc.sound
      /\ \A t \in Nodes(doc) : new.type[t] = doc.type[t] /\ new.parent[t] = doc.parent[t]
  BY AddedAnew
<1>2. L \subseteq Nodes(doc)
  BY DEF Typed
<1>3. ParentsAreContainers(new) /\ Ordered(new)
  BY <1>2, AddedStaysNested, AddedStaysOrdered
<1>4. Typed(new, {"start"}) = {Start} /\ Typed(new, {"end"}) = {End}
  BY <1>1 DEF KnownTypes, Typed, Containers
<1>5. OneStartOneEnd(new)
  BY <1>4, FS_Singleton DEF OneStartOneEnd
<1>6. Executable(new) \cap Reserved = {}
  BY <1>4, RepairAssumption DEF Executable, Typed
<1>7. ~ Cyclic(new)
  BY <1>3, <1>6, CyclesAreFound, OrderedIsAcyclic
<1>8. Valid(new)
  BY <1>1, <1>3, <1>5, <1>7 DEF Valid, Ordered
<1>9. ASSUME \A s \in Typed(new, {"api"}) : new.parent[s] = Root PROVE Runnable(new)
  <2>1. \A s \in L : doc.parent[s] = Root
    BY <1>1, <1>9 DEF Typed
  <2>2. L \ Reserved \subseteq Level(doc, Root)
    BY <1>2, <2>1 DEF Level
  <2>3. OnItsLevel(new)
    BY <2>2, AddedStaysLevel
  <2>. QED
    BY <1>3, <2>3, OrderedIsRunnable
<1>. QED
  BY <1>8, <1>9

(* What is generated from a sensible answer validates, and the engine can  *)
(* run it when its calls are on the top level.                             *)
LEMMA SensibleIsRepaired ==
  ASSUME NEW raw, Answer(raw), Sensible(raw), NEW new, new = Repaired(raw)
  PROVE  /\ Valid(new)
         /\ (\A s \in Typed(new, {"api"}) : new.parent[s] = Root) => Runnable(new)
<1>1. PICK made : /\ made[0] = Begun(raw) /\ Absorbed(raw) = made[Len(raw)]
                  /\ \A k \in 1 .. Len(raw) : made[k] = Absorb(made[k - 1], raw[k])
  BY AbsorbedIs DEF Answer
<1> DEFINE doc == Absorbed(raw).doc
           leaves == Nodes(doc) \ Typed(doc, {"start"} \cup Containers)
           more == Added(doc, Step1, "api", Root, {Start})
<1>2. Formed(Absorbed(raw), Len(raw)) /\ Sane(raw, Absorbed(raw), Len(raw))
  <2>1. Len(raw) \in Nat /\ Len(raw) \in 0 .. Len(raw)
    BY DEF Answer
  <2>. QED
    BY <1>1, <2>1, AnyAnswerIsFormed, SensibleAnswerIsSane
<1>3. /\ doc.sound = TRUE /\ End \notin Nodes(doc)
      /\ ParentsAreContainers(doc) /\ Ordered(doc) /\ OnItsLevel(doc) /\ KnownTypes(doc)
      /\ Step1 \in Nodes(doc) => doc.type[Step1] = "api"
  BY <1>2 DEF Formed, Sane
<1>4. Start \in Nodes(doc)
  <2>1. Len(raw) + 1 .. Len(raw) = {}
    BY DEF Answer
  <2>. QED
    BY <1>2, <2>1 DEF Sane
<1>5. leaves \in SUBSET Typed(doc, {"api"})
  BY <1>3 DEF KnownTypes, Typed
<1>6. IsFiniteSet(Nodes(new))
  BY RepairedIsFinite DEF Answer
<1>7. CASE leaves # {}
  <2>1. new = Added(doc, End, "end", Root, leaves)
    BY <1>7 DEF Repaired, Closed
  <2> HIDE DEF doc, leaves
  <2>. QED
    BY <1>3, <1>4, <1>5, <1>6, <2>1, TheEndCompletes
<1>8. CASE leaves = {}
  <2>1. Step1 \notin Nodes(doc)
    BY <1>3, <1>8 DEF Typed, Containers
  <2>2. new = Added(more, End, "end", Root, {Step1})
    BY <1>8, <2>1 DEF Repaired, Closed
  <2>3. /\ Nodes(more) = Nodes(doc) \cup {Step1} /\ more.sound = doc.sound
        /\ more.type[Step1] = "api" /\ \A t \in Nodes(doc) : more.type[t] = doc.type[t]
    BY <2>1, AddedAnew
  <2>4. ParentsAreContainers(more) /\ Ordered(more) /\ OnItsLevel(more)
    <3>1. {Start} \ Reserved = {}
      BY RepairAssumption
    <3>. QED
      BY <1>3, <2>1, <3>1, AddedStaysNested, AddedStaysOrdered, AddedStaysLevel
  <2>5. /\ more.sound = TRUE /\ End \notin Nodes(more) /\ Start \in Nodes(more)
        /\ KnownTypes(more) /\ {Step1} \in SUBSET Typed(more, {"api"})
    BY <1>3, <1>4, <2>3, RepairAssumption DEF KnownTypes, Typed
  <2> HIDE DEF more
  <2>. QED
    BY <1>6, <2>2, <2>4, <2>5, TheEndCompletes
<1>. QED
  BY <1>7, <1>8
------------------------------------------------------------------------------
(* Whatever is a document somewhere, in a scenario, in a version or in the *)
(* hands of a request that saves one, has finitely many steps.             *)
Finite(doc) == IsFiniteSet(Nodes(doc))
Saving(c) == At(c, "number") \/ At(c, "keep") \/ At(c, "write")
InHand(c) == Finite(caller[c].old.doc) /\ Finite(caller[c].take.doc)
Stored == \A id \in Live : Finite(scenario[id].doc)
Held == \A c \in Callers : Saving(c) => InHand(c)
DocsListed ==
  /\ plan \in Plans /\ Stored /\ Held
  /\ \A v \in versions : Finite(v.was.doc)

LEMMA DocsListedAtFirst == Init => DocsListed
<1> SUFFICES ASSUME Init PROVE DocsListed
  OBVIOUS
<1>1. plan \in Plans /\ versions = {} /\ Held
  BY DEF Init, Held, Saving, At
<1>2. Stored
  BY <1>1, StoreAssumption DEF Init, Stored, Live, Finite
<1>. QED
  BY <1>1, <1>2 DEF DocsListed

(* What a request brings, for a scenario or to replace one, is a list.     *)
LEMMA WhatIsBroughtIsListed ==
  ASSUME plan \in Plans, NEW c \in Callers
  PROVE  /\ (Is(c, "create") \/ Is(c, "import") \/ Is(c, "generate")) => Finite(Brought(c))
         /\ Is(c, "update") => Finite(Asked(c).doc)
         /\ Is(c, "generate") => Answer(Asked(c).doc)
<1>1. Listed(Asked(c))
  BY StoreAssumption DEF Asked
<1>2. ASSUME Is(c, "generate") PROVE Answer(Asked(c).doc)
  <2>1. Asked(c).doc \in Seq(ToSet(Asked(c).doc))
    BY <1>1, <1>2 DEF Listed, Is
  <2>. QED
    BY <2>1 DEF Answer
<1>3. CASE Is(c, "generate")
  <2>1. Brought(c) = Repaired(Asked(c).doc) /\ Asked(c).op = "generate"
    BY <1>3 DEF Brought, Is
  <2>2. Finite(Brought(c))
    BY <1>2, <1>3, <2>1, RepairedIsFinite DEF Finite, Answer
  <2>. QED
    BY <1>2, <1>3, <2>1, <2>2 DEF Is
<1>4. CASE ~ Is(c, "generate")
  BY <1>1, <1>4 DEF Brought, Is, Listed, Finite
<1>. QED
  BY <1>3, <1>4

(* A request moves; what it holds, if it saves, it held or has just taken. *)
LEMMA HandsStay ==
  ASSUME Shaped, Held, NEW c \in Callers,
         \/ \E goal : Moves(c, goal) /\ (goal = "gather" \/ Saving(c))
         \/ \E how : Ends(c, how)
         \/ \E n : Saving(c) /\ caller' = [caller EXCEPT ![c].pc = "keep", ![c].number = n]
  PROVE  Held'
<1>1. /\ caller[c] = [pc |-> caller[c].pc, old |-> caller[c].old, take |-> caller[c].take,
                      number |-> caller[c].number, end |-> caller[c].end]
      /\ caller = [d \in Callers |-> caller[d]]
  BY DEF Shaped
<1>2. /\ caller'[c].old = caller[c].old /\ caller'[c].take = caller[c].take
      /\ Saving(c)' => Saving(c)
  <2>1. ASSUME NEW goal, Moves(c, goal), goal = "gather" \/ Saving(c)
        PROVE  /\ caller'[c].old = caller[c].old /\ caller'[c].take = caller[c].take
               /\ Saving(c)' => Saving(c)
    <3>1. caller'[c] = [caller[c] EXCEPT !.pc = goal]
      BY <1>1, <2>1 DEF Moves
    <3>. QED
      BY <1>1, <2>1, <3>1 DEF Saving, At
  <2>2. ASSUME NEW how, Ends(c, how)
        PROVE  /\ caller'[c].old = caller[c].old /\ caller'[c].take = caller[c].take
               /\ ~ Saving(c)'
    <3>1. caller'[c] = [caller[c] EXCEPT !.pc = "over", !.end = how]
      BY <1>1, <2>2 DEF Ends
    <3>. QED
      BY <1>1, <3>1 DEF Saving, At
  <2>3. ASSUME NEW n, Saving(c), caller' = [caller EXCEPT ![c].pc = "keep", ![c].number = n]
        PROVE  caller'[c].old = caller[c].old /\ caller'[c].take = caller[c].take
    <3>1. caller'[c] = [caller[c] EXCEPT !.pc = "keep", !.number = n]
      BY <1>1, <2>3
    <3>. QED
      BY <1>1, <3>1
  <2>. QED
    BY <2>1, <2>2, <2>3
<1>3. \A d \in Callers \ {c} : caller'[d] = caller[d]
  BY <1>1 DEF Moves, Ends
<1>4. \A d \in Callers : InHand(d)' = InHand(d) /\ (Saving(d)' => Saving(d))
  BY <1>2, <1>3 DEF InHand, Saving, At
<1>. QED
  BY <1>4 DEF Held

(* A request that looks takes two documents in hand.                       *)
LEMMA HandsTake ==
  ASSUME Shaped, Held, NEW c \in Callers, NEW old, NEW take, Looks(c, old, take),
         Finite(old.doc), Finite(take.doc)
  PROVE  Held'
<1>1. /\ caller[c] = [pc |-> caller[c].pc, old |-> caller[c].old, take |-> caller[c].take,
                      number |-> caller[c].number, end |-> caller[c].end]
      /\ caller = [d \in Callers |-> caller[d]]
  BY DEF Shaped
<1>2. caller'[c] = [caller[c] EXCEPT !.pc = "number", !.old = old, !.take = take]
  BY <1>1 DEF Looks
<1>3. caller'[c].old = old /\ caller'[c].take = take
  BY <1>1, <1>2
<1>4. \A d \in Callers \ {c} : caller'[d] = caller[d]
  BY <1>1 DEF Looks
<1>. QED
  BY <1>3, <1>4 DEF Held, InHand, Saving, At

LEMMA RequestsList ==
  ASSUME Showing, DocsListed, NEW c \in Callers, Ask(c) \/ Continue(c) \/ FaultOfRequest(c)
  PROVE  DocsListed'
<1> USE DEF history
<1>0. Shaped /\ Held /\ Stored /\ plan \in Plans
  BY DEF Showing, DocsListed
<1>1. CASE Create(c)
  <2>1. UNCHANGED <<plan, versions>> /\ \E how : Ends(c, how)
    BY <1>1 DEF Create
  <2>2. Stored'
    <3>1. CASE UNCHANGED scenario
      BY <1>0, <3>1 DEF Stored, Live
    <3>2. CASE ~ UNCHANGED scenario
      <4> DEFINE id == On(c)[1]
                 brought == [doc |-> Brought(c),
                             status |-> IF Is(c, "import") THEN "running" ELSE "draft"]
      <4>1. scenario' = Put(id, brought)
        BY <1>1, <3>2 DEF Create
      <4>2. /\ Live' = Live \cup {id} /\ scenario'[id] = brought
            /\ \A i \in Live \ {id} : scenario'[i] = scenario[i]
        BY <4>1 DEF Put, Live
      <4>3. Finite(brought.doc)
        BY <1>0, <1>1, WhatIsBroughtIsListed DEF Create
      <4>. QED
        BY <1>0, <4>2, <4>3 DEF Stored
    <3>. QED
      BY <3>1, <3>2
  <2>. QED
    BY <1>0, <2>1, <2>2, HandsStay DEF DocsListed
<1>2. CASE Delete(c)
  <2>1. UNCHANGED <<plan, versions>> /\ \E how : Ends(c, how)
    BY <1>2 DEF Delete
  <2>2. Stored'
    BY <1>0, <1>2 DEF Delete, Without, Stored, Live
  <2>. QED
    BY <1>0, <2>1, <2>2, HandsStay DEF DocsListed
<1>3. CASE Update(c)
  <2>1. UNCHANGED <<scenario, plan, versions>>
    BY <1>3 DEF Update
  <2>2. Held'
    <3>1. CASE \E how : Ends(c, how)
      BY <1>0, <3>1, HandsStay
    <3>2. CASE ~ \E how : Ends(c, how)
      <4> DEFINE take == [doc |-> Asked(c).doc, status |-> None]
      <4>1. Is(c, "update") /\ On(c)[1] \in Live /\ Looks(c, scenario[On(c)[1]], take)
        BY <1>3, <3>2 DEF Update
      <4>2. Finite(take.doc) /\ Finite(scenario[On(c)[1]].doc)
        BY <1>0, <4>1, WhatIsBroughtIsListed DEF Stored
      <4> HIDE DEF take
      <4>. QED
        BY <1>0, <4>1, <4>2, HandsTake
    <3>. QED
      BY <3>1, <3>2
  <2>. QED
    BY <1>0, <2>1, <2>2 DEF DocsListed, Stored, Live
<1>4. CASE Restore(c)
  <2>1. UNCHANGED <<scenario, plan, versions>>
    BY <1>4 DEF Restore
  <2>2. Held'
    <3>1. CASE \E how : Ends(c, how)
      BY <1>0, <3>1, HandsStay
    <3>2. CASE ~ \E how : Ends(c, how)
      <4>1. On(c)[1] \in Live /\ \E v \in Kept(On(c)[1]) : Looks(c, scenario[On(c)[1]], v.was)
        BY <1>4, <3>2 DEF Restore
      <4>2. PICK v \in versions : Looks(c, scenario[On(c)[1]], v.was)
        BY <4>1 DEF Kept
      <4>3. Finite(v.was.doc) /\ Finite(scenario[On(c)[1]].doc)
        BY <1>0, <4>1 DEF Stored, DocsListed
      <4>. QED
        BY <1>0, <4>2, <4>3, HandsTake
    <3>. QED
      BY <3>1, <3>2
  <2>. QED
    BY <1>0, <2>1, <2>2 DEF DocsListed, Stored, Live
<1>5. CASE Run(c) \/ Batch(c) \/ Number(c) \/ Gathered(c) \/ FaultOfRequest(c)
  <2>1. UNCHANGED <<scenario, plan, versions>>
    BY <1>5 DEF Run, Batch, Number, Gathered, FaultOfRequest
  <2>2. \/ Moves(c, "gather") \/ \E how : Ends(c, how)
        \/ \E n : Saving(c) /\ caller' = [caller EXCEPT ![c].pc = "keep", ![c].number = n]
    BY <1>5 DEF Run, Batch, Number, Gathered, FaultOfRequest, AfterFault, Saving
  <2>3. Held'
    BY <1>0, <2>2, HandsStay
  <2>. QED
    BY <1>0, <2>1, <2>3 DEF DocsListed, Stored, Live
<1>6. CASE Keep(c)
  <2> DEFINE kept == [of |-> On(c)[1], number |-> caller[c].number, was |-> caller[c].old, by |-> c]
  <2>1. /\ UNCHANGED <<scenario, plan>> /\ Saving(c) /\ Moves(c, "write")
        /\ versions' = versions \cup {kept}
    BY <1>6 DEF Keep, Saving
  <2>2. Finite(kept.was.doc)
    BY <1>0, <2>1 DEF Held, InHand
  <2>3. \A v \in versions' : Finite(v.was.doc)
    <3> HIDE DEF kept
    <3>. QED
      BY <2>1, <2>2 DEF DocsListed
  <2>4. Held'
    BY <1>0, <2>1, HandsStay
  <2>. QED
    BY <1>0, <2>1, <2>3, <2>4 DEF DocsListed, Stored, Live
<1>7. CASE Write(c)
  <2>1. UNCHANGED <<plan, versions>> /\ (\E how : Ends(c, how)) /\ Saving(c)
    BY <1>7 DEF Write, Saving
  <2>2. Stored'
    <3> DEFINE id == On(c)[1]
               take == caller[c].take
    <3>1. Finite(take.doc) /\ scenario' = Written(c, id)
      BY <1>0, <1>7, <2>1 DEF Held, InHand, Write
    <3>2. CASE id \notin Live
      BY <1>0, <3>1, <3>2 DEF Written, Stored, Live
    <3>3. CASE id \in Live /\ take.status # None
      <4>1. scenario' = Put(id, take)
        BY <3>1, <3>3 DEF Written
      <4>2. Live' = Live /\ scenario'[id] = take /\ \A i \in Live \ {id} : scenario'[i] = scenario[i]
        BY <3>3, <4>1 DEF Put, Live
      <4>. QED
        BY <1>0, <3>1, <4>2 DEF Stored
    <3>4. CASE id \in Live /\ take.status = None
      <4>1. scenario' = [scenario EXCEPT ![id].doc = take.doc]
        BY <3>1, <3>4 DEF Written
      <4>2. /\ Live' = Live /\ \A i \in Live \ {id} : scenario'[i] = scenario[i]
            /\ scenario'[id] = [scenario[id] EXCEPT !.doc = take.doc]
        BY <3>4, <4>1 DEF Live, Showing, Stocked
      <4>3. scenario'[id] = [doc |-> take.doc, status |-> scenario[id].status]
        BY <3>4, <4>2 DEF Showing, Stocked, Pair
      <4>. QED
        BY <1>0, <3>1, <4>2, <4>3 DEF Stored
    <3>. QED
      BY <3>2, <3>3, <3>4
  <2>. QED
    BY <1>0, <2>1, <2>2, HandsStay DEF DocsListed
<1>. QED
  BY <1>1, <1>2, <1>3, <1>4, <1>5, <1>6, <1>7 DEF Ask, Continue

(* A run writes the status of its scenario, never the document.            *)
LEMMA RunsList ==
  ASSUME Showing, DocsListed, NEW x \in Executions, Execute(x) \/ FaultOfRun(x)
  PROVE  DocsListed'
<1>1. UNCHANGED <<plan, versions>> /\ (UNCHANGED scenario \/ \E status : Shows(Subject(x), status))
  BY DEF Execute, FaultOfRun, Enter, Read, Mark, Engine, Close, Rescue, Rescued, history
<1>2. UNCHANGED caller \/ Ends(x[1], "failed")
  BY DEF Execute, FaultOfRun, Enter, Read, Mark, Engine, Close, Rescue, history
<1>3. Held'
  <2>1. CASE UNCHANGED caller
    BY <2>1 DEF DocsListed, Held, Saving, InHand, At
  <2>2. CASE Ends(x[1], "failed")
    <3>1. x[1] \in Callers
      BY DEF Executions
    <3>. QED
      BY <2>2, <3>1, HandsStay DEF Showing, DocsListed
  <2>. QED
    BY <1>2, <2>1, <2>2
<1>4. Stored'
  <2>1. CASE UNCHANGED scenario
    BY <2>1 DEF DocsListed, Stored, Live
  <2>2. ASSUME NEW status, Shows(Subject(x), status), Subject(x) \in Live
        PROVE  Stored'
    <3> DEFINE id == Subject(x)
    <3>1. scenario' = [scenario EXCEPT ![id].status = status]
      BY <2>2 DEF Shows
    <3>2. /\ Live' = Live /\ \A i \in Live \ {id} : scenario'[i] = scenario[i]
          /\ scenario'[id] = [scenario[id] EXCEPT !.status = status]
      BY <2>2, <3>1 DEF Live, Showing, Stocked
    <3>3. scenario'[id] = [doc |-> scenario[id].doc, status |-> status]
      BY <2>2, <3>2 DEF Showing, Stocked, Pair
    <3>. QED
      BY <2>2, <3>2, <3>3 DEF DocsListed, Stored
  <2>. QED
    BY <1>1, <2>1, <2>2 DEF Shows
<1>. QED
  BY <1>1, <1>3, <1>4 DEF DocsListed

(* A restart leaves the documents as they are, and no request in hand.     *)
LEMMA RestartLists == ASSUME Showing, DocsListed, Restart PROVE DocsListed'
<1>1. UNCHANGED <<scenario, plan, versions>>
  BY DEF Restart
<1>2. \A c \in Callers : ~ Saving(c)'
  <2> SUFFICES ASSUME NEW c \in Callers PROVE caller'[c].pc = "over"
    BY DEF Saving, At
  <2>1. caller[c] = [pc |-> caller[c].pc, old |-> caller[c].old, take |-> caller[c].take,
                     number |-> caller[c].number, end |-> caller[c].end]
    BY DEF Showing, Shaped
  <2>2. CASE At(c, "over")
    BY <2>2 DEF Restart, At
  <2>3. CASE ~ At(c, "over")
    <3>1. caller'[c] = [caller[c] EXCEPT !.pc = "over", !.end = "lost"]
      BY <2>3 DEF Restart
    <3>. QED
      BY <2>1, <3>1
  <2>. QED
    BY <2>2, <2>3
<1>. QED
  BY <1>1, <1>2 DEF DocsListed, Stored, Held, Live

(* So all documents are finite, always.                                    *)
LEMMA DocsAreListed == Spec => []DocsListed
<1>1. Showing /\ DocsListed /\ [Next]_vars => DocsListed'
  <2> SUFFICES ASSUME Showing, DocsListed, [Next]_vars PROVE DocsListed'
    OBVIOUS
  <2>1. CASE UNCHANGED vars
    BY <2>1 DEF vars, history, DocsListed, Stored, Held, Saving, InHand, At, Live
  <2>. QED
    BY <2>1, RequestsList, RunsList, RestartLists DEF Next
<1>. QED
  BY <1>1, ItAlwaysShows, DocsListedAtFirst, PTL DEF Spec

(* The search for cycles of the validation finds a cycle exactly where     *)
(* there is one, and what it lets run, with no dependency across levels    *)
(* and with start and end under their own names, the engine can sort on    *)
(* every level (scenario_service.py validate_scenario_doc), whatever the   *)
(* documents.                                                              *)
THEOREM WhatValidatesRuns == Spec => []ValidIsRunnable
<1>1. DocsListed => ValidIsRunnable
  <2> SUFFICES ASSUME DocsListed, NEW id \in Live, NEW doc, doc = scenario[id].doc
               PROVE  /\ Cyclic(doc) = HasCycle(doc)
                      /\ (Valid(doc) /\ OnItsLevel(doc) /\ MarkersReserved(doc)) => Runnable(doc)
    BY DEF ValidIsRunnable
  <2>1. IsFiniteSet(Nodes(doc))
    BY DEF DocsListed, Stored, Finite
  <2>2. Cyclic(doc) <=> HasCycle(doc)
    BY <2>1, CyclesAreFound
  <2>3. Cyclic(doc) \in BOOLEAN /\ HasCycle(doc) \in BOOLEAN
    BY DEF Cyclic, HasCycle
  <2>. QED
    BY <2>1, <2>2, <2>3, ValidCanRun
<1>. QED
  BY <1>1, DocsAreListed, PTL

(* What the analyzer makes of a sensible answer of the language model      *)
(* validates, and the engine can sort it on every level when its calls are *)
(* on the top one (analyzer.py _normalize_scenario_graph): however long    *)
(* the answer.                                                             *)
THEOREM WhatIsGeneratedRuns == Spec => []GeneratedIsRunnable
<1>1. DocsListed => GeneratedIsRunnable
  <2> SUFFICES ASSUME DocsListed, NEW c \in Callers, Is(c, "generate"), Sensible(Asked(c).doc)
               PROVE  LET doc == Repaired(Asked(c).doc) IN
                      /\ Valid(doc)
                      /\ (\A s \in Typed(doc, {"api"}) : doc.parent[s] = Root) => Runnable(doc)
    BY DEF GeneratedIsRunnable
  <2>1. PICK raw : raw = Asked(c).doc
    OBVIOUS
  <2>2. Answer(raw) /\ Sensible(raw)
    BY <2>1, WhatIsBroughtIsListed DEF DocsListed
  <2>3. PICK new : new = Repaired(raw)
    OBVIOUS
  <2>. QED
    BY <2>1, <2>2, <2>3, SensibleIsRepaired
<1>. QED
  BY <1>1, DocsAreListed, PTL

------------------------------------------------------------------------------
(* The sort into waves, for every finite level and every graph: that Kahn's *)
(* counters lay it out as WaveOrder says, and what WaveOrder promises.      *)

LEMMA SameGraphs ==
  /\ \A D, s : Order!Counted(D, s) = Counted(D, s)
  /\ \A D, K : Order!KnownDependencies(D, K) <=> KnownDependencies(D, K)
  /\ \A D, K : Order!Acyclic(D, K) <=> Acyclic(D, K)
  /\ \A D, K, P : Order!Frontier(D, K, P) = Frontier(D, K, P)
<1>1. \A D, s : Order!Counted(D, s) = Counted(D, s)
  BY DEF Order!Counted, Counted
<1>. QED
  BY <1>1 DEF Order!KnownDependencies, KnownDependencies, Order!Acyclic, Acyclic,
              Order!Frontier, Frontier
------------------------------------------------------------------------------
(* Counting edges. *)

(* The mentions of d in the list of s, as edges. *)
From(s, d) == {e \in EdgesInto(s) : e[1] = d}
(* The edges into s from outside P. *)
Left(s, P) == {e \in EdgesInto(s) : e[1] \notin P}
SortTyped == mentions \in [Step -> Lists] /\ inDegree \in [Step -> Nat]

LEMMA EdgesAre ==
  ASSUME SortTyped, NEW s \in Step, NEW d \in Step
  PROVE  /\ Edges(s, d) \in 0..Most
         /\ Edges(s, d) > 0 <=> d \in Counted(DependsOn, s)
<1>1. mentions[s] \in [Name -> 0..Most] /\ d \in Name
  BY DEF SortTyped, Lists, Name
<1>. QED
  BY <1>1, SortAssumption DEF Edges, Counted, DependsOn

LEMMA EdgesAreFinite ==
  ASSUME NEW s \in Step, NEW E \in SUBSET EdgesInto(s)
  PROVE  IsFiniteSet(E) /\ Cardinality(E) \in Nat
<1>1. IsFiniteSet(1..Most)
  BY SortAssumption, FS_Interval
<1>2. IsFiniteSet(Step \X (1..Most))
  BY <1>1, SortAssumption, FS_Product
<1>3. E \in SUBSET (Step \X (1..Most))
  BY DEF EdgesInto
<1>4. IsFiniteSet(E)
  BY <1>2, <1>3, FS_Subset
<1>. QED
  BY <1>4, FS_CardinalityType

LEMMA FromCounts ==
  ASSUME SortTyped, NEW s \in Step, NEW d \in Step
  PROVE  Cardinality(From(s, d)) = Edges(s, d)
<1>1. PICK k \in 0..Most : k = Edges(s, d)
  BY EdgesAre
<1>2. IsFiniteSet(1..k) /\ Cardinality(1..k) = k
  BY <1>1, SortAssumption, FS_Interval
<1> DEFINE f == [i \in 1..k |-> <<d, i>>]
<1>3. From(s, d) = {<<d, i>> : i \in 1..k}
  BY <1>1, SortAssumption DEF From, EdgesInto
<1>4. f \in Bijection(1..k, From(s, d))
  <2>1. f \in [1..k -> From(s, d)]
    BY <1>3
  <2>2. \A i, j \in 1..k : f[i] = f[j] => i = j
    OBVIOUS
  <2>3. \A e \in From(s, d) : \E i \in 1..k : f[i] = e
    BY <1>3
  <2>. QED
    BY <2>1, <2>2, <2>3 DEF Bijection, Injection, Surjection, IsInjective
<1>5. ExistsBijection(1..k, From(s, d))
  BY <1>4 DEF ExistsBijection
<1>6. Cardinality(From(s, d)) = Cardinality(1..k)
  BY <1>2, <1>5, FS_Bijection
<1>. QED
  BY <1>1, <1>2, <1>6

(* The counter of s when P is scanned is zero exactly when all of what s   *)
(* waits for is in P; scanning d takes its mentions off.                   *)
LEMMA NoneLeft ==
  ASSUME SortTyped, NEW s \in Step, NEW P, Counted(DependsOn, s) \subseteq Step
  PROVE  Cardinality(Left(s, P)) = 0 <=> Counted(DependsOn, s) \subseteq P
<1>1. Cardinality(Left(s, P)) = 0 <=> Left(s, P) = {}
  BY EdgesAreFinite, FS_EmptySet DEF Left
<1>2. ASSUME Left(s, P) # {} PROVE ~ (Counted(DependsOn, s) \subseteq P)
  <2>1. PICK e \in EdgesInto(s) : e[1] \notin P
    BY <1>2 DEF Left
  <2>2. e[1] \in Step /\ e[2] \in 1..Most /\ e[2] <= Edges(s, e[1])
    BY <2>1 DEF EdgesInto
  <2>3. Edges(s, e[1]) > 0
    BY <2>2, EdgesAre, SortAssumption
  <2>. QED
    BY <2>1, <2>2, <2>3, EdgesAre
<1>3. ASSUME NEW d \in Counted(DependsOn, s), d \notin P PROVE Left(s, P) # {}
  <2>1. d \in Step
    OBVIOUS
  <2>2. Edges(s, d) \in 0..Most /\ Edges(s, d) > 0
    BY <2>1, <1>3, EdgesAre
  <2>3. <<d, 1>> \in EdgesInto(s)
    BY <2>1, <2>2, SortAssumption DEF EdgesInto
  <2>. QED
    BY <1>3, <2>3 DEF Left
<1>. QED
  BY <1>1, <1>2, <1>3

LEMMA ScanTakesOff ==
  ASSUME SortTyped, NEW s \in Step, NEW P, NEW d \in Step, d \notin P
  PROVE  /\ Cardinality(Left(s, P \cup {d})) = Cardinality(Left(s, P)) - Edges(s, d)
         /\ Edges(s, d) <= Cardinality(Left(s, P))
         /\ Cardinality(Left(s, P)) \in Nat
<1>1. Left(s, P \cup {d}) = Left(s, P) \ From(s, d) /\ Left(s, P) \cap From(s, d) = From(s, d)
  BY DEF Left, From
<1>2. IsFiniteSet(Left(s, P)) /\ Cardinality(Left(s, P)) \in Nat
  BY EdgesAreFinite DEF Left
<1>3. IsFiniteSet(From(s, d)) /\ From(s, d) \in SUBSET Left(s, P)
  BY EdgesAreFinite DEF From, Left
<1>4. Cardinality(Left(s, P) \ From(s, d)) = Cardinality(Left(s, P)) - Cardinality(Left(s, P) \cap From(s, d))
  BY <1>2, <1>3, FS_Difference
<1>5. Cardinality(From(s, d)) <= Cardinality(Left(s, P))
  BY <1>2, <1>3, FS_Subset
<1>. QED
  BY <1>1, <1>2, <1>4, <1>5, FromCounts
------------------------------------------------------------------------------
(* The inductive invariant: the groups are apart, a counter is the number  *)
(* of edges from steps not scanned, and the steps without any are those    *)
(* that are grouped or join the next wave.                                 *)
Scanned == Grouped \ ready
Apart == \A i, j \in 1..Len(groups) : i # j => groups[i] \cap groups[j] = {}
Laid ==
  /\ KnownDependencies(DependsOn, Step)
  /\ Apart
  /\ ready \subseteq Grouped
  /\ \A s \in Step : inDegree[s] = Cardinality(Left(s, Scanned))
  /\ nextReady = {s \in Step \ Grouped : Counted(DependsOn, s) \subseteq Scanned}
  /\ \A s \in Grouped : Counted(DependsOn, s) \subseteq Scanned
SortInv ==
  /\ TypeOK
  /\ pc \in {"degrees", "unknown"} => groups = <<>>
  /\ pc \in {"scan", "waves", "circular"} => Laid

LEMMA GroupedIs ==
  ASSUME groups \in Seq(SUBSET Step)
  PROVE  /\ Grouped \in SUBSET Step
         /\ \A s : s \in Grouped <=> \E i \in 1..Len(groups) : s \in groups[i]
BY DEF Grouped

LEMMA GroupedGrows ==
  ASSUME groups \in Seq(SUBSET Step), NEW R \in SUBSET Step, groups' = Append(groups, R)
  PROVE  /\ groups' \in Seq(SUBSET Step) /\ Len(groups') = Len(groups) + 1 /\ Len(groups) \in Nat
         /\ groups'[Len(groups) + 1] = R /\ \A i \in 1..Len(groups) : groups'[i] = groups[i]
         /\ Grouped' = Grouped \cup R
<1>1. /\ groups' \in Seq(SUBSET Step) /\ Len(groups') = Len(groups) + 1 /\ Len(groups) \in Nat
      /\ groups'[Len(groups) + 1] = R /\ \A i \in 1..Len(groups) : groups'[i] = groups[i]
  OBVIOUS
<1>2. \A s : s \in Grouped' <=> \E i \in 1..Len(groups') : s \in groups'[i]
  BY <1>1 DEF Grouped
<1>3. \A s : s \in Grouped' <=> s \in Grouped \/ s \in R
  BY <1>1, <1>2, GroupedIs
<1>. QED
  BY <1>1, <1>3

LEMMA SameMentions ==
  ASSUME mentions' = mentions
  PROVE  /\ DependsOn' = DependsOn
         /\ \A s \in Step : Degree(s)' = Degree(s)
         /\ \A s \in Step : Left(s, Scanned)' = Left(s, Scanned')
<1>1. \A s, d : Edges(s, d)' = Edges(s, d)
  BY DEF Edges
<1>2. \A s \in Step : EdgesInto(s)' = EdgesInto(s)
  BY <1>1 DEF EdgesInto
<1>. QED
  BY <1>2 DEF DependsOn, Degree, Left

LEMMA KnownIs ==
  ASSUME TypeOK
  PROVE  /\ KnownDependencies(DependsOn, Step)
              <=> \A s \in Step, n \in Foreign : n \in Reserved \/ mentions[s][n] = 0
         /\ KnownDependencies(DependsOn, Step) => \A s \in Step : Counted(DependsOn, s) \subseteq Step
<1>1. \A s \in Step : \A n \in Name : mentions[s][n] \in 0..Most
  BY DEF TypeOK, Lists
<1>2. \A s \in Step : Counted(DependsOn, s) = {n \in Name \ Reserved : mentions[s][n] > 0}
  BY DEF Counted, DependsOn
<1>3. Name \ Reserved = (Step \cup Foreign) \ Reserved
  BY DEF Name
<1>4. \A s \in Step : \A n \in Name : mentions[s][n] > 0 <=> mentions[s][n] # 0
  BY <1>1, SortAssumption
<1>. QED
  BY <1>2, <1>3, <1>4, SortAssumption DEF KnownDependencies, Name

LEMMA CountingLays ==
  ASSUME SortInv, CountDegrees PROVE SortInv'
<1>1. SortTyped /\ groups = <<>> /\ KnownDependencies(DependsOn, Step) /\ groups \in Seq(SUBSET Step)
  BY KnownIs DEF SortInv, TypeOK, SortTyped, CountDegrees
<1>2. mentions' = mentions /\ pc' = "scan" /\ nextReady' = {} /\ inDegree' = [s \in Step |-> Degree(s)]
  BY DEF CountDegrees, OpenWave
<1>3. PICK R \in SUBSET Step : R = {s \in Step : Degree(s) = 0}
  OBVIOUS
<1>4. ready' = R /\ groups' = IF R = {} THEN groups ELSE Append(groups, R)
  BY <1>3 DEF CountDegrees, OpenWave
<1>5. Grouped = {}
  BY <1>1, GroupedIs
<1>6. Grouped' = R /\ groups' \in Seq(SUBSET Step) /\ Len(groups') \in {0, 1}
  <2>1. CASE R = {}
    BY <1>1, <1>4, <1>5, <2>1 DEF Grouped
  <2>2. CASE R # {}
    BY <1>1, <1>4, <1>5, <2>2, GroupedGrows
  <2>. QED
    BY <2>1, <2>2
<1>7. ASSUME NEW s \in Step PROVE Degree(s) \in Nat /\ Degree(s) = Cardinality(Left(s, {}))
  <2>1. Left(s, {}) = EdgesInto(s)
    BY DEF Left
  <2>. QED
    BY <2>1, EdgesAreFinite DEF Degree
<1>8. \A s \in Step : s \in R <=> Counted(DependsOn, s) \subseteq {}
  BY <1>1, <1>3, <1>7, KnownIs, NoneLeft DEF SortInv
<1>9. Scanned' = {}
  BY <1>4, <1>6 DEF Scanned
<1>10. DependsOn' = DependsOn /\ \A s \in Step : Left(s, Scanned)' = Left(s, {})
  BY <1>2, <1>9, SameMentions
<1>11. TypeOK'
  BY <1>2, <1>4, <1>6, <1>7 DEF SortInv, TypeOK
<1>12. Laid'
  <2>1. KnownDependencies(DependsOn, Step)'
    BY <1>1, <1>10 DEF KnownDependencies, Counted
  <2>2. Apart'
    BY <1>6 DEF Apart
  <2>3. \A s \in Step : inDegree'[s] = Cardinality(Left(s, Scanned))'
    BY <1>2, <1>7, <1>10
  <2>4. nextReady' = {s \in Step \ Grouped : Counted(DependsOn, s) \subseteq Scanned}'
    BY <1>2, <1>6, <1>8, <1>9, <1>10 DEF Counted
  <2>5. \A s \in Grouped' : (Counted(DependsOn, s) \subseteq Scanned)'
    BY <1>6, <1>8, <1>9, <1>10 DEF Counted
  <2>. QED
    BY <1>4, <1>6, <2>1, <2>2, <2>3, <2>4, <2>5 DEF Laid
<1>. QED
  BY <1>2, <1>11, <1>12 DEF SortInv

LEMMA ScanningLays ==
  ASSUME SortInv, Scan PROVE SortInv'
<1>1. SortTyped /\ Laid /\ pc = "scan" /\ groups \in Seq(SUBSET Step) /\ Grouped \in SUBSET Step
  BY GroupedIs DEF SortInv, TypeOK, SortTyped, Scan
<1>2. PICK d \in ready : /\ inDegree' = [c \in Step |-> inDegree[c] - Edges(c, d)]
                         /\ nextReady' = nextReady \cup
                              {c \in Step : Edges(c, d) > 0 /\ inDegree[c] = Edges(c, d)}
                         /\ ready' = ready \ {d}
  BY DEF Scan, ScanStep
<1>3. mentions' = mentions /\ groups' = groups /\ pc' = pc /\ Grouped' = Grouped
  BY DEF Scan, Grouped
<1>4. d \in Step /\ d \in Grouped /\ d \notin Scanned
  BY <1>1, <1>2 DEF Laid, Scanned
<1>5. PICK P : P = Scanned
  OBVIOUS
<1>6. Scanned' = P \cup {d} /\ d \notin P
  BY <1>2, <1>3, <1>4, <1>5 DEF Scanned
<1>7. DependsOn' = DependsOn /\ \A s \in Step : Left(s, Scanned)' = Left(s, P \cup {d})
  BY <1>3, <1>6, SameMentions
<1>8. ASSUME NEW s \in Step
      PROVE  /\ inDegree[s] = Cardinality(Left(s, P))
             /\ inDegree'[s] = Cardinality(Left(s, P \cup {d})) /\ inDegree'[s] \in Nat
             /\ inDegree[s] = 0 <=> Counted(DependsOn, s) \subseteq P
             /\ inDegree'[s] = 0 <=> Counted(DependsOn, s) \subseteq P \cup {d}
             /\ inDegree[s] = Edges(s, d) <=> inDegree'[s] = 0
             /\ Edges(s, d) > 0 <=> d \in Counted(DependsOn, s)
  <2>1. Counted(DependsOn, s) \subseteq Step
    BY <1>1, KnownIs DEF SortInv, Laid
  <2>2. inDegree[s] = Cardinality(Left(s, P)) /\ inDegree'[s] = inDegree[s] - Edges(s, d)
    BY <1>1, <1>2, <1>5 DEF Laid
  <2>3. /\ Cardinality(Left(s, P \cup {d})) = Cardinality(Left(s, P)) - Edges(s, d)
        /\ Edges(s, d) <= Cardinality(Left(s, P))
        /\ Cardinality(Left(s, P)) \in Nat
    BY <1>1, <1>4, <1>6, ScanTakesOff
  <2>4. Edges(s, d) \in Nat /\ (Edges(s, d) > 0 <=> d \in Counted(DependsOn, s))
    BY <1>1, <1>4, EdgesAre, SortAssumption
  <2>5. /\ Cardinality(Left(s, P)) = 0 <=> Counted(DependsOn, s) \subseteq P
        /\ Cardinality(Left(s, P \cup {d})) = 0 <=> Counted(DependsOn, s) \subseteq P \cup {d}
    BY <1>1, <2>1, NoneLeft
  <2>6. PICK e, m, n : /\ e = Edges(s, d) /\ m = Cardinality(Left(s, P))
                       /\ n = Cardinality(Left(s, P \cup {d}))
    OBVIOUS
  <2>7. inDegree[s] = m /\ inDegree'[s] = n /\ n = m - e /\ e <= m /\ m \in Nat /\ e \in Nat
    BY ONLY <2>2, <2>3, <2>4, <2>6
  <2>8. inDegree[s] = 0 <=> Counted(DependsOn, s) \subseteq P
    BY ONLY <2>5, <2>6, <2>7
  <2>9. inDegree'[s] = 0 <=> Counted(DependsOn, s) \subseteq P \cup {d}
    BY ONLY <2>5, <2>6, <2>7
  <2>10. inDegree[s] = e <=> inDegree'[s] = 0
    BY ONLY <2>7
  <2>11. inDegree'[s] \in Nat
    BY ONLY <2>7
  <2>. QED
    BY ONLY <2>2, <2>4, <2>6, <2>7, <2>8, <2>9, <2>10, <2>11
<1>9. \A s \in Step : s \in Grouped => inDegree[s] = 0 /\ d \notin Counted(DependsOn, s)
  BY <1>1, <1>4, <1>5, <1>6, <1>8 DEF Laid
<1>10. TypeOK'
  BY <1>1, <1>2, <1>3, <1>8 DEF SortInv, TypeOK
<1>11. Laid'
  <2>1. KnownDependencies(DependsOn, Step)'
    BY <1>1, <1>7 DEF Laid, KnownDependencies, Counted
  <2>2. Apart' /\ ready' \subseteq Grouped'
    BY <1>1, <1>2, <1>3 DEF Apart, Laid
  <2>3. \A s \in Step : inDegree'[s] = Cardinality(Left(s, Scanned))'
    BY <1>7, <1>8
  <2>4. \A s \in Step : s \in nextReady' <=> s \notin Grouped /\ Counted(DependsOn, s) \subseteq P \cup {d}
    <3> SUFFICES ASSUME NEW s \in Step
                 PROVE  s \in nextReady' <=> s \notin Grouped /\ Counted(DependsOn, s) \subseteq P \cup {d}
      OBVIOUS
    <3>1. s \in nextReady <=> s \notin Grouped /\ Counted(DependsOn, s) \subseteq P
      BY <1>1, <1>5 DEF Laid
    <3>2. s \in nextReady' <=> s \in nextReady \/ (d \in Counted(DependsOn, s) /\ inDegree'[s] = 0)
      BY <1>2, <1>8
    <3>. QED
      BY <1>8, <1>9, <3>1, <3>2
  <2>5. nextReady' = {s \in Step \ Grouped : Counted(DependsOn, s) \subseteq Scanned}'
    <3>1. nextReady' \subseteq Step
      BY <1>10 DEF TypeOK
    <3>2. nextReady' = {s \in Step \ Grouped : Counted(DependsOn, s) \subseteq P \cup {d}}
      BY <2>4, <3>1
    <3>. QED
      BY <1>3, <1>6, <1>7, <3>2 DEF Counted
  <2>6. \A s \in Grouped' : (Counted(DependsOn, s) \subseteq Scanned)'
    BY <1>1, <1>3, <1>5, <1>6, <1>7 DEF Laid, Counted
  <2>. QED
    BY <2>1, <2>2, <2>3, <2>5, <2>6 DEF Laid
<1>. QED
  BY <1>1, <1>3, <1>10, <1>11 DEF SortInv

LEMMA NextWaveLays ==
  ASSUME SortInv, NextWave PROVE SortInv'
<1>1. /\ SortTyped /\ Laid /\ pc = "scan" /\ groups \in Seq(SUBSET Step) /\ Grouped \in SUBSET Step
      /\ ready = {} /\ nextReady # {} /\ nextReady \in SUBSET Step
  BY GroupedIs DEF SortInv, TypeOK, SortTyped, NextWave
<1>2. /\ mentions' = mentions /\ inDegree' = inDegree /\ pc' = pc
      /\ ready' = nextReady /\ nextReady' = {} /\ groups' = Append(groups, nextReady)
  BY <1>1 DEF NextWave, OpenWave
<1>3. PICK R \in SUBSET Step : R = nextReady
  BY <1>1
<1>4. /\ groups' \in Seq(SUBSET Step) /\ Len(groups') = Len(groups) + 1 /\ Len(groups) \in Nat
      /\ groups'[Len(groups) + 1] = R /\ \A i \in 1..Len(groups) : groups'[i] = groups[i]
      /\ Grouped' = Grouped \cup R
  BY <1>1, <1>2, <1>3, GroupedGrows
<1>5. Scanned = Grouped /\ R = {s \in Step \ Grouped : Counted(DependsOn, s) \subseteq Grouped}
  BY <1>1, <1>3 DEF Scanned, Laid
<1>6. Scanned' = Scanned
  BY <1>2, <1>3, <1>4, <1>5 DEF Scanned
<1>7. DependsOn' = DependsOn /\ \A s \in Step : Left(s, Scanned)' = Left(s, Scanned)
  BY <1>2, <1>6, SameMentions
<1>8. TypeOK'
  BY <1>2, <1>3, <1>4 DEF SortInv, TypeOK
<1>9. Laid'
  <2>1. KnownDependencies(DependsOn, Step)'
    BY <1>1, <1>7 DEF Laid, KnownDependencies, Counted
  <2>2. Apart'
    <3> SUFFICES ASSUME NEW i \in 1..Len(groups'), NEW j \in 1..Len(groups'), i # j
                 PROVE  groups'[i] \cap groups'[j] = {}
      BY DEF Apart
    <3>1. \A k \in 1..Len(groups) : groups'[k] \cap R = {}
      BY <1>1, <1>4, <1>5, GroupedIs
    <3>2. i \in 1..Len(groups) \/ i = Len(groups) + 1
      BY <1>4
    <3>3. j \in 1..Len(groups) \/ j = Len(groups) + 1
      BY <1>4
    <3>4. CASE i \in 1..Len(groups) /\ j \in 1..Len(groups)
      BY <1>1, <1>4, <3>4 DEF Laid, Apart
    <3>. QED
      BY <1>4, <3>1, <3>2, <3>3, <3>4
  <2>3. ready' \subseteq Grouped'
    BY <1>2, <1>3, <1>4
  <2>4. \A s \in Step : inDegree'[s] = Cardinality(Left(s, Scanned))'
    BY <1>1, <1>2, <1>7 DEF Laid
  <2>5. nextReady' = {s \in Step \ Grouped : Counted(DependsOn, s) \subseteq Scanned}'
    BY <1>2, <1>4, <1>5, <1>6, <1>7 DEF Counted
  <2>6. \A s \in Grouped' : (Counted(DependsOn, s) \subseteq Scanned)'
    BY <1>1, <1>4, <1>5, <1>6, <1>7 DEF Laid, Counted
  <2>. QED
    BY <2>1, <2>2, <2>3, <2>4, <2>5, <2>6 DEF Laid
<1>. QED
  BY <1>1, <1>2, <1>8, <1>9 DEF SortInv

LEMMA SortIsSound == SortSpec => []SortInv
<1>1. SortInit => SortInv
  <2> SUFFICES ASSUME SortInit PROVE SortInv
    OBVIOUS
  <2>. QED
    BY DEF SortInit, SortInv, TypeOK
<1>2. SortInv /\ [SortNext]_sortVars => SortInv'
  <2> SUFFICES ASSUME SortInv, [SortNext]_sortVars PROVE SortInv'
    OBVIOUS
  <2>1. ASSUME UNCHANGED <<mentions, inDegree, groups, ready, nextReady>>, pc' # "scan",
               pc' = pc \/ (pc' \in {"waves", "circular"} /\ pc = "scan") \/ (pc' = "unknown" /\ pc = "degrees")
        PROVE  SortInv'
    <3>1. Laid' <=> Laid
      BY <2>1 DEF Laid, KnownDependencies, Counted, DependsOn, Apart, Left, EdgesInto, Edges,
                  Scanned, Grouped
    <3>2. TypeOK'
      BY <2>1 DEF SortInv, TypeOK
    <3>. QED
      BY <2>1, <3>1, <3>2 DEF SortInv
  <2>2. CASE UnknownDependency
    BY <2>1, <2>2 DEF UnknownDependency
  <2>3. CASE CountDegrees
    BY <2>3, CountingLays
  <2>4. CASE Scan
    BY <2>4, ScanningLays
  <2>5. CASE NextWave
    BY <2>5, NextWaveLays
  <2>6. CASE Return
    BY <2>1, <2>6 DEF Return
  <2>7. CASE UNCHANGED sortVars
    <3>1. Laid' <=> Laid
      BY <2>7 DEF sortVars, Laid, KnownDependencies, Counted, DependsOn, Apart, Left, EdgesInto, Edges,
                  Scanned, Grouped
    <3>2. TypeOK'
      BY <2>7 DEF sortVars, SortInv, TypeOK
    <3>. QED
      BY <2>7, <3>1, <3>2 DEF sortVars, SortInv
  <2>. QED
    BY <2>2, <2>3, <2>4, <2>5, <2>6, <2>7 DEF SortNext
<1>. QED
  BY <1>1, <1>2, PTL DEF SortSpec

(* Every variable has its type: no counter of a step ever falls below      *)
(* zero, however often a name is repeated.                                 *)
THEOREM SortTypes == SortSpec => []TypeOK
<1>1. SortInv => TypeOK
  BY DEF SortInv
<1>. QED
  BY <1>1, SortIsSound, PTL

(* The in_degree of a step is the number of mentions, in its depends_on,   *)
(* of steps whose turn has not come.                                       *)
THEOREM DegreesAreTrue == SortSpec => []DegreeCountsUnscanned
<1>1. SortInv => DegreeCountsUnscanned
  BY DEF SortInv, Laid, DegreeCountsUnscanned, Left, Scanned
<1>. QED
  BY <1>1, SortIsSound, PTL
------------------------------------------------------------------------------
(* Every sort is a wave order. *)
LEMMA WavesAre ==
  ASSUME groups \in Seq(SUBSET Step), Apart, NEW s \in Step
  PROVE  /\ WaveOf(s) \in 0..Len(groups) /\ Waves[s] = WaveOf(s)
         /\ WaveOf(s) > 0 <=> s \in Grouped
         /\ \A i \in 1..Len(groups) : s \in groups[i] => WaveOf(s) = i
         /\ s \in Grouped => s \in groups[WaveOf(s)] /\ WaveOf(s) \in 1..Len(groups)
<1>1. Len(groups) \in Nat /\ DOMAIN groups = 1..Len(groups) /\ Waves[s] = WaveOf(s)
  BY DEF Waves
<1>2. s \in Grouped <=> \E i \in 1..Len(groups) : s \in groups[i]
  BY GroupedIs
<1>3. CASE s \in Grouped
  <2>1. WaveOf(s) \in 1..Len(groups) /\ s \in groups[WaveOf(s)]
    BY <1>1, <1>2, <1>3 DEF WaveOf
  <2>2. \A i \in 1..Len(groups) : s \in groups[i] => WaveOf(s) = i
    BY <2>1 DEF Apart
  <2>. QED
    BY <1>1, <1>3, <2>1, <2>2
<1>4. CASE s \notin Grouped
  <2>1. WaveOf(s) = 0
    BY <1>1, <1>2, <1>4 DEF WaveOf
  <2>. QED
    BY <1>1, <1>2, <1>4, <2>1
<1>. QED
  BY <1>3, <1>4

LEMMA PlacedAreGrouped ==
  ASSUME groups \in Seq(SUBSET Step), Apart PROVE Order!Placed = Grouped
BY WavesAre, GroupedIs DEF Order!Placed

(* Opening a wave of all that can be placed is a step of WaveOrder. *)
LEMMA OpeningPlaces ==
  ASSUME groups \in Seq(SUBSET Step), Apart, Apart', DependsOn' = DependsOn,
         Outcome = "sorting", Outcome' = "sorting", KnownDependencies(DependsOn, Step),
         NEW R \in SUBSET Step, R # {}, R = Frontier(DependsOn, Step, Grouped),
         groups' = Append(groups, R)
  PROVE  Order!PlaceWave
<1>1. /\ groups' \in Seq(SUBSET Step) /\ Len(groups') = Len(groups) + 1 /\ Len(groups) \in Nat
      /\ groups'[Len(groups) + 1] = R /\ \A i \in 1..Len(groups) : groups'[i] = groups[i]
  BY GroupedGrows
<1>2. R = Order!Frontier(DependsOn, Step, Order!Placed)
  BY PlacedAreGrouped, SameGraphs
<1>3. ASSUME NEW s \in Step PROVE Waves'[s] = IF s \in R THEN Len(groups) + 1 ELSE Waves[s]
  <2>1. /\ \A i \in 1..Len(groups') : s \in groups'[i] => WaveOf(s)' = i
        /\ WaveOf(s)' > 0 <=> s \in Grouped'
        /\ WaveOf(s)' \in 0..Len(groups') /\ Waves'[s] = WaveOf(s)'
    <3>1. \A i \in 1..Len(groups) : s \in groups[i] => WaveOf(s) = i
      BY WavesAre
    <3>2. Len(groups') \in Nat /\ DOMAIN groups' = 1..Len(groups') /\ Waves'[s] = WaveOf(s)'
      BY <1>1 DEF Waves
    <3>3. s \in Grouped' <=> \E i \in 1..Len(groups') : s \in groups'[i]
      BY <3>2 DEF Grouped
    <3>4. CASE s \in Grouped'
      <4>1. WaveOf(s)' \in 1..Len(groups') /\ s \in groups'[WaveOf(s)']
        BY <3>2, <3>3, <3>4 DEF WaveOf
      <4>2. \A i \in 1..Len(groups') : s \in groups'[i] => WaveOf(s)' = i
        BY <4>1 DEF Apart
      <4>. QED
        BY <3>2, <3>4, <4>1, <4>2
    <3>5. CASE s \notin Grouped'
      <4>1. WaveOf(s)' = 0
        BY <3>2, <3>3, <3>5 DEF WaveOf
      <4>. QED
        BY <3>2, <3>3, <3>5, <4>1
    <3>. QED
      BY <3>4, <3>5
  <2>2. Grouped' = Grouped \cup R
    BY GroupedGrows
  <2>3. CASE s \in R
    BY <1>1, <2>1, <2>3
  <2>4. CASE s \in Grouped
    <3>1. s \notin R
      BY <2>4 DEF Frontier
    <3>2. PICK i \in 1..Len(groups) : s \in groups[i]
      BY <2>4, GroupedIs
    <3>3. Waves[s] = i /\ Waves'[s] = i
      BY <1>1, <2>1, <3>2, WavesAre
    <3>. QED
      BY <3>1, <3>3
  <2>5. CASE s \notin R /\ s \notin Grouped
    <3>1. Waves[s] = 0
      BY <2>5, WavesAre
    <3>2. Waves'[s] = 0
      BY <2>1, <2>2, <2>5
    <3>. QED
      BY <2>5, <3>1, <3>2
  <2>. QED
    BY <2>3, <2>4, <2>5
<1>4. Waves' = [s \in Step |-> IF s \in R THEN Len(groups) + 1 ELSE Waves[s]]
  BY <1>3 DEF Waves
<1>5. Order!KnownDependencies(DependsOn, Step)
  BY SameGraphs
<1>. QED
  BY <1>1, <1>2, <1>4, <1>5 DEF Order!PlaceWave

(* All places in the groups are as many as the steps exactly when every    *)
(* step is placed.                                                         *)
LEMMA SizesTell ==
  ASSUME groups \in Seq(SUBSET Step), Apart
  PROVE  Sizes(groups) = Cardinality(Step) <=> Grouped = Step
<1> DEFINE P == {p \in (1..Len(groups)) \X Step : p[2] \in groups[p[1]]}
           f == [s \in Grouped |-> <<WaveOf(s), s>>]
<1>1. Grouped \in SUBSET Step
  BY GroupedIs
<1>2. IsFiniteSet(Grouped) /\ (Cardinality(Step) = Cardinality(Grouped) => Step = Grouped)
  BY <1>1, SortAssumption, FS_Subset
<1>3. f \in Bijection(Grouped, P)
  <2>1. \A s \in Grouped : <<WaveOf(s), s>> \in P
    BY <1>1, WavesAre
  <2>2. f \in [Grouped -> P]
    BY <2>1
  <2>3. \A s, t \in Grouped : f[s] = f[t] => s = t
    OBVIOUS
  <2>4. ASSUME NEW p \in P PROVE \E s \in Grouped : f[s] = p
    <3>1. PICK i \in 1..Len(groups), s \in Step : p = <<i, s>> /\ s \in groups[i]
      OBVIOUS
    <3>2. s \in Grouped /\ WaveOf(s) = i
      BY <3>1, GroupedIs, WavesAre
    <3>. QED
      BY <3>1, <3>2
  <2>. QED
    BY <2>2, <2>3, <2>4 DEF Bijection, Injection, Surjection, IsInjective
<1>4. ExistsBijection(Grouped, P)
  BY <1>3 DEF ExistsBijection
<1>5. Cardinality(P) = Cardinality(Grouped)
  BY <1>2, <1>4, FS_Bijection
<1>. QED
  BY <1>2, <1>5 DEF Sizes

LEMMA StartIsAnOrder == SortInit => Order!Init
<1> SUFFICES ASSUME SortInit PROVE Order!Init
  OBVIOUS
<1>1. groups = <<>> /\ pc = "degrees"
  BY DEF SortInit
<1>2. DependsOn \in [Step -> SUBSET Order!Name]
  BY DEF DependsOn, Name, Order!Name
<1>3. \A s \in Step : WaveOf(s) = 0
  BY <1>1 DEF WaveOf
<1>. QED
  BY <1>1, <1>2, <1>3 DEF Order!Init, Waves, Outcome, Returned

LEMMA SortStepsAreWaves ==
  ASSUME SortInv, SortInv', [SortNext]_sortVars PROVE [Order!Next]_(Order!vars)
<1>1. groups \in Seq(SUBSET Step) /\ mentions' = mentions /\ DependsOn' = DependsOn
  BY SameMentions DEF SortInv, TypeOK, SortNext, UnknownDependency, CountDegrees, Scan, NextWave, Return, sortVars
<1>2. ASSUME groups' = groups PROVE Waves' = Waves /\ Len(groups') = Len(groups)
  BY <1>2 DEF Waves, WaveOf
<1>3. ASSUME groups' = groups, Outcome' = Outcome PROVE UNCHANGED Order!vars
  BY <1>1, <1>2, <1>3 DEF Order!vars
<1>4. CASE UnknownDependency
  <2>1. ~ Order!KnownDependencies(DependsOn, Step)
    <3>1. PICK s \in Step, n \in Foreign : mentions[s][n] > 0 /\ n \notin Reserved
      BY <1>4 DEF UnknownDependency
    <3>2. n \in Counted(DependsOn, s) /\ n \notin Step
      BY <3>1, SortAssumption DEF Counted, DependsOn, Name
    <3>. QED
      BY <3>2, SameGraphs DEF KnownDependencies
  <2>2. Outcome = "sorting" /\ Outcome' = "unknown" /\ groups' = groups
    BY <1>4 DEF UnknownDependency, Outcome, Returned
  <2>. QED
    BY <1>1, <1>2, <2>1, <2>2 DEF Order!Next, Order!Refuse
<1>5. CASE CountDegrees
  <2>1. Outcome = "sorting" /\ Outcome' = "sorting" /\ groups = <<>> /\ pc' = "scan"
    BY <1>5 DEF CountDegrees, Outcome, Returned, SortInv
  <2>2. KnownDependencies(DependsOn, Step)
    BY <1>5, KnownIs DEF CountDegrees, SortInv
  <2>3. PICK R \in SUBSET Step : R = {s \in Step : Degree(s) = 0}
    OBVIOUS
  <2>4. groups' = IF R = {} THEN groups ELSE Append(groups, R)
    BY <1>5, <2>3 DEF CountDegrees, OpenWave
  <2>5. Apart /\ Apart' /\ Grouped = {}
    BY <1>1, <2>1, GroupedIs DEF Apart, SortInv, Laid
  <2>6. R = Frontier(DependsOn, Step, Grouped)
    <3>1. ASSUME NEW s \in Step PROVE Degree(s) = 0 <=> Counted(DependsOn, s) \subseteq {}
      <4>1. Left(s, {}) = EdgesInto(s) /\ SortTyped
        BY DEF Left, SortInv, TypeOK, SortTyped
      <4>. QED
        BY <2>2, <4>1, KnownIs, NoneLeft DEF SortInv, Degree
    <3>. QED
      BY <2>3, <2>5, <3>1 DEF Frontier
  <2>7. CASE R = {}
    BY <1>3, <2>1, <2>4, <2>7
  <2>8. CASE R # {}
    BY <1>1, <2>1, <2>2, <2>4, <2>5, <2>6, <2>8, OpeningPlaces DEF Order!Next
  <2>. QED
    BY <2>7, <2>8
<1>6. CASE Scan
  BY <1>3, <1>6 DEF Scan, Outcome, Returned
<1>7. CASE NextWave
  <2>1. /\ Laid /\ Apart /\ Apart' /\ nextReady # {} /\ nextReady \in SUBSET Step
        /\ ready = {} /\ groups' = Append(groups, nextReady)
    BY <1>7 DEF NextWave, OpenWave, SortInv, TypeOK, Laid
  <2>2. PICK R \in SUBSET Step : R = nextReady
    BY <2>1
  <2>3. R = Frontier(DependsOn, Step, Grouped) /\ KnownDependencies(DependsOn, Step)
    BY <2>1, <2>2 DEF Laid, Scanned, Frontier
  <2>4. Outcome = "sorting" /\ Outcome' = "sorting"
    BY <1>7 DEF NextWave, Outcome, Returned
  <2>. QED
    BY <1>1, <2>1, <2>2, <2>3, <2>4, OpeningPlaces DEF Order!Next
<1>8. CASE Return
  <2>1. Laid /\ Apart /\ ready = {} /\ nextReady = {} /\ groups' = groups
    BY <1>8 DEF Return, SortInv, Laid
  <2>2. Order!Frontier(DependsOn, Step, Order!Placed) = {} /\ Order!Placed = Grouped
        /\ Order!KnownDependencies(DependsOn, Step)
    BY <1>1, <2>1, PlacedAreGrouped, SameGraphs DEF Laid, Scanned, Frontier
  <2>3. Outcome = "sorting" /\ Outcome' = IF Grouped = Step THEN "waves" ELSE "circular"
    BY <1>1, <1>8, <2>1, SizesTell DEF Return, Outcome, Returned
  <2>. QED
    BY <1>1, <1>2, <2>1, <2>2, <2>3 DEF Order!Next, Order!Finish
<1>9. CASE UNCHANGED sortVars
  BY <1>3, <1>9 DEF sortVars, Outcome, Returned
<1>. QED
  BY <1>4, <1>5, <1>6, <1>7, <1>8, <1>9 DEF SortNext

(* Kahn's counters lay the steps out as WaveOrder prescribes: each wave is *)
(* all that can be placed, and the sort returns waves, or refuses with     *)
(* "unknown step dependency" or "Circular dependency", when it does.       *)
THEOREM TheSortIsAWaveOrder == SortSpec => ImplementsWaveOrder
<1>1. SortInv /\ SortInv' /\ [SortNext]_sortVars => [Order!Next]_(Order!vars)
  BY SortStepsAreWaves
<1> HIDE DEF SortInit, SortNext, sortVars, SortInv
<1>. QED
  BY <1>1, StartIsAnOrder, SortIsSound, PTL DEF SortSpec, ImplementsWaveOrder, Order!Spec
------------------------------------------------------------------------------
(* What WaveOrder promises, from its specification alone, of a graph D, the *)
(* waves w, their number n and the outcome o.                               *)
PlacedBy(w) == {s \in Step : w[s] > 0}
Numbered(w, n) == n \in Nat /\ w \in [Step -> Nat] /\ \A s \in Step : w[s] <= n
SortFirst(D, w) ==
  \A s \in PlacedBy(w) : \A d \in Counted(D, s) : d \in PlacedBy(w) /\ w[d] < w[s]

(* A set of steps each of which waits for another one of the set is never  *)
(* entered: the strengthening that makes OutcomeExact inductive.           *)
NoKnotPlaced(D, w) ==
  \A C \in SUBSET Step :
    (\A s \in C : Counted(D, s) \cap C # {}) => C \cap PlacedBy(w) = {}
Exact(D, w, o) ==
  /\ o = "waves" => Sortable(D, Step) /\ PlacedBy(w) = Step
  /\ o = "circular" => KnownDependencies(D, Step) /\ ~ Acyclic(D, Step)
  /\ o = "unknown" => ~ KnownDependencies(D, Step) /\ PlacedBy(w) = {}
Exactly(D, w, o) ==
  /\ NoKnotPlaced(D, w)
  /\ PlacedBy(w) # {} => KnownDependencies(D, Step)
  /\ Exact(D, w, o)

(* The wave n + 1 of the steps F that can be placed. *)
Placing(D, w, n, v) ==
  LET F == Frontier(D, Step, PlacedBy(w)) IN
  /\ KnownDependencies(D, Step)
  /\ v = [s \in Step |-> IF s \in F THEN n + 1 ELSE w[s]]

LEMMA PlacingPlaces ==
  ASSUME NEW D, NEW w, NEW n, NEW v, Numbered(w, n), Placing(D, w, n, v)
  PROVE  /\ Numbered(v, n + 1)
         /\ PlacedBy(v) = PlacedBy(w) \cup Frontier(D, Step, PlacedBy(w))
         /\ PlacedBy(w) \cap Frontier(D, Step, PlacedBy(w)) = {}
<1>1. PICK F \in SUBSET Step : F = Frontier(D, Step, PlacedBy(w))
  BY DEF Frontier
<1>2. v = [s \in Step |-> IF s \in F THEN n + 1 ELSE w[s]]
  BY <1>1 DEF Placing
<1>3. PlacedBy(w) \cap F = {}
  BY <1>1 DEF Frontier
<1>. QED
  BY <1>1, <1>2, <1>3 DEF Numbered, PlacedBy

LEMMA PlacingKeepsFirst ==
  ASSUME NEW D, NEW w, NEW n, NEW v, Numbered(w, n), SortFirst(D, w), Placing(D, w, n, v)
  PROVE  SortFirst(D, v)
<1> SUFFICES ASSUME NEW s \in PlacedBy(v), NEW d \in Counted(D, s)
             PROVE  d \in PlacedBy(v) /\ v[d] < v[s]
  BY DEF SortFirst
<1>1. PICK F \in SUBSET Step : F = Frontier(D, Step, PlacedBy(w))
  BY DEF Frontier
<1>2. v = [t \in Step |-> IF t \in F THEN n + 1 ELSE w[t]]
  BY <1>1 DEF Placing
<1>3. PlacedBy(v) = PlacedBy(w) \cup F /\ PlacedBy(w) \cap F = {}
  BY <1>1, PlacingPlaces
<1>4. CASE s \in F
  <2>1. d \in PlacedBy(w)
    BY <1>1, <1>4 DEF Frontier
  <2>2. d \in Step /\ v[d] = w[d] /\ v[s] = n + 1
    BY <1>2, <1>3, <1>4, <2>1 DEF PlacedBy
  <2>. QED
    BY <1>3, <2>1, <2>2 DEF Numbered
<1>5. CASE s \in PlacedBy(w)
  <2>1. d \in PlacedBy(w) /\ w[d] < w[s]
    BY <1>5 DEF SortFirst
  <2>2. d \in Step /\ s \in Step /\ v[d] = w[d] /\ v[s] = w[s]
    BY <1>2, <1>3, <1>5, <2>1 DEF PlacedBy
  <2>. QED
    BY <1>3, <2>1, <2>2
<1>. QED
  BY <1>3, <1>4, <1>5

LEMMA PlacingKeepsExact ==
  ASSUME NEW D, NEW w, NEW n, NEW v, Numbered(w, n), Exactly(D, w, "sorting"), Placing(D, w, n, v)
  PROVE  Exactly(D, v, "sorting")
<1>1. PlacedBy(v) = PlacedBy(w) \cup Frontier(D, Step, PlacedBy(w))
  BY PlacingPlaces
<1>2. NoKnotPlaced(D, v)
  <2> SUFFICES ASSUME NEW C \in SUBSET Step, \A s \in C : Counted(D, s) \cap C # {},
                      NEW s \in C, s \in PlacedBy(v)
               PROVE  FALSE
    BY DEF NoKnotPlaced
  <2>1. C \cap PlacedBy(w) = {}
    BY DEF Exactly, NoKnotPlaced
  <2>. QED
    BY <1>1, <2>1 DEF Frontier
<1>. QED
  BY <1>2 DEF Exactly, Exact, Placing

LEMMA FinishingIsExact ==
  ASSUME NEW D, NEW w, KnownDependencies(D, Step), Exactly(D, w, "sorting"),
         Frontier(D, Step, PlacedBy(w)) = {}
  PROVE  Exactly(D, w, IF PlacedBy(w) = Step THEN "waves" ELSE "circular")
<1>1. CASE PlacedBy(w) = Step
  <2>1. Acyclic(D, Step)
    BY <1>1 DEF Acyclic, Exactly, NoKnotPlaced
  <2>. QED
    BY <1>1, <2>1 DEF Exactly, Exact, Sortable
<1>2. CASE PlacedBy(w) # Step
  <2>1. \A s \in Step \ PlacedBy(w) : Counted(D, s) \cap (Step \ PlacedBy(w)) # {}
    BY DEF Frontier, KnownDependencies
  <2>2. PlacedBy(w) \in SUBSET Step
    BY DEF PlacedBy
  <2>3. ~ Acyclic(D, Step)
    BY <1>2, <2>1, <2>2 DEF Acyclic
  <2>. QED
    BY <1>2, <2>3 DEF Exactly, Exact
<1>. QED
  BY <1>1, <1>2

(* The steps of WaveOrder, as such steps. *)
LEMMA OrderSteps ==
  ASSUME [Order!Next]_(Order!vars)
  PROVE  /\ DependsOn' = DependsOn
         /\ \/ /\ Outcome = "sorting" /\ Outcome' = "sorting" /\ Len(groups') = Len(groups) + 1
               /\ Placing(DependsOn, Waves, Len(groups), Waves')
            \/ /\ Waves' = Waves /\ Len(groups') = Len(groups) /\ Outcome = "sorting"
               /\ Outcome' = "unknown" /\ ~ KnownDependencies(DependsOn, Step)
            \/ /\ Waves' = Waves /\ Len(groups') = Len(groups) /\ Outcome = "sorting"
               /\ KnownDependencies(DependsOn, Step)
               /\ Frontier(DependsOn, Step, PlacedBy(Waves)) = {}
               /\ Outcome' = IF PlacedBy(Waves) = Step THEN "waves" ELSE "circular"
            \/ Waves' = Waves /\ Len(groups') = Len(groups) /\ Outcome' = Outcome
<1>1. Order!Placed = PlacedBy(Waves)
  BY DEF Order!Placed, PlacedBy
<1>2. CASE Order!PlaceWave
  BY <1>1, <1>2, SameGraphs DEF Order!PlaceWave, Placing
<1>3. CASE Order!Refuse
  BY <1>3, SameGraphs DEF Order!Refuse
<1>4. CASE Order!Finish
  BY <1>1, <1>4, SameGraphs DEF Order!Finish
<1>5. CASE UNCHANGED Order!vars
  BY <1>5 DEF Order!vars
<1>. QED
  BY <1>2, <1>3, <1>4, <1>5 DEF Order!Next

OrderInv ==
  /\ Numbered(Waves, Len(groups)) /\ DependsOn \in [Step -> SUBSET Name]
  /\ Outcome \in {"sorting", "waves", "unknown", "circular"}
  /\ SortFirst(DependsOn, Waves)
  /\ Exactly(DependsOn, Waves, Outcome)

LEMMA OrderIsSound == Order!Spec => []OrderInv
<1>1. Order!Init => OrderInv
  <2> SUFFICES ASSUME Order!Init PROVE OrderInv
    OBVIOUS
  <2>1. /\ Waves = [s \in Step |-> 0] /\ Len(groups) = 0 /\ Outcome = "sorting"
        /\ DependsOn \in [Step -> SUBSET Name]
    BY DEF Order!Init, Order!Name, Name
  <2>2. PlacedBy(Waves) = {}
    BY <2>1 DEF PlacedBy
  <2>3. Numbered(Waves, Len(groups))
    BY <2>1 DEF Numbered
  <2>. QED
    BY <2>1, <2>2, <2>3 DEF OrderInv, SortFirst, Exactly, NoKnotPlaced, Exact
<1>2. OrderInv /\ [Order!Next]_(Order!vars) => OrderInv'
  <2> SUFFICES ASSUME OrderInv, [Order!Next]_(Order!vars) PROVE OrderInv'
    OBVIOUS
  <2>1. PICK D, w, n, v : D = DependsOn /\ w = Waves /\ n = Len(groups) /\ v = Waves'
    OBVIOUS
  <2>2. DependsOn' = D
    BY <2>1, OrderSteps
  <2>3. Numbered(w, n) /\ SortFirst(D, w) /\ D \in [Step -> SUBSET Name] /\ Exactly(D, w, Outcome)
        /\ Outcome \in {"sorting", "waves", "unknown", "circular"}
    BY <2>1 DEF OrderInv
  <2>4. CASE Outcome = "sorting" /\ Outcome' = "sorting" /\ Len(groups') = n + 1 /\ Placing(D, w, n, v)
    <3>1. Numbered(v, n + 1) /\ SortFirst(D, v) /\ Exactly(D, v, "sorting")
      BY <2>3, <2>4, PlacingPlaces, PlacingKeepsFirst, PlacingKeepsExact
    <3>. QED
      BY <2>1, <2>2, <2>3, <2>4, <3>1 DEF OrderInv
  <2>5. ASSUME v = w, Len(groups') = n, Outcome' \in {"sorting", "waves", "unknown", "circular"},
               Exactly(D, w, Outcome')
        PROVE  OrderInv'
    BY <2>1, <2>2, <2>3, <2>5 DEF OrderInv
  <2>6. CASE /\ v = w /\ Len(groups') = n /\ Outcome = "sorting"
             /\ Outcome' = "unknown" /\ ~ KnownDependencies(D, Step)
    <3>1. Exactly(D, w, "unknown")
      BY <2>3, <2>6 DEF Exactly, Exact
    <3>. QED
      BY <2>5, <2>6, <3>1
  <2>7. CASE /\ v = w /\ Len(groups') = n /\ Outcome = "sorting" /\ KnownDependencies(D, Step)
             /\ Frontier(D, Step, PlacedBy(w)) = {}
             /\ Outcome' = IF PlacedBy(w) = Step THEN "waves" ELSE "circular"
    <3>1. Exactly(D, w, Outcome')
      BY <2>3, <2>7, FinishingIsExact
    <3>. QED
      BY <2>5, <2>7, <3>1
  <2>8. CASE v = w /\ Len(groups') = n /\ Outcome' = Outcome
    BY <2>3, <2>5, <2>8
  <2>. QED
    BY <2>1, <2>4, <2>6, <2>7, <2>8, OrderSteps
<1> HIDE DEF OrderInv
<1>. QED
  BY <1>1, <1>2, PTL DEF Order!Spec

(* WaveOrder: every variable has its type, and no wave number exceeds the  *)
(* number of waves laid out so far.                                        *)
THEOREM TypeCorrect == Order!Spec => []Order!TypeOK
<1>1. OrderInv => Order!TypeOK
  BY DEF OrderInv, Numbered, Order!TypeOK, Order!Outcomes, Order!Name, Name
<1>. QED
  BY <1>1, OrderIsSound, PTL

(* WaveOrder: the waves respect every counted dependency, which is what    *)
(* lets _run_wave start a whole wave at once.                              *)
THEOREM DependenciesAreFirst == Order!Spec => []Order!DependenciesFirst
<1>1. OrderInv => Order!DependenciesFirst
  BY SameGraphs DEF OrderInv, SortFirst, PlacedBy, Order!DependenciesFirst, Order!Placed
<1>. QED
  BY <1>1, OrderIsSound, PTL

(* WaveOrder: a graph gets waves exactly when it is sortable, and each     *)
(* refusal names its cause: the "unknown step dependency" and "Circular    *)
(* dependency" errors of _topo_sort are exact.                             *)
THEOREM OutcomesAreExact == Order!Spec => []Order!OutcomeExact
<1>1. OrderInv => Order!OutcomeExact
  BY SameGraphs DEF OrderInv, Exactly, Exact, Sortable, PlacedBy,
                    Order!OutcomeExact, Order!Placed, Order!Sortable
<1>. QED
  BY <1>1, OrderIsSound, PTL

(* So the sort as the code has it keeps both: dependencies first, and      *)
(* outcomes that are exact.                                                *)
THEOREM TheSortKeepsItsPromise == SortSpec => [](DependenciesFirst /\ OutcomeExact)
BY TheSortIsAWaveOrder, DependenciesAreFirst, OutcomesAreExact, PTL
   DEF ImplementsWaveOrder, DependenciesFirst, OutcomeExact
==============================================================================
