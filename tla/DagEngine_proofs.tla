-------------------------- MODULE DagEngine_proofs ---------------------------
(* The engine, for any scenarios, outcomes, containers within containers   *)
(* and concurrent runs: what holds of a run when its verdict is out, what  *)
(* a condition sees, that it is a run of ScenarioRun, and what that        *)
(* promises.                                                               *)
EXTENDS DagEngine, TLAPS

LEMMA TopInSteps == \A r \in Runs : Top[r] \subseteq Steps
BY StepsAssumption DEF Top

(* The containers around a step: none at the top, and else its parent and  *)
(* the containers around that one.                                         *)
Closed(S) == \A u \in S : Parent[u] \in S \cup {Root}

LEMMA AncestorsOfTop ==
  ASSUME NEW s \in Steps, Parent[s] = Root PROVE Ancestors[s] = {}
<1>1. {} \in SUBSET Steps /\ Parent[s] \in {} \cup {Root} /\ \A u \in {} : Parent[u] \in {} \cup {Root}
  OBVIOUS
<1>. QED
  BY <1>1 DEF Ancestors

LEMMA ParentsSteps == \A s \in Steps : Parent[s] \in Steps \cup {Root}
BY EngineAssumption

LEMMA AncestorsIn ==
  ASSUME NEW s \in Steps, NEW S \in SUBSET Steps, Closed(S), Parent[s] \in S
  PROVE  Ancestors[s] \subseteq S
BY DEF Ancestors, Closed

LEMMA ParentIsAncestor ==
  ASSUME NEW s \in Steps, Parent[s] # Root PROVE Parent[s] \in Ancestors[s]
BY ParentsSteps DEF Ancestors

LEMMA AncestorsClosed == ASSUME NEW s \in Steps PROVE Closed(Ancestors[s])
<1> SUFFICES ASSUME NEW a \in Ancestors[s], Parent[a] # Root
             PROVE  Parent[a] \in Ancestors[s]
  BY DEF Closed
<1>1. a \in Steps /\ Parent[a] \in Steps
  BY ParentsSteps DEF Ancestors
<1>2. Parent[s] # Root
  BY AncestorsOfTop
<1>3. ASSUME NEW S \in SUBSET Steps, Parent[s] \in S \cup {Root}, Closed(S)
      PROVE  Parent[a] \in S
  <2>1. a \in S
    BY <1>3 DEF Ancestors, Closed
  <2>. QED
    BY <1>3, <2>1 DEF Closed
<1>. QED
  BY <1>1, <1>2, <1>3 DEF Ancestors, Closed

LEMMA AncestorsOfChild ==
  ASSUME NEW s \in Steps, NEW c \in Steps, Parent[s] = c
  PROVE  Ancestors[s] = {c} \cup Ancestors[c]
<1>1. c # Root
  BY StepsAssumption
<1>2. Closed({c} \cup Ancestors[c])
  <2>1. Parent[c] \in Ancestors[c] \cup {Root}
    BY ParentIsAncestor
  <2>. QED
    BY <2>1, AncestorsClosed DEF Closed
<1>3. {c} \cup Ancestors[c] \in SUBSET Steps
  BY DEF Ancestors
<1>4. Ancestors[s] \subseteq {c} \cup Ancestors[c]
  BY <1>2, <1>3, AncestorsIn
<1>5. c \in Ancestors[s]
  BY <1>1, ParentIsAncestor
<1>6. Ancestors[c] \subseteq Ancestors[s]
  <2>1. CASE Parent[c] = Root
    BY <2>1, AncestorsOfTop
  <2>2. CASE Parent[c] # Root
    <3>1. Parent[c] \in Ancestors[s]
      BY <1>5, <2>2, AncestorsClosed DEF Closed
    <3>2. Ancestors[s] \in SUBSET Steps
      BY DEF Ancestors
    <3>. QED
      BY <3>1, <3>2, AncestorsClosed, AncestorsIn
  <2>. QED
    BY <2>1, <2>2
<1>. QED
  BY <1>4, <1>5, <1>6

(* A step that hangs on the top level through its containers. *)
Rooted(s) == \E y \in {s} \cup Ancestors[s] : Parent[y] = Root

LEMMA ChildIsRooted ==
  ASSUME NEW s \in Steps, NEW c \in Steps, Parent[s] = c, Rooted(c) PROVE Rooted(s)
BY AncestorsOfChild DEF Rooted

(* No set of steps that leads up and up holds a step that hangs on the top. *)
LEMMA NoEndlessClimb ==
  ASSUME NEW S \in SUBSET Steps, NEW s \in S, \A u \in S : Parent[u] \in S, Rooted(s)
  PROVE  FALSE
<1>1. Closed(S) /\ Root \notin S
  BY StepsAssumption DEF Closed
<1>2. Ancestors[s] \subseteq S
  BY <1>1, AncestorsIn
<1>. QED
  BY <1>1, <1>2 DEF Rooted
------------------------------------------------------------------------------

(* What holds of a run r in phase ph with tasks T and frames F.            *)
Container(s) == Kind[s] \in {"condition", "loop"}

(* The top level is open while the run is in its waves, and only then; its *)
(* steps that are in no wave yet have no coroutine.                        *)
Booked(r, ph, T, F) ==
  /\ ph = "running" <=> F[Root].st = "open"
  /\ ph = "idle" => /\ \A s \in Steps : T[s] = NoTask
                    /\ \A c \in Levels : F[c] = NoFrame
  /\ F[Root].st = "open" =>
       F[Root].kids = Top[r] /\ \A s \in Top[r] \ F[Root].placed : T[s].st = "none"

Begun(T, F, s) ==
  /\ T[s].st # "none" => Rooted(s)
  /\ T[s].st = "none" => T[s].res = {}
  /\ T[s].st = "inside" <=> F[s].st = "open"
  /\ F[s].st = "open" => Container(s)

(* A live step is awaited by the level it is on, or left alone by a        *)
(* container that was cancelled.                                           *)
Held(T, F, s) ==
  Live(T[s]) =>
    /\ Failures(T[s].res) = {} /\ s \in F[Parent[s]].wave
    /\ F[Parent[s]].st = "open" \/ (Parent[s] # Root /\ T[Parent[s]].st = "cancelled")

(* A failure is noticed by the level when its wave ends, or has already    *)
(* failed the container.                                                   *)
InWave(F, s) == F[Parent[s]].st = "open" /\ s \in F[Parent[s]].wave
Noticed(T, F, s) ==
  Failed(T[s]) =>
    InWave(F, s) \/ (F[Parent[s]].st # "open" /\ (Parent[s] # Root => Failed(T[Parent[s]])))

(* A level with work: earlier waves ran, without a failure, and what they  *)
(* extracted is in the context; the wave waits for earlier ones only.      *)
Awaited(T, F, c) == F[c].st = "open" \/ \E s \in Steps : Parent[s] = c /\ Live(T[s])
Orderly(T, F, c) ==
  LET f == F[c] IN
  /\ f.st # "off"
  /\ f.wave \subseteq f.placed /\ f.placed \subseteq f.kids
  /\ Sortable(DependsOn, f.kids)
  /\ \A s \in f.kids : Parent[s] = c
  /\ \A s \in f.wave : T[s].st # "none" /\ Counted(DependsOn, s) \subseteq f.placed \ f.wave
  /\ \A s \in f.placed \ f.wave : Ran(T[s]) /\ Extractors(T[s].res) \subseteq F[f.home].ctx
  /\ Failures(f.res) = {}
HomeOk(F, c) ==
  F[c].st # "off" =>
    IF c = Root \/ Kind[c] = "loop" THEN F[c].home = c
    ELSE F[Parent[c]].st # "off" /\ F[c].home = F[Parent[c]].home

Typed(T, F) == T \in [Steps -> Task] /\ F \in [Levels -> Frame]
Sound(r, ph, T, F) ==
  /\ Typed(T, F)
  /\ Booked(r, ph, T, F)
  /\ \A s \in Steps : Begun(T, F, s) /\ Held(T, F, s) /\ Noticed(T, F, s)
  /\ \A c \in Levels : HomeOk(F, c) /\ (Awaited(T, F, c) => Orderly(T, F, c))

(* A live or failed step is in a container that is live or failed.         *)
Busy(T, s) == Live(T[s]) \/ Failed(T[s])
LEMMA BusyInside ==
  ASSUME NEW r, NEW ph, NEW T, NEW F, Sound(r, ph, T, F),
         NEW s \in Steps, Busy(T, s), Parent[s] # Root
  PROVE  Parent[s] \in Steps /\ Busy(T, Parent[s])
<1>1. Parent[s] \in Steps
  BY ParentsSteps
<1>2. Begun(T, F, Parent[s]) /\ Held(T, F, s) /\ Noticed(T, F, s)
  BY <1>1 DEF Sound
<1>3. CASE Live(T[s])
  BY <1>1, <1>2, <1>3 DEF Begun, Held, Busy, Live, Failed
<1>4. CASE Failed(T[s])
  BY <1>1, <1>2, <1>4 DEF Begun, Noticed, InWave, Busy, Live
<1>. QED
  BY <1>3, <1>4 DEF Busy

LEMMA BusyIsRooted ==
  ASSUME NEW r, NEW ph, NEW T, NEW F, Sound(r, ph, T, F), NEW s \in Steps, Busy(T, s)
  PROVE  T[s].st # "none" /\ Rooted(s)
<1>1. Begun(T, F, s)
  BY DEF Sound
<1>. QED
  BY <1>1 DEF Begun, Busy, Live, Failed, Failures

(* The context of a level is untouched by what happens to the frame of     *)
(* another one below which nothing is live or failed.                      *)
LEMMA HomeUndisturbed ==
  ASSUME NEW r, NEW ph, NEW T, NEW F, Sound(r, ph, T, F),
         NEW h \in Steps, \A s \in Steps : Parent[s] = h => ~ Busy(T, s),
         NEW c \in Levels, c # h, Awaited(T, F, c)
  PROVE  F[c].home # h
<1> SUFFICES ASSUME F[c].home = h PROVE FALSE
  OBVIOUS
<1> DEFINE S == {x \in Steps : F[x].st # "off" /\ F[x].home = h /\ x # h /\ Busy(T, x)}
<1>1. c # Root /\ c \in Steps
  BY StepsAssumption DEF Sound, HomeOk, Levels, Orderly
<1>2. Busy(T, c)
  <2>1. CASE F[c].st = "open"
    <3>1. Begun(T, F, c)
      BY <1>1 DEF Sound
    <3>. QED
      BY <2>1, <3>1 DEF Begun, Busy, Live
  <2>2. CASE F[c].st # "open"
    <3>1. PICK s \in Steps : Parent[s] = c /\ Live(T[s])
      BY <2>2 DEF Awaited
    <3>. QED
      BY <1>1, <3>1, BusyInside DEF Busy
  <2>. QED
    BY <2>1, <2>2
<1>3. c \in S
  BY <1>1, <1>2 DEF Sound, Orderly
<1>4. ASSUME NEW x \in S PROVE Parent[x] \in S
  <2>1. x \in Steps /\ x \in Levels /\ x # Root /\ HomeOk(F, x) /\ F[x].st # "off" /\ F[x].home = h /\ x # h /\ Busy(T, x)
    BY StepsAssumption DEF Sound, Levels
  <2>2. F[Parent[x]].st # "off" /\ F[Parent[x]].home = h
    BY <2>1 DEF HomeOk
  <2>3. Parent[x] # h
    BY <2>1
  <2>4. Parent[x] # Root
    <3>1. HomeOk(F, Root)
      BY DEF Sound, Levels
    <3>. QED
      BY <2>2, <3>1, StepsAssumption DEF HomeOk
  <2>5. Parent[x] \in Steps /\ Busy(T, Parent[x])
    BY <2>1, <2>4, BusyInside
  <2>. QED
    BY <2>2, <2>3, <2>5
<1>5. Rooted(c)
  BY <1>1, <1>2, BusyIsRooted
<1>. QED
  BY <1>3, <1>4, <1>5, NoEndlessClimb
------------------------------------------------------------------------------
(* What the steps of a run do to its tasks and frames.  A coroutine goes   *)
(* on by itself, and may add to a context.                                 *)
SameLevel(f, g) ==
  /\ g.kids = f.kids /\ g.placed = f.placed /\ g.wave = f.wave /\ g.home = f.home
  /\ f.ctx \subseteq g.ctx
Untouched(f, g) == SameLevel(f, g) /\ g.st = f.st /\ g.res = f.res

Acts(T, F, U, G, s) ==
  /\ Live(T[s]) /\ T[s].st # "inside"
  /\ U[s].st \in {"calling", "backoff", "done", "raised"}
  /\ Live(U[s]) => Failures(U[s].res) = {}
  /\ \A t \in Steps \ {s} : U[t] = T[t]
  /\ \A c \in Levels : Untouched(F[c], G[c])
  /\ T[s].st = "ready" /\ Kind[s] # "api" =>
       U[s].st = "raised" \/ (U[s].st = "done" /\ U[s].left = T[s].left)

(* A container c opens its level, for the first time or for an iteration.  *)
Opens(T, F, U, G, c) ==
  /\ Live(T[c]) /\ Container(c)
  /\ \A s \in Steps : Parent[s] = c => ~ Busy(T, s)
  /\ U[c].st = "inside" /\ Failures(U[c].res) = {}
  /\ \A s \in G[c].wave : U[s].st = "ready" /\ U[s].res = {} /\ U[s].left = 0
  /\ \A s \in Steps : s # c /\ s \notin G[c].wave => U[s] = T[s]
  /\ \A k \in Levels \ {c} : G[k] = F[k]
  /\ G[c].st = "open" /\ G[c].res = {}
  /\ G[c].home = IF Kind[c] = "loop" THEN c ELSE F[Parent[c]].home
  /\ \A s \in G[c].kids : Parent[s] = c
  /\ Sortable(DependsOn, G[c].kids)
  /\ G[c].placed = G[c].wave /\ G[c].wave = Frontier(DependsOn, G[c].kids, {})

(* The wave of the level c ran, and the next one starts. *)
Advances(T, F, U, G, c) ==
  /\ F[c].st = "open"
  /\ \A s \in F[c].wave : Ran(T[s]) /\ Extractors(T[s].res) \subseteq G[F[c].home].ctx
  /\ \A s \in G[c].wave : U[s].st = "ready" /\ U[s].res = {} /\ U[s].left = 0
  /\ \A s \in Steps \ G[c].wave : U[s] = T[s]
  /\ \A k \in Levels \ {c} : Untouched(F[k], G[k])
  /\ G[c].st = "open" /\ G[c].kids = F[c].kids /\ G[c].home = F[c].home
  /\ F[c].ctx \subseteq G[c].ctx /\ Failures(G[c].res) = {}
  /\ G[c].wave = Frontier(DependsOn, F[c].kids, F[c].placed)
  /\ G[c].placed = F[c].placed \cup G[c].wave

(* The level c ends, well or not, and X is cancelled. *)
Shuts(T, F, U, G, c, X) ==
  /\ F[c].st = "open"
  /\ X \subseteq Steps /\ \A s \in X : Live(T[s])
  /\ \A s \in Steps : Parent[s] = c /\ Live(T[s]) /\ s # c => s \in X
  /\ \A s \in Steps : s # c => U[s].res = T[s].res /\ U[s].left = T[s].left
  /\ \A s \in Steps : s # c => U[s].st = IF s \in X THEN "cancelled" ELSE T[s].st
  /\ c # Root => U[c].st \in {"done", "raised"}
  /\ c # Root => ((\E s \in Steps : Parent[s] = c /\ Failed(U[s])) => Failed(U[c]))
  /\ \A k \in Levels : SameLevel(F[k], G[k])
  /\ \A k \in Levels : G[k].st = IF k = c \/ (k \in X /\ F[k].st = "open") THEN "over" ELSE F[k].st
  /\ \A k \in Levels \ {c} : G[k].res = F[k].res

(* Each of them keeps the run sound. *)
LEMMA ActsStaysSound ==
  ASSUME NEW r \in Runs, NEW ph, NEW T, NEW F, NEW U, NEW G, Sound(r, ph, T, F), Typed(U, G),
         NEW s \in Steps, Acts(T, F, U, G, s)
  PROVE  Sound(r, ph, U, G)
<1>1. Live(T[s]) /\ T[s].st # "inside" /\ T[s].st # "none" /\ ~ Failed(T[s])
  BY DEF Acts, Sound, Held, Live, Failed
<1>2. \A k \in Levels : Untouched(F[k], G[k])
  BY DEF Acts
<1>3. \A t \in Steps : t # s => U[t] = T[t]
  BY DEF Acts
<1>4. U[s].st \in {"calling", "backoff", "done", "raised"} /\ (Live(U[s]) => Failures(U[s].res) = {})
  BY DEF Acts
<1>5. Root \in Levels /\ Steps \subseteq Levels /\ \A t \in Steps : Parent[t] \in Levels
  BY ParentsSteps DEF Levels
<1>6. Begun(T, F, s) /\ Held(T, F, s) /\ Noticed(T, F, s)
  BY DEF Sound
<1>7. Booked(r, ph, U, G)
  <2>1. ph # "idle"
    BY <1>1 DEF Sound, Booked, NoTask, Live
  <2>2. Booked(r, ph, T, F) /\ Untouched(F[Root], G[Root])
    BY <1>2, <1>5 DEF Sound
  <2>3. F[Root].st = "open" => s \notin Top[r] \ F[Root].placed
    BY <1>1, <2>2 DEF Booked
  <2>4. ASSUME F[Root].st = "open", NEW t \in Top[r] \ F[Root].placed PROVE U[t].st = "none"
    <3>1. T[t].st = "none" /\ t # s
      BY <2>2, <2>3, <2>4 DEF Booked
    <3>2. U[t] = T[t]
      BY <3>1, <1>3, TopInSteps
    <3>. QED
      BY <3>1, <3>2
  <2>. QED
    BY <2>1, <2>2, <2>4 DEF Booked, Untouched, SameLevel
<1>8. ASSUME NEW t \in Steps PROVE Begun(U, G, t) /\ Held(U, G, t) /\ Noticed(U, G, t)
  <2>1. Begun(T, F, t) /\ Held(T, F, t) /\ Noticed(T, F, t)
    BY DEF Sound
  <2>2. Untouched(F[t], G[t]) /\ Untouched(F[Parent[t]], G[Parent[t]])
    BY <1>2, <1>5
  <2>3. Begun(U, G, t)
    BY <1>1, <1>3, <1>4, <1>6, <2>1, <2>2 DEF Begun, Untouched
  <2>4. Held(U, G, t)
    BY <1>1, <1>3, <1>4, <1>6, <2>1, <2>2, ParentsSteps DEF Held, Untouched, SameLevel, Live
  <2>5. Noticed(U, G, t)
    <3>1. CASE t = s
      BY <1>1, <1>3, <1>6, <2>2, <3>1, ParentsSteps DEF Held, Noticed, InWave, Untouched, SameLevel, Failed, Live
    <3>2. CASE t # s
      BY <1>1, <1>3, <2>1, <2>2, <3>2, ParentsSteps DEF Noticed, InWave, Untouched, SameLevel
    <3>. QED
      BY <3>1, <3>2
  <2>. QED
    BY <2>3, <2>4, <2>5
<1>9. ASSUME NEW k \in Levels PROVE HomeOk(G, k)
  <2>1. HomeOk(F, k) /\ Untouched(F[k], G[k])
    BY <1>2 DEF Sound
  <2>2. k # Root => Untouched(F[Parent[k]], G[Parent[k]])
    BY <1>2, <1>5 DEF Levels
  <2>. QED
    BY <2>1, <2>2 DEF HomeOk, Untouched, SameLevel
<1>10. ASSUME NEW k \in Levels, Awaited(U, G, k) PROVE Orderly(U, G, k)
  <2>1. Untouched(F[k], G[k])
    BY <1>2
  <2>2. Awaited(T, F, k)
    BY <1>1, <1>3, <1>10, <2>1 DEF Awaited, Untouched
  <2>3. Orderly(T, F, k)
    BY <2>2 DEF Sound
  <2>4. F[k].kids \subseteq Steps /\ F[k].home \in Levels
    BY DEF Sound, Typed, Frame
  <2>5. s \notin F[k].placed \ F[k].wave
    BY <1>1, <1>6, <2>3 DEF Orderly, Held, Ran, Live
  <2>6. Untouched(F[F[k].home], G[F[k].home])
    BY <1>2, <2>4
  <2>7. \A t \in F[k].wave : U[t].st # "none"
    BY <1>3, <1>4, <2>3, <2>4 DEF Orderly
  <2>8. \A t \in F[k].placed \ F[k].wave : U[t] = T[t]
    BY <1>3, <2>3, <2>4, <2>5 DEF Orderly
  <2>. QED
    BY <2>1, <2>3, <2>6, <2>7, <2>8 DEF Orderly, Untouched, SameLevel
<1>. QED
  BY <1>7, <1>8, <1>9, <1>10 DEF Sound

LEMMA OpensStaysSound ==
  ASSUME NEW r \in Runs, NEW ph, NEW T, NEW F, NEW U, NEW G, Sound(r, ph, T, F), Typed(U, G),
         NEW c \in Steps, Opens(T, F, U, G, c)
  PROVE  Sound(r, ph, U, G)
<1> DEFINE W == G[c].wave
<1>1. Live(T[c]) /\ ~ Failed(T[c]) /\ T[c].st # "none" /\ Container(c)
  BY DEF Opens, Sound, Held, Live, Failed
<1>2. \A s \in Steps : Parent[s] = c => ~ Live(T[s]) /\ ~ Failed(T[s])
  BY DEF Opens, Busy
<1>3. \A k \in Levels : k # c => G[k] = F[k]
  BY DEF Opens
<1>4. U[c].st = "inside" /\ Failures(U[c].res) = {} /\ G[c].st = "open"
  BY DEF Opens
<1>5. W \subseteq G[c].kids /\ W \subseteq Steps /\ \A s \in G[c].kids : Parent[s] = c
  BY DEF Opens, Frontier, Typed, Frame, Levels
<1>6. \A s \in W : U[s].st = "ready" /\ U[s].res = {} /\ Parent[s] = c
  BY <1>5 DEF Opens
<1>7. \A s \in Steps : s # c /\ s \notin W => U[s] = T[s]
  BY DEF Opens
<1>8. Root \in Levels /\ c \in Levels /\ c # Root /\ \A t \in Steps : Parent[t] \in Levels
  BY ParentsSteps, StepsAssumption DEF Levels
<1>9. Parent[c] # c /\ c \notin W
  BY <1>1, <1>2, <1>6
<1>10. Begun(T, F, c) /\ Held(T, F, c)
  BY DEF Sound
<1>11. Booked(r, ph, U, G)
  <2>1. Booked(r, ph, T, F) /\ G[Root] = F[Root]
    BY <1>3, <1>8 DEF Sound
  <2>2. ph # "idle"
    BY <1>1, <2>1 DEF Booked, NoTask, Live
  <2>3. ASSUME F[Root].st = "open", NEW t \in Top[r] \ F[Root].placed PROVE U[t].st = "none"
    <3>1. T[t].st = "none" /\ t # c /\ t \in Steps
      BY <1>1, <2>1, <2>3, TopInSteps DEF Booked
    <3>2. t \notin W
      BY <1>6, <1>8 DEF Top
    <3>. QED
      BY <1>7, <3>1, <3>2
  <2>. QED
    BY <2>1, <2>2, <2>3 DEF Booked
<1>12. ASSUME NEW t \in Steps PROVE Begun(U, G, t) /\ Held(U, G, t) /\ Noticed(U, G, t)
  <2>1. Begun(T, F, t) /\ Held(T, F, t) /\ Noticed(T, F, t)
    BY DEF Sound
  <2>2. CASE t = c
    <3>1. G[Parent[c]] = F[Parent[c]]
      BY <1>3, <1>8, <1>9
    <3>2. Parent[c] # Root => Parent[c] \in Steps /\ (T[Parent[c]].st = "cancelled" => Parent[c] \notin W)
      BY <1>2, <1>6, <1>9, ParentsSteps DEF Failed
    <3>. QED
      BY <1>1, <1>4, <1>7, <1>9, <1>10, <2>2, <3>1, <3>2 DEF Begun, Held, Noticed, Live, Failed
  <2>3. CASE t \in W
    <3>1. Rooted(t)
      <4>1. Rooted(c)
        BY <1>1, <1>10 DEF Begun
      <4>2. Parent[t] = c
        BY <1>6, <2>3
      <4>. QED
        BY <4>1, <4>2, ChildIsRooted
    <3>2. G[t] = F[t] /\ F[t].st # "open"
      BY <1>2, <1>3, <1>6, <1>9, <2>1, <2>3 DEF Begun, Live, Levels
    <3>. QED
      BY <1>4, <1>6, <2>3, <3>1, <3>2 DEF Begun, Held, Noticed, Live, Failed, Failures
  <2>4. CASE t # c /\ t \notin W
    <3>1. U[t] = T[t] /\ G[t] = F[t]
      BY <1>3, <1>7, <2>4 DEF Levels
    <3>2. Busy(T, t) => Parent[t] # c
      BY <1>2 DEF Busy
    <3>3. Busy(T, t) => G[Parent[t]] = F[Parent[t]]
      BY <1>3, <1>8, <3>2
    <3>4. Parent[t] # Root /\ Failed(T[Parent[t]]) /\ Parent[t] # c => U[Parent[t]] = T[Parent[t]]
      BY <1>2, <1>6, <1>7, ParentsSteps
    <3>5. Held(U, G, t)
      BY <2>1, <3>1, <3>2, <3>3, <3>4 DEF Held, Busy, Failed
    <3>6. Noticed(U, G, t)
      BY <2>1, <3>1, <3>2, <3>3, <3>4 DEF Noticed, InWave, Busy
    <3>. QED
      BY <2>1, <3>1, <3>5, <3>6 DEF Begun
  <2>. QED
    BY <2>2, <2>3, <2>4
<1>13. ASSUME NEW k \in Levels PROVE HomeOk(G, k)
  <2>1. HomeOk(F, k)
    BY DEF Sound
  <2>2. F[Parent[c]].st # "off"
    <3>1. Awaited(T, F, Parent[c])
      BY <1>1 DEF Awaited
    <3>. QED
      BY <1>8, <3>1 DEF Sound, Orderly
  <2>3. CASE k = c
    BY <1>3, <1>8, <1>9, <2>2, <2>3 DEF HomeOk, Opens
  <2>4. CASE k # c /\ k # Root /\ Parent[k] = c /\ F[k].st # "off" /\ Kind[k] # "loop"
    <3>1. F[k].home = F[c].home /\ F[c].st # "off" /\ HomeOk(F, c)
      BY <1>8, <2>1, <2>4 DEF HomeOk, Sound
    <3>2. F[c].home = G[c].home
      BY <1>8, <3>1 DEF Opens, HomeOk
    <3>. QED
      BY <1>3, <1>4, <1>8, <2>4, <3>1, <3>2 DEF HomeOk
  <2>5. CASE k # c /\ ~ (k # Root /\ Parent[k] = c /\ F[k].st # "off" /\ Kind[k] # "loop")
    BY <1>3, <1>8, <2>1, <2>5 DEF HomeOk, Levels
  <2>. QED
    BY <2>3, <2>4, <2>5
<1>14. ASSUME NEW k \in Levels, Awaited(U, G, k) PROVE Orderly(U, G, k)
  <2>1. CASE k = c
    <3>1. \A s \in W : Counted(DependsOn, s) \subseteq {}
      BY DEF Opens, Frontier
    <3>2. G[c].placed = W /\ Sortable(DependsOn, G[c].kids) /\ G[c].res = {}
      BY DEF Opens
    <3>. QED
      BY <1>4, <1>5, <1>6, <2>1, <3>1, <3>2 DEF Orderly, Failures
  <2>2. CASE k # c
    <3>1. G[k] = F[k]
      BY <1>3, <2>2
    <3>2. Awaited(T, F, k)
      BY <1>1, <1>6, <1>7, <1>14, <2>2, <3>1 DEF Awaited
    <3>3. Orderly(T, F, k)
      BY <3>2 DEF Sound
    <3>4. F[k].home # c
      BY <2>2, <3>2, HomeUndisturbed DEF Opens
    <3>5. F[k].kids \subseteq Steps /\ F[k].home \in Levels
      BY DEF Sound, Typed, Frame
    <3>6. G[F[k].home] = F[F[k].home]
      BY <1>3, <3>4, <3>5
    <3>7. \A t \in F[k].placed : t \in Steps /\ t \notin W
      BY <1>6, <2>2, <3>3, <3>5 DEF Orderly
    <3>8. \A t \in F[k].placed \ F[k].wave : U[t] = T[t]
      BY <1>1, <1>7, <3>3, <3>7 DEF Orderly, Ran, Live
    <3>9. \A t \in F[k].wave : U[t].st # "none"
      BY <1>4, <1>7, <3>3, <3>7 DEF Orderly
    <3>. QED
      BY <3>1, <3>3, <3>6, <3>8, <3>9 DEF Orderly
  <2>. QED
    BY <2>1, <2>2
<1>. QED
  BY <1>11, <1>12, <1>13, <1>14 DEF Sound

LEMMA AdvancesStaysSound ==
  ASSUME NEW r \in Runs, NEW ph, NEW T, NEW F, NEW U, NEW G, Sound(r, ph, T, F), Typed(U, G),
         NEW c \in Levels, Advances(T, F, U, G, c)
  PROVE  Sound(r, ph, U, G)
<1> DEFINE W == G[c].wave
<1>1. F[c].st = "open" /\ G[c].st = "open" /\ G[c].kids = F[c].kids /\ G[c].home = F[c].home
  BY DEF Advances
<1>2. Orderly(T, F, c)
  BY <1>1 DEF Sound, Awaited
<1>3. F[c].kids \subseteq Steps /\ F[c].home \in Levels
  BY DEF Sound, Typed, Frame
<1>4. W \subseteq F[c].kids \ F[c].placed /\ \A s \in W : Counted(DependsOn, s) \subseteq F[c].placed
  BY DEF Advances, Frontier
<1>5. \A s \in W : s \in Steps /\ Parent[s] = c /\ U[s].st = "ready" /\ U[s].res = {}
  BY <1>2, <1>3, <1>4 DEF Orderly, Advances
<1>6. \A s \in Steps : s \notin W => U[s] = T[s]
  BY DEF Advances
<1>7. Root \in Levels /\ \A t \in Steps : t \in Levels /\ Parent[t] \in Levels
  BY ParentsSteps, StepsAssumption DEF Levels
<1>8. ASSUME NEW s \in Steps, Parent[s] = c PROVE ~ Live(T[s]) /\ ~ Failed(T[s])
  <2>1. Held(T, F, s) /\ Noticed(T, F, s)
    BY DEF Sound
  <2>2. s \in F[c].wave => Ran(T[s])
    BY DEF Advances
  <2>. QED
    BY <1>1, <1>8, <2>1, <2>2 DEF Held, Noticed, InWave, Ran, Live, Failed
<1>9. \A k \in Levels : k # c => Untouched(F[k], G[k])
  BY DEF Advances
<1>10. \A k \in Levels : G[k].st = F[k].st /\ G[k].home = F[k].home /\ F[k].ctx \subseteq G[k].ctx
  BY <1>1, <1>9 DEF Untouched, SameLevel, Advances
<1>11. Booked(r, ph, U, G)
  <2>1. Booked(r, ph, T, F) /\ G[Root].st = F[Root].st
    BY <1>7, <1>10 DEF Sound
  <2>2. ph # "idle"
    BY <1>1, <2>1 DEF Booked, NoFrame
  <2>3. G[Root].kids = F[Root].kids
    BY <1>1, <1>7, <1>9 DEF Untouched, SameLevel
  <2>4. ASSUME F[Root].st = "open", NEW t \in Top[r] \ G[Root].placed PROVE U[t].st = "none"
    <3>1. t \in Steps /\ Parent[t] = Root
      BY TopInSteps DEF Top
    <3>2. t \notin F[Root].placed
      BY <1>7, <1>9 DEF Untouched, SameLevel, Advances
    <3>3. t \notin W
      BY <1>5, <3>1 DEF Advances
    <3>. QED
      BY <1>6, <2>1, <2>4, <3>1, <3>2, <3>3 DEF Booked
  <2>. QED
    BY <2>1, <2>2, <2>3, <2>4 DEF Booked
<1>12. ASSUME NEW t \in Steps PROVE Begun(U, G, t) /\ Held(U, G, t) /\ Noticed(U, G, t)
  <2>1. Begun(T, F, t) /\ Held(T, F, t) /\ Noticed(T, F, t) /\ G[t].st = F[t].st
    BY <1>7, <1>10 DEF Sound
  <2>2. CASE t \in W
    <3>1. Rooted(t)
      <4>1. CASE c = Root
        BY <1>5, <2>2, <4>1 DEF Rooted
      <4>2. CASE c # Root
        <5>1. c \in Steps /\ Begun(T, F, c)
          BY <4>2 DEF Levels, Sound
        <5>2. Rooted(c) /\ Parent[t] = c
          BY <1>1, <1>5, <2>2, <5>1 DEF Begun
        <5>. QED
          BY <5>1, <5>2, ChildIsRooted
      <4>. QED
        BY <4>1, <4>2
    <3>2. F[t].st # "open"
      BY <1>5, <1>8, <2>1, <2>2 DEF Begun, Live
    <3>. QED
      BY <1>1, <1>5, <2>1, <2>2, <3>1, <3>2 DEF Begun, Held, Noticed, Live, Failed, Failures
  <2>3. CASE t \notin W
    <3>1. U[t] = T[t]
      BY <1>6, <2>3
    <3>2. Busy(T, t) => Parent[t] # c
      BY <1>8 DEF Busy
    <3>3. Busy(T, t) => Untouched(F[Parent[t]], G[Parent[t]])
      BY <1>7, <1>9, <3>2
    <3>4. Parent[t] # Root /\ Failed(T[Parent[t]]) => U[Parent[t]] = T[Parent[t]]
      BY <1>5, <1>6, <1>8, ParentsSteps
    <3>5. Held(U, G, t)
      BY <2>1, <3>1, <3>3, <3>4 DEF Held, Busy, Failed, Untouched, SameLevel
    <3>6. Noticed(U, G, t)
      BY <2>1, <3>1, <3>3, <3>4 DEF Noticed, InWave, Busy, Untouched, SameLevel
    <3>. QED
      BY <2>1, <3>1, <3>5, <3>6 DEF Begun
  <2>. QED
    BY <2>2, <2>3
<1>13. ASSUME NEW k \in Levels PROVE HomeOk(G, k)
  BY <1>7, <1>10 DEF HomeOk, Sound, Levels
<1>14. ASSUME NEW k \in Levels, Awaited(U, G, k) PROVE Orderly(U, G, k)
  <2>1. F[k].home \in Levels /\ F[k].kids \subseteq Steps
    BY DEF Sound, Typed, Frame
  <2>2. F[F[k].home].ctx \subseteq G[F[k].home].ctx
    BY <1>10, <2>1
  <2>3. CASE k = c
    <3>1. G[c].placed = F[c].placed \cup W /\ W \cap F[c].placed = {}
      BY <1>4 DEF Advances
    <3>2. \A s \in F[c].placed : s \in Steps /\ s \notin W /\ U[s] = T[s]
      BY <1>2, <1>3, <1>4, <1>6 DEF Orderly
    <3>3. \A s \in F[c].placed : Ran(T[s]) /\ Extractors(T[s].res) \subseteq G[F[c].home].ctx
      <4>1. \A s \in F[c].wave : Ran(T[s]) /\ Extractors(T[s].res) \subseteq G[F[c].home].ctx
        BY DEF Advances
      <4>. QED
        BY <1>2, <2>2, <2>3, <4>1 DEF Orderly
    <3>4. Failures(G[c].res) = {}
      BY DEF Advances
    <3>. QED
      BY <1>1, <1>2, <1>4, <1>5, <2>3, <3>1, <3>2, <3>3, <3>4 DEF Orderly
  <2>4. CASE k # c
    <3>1. Untouched(F[k], G[k])
      BY <1>9, <2>4
    <3>2. Awaited(T, F, k)
      BY <1>5, <1>6, <1>14, <2>4, <3>1 DEF Awaited, Untouched
    <3>3. Orderly(T, F, k)
      BY <3>2 DEF Sound
    <3>4. \A t \in F[k].placed : U[t] = T[t]
      BY <1>5, <1>6, <2>1, <2>4, <3>3 DEF Orderly
    <3>. QED
      BY <2>2, <3>1, <3>3, <3>4 DEF Orderly, Untouched, SameLevel
  <2>. QED
    BY <2>3, <2>4
<1>. QED
  BY <1>11, <1>12, <1>13, <1>14 DEF Sound

LEMMA ShutsStaysSound ==
  ASSUME NEW r \in Runs, NEW ph, NEW T, NEW F, NEW U, NEW G, Sound(r, ph, T, F), Typed(U, G),
         NEW c \in Levels, NEW X, Shuts(T, F, U, G, c, X), NEW q,
         IF c = Root THEN q \notin {"idle", "running"} ELSE q = ph
  PROVE  Sound(r, q, U, G)
<1>1. F[c].st = "open" /\ G[c].st = "over"
  BY DEF Shuts
<1>2. Root \in Levels /\ Root \notin Steps /\ \A t \in Steps : t \in Levels /\ Parent[t] \in Levels
  BY ParentsSteps, StepsAssumption DEF Levels
<1>3. c # Root => /\ c \in Steps /\ T[c].st = "inside" /\ Live(T[c]) /\ U[c].st \in {"done", "raised"}
                  /\ Begun(T, F, c) /\ Held(T, F, c)
  BY <1>1 DEF Shuts, Sound, Begun, Levels, Live
<1>4. \A s \in Steps : s # c /\ s \in X =>
        Live(T[s]) /\ U[s].st = "cancelled" /\ U[s].res = T[s].res /\ Failed(U[s])
  BY DEF Shuts, Failed
<1>5. \A s \in Steps : s # c /\ s \notin X => U[s].st = T[s].st /\ U[s].res = T[s].res
  BY DEF Shuts
<1>6. \A k \in Levels : SameLevel(F[k], G[k])
  BY DEF Shuts
<1>7. \A k \in Levels : k # c => G[k].res = F[k].res
  BY DEF Shuts
<1>8. \A k \in Levels : k # c /\ (k \notin X \/ F[k].st # "open") => G[k].st = F[k].st
  BY DEF Shuts
<1>9. \A k \in Levels : k = c \/ (k \in X /\ F[k].st = "open") => G[k].st = "over"
  BY DEF Shuts
<1>10. \A s \in Steps : Live(U[s]) => s # c /\ s \notin X /\ Live(T[s])
  BY <1>3, <1>4, <1>5, <1>2 DEF Live
<1>11. \A s \in Steps : Live(T[s]) => T[s].st # "none" /\ ~ Failed(T[s])
  BY DEF Sound, Held, Live, Failed
<1>12. c # Root => \A s \in Steps : Parent[s] = c /\ Failed(U[s]) => Failed(U[c])
  BY DEF Shuts
<1>13. \A s \in Steps : Parent[s] = c /\ s # c => ~ Live(U[s])
  BY <1>10 DEF Shuts
<1>14. \A s \in Steps : s # c /\ s \notin X => (Live(U[s]) <=> Live(T[s])) /\ (Failed(U[s]) <=> Failed(T[s])) /\ (Ran(U[s]) <=> Ran(T[s]))
  BY <1>5 DEF Live, Failed, Ran
<1>15. Booked(r, q, U, G)
  <2>1. Booked(r, ph, T, F) /\ Root \notin X
    BY <1>2 DEF Sound, Shuts
  <2>2. ph # "idle"
    BY <1>1, <2>1 DEF Booked, NoFrame
  <2>3. CASE c = Root
    BY <1>1, <2>2, <2>3 DEF Booked
  <2>4. CASE c # Root
    <3>1. G[Root].st = F[Root].st /\ G[Root].kids = F[Root].kids /\ G[Root].placed = F[Root].placed
      BY <1>2, <1>6, <1>8, <2>1, <2>4 DEF SameLevel
    <3>2. ASSUME F[Root].st = "open", NEW t \in Top[r] \ F[Root].placed PROVE U[t].st = "none"
      <4>1. T[t].st = "none" /\ t \in Steps
        BY <2>1, <3>2, TopInSteps DEF Booked
      <4>2. t # c /\ t \notin X
        BY <1>3, <1>4, <1>11, <2>4, <4>1
      <4>. QED
        BY <1>5, <4>1, <4>2
    <3>. QED
      BY <2>1, <2>2, <2>4, <3>1, <3>2 DEF Booked
  <2>. QED
    BY <2>3, <2>4
<1>16. ASSUME NEW t \in Steps PROVE Begun(U, G, t) /\ Held(U, G, t) /\ Noticed(U, G, t)
  <2>1. Begun(T, F, t) /\ Held(T, F, t) /\ Noticed(T, F, t)
    BY DEF Sound
  <2>2. SameLevel(F[Parent[t]], G[Parent[t]])
    BY <1>2, <1>6
  <2>3. Begun(U, G, t)
    <3>1. CASE t = c
      BY <1>1, <1>2, <1>3, <2>1, <3>1 DEF Begun
    <3>2. CASE t # c /\ t \in X
      <4>1. G[t].st # "open"
        BY <1>2, <1>8, <1>9, <3>2
      <4>. QED
        BY <1>2, <1>4, <1>11, <2>1, <3>2, <4>1 DEF Begun
    <3>3. CASE t # c /\ t \notin X
      BY <1>2, <1>5, <1>8, <2>1, <3>3 DEF Begun
    <3>. QED
      BY <3>1, <3>2, <3>3
  <2>4. Held(U, G, t)
    <3> SUFFICES ASSUME Live(U[t]) PROVE Held(U, G, t)
      BY DEF Held
    <3>1. Live(T[t]) /\ t # c /\ t \notin X /\ U[t].res = T[t].res
      BY <1>5, <1>10
    <3>2. Parent[t] # c
      BY <1>13, <3>1
    <3>3. CASE Parent[t] = Root
      BY <1>2, <1>8, <2>1, <2>2, <3>1, <3>2, <3>3 DEF Held, SameLevel, Shuts
    <3>4. CASE Parent[t] \in Steps /\ Parent[t] \in X
      BY <1>2, <1>4, <2>1, <2>2, <3>1, <3>2, <3>4 DEF Held, SameLevel
    <3>5. CASE Parent[t] \in Steps /\ Parent[t] \notin X
      BY <1>2, <1>5, <1>8, <2>1, <2>2, <3>1, <3>2, <3>5 DEF Held, SameLevel
    <3>. QED
      BY <3>3, <3>4, <3>5, ParentsSteps
  <2>5. Noticed(U, G, t)
    <3> SUFFICES ASSUME Failed(U[t]) PROVE Noticed(U, G, t)
      BY DEF Noticed
    <3> DEFINE p == Parent[t]
    <3>1. Busy(T, t)
      BY <1>2, <1>3, <1>4, <1>14 DEF Busy
    <3>2. CASE p = c
      BY <1>1, <1>12, <3>2 DEF Noticed
    <3>3. CASE p # c /\ p \in X /\ p \in Steps
      BY <1>2, <1>4, <1>8, <1>9, <3>3 DEF Noticed
    <3>4. CASE p # c /\ p \notin X
      <4>1. G[p].st = F[p].st /\ G[p].wave = F[p].wave
        BY <1>2, <1>8, <2>2, <3>4 DEF SameLevel
      <4>2. p # Root => p \in Steps /\ (Failed(T[p]) => Failed(U[p]))
        BY <1>14, <3>4, ParentsSteps
      <4>3. T[p].st = "cancelled" => Failed(T[p])
        BY DEF Failed
      <4>4. p # Root /\ T[p].st = "cancelled" => F[p].st # "open"
        BY <4>2 DEF Sound, Begun
      <4>. QED
        BY <2>1, <3>1, <4>1, <4>2, <4>3, <4>4 DEF Noticed, Held, InWave, Busy
    <3>5. CASE p # c /\ p \in X /\ p = Root
      BY <1>2, <1>8, <1>9, <3>5 DEF Noticed
    <3>. QED
      BY <3>2, <3>3, <3>4, <3>5, ParentsSteps
  <2>. QED
    BY <2>3, <2>4, <2>5
<1>17. ASSUME NEW k \in Levels PROVE HomeOk(G, k)
  <2>1. HomeOk(F, k)
    BY DEF Sound
  <2>2. \A l \in Levels : G[l].home = F[l].home /\ (G[l].st = "off" <=> F[l].st = "off")
    BY <1>1, <1>6, <1>8, <1>9 DEF SameLevel
  <2>3. k # Root => Parent[k] \in Levels
    BY <1>2 DEF Levels
  <2>. QED
    BY <2>1, <2>2, <2>3 DEF HomeOk
<1>18. ASSUME NEW k \in Levels, Awaited(U, G, k) PROVE Orderly(U, G, k)
  <2>1. k # c
    <3>1. ~ (\E s \in Steps : Parent[s] = c /\ Live(U[s]))
      BY <1>10, <1>13
    <3>. QED
      BY <1>1, <1>18, <3>1 DEF Awaited
  <2>2. Awaited(T, F, k)
    BY <1>8, <1>9, <1>10, <1>18, <2>1 DEF Awaited
  <2>3. Orderly(T, F, k)
    BY <2>2 DEF Sound
  <2>4. F[k].kids \subseteq Steps /\ F[k].home \in Levels
    BY DEF Sound, Typed, Frame
  <2>5. SameLevel(F[k], G[k]) /\ SameLevel(F[F[k].home], G[F[k].home]) /\ G[k].res = F[k].res
    BY <1>6, <1>7, <2>1, <2>4
  <2>6. G[k].st # "off"
    BY <1>8, <1>9, <2>3 DEF Orderly
  <2>7. \A t \in F[k].wave : U[t].st # "none"
    BY <1>2, <1>3, <1>4, <1>5, <2>3, <2>4 DEF Orderly
  <2>8. \A t \in F[k].placed \ F[k].wave : Ran(U[t]) /\ U[t].res = T[t].res
    <3> SUFFICES ASSUME NEW t \in F[k].placed \ F[k].wave PROVE Ran(U[t]) /\ U[t].res = T[t].res
      OBVIOUS
    <3>1. t \in Steps /\ Ran(T[t]) /\ ~ Live(T[t])
      BY <2>3, <2>4 DEF Orderly, Ran, Live
    <3>2. t # c
      BY <1>2, <1>3, <3>1
    <3>3. t \notin X
      BY <1>4, <3>1, <3>2
    <3>. QED
      BY <1>5, <1>14, <3>1, <3>2, <3>3
  <2>. QED
    BY <2>3, <2>5, <2>6, <2>7, <2>8 DEF Orderly, SameLevel
<1>. QED
  BY <1>15, <1>16, <1>17, <1>18 DEF Sound

------------------------------------------------------------------------------
(* The actions of the engine are such steps. *)
SoundAll ==
  \A r \in Runs : Sound(r, phase[r], task[r], frame[r]) /\ (record[r].passed => Concluded(r))

(* A step of run r leaves the other runs alone. *)
OnlyRun(r) ==
  /\ task' = [task EXCEPT ![r] = task'[r]]
  /\ frame' = [frame EXCEPT ![r] = frame'[r]]
  /\ phase' = [phase EXCEPT ![r] = phase'[r]]
  /\ record' = [record EXCEPT ![r] = record'[r]]

SameBooks(r) == children' = children /\ phase' = phase /\ record' = record
Quietly(r) == task' = task /\ frame' = frame /\ children' = children

ActsStep(r, s) ==
  /\ OnlyRun(r) /\ SameBooks(r) /\ Typed(task'[r], frame'[r])
  /\ Acts(task[r], frame[r], task'[r], frame'[r], s)

LEMMA TaskFields ==
  \A t \in Task : t.attempt \in Nat /\ t.left \in Nat /\ t.res \in SUBSET Result
BY DEF Task

(* The tasks that the steps of a call make. *)
FirstCall(t, n) == [t EXCEPT !.st = "calling", !.attempt = 1, !.left = n]
NextCall(t) == [t EXCEPT !.st = "calling", !.attempt = @ + 1]
NextIteration(t, x) == [t EXCEPT !.attempt = 1, !.left = @ - 1, !.res = @ \cup {x}]
LastIteration(t, x) == [t EXCEPT !.st = "done", !.res = @ \cup {x}]
WithSt(t, st) == [t EXCEPT !.st = st]

LEMMA CallsAreTasks ==
  ASSUME NEW t \in Task, NEW n \in Nat, NEW x \in Result
  PROVE  /\ FirstCall(t, n) \in Task /\ FirstCall(t, n).st = "calling" /\ FirstCall(t, n).res = t.res
         /\ NextCall(t) \in Task /\ NextCall(t).st = "calling" /\ NextCall(t).res = t.res
         /\ t.left > 1 => NextIteration(t, x) \in Task
         /\ NextIteration(t, x).st = t.st /\ NextIteration(t, x).res = t.res \cup {x}
         /\ LastIteration(t, x) \in Task /\ LastIteration(t, x).st = "done"
<1>1. PICK st \in {"none", "ready", "calling", "backoff", "inside", "done", "raised", "cancelled"},
            a \in Nat, l \in Nat, R \in SUBSET Result :
              t = [st |-> st, attempt |-> a, left |-> l, res |-> R]
  BY DEF Task
<1>2. t.st = st /\ t.attempt = a /\ t.left = l /\ t.res = R
  BY <1>1
<1>3. FirstCall(t, n) = [st |-> "calling", attempt |-> 1, left |-> n, res |-> R]
  <2>1. ASSUME NEW u, u = FirstCall(t, n) PROVE u = [st |-> "calling", attempt |-> 1, left |-> n, res |-> R]
    BY <1>1, <2>1 DEF FirstCall
  <2>. QED
    BY <2>1
<1>4. NextCall(t) = [st |-> "calling", attempt |-> a + 1, left |-> l, res |-> R]
  <2>1. ASSUME NEW u, u = NextCall(t) PROVE u = [st |-> "calling", attempt |-> a + 1, left |-> l, res |-> R]
    BY <1>1, <2>1 DEF NextCall
  <2>. QED
    BY <2>1
<1>5. NextIteration(t, x) = [st |-> st, attempt |-> 1, left |-> l - 1, res |-> R \cup {x}]
  <2>1. ASSUME NEW u, u = NextIteration(t, x) PROVE u = [st |-> st, attempt |-> 1, left |-> l - 1, res |-> R \cup {x}]
    BY <1>1, <2>1 DEF NextIteration
  <2>. QED
    BY <2>1
<1>6. LastIteration(t, x) = [st |-> "done", attempt |-> a, left |-> l, res |-> R \cup {x}]
  <2>1. ASSUME NEW u, u = LastIteration(t, x) PROVE u = [st |-> "done", attempt |-> a, left |-> l, res |-> R \cup {x}]
    BY <1>1, <2>1 DEF LastIteration
  <2>. QED
    BY <2>1
<1>7. l > 1 => l - 1 \in Nat
  OBVIOUS
<1>8. R \cup {x} \in SUBSET Result
  OBVIOUS
<1>. QED
  BY <1>2, <1>3, <1>4, <1>5, <1>6, <1>7, <1>8 DEF Task

LEMMA GoesOn ==
  ASSUME TypeOK, SoundAll, NEW r \in Runs, NEW s \in Steps, SameBooks(r),
         task[r][s].st \in {"ready", "calling", "backoff"},
         task' = [task EXCEPT ![r] = [task[r] EXCEPT ![s] = task'[r][s]]],
         task'[r][s] \in Task, task'[r][s].st \in {"calling", "backoff", "done", "raised"},
         Live(task'[r][s]) => Failures(task'[r][s].res) = {},
         task[r][s].st = "ready" /\ Kind[s] # "api" =>
           task'[r][s].st = "raised" \/ (task'[r][s].st = "done" /\ task'[r][s].left = task[r][s].left),
         frame' = frame \/ frame' = [frame EXCEPT ![r][Home(r, s)].ctx = @ \cup {s}]
  PROVE  ActsStep(r, s)
<1>1. task[r] \in [Steps -> Task] /\ frame[r] \in [Levels -> Frame] /\ Typed(task[r], frame[r])
  BY DEF TypeOK, Typed
<1>2. Parent[s] \in Levels
  BY ParentsSteps DEF Levels
<1>3. Home(r, s) \in Levels
  BY <1>1, <1>2 DEF Home, Frame
<1>4. frame'[r] \in [Levels -> Frame] /\ \A c \in Levels : Untouched(frame[r][c], frame'[r][c])
  <2>1. CASE frame' = frame
    BY <1>1, <2>1 DEF Untouched, SameLevel
  <2>2. CASE frame' = [frame EXCEPT ![r][Home(r, s)].ctx = @ \cup {s}]
    <3>1. PICK h, f : h = Home(r, s) /\ f = frame[r][h]
      OBVIOUS
    <3>2. f \in Frame
      BY <1>1, <1>3, <3>1
    <3>3. PICK g : g = [f EXCEPT !.ctx = @ \cup {s}]
      OBVIOUS
    <3>4. g \in Frame /\ Untouched(f, g)
      BY <3>2, <3>3 DEF Untouched, SameLevel, Frame
    <3>5. frame'[r] = [frame[r] EXCEPT ![h] = g]
      BY <2>2, <3>1, <3>3 DEF TypeOK
    <3>. QED
      BY ONLY <1>1, <1>3, <3>1, <3>4, <3>5, r \in Runs DEF Untouched, SameLevel
  <2>. QED
    BY <2>1, <2>2
<1>5. task'[r] = [task[r] EXCEPT ![s] = task'[r][s]] /\ task'[r] \in [Steps -> Task]
  <2>1. task \in [Runs -> [Steps -> Task]]
    BY DEF TypeOK
  <2>2. PICK u : u = task'[r][s]
    OBVIOUS
  <2>3. task' = [task EXCEPT ![r] = [task[r] EXCEPT ![s] = u]]
    BY <2>2
  <2>4. task'[r] = [task[r] EXCEPT ![s] = u]
    BY ONLY <2>1, <2>3, r \in Runs
  <2>5. u \in Task
    BY <2>2
  <2>6. [task[r] EXCEPT ![s] = u] \in [Steps -> Task]
    BY ONLY <1>1, <2>5
  <2>. QED
    BY <2>2, <2>4, <2>6
<1>6. OnlyRun(r)
  <2>1. frame' = [frame EXCEPT ![r] = frame'[r]]
    BY DEF TypeOK
  <2>2. phase' = [phase EXCEPT ![r] = phase'[r]] /\ record' = [record EXCEPT ![r] = record'[r]]
    BY DEF TypeOK, SameBooks
  <2>. QED
    BY <1>5, <2>1, <2>2 DEF OnlyRun, TypeOK
<1>7. Acts(task[r], frame[r], task'[r], frame'[r], s)
  BY <1>1, <1>4, <1>5 DEF Acts, Live
<1>. QED
  BY <1>4, <1>5, <1>6, <1>7 DEF ActsStep, Typed

LEMMA SettledTask ==
  ASSUME TypeOK, NEW r \in Runs, NEW s \in Steps, NEW R \in SUBSET Result, Settle(r, s, R)
  PROVE  /\ task' = [task EXCEPT ![r] = [task[r] EXCEPT ![s] = task'[r][s]]]
         /\ task'[r][s] \in Task /\ task'[r][s].st = "done"
         /\ task'[r][s].left = task[r][s].left
<1>1. task[r] \in [Steps -> Task] /\ task[r][s] \in Task
  BY DEF TypeOK
<1>. QED
  BY <1>1 DEF Settle, TypeOK, Task

LEMMA DispatchOne ==
  ASSUME TypeOK, SoundAll, NEW r \in Runs, NEW s \in Steps, task[r][s].st = "ready", SameBooks(r)
  PROVE  /\ DispatchMarker(r, s) => ActsStep(r, s)
         /\ DispatchUnmet(r, s) => ActsStep(r, s)
         /\ DispatchApi(r, s) => ActsStep(r, s)
<1>1. task[r] \in [Steps -> Task] /\ task[r][s] \in Task
  BY DEF TypeOK
<1>2. \A v \in {"passed", "failed", "skipped"} : {Res(s, v)} \in SUBSET Result
  BY DEF Res, Result
<1>3. Failures(task[r][s].res) = {}
  BY DEF SoundAll, Sound, Held, Live
<1>5. ASSUME DispatchMarker(r, s) PROVE ActsStep(r, s)
  <2>1. Settle(r, s, {Res(s, "passed")})
    BY <1>5 DEF DispatchMarker
  <2>2. /\ task' = [task EXCEPT ![r] = [task[r] EXCEPT ![s] = task'[r][s]]]
        /\ task'[r][s] \in Task /\ task'[r][s].st = "done" /\ task'[r][s].left = task[r][s].left
    BY <1>2, <2>1, SettledTask
  <2>3. frame' = frame \/ frame' = [frame EXCEPT ![r][Home(r, s)].ctx = @ \cup {s}]
    BY <1>5 DEF DispatchMarker
  <2>. QED
    BY <2>2, <2>3, GoesOn DEF Live
<1>6. ASSUME DispatchUnmet(r, s) PROVE ActsStep(r, s)
  <2>1. PICK v \in {"passed", "failed", "skipped"} : Settle(r, s, {Res(s, v)})
    BY <1>6 DEF DispatchUnmet
  <2>2. /\ task' = [task EXCEPT ![r] = [task[r] EXCEPT ![s] = task'[r][s]]]
        /\ task'[r][s] \in Task /\ task'[r][s].st = "done" /\ task'[r][s].left = task[r][s].left
    BY <1>2, <2>1, SettledTask
  <2>3. frame' = frame
    BY <1>6 DEF DispatchUnmet
  <2>. QED
    BY <2>2, <2>3, GoesOn DEF Live
<1>7. ASSUME DispatchApi(r, s) PROVE ActsStep(r, s)
  <2>1. frame' = frame /\ Kind[s] = "api"
    BY <1>7 DEF DispatchApi
  <2>2. CASE Settle(r, s, {})
    <3>1. /\ task' = [task EXCEPT ![r] = [task[r] EXCEPT ![s] = task'[r][s]]]
          /\ task'[r][s] \in Task /\ task'[r][s].st = "done" /\ task'[r][s].left = task[r][s].left
      BY <2>2, SettledTask
    <3>. QED
      BY <2>1, <3>1, GoesOn DEF Live
  <2>3. CASE ~ Settle(r, s, {})
    <3>1. PICK n \in Times[s] :
            task' = [task EXCEPT ![r][s].st = "calling", ![r][s].attempt = 1, ![r][s].left = n]
      BY <1>7, <2>3 DEF DispatchApi
    <3>2. n \in Nat
      BY EngineAssumption
    <3>3. /\ task' = [task EXCEPT ![r] = [task[r] EXCEPT ![s] = task'[r][s]]]
          /\ task'[r][s] = [task[r][s] EXCEPT !.st = "calling", !.attempt = 1, !.left = n]
      BY <1>1, <3>1 DEF TypeOK
    <3>4. PICK t, u : t = task[r][s] /\ u = task'[r][s]
      OBVIOUS
    <3>5. u = FirstCall(t, n) /\ t \in Task
      BY <1>1, <3>3, <3>4 DEF FirstCall
    <3>6. PICK x : x \in Result
      BY <1>2
    <3>7. u \in Task /\ u.st = "calling" /\ u.res = t.res
      BY <3>2, <3>5, <3>6, CallsAreTasks
    <3>. QED
      BY <1>3, <2>1, <3>3, <3>4, <3>7, GoesOn
  <2>. QED
    BY <2>2, <2>3
<1>. QED
  BY <1>5, <1>6, <1>7

LEMMA CallGoesOn ==
  ASSUME TypeOK, SoundAll, NEW r \in Runs, NEW s \in Steps,
         Retried(r, s) \/ \E o \in Outcomes : Call(r, s, o)
  PROVE  ActsStep(r, s)
<1>1. task[r] \in [Steps -> Task] /\ task[r][s] \in Task
  BY DEF TypeOK
<1>2. task[r][s].st \in {"calling", "backoff"} /\ SameBooks(r) /\ frame' = frame
  BY DEF Retried, Call, SameBooks
<1>3. Failures(task[r][s].res) = {}
  BY <1>2 DEF SoundAll, Sound, Held, Live
<1>4. ASSUME NEW x \in Result, IterationOver(r, s, x), task[r][s].st = "calling"
      PROVE  /\ task' = [task EXCEPT ![r] = [task[r] EXCEPT ![s] = task'[r][s]]]
             /\ task'[r][s] \in Task /\ task'[r][s].st \in {"calling", "backoff", "done", "raised"}
             /\ Live(task'[r][s]) => Failures(task'[r][s].res) = {}
  <2>1. PICK t, u : t = task[r][s] /\ u = task'[r][s]
    OBVIOUS
  <2>2. /\ task' = [task EXCEPT ![r] = [task[r] EXCEPT ![s] = u]]
        /\ u = IF x.verdict # "failed" /\ t.left > 1
               THEN NextIteration(t, x) ELSE LastIteration(t, x)
    <3>1. task' = [task EXCEPT ![r] = [task[r] EXCEPT ![s] = u]]
      BY <1>1, <1>4, <2>1 DEF IterationOver, TypeOK
    <3>2. u = IF x.verdict # "failed" /\ t.left > 1
              THEN [t EXCEPT !.attempt = 1, !.left = @ - 1, !.res = @ \cup {x}]
              ELSE [t EXCEPT !.st = "done", !.res = @ \cup {x}]
      <4>1. PICK w : w = IF x.verdict # "failed" /\ task[r][s].left > 1
              THEN [task[r][s] EXCEPT !.attempt = 1, !.left = @ - 1, !.res = @ \cup {x}]
              ELSE [task[r][s] EXCEPT !.st = "done", !.res = @ \cup {x}]
        OBVIOUS
      <4>2. task' = [task EXCEPT ![r][s] = w]
        BY <1>4, <4>1 DEF IterationOver
      <4>3. u = w
        BY <1>1, <2>1, <4>2 DEF TypeOK
      <4>. QED
        BY <2>1, <4>1, <4>3
    <3>. QED
      BY <3>1, <3>2 DEF NextIteration, LastIteration
  <2>3. t \in Task /\ t.st = "calling" /\ Failures(t.res) = {}
    BY <1>1, <1>3, <1>4, <2>1
  <2>4. CASE x.verdict # "failed" /\ t.left > 1
    <3>1. u \in Task /\ u.st = "calling" /\ u.res = t.res \cup {x}
      BY <2>2, <2>3, <2>4, CallsAreTasks
    <3>2. Failures(t.res \cup {x}) = {}
      BY <2>3, <2>4 DEF Failures
    <3>. QED
      BY <2>1, <2>2, <3>1, <3>2
  <2>5. CASE ~ (x.verdict # "failed" /\ t.left > 1)
    <3>1. u \in Task /\ u.st = "done"
      BY <2>2, <2>3, <2>5, CallsAreTasks
    <3>. QED
      BY <2>1, <2>2, <3>1 DEF Live
  <2>. QED
    BY <2>4, <2>5
<1>5. ASSUME NEW x \in Result, IterationOver(r, s, x), task[r][s].st = "calling"
      PROVE  ActsStep(r, s)
  BY <1>2, <1>4, <1>5, GoesOn
<1>6. Res(s, "failed") \in Result /\ \A o : [Res(s, "passed") EXCEPT !.extracted = (o = "pass")] \in Result
  BY DEF Res, Result
<1>7. ASSUME NEW o \in Outcomes, Call(r, s, o) PROVE ActsStep(r, s)
  <2>. task[r][s].st = "calling"
    BY <1>7 DEF Call
  <2>1. CASE CallPasses(r, s, o)
    BY <1>5, <1>6, <2>1 DEF CallPasses
  <2>2. CASE ApiMissing(r, s, o)
    BY <1>5, <1>6, <2>2 DEF ApiMissing
  <2>3. CASE CallFails(r, s, o)
    <3>1. CASE task[r][s].attempt <= Retry[s]
      <4>1. task' = [task EXCEPT ![r][s].st = "backoff"]
        BY <2>3, <3>1 DEF CallFails
      <4>2. /\ task' = [task EXCEPT ![r] = [task[r] EXCEPT ![s] = task'[r][s]]]
            /\ task'[r][s] = [task[r][s] EXCEPT !.st = "backoff"]
        BY <1>1, <4>1 DEF TypeOK
      <4>3. task'[r][s] \in Task /\ task'[r][s].st = "backoff" /\ task'[r][s].res = task[r][s].res
        BY <1>1, <4>2 DEF Task
      <4>. QED
        BY <1>2, <1>3, <4>2, <4>3, GoesOn
    <3>2. CASE ~ (task[r][s].attempt <= Retry[s])
      BY <1>5, <1>6, <2>3, <3>2 DEF CallFails
    <3>. QED
      BY <3>1, <3>2
  <2>4. CASE CallRaises(r, s, o)
    <3>1. /\ task' = [task EXCEPT ![r] = [task[r] EXCEPT ![s] = task'[r][s]]]
          /\ task'[r][s] = [task[r][s] EXCEPT !.st = "raised"]
      BY <1>1, <2>4 DEF CallRaises, TypeOK
    <3>2. task'[r][s] \in Task /\ task'[r][s].st = "raised"
      BY <1>1, <3>1 DEF Task
    <3>. QED
      BY <1>2, <3>1, <3>2, GoesOn DEF Live
  <2>. QED
    BY <1>7, <2>1, <2>2, <2>3, <2>4 DEF Call
<1>8. ASSUME Retried(r, s) PROVE ActsStep(r, s)
  <2>1. /\ task' = [task EXCEPT ![r] = [task[r] EXCEPT ![s] = task'[r][s]]]
        /\ task'[r][s] = [task[r][s] EXCEPT !.st = "calling", !.attempt = @ + 1]
    BY <1>1, <1>8 DEF Retried, TypeOK
  <2>2. PICK t, u : t = task[r][s] /\ u = task'[r][s]
    OBVIOUS
  <2>3. t \in Task /\ u = NextCall(t)
    BY <1>1, <2>1, <2>2 DEF NextCall
  <2>4. u \in Task /\ u.st = "calling" /\ u.res = t.res
    BY <1>6, <2>3, CallsAreTasks
  <2>. QED
    BY <1>2, <1>3, <2>1, <2>2, <2>4, GoesOn
<1>. QED
  BY <1>7, <1>8

(* The tasks and frames that the opening of a level makes. *)
LEMMA CreatedFields ==
  Created \in Task /\ Created.st = "ready" /\ Created.left = 0 /\ Created.res = {}
<1>1. ASSUME NEW u, u = Created PROVE u = [st |-> "ready", attempt |-> 0, left |-> 0, res |-> {}]
  BY <1>1 DEF Created, NoTask
<1>2. Created = [st |-> "ready", attempt |-> 0, left |-> 0, res |-> {}]
  BY <1>1
<1>. QED
  BY <1>2 DEF Task

LEMMA OpenedFields ==
  ASSUME NEW K \in SUBSET Steps, NEW h \in Levels, NEW x \in SUBSET Steps
  PROVE  /\ Opened(K, h, x) \in Frame
         /\ Opened(K, h, x).st = "open" /\ Opened(K, h, x).kids = K /\ Opened(K, h, x).res = {}
         /\ Opened(K, h, x).home = h /\ Opened(K, h, x).ctx = x
         /\ Opened(K, h, x).wave = Frontier(DependsOn, K, {})
         /\ Opened(K, h, x).placed = Frontier(DependsOn, K, {})
         /\ Frontier(DependsOn, K, {}) \subseteq K
<1>1. Frontier(DependsOn, K, {}) \in SUBSET Steps /\ Frontier(DependsOn, K, {}) \subseteq K
  BY DEF Frontier
<1>. QED
  BY <1>1 DEF Opened, Frame

LEMMA WithCreatedTyped ==
  ASSUME NEW T \in [Steps -> Task], NEW W
  PROVE  /\ WithCreated(T, W) \in [Steps -> Task]
         /\ \A t \in Steps : t \in W => WithCreated(T, W)[t] = Created
         /\ \A t \in Steps : t \notin W => WithCreated(T, W)[t] = T[t]
BY CreatedFields DEF WithCreated

InsideTask(t, n, R) == [t EXCEPT !.st = "inside", !.left = n, !.res = R]
LEMMA InsideTaskFields ==
  ASSUME NEW t \in Task, NEW n \in Nat, NEW R \in SUBSET Result
  PROVE  /\ InsideTask(t, n, R) \in Task /\ InsideTask(t, n, R).st = "inside"
         /\ InsideTask(t, n, R).left = n /\ InsideTask(t, n, R).res = R
<1>1. PICK st \in {"none", "ready", "calling", "backoff", "inside", "done", "raised", "cancelled"},
            a \in Nat, l \in Nat, P \in SUBSET Result :
              t = [st |-> st, attempt |-> a, left |-> l, res |-> P]
  BY DEF Task
<1>2. ASSUME NEW u, u = InsideTask(t, n, R)
      PROVE  u = [st |-> "inside", attempt |-> a, left |-> n, res |-> R]
  BY <1>1, <1>2 DEF InsideTask
<1>3. InsideTask(t, n, R) = [st |-> "inside", attempt |-> a, left |-> n, res |-> R]
  BY <1>2
<1>. QED
  BY <1>3 DEF Task

OpensStep(r, c) ==
  /\ OnlyRun(r) /\ SameBooks(r) /\ Typed(task'[r], frame'[r])
  /\ Opens(task[r], frame[r], task'[r], frame'[r], c)
  /\ frame'[r][c].kids = Children(r, c)

LEMMA ChildrenAreBelow ==
  ASSUME NEW r \in Runs, NEW c, TypeOK
  PROVE  Children(r, c) \in SUBSET Steps /\ \A s \in Children(r, c) : Parent[s] = c
<1>1. children[EngineOf[r]] \in Runs \cup {Nobody}
  BY EngineAssumption DEF TypeOK
<1>. QED
  BY <1>1, StepsAssumption DEF Children

(* A container that begins, or begins again, with nothing under way below  *)
(* it opens its level over the children it finds.                          *)
Reopens(r, c, h, x, n, R) ==
  /\ frame' = [frame EXCEPT ![r] = [frame[r] EXCEPT ![c] = Opened(Children(r, c), h, x)]]
  /\ task' = [task EXCEPT ![r] =
       [WithCreated(task[r], Opened(Children(r, c), h, x).wave)
          EXCEPT ![c] = InsideTask(task[r][c], n, R)]]
LEMMA OpeningOpens ==
  ASSUME TypeOK, SoundAll, NEW r \in Runs, NEW c \in Steps, SameBooks(r),
         Live(task[r][c]), Container(c), Sortable(DependsOn, Children(r, c)),
         \A s \in Steps : Parent[s] = c => ~ Busy(task[r], s),
         NEW h \in Levels, NEW x \in SUBSET Steps, NEW n \in Nat, NEW R \in SUBSET Result,
         Failures(R) = {},
         h = IF Kind[c] = "loop" THEN c ELSE frame[r][Parent[c]].home,
         Reopens(r, c, h, x, n, R)
  PROVE  OpensStep(r, c)
<1> DEFINE K == Children(r, c)
           W == Frontier(DependsOn, K, {})
<1>1. task[r] \in [Steps -> Task] /\ frame[r] \in [Levels -> Frame] /\ c \in Levels
  BY DEF TypeOK, Levels
<1>2. K \in SUBSET Steps /\ \A s \in K : Parent[s] = c
  BY ChildrenAreBelow
<1>3. PICK f : f = Opened(K, h, x)
  OBVIOUS
<1>4. /\ f \in Frame /\ f.st = "open" /\ f.kids = K /\ f.res = {} /\ f.home = h
      /\ f.wave = W /\ f.placed = W /\ W \subseteq K
  BY <1>2, <1>3, OpenedFields
<1>5. PICK T : T = WithCreated(task[r], W)
  OBVIOUS
<1>6. /\ T \in [Steps -> Task]
      /\ \A t \in W : T[t].st = "ready" /\ T[t].res = {} /\ T[t].left = 0
      /\ \A t \in Steps : t \notin W => T[t] = task[r][t]
  BY <1>1, <1>2, <1>4, <1>5, WithCreatedTyped, CreatedFields
<1>7. PICK u : u = InsideTask(task[r][c], n, R)
  OBVIOUS
<1>8. u \in Task /\ u.st = "inside" /\ u.res = R
  BY <1>1, <1>7, InsideTaskFields
<1>9. task' = [task EXCEPT ![r] = [T EXCEPT ![c] = u]] /\ frame' = [frame EXCEPT ![r] = [frame[r] EXCEPT ![c] = f]]
  BY <1>3, <1>4, <1>5, <1>7 DEF Reopens
<1>10. c \notin W
  BY <1>2, <1>4 DEF Busy
<1>11. /\ task'[r] \in [Steps -> Task] /\ frame'[r] \in [Levels -> Frame]
       /\ task'[r][c] = u /\ frame'[r][c] = f
       /\ \A t \in Steps \ {c} : task'[r][t] = T[t]
       /\ \A k \in Levels \ {c} : frame'[r][k] = frame[r][k]
  <2>1. PICK F, U, G : F = frame[r] /\ U = task'[r] /\ G = frame'[r]
    OBVIOUS
  <2>2. U = [T EXCEPT ![c] = u] /\ G = [F EXCEPT ![c] = f]
    BY <1>9, <2>1 DEF TypeOK
  <2>3. U \in [Steps -> Task] /\ U[c] = u /\ \A t \in Steps \ {c} : U[t] = T[t]
    BY <1>6, <1>8, <2>2
  <2>4. G \in [Levels -> Frame] /\ G[c] = f /\ \A k \in Levels \ {c} : G[k] = F[k]
    BY <1>1, <1>4, <2>1, <2>2
  <2>. QED
    BY <2>1, <2>3, <2>4
<1>12. OnlyRun(r)
  BY <1>9 DEF OnlyRun, TypeOK, SameBooks
<1>13. Opens(task[r], frame[r], task'[r], frame'[r], c)
  <2>1. \A s \in f.wave : s \in Steps \ {c}
    BY <1>2, <1>4, <1>10
  <2>2. \A s \in f.wave : task'[r][s].st = "ready" /\ task'[r][s].res = {} /\ task'[r][s].left = 0
    BY <1>4, <1>6, <1>11, <2>1
  <2>3. \A s \in Steps : s # c /\ s \notin f.wave => task'[r][s] = task[r][s]
    BY <1>4, <1>6, <1>11
  <2>. QED
    BY <1>2, <1>4, <1>8, <1>11, <2>2, <2>3 DEF Opens
<1>. QED
  BY <1>4, <1>11, <1>12, <1>13 DEF OpensStep, Typed

LEMMA EnterOpens ==
  ASSUME TypeOK, SoundAll, NEW r \in Runs, NEW s \in Steps, task[r][s].st = "ready", SameBooks(r),
         Container(s), NEW n \in Nat, Enter(r, s, n)
  PROVE  OpensStep(r, s) \/ ActsStep(r, s)
<1>1. task[r] \in [Steps -> Task] /\ task[r][s] \in Task /\ frame[r] \in [Levels -> Frame] /\ s \in Levels
  <2>1. task[r] \in [Steps -> Task] /\ frame[r] \in [Levels -> Frame]
    BY DEF TypeOK
  <2>. QED
    BY <2>1 DEF Levels
<1>2. Sound(r, phase[r], task[r], frame[r]) /\ Live(task[r][s]) /\ Failures(task[r][s].res) = {}
  BY DEF SoundAll, Sound, Held, Live
<1>3. CASE ~ Sortable(DependsOn, Children(r, s))
  <2>1. frame' = frame /\ task' = [task EXCEPT ![r][s].st = "raised", ![r][s].left = n]
    BY <1>3 DEF Enter
  <2>2. task' = [task EXCEPT ![r] = [task[r] EXCEPT ![s] = task'[r][s]]]
    BY <1>1, <2>1 DEF TypeOK
  <2>3. PICK t, u : t = task[r][s] /\ u = task'[r][s]
    OBVIOUS
  <2>4. u = [t EXCEPT !.st = "raised", !.left = n] /\ t \in Task
    BY <1>1, <2>1, <2>3 DEF TypeOK
  <2>5. u \in Task /\ u.st = "raised"
    BY <2>4 DEF Task
  <2>. QED
    BY <2>1, <2>2, <2>3, <2>5, GoesOn DEF Live
<1>4. CASE Sortable(DependsOn, Children(r, s))
  <2> DEFINE h == IF Kind[s] = "loop" THEN s ELSE frame[r][Parent[s]].home
             x == IF Kind[s] = "loop" THEN Context(r, s) ELSE {}
  <2>1. Parent[s] \in Levels
    BY ParentsSteps DEF Levels
  <2>2. frame[r][Parent[s]].home \in Levels /\ Context(r, s) \in SUBSET Steps
    BY <1>1, <2>1 DEF Context, Home, Frame
  <2>3. \A t \in Steps : Parent[t] = s => ~ Busy(task[r], t)
    <3> SUFFICES ASSUME NEW t \in Steps, Parent[t] = s, Busy(task[r], t) PROVE FALSE
      OBVIOUS
    <3>1. Held(task[r], frame[r], t) /\ Noticed(task[r], frame[r], t) /\ Begun(task[r], frame[r], s)
      BY <1>2 DEF Sound
    <3>2. s # Root
      BY StepsAssumption
    <3>. QED
      BY SMTT(30), <1>2, <3>1, <3>2 DEF Held, Noticed, InWave, Begun, Busy, Live, Failed
  <2>4. frame' = [frame EXCEPT ![r] = [frame[r] EXCEPT ![s] = Opened(Children(r, s), h, x)]]
    BY <1>1, <1>4 DEF Enter, Home, TypeOK
  <2>5. task' = [task EXCEPT ![r] =
           [WithCreated(task[r], Opened(Children(r, s), h, x).wave)
              EXCEPT ![s].st = "inside", ![s].left = n]]
    BY <1>1, <1>4 DEF Enter, Home, TypeOK
  <2>6. PICK W, T : W = Opened(Children(r, s), h, x).wave /\ T = WithCreated(task[r], W)
    OBVIOUS
  <2>7. T \in [Steps -> Task] /\ T[s] = task[r][s]
    <3>1. s \notin W
      <4>1. h \in Levels /\ x \in SUBSET Steps /\ Children(r, s) \in SUBSET Steps
        BY <1>1, <2>2, ChildrenAreBelow
      <4>2. W \subseteq Children(r, s)
        BY <2>6, <4>1, OpenedFields
      <4>. QED
        BY <1>2, <2>3, <4>2, ChildrenAreBelow DEF Busy
    <3>. QED
      BY <1>1, <2>6, <3>1, WithCreatedTyped
  <2>8. [T EXCEPT ![s].st = "inside", ![s].left = n]
          = [T EXCEPT ![s] = InsideTask(task[r][s], n, task[r][s].res)]
    <3>1. PICK t : t = task[r][s]
      OBVIOUS
    <3>2. ASSUME NEW u, u = [t EXCEPT !.st = "inside", !.left = n] PROVE u = InsideTask(t, n, t.res)
      BY <1>1, <3>1, <3>2 DEF InsideTask, Task
    <3>. QED
      BY <2>7, <3>1, <3>2
  <2>. QED
    <3>1. /\ h \in Levels /\ x \in SUBSET Steps /\ task[r][s].res \in SUBSET Result
      BY <1>1, <2>2, TaskFields
    <3>2. task' = [task EXCEPT ![r] =
           [WithCreated(task[r], Opened(Children(r, s), h, x).wave)
              EXCEPT ![s] = InsideTask(task[r][s], n, task[r][s].res)]]
      BY <2>5, <2>6, <2>8
    <3>3. Reopens(r, s, h, x, n, task[r][s].res)
      BY <2>4, <3>2 DEF Reopens
    <3>. QED
      BY <1>2, <1>4, <2>3, <3>1, <3>3, OpeningOpens
<1>. QED
  BY <1>3, <1>4

LEMMA DispatchIsAStep ==
  ASSUME TypeOK, SoundAll, NEW r \in Runs, NEW s \in Steps, Dispatch(r, s)
  PROVE  OpensStep(r, s) \/ ActsStep(r, s)
<1>1. task[r][s].st = "ready" /\ SameBooks(r)
  BY DEF Dispatch, SameBooks
<1>2. CASE DispatchMarker(r, s) \/ DispatchUnmet(r, s) \/ DispatchApi(r, s)
  BY <1>1, <1>2, DispatchOne
<1>3. CASE DispatchContainer(r, s)
  <2>1. CASE Kind[s] = "condition" /\ Enter(r, s, 1)
    BY <1>1, <2>1, EnterOpens DEF Container
  <2>2. ASSUME NEW n \in Times[s], Kind[s] = "loop", Enter(r, s, n) PROVE OpensStep(r, s) \/ ActsStep(r, s)
    <3>1. n \in Nat
      BY EngineAssumption
    <3>. QED
      BY <1>1, <2>2, <3>1, EnterOpens DEF Container
  <2>3. CASE Settle(r, s, {Res(s, "passed")}) /\ frame' = frame
    <3>1. task[r] \in [Steps -> Task] /\ {Res(s, "passed")} \in SUBSET Result
      BY DEF TypeOK, Res, Result
    <3>2. /\ task' = [task EXCEPT ![r] = [task[r] EXCEPT ![s] = task'[r][s]]]
          /\ task'[r][s] \in Task /\ task'[r][s].st = "done" /\ task'[r][s].left = task[r][s].left
      BY <2>3, <3>1, SettledTask
    <3>. QED
      BY <1>1, <2>3, <3>2, GoesOn DEF Live
  <2>. QED
    BY <1>3, <2>1, <2>2, <2>3 DEF DispatchContainer
<1>. QED
  BY <1>1, <1>2, <1>3 DEF Dispatch

(* The results of a wave, as they are appended and merged. *)
LEMMA AppendedFields ==
  ASSUME NEW W \in SUBSET Steps, NEW R \in SUBSET Result
  PROVE  /\ Appended(W, R) \in SUBSET Result
         /\ Failures(Appended(W, R)) = {} <=> Failures(R) = {}
         /\ Failures(R) = {} => Appended(W, R) = R
<1>1. \A s \in Steps : Res(s, "failed") \in Result /\ Res(s, "failed").verdict = "failed"
  BY DEF Res, Result
<1>2. CASE Cardinality(W) = 1 /\ \E s \in W : Res(s, "failed") \in R /\ Kind[s] \in {"condition", "loop"}
  <2>1. PICK s \in W : Res(s, "failed") \in R
    BY <1>2
  <2>2. Appended(W, R) = {Res(w, "failed") : w \in W}
    BY <1>2 DEF Appended
  <2>. QED
    BY <1>1, <2>1, <2>2 DEF Failures
<1>3. CASE ~ (Cardinality(W) = 1 /\ \E s \in W : Res(s, "failed") \in R /\ Kind[s] \in {"condition", "loop"})
  BY <1>3 DEF Appended
<1>. QED
  BY <1>2, <1>3

LEMMA MergedFields ==
  ASSUME NEW F \in [Levels -> Frame], NEW c \in Levels, NEW A \in SUBSET Result
  PROVE  /\ Merged(F, c, A) \in [Levels -> Frame]
         /\ \A k \in Levels : SameLevel(F[k], Merged(F, c, A)[k]) /\ Merged(F, c, A)[k].st = F[k].st
         /\ \A k \in Levels : k # c => Merged(F, c, A)[k].res = F[k].res
         /\ \A k \in Levels : k # c /\ k # F[c].home => Merged(F, c, A)[k] = F[k]
         /\ Merged(F, c, A)[c].res = F[c].res \cup A
         /\ Extractors(A) \subseteq Merged(F, c, A)[F[c].home].ctx
<1>1. F[c].home \in Levels /\ Extractors(A) \in SUBSET Steps
  BY DEF Frame, Extractors, Result
<1>2. PICK M : M = [F EXCEPT ![c].res = @ \cup A]
  OBVIOUS
<1>3. M \in [Levels -> Frame]
  BY <1>2 DEF Frame
<1>4. \A k \in Levels : /\ SameLevel(F[k], M[k]) /\ M[k].st = F[k].st
                        /\ k # c => M[k] = F[k]
  BY <1>2 DEF SameLevel, Frame
<1>5. M[c].res = F[c].res \cup A
  BY <1>2 DEF Frame
<1>6. PICK N : N = [M EXCEPT ![F[c].home].ctx = @ \cup Extractors(A)]
  OBVIOUS
<1>7. N = Merged(F, c, A)
  BY <1>2, <1>6 DEF Merged
<1>8. N \in [Levels -> Frame]
  BY <1>1, <1>3, <1>6 DEF Frame
<1>9. \A k \in Levels : /\ SameLevel(M[k], N[k]) /\ N[k].st = M[k].st /\ N[k].res = M[k].res
                        /\ k # F[c].home => N[k] = M[k]
  BY <1>1, <1>3, <1>6 DEF SameLevel, Frame
<1>10. Extractors(A) \subseteq N[F[c].home].ctx
  BY <1>1, <1>3, <1>6 DEF Frame
<1>11. \A k \in Levels : SameLevel(F[k], N[k]) /\ N[k].st = F[k].st
  BY <1>4, <1>9 DEF SameLevel
<1>. QED
  BY <1>4, <1>5, <1>7, <1>8, <1>9, <1>10, <1>11

(* The end of a level. *)
RecordType == [passed : BOOLEAN, steps : SUBSET Result, stored : BOOLEAN, diagnosed : BOOLEAN]
ShutsStep(r, c, X) ==
  /\ OnlyRun(r) /\ children' = children /\ Typed(task'[r], frame'[r])
  /\ Shuts(task[r], frame[r], task'[r], frame'[r], c, X)
  /\ IF c = Root
     THEN /\ phase'[r] \in {"saving", "savingFailed"} /\ record'[r] \in RecordType
          /\ record'[r].passed => \A s \in frame[r][Root].kids : Ran(task[r][s])
          /\ ~ record'[r].passed => \E s \in frame[r][Root].kids : Failed(task[r][s])
     ELSE /\ phase' = phase /\ record' = record
          /\ Ran(task'[r][c]) => \A s \in frame[r][c].kids : Ran(task[r][s])
          /\ \A s \in X : Parent[s] # Root

(* What is left of a level when its last wave is over: its tasks T and     *)
(* frames F, with X cancelled.                                             *)
Wound(r, c, T, F, X) ==
  /\ Typed(T, F)
  /\ frame[r][c].st = "open"
  /\ X \subseteq Steps /\ \A s \in X : Live(task[r][s]) /\ (c # Root => Parent[s] # Root)
  /\ \A s \in Steps : Parent[s] = c /\ Live(task[r][s]) /\ s # c => s \in X
  /\ \A s \in Steps : s # c =>
       /\ T[s].res = task[r][s].res /\ T[s].left = task[r][s].left
       /\ T[s].st = IF s \in X THEN "cancelled" ELSE task[r][s].st
  /\ \A k \in Levels : SameLevel(frame[r][k], F[k])
  /\ \A k \in Levels : k # c =>
       /\ F[k].st = IF k \in X /\ frame[r][k].st = "open" THEN "over" ELSE frame[r][k].st
       /\ F[k].res = frame[r][k].res

LEMMA WoundShuts ==
  ASSUME TypeOK, SoundAll, NEW r \in Runs, NEW c \in Levels, NEW T, NEW F, NEW X,
         Wound(r, c, T, F, X), NEW U, NEW G, Typed(U, G),
         G = [F EXCEPT ![c].st = "over"], \A s \in Steps : s # c => U[s] = T[s],
         c # Root => U[c].st \in {"done", "raised"},
         c # Root => ((\E s \in Steps : Parent[s] = c /\ Failed(U[s])) => Failed(U[c]))
  PROVE  Shuts(task[r], frame[r], U, G, c, X)
<1>1. F \in [Levels -> Frame]
  BY DEF Wound, Typed
<1>2. \A k \in Levels : /\ SameLevel(F[k], G[k]) /\ G[k].res = F[k].res
                        /\ G[k].st = IF k = c THEN "over" ELSE F[k].st
  BY <1>1 DEF SameLevel, Frame
<1>3. \A k \in Levels : SameLevel(frame[r][k], G[k])
  BY <1>2 DEF Wound, SameLevel
<1>4. \A k \in Levels : G[k].st = IF k = c \/ (k \in X /\ frame[r][k].st = "open") THEN "over" ELSE frame[r][k].st
  BY <1>2 DEF Wound
<1>5. \A k \in Levels \ {c} : G[k].res = frame[r][k].res
  BY <1>2 DEF Wound
<1>6. \A s \in Steps : s # c =>
        /\ U[s].res = task[r][s].res /\ U[s].left = task[r][s].left
        /\ U[s].st = IF s \in X THEN "cancelled" ELSE task[r][s].st
  BY DEF Wound
<1>7. /\ frame[r][c].st = "open" /\ X \subseteq Steps /\ \A s \in X : Live(task[r][s])
      /\ \A s \in Steps : Parent[s] = c /\ Live(task[r][s]) /\ s # c => s \in X
  BY DEF Wound
<1>. QED
  BY <1>3, <1>4, <1>5, <1>6, <1>7 DEF Shuts

(* A container that ends: its task returns or raises. *)
EndedTask(t, st, R) == [t EXCEPT !.st = st, !.res = R]
LEMMA EndedTaskFields ==
  ASSUME NEW t \in Task, NEW st \in {"done", "raised"}, NEW R \in SUBSET Result
  PROVE  EndedTask(t, st, R) \in Task /\ EndedTask(t, st, R).st = st /\ EndedTask(t, st, R).res = R
<1>1. PICK x \in {"none", "ready", "calling", "backoff", "inside", "done", "raised", "cancelled"},
            a \in Nat, l \in Nat, P \in SUBSET Result :
              t = [st |-> x, attempt |-> a, left |-> l, res |-> P]
  BY DEF Task
<1>2. ASSUME NEW u, u = EndedTask(t, st, R)
      PROVE  u = [st |-> st, attempt |-> a, left |-> l, res |-> R]
  BY <1>1, <1>2 DEF EndedTask
<1>3. EndedTask(t, st, R) = [st |-> st, attempt |-> a, left |-> l, res |-> R]
  BY <1>2
<1>. QED
  BY <1>3 DEF Task

(* The children of an open level whose wave ended well are at rest. *)
LEMMA AtRest ==
  ASSUME TypeOK, SoundAll, NEW r \in Runs, NEW c \in Levels, frame[r][c].st = "open",
         \A s \in frame[r][c].wave : Ran(task[r][s])
  PROVE  \A s \in Steps : Parent[s] = c => ~ Busy(task[r], s)
<1> SUFFICES ASSUME NEW s \in Steps, Parent[s] = c, Busy(task[r], s) PROVE FALSE
  OBVIOUS
<1>1. Held(task[r], frame[r], s) /\ Noticed(task[r], frame[r], s)
  BY DEF SoundAll, Sound
<1>. QED
  BY <1>1 DEF Held, Noticed, InWave, Busy, Ran, Live, Failed

LEMMA OverFrames ==
  ASSUME NEW F \in [Levels -> Frame], NEW c \in Levels
  PROVE  [F EXCEPT ![c].st = "over"] \in [Levels -> Frame]
BY DEF Frame

LEMMA ContainerEnds ==
  ASSUME TypeOK, SoundAll, NEW r \in Runs, NEW c \in Steps, NEW T, NEW F, NEW X,
         Wound(r, c, T, F, X), NEW st \in {"done", "raised"}, NEW R \in SUBSET Result,
         frame' = [frame EXCEPT ![r] = [F EXCEPT ![c].st = "over"]],
         task' = [task EXCEPT ![r] = [T EXCEPT ![c] = EndedTask(T[c], st, R)]],
         SameBooks(r),
         st = "done" /\ Failures(R) = {} =>
           /\ X = {} /\ \A s \in frame[r][c].kids : Ran(task[r][s])
           /\ \A s \in Steps : Parent[s] = c => ~ Busy(task[r], s)
  PROVE  ShutsStep(r, c, X)
<1>1. T \in [Steps -> Task] /\ F \in [Levels -> Frame] /\ c \in Levels /\ c # Root
  BY StepsAssumption DEF Wound, Typed, Levels
<1>2. PICK u, G, U : /\ u = EndedTask(T[c], st, R) /\ G = [F EXCEPT ![c].st = "over"]
                     /\ U = [T EXCEPT ![c] = u]
  OBVIOUS
<1>3. u \in Task /\ u.st = st /\ u.res = R
  BY <1>1, <1>2, EndedTaskFields
<1>4. U \in [Steps -> Task] /\ U[c] = u /\ \A s \in Steps : s # c => U[s] = T[s]
  BY <1>1, <1>2, <1>3
<1>5. Typed(U, G)
  BY <1>1, <1>2, <1>4, OverFrames DEF Typed
<1>6. (\E s \in Steps : Parent[s] = c /\ Failed(U[s])) => Failed(U[c])
  <2> SUFFICES ASSUME NEW s \in Steps, Parent[s] = c, Failed(U[s]), ~ Failed(U[c]) PROVE FALSE
    OBVIOUS
  <2>1. st = "done" /\ Failures(R) = {}
    BY <1>3, <1>4 DEF Failed
  <2>2. s # c /\ X = {} /\ ~ Failed(task[r][s])
    BY <2>1 DEF Busy
  <2>3. T[s].st = task[r][s].st /\ T[s].res = task[r][s].res
    BY <2>2 DEF Wound
  <2>. QED
    BY <1>4, <2>2, <2>3 DEF Failed
<1>7. Shuts(task[r], frame[r], U, G, c, X)
  BY <1>1, <1>2, <1>3, <1>4, <1>5, <1>6, WoundShuts
<1>8. task' = [task EXCEPT ![r] = U] /\ frame' = [frame EXCEPT ![r] = G]
  BY <1>2
<1>9. task'[r] = U /\ frame'[r] = G /\ OnlyRun(r)
  BY <1>8 DEF OnlyRun, TypeOK, SameBooks
<1>10. Ran(U[c]) => \A s \in frame[r][c].kids : Ran(task[r][s])
  BY <1>3, <1>4 DEF Ran
<1>11. \A s \in X : Parent[s] # Root
  BY <1>1 DEF Wound
<1>. QED
  BY <1>1, <1>5, <1>7, <1>9, <1>10, <1>11 DEF ShutsStep, SameBooks

LEMMA RootEnds ==
  ASSUME TypeOK, SoundAll, NEW r \in Runs, NEW T, NEW F, NEW X, Wound(r, Root, T, F, X),
         frame' = [frame EXCEPT ![r] = [F EXCEPT ![Root].st = "over"]],
         task' = [task EXCEPT ![r] = T], children' = children,
         NEW q \in {"saving", "savingFailed"}, phase' = [phase EXCEPT ![r] = q],
         NEW x \in RecordType, record' = [record EXCEPT ![r] = x],
         x.passed => \A s \in frame[r][Root].kids : Ran(task[r][s]),
         ~ x.passed => \E s \in frame[r][Root].kids : Failed(task[r][s])
  PROVE  ShutsStep(r, Root, X)
<1>1. T \in [Steps -> Task] /\ F \in [Levels -> Frame] /\ Root \in Levels
  BY DEF Wound, Typed, Levels
<1>2. PICK G : G = [F EXCEPT ![Root].st = "over"]
  OBVIOUS
<1>3. Typed(T, G)
  BY <1>1, <1>2, OverFrames DEF Typed
<1>4. Shuts(task[r], frame[r], T, G, Root, X)
  BY <1>1, <1>2, <1>3, WoundShuts
<1>5. task'[r] = T /\ frame'[r] = G /\ phase'[r] = q /\ record'[r] = x
  BY <1>2 DEF TypeOK
<1>6. OnlyRun(r)
  BY <1>2, <1>5 DEF OnlyRun
<1>. QED
  BY <1>1, <1>3, <1>4, <1>5, <1>6 DEF ShutsStep

(* A loop whose iteration ended well and that is not over. *)
Resumes(r, c, F, x, n, R) ==
  /\ frame' = [frame EXCEPT ![r] =
       [[F EXCEPT ![c].st = "over"] EXCEPT ![c] = Opened(Children(r, c), c, x)]]
  /\ task' = [task EXCEPT ![r] =
       [WithCreated(task[r], Opened(Children(r, c), c, x).wave) EXCEPT ![c].left = n, ![c].res = R]]
LEMMA LoopGoesOn ==
  ASSUME TypeOK, SoundAll, NEW r \in Runs, NEW c \in Steps, frame[r][c].st = "open",
         Kind[c] = "loop", Sortable(DependsOn, Children(r, c)), SameBooks(r),
         \A s \in frame[r][c].wave : Ran(task[r][s]),
         NEW F \in [Levels -> Frame],
         \A k \in Levels : k # c => F[k] = frame[r][k],
         NEW x \in SUBSET Steps, NEW n \in Nat, NEW R \in SUBSET Result, Failures(R) = {},
         Resumes(r, c, F, x, n, R)
  PROVE  OpensStep(r, c)
<1>1. task[r] \in [Steps -> Task] /\ frame[r] \in [Levels -> Frame] /\ c \in Levels
  BY DEF TypeOK, Levels
<1>2. task[r][c].st = "inside" /\ Live(task[r][c])
  <2>1. Begun(task[r], frame[r], c)
    BY DEF SoundAll, Sound
  <2>. QED
    BY <2>1 DEF Begun, Live
<1>3. \A s \in Steps : Parent[s] = c => ~ Busy(task[r], s)
  BY <1>1, AtRest
<1>4. PICK f : f = Opened(Children(r, c), c, x)
  OBVIOUS
<1>5. [[F EXCEPT ![c].st = "over"] EXCEPT ![c] = f] = [frame[r] EXCEPT ![c] = f]
  BY <1>1
<1>6. PICK W, T : W = f.wave /\ T = WithCreated(task[r], W)
  OBVIOUS
<1>7. T \in [Steps -> Task] /\ T[c] = task[r][c]
  <2>1. c \notin W
    <3>1. W \subseteq Children(r, c)
      <4>1. Children(r, c) \in SUBSET Steps
        BY ChildrenAreBelow
      <4>2. W = Frontier(DependsOn, Children(r, c), {})
        BY <1>1, <1>4, <1>6, <4>1, OpenedFields
      <4>. QED
        BY <4>2 DEF Frontier
    <3>. QED
      BY <1>2, <1>3, <3>1, ChildrenAreBelow DEF Busy
  <2>. QED
    BY <1>1, <1>6, <2>1, WithCreatedTyped
<1>8. [T EXCEPT ![c].left = n, ![c].res = R] = [T EXCEPT ![c] = InsideTask(task[r][c], n, R)]
  <2>1. PICK t : t = task[r][c]
    OBVIOUS
  <2>2. ASSUME NEW u, u = [t EXCEPT !.left = n, !.res = R] PROVE u = InsideTask(t, n, R)
    BY <1>1, <1>2, <2>1, <2>2 DEF InsideTask, Task
  <2>. QED
    BY <1>7, <2>1, <2>2
<1>9. PICK h : h = c
  OBVIOUS
<1>. QED
  <2>1. frame' = [frame EXCEPT ![r] = [frame[r] EXCEPT ![c] = Opened(Children(r, c), h, x)]]
    BY <1>4, <1>5, <1>9 DEF Resumes
  <2>2. task' = [task EXCEPT ![r] =
          [WithCreated(task[r], Opened(Children(r, c), h, x).wave)
             EXCEPT ![c] = InsideTask(task[r][c], n, R)]]
    BY <1>4, <1>6, <1>8, <1>9 DEF Resumes
  <2>3. Container(c)
    BY DEF Container
  <2>4. h \in Levels /\ h = IF Kind[c] = "loop" THEN c ELSE frame[r][Parent[c]].home
    BY <1>1, <1>9
  <2>5. Reopens(r, c, h, x, n, R)
    BY <2>1, <2>2 DEF Reopens
  <2>. QED
    BY <1>2, <1>3, <2>3, <2>4, <2>5, OpeningOpens

(* A container that goes on does not find itself among its children. *)
LEMMA OwnTask ==
  ASSUME TypeOK, NEW r \in Runs, NEW c \in Steps, Live(task[r][c]),
         \A s \in Steps : Parent[s] = c => ~ Busy(task[r], s),
         NEW h \in Levels, NEW x \in SUBSET Steps
  PROVE  WithCreated(task[r], Opened(Children(r, c), h, x).wave)[c] = task[r][c]
<1>1. task[r] \in [Steps -> Task] /\ Children(r, c) \in SUBSET Steps
  BY ChildrenAreBelow DEF TypeOK
<1>2. PICK W : W = Opened(Children(r, c), h, x).wave
  OBVIOUS
<1>3. W = Frontier(DependsOn, Children(r, c), {})
  BY <1>1, <1>2, OpenedFields
<1>4. c \notin W
  BY <1>1, <1>3, ChildrenAreBelow DEF Frontier, Busy
<1>. QED
  BY <1>1, <1>2, <1>4, WithCreatedTyped

(* How a container ends, or goes on. *)
LEMMA CloseContainer ==
  ASSUME TypeOK, SoundAll, NEW r \in Runs, NEW c \in Steps, NEW T, NEW F, NEW X,
         Wound(r, c, T, F, X), NEW ok \in BOOLEAN, Close(r, c, ok, F, T), children' = children,
         ok => /\ X = {} /\ T = task[r] /\ Failures(F[c].res) = {}
               /\ \A s \in frame[r][c].wave : Ran(task[r][s])
               /\ Kind[c] = "loop" => \A k \in Levels : k # c => F[k] = frame[r][k],
         ok /\ ~ (Kind[c] = "loop" /\ T[c].left > 1) => \A s \in frame[r][c].kids : Ran(task[r][s])
  PROVE  ShutsStep(r, c, X) \/ OpensStep(r, c)
<1>1. T \in [Steps -> Task] /\ F \in [Levels -> Frame] /\ c \in Levels /\ c # Root
  BY StepsAssumption DEF Wound, Typed, Levels
<1>2. frame[r][c].st = "open"
  BY DEF Wound
<1>3. task[r][c].st = "inside" /\ Failures(task[r][c].res) = {} /\ Live(task[r][c])
  BY <1>2 DEF SoundAll, Sound, Begun, Held, Live
<1>4. T[c] \in Task /\ T[c].res \in SUBSET Result /\ T[c].left \in Nat /\ F[c].res \in SUBSET Result
  BY <1>1, TaskFields DEF Frame
<1>5. SameBooks(r)
  BY <1>1 DEF Close, SameBooks
<1>6. ok => \A s \in Steps : Parent[s] = c => ~ Busy(task[r], s)
  BY <1>1, <1>2, AtRest
<1> DEFINE x == F[F[Parent[c]].home].ctx
           all == T[c].res \cup F[c].res
           goes == Kind[c] = "loop" /\ ok /\ T[c].left > 1
<1>7. x \in SUBSET Steps
  <2>1. Parent[c] \in Levels
    BY ParentsSteps DEF Levels
  <2>2. F[Parent[c]].home \in Levels
    BY <1>1, <2>1 DEF Frame
  <2>. QED
    BY <1>1, <2>2 DEF Frame
<1>8. CASE goes /\ Sortable(DependsOn, Children(r, c))
  <2>1. /\ frame' = [frame EXCEPT ![r] =
             [[F EXCEPT ![c].st = "over"] EXCEPT ![c] = Opened(Children(r, c), c, x)]]
        /\ task' = [task EXCEPT ![r] =
             [WithCreated(T, Opened(Children(r, c), c, x).wave) EXCEPT ![c].left = @ - 1, ![c].res = all]]
    BY <1>1, <1>8 DEF Close
  <2>2. PICK T1, n : T1 = WithCreated(task[r], Opened(Children(r, c), c, x).wave) /\ n = task[r][c].left - 1
    OBVIOUS
  <2>3. T1[c] = task[r][c] /\ n \in Nat
    <3>1. Live(task[r][c]) /\ c \in Levels
      BY <1>1, <1>3
    <3>2. \A s \in Steps : Parent[s] = c => ~ Busy(task[r], s)
      BY <1>6, <1>8
    <3>3. WithCreated(task[r], Opened(Children(r, c), c, x).wave)[c] = task[r][c]
      BY ONLY TypeOK, r \in Runs, c \in Steps, <1>7, <3>1, <3>2, OwnTask
    <3>4. T1[c] = task[r][c]
      BY <2>2, <3>3
    <3>5. T[c].left \in Nat /\ T[c].left > 1 /\ T[c] = task[r][c]
      BY <1>4, <1>8
    <3>6. n \in Nat
      BY <2>2, <3>5
    <3>. QED
      BY <3>4, <3>6
  <2>4. task' = [task EXCEPT ![r] = [T1 EXCEPT ![c].left = n, ![c].res = all]]
    <3>1. [T1 EXCEPT ![c].left = @ - 1, ![c].res = all] = [T1 EXCEPT ![c].left = n, ![c].res = all]
      BY <2>2, <2>3
    <3>. QED
      BY <1>8, <2>1, <2>2, <3>1
  <2>5. Failures(all) = {} /\ all \in SUBSET Result
    BY <1>3, <1>4, <1>8 DEF Failures
  <2>6. \A k \in Levels : k # c => F[k] = frame[r][k]
    BY <1>8
  <2>7. Resumes(r, c, F, x, n, all)
    BY <2>1, <2>2, <2>4 DEF Resumes
  <2>. QED
    BY <1>1, <1>2, <1>5, <1>7, <1>8, <2>3, <2>5, <2>6, <2>7, LoopGoesOn
<1>9. CASE goes /\ ~ Sortable(DependsOn, Children(r, c))
  <2>1. /\ frame' = [frame EXCEPT ![r] = [F EXCEPT ![c].st = "over"]]
        /\ task' = [task EXCEPT ![r] = [T EXCEPT ![c].st = "raised"]]
    BY <1>1, <1>9 DEF Close
  <2>2. [T EXCEPT ![c].st = "raised"] = [T EXCEPT ![c] = EndedTask(T[c], "raised", T[c].res)]
    <3>1. PICK t : t = T[c]
      OBVIOUS
    <3>2. ASSUME NEW u, u = [t EXCEPT !.st = "raised"] PROVE u = EndedTask(t, "raised", t.res)
      BY <1>4, <3>1, <3>2 DEF EndedTask, Task
    <3>. QED
      BY <1>1, <3>1, <3>2
  <2>. QED
    BY <1>4, <1>5, <2>1, <2>2, ContainerEnds
<1>10. CASE ~ goes
  <2> DEFINE R == all \cup {Res(c, IF ok THEN "passed" ELSE "failed")}
  <2>1. /\ frame' = [frame EXCEPT ![r] = [F EXCEPT ![c].st = "over"]]
        /\ task' = [task EXCEPT ![r] = [T EXCEPT ![c].st = "done", ![c].res = R]]
    BY <1>1, <1>10 DEF Close
  <2>2. [T EXCEPT ![c].st = "done", ![c].res = R] = [T EXCEPT ![c] = EndedTask(T[c], "done", R)]
    BY <1>1 DEF EndedTask
  <2>3. PICK v : v = IF ok THEN "passed" ELSE "failed"
    OBVIOUS
  <2>4. PICK y : y = Res(c, v)
    OBVIOUS
  <2>5. y \in Result /\ y.verdict = v
    BY <2>3, <2>4 DEF Res, Result
  <2>6. R = all \cup {y}
    BY <2>3, <2>4
  <2>7. R \in SUBSET Result /\ (Failures(R) = {} => ok)
    BY <1>4, <2>3, <2>5, <2>6 DEF Failures
  <2>. QED
    <3>1. task' = [task EXCEPT ![r] = [T EXCEPT ![c] = EndedTask(T[c], "done", R)]]
      BY ONLY <2>1, <2>2
    <3>2. ok => ~ goes
      BY <1>10
    <3>. QED
      BY ZenonT(60), <1>5, <1>6, <1>10, <2>1, <2>7, <3>1, ContainerEnds
<1>. QED
  BY <1>8, <1>9, <1>10

LEMMA CloseRoot ==
  ASSUME TypeOK, SoundAll, NEW r \in Runs, NEW T, NEW F, NEW X, Wound(r, Root, T, F, X),
         NEW ok \in BOOLEAN, Close(r, Root, ok, F, T), children' = children,
         ok => Failures(F[Root].res) = {} /\ \A s \in frame[r][Root].kids : Ran(task[r][s]),
         ~ ok => \E s \in frame[r][Root].kids : Failed(task[r][s])
  PROVE  ShutsStep(r, Root, X)
<1>1. F \in [Levels -> Frame] /\ Root \in Levels
  BY DEF Wound, Typed, Levels
<1>2. F[Root].res \in SUBSET Result
  BY <1>1 DEF Frame
<1>3. PICK q, x : /\ q = IF ok THEN "saving" ELSE "savingFailed"
                  /\ x = [record[r] EXCEPT !.steps = F[Root].res, !.passed = Verdict(ok, F[Root].res)]
  OBVIOUS
<1>4. x \in RecordType /\ (x.passed <=> ok)
  <2>1. PICK y : y = record[r]
    OBVIOUS
  <2>2. y \in RecordType
    BY <2>1 DEF TypeOK, RecordType
  <2>3. Verdict(ok, F[Root].res) = ok
    BY DEF Verdict
  <2>. QED
    BY <1>2, <1>3, <2>1, <2>2, <2>3 DEF RecordType
<1>5. /\ frame' = [frame EXCEPT ![r] = [F EXCEPT ![Root].st = "over"]]
      /\ task' = [task EXCEPT ![r] = T]
      /\ phase' = [phase EXCEPT ![r] = q] /\ q \in {"saving", "savingFailed"}
      /\ record' = [record EXCEPT ![r].steps = F[Root].res, ![r].passed = Verdict(ok, F[Root].res)]
  BY <1>3 DEF Close
<1>6. record' = [record EXCEPT ![r] = x]
  BY <1>3, <1>5
<1>. QED
  BY <1>4, <1>5, <1>6, RootEnds

(* A sortable level whose frontier is empty has started all its steps. *)
LEMMA AllPlaced ==
  ASSUME NEW K \in SUBSET Steps, NEW P \in SUBSET K, Sortable(DependsOn, K),
         Frontier(DependsOn, K, P) = {}
  PROVE  P = K
<1> SUFFICES ASSUME P # K PROVE FALSE
  OBVIOUS
<1>1. K \ P # {} /\ K \ P \in SUBSET K
  OBVIOUS
<1>2. PICK s \in K \ P : Counted(DependsOn, s) \cap (K \ P) = {}
  BY <1>1 DEF Sortable, Acyclic
<1>3. Counted(DependsOn, s) \subseteq P
  BY <1>2 DEF Sortable, KnownDependencies
<1>. QED
  BY <1>3 DEF Frontier

(* What a wave that is over comes to. *)
Collected(r, c) ==
  Appended(frame[r][c].wave, UNION {task[r][s].res : s \in frame[r][c].wave})
LEMMA WaveComesTo ==
  ASSUME TypeOK, SoundAll, NEW r \in Runs, NEW c \in Levels, frame[r][c].st = "open", WaveOver(r, c)
  PROVE  /\ Collected(r, c) \in SUBSET Result
         /\ Failures(Collected(r, c)) = {} => \A s \in frame[r][c].wave :
              Ran(task[r][s]) /\ Extractors(task[r][s].res) \subseteq Extractors(Collected(r, c))
         /\ Failures(Collected(r, c)) # {} => \E s \in frame[r][c].wave : Failed(task[r][s])
<1> DEFINE W == frame[r][c].wave
<1>1. PICK R : R = UNION {task[r][s].res : s \in W}
  OBVIOUS
<1>2. W \in SUBSET Steps
  BY DEF TypeOK, Frame
<1>3. \A s \in W : task[r][s].res \in SUBSET Result
  <2>1. \A s \in Steps : task[r][s] \in Task
    BY DEF TypeOK
  <2>. QED
    BY <1>2, <2>1, TaskFields
<1>4. R \in SUBSET Result
  BY <1>1, <1>3
<1>5. PICK A : A = Appended(W, R)
  OBVIOUS
<1>6. Collected(r, c) = A
  BY <1>1, <1>5 DEF Collected
<1>7. A \in SUBSET Result /\ (Failures(A) = {} <=> Failures(R) = {}) /\ (Failures(R) = {} => A = R)
  BY <1>2, <1>4, <1>5, AppendedFields
<1>8. ASSUME Failures(R) = {}, NEW s \in W
      PROVE  Ran(task[r][s]) /\ Extractors(task[r][s].res) \subseteq Extractors(R)
  <2>1. task[r][s].st = "done"
    BY DEF WaveOver
  <2>2. task[r][s].res \subseteq R
    BY <1>1
  <2>. QED
    BY <1>8, <2>1, <2>2 DEF Ran, Failures, Extractors
<1>9. ASSUME Failures(R) # {} PROVE \E s \in W : Failed(task[r][s])
  BY <1>1, <1>9 DEF Failures, Failed
<1>. QED
  BY <1>6, <1>7, <1>8, <1>9

AdvancesStep(r, c) ==
  /\ OnlyRun(r) /\ SameBooks(r) /\ Typed(task'[r], frame'[r])
  /\ Advances(task[r], frame[r], task'[r], frame'[r], c)

LEMMA NextWaveStarts ==
  ASSUME TypeOK, SoundAll, NEW r \in Runs, NEW c \in Levels, frame[r][c].st = "open", SameBooks(r),
         NEW F, NEW A \in SUBSET Result, F = Merged(frame[r], c, A),
         \A s \in frame[r][c].wave : Ran(task[r][s]) /\ Extractors(task[r][s].res) \subseteq Extractors(A),
         Failures(A) = {},
         NEW next, next = Frontier(DependsOn, frame[r][c].kids, frame[r][c].placed),
         frame' = [frame EXCEPT ![r] = [F EXCEPT ![c].wave = next, ![c].placed = @ \cup next]],
         task' = [task EXCEPT ![r] = WithCreated(task[r], next)]
  PROVE  AdvancesStep(r, c)
<1>1. task[r] \in [Steps -> Task] /\ frame[r] \in [Levels -> Frame]
  BY DEF TypeOK
<1>2. /\ F \in [Levels -> Frame]
      /\ \A k \in Levels : SameLevel(frame[r][k], F[k]) /\ F[k].st = frame[r][k].st
      /\ \A k \in Levels : k # c => F[k].res = frame[r][k].res
      /\ F[c].res = frame[r][c].res \cup A
      /\ Extractors(A) \subseteq F[frame[r][c].home].ctx
  BY <1>1, MergedFields
<1>3. next \in SUBSET Steps
  BY <1>1 DEF Frontier, Frame
<1>4. PICK U : U = WithCreated(task[r], next)
  OBVIOUS
<1>5. /\ U \in [Steps -> Task]
      /\ \A s \in next : U[s].st = "ready" /\ U[s].res = {} /\ U[s].left = 0
      /\ \A s \in Steps \ next : U[s] = task[r][s]
  <2>1. /\ U \in [Steps -> Task]
        /\ \A t \in Steps : t \in next => U[t] = Created
        /\ \A t \in Steps : t \notin next => U[t] = task[r][t]
    BY ONLY <1>1, <1>4, WithCreatedTyped
  <2>. QED
    BY ONLY <1>3, <2>1, CreatedFields
<1>6. PICK G : G = [F EXCEPT ![c].wave = next, ![c].placed = @ \cup next]
  OBVIOUS
<1>7. /\ G \in [Levels -> Frame] /\ \A k \in Levels \ {c} : G[k] = F[k]
      /\ G[c].wave = next /\ G[c].placed = F[c].placed \cup next /\ G[c].st = F[c].st
      /\ G[c].kids = F[c].kids /\ G[c].home = F[c].home /\ G[c].ctx = F[c].ctx /\ G[c].res = F[c].res
  <2>1. PICK f, g : f = F[c] /\ g = [f EXCEPT !.wave = next, !.placed = @ \cup next]
    OBVIOUS
  <2>2. f \in Frame
    BY <1>2, <2>1
  <2>3. g \in Frame /\ g.wave = next /\ g.placed = f.placed \cup next /\ g.st = f.st
        /\ g.kids = f.kids /\ g.home = f.home /\ g.ctx = f.ctx /\ g.res = f.res
    BY <1>3, <2>1, <2>2 DEF Frame
  <2>4. G = [F EXCEPT ![c] = g]
    BY <1>2, <1>6, <2>1
  <2>. QED
    BY ONLY c \in Levels, <1>2, <2>1, <2>3, <2>4
<1>8. Failures(G[c].res) = {}
  <2>1. Failures(frame[r][c].res) = {}
    BY DEF SoundAll, Sound, Awaited, Orderly
  <2>. QED
    BY <1>2, <1>7, <2>1 DEF Failures
<1>9. task' = [task EXCEPT ![r] = U] /\ frame' = [frame EXCEPT ![r] = G] /\ task'[r] = U /\ frame'[r] = G
  BY <1>4, <1>6 DEF TypeOK
<1>10. OnlyRun(r)
  BY <1>9 DEF OnlyRun, SameBooks, TypeOK
<1>11. \A s \in frame[r][c].wave : Extractors(task[r][s].res) \subseteq G[frame[r][c].home].ctx
  <2>1. frame[r][c].home \in Levels
    BY <1>1 DEF Frame
  <2>2. G[frame[r][c].home].ctx = F[frame[r][c].home].ctx
    BY <1>7, <2>1
  <2>. QED
    BY <1>2, <2>2
<1>12. Advances(task[r], frame[r], U, G, c)
  <2>1. \A k \in Levels \ {c} : Untouched(frame[r][k], G[k])
    BY <1>2, <1>7 DEF Untouched
  <2>2. SameLevel(frame[r][c], F[c]) /\ F[c].st = "open"
    BY <1>2
  <2>. QED
    BY <1>5, <1>7, <1>8, <1>11, <2>1, <2>2 DEF Advances, SameLevel
<1>. QED
  BY <1>5, <1>7, <1>9, <1>10, <1>12 DEF AdvancesStep, Typed

(* A wave that is over leaves nothing to cancel. *)
LEMMA NothingLeft ==
  ASSUME TypeOK, SoundAll, NEW r \in Runs, NEW c \in Levels, frame[r][c].st = "open", WaveOver(r, c),
         NEW F, NEW A \in SUBSET Result, F = Merged(frame[r], c, A)
  PROVE  Wound(r, c, task[r], F, {})
<1>1. task[r] \in [Steps -> Task] /\ frame[r] \in [Levels -> Frame]
  BY DEF TypeOK
<1>2. /\ F \in [Levels -> Frame]
      /\ \A k \in Levels : SameLevel(frame[r][k], F[k]) /\ F[k].st = frame[r][k].st
      /\ \A k \in Levels : k # c => F[k].res = frame[r][k].res
  BY <1>1, MergedFields
<1>3. ASSUME NEW s \in Steps, Parent[s] = c, Live(task[r][s]) PROVE FALSE
  <2>1. s \in frame[r][c].wave
    BY <1>3 DEF SoundAll, Sound, Held
  <2>. QED
    BY <1>3, <2>1 DEF WaveOver, Live
<1>. QED
  BY <1>1, <1>2, <1>3 DEF Wound, Typed

LEMMA WaveDoneIsAStep ==
  ASSUME TypeOK, SoundAll, NEW r \in Runs, NEW c \in Levels, WaveDone(r, c)
  PROVE  AdvancesStep(r, c) \/ ShutsStep(r, c, {}) \/ (c \in Steps /\ OpensStep(r, c))
<1>1. PICK A, F, next : /\ A = Collected(r, c) /\ F = Merged(frame[r], c, A)
                        /\ next = Frontier(DependsOn, frame[r][c].kids, frame[r][c].placed)
  OBVIOUS
<1>2. /\ frame[r][c].st = "open" /\ WaveOver(r, c) /\ children' = children
      /\ IF Failures(A) = {} /\ next # {}
         THEN /\ frame' = [frame EXCEPT ![r] = [F EXCEPT ![c].wave = next, ![c].placed = @ \cup next]]
              /\ task' = [task EXCEPT ![r] = WithCreated(@, next)]
              /\ UNCHANGED <<phase, record>>
         ELSE Close(r, c, Failures(A) = {}, F, task[r])
  BY <1>1 DEF WaveDone, Collected
<1>3. /\ A \in SUBSET Result
      /\ Failures(A) = {} => \A s \in frame[r][c].wave :
           Ran(task[r][s]) /\ Extractors(task[r][s].res) \subseteq Extractors(A)
      /\ Failures(A) # {} => \E s \in frame[r][c].wave : Failed(task[r][s])
  BY <1>1, <1>2, WaveComesTo
<1>4. CASE Failures(A) = {} /\ next # {}
  <2>1. /\ frame' = [frame EXCEPT ![r] = [F EXCEPT ![c].wave = next, ![c].placed = @ \cup next]]
        /\ task' = [task EXCEPT ![r] = WithCreated(task[r], next)]
        /\ SameBooks(r)
    BY <1>2, <1>4 DEF SameBooks, TypeOK
  <2>. QED
    BY <1>1, <1>2, <1>3, <1>4, <2>1, NextWaveStarts
<1>5. CASE ~ (Failures(A) = {} /\ next # {})
  <2>1. PICK ok \in BOOLEAN : ok <=> Failures(A) = {}
    OBVIOUS
  <2>2. Close(r, c, ok, F, task[r])
    <3>1. ok = (Failures(A) = {})
      BY <2>1
    <3>. QED
      BY <1>2, <1>5, <3>1
  <2>3. Wound(r, c, task[r], F, {})
    BY <1>1, <1>2, <1>3, NothingLeft
  <2>4. Orderly(task[r], frame[r], c)
    BY <1>2 DEF SoundAll, Sound, Awaited
  <2>5. frame[r] \in [Levels -> Frame] /\ frame[r][c].kids \in SUBSET Steps
    BY DEF TypeOK, Frame
  <2>6. /\ F[c].res = frame[r][c].res \cup A
        /\ \A k \in Levels : k # c /\ k # frame[r][c].home => F[k] = frame[r][k]
    BY <1>1, <1>3, <2>5, MergedFields
  <2>7. ok => Failures(F[c].res) = {}
    BY <2>1, <2>4, <2>6 DEF Orderly, Failures
  <2>8. ok => \A s \in frame[r][c].kids : Ran(task[r][s])
    <3> SUFFICES ASSUME ok, NEW s \in frame[r][c].kids PROVE Ran(task[r][s])
      OBVIOUS
    <3>1. next = {}
      BY <1>5, <2>1
    <3>2. frame[r][c].placed = frame[r][c].kids
      <4>1. PICK K, P : K = frame[r][c].kids /\ P = frame[r][c].placed
        OBVIOUS
      <4>2. K \in SUBSET Steps /\ P \in SUBSET K /\ Sortable(DependsOn, K)
        BY <2>4, <2>5, <4>1 DEF Orderly
      <4>3. Frontier(DependsOn, K, P) = {}
        BY <1>1, <3>1, <4>1
      <4>. QED
        BY <4>1, <4>2, <4>3, AllPlaced
    <3>. QED
      BY <1>3, <2>1, <2>4, <3>2 DEF Orderly
  <2>9. ~ ok => \E s \in frame[r][c].kids : Failed(task[r][s])
    BY <1>3, <2>1, <2>4 DEF Orderly
  <2>10. CASE c = Root
    BY <1>2, <2>2, <2>3, <2>7, <2>8, <2>9, <2>10, CloseRoot
  <2>11. CASE c # Root
    <3>1. c \in Steps
      BY <2>11 DEF Levels
    <3>2. Kind[c] = "loop" => frame[r][c].home = c
      BY <1>2 DEF SoundAll, Sound, HomeOk
    <3>3. ok => /\ Failures(F[c].res) = {} /\ \A s \in frame[r][c].wave : Ran(task[r][s])
                /\ Kind[c] = "loop" => \A k \in Levels : k # c => F[k] = frame[r][k]
      BY <1>3, <2>1, <2>6, <2>7, <3>2
    <3>. QED
      BY <1>2, <2>2, <2>3, <2>8, <3>1, <3>3, CloseContainer
  <2>. QED
    BY <2>10, <2>11
<1>. QED
  BY <1>4, <1>5

LEMMA SoleStepRaisesIsAStep ==
  ASSUME TypeOK, SoundAll, NEW r \in Runs, NEW c \in Levels, SoleStepRaises(r, c)
  PROVE  ShutsStep(r, c, {})
<1>1. PICK s \in Steps : frame[r][c].wave = {s} /\ task[r][s].st = "raised"
  BY DEF SoleStepRaises
<1>2. task[r] \in [Steps -> Task] /\ frame[r] \in [Levels -> Frame]
  BY DEF TypeOK
<1>3. frame[r][c].st = "open" /\ children' = children
  BY DEF SoleStepRaises
<1>4. Wound(r, c, task[r], frame[r], {})
  <2>1. ASSUME NEW t \in Steps, Parent[t] = c, Live(task[r][t]) PROVE FALSE
    <3>1. t \in frame[r][c].wave
      BY <2>1 DEF SoundAll, Sound, Held
    <3>. QED
      BY <1>1, <2>1, <3>1 DEF Live
  <2>. QED
    BY <1>2, <1>3, <2>1 DEF Wound, Typed, SameLevel
<1>5. frame' = [frame EXCEPT ![r] = [frame[r] EXCEPT ![c].st = "over"]]
  BY <1>2 DEF SoleStepRaises, TypeOK
<1>6. CASE c = Root
  <2>1. PICK x : x = [record[r] EXCEPT !.steps = frame[r][Root].res]
    OBVIOUS
  <2>2. phase' = [phase EXCEPT ![r] = "saving"] /\ record' = [record EXCEPT ![r] = x] /\ task' = [task EXCEPT ![r] = task[r]]
    BY <1>6, <2>1 DEF SoleStepRaises, TypeOK
  <2>3. ~ record[r].passed
    BY <1>3, <1>6 DEF SoundAll, Sound, Booked, Concluded
  <2>4. x \in RecordType /\ ~ x.passed
    <3>1. PICK y : y = record[r]
      OBVIOUS
    <3>2. y \in RecordType /\ ~ y.passed
      BY <2>3, <3>1 DEF TypeOK, RecordType
    <3>3. frame[r][Root].res \in SUBSET Result
      BY <1>2, <1>6 DEF Frame
    <3>. QED
      BY <2>1, <3>1, <3>2, <3>3 DEF RecordType
  <2>5. \E t \in frame[r][Root].kids : Failed(task[r][t])
    <3>1. Orderly(task[r], frame[r], Root)
      BY <1>3, <1>6 DEF SoundAll, Sound, Awaited
    <3>. QED
      BY <1>1, <1>6, <3>1 DEF Orderly, Failed
  <2>. QED
    BY <1>3, <1>4, <1>5, <1>6, <2>2, <2>4, <2>5, RootEnds
<1>7. CASE c # Root
  <2>1. c \in Steps /\ SameBooks(r)
    BY <1>7 DEF Levels, SoleStepRaises, SameBooks
  <2>2. task[r][c] \in Task /\ task[r][c].res \in SUBSET Result
    BY <1>2, <2>1, TaskFields
  <2>3. task' = [task EXCEPT ![r] = [task[r] EXCEPT ![c] = EndedTask(task[r][c], "raised", task[r][c].res)]]
    <3>1. task' = [task EXCEPT ![r] = [task[r] EXCEPT ![c].st = "raised"]]
      BY <1>7 DEF SoleStepRaises, TypeOK
    <3>2. [task[r] EXCEPT ![c].st = "raised"]
            = [task[r] EXCEPT ![c] = EndedTask(task[r][c], "raised", task[r][c].res)]
      <4>1. PICK t : t = task[r][c]
        OBVIOUS
      <4>2. ASSUME NEW u, u = [t EXCEPT !.st = "raised"] PROVE u = EndedTask(t, "raised", t.res)
        BY <2>2, <4>1, <4>2 DEF EndedTask, Task
      <4>. QED
        BY <1>2, <4>1, <4>2
    <3>. QED
      BY <3>1, <3>2
  <2>. QED
    BY <1>4, <1>5, <2>1, <2>2, <2>3, ContainerEnds
<1>. QED
  BY <1>6, <1>7

(* The tasks of the steps that are cancelled, and the levels they leave. *)
Struck(T, X) == [s \in Steps |-> IF s \in X THEN [T[s] EXCEPT !.st = "cancelled"] ELSE T[s]]
Dropped(F, X) ==
  [k \in Levels |-> IF k \in X /\ F[k].st = "open" THEN [F[k] EXCEPT !.st = "over"] ELSE F[k]]

LEMMA StruckFields ==
  ASSUME NEW T \in [Steps -> Task], NEW X
  PROVE  /\ Struck(T, X) \in [Steps -> Task]
         /\ \A s \in Steps : /\ Struck(T, X)[s].res = T[s].res /\ Struck(T, X)[s].left = T[s].left
                             /\ Struck(T, X)[s].st = IF s \in X THEN "cancelled" ELSE T[s].st
<1>1. ASSUME NEW t \in Task
      PROVE  [t EXCEPT !.st = "cancelled"] \in Task /\ [t EXCEPT !.st = "cancelled"].res = t.res
             /\ [t EXCEPT !.st = "cancelled"].left = t.left
             /\ [t EXCEPT !.st = "cancelled"].st = "cancelled"
  BY DEF Task
<1>. QED
  BY <1>1 DEF Struck

LEMMA DroppedFields ==
  ASSUME NEW F \in [Levels -> Frame], NEW X
  PROVE  /\ Dropped(F, X) \in [Levels -> Frame]
         /\ \A k \in Levels :
              /\ SameLevel(F[k], Dropped(F, X)[k]) /\ Dropped(F, X)[k].res = F[k].res
              /\ Dropped(F, X)[k].st = IF k \in X /\ F[k].st = "open" THEN "over" ELSE F[k].st
<1>1. ASSUME NEW f \in Frame
      PROVE  /\ [f EXCEPT !.st = "over"] \in Frame /\ SameLevel(f, [f EXCEPT !.st = "over"])
             /\ [f EXCEPT !.st = "over"].res = f.res /\ [f EXCEPT !.st = "over"].st = "over"
  BY DEF Frame, SameLevel
<1>2. \A f \in Frame : SameLevel(f, f)
  BY DEF SameLevel
<1>3. ASSUME NEW k \in Levels
      PROVE  /\ Dropped(F, X)[k] \in Frame
             /\ SameLevel(F[k], Dropped(F, X)[k]) /\ Dropped(F, X)[k].res = F[k].res
             /\ Dropped(F, X)[k].st = IF k \in X /\ F[k].st = "open" THEN "over" ELSE F[k].st
  <2>1. F[k] \in Frame
    OBVIOUS
  <2>2. CASE k \in X /\ F[k].st = "open"
    <3>1. Dropped(F, X)[k] = [F[k] EXCEPT !.st = "over"]
      BY <2>2 DEF Dropped
    <3>. QED
      BY ONLY <1>1, <2>1, <2>2, <3>1
  <2>3. CASE ~(k \in X /\ F[k].st = "open")
    <3>1. Dropped(F, X)[k] = F[k]
      BY <2>3 DEF Dropped
    <3>. QED
      BY ONLY <1>2, <2>1, <2>3, <3>1
  <2>. QED
    BY <2>2, <2>3
<1>4. Dropped(F, X) = [k \in Levels |-> Dropped(F, X)[k]]
  BY DEF Dropped
<1>. QED
  BY ONLY <1>3, <1>4

LEMMA WaveRaisesIsAStep ==
  ASSUME TypeOK, SoundAll, NEW r \in Runs, NEW c \in Levels, WaveRaises(r, c)
  PROVE  \E X \in SUBSET Steps : ShutsStep(r, c, X) \/ (c \in Steps /\ OpensStep(r, c))
<1>1. task[r] \in [Steps -> Task] /\ frame[r] \in [Levels -> Frame]
  BY DEF TypeOK
<1> DEFINE W == frame[r][c].wave
<1>2. frame[r][c].st = "open" /\ (\E s \in W : task[r][s].st = "raised") /\ children' = children
  BY DEF WaveRaises
<1>3. W \in SUBSET Steps /\ \A s \in W : s \in frame[r][c].kids /\ Parent[s] = c
  <2>1. Orderly(task[r], frame[r], c) /\ frame[r][c] \in Frame
    BY <1>1, <1>2 DEF SoundAll, Sound, Awaited
  <2>. QED
    BY <2>1 DEF Orderly, Frame
<1>4. PICK X, T, D :
        /\ X = {t \in UNION {Within(r, s) : s \in {w \in W : Live(task[r][w])}} : Live(task[r][t])}
        /\ T = Struck(task[r], X) /\ D = Dropped(frame[r], X)
  OBVIOUS
<1>5. PICK kept \in SUBSET {s \in W : task[r][s].st = "done"} :
        Close(r, c, FALSE, Merged(D, c, UNION {task[r][s].res : s \in kept}), T)
  BY <1>4 DEF WaveRaises, Struck, Dropped
<1>6. PICK A, F : A = UNION {task[r][s].res : s \in kept} /\ F = Merged(D, c, A)
  OBVIOUS
<1>7. A \in SUBSET Result
  <2>1. \A s \in Steps : task[r][s].res \in SUBSET Result
    BY <1>1, TaskFields
  <2>. QED
    BY <1>3, <1>6, <2>1
<1>8. X \in SUBSET Steps /\ \A s \in X : Live(task[r][s]) /\ (c # Root => Parent[s] # Root)
  <2> SUFFICES ASSUME NEW t \in X PROVE t \in Steps /\ Live(task[r][t]) /\ (c # Root => Parent[t] # Root)
    OBVIOUS
  <2>1. PICK s \in W : t \in Within(r, s)
    BY <1>4
  <2>2. t \in Steps /\ (t = s \/ s \in Ancestors[t])
    BY <1>3, <2>1 DEF Within
  <2>. QED
    BY <1>3, <1>4, <2>2, AncestorsOfTop
<1>9. \A s \in Steps : Parent[s] = c /\ Live(task[r][s]) /\ s # c => s \in X
  <2> SUFFICES ASSUME NEW s \in Steps, Parent[s] = c, Live(task[r][s]) PROVE s \in X
    OBVIOUS
  <2>1. s \in W
    BY DEF SoundAll, Sound, Held
  <2>2. s \in Within(r, s)
    BY DEF Within
  <2>. QED
    BY <1>4, <2>1, <2>2
<1>10. Wound(r, c, T, F, X)
  <2>1. /\ T \in [Steps -> Task]
        /\ \A s \in Steps : /\ T[s].res = task[r][s].res /\ T[s].left = task[r][s].left
                            /\ T[s].st = IF s \in X THEN "cancelled" ELSE task[r][s].st
    BY <1>1, <1>4, StruckFields
  <2>2. /\ D \in [Levels -> Frame]
        /\ \A k \in Levels :
              /\ SameLevel(frame[r][k], D[k]) /\ D[k].res = frame[r][k].res
              /\ D[k].st = IF k \in X /\ frame[r][k].st = "open" THEN "over" ELSE frame[r][k].st
    BY <1>1, <1>4, DroppedFields
  <2>3. /\ F \in [Levels -> Frame]
        /\ \A k \in Levels : SameLevel(D[k], F[k]) /\ F[k].st = D[k].st
        /\ \A k \in Levels : k # c => F[k].res = D[k].res
    BY <1>6, <1>7, <2>2, MergedFields
  <2>4. \A k \in Levels : SameLevel(frame[r][k], F[k])
    BY <2>2, <2>3 DEF SameLevel
  <2>. QED
    BY <1>2, <1>8, <1>9, <2>1, <2>2, <2>3, <2>4 DEF Wound, Typed
<1>11. Close(r, c, FALSE, F, T)
  BY <1>5, <1>6
<1>12. CASE c = Root
  <2>1. \E s \in frame[r][Root].kids : Failed(task[r][s])
    BY <1>2, <1>3, <1>12 DEF Failed
  <2>. QED
    BY <1>2, <1>8, <1>10, <1>11, <1>12, <2>1, CloseRoot
<1>13. CASE c # Root
  <2>1. c \in Steps
    BY <1>13 DEF Levels
  <2>. QED
    BY <1>2, <1>8, <1>10, <1>11, <2>1, CloseContainer
<1>. QED
  BY <1>12, <1>13
------------------------------------------------------------------------------
(* The beginning and the end of run_scenario. *)
StartStep(r) ==
  /\ OnlyRun(r) /\ children' = Built(r) /\ record' = record /\ Typed(task'[r], frame'[r])
  /\ phase[r] = "idle" /\ phase'[r] = "running"
  /\ Sortable(DependsOn, Top[r])
  /\ task'[r] = WithCreated(task[r], Frontier(DependsOn, Top[r], {}))
  /\ frame'[r] = [frame[r] EXCEPT ![Root] = Opened(Top[r], Root, {})]
RefuseStep(r) ==
  /\ OnlyRun(r) /\ children' = Built(r) /\ record' = record /\ task' = task /\ frame' = frame
  /\ phase[r] = "idle" /\ phase'[r] = "saving"
  /\ ~ Sortable(DependsOn, Top[r])
BooksStep(r) ==
  /\ OnlyRun(r) /\ children' = children /\ task' = task /\ frame' = frame
  /\ phase[r] \in {"savingFailed", "saving", "diagnosing"}
  /\ phase'[r] \in {"saving", "diagnosing", "returned", "crashed"}
  /\ record'[r] \in RecordType /\ record'[r].passed = record[r].passed
EngineStep(r) ==
  \/ StartStep(r) \/ RefuseStep(r) \/ BooksStep(r)
  \/ \E s \in Steps : ActsStep(r, s) \/ OpensStep(r, s)
  \/ \E c \in Levels : AdvancesStep(r, c) \/ \E X \in SUBSET Steps : ShutsStep(r, c, X)

LEMMA StartIsAStep ==
  ASSUME TypeOK, NEW r \in Runs, Start(r) PROVE StartStep(r) \/ RefuseStep(r)
<1>1. Top[r] = {s \in StepsOf[r] : Parent[s] = Root} /\ Top[r] \in SUBSET Steps
  BY TopInSteps DEF Top
<1>2. task[r] \in [Steps -> Task] /\ frame[r] \in [Levels -> Frame] /\ Root \in Levels
  BY DEF TypeOK, Levels
<1>3. phase[r] = "idle" /\ children' = Built(r) /\ record' = record
  BY DEF Start
<1>4. CASE Sortable(DependsOn, Top[r])
  <2>1. PICK U, f, G :
          /\ U = WithCreated(task[r], Frontier(DependsOn, Top[r], {}))
          /\ f = Opened(Top[r], Root, {}) /\ G = [frame[r] EXCEPT ![Root] = f]
    OBVIOUS
  <2>2. U \in [Steps -> Task] /\ f \in Frame
    BY <1>1, <1>2, <2>1, WithCreatedTyped, OpenedFields
  <2>3. G \in [Levels -> Frame]
    BY <1>2, <2>1, <2>2
  <2>4. /\ phase' = [phase EXCEPT ![r] = "running"] /\ task' = [task EXCEPT ![r] = U]
        /\ frame' = [frame EXCEPT ![r] = G]
    BY <1>1, <1>4, <2>1 DEF Start, TypeOK
  <2>5. OnlyRun(r) /\ task'[r] = U /\ frame'[r] = G /\ phase'[r] = "running"
    BY <1>3, <2>4 DEF OnlyRun, TypeOK
  <2>. QED
    BY <1>3, <1>4, <2>1, <2>2, <2>3, <2>5 DEF StartStep, Typed
<1>5. CASE ~ Sortable(DependsOn, Top[r])
  <2>1. phase' = [phase EXCEPT ![r] = "saving"] /\ task' = task /\ frame' = frame
    BY <1>1, <1>5 DEF Start
  <2>2. OnlyRun(r) /\ phase'[r] = "saving"
    BY <1>3, <2>1 DEF OnlyRun, TypeOK
  <2>. QED
    BY <1>3, <1>5, <2>1, <2>2 DEF RefuseStep
<1>. QED
  BY <1>4, <1>5

LEMMA BooksIsAStep ==
  ASSUME TypeOK, NEW r \in Runs, SaveFailed(r) \/ Save(r) \/ EnqueueDiagnosis(r) PROVE BooksStep(r)
<1>1. children' = children /\ task' = task /\ frame' = frame
  BY DEF SaveFailed, Save, EnqueueDiagnosis
<1>2. PICK q \in {"saving", "diagnosing", "returned", "crashed"} : phase' = [phase EXCEPT ![r] = q]
  BY DEF SaveFailed, Save, EnqueueDiagnosis
<1>3. phase[r] \in {"savingFailed", "saving", "diagnosing"}
  BY DEF SaveFailed, Save, EnqueueDiagnosis
<1>4. \/ record' = record
      \/ record' = [record EXCEPT ![r] = [record[r] EXCEPT !.stored = TRUE]]
      \/ \E queued \in BOOLEAN : record' = [record EXCEPT ![r] = [record[r] EXCEPT !.diagnosed = queued]]
  BY DEF SaveFailed, Save, EnqueueDiagnosis, TypeOK
<1>5. PICK y : y = record[r] /\ y \in RecordType
  BY DEF TypeOK, RecordType
<1>6. /\ [y EXCEPT !.stored = TRUE] \in RecordType /\ [y EXCEPT !.stored = TRUE].passed = y.passed
      /\ \A queued \in BOOLEAN : /\ [y EXCEPT !.diagnosed = queued] \in RecordType
                                 /\ [y EXCEPT !.diagnosed = queued].passed = y.passed
  BY <1>5 DEF RecordType
<1>7. PICK x \in RecordType : record' = [record EXCEPT ![r] = x] /\ x.passed = y.passed
  <2>1. record = [record EXCEPT ![r] = y]
    BY <1>5 DEF TypeOK
  <2>. QED
    BY <1>4, <1>5, <1>6, <2>1
<1>8. record'[r] = x /\ phase'[r] = q /\ OnlyRun(r)
  BY <1>1, <1>2, <1>7 DEF OnlyRun, TypeOK
<1>. QED
  BY <1>1, <1>3, <1>5, <1>7, <1>8 DEF BooksStep

(* Every action is one of these steps of one run. *)
LEMMA NextIsAStep ==
  ASSUME TypeOK, SoundAll, Next PROVE \E r \in Runs : EngineStep(r)
<1>1. ASSUME NEW r \in Runs, Start(r) \/ SaveFailed(r) \/ Save(r) \/ EnqueueDiagnosis(r) PROVE EngineStep(r)
  BY <1>1, StartIsAStep, BooksIsAStep DEF EngineStep
<1>2. ASSUME NEW r \in Runs, NEW s \in Steps,
             Dispatch(r, s) \/ Retried(r, s) \/ \E o \in Outcomes : Call(r, s, o)
      PROVE  EngineStep(r)
  BY <1>2, DispatchIsAStep, CallGoesOn DEF EngineStep
<1>3. ASSUME NEW r \in Runs, NEW c \in Levels, WaveDone(r, c) \/ SoleStepRaises(r, c) \/ WaveRaises(r, c)
      PROVE  EngineStep(r)
  <2>1. {} \in SUBSET Steps
    OBVIOUS
  <2>2. CASE WaveDone(r, c)
    BY <2>1, <2>2, WaveDoneIsAStep DEF EngineStep
  <2>3. CASE SoleStepRaises(r, c)
    BY <2>1, <2>3, SoleStepRaisesIsAStep DEF EngineStep
  <2>4. CASE WaveRaises(r, c)
    BY <2>4, WaveRaisesIsAStep DEF EngineStep
  <2>. QED
    BY <1>3, <2>2, <2>3, <2>4
<1>. QED
  BY <1>1, <1>2, <1>3 DEF Next

LEMMA StartIsSound ==
  ASSUME NEW r \in Runs, NEW T, NEW F, Sound(r, "idle", T, F), Sortable(DependsOn, Top[r])
  PROVE  Sound(r, "running", WithCreated(T, Frontier(DependsOn, Top[r], {})),
               [F EXCEPT ![Root] = Opened(Top[r], Root, {})])
<1>1. PICK K, W : K = Top[r] /\ W = Frontier(DependsOn, K, {})
  OBVIOUS
<1>2. K \in SUBSET Steps /\ W \subseteq K /\ \A s \in K : Parent[s] = Root
  BY <1>1, TopInSteps DEF Frontier, Top
<1>3. PICK U, f, G : U = WithCreated(T, W) /\ f = Opened(K, Root, {}) /\ G = [F EXCEPT ![Root] = f]
  OBVIOUS
<1>4. T \in [Steps -> Task] /\ F \in [Levels -> Frame] /\ Root \in Levels
  BY DEF Sound, Typed, Levels
<1>5. /\ f \in Frame /\ f.st = "open" /\ f.kids = K /\ f.res = {} /\ f.home = Root
      /\ f.wave = W /\ f.placed = W
  BY <1>1, <1>2, <1>3, <1>4, OpenedFields
<1>6. /\ \A s \in Steps : T[s].st = "none" /\ T[s].res = {}
      /\ \A k \in Levels : F[k].st = "off"
  BY DEF Sound, Booked, NoTask, NoFrame
<1>7. /\ U \in [Steps -> Task]
      /\ \A s \in W : U[s].st = "ready" /\ U[s].res = {}
      /\ \A s \in Steps : s \notin W => U[s].st = "none" /\ U[s].res = {}
  BY <1>2, <1>3, <1>4, <1>6, WithCreatedTyped, CreatedFields
<1>8. /\ G \in [Levels -> Frame] /\ G[Root] = f
      /\ \A k \in Levels : k # Root => G[k].st = "off"
  BY <1>3, <1>4, <1>5, <1>6
<1>9. Booked(r, "running", U, G)
  BY <1>1, <1>2, <1>5, <1>7, <1>8 DEF Booked
<1>10. ASSUME NEW s \in Steps PROVE Begun(U, G, s) /\ Held(U, G, s) /\ Noticed(U, G, s)
  <2>1. s \in Levels /\ s # Root
    BY StepsAssumption DEF Levels
  <2>2. U[s].st \in {"none", "ready"} /\ U[s].res = {} /\ (U[s].st = "ready" => s \in W)
    BY <1>7
  <2>3. Failures(U[s].res) = {} /\ ~ Failed(U[s])
    BY <2>2 DEF Failures, Failed
  <2>4. Begun(U, G, s)
    BY <1>2, <1>8, <2>1, <2>2 DEF Begun, Rooted
  <2>5. Held(U, G, s)
    BY <1>2, <1>5, <1>8, <2>2, <2>3 DEF Held, Live
  <2>. QED
    BY <2>3, <2>4, <2>5 DEF Noticed
<1>11. ASSUME NEW k \in Levels PROVE HomeOk(G, k)
  BY <1>5, <1>8 DEF HomeOk
<1>12. ASSUME NEW k \in Levels, Awaited(U, G, k) PROVE Orderly(U, G, k)
  <2>1. k = Root
    BY <1>2, <1>7, <1>8, <1>12 DEF Awaited, Live
  <2>2. Failures({}) = {}
    BY DEF Failures
  <2>3. \A s \in W : U[s].st # "none" /\ Counted(DependsOn, s) \subseteq W \ W
    BY <1>1, <1>7 DEF Frontier
  <2>. QED
    BY <1>1, <1>2, <1>5, <1>8, <2>1, <2>2, <2>3 DEF Orderly
<1>13. Sound(r, "running", U, G)
  BY <1>7, <1>8, <1>9, <1>10, <1>11, <1>12 DEF Sound, Typed
<1>. QED
  BY <1>1, <1>3, <1>13

(* The induction. *)
LEMMA StepKeepsSound ==
  ASSUME TypeOK, SoundAll, NEW r \in Runs, EngineStep(r)
  PROVE  Sound(r, phase'[r], task'[r], frame'[r])
<1>1. Sound(r, phase[r], task[r], frame[r])
  BY DEF SoundAll
<1>2. CASE StartStep(r)
  BY <1>1, <1>2, StartIsSound DEF StartStep
<1>3. CASE RefuseStep(r) \/ BooksStep(r)
  <2>1. Booked(r, phase'[r], task[r], frame[r])
    BY <1>1, <1>3 DEF RefuseStep, BooksStep, Sound, Booked
  <2>2. task' = task /\ frame' = frame
    BY <1>3 DEF RefuseStep, BooksStep
  <2>. QED
    BY <1>1, <2>1, <2>2 DEF Sound
<1>4. ASSUME NEW s \in Steps, ActsStep(r, s) PROVE Sound(r, phase'[r], task'[r], frame'[r])
  <2>1. phase' = phase
    BY <1>4 DEF ActsStep, SameBooks
  <2>. QED
    BY <1>1, <1>4, <2>1, ActsStaysSound DEF ActsStep
<1>5. ASSUME NEW s \in Steps, OpensStep(r, s) PROVE Sound(r, phase'[r], task'[r], frame'[r])
  <2>1. phase' = phase
    BY <1>5 DEF OpensStep, SameBooks
  <2>. QED
    BY <1>1, <1>5, <2>1, OpensStaysSound DEF OpensStep
<1>6. ASSUME NEW c \in Levels, AdvancesStep(r, c) PROVE Sound(r, phase'[r], task'[r], frame'[r])
  <2>1. phase' = phase
    BY <1>6 DEF AdvancesStep, SameBooks
  <2>. QED
    BY <1>1, <1>6, <2>1, AdvancesStaysSound DEF AdvancesStep
<1>7. ASSUME NEW c \in Levels, NEW X \in SUBSET Steps, ShutsStep(r, c, X)
      PROVE  Sound(r, phase'[r], task'[r], frame'[r])
  <2>1. IF c = Root THEN phase'[r] \notin {"idle", "running"} ELSE phase'[r] = phase[r]
    BY <1>7 DEF ShutsStep
  <2>. QED
    BY <1>1, <1>7, <2>1, ShutsStaysSound DEF ShutsStep
<1>. QED
  BY <1>2, <1>3, <1>4, <1>5, <1>6, <1>7 DEF EngineStep

LEMMA StepIsOfOneRun ==
  ASSUME TypeOK, SoundAll, NEW r \in Runs, EngineStep(r)
  PROVE  /\ OnlyRun(r) /\ children' \in {children, Built(r)}
         /\ Typed(task'[r], frame'[r]) /\ record'[r] \in RecordType
         /\ phase'[r] \in {"idle", "running", "savingFailed", "saving", "diagnosing", "returned", "crashed"}
         /\ (record'[r].passed => phase'[r] \notin {"idle", "running"})
<1>1. /\ phase[r] \in {"idle", "running", "savingFailed", "saving", "diagnosing", "returned", "crashed"}
      /\ record[r] \in RecordType /\ (record[r].passed => Concluded(r))
      /\ Typed(task[r], frame[r])
  BY DEF TypeOK, RecordType, SoundAll, Typed
<1>2. CASE StartStep(r)
  BY <1>1, <1>2 DEF StartStep, Concluded
<1>3. CASE RefuseStep(r)
  BY <1>1, <1>3 DEF RefuseStep, Concluded
<1>4. CASE BooksStep(r)
  BY <1>1, <1>4 DEF BooksStep, Concluded
<1>5. ASSUME OnlyRun(r), SameBooks(r), Typed(task'[r], frame'[r])
      PROVE  /\ OnlyRun(r) /\ children' \in {children, Built(r)}
             /\ Typed(task'[r], frame'[r]) /\ record'[r] \in RecordType
             /\ phase'[r] \in {"idle", "running", "savingFailed", "saving", "diagnosing", "returned", "crashed"}
             /\ (record'[r].passed => phase'[r] \notin {"idle", "running"})
  BY <1>1, <1>5 DEF SameBooks, Concluded
<1>6. ASSUME NEW s \in Steps, ActsStep(r, s) \/ OpensStep(r, s) \/ \E c \in Levels : AdvancesStep(r, c)
      PROVE  OnlyRun(r) /\ SameBooks(r) /\ Typed(task'[r], frame'[r])
  BY <1>6 DEF ActsStep, OpensStep, AdvancesStep
<1>7. ASSUME NEW c \in Levels, AdvancesStep(r, c)
      PROVE  OnlyRun(r) /\ SameBooks(r) /\ Typed(task'[r], frame'[r])
  BY <1>7 DEF AdvancesStep
<1>8. ASSUME NEW c \in Levels, NEW X \in SUBSET Steps, ShutsStep(r, c, X)
      PROVE  /\ OnlyRun(r) /\ children' \in {children, Built(r)}
             /\ Typed(task'[r], frame'[r]) /\ record'[r] \in RecordType
             /\ phase'[r] \in {"idle", "running", "savingFailed", "saving", "diagnosing", "returned", "crashed"}
             /\ (record'[r].passed => phase'[r] \notin {"idle", "running"})
  BY <1>1, <1>8 DEF ShutsStep, Concluded
<1>. QED
  BY <1>2, <1>3, <1>4, <1>5, <1>6, <1>7, <1>8 DEF EngineStep

LEMMA StepKeepsTypes ==
  ASSUME TypeOK, SoundAll, NEW r \in Runs, EngineStep(r) PROVE TypeOK'
<1>1. /\ OnlyRun(r) /\ children' \in {children, Built(r)}
      /\ task'[r] \in [Steps -> Task] /\ frame'[r] \in [Levels -> Frame] /\ record'[r] \in RecordType
      /\ phase'[r] \in {"idle", "running", "savingFailed", "saving", "diagnosing", "returned", "crashed"}
  BY StepIsOfOneRun DEF Typed
<1>2. children' \in [Engines -> Runs \cup {Nobody}]
  BY <1>1, EngineAssumption DEF Built, TypeOK
<1>3. task' \in [Runs -> [Steps -> Task]]
  <2>1. PICK T, U : T = task /\ U = task'[r]
    OBVIOUS
  <2>2. [T EXCEPT ![r] = U] \in [Runs -> [Steps -> Task]]
    BY <1>1, <2>1 DEF TypeOK
  <2>. QED
    BY <1>1, <2>1, <2>2 DEF OnlyRun
<1>4. frame' \in [Runs -> [Levels -> Frame]]
  <2>1. PICK F, G : F = frame /\ G = frame'[r]
    OBVIOUS
  <2>2. [F EXCEPT ![r] = G] \in [Runs -> [Levels -> Frame]]
    BY <1>1, <2>1 DEF TypeOK
  <2>. QED
    BY <1>1, <2>1, <2>2 DEF OnlyRun
<1>5. record' \in [Runs -> RecordType]
  <2>1. PICK R, x : R = record /\ x = record'[r]
    OBVIOUS
  <2>2. [R EXCEPT ![r] = x] \in [Runs -> RecordType]
    BY <1>1, <2>1 DEF TypeOK, RecordType
  <2>. QED
    BY <1>1, <2>1, <2>2 DEF OnlyRun
<1>6. phase' \in [Runs -> {"idle", "running", "savingFailed", "saving", "diagnosing", "returned", "crashed"}]
  BY <1>1 DEF OnlyRun, TypeOK
<1>. QED
  BY <1>2, <1>3, <1>4, <1>5, <1>6 DEF TypeOK, RecordType

LEMMA OthersUntouched ==
  ASSUME TypeOK, NEW r \in Runs, NEW q \in Runs, q # r, OnlyRun(r)
  PROVE  task'[q] = task[q] /\ frame'[q] = frame[q] /\ phase'[q] = phase[q] /\ record'[q] = record[q]
BY DEF OnlyRun, TypeOK

LEMMA StepKeepsSoundAll ==
  ASSUME TypeOK, SoundAll, NEW r \in Runs, EngineStep(r) PROVE SoundAll'
<1> SUFFICES ASSUME NEW q \in Runs
             PROVE  /\ Sound(q, phase'[q], task'[q], frame'[q])
                    /\ (record'[q].passed => Concluded(q)')
  BY DEF SoundAll
<1>1. CASE q = r
  BY <1>1, StepIsOfOneRun, StepKeepsSound DEF Concluded
<1>2. CASE q # r
  <2>1. task'[q] = task[q] /\ frame'[q] = frame[q] /\ phase'[q] = phase[q] /\ record'[q] = record[q]
    BY <1>2, StepIsOfOneRun, OthersUntouched
  <2>. QED
    BY <2>1 DEF SoundAll, Concluded
<1>. QED
  BY <1>1, <1>2

LEMMA InitIsSound ==
  ASSUME Init PROVE TypeOK /\ SoundAll
<1>1. PICK t, f : t = NoTask /\ f = NoFrame
  OBVIOUS
<1>2. t = [st |-> "none", attempt |-> 0, left |-> 0, res |-> {}] /\ t \in Task
  BY <1>1 DEF NoTask, Task
<1>3. /\ f = [st |-> "off", kids |-> {}, placed |-> {}, wave |-> {}, home |-> Root, ctx |-> {}, res |-> {}]
      /\ f \in Frame
  BY <1>1 DEF NoFrame, Frame, Levels
<1>4. /\ children = [e \in Engines |-> Nobody]
      /\ phase = [r \in Runs |-> "idle"]
      /\ task = [r \in Runs |-> [s \in Steps |-> t]]
      /\ frame = [r \in Runs |-> [c \in Levels |-> f]]
      /\ record = [r \in Runs |-> [passed |-> FALSE, steps |-> {}, stored |-> FALSE,
                                   diagnosed |-> FALSE]]
  BY <1>1 DEF Init
<1>5. TypeOK
  BY <1>2, <1>3, <1>4 DEF TypeOK
<1>6. ASSUME NEW r \in Runs PROVE Sound(r, phase[r], task[r], frame[r])
  <2>1. PICK T, F : T = [s \in Steps |-> t] /\ F = [c \in Levels |-> f]
    OBVIOUS
  <2>2. /\ \A s \in Steps : T[s] = t /\ ~ Live(T[s]) /\ ~ Failed(T[s])
        /\ \A c \in Levels : F[c] = f /\ F[c].st = "off"
        /\ T \in [Steps -> Task] /\ F \in [Levels -> Frame]
    BY <1>2, <1>3, <2>1 DEF Live, Failed, Failures
  <2>3. Root \in Levels /\ Steps \subseteq Levels
    BY DEF Levels
  <2>4. Booked(r, "idle", T, F)
    BY <1>1, <2>2, <2>3 DEF Booked
  <2>5. \A s \in Steps : Begun(T, F, s) /\ Held(T, F, s) /\ Noticed(T, F, s)
    BY <1>2, <2>2, <2>3 DEF Begun, Held, Noticed
  <2>6. \A c \in Levels : HomeOk(F, c) /\ ~ Awaited(T, F, c)
    BY <2>2 DEF HomeOk, Awaited
  <2>7. Sound(r, "idle", T, F)
    BY <2>2, <2>4, <2>5, <2>6 DEF Sound, Typed
  <2>8. phase[r] = "idle" /\ task[r] = T /\ frame[r] = F
    BY <1>4, <2>1
  <2>. QED
    BY <2>7, <2>8
<1>7. \A r \in Runs : ~ record[r].passed
  BY <1>4
<1>. QED
  BY <1>5, <1>6, <1>7 DEF SoundAll

LEMMA KeepsSound == TypeOK /\ SoundAll /\ [Next]_vars => TypeOK' /\ SoundAll'
<1> SUFFICES ASSUME TypeOK, SoundAll, [Next]_vars PROVE TypeOK' /\ SoundAll'
  OBVIOUS
<1>1. CASE Next
  BY <1>1, NextIsAStep, StepKeepsTypes, StepKeepsSoundAll
<1>2. CASE UNCHANGED vars
  BY <1>2 DEF vars, TypeOK, SoundAll, Concluded
<1>. QED
  BY <1>1, <1>2

LEMMA RunsAreSound == Spec => [](TypeOK /\ SoundAll)
<1>1. Init => TypeOK /\ SoundAll
  BY InitIsSound
<1> HIDE DEF Init, Next, TypeOK, SoundAll, vars
<1>. QED
  BY <1>1, KeepsSound, PTL DEF Spec

(* Every variable has its type, whatever containers hold what and however  *)
(* many runs share an engine.                                              *)
THEOREM TypeCorrect == Spec => []TypeOK
BY RunsAreSound, PTL

(* The children of a container find in its context all that the steps they *)
(* wait for extracted, whichever level or iteration that was.              *)
THEOREM ConditionsSee == Spec => []ConditionSeesDependencies
<1>1. TypeOK /\ SoundAll => ConditionSeesDependencies
  <2> SUFFICES ASSUME SoundAll, NEW r \in Runs, NEW s \in Steps, task[r][s].st = "ready",
                      NEW d \in Counted(DependsOn, s)
               PROVE  Extractors(task[r][d].res) \subseteq Context(r, s)
    BY DEF ConditionSeesDependencies
  <2>1. s \in frame[r][Parent[s]].wave
    BY DEF SoundAll, Sound, Held, Live
  <2>2. Parent[s] \in Levels
    BY ParentsSteps DEF Levels
  <2>3. Orderly(task[r], frame[r], Parent[s])
    BY <2>2 DEF SoundAll, Sound, Awaited, Live
  <2>. QED
    BY <2>1, <2>3 DEF Orderly, Context, Home
<1>. QED
  BY <1>1, RunsAreSound, PTL

(* After the verdict nothing of a run is executing, but for the steps      *)
(* below a container that was cancelled.                                   *)
THEOREM NothingRunsOn == Spec => []QuietAfterVerdict
<1>1. TypeOK /\ SoundAll => QuietAfterVerdict
  <2> SUFFICES ASSUME SoundAll, NEW r \in Runs, NEW s \in Steps, Concluded(r), Live(task[r][s]),
                      \A a \in Ancestors[s] : task[r][a].st # "cancelled"
               PROVE  FALSE
    BY DEF QuietAfterVerdict
  <2>1. Sound(r, phase[r], task[r], frame[r]) /\ frame[r][Root].st # "open"
    BY DEF SoundAll, Sound, Booked, Concluded
  <2> DEFINE S == {x \in {s} \cup Ancestors[s] : Live(task[r][x])}
  <2>2. s \in S /\ S \in SUBSET Steps
    BY DEF Ancestors
  <2>3. ASSUME NEW x \in S PROVE Parent[x] \in S
    <3>1. x \in Steps /\ Live(task[r][x]) /\ Held(task[r], frame[r], x)
      BY <2>1, <2>2, <2>3 DEF Sound
    <3>2. frame[r][Parent[x]].st = "open" \/ (Parent[x] # Root /\ task[r][Parent[x]].st = "cancelled")
      BY <3>1 DEF Held
    <3>3. Parent[x] # Root
      BY <2>1, <3>2
    <3>4. Parent[x] \in Ancestors[s]
      <4>1. CASE x = s
        BY <3>3, <4>1, ParentIsAncestor
      <4>2. CASE x # s
        BY <2>3, <3>3, <4>2, AncestorsClosed DEF Closed
      <4>. QED
        BY <4>1, <4>2
    <3>5. Parent[x] \in Steps /\ frame[r][Parent[x]].st = "open"
      BY <3>1, <3>2, <3>3, <3>4, ParentsSteps
    <3>6. Begun(task[r], frame[r], Parent[x])
      BY <2>1, <3>5 DEF Sound
    <3>. QED
      BY <3>4, <3>5, <3>6 DEF Begun, Live
  <2>4. Rooted(s)
    BY <2>1, BusyIsRooted DEF Busy
  <2>. QED
    BY <2>2, <2>3, <2>4, NoEndlessClimb
<1>. QED
  BY <1>1, RunsAreSound, PTL

(* No step that depends on another one is under way before that one ran,   *)
(* at any level and in any iteration.                                      *)
THEOREM DependenciesFirst == Spec => []DependencyOrder
<1>1. TypeOK /\ SoundAll => DependencyOrder
  <2> SUFFICES ASSUME SoundAll, NEW r \in Runs, NEW s \in Steps, Live(task[r][s]),
                      NEW d \in Counted(DependsOn, s)
               PROVE  Ran(task[r][d])
    BY DEF DependencyOrder, Live
  <2>1. s \in frame[r][Parent[s]].wave
    BY DEF SoundAll, Sound, Held
  <2>2. Parent[s] \in Levels
    BY ParentsSteps DEF Levels
  <2>3. Orderly(task[r], frame[r], Parent[s])
    BY <2>2 DEF SoundAll, Sound, Awaited
  <2>. QED
    BY <2>1, <2>3 DEF Orderly
<1>. QED
  BY <1>1, RunsAreSound, PTL
------------------------------------------------------------------------------
(* What the verdict says: a run executes top-level steps of its own only,  *)
(* "passed" is said when all of them ran, "failed" when one of them did    *)
(* not or they cannot be sorted.                                           *)
OwnTop(r) == \A s \in Steps : Parent[s] = Root /\ task[r][s].st # "none" => s \in Top[r]
Told(r) ==
  Concluded(r) =>
    IF record[r].passed THEN \A s \in Top[r] : Ran(task[r][s])
    ELSE (\E s \in Top[r] : Failed(task[r][s])) \/ ~ Sortable(DependsOn, Top[r])
ToldAll == \A r \in Runs : OwnTop(r) /\ Told(r)

(* A step that is neither live nor failed and ran stays so until its level *)
(* opens again, which the top level never does; a failed step stays failed.*)
LEMMA TopStepsSettle ==
  ASSUME TypeOK, SoundAll, NEW r \in Runs, OwnTop(r), NEW s \in Top[r], phase[r] # "idle", EngineStep(r)
  PROVE  /\ Ran(task[r][s]) => task'[r][s].st = task[r][s].st /\ task'[r][s].res = task[r][s].res
         /\ Failed(task[r][s]) => Failed(task'[r][s])
<1>1. s \in Steps /\ Parent[s] = Root /\ s # Root
  BY TopInSteps, StepsAssumption DEF Top
<1>2. Held(task[r], frame[r], s) /\ Noticed(task[r], frame[r], s) /\ Begun(task[r], frame[r], s)
  BY <1>1 DEF SoundAll, Sound
<1>3. Ran(task[r][s]) \/ Failed(task[r][s]) => ~ Live(task[r][s])
  BY <1>2 DEF Held, Ran, Failed, Live
<1>4. ASSUME task'[r][s] = task[r][s]
      PROVE  /\ Ran(task[r][s]) => task'[r][s].st = task[r][s].st /\ task'[r][s].res = task[r][s].res
             /\ Failed(task[r][s]) => Failed(task'[r][s])
  BY <1>4
<1>5. ASSUME NEW t \in Steps, ActsStep(r, t), t = s PROVE Live(task[r][s])
  BY <1>5 DEF ActsStep, Acts
<1>6. ASSUME NEW t \in Steps, ActsStep(r, t), t # s PROVE task'[r][s] = task[r][s]
  BY <1>1, <1>6 DEF ActsStep, Acts
<1>7. ASSUME NEW t \in Steps, OpensStep(r, t), t = s PROVE Live(task[r][s])
  BY <1>7 DEF OpensStep, Opens
<1>8. ASSUME NEW t \in Steps, OpensStep(r, t), t # s PROVE task'[r][s] = task[r][s]
  <2>1. s \notin frame'[r][t].wave
    <3>1. t # Root
      BY StepsAssumption
    <3>. QED
      BY <1>1, <1>8, <3>1 DEF OpensStep, Opens, Frontier
  <2>. QED
    BY <1>1, <1>8, <2>1 DEF OpensStep, Opens
<1>9. ASSUME NEW c \in Levels, AdvancesStep(r, c), Ran(task[r][s]) \/ Failed(task[r][s])
      PROVE  task'[r][s] = task[r][s]
  <2>1. Advances(task[r], frame[r], task'[r], frame'[r], c) /\ Orderly(task[r], frame[r], c)
    BY <1>9 DEF AdvancesStep, Advances, SoundAll, Sound, Awaited
  <2>2. s \notin frame'[r][c].wave
    <3> SUFFICES ASSUME s \in frame'[r][c].wave PROVE FALSE
      OBVIOUS
    <3>1. s \in frame[r][c].kids \ frame[r][c].placed /\ frame[r][c].wave \subseteq frame[r][c].placed
      BY <2>1 DEF Advances, Frontier, Orderly
    <3>2. c = Root /\ frame[r][Root].st = "open"
      BY <1>1, <2>1, <3>1 DEF Orderly, Advances
    <3>3. task[r][s].st = "none"
      BY <3>1, <3>2 DEF SoundAll, Sound, Booked
    <3>4. task[r][s].res = {}
      BY <1>2, <3>3 DEF Begun
    <3>. QED
      BY <1>9, <3>3, <3>4 DEF Ran, Failed, Failures
  <2>. QED
    BY <1>1, <2>1, <2>2 DEF Advances
<1>10. ASSUME NEW c \in Levels, NEW X \in SUBSET Steps, ShutsStep(r, c, X), ~ Live(task[r][s])
       PROVE  task'[r][s].st = task[r][s].st /\ task'[r][s].res = task[r][s].res
  <2>1. Shuts(task[r], frame[r], task'[r], frame'[r], c, X)
    BY <1>10 DEF ShutsStep
  <2>2. s # c
    <3>1. s = c => task[r][s].st = "inside"
      BY <1>2, <2>1 DEF Shuts, Begun
    <3>. QED
      BY <1>10, <3>1 DEF Live
  <2>3. s \notin X
    BY <1>10, <2>1 DEF Shuts
  <2>. QED
    BY <1>1, <2>1, <2>2, <2>3 DEF Shuts
<1>11. CASE StartStep(r) \/ RefuseStep(r) \/ BooksStep(r)
  BY <1>4, <1>11 DEF StartStep, RefuseStep, BooksStep
<1>. QED
  BY <1>3, <1>4, <1>5, <1>6, <1>7, <1>8, <1>9, <1>10, <1>11 DEF EngineStep, Failed

LEMMA TopStaysOwn ==
  ASSUME TypeOK, SoundAll, NEW r \in Runs, OwnTop(r), EngineStep(r), NEW s \in Steps,
         Parent[s] = Root, task'[r][s].st # "none"
  PROVE  s \in Top[r]
<1> SUFFICES ASSUME task[r][s].st = "none" PROVE s \in Top[r]
  BY DEF OwnTop
<1>1. s # Root /\ ~ Live(task[r][s])
  BY StepsAssumption DEF Live
<1>2. Begun(task[r], frame[r], s)
  BY DEF SoundAll, Sound
<1>3. CASE StartStep(r)
  <2>1. task[r] \in [Steps -> Task]
    BY DEF TypeOK
  <2>2. s \in Frontier(DependsOn, Top[r], {})
    BY <1>3, <2>1, WithCreatedTyped DEF StartStep
  <2>. QED
    BY <2>2 DEF Frontier
<1>4. CASE RefuseStep(r) \/ BooksStep(r)
  BY <1>4 DEF RefuseStep, BooksStep
<1>5. ASSUME NEW t \in Steps, ActsStep(r, t) PROVE FALSE
  BY <1>1, <1>5 DEF ActsStep, Acts
<1>6. ASSUME NEW t \in Steps, OpensStep(r, t) PROVE FALSE
  <2>1. s \notin frame'[r][t].wave
    BY <1>6, StepsAssumption DEF OpensStep, Opens, Frontier
  <2>. QED
    BY <1>1, <1>6, <2>1 DEF OpensStep, Opens
<1>7. ASSUME NEW c \in Levels, AdvancesStep(r, c) PROVE s \in Top[r]
  <2>1. Advances(task[r], frame[r], task'[r], frame'[r], c) /\ Orderly(task[r], frame[r], c)
    BY <1>7 DEF AdvancesStep, Advances, SoundAll, Sound, Awaited
  <2>2. s \in frame'[r][c].wave
    BY <2>1 DEF Advances
  <2>3. s \in frame[r][c].kids /\ c = Root
    BY <2>1, <2>2 DEF Advances, Orderly, Frontier
  <2>. QED
    BY <2>1, <2>3 DEF Advances, SoundAll, Sound, Booked
<1>8. ASSUME NEW c \in Levels, NEW X \in SUBSET Steps, ShutsStep(r, c, X) PROVE FALSE
  <2>1. Shuts(task[r], frame[r], task'[r], frame'[r], c, X)
    BY <1>8 DEF ShutsStep
  <2>2. s = c => task[r][s].st = "inside"
    BY <1>2, <2>1 DEF Shuts, Begun
  <2>. QED
    BY <1>1, <2>1, <2>2 DEF Shuts
<1>. QED
  BY <1>3, <1>4, <1>5, <1>6, <1>7, <1>8 DEF EngineStep

LEMMA StepKeepsTold ==
  ASSUME TypeOK, SoundAll, NEW r \in Runs, OwnTop(r), Told(r), EngineStep(r), phase'[r] \notin {"idle", "running"}
  PROVE  IF record'[r].passed THEN \A s \in Top[r] : Ran(task'[r][s])
         ELSE (\E s \in Top[r] : Failed(task'[r][s])) \/ ~ Sortable(DependsOn, Top[r])
<1>1. CASE RefuseStep(r)
  BY <1>1 DEF RefuseStep, SoundAll, Concluded
<1>2. CASE ~ RefuseStep(r) /\ phase[r] \notin {"idle", "running"} /\ record'[r].passed = record[r].passed
  BY <1>2, TopStepsSettle DEF Told, Concluded, Ran
<1>3. ASSUME phase'[r] = phase[r], phase[r] \in {"idle", "running"} PROVE FALSE
  BY <1>3
<1>4. ASSUME NEW c \in Levels, NEW X \in SUBSET Steps, ShutsStep(r, c, X), c = Root
      PROVE  IF record'[r].passed THEN \A s \in Top[r] : Ran(task'[r][s])
             ELSE (\E s \in Top[r] : Failed(task'[r][s])) \/ ~ Sortable(DependsOn, Top[r])
  <2>1. frame[r][Root].st = "open"
    BY <1>4 DEF ShutsStep, Shuts
  <2>2. frame[r][Root].kids = Top[r] /\ phase[r] # "idle"
    BY <2>1 DEF SoundAll, Sound, Booked
  <2>3. /\ record'[r].passed => \A s \in Top[r] : Ran(task[r][s])
        /\ ~ record'[r].passed => \E s \in Top[r] : Failed(task[r][s])
    BY <1>4, <2>2 DEF ShutsStep
  <2>. QED
    BY <2>2, <2>3, TopStepsSettle DEF Ran
<1>5. ASSUME NEW c \in Levels, NEW X \in SUBSET Steps, ShutsStep(r, c, X), c # Root
      PROVE  phase' = phase /\ record' = record
  BY <1>5 DEF ShutsStep
<1>6. ASSUME NEW s \in Steps, ActsStep(r, s) \/ OpensStep(r, s) PROVE phase' = phase /\ record' = record
  BY <1>6 DEF ActsStep, OpensStep, SameBooks
<1>7. ASSUME NEW c \in Levels, AdvancesStep(r, c) PROVE phase' = phase /\ record' = record
  BY <1>7 DEF AdvancesStep, SameBooks
<1>8. ASSUME StartStep(r) PROVE FALSE
  BY <1>8 DEF StartStep
<1>9. ASSUME BooksStep(r) PROVE phase[r] \notin {"idle", "running"} /\ record'[r].passed = record[r].passed
  BY <1>9 DEF BooksStep
<1>10. RefuseStep(r) => phase[r] = "idle"
  BY DEF RefuseStep
<1>11. ASSUME phase' = phase /\ record' = record PROVE phase[r] \notin {"idle", "running"} /\ record'[r].passed = record[r].passed /\ ~ RefuseStep(r)
  BY <1>10, <1>11
<1>12. BooksStep(r) => ~ RefuseStep(r)
  BY <1>9, <1>10
<1>. QED
  BY <1>1, <1>2, <1>4, <1>5, <1>6, <1>7, <1>8, <1>9, <1>11, <1>12 DEF EngineStep

LEMMA KeepsTold == TypeOK /\ SoundAll /\ ToldAll /\ [Next]_vars => ToldAll'
<1> SUFFICES ASSUME TypeOK, SoundAll, ToldAll, [Next]_vars PROVE ToldAll'
  OBVIOUS
<1>1. CASE UNCHANGED vars
  BY <1>1 DEF vars, ToldAll, OwnTop, Told, Concluded
<1>2. CASE Next
  <2>1. PICK r \in Runs : EngineStep(r)
    BY <1>2, NextIsAStep
  <2> SUFFICES ASSUME NEW q \in Runs
               PROVE  OwnTop(q)' /\ Told(q)'
    BY DEF ToldAll
  <2>2. CASE q = r
    <3>1. OwnTop(r) /\ Told(r)
      BY DEF ToldAll
    <3>2. OwnTop(q)'
      BY <2>1, <2>2, <3>1, TopStaysOwn DEF OwnTop
    <3>. QED
      BY <2>1, <2>2, <3>1, <3>2, StepKeepsTold DEF Told, Concluded
  <2>3. CASE q # r
    <3>1. task'[q] = task[q] /\ frame'[q] = frame[q] /\ phase'[q] = phase[q] /\ record'[q] = record[q]
      BY <2>1, <2>3, StepIsOfOneRun, OthersUntouched
    <3>. QED
      BY <3>1 DEF ToldAll, OwnTop, Told, Concluded
  <2>. QED
    BY <2>2, <2>3
<1>. QED
  BY <1>1, <1>2

LEMMA RunsAreTold == Spec => []ToldAll
<1>1. Init => ToldAll
  <2> SUFFICES ASSUME Init PROVE ToldAll
    OBVIOUS
  <2>1. \A r \in Runs : phase[r] = "idle" /\ \A s \in Steps : task[r][s].st = "none"
    BY DEF Init, NoTask
  <2>. QED
    BY <2>1 DEF ToldAll, OwnTop, Told, Concluded
<1> HIDE DEF Init, Next, TypeOK, SoundAll, ToldAll, vars
<1>. QED
  BY <1>1, KeepsTold, RunsAreSound, PTL DEF Spec

LEMMA PassedRunsAreClean == SoundAll /\ ToldAll => PassedMeansClean
<1> SUFFICES ASSUME SoundAll, ToldAll, NEW r \in Runs, Concluded(r), record[r].passed,
                    NEW s \in Steps, Busy(task[r], s)
             PROVE  FALSE
  BY DEF PassedMeansClean, Busy
<1>1. Sound(r, phase[r], task[r], frame[r])
  BY DEF SoundAll
<1> DEFINE S == {x \in Steps : Busy(task[r], x)}
<1>2. ASSUME NEW x \in S PROVE Parent[x] \in S
  <2>1. Parent[x] # Root
    <3> SUFFICES ASSUME Parent[x] = Root PROVE FALSE
      OBVIOUS
    <3>1. x \in Top[r]
      BY <1>1, BusyIsRooted DEF ToldAll, OwnTop
    <3>2. Ran(task[r][x])
      BY <3>1 DEF ToldAll, Told
    <3>. QED
      BY <3>2 DEF Busy, Ran, Live, Failed
  <2>. QED
    BY <1>1, <2>1, BusyInside
<1>3. Rooted(s)
  BY <1>1, BusyIsRooted
<1>4. S \in SUBSET Steps /\ s \in S
  OBVIOUS
<1>. QED
  BY <1>2, <1>3, <1>4, NoEndlessClimb

(* Success is never reported over a failure, at any level: a failed or     *)
(* live step is in failed or live containers, up to a top-level step.      *)
THEOREM PassedIsClean == Spec => []PassedMeansClean
BY PassedRunsAreClean, RunsAreSound, RunsAreTold, PTL

(* No run is failed for nothing. *)
THEOREM FailedForACause == Spec => []FailureHasCause
<1>1. ToldAll => FailureHasCause
  BY TopInSteps DEF ToldAll, Told, FailureHasCause
<1>. QED
  BY <1>1, RunsAreTold, PTL
------------------------------------------------------------------------------
(* Every run is a run of ScenarioRun. *)
LEMMA ProgressIs ==
  ASSUME NEW t
  PROVE  /\ Live(t) => Progress(t) = "busy"
         /\ t.st = "none" => Progress(t) = "todo"
         /\ Ran(t) => Progress(t) = "ok"
         /\ t.st # "none" /\ ~ Live(t) /\ ~ Ran(t) => Progress(t) = "bad"
BY DEF Progress, Live, Ran

Shown(r, T) == [s \in Steps |-> IF s \in Top[r] THEN Progress(T[s]) ELSE "todo"]
LEMMA ShownIs == \A r \in Runs : Shown(r, task[r]) = [s \in Steps |-> ProgressOf(r, s)]
BY DEF Shown, ProgressOf

LEMMA OnlyOneMoves ==
  ASSUME TypeOK, NEW r \in Runs, OnlyRun(r)
  PROVE  /\ [q \in Runs |-> [s \in Steps |-> ProgressOf(q, s)]]'
              = [[q \in Runs |-> [s \in Steps |-> ProgressOf(q, s)]] EXCEPT ![r] = Shown(r, task'[r])]
         /\ [q \in Runs |-> VerdictOf(q)]' = [[q \in Runs |-> VerdictOf(q)] EXCEPT ![r] = VerdictOf(r)']
<1>1. ASSUME NEW q \in Runs, q # r
      PROVE  /\ [s \in Steps |-> ProgressOf(q, s)]' = [s \in Steps |-> ProgressOf(q, s)]
             /\ VerdictOf(q)' = VerdictOf(q)
  BY <1>1, OthersUntouched DEF ProgressOf, VerdictOf, Concluded
<1>2. [s \in Steps |-> ProgressOf(r, s)]' = Shown(r, task'[r])
  BY DEF Shown, ProgressOf
<1>. QED
  BY <1>1, <1>2

(* The moves of a run, as its caller could see them. *)
Waits(r) == Shown(r, task'[r]) = Shown(r, task[r]) /\ VerdictOf(r)' = VerdictOf(r)
Begins(r) ==
  /\ VerdictOf(r) = "none" /\ VerdictOf(r)' = "none"
  /\ \A s \in Top[r] : Progress(task[r][s]) # "bad"
  /\ \E W \in SUBSET Top[r] :
       /\ \A s \in W : /\ Progress(task[r][s]) = "todo"
                       /\ \A d \in Counted(DependsOn, s) : d \in Top[r] /\ Ran(task[r][d])
       /\ \A s \in Top[r] : Progress(task'[r][s]) = IF s \in W THEN "busy" ELSE Progress(task[r][s])
Finishes(r) ==
  /\ VerdictOf(r) = "none" /\ VerdictOf(r)' = "none"
  /\ \E s \in Top[r], p \in {"ok", "bad"} :
       /\ Progress(task[r][s]) = "busy" /\ Progress(task'[r][s]) = p
       /\ \A t \in Top[r] \ {s} : Progress(task'[r][t]) = Progress(task[r][t])
Fails(r) ==
  /\ VerdictOf(r) = "none" /\ VerdictOf(r)' = "failed"
  /\ (\E s \in Top[r] : Progress(task[r][s]) = "bad") \/ ~ Sortable(DependsOn, Top[r])
  /\ \A s \in Top[r] : Progress(task'[r][s]) =
       IF Progress(task[r][s]) = "busy" THEN "bad" ELSE Progress(task[r][s])
Passes(r) ==
  /\ VerdictOf(r) = "none" /\ VerdictOf(r)' = "passed"
  /\ \A s \in Top[r] : Ran(task[r][s]) /\ Progress(task'[r][s]) = "ok"
RunMoves(r) == Waits(r) \/ Begins(r) \/ Finishes(r) \/ Fails(r) \/ Passes(r)

LEMMA SameScenarios ==
  /\ Abstract!Top = Top
  /\ \A s \in Steps : Abstract!Counted(DependsOn, s) = Counted(DependsOn, s)
  /\ \A K : Abstract!Sortable(DependsOn, K) <=> Sortable(DependsOn, K)
<1>1. Abstract!Top = Top
  BY DEF Abstract!Top, Top
<1>2. \A s : Abstract!Counted(DependsOn, s) = Counted(DependsOn, s)
  BY DEF Abstract!Counted, Counted
<1>3. \A K : /\ Abstract!KnownDependencies(DependsOn, K) <=> KnownDependencies(DependsOn, K)
             /\ Abstract!Acyclic(DependsOn, K) <=> Acyclic(DependsOn, K)
  BY <1>2 DEF Abstract!KnownDependencies, KnownDependencies, Abstract!Acyclic, Acyclic
<1>. QED
  BY <1>1, <1>2, <1>3 DEF Abstract!Sortable, Sortable

LEMMA RunMovesAreSteps ==
  ASSUME TypeOK, NEW r \in Runs, OnlyRun(r), RunMoves(r)
  PROVE  [Abstract!Next]_(Abstract!vars)
<1> DEFINE P == [q \in Runs |-> [s \in Steps |-> ProgressOf(q, s)]]
           V == [q \in Runs |-> VerdictOf(q)]
<1>1. P' = [P EXCEPT ![r] = Shown(r, task'[r])] /\ V' = [V EXCEPT ![r] = VerdictOf(r)']
  BY OnlyOneMoves
<1>2. P[r] = Shown(r, task[r]) /\ V[r] = VerdictOf(r) /\ Top[r] \in SUBSET Steps
  BY ShownIs, TopInSteps
<1>3. \A s \in Steps : P[r][s] = IF s \in Top[r] THEN Progress(task[r][s]) ELSE "todo"
  BY <1>2 DEF Shown
<1>4. \A T : \A s \in Steps : Shown(r, T)[s] = IF s \in Top[r] THEN Progress(T[s]) ELSE "todo"
  BY DEF Shown
<1>5. ASSUME VerdictOf(r)' = VerdictOf(r) PROVE V' = V
  BY <1>1, <1>2, <1>5
<1>6. Abstract!Ok(r) = {s \in Steps : P[r][s] = "ok"}
  BY DEF Abstract!Ok, Abstract!Is
<1>7. CASE Waits(r)
  <2>1. P' = P /\ V' = V
    BY <1>1, <1>2, <1>5, <1>7 DEF Waits
  <2>. QED
    BY <2>1 DEF Abstract!vars
<1>8. CASE Begins(r)
  <2>1. PICK W \in SUBSET Top[r] :
          /\ \A s \in W : /\ Progress(task[r][s]) = "todo"
                          /\ \A d \in Counted(DependsOn, s) : d \in Top[r] /\ Ran(task[r][d])
          /\ \A s \in Top[r] : Progress(task'[r][s]) = IF s \in W THEN "busy" ELSE Progress(task[r][s])
    BY <1>8 DEF Begins
  <2>2. Shown(r, task'[r]) = [s \in Steps |-> IF s \in W THEN "busy" ELSE P[r][s]]
    BY <1>2, <1>3, <2>1 DEF Shown
  <2>3. P' = [P EXCEPT ![r] = [s \in Steps |-> IF s \in W THEN "busy" ELSE @[s]]]
    BY <1>1, <2>2
  <2>4. \A s \in W : P[r][s] = "todo" /\ Counted(DependsOn, s) \subseteq {d \in Steps : P[r][d] = "ok"}
    BY <1>2, <1>3, <2>1, ProgressIs
  <2>5. V[r] = "none" /\ V' = V /\ \A s \in Top[r] : P[r][s] # "bad"
    BY <1>2, <1>3, <1>5, <1>8 DEF Begins
  <2>6. Abstract!Begin(r)
    <3>1. \A s \in Abstract!Top[r] : ~ Abstract!Is(r, s, "bad")
      BY <2>5, SameScenarios DEF Abstract!Is
    <3>2. W \in SUBSET Abstract!Top[r]
      BY SameScenarios
    <3>3. \A s \in W : Abstract!Is(r, s, "todo")
      BY <2>4 DEF Abstract!Is
    <3>4. \A s \in W : Abstract!Counted(DependsOn, s) \subseteq Abstract!Ok(r)
      BY <1>2, <1>6, <2>4, SameScenarios
    <3>. QED
      BY <2>3, <2>5, <3>1, <3>2, <3>3, <3>4 DEF Abstract!Begin
  <2>. QED
    BY <2>6 DEF Abstract!Next
<1>9. CASE Finishes(r)
  <2>1. PICK s \in Top[r], p \in {"ok", "bad"} :
          /\ Progress(task[r][s]) = "busy" /\ Progress(task'[r][s]) = p
          /\ \A t \in Top[r] \ {s} : Progress(task'[r][t]) = Progress(task[r][t])
    BY <1>9 DEF Finishes
  <2>2. Shown(r, task'[r]) = [P[r] EXCEPT ![s] = p]
    BY <1>2, <1>3, <2>1 DEF Shown
  <2>3. P' = [P EXCEPT ![r][s] = p] /\ P[r][s] = "busy"
    BY <1>1, <1>2, <1>3, <2>1, <2>2
  <2>4. V[r] = "none" /\ V' = V
    BY <1>2, <1>5, <1>9 DEF Finishes
  <2>5. Abstract!Finish(r)
    BY <2>3, <2>4, SameScenarios DEF Abstract!Finish, Abstract!Is
  <2>. QED
    BY <2>5 DEF Abstract!Next
<1>10. CASE Fails(r)
  <2>1. Shown(r, task'[r]) = [s \in Steps |-> IF P[r][s] = "busy" THEN "bad" ELSE P[r][s]]
    BY <1>2, <1>3, <1>10 DEF Shown, Fails
  <2>2. P' = [P EXCEPT ![r] = [s \in Steps |-> IF @[s] = "busy" THEN "bad" ELSE @[s]]]
    BY <1>1, <2>1
  <2>3. (\E s \in Top[r] : P[r][s] = "bad") \/ ~ Sortable(DependsOn, Top[r])
    BY <1>2, <1>3, <1>10 DEF Fails
  <2>4. V[r] = "none" /\ V' = [V EXCEPT ![r] = "failed"]
    BY <1>1, <1>2, <1>10 DEF Fails
  <2>5. Abstract!Fail(r)
    BY <2>2, <2>3, <2>4, SameScenarios DEF Abstract!Fail, Abstract!Is
  <2>. QED
    BY <2>5 DEF Abstract!Next
<1>11. CASE Passes(r)
  <2>1. \A s \in Top[r] : P[r][s] = "ok" /\ Progress(task'[r][s]) = "ok"
    BY <1>2, <1>3, <1>11, ProgressIs DEF Passes
  <2>2. Shown(r, task'[r]) = P[r]
    BY <1>2, <1>3, <2>1 DEF Shown
  <2>3. P' = P
    BY <1>1, <2>2
  <2>4. V[r] = "none" /\ V' = [V EXCEPT ![r] = "passed"]
    BY <1>1, <1>2, <1>11 DEF Passes
  <2>5. Abstract!Pass(r)
    BY <1>2, <1>6, <2>1, <2>3, <2>4, SameScenarios DEF Abstract!Pass
  <2>. QED
    BY <2>5 DEF Abstract!Next
<1>. QED
  BY <1>7, <1>8, <1>9, <1>10, <1>11 DEF RunMoves

LEMMA VerdictIs ==
  ASSUME NEW r \in Runs
  PROVE  /\ phase[r] \in {"idle", "running"} => VerdictOf(r) = "none"
         /\ phase[r] \notin {"idle", "running"} =>
              VerdictOf(r) = IF record[r].passed THEN "passed" ELSE "failed"
         /\ phase'[r] \in {"idle", "running"} => VerdictOf(r)' = "none"
         /\ phase'[r] \notin {"idle", "running"} =>
              VerdictOf(r)' = IF record'[r].passed THEN "passed" ELSE "failed"
BY DEF VerdictOf, Concluded

LEMMA TopIsOpen ==
  ASSUME SoundAll, NEW r \in Runs, NEW s \in Top[r], Live(task[r][s])
  PROVE  frame[r][Root].st = "open" /\ phase[r] = "running" /\ s \in frame[r][Root].wave
BY TopInSteps DEF SoundAll, Sound, Held, Booked, Top

(* A step that leaves the books alone and no top-level step changed is no  *)
(* move at all; one that one of them ends with is a Finish.                *)
LEMMA SameTopWaits ==
  ASSUME NEW r \in Runs, VerdictOf(r)' = VerdictOf(r),
         \A s \in Top[r] : Progress(task'[r][s]) = Progress(task[r][s])
  PROVE  Waits(r)
BY DEF Waits, Shown

LEMMA OneTopMoves ==
  ASSUME SoundAll, NEW r \in Runs, SameBooks(r), NEW s \in Steps, Live(task[r][s]),
         task'[r][s].st # "none",
         \A t \in Top[r] \ {s} : Progress(task'[r][t]) = Progress(task[r][t])
  PROVE  Waits(r) \/ Finishes(r)
<1>1. VerdictOf(r)' = VerdictOf(r)
  BY VerdictIs DEF SameBooks
<1>2. CASE s \notin Top[r] \/ Live(task'[r][s])
  BY <1>1, <1>2, ProgressIs, SameTopWaits
<1>3. CASE s \in Top[r] /\ ~ Live(task'[r][s])
  <2>1. VerdictOf(r) = "none"
    BY <1>3, TopIsOpen, VerdictIs
  <2>2. Progress(task[r][s]) = "busy" /\ Progress(task'[r][s]) \in {"ok", "bad"}
    BY <1>3, ProgressIs
  <2>. QED
    BY <1>1, <1>3, <2>1, <2>2 DEF Finishes
<1>. QED
  BY <1>2, <1>3

LEMMA StartMoves ==
  ASSUME TypeOK, SoundAll, NEW r \in Runs, StartStep(r) PROVE Begins(r)
<1>1. \A s \in Steps : task[r][s].st = "none"
  BY DEF StartStep, SoundAll, Sound, Booked, NoTask
<1>2. PICK W : W = Frontier(DependsOn, Top[r], {})
  OBVIOUS
<1>3. W \subseteq Top[r] /\ \A s \in W : Counted(DependsOn, s) = {}
  BY <1>2 DEF Frontier
<1>4. task[r] \in [Steps -> Task] /\ task'[r] = WithCreated(task[r], W)
  BY <1>2 DEF TypeOK, StartStep
<1>5. \A s \in Steps : IF s \in W THEN Live(task'[r][s]) ELSE task'[r][s] = task[r][s]
  BY <1>4, WithCreatedTyped, CreatedFields DEF Live
<1>6. VerdictOf(r) = "none" /\ VerdictOf(r)' = "none"
  BY VerdictIs DEF StartStep
<1>7. \A s \in Top[r] : Progress(task[r][s]) = "todo" /\ Progress(task'[r][s]) = IF s \in W THEN "busy" ELSE "todo"
  BY <1>1, <1>5, TopInSteps, ProgressIs
<1>. QED
  BY <1>3, <1>6, <1>7 DEF Begins

LEMMA RefuseMoves ==
  ASSUME SoundAll, NEW r \in Runs, RefuseStep(r) PROVE Fails(r)
<1>1. \A s \in Steps : task[r][s].st = "none"
  BY DEF RefuseStep, SoundAll, Sound, Booked, NoTask
<1>2. VerdictOf(r) = "none" /\ VerdictOf(r)' = "failed"
  BY VerdictIs DEF RefuseStep, SoundAll, Concluded
<1>3. \A s \in Top[r] : Progress(task[r][s]) = "todo"
  BY <1>1, TopInSteps, ProgressIs
<1>. QED
  BY <1>2, <1>3 DEF Fails, RefuseStep

LEMMA AdvanceMoves ==
  ASSUME TypeOK, SoundAll, NEW r \in Runs, NEW c \in Levels, AdvancesStep(r, c)
  PROVE  Waits(r) \/ Begins(r)
<1>1. Advances(task[r], frame[r], task'[r], frame'[r], c) /\ Orderly(task[r], frame[r], c)
  BY DEF AdvancesStep, Advances, SoundAll, Sound, Awaited
<1>2. PICK W : W = frame'[r][c].wave
  OBVIOUS
<1>3. /\ W \subseteq frame[r][c].kids \ frame[r][c].placed
      /\ \A s \in W : Parent[s] = c /\ Counted(DependsOn, s) \subseteq frame[r][c].placed
  BY <1>1, <1>2 DEF Advances, Orderly, Frontier
<1>4. \A s \in Steps : IF s \in W THEN Live(task'[r][s]) ELSE task'[r][s] = task[r][s]
  BY <1>1, <1>2 DEF Advances, Live
<1>5. VerdictOf(r)' = VerdictOf(r)
  BY VerdictIs DEF AdvancesStep, SameBooks
<1>6. CASE c # Root
  <2>1. \A s \in Top[r] : s \in Steps \ W
    BY <1>3, <1>6, TopInSteps DEF Top
  <2>. QED
    BY <1>4, <1>5, <2>1, SameTopWaits
<1>7. CASE c = Root
  <2>1. frame[r][Root].st = "open" /\ frame[r][Root].kids = Top[r] /\ phase[r] = "running"
        /\ \A s \in Top[r] \ frame[r][Root].placed : task[r][s].st = "none"
    BY <1>1, <1>7 DEF Advances, SoundAll, Sound, Booked
  <2>2. VerdictOf(r) = "none"
    BY <2>1, VerdictIs
  <2>3. \A s \in frame[r][Root].placed : s \in Top[r] /\ Ran(task[r][s])
    BY <1>1, <1>7, <2>1 DEF Advances, Orderly
  <2>4. \A s \in Top[r] : Progress(task[r][s]) # "bad"
    BY <2>1, <2>3, ProgressIs
  <2>5. W \in SUBSET Top[r] /\ \A s \in W : /\ Progress(task[r][s]) = "todo"
          /\ \A d \in Counted(DependsOn, s) : d \in Top[r] /\ Ran(task[r][d])
    BY <1>3, <1>7, <2>1, <2>3, ProgressIs
  <2>6. \A s \in Top[r] : Progress(task'[r][s]) = IF s \in W THEN "busy" ELSE Progress(task[r][s])
    BY <1>4, TopInSteps, ProgressIs
  <2>. QED
    BY <1>5, <2>2, <2>4, <2>5, <2>6 DEF Begins
<1>. QED
  BY <1>6, <1>7

LEMMA ShutMoves ==
  ASSUME TypeOK, SoundAll, NEW r \in Runs, NEW c \in Levels, NEW X \in SUBSET Steps, ShutsStep(r, c, X)
  PROVE  Waits(r) \/ Finishes(r) \/ Passes(r) \/ Fails(r)
<1>1. Shuts(task[r], frame[r], task'[r], frame'[r], c, X) /\ frame[r][c].st = "open"
  BY DEF ShutsStep, Shuts
<1>2. \A s \in Top[r] : s \in Steps /\ s # Root /\ Parent[s] = Root
  BY TopInSteps, StepsAssumption DEF Top
<1>3. \A s \in Steps \ ({c} \cup X) : Progress(task'[r][s]) = Progress(task[r][s])
  BY <1>1 DEF Shuts, Progress, Live, Ran
<1>4. CASE c # Root
  <2>1. c \in Steps /\ SameBooks(r)
    BY <1>4 DEF Levels, ShutsStep, SameBooks
  <2>2. Live(task[r][c]) /\ task'[r][c].st # "none"
    <3>1. Begun(task[r], frame[r], c)
      BY <2>1 DEF SoundAll, Sound
    <3>. QED
      BY <1>1, <1>4, <3>1 DEF Begun, Live, Shuts
  <2>3. \A s \in Top[r] \ {c} : s \notin X
    BY <1>2, <1>4 DEF ShutsStep
  <2>. QED
    BY <1>2, <1>3, <2>1, <2>2, <2>3, OneTopMoves
<1>5. CASE c = Root
  <2>1. frame[r][Root].kids = Top[r] /\ phase[r] = "running"
    BY <1>1, <1>5 DEF SoundAll, Sound, Booked
  <2>2. /\ VerdictOf(r) = "none" /\ VerdictOf(r)' = IF record'[r].passed THEN "passed" ELSE "failed"
        /\ record'[r] \in RecordType
    BY <1>5, <2>1, VerdictIs DEF ShutsStep
  <2>3. \A s \in Top[r] : s \in X <=> Live(task[r][s])
    BY <1>1, <1>2, <1>5 DEF Shuts
  <2>4. CASE record'[r].passed
    <3>1. \A s \in Top[r] : Ran(task[r][s]) /\ ~ Live(task[r][s])
      BY <1>5, <2>1, <2>4 DEF ShutsStep, Ran, Live
    <3>2. \A s \in Top[r] : Progress(task'[r][s]) = "ok"
      BY <1>2, <1>3, <1>5, <2>3, <3>1, ProgressIs
    <3>. QED
      BY <2>2, <2>4, <3>1, <3>2 DEF Passes
  <2>5. CASE ~ record'[r].passed
    <3>1. PICK s \in Top[r] : Failed(task[r][s])
      BY <1>5, <2>1, <2>5 DEF ShutsStep
    <3>2. Held(task[r], frame[r], s) /\ Begun(task[r], frame[r], s)
      BY <1>2 DEF SoundAll, Sound
    <3>3. Progress(task[r][s]) = "bad"
      <4>1. ~ Live(task[r][s]) /\ ~ Ran(task[r][s])
        BY <3>1, <3>2 DEF Held, Failed, Live, Ran
      <4>2. task[r][s].st # "none"
        BY <3>1, <3>2 DEF Begun, Failed, Failures
      <4>. QED
        BY <4>1, <4>2, ProgressIs
    <3>4. ASSUME NEW t \in Top[r] PROVE Progress(task'[r][t]) = IF Progress(task[r][t]) = "busy" THEN "bad" ELSE Progress(task[r][t])
      <4>1. CASE Live(task[r][t])
        <5>1. task'[r][t].st = "cancelled"
          BY <1>1, <1>2, <1>5, <2>3, <4>1 DEF Shuts
        <5>2. Progress(task'[r][t]) = "bad"
          BY <5>1, ProgressIs DEF Live, Ran
        <5>. QED
          BY <4>1, <5>2, ProgressIs
      <4>2. CASE ~ Live(task[r][t])
        <5>1. Progress(task'[r][t]) = Progress(task[r][t])
          BY <1>2, <1>3, <1>5, <2>3, <4>2
        <5>2. Progress(task[r][t]) # "busy"
          BY <4>2 DEF Progress
        <5>. QED
          BY <5>1, <5>2
      <4>. QED
        BY <4>1, <4>2
    <3>. QED
      BY <2>2, <2>5, <3>1, <3>3, <3>4 DEF Fails
  <2>. QED
    BY <2>4, <2>5
<1>. QED
  BY <1>4, <1>5

LEMMA EngineStepMoves ==
  ASSUME TypeOK, SoundAll, NEW r \in Runs, EngineStep(r) PROVE RunMoves(r)
<1>1. CASE StartStep(r)
  BY <1>1, StartMoves DEF RunMoves
<1>2. CASE RefuseStep(r)
  BY <1>2, RefuseMoves DEF RunMoves
<1>3. CASE BooksStep(r)
  <2>1. VerdictOf(r)' = VerdictOf(r)
    BY <1>3, VerdictIs DEF BooksStep
  <2>2. task' = task
    BY <1>3 DEF BooksStep
  <2>. QED
    BY <2>1, <2>2, SameTopWaits DEF RunMoves
<1>4. ASSUME NEW s \in Steps, ActsStep(r, s) PROVE RunMoves(r)
  <2>1. SameBooks(r) /\ Live(task[r][s]) /\ task'[r][s].st # "none"
    BY <1>4 DEF ActsStep, Acts
  <2>2. \A t \in Top[r] \ {s} : Progress(task'[r][t]) = Progress(task[r][t])
    BY <1>4, TopInSteps DEF ActsStep, Acts
  <2>. QED
    BY <2>1, <2>2, OneTopMoves DEF RunMoves
<1>5. ASSUME NEW s \in Steps, OpensStep(r, s) PROVE RunMoves(r)
  <2>1. SameBooks(r) /\ Live(task[r][s]) /\ task'[r][s].st # "none"
    BY <1>5 DEF OpensStep, Opens
  <2>2. \A t \in frame'[r][s].wave : Parent[t] = s /\ s # Root
    BY <1>5, StepsAssumption DEF OpensStep, Opens, Frontier
  <2>3. \A t \in Top[r] \ {s} : task'[r][t] = task[r][t]
    BY <1>5, <2>2, TopInSteps DEF OpensStep, Opens, Top
  <2>. QED
    BY <2>1, <2>3, OneTopMoves DEF RunMoves
<1>6. ASSUME NEW c \in Levels, AdvancesStep(r, c) PROVE RunMoves(r)
  BY <1>6, AdvanceMoves DEF RunMoves
<1>7. ASSUME NEW c \in Levels, NEW X \in SUBSET Steps, ShutsStep(r, c, X) PROVE RunMoves(r)
  BY <1>7, ShutMoves DEF RunMoves
<1>. QED
  BY <1>1, <1>2, <1>3, <1>4, <1>5, <1>6, <1>7 DEF EngineStep

LEMMA InitIsARun == Init => Abstract!Init
<1> SUFFICES ASSUME Init PROVE Abstract!Init
  OBVIOUS
<1>1. ASSUME NEW r \in Runs, NEW s \in Steps PROVE ProgressOf(r, s) = "todo"
  <2>1. task[r][s].st = "none"
    BY <1>1 DEF Init, NoTask
  <2>. QED
    BY <2>1, ProgressIs DEF ProgressOf
<1>2. ASSUME NEW r \in Runs PROVE VerdictOf(r) = "none"
  BY <1>2 DEF Init, VerdictOf, Concluded
<1>. QED
  BY <1>1, <1>2 DEF Abstract!Init

(* The engine does what ScenarioRun says: waves, retries, containers and   *)
(* cancellations never begin a top-level step before its dependencies      *)
(* passed or after a failure, never change a result, never pass a run      *)
(* whose steps did not all pass, and never touch a run after its verdict.  *)
THEOREM TheEngineKeepsItsPromise == Spec => ImplementsScenarioRun
<1>1. TypeOK /\ SoundAll /\ [Next]_vars => [Abstract!Next]_(Abstract!vars)
  <2> SUFFICES ASSUME TypeOK, SoundAll, [Next]_vars PROVE [Abstract!Next]_(Abstract!vars)
    OBVIOUS
  <2>1. CASE Next
    BY <2>1, NextIsAStep, EngineStepMoves, StepIsOfOneRun, RunMovesAreSteps
  <2>2. CASE UNCHANGED vars
    BY <2>2 DEF vars, Abstract!vars, ProgressOf, VerdictOf, Concluded
  <2>. QED
    BY <2>1, <2>2
<1> HIDE DEF Init, Next, vars, TypeOK, SoundAll
<1>. QED
  BY <1>1, InitIsARun, RunsAreSound, PTL DEF Spec, ImplementsScenarioRun, Abstract!Spec
------------------------------------------------------------------------------
(* Completeness.  The children map belongs to the run that built it last,  *)
(* so a passed run is complete as long as the executions that share an     *)
(* engine take turns.                                                      *)
TakeTurns ==
  \A p, q \in Runs : /\ EngineOf[p] = EngineOf[q]
                     /\ phase[p] # "idle" /\ ~ Settled(p)
                     /\ phase[q] # "idle" /\ ~ Settled(q) => p = q

Kids(r, c) == {s \in StepsOf[r] : Parent[s] = c}
Kinded(T) ==
  \A s \in Steps : /\ T[s].st = "ready" => T[s].left = 0
                   /\ T[s].st \in {"calling", "backoff"} => Kind[s] = "api"
Entered(T, c) == Container(c) /\ T[c].left > 0 /\ Ran(T[c])
Served(r, T) == \A c \in Steps : Entered(T, c) => \A s \in Kids(r, c) : Ran(T[s])
OwnKids(r, F) == \A c \in Steps : F[c].st = "open" => F[c].kids = Kids(r, c)
Complete(r) ==
  /\ Kinded(task[r])
  /\ phase[r] = "running" => children[EngineOf[r]] = r /\ OwnKids(r, frame[r])
  /\ phase[r] \in {"idle", "running"} \/ record[r].passed => Served(r, task[r])
CompleteAll == \A r \in Runs : Complete(r)

LEMMA StepKeepsKinded ==
  ASSUME TypeOK, SoundAll, NEW r \in Runs, EngineStep(r), Kinded(task[r]) PROVE Kinded(task'[r])
<1> SUFFICES ASSUME NEW s \in Steps
             PROVE  /\ task'[r][s].st = "ready" => task'[r][s].left = 0
                    /\ task'[r][s].st \in {"calling", "backoff"} => Kind[s] = "api"
  BY DEF Kinded
<1>1. ASSUME task'[r][s] = task[r][s] \/ task'[r][s].st \in {"inside", "done", "raised", "cancelled"}
             \/ (task'[r][s].st = "ready" /\ task'[r][s].left = 0)
      PROVE  /\ task'[r][s].st = "ready" => task'[r][s].left = 0
             /\ task'[r][s].st \in {"calling", "backoff"} => Kind[s] = "api"
  BY <1>1 DEF Kinded
<1>2. CASE StartStep(r)
  <2>1. task[r] \in [Steps -> Task]
    BY DEF TypeOK
  <2>. QED
    BY <1>1, <1>2, <2>1, WithCreatedTyped, CreatedFields DEF StartStep
<1>3. CASE RefuseStep(r) \/ BooksStep(r)
  BY <1>1, <1>3 DEF RefuseStep, BooksStep
<1>4. ASSUME NEW t \in Steps, ActsStep(r, t)
      PROVE  /\ task'[r][s].st = "ready" => task'[r][s].left = 0
             /\ task'[r][s].st \in {"calling", "backoff"} => Kind[s] = "api"
  <2>1. CASE s = t
    <3>1. /\ task'[r][s].st \in {"calling", "backoff", "done", "raised"}
          /\ task[r][s].st \in {"ready", "calling", "backoff"}
          /\ task[r][s].st = "ready" /\ Kind[s] # "api" => task'[r][s].st \in {"raised", "done"}
      BY <1>4, <2>1 DEF ActsStep, Acts, Live
    <3>. QED
      BY <3>1 DEF Kinded
  <2>2. CASE s # t
    BY <1>1, <1>4, <2>2 DEF ActsStep, Acts
  <2>. QED
    BY <2>1, <2>2
<1>5. ASSUME NEW t \in Steps, OpensStep(r, t)
      PROVE  \/ task'[r][s] = task[r][s] \/ task'[r][s].st = "inside"
             \/ (task'[r][s].st = "ready" /\ task'[r][s].left = 0)
  BY <1>5 DEF OpensStep, Opens
<1>6. ASSUME NEW c \in Levels, AdvancesStep(r, c)
      PROVE  task'[r][s] = task[r][s] \/ (task'[r][s].st = "ready" /\ task'[r][s].left = 0)
  BY <1>6 DEF AdvancesStep, Advances
<1>7. ASSUME NEW c \in Levels, NEW X \in SUBSET Steps, ShutsStep(r, c, X)
      PROVE  \/ task'[r][s].st \in {"done", "raised", "cancelled"}
             \/ task'[r][s].st = task[r][s].st /\ task'[r][s].left = task[r][s].left
  <2>1. Shuts(task[r], frame[r], task'[r], frame'[r], c, X)
    BY <1>7 DEF ShutsStep
  <2>2. s = c => c # Root
    BY StepsAssumption
  <2>. QED
    BY <2>1, <2>2 DEF Shuts
<1>8. ASSUME NEW c \in Levels, NEW X \in SUBSET Steps, ShutsStep(r, c, X)
      PROVE  /\ task'[r][s].st = "ready" => task'[r][s].left = 0
             /\ task'[r][s].st \in {"calling", "backoff"} => Kind[s] = "api"
  BY <1>7, <1>8 DEF Kinded
<1>. QED
  BY <1>1, <1>2, <1>3, <1>4, <1>5, <1>6, <1>8 DEF EngineStep

(* A container that is entered and ran is not live, so that what ran below *)
(* it is not begun again.                                                  *)
LEMMA StepKeepsServed ==
  ASSUME TypeOK, SoundAll, NEW r \in Runs, EngineStep(r), Kinded(task[r]), Served(r, task[r]),
         OwnKids(r, frame[r])
  PROVE  Served(r, task'[r])
<1> SUFFICES ASSUME NEW c \in Steps, Entered(task'[r], c), NEW s \in Kids(r, c)
             PROVE  Ran(task'[r][s])
  BY DEF Served
<1>1. s \in Steps /\ s # Root /\ Parent[s] = c /\ c # Root /\ c \in Levels
  BY StepsAssumption DEF Kids, Levels
<1>2. Begun(task[r], frame[r], c) /\ Held(task[r], frame[r], s) /\ Begun(task[r], frame[r], s)
  BY <1>1 DEF SoundAll, Sound
<1>3. Entered(task[r], c) => Ran(task[r][s]) /\ ~ Live(task[r][s]) /\ ~ Live(task[r][c])
  BY DEF Served, Entered, Ran, Live
<1>4. ~ Live(task'[r][c]) /\ Container(c) /\ task'[r][c].left > 0
  BY DEF Entered, Ran, Live
<1>5. CASE StartStep(r)
  <2>1. task[r] \in [Steps -> Task]
    BY DEF TypeOK
  <2>2. task[r][c].st = "none"
    BY <1>5 DEF StartStep, SoundAll, Sound, Booked, NoTask
  <2>. QED
    BY <1>5, <2>1, <2>2, WithCreatedTyped, CreatedFields DEF StartStep, Entered, Ran
<1>6. CASE RefuseStep(r) \/ BooksStep(r)
  BY <1>3, <1>6 DEF RefuseStep, BooksStep
<1>7. ASSUME NEW t \in Steps, ActsStep(r, t) PROVE Ran(task'[r][s])
  <2>1. CASE t = c
    <3>1. task[r][c].st \notin {"calling", "backoff"}
      BY <1>4 DEF Kinded, Container
    <3>2. task[r][c].st = "ready" /\ Kind[c] # "api"
      BY <1>4, <1>7, <2>1, <3>1 DEF ActsStep, Acts, Live, Container
    <3>3. task'[r][c].st = "raised" \/ task'[r][c].left = 0
      BY <1>7, <2>1, <3>2 DEF ActsStep, Acts, Kinded
    <3>. QED
      BY <1>4, <3>3 DEF Entered, Ran
  <2>2. CASE t # c
    <3>1. Entered(task[r], c)
      BY <1>7, <2>2 DEF ActsStep, Acts, Entered
    <3>2. t # s
      BY <1>3, <1>7, <3>1 DEF ActsStep, Acts
    <3>. QED
      BY <1>1, <1>3, <1>7, <3>1, <3>2 DEF ActsStep, Acts
  <2>. QED
    BY <2>1, <2>2
<1>8. ASSUME NEW t \in Steps, OpensStep(r, t) PROVE Ran(task'[r][s])
  <2>1. t # c /\ c \notin frame'[r][t].wave
    BY <1>4, <1>8 DEF OpensStep, Opens, Live
  <2>2. Entered(task[r], c)
    BY <1>8, <2>1 DEF OpensStep, Opens, Entered
  <2>3. t # s
    BY <1>3, <1>8, <2>2 DEF OpensStep, Opens
  <2>4. s \notin frame'[r][t].wave
    BY <1>1, <1>8, <2>1 DEF OpensStep, Opens, Frontier
  <2>. QED
    BY <1>1, <1>3, <1>8, <2>2, <2>3, <2>4 DEF OpensStep, Opens
<1>9. ASSUME NEW k \in Levels, AdvancesStep(r, k) PROVE Ran(task'[r][s])
  <2>1. Advances(task[r], frame[r], task'[r], frame'[r], k) /\ Orderly(task[r], frame[r], k)
    BY <1>9 DEF AdvancesStep, Advances, SoundAll, Sound, Awaited
  <2>2. c \notin frame'[r][k].wave
    BY <1>4, <2>1 DEF Advances, Live
  <2>3. Entered(task[r], c)
    BY <2>1, <2>2 DEF Advances, Entered
  <2>4. k # c
    BY <1>2, <1>3, <2>1, <2>3 DEF Advances, Begun, Live
  <2>5. s \notin frame'[r][k].wave
    BY <1>1, <2>1, <2>4 DEF Advances, Orderly, Frontier
  <2>. QED
    BY <1>1, <1>3, <2>1, <2>3, <2>5 DEF Advances
<1>10. ASSUME NEW k \in Levels, NEW X \in SUBSET Steps, ShutsStep(r, k, X) PROVE Ran(task'[r][s])
  <2>1. Shuts(task[r], frame[r], task'[r], frame'[r], k, X)
    BY <1>10 DEF ShutsStep
  <2>2. k = s => Live(task[r][s])
    BY <1>1, <1>2, <2>1 DEF Shuts, Begun, Live
  <2>3. Ran(task[r][s]) => ~ Live(task[r][s])
    BY DEF Ran, Live
  <2>4. Ran(task[r][s]) => Ran(task'[r][s])
    <3> SUFFICES ASSUME Ran(task[r][s]) PROVE Ran(task'[r][s])
      OBVIOUS
    <3>1. s # k /\ s \notin X
      BY <2>1, <2>2, <2>3 DEF Shuts
    <3>. QED
      BY <1>1, <2>1, <3>1 DEF Shuts, Ran
  <2>5. CASE k = c
    <3>1. \A t \in frame[r][c].kids : Ran(task[r][t])
      BY <1>1, <1>10, <2>5 DEF ShutsStep, Entered
    <3>2. frame[r][c].kids = Kids(r, c)
      BY <2>1, <2>5 DEF Shuts, OwnKids
    <3>. QED
      BY <2>4, <3>1, <3>2
  <2>6. CASE k # c
    <3>1. Entered(task[r], c)
      <4>1. c \notin X
        BY <2>1, <2>6 DEF Shuts, Entered, Ran
      <4>. QED
        BY <2>1, <2>6, <4>1 DEF Shuts, Entered, Ran
    <3>. QED
      BY <1>3, <2>4, <3>1
  <2>. QED
    BY <2>5, <2>6
<1>. QED
  BY <1>5, <1>6, <1>7, <1>8, <1>9, <1>10 DEF EngineStep

LEMMA StepKeepsOwnKids ==
  ASSUME TypeOK, SoundAll, NEW r \in Runs, EngineStep(r), OwnKids(r, frame[r]),
         phase[r] = "running" => children[EngineOf[r]] = r, phase'[r] = "running"
  PROVE  OwnKids(r, frame'[r])
<1> SUFFICES ASSUME NEW c \in Steps, frame'[r][c].st = "open" PROVE frame'[r][c].kids = Kids(r, c)
  BY DEF OwnKids
<1>1. c # Root /\ c \in Levels
  BY StepsAssumption DEF Levels
<1>2. ASSUME frame[r][c].st = "open", frame'[r][c].kids = frame[r][c].kids
      PROVE  frame'[r][c].kids = Kids(r, c)
  BY <1>2 DEF OwnKids
<1>3. CASE StartStep(r)
  <2>1. frame[r] \in [Levels -> Frame]
    BY DEF TypeOK
  <2>2. frame'[r][c] = frame[r][c]
    BY <1>1, <1>3, <2>1 DEF StartStep
  <2>. QED
    BY <1>2, <2>2
<1>4. CASE RefuseStep(r) \/ BooksStep(r)
  BY <1>2, <1>4 DEF RefuseStep, BooksStep
<1>5. ASSUME NEW s \in Steps, ActsStep(r, s) PROVE frame'[r][c].kids = Kids(r, c)
  BY <1>1, <1>2, <1>5 DEF ActsStep, Acts, Untouched, SameLevel
<1>6. ASSUME NEW s \in Steps, OpensStep(r, s) PROVE frame'[r][c].kids = Kids(r, c)
  <2>1. CASE s = c
    <3>1. children[EngineOf[r]] = r /\ r # Nobody
      BY <1>6, EngineAssumption DEF OpensStep, SameBooks
    <3>. QED
      BY <1>6, <2>1, <3>1 DEF OpensStep, Children, Kids
  <2>2. CASE s # c
    BY <1>1, <1>2, <1>6, <2>2 DEF OpensStep, Opens
  <2>. QED
    BY <2>1, <2>2
<1>7. ASSUME NEW k \in Levels, AdvancesStep(r, k) PROVE frame'[r][c].kids = Kids(r, c)
  BY <1>1, <1>2, <1>7 DEF AdvancesStep, Advances, Untouched, SameLevel
<1>8. ASSUME NEW k \in Levels, NEW X \in SUBSET Steps, ShutsStep(r, k, X)
      PROVE  frame'[r][c].kids = Kids(r, c)
  BY <1>1, <1>2, <1>8 DEF ShutsStep, Shuts, SameLevel
<1>. QED
  BY <1>3, <1>4, <1>5, <1>6, <1>7, <1>8 DEF EngineStep

LEMMA PassedStandsStill ==
  ASSUME TypeOK, SoundAll, ToldAll, NEW r \in Runs, EngineStep(r),
         phase[r] \notin {"idle", "running"}, record'[r].passed
  PROVE  task'[r] = task[r] /\ record[r].passed
<1>1. ASSUME NEW c \in Levels, frame[r][c].st = "open", record[r].passed PROVE FALSE
  <2>1. \A s \in Steps : ~ Live(task[r][s])
    BY <1>1, PassedRunsAreClean DEF PassedMeansClean, Concluded
  <2>2. CASE c = Root
    BY <1>1, <2>2 DEF SoundAll, Sound, Booked
  <2>3. CASE c # Root
    <3>1. c \in Steps
      BY <2>3 DEF Levels
    <3>2. Begun(task[r], frame[r], c)
      BY <3>1 DEF SoundAll, Sound
    <3>. QED
      BY <1>1, <2>1, <3>1, <3>2 DEF Begun, Live
  <2>. QED
    BY <2>2, <2>3
<1>2. ASSUME NEW s \in Steps, Live(task[r][s]), record[r].passed PROVE FALSE
  BY <1>2, PassedRunsAreClean DEF PassedMeansClean, Concluded
<1>3. frame[r][Root].st # "open"
  BY DEF SoundAll, Sound, Booked
<1>4. CASE StartStep(r) \/ RefuseStep(r)
  BY <1>4 DEF StartStep, RefuseStep
<1>5. CASE BooksStep(r)
  BY <1>5 DEF BooksStep
<1>6. ASSUME NEW s \in Steps, ActsStep(r, s) \/ OpensStep(r, s) PROVE FALSE
  BY <1>2, <1>6 DEF ActsStep, Acts, OpensStep, Opens, SameBooks
<1>7. ASSUME NEW c \in Levels, AdvancesStep(r, c) PROVE FALSE
  BY <1>1, <1>7 DEF AdvancesStep, Advances, SameBooks
<1>8. ASSUME NEW c \in Levels, NEW X \in SUBSET Steps, ShutsStep(r, c, X) PROVE FALSE
  BY <1>1, <1>3, <1>8 DEF ShutsStep, Shuts
<1>. QED
  BY <1>4, <1>5, <1>6, <1>7, <1>8 DEF EngineStep

LEMMA IdleHasNoLevel ==
  ASSUME SoundAll, NEW r \in Runs, phase[r] = "idle" PROVE OwnKids(r, frame[r])
<1>1. \A c \in Steps : frame[r][c] = NoFrame
  BY DEF SoundAll, Sound, Booked, Levels
<1>. QED
  BY <1>1 DEF OwnKids, NoFrame

LEMMA StepKeepsComplete ==
  ASSUME TypeOK, SoundAll, ToldAll, NEW r \in Runs, EngineStep(r), Complete(r) PROVE Complete(r)'
<1>1. Kinded(task'[r])
  BY StepKeepsKinded DEF Complete
<1>2. ASSUME phase[r] \in {"idle", "running"} PROVE OwnKids(r, frame[r])
  BY <1>2, IdleHasNoLevel DEF Complete
<1>3. ASSUME phase'[r] = "running"
      PROVE  phase[r] \in {"idle", "running"} /\ children'[EngineOf[r]] = r
  <2>1. CASE StartStep(r)
    <3>1. EngineOf[r] \in Engines /\ children \in [Engines -> Runs \cup {Nobody}]
      BY EngineAssumption DEF TypeOK
    <3>. QED
      BY <2>1, <3>1 DEF StartStep, Built
  <2>2. CASE RefuseStep(r) \/ BooksStep(r)
    BY <1>3, <2>2 DEF RefuseStep, BooksStep
  <2>3. ASSUME NEW s \in Steps, ActsStep(r, s) \/ OpensStep(r, s) PROVE phase' = phase /\ children' = children
    BY <2>3 DEF ActsStep, OpensStep, SameBooks
  <2>4. ASSUME NEW c \in Levels, AdvancesStep(r, c) PROVE phase' = phase /\ children' = children
    BY <2>4 DEF AdvancesStep, SameBooks
  <2>5. ASSUME NEW c \in Levels, NEW X \in SUBSET Steps, ShutsStep(r, c, X)
        PROVE  phase' = phase /\ children' = children
    BY <1>3, <2>5 DEF ShutsStep
  <2>. QED
    BY <1>3, <2>1, <2>2, <2>3, <2>4, <2>5 DEF EngineStep, Complete
<1>4. ASSUME phase'[r] = "running" PROVE OwnKids(r, frame'[r])
  BY <1>2, <1>3, <1>4, StepKeepsOwnKids DEF Complete
<1>5. ASSUME phase'[r] \in {"idle", "running"} \/ record'[r].passed PROVE Served(r, task'[r])
  <2>1. CASE phase[r] \in {"idle", "running"}
    BY <1>2, <2>1, StepKeepsServed DEF Complete
  <2>2. CASE phase[r] \notin {"idle", "running"}
    <3>1. phase'[r] # "idle"
      <4>1. ASSUME NEW c \in Levels, NEW X \in SUBSET Steps, ShutsStep(r, c, X) PROVE phase'[r] # "idle"
        BY <2>2, <4>1 DEF ShutsStep
      <4>2. ASSUME NEW c \in Levels, AdvancesStep(r, c) PROVE phase'[r] # "idle"
        BY <2>2, <4>2 DEF AdvancesStep, SameBooks
      <4>3. ASSUME NEW s \in Steps, ActsStep(r, s) \/ OpensStep(r, s) PROVE phase'[r] # "idle"
        BY <2>2, <4>3 DEF ActsStep, OpensStep, SameBooks
      <4>4. StartStep(r) \/ RefuseStep(r) \/ BooksStep(r) => phase'[r] # "idle"
        BY DEF StartStep, RefuseStep, BooksStep
      <4>. QED
        BY <4>1, <4>2, <4>3, <4>4 DEF EngineStep
    <3>2. record'[r].passed
      BY <1>3, <1>5, <2>2, <3>1
    <3>. QED
      BY <2>2, <3>2, PassedStandsStill DEF Complete
  <2>. QED
    BY <2>1, <2>2
<1>. QED
  BY <1>1, <1>3, <1>4, <1>5 DEF Complete

LEMMA KeepsComplete ==
  TypeOK /\ SoundAll /\ ToldAll /\ CompleteAll /\ TakeTurns' /\ [Next]_vars => CompleteAll'
<1> SUFFICES ASSUME TypeOK, SoundAll, ToldAll, CompleteAll, TakeTurns', [Next]_vars PROVE CompleteAll'
  OBVIOUS
<1>1. CASE UNCHANGED vars
  BY <1>1 DEF vars, CompleteAll, Complete
<1>2. CASE Next
  <2>1. PICK r \in Runs : EngineStep(r)
    BY <1>2, NextIsAStep
  <2> SUFFICES ASSUME NEW q \in Runs PROVE Complete(q)'
    BY DEF CompleteAll
  <2>2. CASE q = r
    BY <2>1, <2>2, StepKeepsComplete DEF CompleteAll
  <2>3. CASE q # r
    <3>1. task'[q] = task[q] /\ frame'[q] = frame[q] /\ phase'[q] = phase[q] /\ record'[q] = record[q]
      BY <2>1, <2>3, StepIsOfOneRun, OthersUntouched
    <3>2. ASSUME phase[q] = "running", children' # children PROVE EngineOf[q] # EngineOf[r]
      <4>1. StartStep(r) \/ RefuseStep(r)
        BY <2>1, <3>2 DEF EngineStep, BooksStep, ActsStep, OpensStep, AdvancesStep, ShutsStep, SameBooks
      <4>2. phase'[r] \in {"running", "saving"} /\ phase'[q] = "running"
        BY <3>1, <3>2, <4>1 DEF StartStep, RefuseStep
      <4>. QED
        BY <2>3, <4>2 DEF TakeTurns, Settled
    <3>3. phase[q] = "running" => children'[EngineOf[q]] = children[EngineOf[q]]
      <4>1. children' \in {children, Built(r)}
        BY <2>1, StepIsOfOneRun
      <4>2. EngineOf[q] \in Engines /\ children \in [Engines -> Runs \cup {Nobody}]
        BY EngineAssumption DEF TypeOK
      <4>. QED
        BY <3>2, <4>1, <4>2 DEF Built
    <3>. QED
      BY <3>1, <3>3 DEF CompleteAll, Complete
  <2>. QED
    BY <2>2, <2>3
<1>. QED
  BY <1>1, <1>2

LEMMA RunsAreComplete == Spec /\ []TakeTurns => []CompleteAll
<1>1. Init => CompleteAll
  <2> SUFFICES ASSUME Init, NEW r \in Runs PROVE Complete(r)
    BY DEF CompleteAll
  <2>1. phase[r] = "idle" /\ \A s \in Steps : task[r][s] = NoTask
    BY DEF Init
  <2>. QED
    BY <2>1 DEF Complete, Kinded, Served, Entered, Ran, NoTask
<1> HIDE DEF Init, Next, TypeOK, SoundAll, ToldAll, CompleteAll, TakeTurns, vars
<1>. QED
  BY <1>1, KeepsComplete, RunsAreSound, RunsAreTold, PTL DEF Spec

LEMMA CompleteRunsAre == SoundAll /\ ToldAll /\ CompleteAll => PassedMeansComplete
<1> SUFFICES ASSUME SoundAll, ToldAll, CompleteAll, NEW r \in Runs, Concluded(r), record[r].passed,
                    NEW s \in StepsOf[r], Reached(r, s)
             PROVE  Ran(task[r][s])
  BY DEF PassedMeansComplete
<1>1. s \in Steps
  BY StepsAssumption
<1>2. CASE Parent[s] = Root
  BY <1>2 DEF ToldAll, Told, Top
<1>3. CASE Parent[s] # Root
  <2>1. PICK c \in Steps : c = Parent[s]
    BY <1>1, <1>3, ParentsSteps
  <2>2. Container(c) /\ task[r][c].left > 0 /\ task[r][c].res # {}
    BY <1>3, <2>1 DEF Reached, Container
  <2>3. ~ Failed(task[r][c]) /\ ~ Live(task[r][c])
    BY PassedRunsAreClean DEF PassedMeansClean
  <2>4. Begun(task[r], frame[r], c) /\ task[r][c] \in Task
    BY DEF SoundAll, Sound, Typed
  <2>5. Ran(task[r][c])
    BY <2>2, <2>3, <2>4 DEF Begun, Failed, Live, Ran, Task
  <2>6. s \in Kids(r, c)
    BY <1>1, <2>1 DEF Kids
  <2>. QED
    BY <2>2, <2>5, <2>6 DEF CompleteAll, Complete, Served, Entered, Concluded
<1>. QED
  BY <1>2, <1>3

(* A passed run left nothing out: every step of its top level, and of      *)
(* every container it entered, ran -- if no execution starts on an engine  *)
(* while another one there is under way.                                   *)
THEOREM PassedIsComplete == Spec /\ []TakeTurns => []PassedMeansComplete
BY CompleteRunsAre, RunsAreComplete, RunsAreSound, RunsAreTold, PTL

(* With an engine of its own, a run never sees the children of another.    *)
EachItsOwn == \A p, q \in Runs : EngineOf[p] = EngineOf[q] => p = q
KeepsHouse(r) ==
  /\ phase[r] # "idle" => children[EngineOf[r]] = r
  /\ \A c \in Steps : frame[r][c].st # "off" => frame[r][c].kids = Kids(r, c)
HouseKept == \A r \in Runs : KeepsHouse(r)

LEMMA StepKeepsHouse ==
  ASSUME TypeOK, SoundAll, NEW r \in Runs, EngineStep(r), KeepsHouse(r) PROVE KeepsHouse(r)'
<1>1. phase'[r] # "idle" => children'[EngineOf[r]] = r
  <2>1. EngineOf[r] \in Engines /\ children \in [Engines -> Runs \cup {Nobody}]
    BY EngineAssumption DEF TypeOK
  <2>2. CASE StartStep(r) \/ RefuseStep(r)
    BY <2>1, <2>2 DEF StartStep, RefuseStep, Built
  <2>3. CASE BooksStep(r)
    BY <2>3 DEF BooksStep, KeepsHouse
  <2>4. ASSUME NEW s \in Steps, ActsStep(r, s) \/ OpensStep(r, s) PROVE phase' = phase /\ children' = children
    BY <2>4 DEF ActsStep, OpensStep, SameBooks
  <2>5. ASSUME NEW c \in Levels, AdvancesStep(r, c) PROVE phase' = phase /\ children' = children
    BY <2>5 DEF AdvancesStep, SameBooks
  <2>6. ASSUME NEW c \in Levels, NEW X \in SUBSET Steps, ShutsStep(r, c, X)
        PROVE  phase[r] # "idle" /\ children' = children
    <3>1. phase[r] # "idle"
      BY <2>6 DEF ShutsStep, Shuts, SoundAll, Sound, Booked, NoFrame
    <3>. QED
      BY <2>6, <3>1 DEF ShutsStep
  <2>. QED
    BY <2>2, <2>3, <2>4, <2>5, <2>6 DEF EngineStep, KeepsHouse
<1>2. ASSUME NEW c \in Steps, frame'[r][c].st # "off" PROVE frame'[r][c].kids = Kids(r, c)
  <2>1. c # Root /\ c \in Levels
    BY StepsAssumption DEF Levels
  <2>2. ASSUME frame[r][c].st # "off", frame'[r][c].kids = frame[r][c].kids
        PROVE  frame'[r][c].kids = Kids(r, c)
    BY <2>2 DEF KeepsHouse
  <2>3. CASE StartStep(r)
    <3>1. frame[r] \in [Levels -> Frame]
      BY DEF TypeOK
    <3>2. frame'[r][c] = frame[r][c]
      BY <2>1, <2>3, <3>1 DEF StartStep
    <3>. QED
      BY <1>2, <2>2, <3>2
  <2>4. CASE RefuseStep(r) \/ BooksStep(r)
    BY <1>2, <2>2, <2>4 DEF RefuseStep, BooksStep
  <2>5. ASSUME NEW s \in Steps, ActsStep(r, s) PROVE frame'[r][c].kids = Kids(r, c)
    BY <1>2, <2>1, <2>2, <2>5 DEF ActsStep, Acts, Untouched, SameLevel
  <2>6. ASSUME NEW s \in Steps, OpensStep(r, s) PROVE frame'[r][c].kids = Kids(r, c)
    <3>1. CASE s = c
      <4>1. phase[r] # "idle"
        BY <2>6 DEF OpensStep, Opens, Live, SoundAll, Sound, Booked, NoTask
      <4>2. children[EngineOf[r]] = r /\ r # Nobody
        BY <4>1, EngineAssumption DEF KeepsHouse
      <4>. QED
        BY <2>6, <3>1, <4>2 DEF OpensStep, Children, Kids
    <3>2. CASE s # c
      BY <1>2, <2>1, <2>2, <2>6, <3>2 DEF OpensStep, Opens
    <3>. QED
      BY <3>1, <3>2
  <2>7. ASSUME NEW k \in Levels, AdvancesStep(r, k) PROVE frame'[r][c].kids = Kids(r, c)
    <3>1. k = c => frame[r][c].st # "off"
      BY <2>7 DEF AdvancesStep, Advances
    <3>. QED
      BY <1>2, <2>1, <2>2, <2>7, <3>1 DEF AdvancesStep, Advances, Untouched, SameLevel
  <2>8. ASSUME NEW k \in Levels, NEW X \in SUBSET Steps, ShutsStep(r, k, X)
        PROVE  frame'[r][c].kids = Kids(r, c)
    <3>1. frame[r][c].st # "off"
      BY <1>2, <2>1, <2>8 DEF ShutsStep, Shuts
    <3>. QED
      BY <2>1, <2>2, <2>8, <3>1 DEF ShutsStep, Shuts, SameLevel
  <2>. QED
    BY <2>3, <2>4, <2>5, <2>6, <2>7, <2>8 DEF EngineStep
<1>. QED
  BY <1>1, <1>2 DEF KeepsHouse

LEMMA KeepsHouseKept ==
  EachItsOwn => (TypeOK /\ SoundAll /\ HouseKept /\ [Next]_vars => HouseKept')
<1> SUFFICES ASSUME EachItsOwn, TypeOK, SoundAll, HouseKept, [Next]_vars PROVE HouseKept'
  OBVIOUS
<1>1. CASE UNCHANGED vars
  BY <1>1 DEF vars, HouseKept, KeepsHouse
<1>2. CASE Next
  <2>1. PICK r \in Runs : EngineStep(r)
    BY <1>2, NextIsAStep
  <2> SUFFICES ASSUME NEW q \in Runs PROVE KeepsHouse(q)'
    BY DEF HouseKept
  <2>2. CASE q = r
    BY <2>1, <2>2, StepKeepsHouse DEF HouseKept
  <2>3. CASE q # r
    <3>1. frame'[q] = frame[q] /\ phase'[q] = phase[q] /\ children' \in {children, Built(r)}
      BY <2>1, <2>3, StepIsOfOneRun, OthersUntouched
    <3>2. EngineOf[q] # EngineOf[r] /\ EngineOf[q] \in Engines /\ children \in [Engines -> Runs \cup {Nobody}]
      BY <2>3, EngineAssumption DEF EachItsOwn, TypeOK
    <3>3. children'[EngineOf[q]] = children[EngineOf[q]]
      BY <3>1, <3>2 DEF Built
    <3>. QED
      BY <3>1, <3>3 DEF HouseKept, KeepsHouse
  <2>. QED
    BY <2>2, <2>3
<1>. QED
  BY <1>1, <1>2

(* Containers work on the children of their own scenario, as the comments  *)
(* at engine.py:46 and 877 promise, where no two runs share an engine.     *)
THEOREM OwnEngineOwnChildren == EachItsOwn /\ Spec => []ContainersKeepChildren
<1>1. Init => HouseKept
  <2> SUFFICES ASSUME Init, NEW r \in Runs PROVE KeepsHouse(r)
    BY DEF HouseKept
  <2>1. phase[r] = "idle" /\ \A c \in Steps : frame[r][c] = NoFrame
    BY DEF Init, Levels
  <2>. QED
    BY <2>1 DEF KeepsHouse, NoFrame
<1>2. HouseKept => ContainersKeepChildren
  BY DEF HouseKept, KeepsHouse, ContainersKeepChildren, Kids
<1> SUFFICES ASSUME EachItsOwn PROVE Spec => []ContainersKeepChildren
  OBVIOUS
<1>3. HouseKept /\ (TypeOK /\ SoundAll) /\ [Next]_vars => HouseKept'
  BY KeepsHouseKept
<1> HIDE DEF Init, Next, TypeOK, SoundAll, HouseKept, EachItsOwn, vars
<1>. QED
  BY <1>1, <1>2, <1>3, RunsAreSound, PTL DEF Spec
------------------------------------------------------------------------------
(* What ScenarioRun promises, from its specification alone: no step of the *)
(* engine is looked at.                                                    *)
Same(q) ==
  VerdictOf(q)' = VerdictOf(q) /\ \A s \in Steps : ProgressOf(q, s)' = ProgressOf(q, s)
Goes(r) ==
  /\ VerdictOf(r)' = "none"
  /\ \A s \in Steps :
       \/ ProgressOf(r, s)' = ProgressOf(r, s)
       \/ /\ ProgressOf(r, s) = "todo"
          /\ \A d \in Counted(DependsOn, s) : d \in Steps /\ ProgressOf(r, d) = "ok"
       \/ ProgressOf(r, s) = "busy"
GivesUp(r) ==
  /\ VerdictOf(r)' = "failed"
  /\ \A s \in Steps : ProgressOf(r, s)' = IF ProgressOf(r, s) = "busy" THEN "bad" ELSE ProgressOf(r, s)
Succeeds(r) ==
  /\ VerdictOf(r)' = "passed" /\ \A s \in Steps : ProgressOf(r, s)' = ProgressOf(r, s)
  /\ \A s \in Top[r] : ProgressOf(r, s) = "ok"
RunStep(r) ==
  /\ VerdictOf(r) = "none" /\ \A q \in Runs \ {r} : Same(q)
  /\ Goes(r) \/ GivesUp(r) \/ Succeeds(r)

LEMMA RunsStep ==
  ASSUME [Abstract!Next]_(Abstract!vars)
  PROVE  (\A q \in Runs : Same(q)) \/ \E r \in Runs : RunStep(r)
<1> DEFINE P == [q \in Runs |-> [s \in Steps |-> ProgressOf(q, s)]]
           V == [q \in Runs |-> VerdictOf(q)]
<1>1. \A q \in Runs : V[q] = VerdictOf(q) /\ V'[q] = VerdictOf(q)'
  OBVIOUS
<1>2. \A q \in Runs : \A s \in Steps : P[q][s] = ProgressOf(q, s) /\ P'[q][s] = ProgressOf(q, s)'
  OBVIOUS
<1>3. \A q \in Runs : P[q] \in [Steps -> {ProgressOf(q, s) : s \in Steps}]
  OBVIOUS
<1>4. \A r \in Runs : \A s \in Steps : \A p : Abstract!Is(r, s, p) <=> ProgressOf(r, s) = p
  BY DEF Abstract!Is
<1>5. CASE UNCHANGED Abstract!vars
  <2>1. P' = P /\ V' = V
    BY <1>5 DEF Abstract!vars
  <2>. QED
    BY <1>1, <1>2, <2>1 DEF Same
<1>6. ASSUME NEW r \in Runs, Abstract!Begin(r) PROVE RunStep(r)
  <2>1. PICK W \in SUBSET Top[r] :
          /\ \A s \in W : Abstract!Is(r, s, "todo") /\ Abstract!Counted(DependsOn, s) \subseteq Abstract!Ok(r)
          /\ P' = [P EXCEPT ![r] = [s \in Steps |-> IF s \in W THEN "busy" ELSE @[s]]]
    <3>1. Abstract!Top[r] = Top[r]
      BY SameScenarios
    <3>. QED
      BY <1>6, <3>1 DEF Abstract!Begin
  <2>2. V[r] = "none" /\ V' = V
    BY <1>6 DEF Abstract!Begin
  <2>3. \A q \in Runs \ {r} : P'[q] = P[q]
    BY <2>1
  <2>4. \A s \in Steps : P'[r][s] = IF s \in W THEN "busy" ELSE P[r][s]
    BY <2>1
  <2>5. \A s \in W : /\ s \in Steps /\ ProgressOf(r, s) = "todo"
                     /\ \A d \in Counted(DependsOn, s) : d \in Steps /\ ProgressOf(r, d) = "ok"
    BY <1>4, <2>1, SameScenarios, TopInSteps DEF Abstract!Ok
  <2>6. \A q \in Runs \ {r} : Same(q)
    BY <1>1, <1>2, <2>2, <2>3 DEF Same
  <2>7. Goes(r)
    BY <1>1, <1>2, <2>2, <2>4, <2>5 DEF Goes
  <2>. QED
    BY <1>1, <2>2, <2>6, <2>7 DEF RunStep
<1>7. ASSUME NEW r \in Runs, Abstract!Finish(r) PROVE RunStep(r)
  <2>1. PICK s \in Top[r], p \in {"ok", "bad"} : Abstract!Is(r, s, "busy") /\ P' = [P EXCEPT ![r][s] = p]
    BY <1>7, SameScenarios DEF Abstract!Finish
  <2>2. V[r] = "none" /\ V' = V
    BY <1>7 DEF Abstract!Finish
  <2>3. \A q \in Runs \ {r} : P'[q] = P[q]
    BY <2>1
  <2>4. \A t \in Steps \ {s} : P'[r][t] = P[r][t]
    BY <2>1
  <2>5. s \in Steps /\ ProgressOf(r, s) = "busy"
    BY <1>4, <2>1, TopInSteps
  <2>6. \A q \in Runs \ {r} : Same(q)
    BY <1>1, <1>2, <2>2, <2>3 DEF Same
  <2>7. Goes(r)
    BY <1>1, <1>2, <2>2, <2>4, <2>5 DEF Goes
  <2>. QED
    BY <1>1, <2>2, <2>6, <2>7 DEF RunStep
<1>8. ASSUME NEW r \in Runs, Abstract!Fail(r) PROVE RunStep(r)
  <2>1. P' = [P EXCEPT ![r] = [s \in Steps |-> IF @[s] = "busy" THEN "bad" ELSE @[s]]]
    BY <1>8 DEF Abstract!Fail
  <2>2. V[r] = "none" /\ V' = [V EXCEPT ![r] = "failed"]
    BY <1>8 DEF Abstract!Fail
  <2>3. \A q \in Runs \ {r} : P'[q] = P[q] /\ V'[q] = V[q]
    BY <2>1, <2>2
  <2>4. \A s \in Steps : P'[r][s] = IF P[r][s] = "busy" THEN "bad" ELSE P[r][s]
    BY <2>1
  <2>5. \A q \in Runs \ {r} : Same(q)
    BY <1>1, <1>2, <2>3 DEF Same
  <2>6. GivesUp(r)
    BY <1>1, <1>2, <2>2, <2>4 DEF GivesUp
  <2>. QED
    BY <1>1, <2>2, <2>5, <2>6 DEF RunStep
<1>9. ASSUME NEW r \in Runs, Abstract!Pass(r) PROVE RunStep(r)
  <2>1. P' = P /\ V[r] = "none" /\ V' = [V EXCEPT ![r] = "passed"]
    BY <1>9 DEF Abstract!Pass
  <2>2. \A s \in Top[r] : ProgressOf(r, s) = "ok"
    BY <1>4, <1>9, SameScenarios, TopInSteps DEF Abstract!Pass, Abstract!Ok
  <2>3. \A q \in Runs \ {r} : V'[q] = V[q]
    BY <2>1
  <2>4. \A q \in Runs \ {r} : Same(q)
    BY <1>1, <1>2, <2>1, <2>3 DEF Same
  <2>5. Succeeds(r)
    BY <1>1, <1>2, <2>1, <2>2 DEF Succeeds
  <2>. QED
    BY <1>1, <2>1, <2>4, <2>5 DEF RunStep
<1>. QED
  BY <1>5, <1>6, <1>7, <1>8, <1>9 DEF Abstract!Next

LEMMA RunStarts == Abstract!Init => \A r \in Runs : VerdictOf(r) = "none" /\ \A s \in Steps : ProgressOf(r, s) = "todo"
BY DEF Abstract!Init

LEMMA StepsAre ==
  /\ \A r \in Runs, s \in Steps, p \in {"todo", "ok"} : Abstract!Is(r, s, p) <=> ProgressOf(r, s) = p
  /\ \A r \in Runs : Abstract!Ok(r) = {s \in Steps : ProgressOf(r, s) = "ok"}
  /\ \A r \in Runs : Top[r] \subseteq Steps
BY TopInSteps DEF Abstract!Is, Abstract!Ok

(* Whatever behaves like ScenarioRun begins no top-level step before those *)
(* it depends on passed.                                                   *)
THEOREM StepsInOrder == Abstract!Spec => []Abstract!InOrder
<1> DEFINE I == \A r \in Runs : \A s \in Top[r] : ProgressOf(r, s) # "todo" =>
                  \A d \in Counted(DependsOn, s) : d \in Steps /\ ProgressOf(r, d) = "ok"
<1>1. I <=> Abstract!InOrder
  BY SameScenarios, StepsAre DEF Abstract!InOrder
<1>2. Abstract!Init => I
  BY RunStarts, TopInSteps
<1>3. I /\ [Abstract!Next]_(Abstract!vars) => I'
  <2> SUFFICES ASSUME I, [Abstract!Next]_(Abstract!vars),
                      NEW r \in Runs, NEW s \in Top[r], ProgressOf(r, s)' # "todo",
                      NEW d \in Counted(DependsOn, s)
               PROVE  d \in Steps /\ ProgressOf(r, d)' = "ok"
    OBVIOUS
  <2>1. s \in Steps
    BY TopInSteps
  <2>2. CASE Same(r)
    BY <2>1, <2>2 DEF Same
  <2>3. CASE RunStep(r)
    <3>1. d \in Steps /\ ProgressOf(r, d) = "ok"
      BY <2>1, <2>3 DEF RunStep, Goes, GivesUp, Succeeds
    <3>. QED
      BY <2>1, <2>3, <3>1 DEF RunStep, Goes, GivesUp, Succeeds
  <2>. QED
    BY <2>2, <2>3, RunsStep DEF RunStep
<1> HIDE DEF I
<1>. QED
  BY <1>1, <1>2, <1>3, PTL DEF Abstract!Spec

(* Whatever behaves like ScenarioRun says "passed" only of runs all of     *)
(* whose top-level steps passed.                                           *)
THEOREM PassedIsTrue == Abstract!Spec => []Abstract!PassedAllOk
<1> DEFINE I == \A r \in Runs : VerdictOf(r) = "passed" => \A s \in Top[r] : ProgressOf(r, s) = "ok"
<1>1. I <=> Abstract!PassedAllOk
  BY SameScenarios, StepsAre DEF Abstract!PassedAllOk
<1>2. Abstract!Init => I
  BY RunStarts
<1>3. I /\ [Abstract!Next]_(Abstract!vars) => I'
  <2> SUFFICES ASSUME I, [Abstract!Next]_(Abstract!vars),
                      NEW r \in Runs, VerdictOf(r)' = "passed", NEW s \in Top[r]
               PROVE  ProgressOf(r, s)' = "ok"
    OBVIOUS
  <2>1. s \in Steps
    BY TopInSteps
  <2>2. CASE Same(r)
    BY <2>1, <2>2 DEF Same
  <2>3. CASE RunStep(r)
    BY <2>1, <2>3 DEF RunStep, Goes, GivesUp, Succeeds
  <2>. QED
    BY <2>2, <2>3, RunsStep DEF RunStep
<1> HIDE DEF I
<1>. QED
  BY <1>1, <1>2, <1>3, PTL DEF Abstract!Spec

(* Whatever behaves like ScenarioRun changes nothing of a run after its    *)
(* verdict.                                                                *)
THEOREM VerdictIsFinal == Abstract!Spec => Abstract!VerdictFinal
<1>1. [Abstract!Next]_(Abstract!vars) => [Abstract!Sealed]_(Abstract!vars)
  <2> DEFINE P == [q \in Runs |-> [s \in Steps |-> ProgressOf(q, s)]]
             V == [q \in Runs |-> VerdictOf(q)]
  <2> SUFFICES ASSUME [Abstract!Next]_(Abstract!vars), NEW r \in Runs, V[r] # "none"
               PROVE  V'[r] = V[r] /\ P'[r] = P[r]
    BY DEF Abstract!Sealed
  <2>1. Same(r)
    BY RunsStep DEF RunStep
  <2>2. \A s \in Steps : ProgressOf(r, s)' = ProgressOf(r, s)
    BY <2>1 DEF Same
  <2>3. [s \in Steps |-> ProgressOf(r, s)]' = [s \in Steps |-> ProgressOf(r, s)]
    BY <2>2
  <2>. QED
    BY <2>1, <2>3 DEF Same
<1>. QED
  BY <1>1, PTL DEF Abstract!Spec, Abstract!VerdictFinal

(* So the engine has the three of them: its top-level steps begin in       *)
(* order, its verdicts are true and final.                                 *)
THEOREM TheEngineIsOrderlyAndFinal ==
  Spec => [](Abstract!InOrder /\ Abstract!PassedAllOk) /\ Abstract!VerdictFinal
BY TheEngineKeepsItsPromise, StepsInOrder, PassedIsTrue, VerdictIsFinal, PTL DEF ImplementsScenarioRun
------------------------------------------------------------------------------
==============================================================================
