----------------------------- MODULE ScenarioRun -----------------------------
(***************************************************************************)
(* What the execution of a scenario promises its callers, at the level of  *)
(* its top-level steps: they run in dependency order, a failure ends the   *)
(* run, and the verdict is "passed" only over steps that all passed.       *)
(* DagEngine implements this specification.                                *)
(***************************************************************************)
EXTENDS Scenarios

VARIABLES progress,      \* of every step: todo, busy, ok or bad
          verdict        \* of every run: none, passed or failed
vars == <<progress, verdict>>

Is(r, s, p) == progress[r][s] = p
Ok(r) == {s \in Steps : Is(r, s, "ok")}

Init ==
  /\ progress = [r \in Runs |-> [s \in Steps |-> "todo"]]
  /\ verdict = [r \in Runs |-> "none"]

(* Some steps whose dependencies all passed begin, unless a step failed. *)
Begin(r) ==
  /\ verdict[r] = "none"
  /\ \A s \in Top[r] : ~ Is(r, s, "bad")
  /\ \E W \in SUBSET Top[r] :
       /\ \A s \in W : Is(r, s, "todo") /\ Counted(DependsOn, s) \subseteq Ok(r)
       /\ progress' = [progress EXCEPT ![r] =
            [s \in Steps |-> IF s \in W THEN "busy" ELSE @[s]]]
  /\ UNCHANGED verdict

Finish(r) ==
  /\ verdict[r] = "none"
  /\ \E s \in Top[r], p \in {"ok", "bad"} :
       Is(r, s, "busy") /\ progress' = [progress EXCEPT ![r][s] = p]
  /\ UNCHANGED verdict

(* A failure, or a scenario that cannot be sorted, ends the run; a step    *)
(* that is still busy is given up.                                         *)
Fail(r) ==
  /\ verdict[r] = "none"
  /\ (\E s \in Top[r] : Is(r, s, "bad")) \/ ~ Sortable(DependsOn, Top[r])
  /\ verdict' = [verdict EXCEPT ![r] = "failed"]
  /\ progress' = [progress EXCEPT ![r] =
       [s \in Steps |-> IF @[s] = "busy" THEN "bad" ELSE @[s]]]

Pass(r) ==
  /\ verdict[r] = "none"
  /\ Top[r] \subseteq Ok(r)
  /\ verdict' = [verdict EXCEPT ![r] = "passed"]
  /\ UNCHANGED progress

Next == \E r \in Runs : Begin(r) \/ Finish(r) \/ Fail(r) \/ Pass(r)

Spec == Init /\ [][Next]_vars
------------------------------------------------------------------------------
TypeOK ==
  /\ progress \in [Runs -> [Steps -> {"todo", "busy", "ok", "bad"}]]
  /\ verdict \in [Runs -> {"none", "passed", "failed"}]

(* No step begins before the steps it depends on passed. *)
InOrder ==
  \A r \in Runs : \A s \in Top[r] :
    ~ Is(r, s, "todo") => Counted(DependsOn, s) \subseteq Ok(r)

(* "passed" is said only of a run all of whose steps passed. *)
PassedAllOk ==
  \A r \in Runs : verdict[r] = "passed" => Top[r] \subseteq Ok(r)

(* What is reported about a run never changes under it: after the verdict  *)
(* no step begins, ends or is given up.                                    *)
Sealed ==
  \A r \in Runs : verdict[r] # "none" =>
    verdict'[r] = verdict[r] /\ progress'[r] = progress[r]
VerdictFinal == [][Sealed]_vars
==============================================================================
