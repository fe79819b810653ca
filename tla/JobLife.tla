------------------------------- MODULE JobLife -------------------------------
(***************************************************************************)
(* What the AI work queues promise about one job, whatever happens between *)
(* Redis, the workers and MongoDB: it is in one place at a time, it is     *)
(* tried at most MaxRetry times, it is given up only when all tries are    *)
(* spent, and only a crash of the process loses it, and only while a       *)
(* worker has it.  JobQueue implements this specification.                 *)
(***************************************************************************)
EXTENDS JobLimits

VARIABLES place,        \* new, waiting, held, done, dead or lost
          fails,        \* fail_count of the message
          tries         \* how often a worker has taken the job up
vars == <<place, fails, tries>>

Places == {"new", "waiting", "held", "done", "dead", "lost"}

Init ==
  /\ place = [j \in Jobs |-> "new"]
  /\ fails = [j \in Jobs |-> 0]
  /\ tries = [j \in Jobs |-> 0]

Moves(j, from, to) == place[j] = from /\ place' = [place EXCEPT ![j] = to]

Submit(j) == Moves(j, "new", "waiting") /\ UNCHANGED <<fails, tries>>

Take(j) ==
  /\ Moves(j, "waiting", "held")
  /\ tries' = [tries EXCEPT ![j] = @ + 1]
  /\ UNCHANGED fails

Conclude(j) == Moves(j, "held", "done") /\ UNCHANGED <<fails, tries>>

(* A failed try: back to the queue, or to the dead letters.                *)
GiveBack(j) ==
  /\ fails[j] + 1 < MaxRetry
  /\ Moves(j, "held", "waiting")
  /\ fails' = [fails EXCEPT ![j] = @ + 1]
  /\ UNCHANGED tries

Bury(j) ==
  /\ fails[j] + 1 >= MaxRetry
  /\ Moves(j, "held", "dead")
  /\ fails' = [fails EXCEPT ![j] = @ + 1]
  /\ UNCHANGED tries

(* The process dies: what workers held is gone. *)
Crash ==
  /\ place' = [j \in Jobs |-> IF place[j] = "held" THEN "lost" ELSE place[j]]
  /\ UNCHANGED <<fails, tries>>

Next ==
  \/ \E j \in Jobs : Submit(j) \/ Take(j) \/ Conclude(j) \/ GiveBack(j) \/ Bury(j)
  \/ Crash

Spec == Init /\ [][Next]_vars
------------------------------------------------------------------------------
TypeOK ==
  /\ place \in [Jobs -> Places]
  /\ fails \in [Jobs -> Nat]
  /\ tries \in [Jobs -> Nat]

(* No job is worked on more than MAX_RETRY times, however often it fails,  *)
(* times out or is given back.                                             *)
WorkBounded == \A j \in Jobs : tries[j] <= MaxRetry

(* A job is given up only after every one of its tries was used.           *)
DeadOnlyWhenSpent ==
  \A j \in Jobs : place[j] = "dead" => tries[j] = MaxRetry /\ fails[j] = MaxRetry

(* A job is lost only out of the hands of a worker: what waits in the      *)
(* queue or lies in the dead letters is not touched by a crash, and what   *)
(* is over, well or badly, stays so.                                       *)
OnlyHeldIsLost ==
  [][\A j \in Jobs :
       /\ place'[j] = "lost" => place[j] \in {"held", "lost"}
       /\ place[j] \in {"done", "dead", "lost"} => place'[j] = place[j]]_vars
==============================================================================
