---------------------------- MODULE WorkerShutdown ----------------------------
(***************************************************************************)
(* The BLPOP loops of the AI workers and how the application stops them:   *)
(* the supervisors of run_all_workers (ai_analyzer/analyzer.py) around six *)
(* of the loops, the bare loops of the diff, diagnosis and alert services, *)
(* and the shutdown handler of api/routes.py, which cancels and awaits     *)
(* them one group after the other and closes the connections at last.      *)
(*                                                                         *)
(* A task that is cancelled is told so where it waits: the CancelledError  *)
(* is raised at its await.  A message whose BLPOP is answered but not yet  *)
(* received by the loop is gone then.                                      *)
(***************************************************************************)
EXTENDS Naturals, FiniteSets, SequencesExt
CONSTANTS
  Supervised,   \* loops under run_all_workers
  Groups,       \* what shutdown cancels and awaits, in order: a sequence of sets of loops
  PerQueue      \* bound: messages each queue receives

Loops == UNION ToSet(Groups)
ASSUME ShutdownAssumption ==
  Groups \in Seq(SUBSET Loops) /\ Supervised \subseteq Loops /\ PerQueue \in Nat

VARIABLES
  loop,       \* where a loop waits: blpop, answered, sleep; or ended
  super,      \* the task around it: await, backoff or ended
  told,       \* loops whose task was cancelled and does not know yet
  inRedis,      \* messages in Redis, by loop
  handlers,   \* process_one tasks under way, by loop
  lost,       \* history: messages answered to a loop that never saw them
  stopping    \* 0 while the application runs, then the group awaited, and one more: connections closed
shutdownVars == <<loop, super, told, inRedis, handlers, lost, stopping>>

ShutdownInit ==
  /\ loop = [w \in Loops |-> "blpop"]
  /\ super = [w \in Loops |-> "await"]
  /\ told = {}
  /\ inRedis = [w \in Loops |-> PerQueue]
  /\ handlers = [w \in Loops |-> 0]
  /\ lost = [w \in Loops |-> 0]
  /\ stopping = 0

Closed == stopping = Len(Groups) + 1
Ended(w) == super[w] = "ended"
------------------------------------------------------------------------------
(* A loop: Redis answers, the loop starts a handler; or BLPOP raises and   *)
(* the loop sleeps two seconds.  A handler runs to its end by itself.      *)

Answer(w) ==
  /\ loop[w] = "blpop" /\ w \notin told /\ inRedis[w] > 0 /\ ~ Closed
  /\ inRedis' = [inRedis EXCEPT ![w] = @ - 1]
  /\ loop' = [loop EXCEPT ![w] = "answered"]
  /\ UNCHANGED <<super, told, handlers, lost, stopping>>

Receive(w) ==
  /\ loop[w] = "answered" /\ w \notin told
  /\ handlers' = [handlers EXCEPT ![w] = @ + 1]
  /\ loop' = [loop EXCEPT ![w] = "blpop"]
  /\ UNCHANGED <<super, told, inRedis, lost, stopping>>

BlpopFails(w) ==
  /\ loop[w] = "blpop" /\ w \notin told
  /\ loop' = [loop EXCEPT ![w] = "sleep"]
  /\ UNCHANGED <<super, told, inRedis, handlers, lost, stopping>>

Wake(w) ==
  /\ loop[w] = "sleep" /\ w \notin told
  /\ loop' = [loop EXCEPT ![w] = "blpop"]
  /\ UNCHANGED <<super, told, inRedis, handlers, lost, stopping>>

HandlerEnds(w) ==
  /\ handlers[w] > 0
  /\ handlers' = [handlers EXCEPT ![w] = @ - 1]
  /\ UNCHANGED <<loop, super, told, inRedis, lost, stopping>>
------------------------------------------------------------------------------
(* Cancellation arrives.  In BLPOP the loop catches it and returns, and a  *)
(* bare task has ended with it; the supervisor sees an ordinary return and *)
(* goes round: it awaits the same coroutine object again, which raises,    *)
(* sleeps five seconds, and so on.  In the sleep of the error handler it   *)
(* passes through the loop to the task, which ends.                        *)

CancelBlpopRetried(w) ==                \* slip: the loop does not break
  /\ w \in told /\ loop[w] \in {"blpop", "answered"}
  /\ lost' = IF loop[w] = "answered" THEN [lost EXCEPT ![w] = @ + 1] ELSE lost
  /\ loop' = [loop EXCEPT ![w] = "blpop"]
  /\ told' = told \ {w}
  /\ UNCHANGED <<super, inRedis, handlers, stopping>>
CancelBlpop(w) ==
  /\ w \in told /\ loop[w] \in {"blpop", "answered"}
  /\ lost' = IF loop[w] = "answered" THEN [lost EXCEPT ![w] = @ + 1] ELSE lost
  /\ loop' = [loop EXCEPT ![w] = "ended"]
  /\ super' = [super EXCEPT ![w] = IF w \in Supervised THEN "backoff" ELSE "ended"]
  /\ told' = told \ {w}
  /\ UNCHANGED <<inRedis, handlers, stopping>>

CancelSleep(w) ==
  /\ w \in told /\ loop[w] = "sleep"
  /\ loop' = [loop EXCEPT ![w] = "ended"]
  /\ super' = [super EXCEPT ![w] = "ended"]
  /\ told' = told \ {w}
  /\ UNCHANGED <<inRedis, handlers, lost, stopping>>

(* The supervisor awaits a coroutine that is over. *)
Reawait(w) ==
  /\ super[w] = "backoff"
  /\ super' = [super EXCEPT ![w] = "await"]
  /\ UNCHANGED <<loop, told, inRedis, handlers, lost, stopping>>
CannotReuse(w) ==
  /\ super[w] = "await" /\ loop[w] = "ended"
  /\ super' = [super EXCEPT ![w] = "backoff"]
  /\ UNCHANGED <<loop, told, inRedis, handlers, lost, stopping>>
------------------------------------------------------------------------------
(* shutdown(): cancel a group and await it, then the next; after the last  *)
(* one the connections are closed.                                         *)
Awaited == IF stopping = 0 THEN {} ELSE Groups[stopping]
Waited == \A w \in Awaited : Ended(w)

AdvanceRegardless ==                    \* slip: cancelled, not awaited
  /\ ~ Closed
  /\ stopping' = stopping + 1
  /\ told' = IF stopping < Len(Groups) THEN told \cup {w \in Groups[stopping + 1] : ~ Ended(w)} ELSE told
  /\ UNCHANGED <<loop, super, inRedis, handlers, lost>>
Advance ==
  /\ ~ Closed /\ Waited
  /\ stopping' = stopping + 1
  /\ told' = IF stopping < Len(Groups) THEN told \cup {w \in Groups[stopping + 1] : ~ Ended(w)} ELSE told
  /\ UNCHANGED <<loop, super, inRedis, handlers, lost>>

Turn(w) ==
  \/ Receive(w) \/ Wake(w) \/ CancelBlpop(w) \/ CancelSleep(w) \/ Reawait(w) \/ CannotReuse(w)
ShutdownNext ==
  \/ \E w \in Loops : Answer(w) \/ BlpopFails(w) \/ HandlerEnds(w) \/ Turn(w)
  \/ Advance

ShutdownSpec == ShutdownInit /\ [][ShutdownNext]_shutdownVars

(* The event loop runs every task that is ready, and a shutdown that began *)
(* goes on; that it begins is up to the operator.                          *)
FairShutdownSpec ==
  /\ ShutdownSpec
  /\ \A w \in Loops : WF_shutdownVars(Turn(w)) /\ WF_shutdownVars(HandlerEnds(w))
  /\ WF_shutdownVars(stopping > 0 /\ Advance)
------------------------------------------------------------------------------
ShutdownTypeOK ==
  /\ loop \in [Loops -> {"blpop", "answered", "sleep", "ended"}]
  /\ super \in [Loops -> {"await", "backoff", "ended"}]
  /\ told \subseteq Loops
  /\ inRedis \in [Loops -> 0..PerQueue] /\ handlers \in [Loops -> 0..PerQueue]
  /\ lost \in [Loops -> 0..PerQueue]
  /\ stopping \in 0..Len(Groups) + 1

(* A shutdown costs a queue one message at most, the one on its way to the *)
(* loop, and running on costs none: every other message is in Redis or was *)
(* handed to process_one.                                                  *)
LossBounded == \A w \in Loops : lost[w] <= (IF loop[w] = "ended" THEN 1 ELSE 0)

(* The connections are closed under no loop: when shutdown reaches them,   *)
(* none waits in Redis any more, so none can take a message it cannot      *)
(* handle.                                                                 *)
ClosedUnderNoLoop == Closed => \A w \in Loops : loop[w] = "ended" /\ super[w] = "ended"

(* A loop that is cancelled ends, wherever the cancellation meets it: in   *)
(* BLPOP, with an answer on the way, or in the sleep after an error.       *)
LoopsStop == \A w \in Loops : (w \in told) ~> (loop[w] = "ended")

(* "Exits only on CancelledError, the signal of a shutdown"                *)
(* (analyzer.py:2128): a shutdown that began comes to its end.             *)
ShutdownEnds == stopping > 0 ~> Closed
==============================================================================
