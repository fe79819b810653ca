------------------------------- MODULE JobQueue -------------------------------
(***************************************************************************)
(* The analysis queue: the handlers that enqueue a job (services/          *)
(* api_service.py, capture_service.py, har_parser/parser.py), the Redis    *)
(* list, the worker of ai_analyzer/analyzer.py with its process_one        *)
(* coroutines, retry and dead letters, and what the two collections show   *)
(* meanwhile: ai_jobs.status of a job and analysis_status of its API.      *)
(* The workers of the other eight queues have the same shape; README says  *)
(* where they differ.                                                      *)
(*                                                                         *)
(* An action is the code between two awaits: BLPOP, RPUSH and an update of *)
(* a document are one step each, and every other coroutine, of this        *)
(* process or of an HTTP request, may run in between.                      *)
(***************************************************************************)
EXTENDS JobLimits, FiniteSets, SequencesExt
CONSTANTS
  Apis, ApiOf,         \* every job analyses one API
  SourceOf,            \* who enqueues it: "service", "capture" or "har"
  Manual,              \* jobs that a click may enqueue: no check for duplicates then
  Forced,              \* jobs with force=True
  Coroutines,          \* bound: process_one coroutines alive at once
  Concurrency,         \* the semaphore
  MaxLimited,          \* bound: calls for one job refused by the LLM's rate limit
  MaxCrashes           \* bound: crashes of the process

ASSUME QueueAssumption ==
  /\ ApiOf \in [Jobs -> Apis] /\ SourceOf \in [Jobs -> {"service", "capture", "har"}]
  /\ Manual \subseteq Jobs /\ Forced \subseteq Jobs
  /\ Concurrency \in Nat \ {0} /\ MaxCrashes \in Nat /\ MaxLimited \in Nat

VARIABLES
  plan,        \* what the enqueuing handler of a job still has to do
  queue, dlq,  \* queue:ai_analyze and queue:ai_analyze:dlq
  work,        \* process_one coroutines
  jobStatus,   \* ai_jobs.status
  apiStatus,   \* api_dsls.analysis_status
  pending,     \* generation versions that wait for review: <<job, fail_count>>
  over,        \* history: how a job ended: no, done or lost
  tries,       \* history: how often a coroutine took it up
  limited,     \* history: how many of a job's tries ended in a rate limit
  crashes
shown == <<jobStatus, apiStatus, pending>>
history == <<over, tries, limited>>
vars == <<plan, queue, dlq, work, shown, history, crashes>>

Message(j, n, force) == [job |-> j, fails |-> n, force |-> force]
NoMessage == [job |-> "none", fails |-> 0, force |-> FALSE]
Idle == [pc |-> "free", msg |-> NoMessage]

PlanOfPushFirst(j) == <<"push", "note">>    \* slip: the job is noted last
PlanOf(j) ==
  CASE SourceOf[j] = "service" -> <<"check", "announce", "push", "note">>
    [] SourceOf[j] = "capture" -> <<"push", "note">>
    [] SourceOf[j] = "har"     -> <<"note", "push">>

Init ==
  /\ plan = [j \in Jobs |-> PlanOf(j)]
  /\ queue = <<>> /\ dlq = <<>>
  /\ work = [c \in Coroutines |-> Idle]
  /\ jobStatus = [j \in Jobs |-> "none"]
  /\ apiStatus \in [Apis -> {"idle", "applied"}]
  /\ pending = {}
  /\ over = [j \in Jobs |-> "no"]
  /\ tries = [j \in Jobs |-> 0]
  /\ limited = [j \in Jobs |-> 0]
  /\ crashes = 0

ShowJob(j, s) == jobStatus' = [jobStatus EXCEPT ![j] = s]
ShowApi(j, s) == apiStatus' = [apiStatus EXCEPT ![ApiOf[j]] = s]
------------------------------------------------------------------------------
(* Enqueuing: one step of the handler's plan. *)

Planned(j, step) == plan[j] # <<>> /\ Head(plan[j]) = step
Proceed(j) == plan' = [plan EXCEPT ![j] = Tail(@)]

(* The check of _enqueue_ai_analysis, which the button of an API's page    *)
(* skips (skip_dedup); the five-minute filter never bites: nothing writes  *)
(* analyzed_at.                                                            *)
Clicked(j) == IF j \in Manual THEN BOOLEAN ELSE {FALSE}
Check(j) ==
  /\ Planned(j, "check")
  /\ \E clicked \in Clicked(j) :
       plan' = [plan EXCEPT ![j] =
         IF ~ clicked /\ apiStatus[ApiOf[j]] \in {"queued", "running"}
         THEN <<>> ELSE Tail(@)]
  /\ UNCHANGED <<queue, dlq, work, shown, history, crashes>>

Announce(j) ==
  /\ Planned(j, "announce")
  /\ ShowApi(j, "queued") /\ Proceed(j)
  /\ UNCHANGED <<queue, dlq, work, jobStatus, pending, history, crashes>>

Push(j) ==
  /\ Planned(j, "push")
  /\ queue' = Append(queue, Message(j, 0, j \in Forced))
  /\ Proceed(j)
  /\ UNCHANGED <<dlq, work, shown, history, crashes>>

Note(j) ==
  /\ Planned(j, "note")
  /\ ShowJob(j, "queued") /\ Proceed(j)
  /\ UNCHANGED <<queue, dlq, work, apiStatus, pending, history, crashes>>
------------------------------------------------------------------------------
(* The worker and its coroutines. *)

At(c, pc) == work[c].pc = pc
Job(c) == work[c].msg.job
Go(c, pc) == work' = [work EXCEPT ![c].pc = pc]
End(c) == work' = [work EXCEPT ![c] = Idle]
Inside == {c \in Coroutines : work[c].pc \notin {"free", "waiting"}}

(* BLPOP takes the message out of Redis at once, whether or not the        *)
(* semaphore is free.                                                      *)
Take(c) ==
  /\ At(c, "free") /\ queue # <<>>
  /\ work' = [work EXCEPT ![c] = [pc |-> "waiting", msg |-> Head(queue)]]
  /\ queue' = Tail(queue)
  /\ tries' = [tries EXCEPT ![Head(queue).job] = @ + 1]
  /\ UNCHANGED <<plan, dlq, shown, over, limited, crashes>>

Acquire(c) ==
  /\ At(c, "waiting") /\ Cardinality(Inside) < Concurrency
  /\ Go(c, "ready")
  /\ UNCHANGED <<plan, queue, dlq, shown, history, crashes>>

NoteRunning(c) ==
  /\ At(c, "ready")
  /\ ShowJob(Job(c), "running") /\ Go(c, "running")
  /\ UNCHANGED <<plan, queue, dlq, apiStatus, pending, history, crashes>>

(* _prepare_analysis: an API that is analysed already is skipped, which    *)
(* analyze_api reports as success; otherwise the API shows "running".      *)
Done(j) == over' = [over EXCEPT ![j] = "done"]
Skip(c) ==
  /\ At(c, "running")
  /\ apiStatus[ApiOf[Job(c)]] = "applied" /\ ~ work[c].msg.force
  /\ Done(Job(c))
  /\ End(c)
  /\ UNCHANGED <<plan, queue, dlq, shown, tries, limited, crashes>>

Prepare(c) ==
  /\ At(c, "running")
  /\ apiStatus[ApiOf[Job(c)]] # "applied" \/ work[c].msg.force
  /\ ShowApi(Job(c), "running") /\ Go(c, "calling")
  /\ UNCHANGED <<plan, queue, dlq, jobStatus, pending, history, crashes>>

(* The LLM raises, answers nothing, or nothing that parses: the API shows  *)
(* "failed" and analyze_api returns False.  A refusal for the rate, after  *)
(* the retries of _call_llm, ends in the same except clause: it never      *)
(* reaches the RateLimitError handler of process_one.                      *)
MayRefuse(c) == limited[Job(c)] < MaxLimited
LlmFails(c) ==
  /\ At(c, "calling")
  /\ \E refused \in BOOLEAN :
       /\ refused => MayRefuse(c)
       /\ limited' = IF refused THEN [limited EXCEPT ![Job(c)] = @ + 1] ELSE limited
  /\ ShowApi(Job(c), "failed") /\ Go(c, "failing")
  /\ UNCHANGED <<plan, queue, dlq, jobStatus, pending, over, tries, crashes>>

(* The generated versions are stored, and the job waits for review. *)
Version(c) == <<Job(c), work[c].msg.fails>>
LlmAnswers(c) ==
  /\ At(c, "calling")
  /\ ShowJob(Job(c), "pending_review")
  /\ pending' = pending \cup {Version(c)}
  /\ Go(c, "saved")
  /\ UNCHANGED <<plan, queue, dlq, apiStatus, history, crashes>>

(* The setting auto_review_flow is read here: on, the versions wait for a  *)
(* reviewer; off, they are applied, and one that cannot be still waits.    *)
Publish(c) ==
  /\ At(c, "saved")
  /\ \/ ShowApi(Job(c), "pending_review") /\ UNCHANGED pending
     \/ ShowApi(Job(c), "applied") /\ pending' \in {pending, pending \ {Version(c)}}
  /\ Done(Job(c)) /\ End(c)
  /\ UNCHANGED <<plan, queue, dlq, jobStatus, tries, limited, crashes>>

(* Ten minutes are over, or the database raises, anywhere in analyze_api.  *)
(* As a slip: a timeout gives the job up.                                  *)
InterruptedForGood(c) ==
  /\ work[c].pc \in {"running", "calling", "saved"}
  /\ Done(Job(c)) /\ End(c)
  /\ UNCHANGED <<plan, queue, dlq, shown, tries, limited, crashes>>
Interrupted(c) ==
  /\ work[c].pc \in {"running", "calling", "saved"}
  /\ Go(c, "failing")
  /\ UNCHANGED <<plan, queue, dlq, shown, history, crashes>>
------------------------------------------------------------------------------
(* _requeue_or_dlq: the new message does not carry force. *)

LastTry(m) == m.fails + 1 >= MaxRetry

GiveBack(c) ==
  /\ At(c, "failing") /\ ~ LastTry(work[c].msg)
  /\ queue' = Append(queue, Message(Job(c), work[c].msg.fails + 1, FALSE))
  /\ Go(c, "requeued")
  /\ UNCHANGED <<plan, dlq, shown, history, crashes>>

NoteRetryLeaking(c) ==       \* slip: the semaphore is not released
  /\ At(c, "requeued")
  /\ ShowJob(Job(c), "retry") /\ Go(c, "leaked")
  /\ UNCHANGED <<plan, queue, dlq, apiStatus, pending, history, crashes>>
NoteRetry(c) ==
  /\ At(c, "requeued")
  /\ ShowJob(Job(c), "retry") /\ End(c)
  /\ UNCHANGED <<plan, queue, dlq, apiStatus, pending, history, crashes>>

Bury(c) ==
  /\ At(c, "failing") /\ LastTry(work[c].msg)
  /\ dlq' = Append(dlq, Message(Job(c), work[c].msg.fails + 1, FALSE))
  /\ Go(c, "buried")
  /\ UNCHANGED <<plan, queue, shown, history, crashes>>

NoteDlq(c) ==
  /\ At(c, "buried")
  /\ ShowJob(Job(c), "dlq") /\ Go(c, "noted")
  /\ UNCHANGED <<plan, queue, dlq, apiStatus, pending, history, crashes>>

NoteFailed(c) ==
  /\ At(c, "noted")
  /\ ShowApi(Job(c), "failed") /\ End(c)
  /\ UNCHANGED <<plan, queue, dlq, jobStatus, pending, history, crashes>>
------------------------------------------------------------------------------
(* A reviewer accepts a version: apply_version shows the API as applied. *)
Accept(v) ==
  /\ v \in pending
  /\ pending' = pending \ {v}
  /\ ShowApi(v[1], "applied")
  /\ UNCHANGED <<plan, queue, dlq, work, jobStatus, history, crashes>>

(* The process dies and starts again: Redis and MongoDB keep what they     *)
(* hold; coroutines and handlers are gone.                                 *)
Holding(c) == work[c].pc \in {"waiting", "ready", "running", "calling", "saved", "failing"}
Held == {Job(c) : c \in {x \in Coroutines : Holding(x)}}
CrashFlushing ==             \* slip: the list does not survive
  /\ crashes < MaxCrashes
  /\ crashes' = crashes + 1
  /\ work' = [c \in Coroutines |-> Idle]
  /\ plan' = [j \in Jobs |-> IF plan[j] = PlanOf(j) THEN plan[j] ELSE <<>>]
  /\ over' = [j \in Jobs |-> IF j \in Held THEN "lost" ELSE over[j]]
  /\ queue' = <<>>
  /\ UNCHANGED <<dlq, shown, tries, limited>>
Crash ==
  /\ crashes < MaxCrashes
  /\ crashes' = crashes + 1
  /\ work' = [c \in Coroutines |-> Idle]
  /\ plan' = [j \in Jobs |-> IF plan[j] = PlanOf(j) THEN plan[j] ELSE <<>>]
  /\ over' = [j \in Jobs |-> IF j \in Held THEN "lost" ELSE over[j]]
  /\ UNCHANGED <<queue, dlq, shown, tries, limited>>

Enqueue(j) == Check(j) \/ Announce(j) \/ Push(j) \/ Note(j)
Run(c) ==
  \/ Take(c) \/ Acquire(c) \/ NoteRunning(c) \/ Skip(c) \/ Prepare(c)
  \/ LlmFails(c) \/ LlmAnswers(c) \/ Publish(c) \/ Interrupted(c)
  \/ GiveBack(c) \/ NoteRetry(c) \/ Bury(c) \/ NoteDlq(c) \/ NoteFailed(c)

Next ==
  \/ \E j \in Jobs : Enqueue(j)
  \/ \E c \in Coroutines : Run(c)
  \/ \E v \in pending : Accept(v)
  \/ Crash

Spec == Init /\ [][Next]_vars

(* Coroutines run on; every wait in them has a timeout. *)
FairSpec == Spec /\ \A c \in Coroutines : WF_vars(Run(c))
------------------------------------------------------------------------------
Msg == [job : Jobs \cup {"none"}, fails : 0..MaxRetry, force : BOOLEAN]

TypeOK ==
  /\ plan \in [Jobs -> Seq({"check", "announce", "push", "note"})]
  /\ queue \in Seq(Msg) /\ dlq \in Seq(Msg)
  /\ work \in [Coroutines -> [pc : {"free", "waiting", "ready", "running", "calling", "saved",
                                    "failing", "requeued", "buried", "noted"}, msg : Msg]]
  /\ jobStatus \in [Jobs -> {"none", "queued", "running", "retry", "pending_review", "dlq"}]
  /\ apiStatus \in [Apis -> {"idle", "queued", "running", "pending_review", "applied", "failed"}]
  /\ pending \subseteq Jobs \X (0..MaxRetry)
  /\ over \in [Jobs -> {"no", "done", "lost"}]
  /\ tries \in [Jobs -> Nat] /\ limited \in [Jobs -> Nat]
  /\ crashes \in 0..MaxCrashes

Queued == {queue[i].job : i \in DOMAIN queue}
Dead == {dlq[i].job : i \in DOMAIN dlq}
Entering(j) == plan[j] # <<>> /\ plan[j] # PlanOf(j)
Busy == {Job(c) : c \in {x \in Coroutines : work[x].pc # "free"}}
UnderWay == {j \in Jobs : Entering(j)} \cup Queued \cup Busy

(* The job as the abstract specification sees it. *)
PlaceOf(j) ==
  CASE over[j] # "no" -> over[j]
    [] j \in Held -> "held"
    [] j \in Queued -> "waiting"
    [] j \in Dead -> "dead"
    [] OTHER -> "new"
Messages == ToSet(queue) \cup ToSet(dlq) \cup {work[c].msg : c \in {x \in Coroutines : Holding(x)}}
FailsOf(j) ==
  CASE over[j] # "no" -> tries[j] - 1
    [] \E m \in Messages : m.job = j -> (CHOOSE m \in Messages : m.job = j).fails
    [] OTHER -> 0
Life == INSTANCE JobLife WITH
  place <- [j \in Jobs |-> PlaceOf(j)], fails <- [j \in Jobs |-> FailsOf(j)], tries <- tries

(* Queue, coroutines and dead letters together keep the promise of         *)
(* JobLife: one place at a time, a bounded number of tries, nothing lost   *)
(* but by a crash.                                                         *)
ImplementsJobLife == Life!Spec

(* An API is shown as queued or running only while a job for it is under   *)
(* way: no retry, timeout, skip or overtaking of two jobs for one API      *)
(* leaves the status behind, so the check for duplicates never locks an    *)
(* API out.  A crash can: the status stays and the job is gone.            *)
ShownBusyIsBusy ==
  crashes = 0 => \A a \in Apis : apiStatus[a] \in {"queued", "running"} =>
    \E j \in UnderWay : ApiOf[j] = a

(* A job noted in ai_jobs before it is pushed (the HAR import) is shown as *)
(* given up when it is.  With a slot to spare its last try may overtake    *)
(* the note of the try before: then it is shown as due for a retry, never  *)
(* as queued, running or waiting for review.  The other handlers push      *)
(* first, and their late "queued" can show.                                *)
Outrun == IF Concurrency > 1 THEN {"retry"} ELSE {}
NotedFirstIsShown ==
  crashes = 0 => \A j \in Dead \ UnderWay :
    SourceOf[j] = "har" => jobStatus[j] \in {"dlq"} \cup Outrun

(* Every job that is enqueued comes to its end, or to the dead letters.    *)
Settles ==
  \A j \in Jobs : (j \in Queued) ~> (over[j] # "no" \/ j \in Dead)

(* "A rate limit: requeue without raising fail_count, it is not the task   *)
(* that failed" (analyzer.py:2206): no job is given up when the LLM        *)
(* refused every one of its tries for the rate.                            *)
RateLimitsBuryNone == \A j \in Dead : limited[j] < tries[j]
==============================================================================
