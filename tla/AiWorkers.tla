------------------------------ MODULE AiWorkers -------------------------------
(***************************************************************************)
(* The eight AI workers beside the one of JobQueue: three that evaluate    *)
(* (ai_analyzer/diff_evaluator.py, failure_diagnoser.py,                   *)
(* alert_analyzer.py) and five that generate (the document, assertion,     *)
(* scenario, data template and monitor workers of analyzer.py).  All of    *)
(* them pop a list, run one coroutine per message behind a semaphore, and  *)
(* requeue or bury what failed; they differ in which failures they count,  *)
(* in what they write and in which order, and that is what is modelled.    *)
(* What a project's workers share with the analysis queue (crashes, the    *)
(* order of the list) is in JobQueue.                                      *)
(***************************************************************************)
EXTENDS JobLimits, FiniteSets, SequencesExt
CONSTANTS
  Kinds,        \* the workers that run
  Coroutines,   \* bound: process_one coroutines alive at once
  Concurrency,  \* the semaphore of each worker
  Batches,      \* the clusters of APIs a scenario job is split into
  MaxFree       \* bound: failures of one job that its worker does not count

ASSUME WorkersAssumption ==
  /\ Kinds \subseteq {"doc", "asserts", "scenario", "data_template",
                      "monitor", "diff", "diagnose", "alert"}
  /\ Concurrency \in Nat \ {0} /\ Batches \in Nat \ {0} /\ MaxFree \in Nat

VARIABLES
  kind,      \* the worker a job is for
  plan,      \* what the handler that sends the job still has to do
  queue,     \* the lists: messages [job, fails, force]
  dlq,       \* the dead letter lists
  work,      \* coroutines
  shown,     \* ai_jobs.status
  target,    \* the status of what the job is about, "gone" once deleted
  versions,  \* how many versions for review the job has inserted
  failures   \* history: failed tries of a job, by cause
vars == <<kind, plan, queue, dlq, work, shown, target, versions, failures>>

Causes == {"rate", "api", "other"}
Message(j, n, force) == [job |-> j, fails |-> n, force |-> force]
NoMessage == [job |-> "none", fails |-> 0, force |-> FALSE]
Idle == [pc |-> "free", msg |-> NoMessage, batch |-> 0, saved |-> FALSE]

(* The failures whose except branch requeues with the same fail_count.     *)
(* Template, alert, document and assertion workers have such a branch too, *)
(* but the call inside catches the error and returns None or False, which  *)
(* counts.                                                                 *)
Excused(k) ==
  CASE k \in {"scenario", "diff", "diagnose"} -> {"rate"}
    [] k = "monitor" -> {"rate", "api"}
    [] OTHER -> {}

(* Every sender pushes before it notes the job; api_service announces the  *)
(* state of the API first, the engine tells the execution last.            *)
PlanOf(k) ==
  CASE k \in {"doc", "asserts"} -> <<"tell", "push", "note">>
    [] k = "diagnose" -> <<"push", "note", "tell">>
    [] OTHER -> <<"push", "note">>

Init ==
  /\ kind \in [Jobs -> Kinds]
  /\ plan = [j \in Jobs |-> PlanOf(kind[j])]
  /\ queue = {} /\ dlq = {}
  /\ work = [c \in Coroutines |-> Idle]
  /\ shown = [j \in Jobs |-> "none"]
  /\ target = [j \in Jobs |-> IF kind[j] = "diff" THEN "pending" ELSE "idle"]
  /\ versions = [j \in Jobs |-> 0]
  /\ failures = [j \in Jobs |-> [x \in Causes |-> 0]]

Show(j, s) == shown' = [shown EXCEPT ![j] = s]
(* An update of a document that was deleted matches nothing. *)
Tell(j, s) == target' = [target EXCEPT ![j] = IF @ = "gone" THEN @ ELSE s]
------------------------------------------------------------------------------
(* The senders. *)

Planned(j, step) == plan[j] # <<>> /\ Head(plan[j]) = step
Proceed(j) == plan' = [plan EXCEPT ![j] = Tail(@)]

(* The buttons for a document and for assertions may force them. *)
Forces(j) == IF kind[j] \in {"doc", "asserts"} THEN BOOLEAN ELSE {FALSE}
Push(j) ==
  /\ Planned(j, "push") /\ Proceed(j)
  /\ \E force \in Forces(j) :
       queue' = queue \cup {Message(j, 0, force)}
  /\ UNCHANGED <<kind, dlq, work, shown, target, versions, failures>>

Note(j) ==
  /\ Planned(j, "note") /\ Proceed(j) /\ Show(j, "queued")
  /\ UNCHANGED <<kind, queue, dlq, work, target, versions, failures>>

Announce(j) ==
  /\ Planned(j, "tell") /\ Proceed(j) /\ Tell(j, "queued")
  /\ UNCHANGED <<kind, queue, dlq, work, shown, versions, failures>>
------------------------------------------------------------------------------
(* What happens around the workers. *)

(* Somebody deletes the API, template or scenario; executions and alerts   *)
(* are never deleted.                                                      *)
Delete(j) ==
  /\ kind[j] \notin {"diagnose", "alert"} /\ target[j] # "gone"
  /\ target' = [target EXCEPT ![j] = "gone"]
  /\ UNCHANGED <<kind, plan, queue, dlq, work, shown, versions, failures>>

(* A user settles the difference, whatever the evaluator is doing. *)
Resolve(j) ==
  /\ kind[j] = "diff" /\ target[j] # "gone"
  /\ \E s \in {"confirmed", "dismissed"} : Tell(j, s)
  /\ UNCHANGED <<kind, plan, queue, dlq, work, shown, versions, failures>>

(* A reviewer accepts a version of the API's document or assertions. *)
Accept(j) ==
  /\ kind[j] \in {"doc", "asserts"} /\ versions[j] > 0 /\ Tell(j, "applied")
  /\ UNCHANGED <<kind, plan, queue, dlq, work, shown, versions, failures>>
------------------------------------------------------------------------------
(* The workers. *)

At(c, pc) == work[c].pc = pc
Job(c) == work[c].msg.job
Kind(c) == kind[Job(c)]
Go(c, pc) == work' = [work EXCEPT ![c].pc = pc]
End(c) == work' = [work EXCEPT ![c] = Idle]
Inside(k) == {c \in Coroutines : work[c].pc \notin {"free", "waiting"} /\ Kind(c) = k}

Take(c) ==
  /\ At(c, "free")
  /\ \E m \in queue :
       /\ queue' = queue \ {m}
       /\ work' = [work EXCEPT ![c] = [Idle EXCEPT !.pc = "waiting", !.msg = m]]
  /\ UNCHANGED <<kind, plan, dlq, shown, target, versions, failures>>

NoteRunning(c) ==
  /\ At(c, "waiting") /\ Cardinality(Inside(Kind(c))) < Concurrency
  /\ Show(Job(c), "running") /\ Go(c, "ready")
  /\ UNCHANGED <<kind, plan, queue, dlq, target, versions, failures>>

(* Loading the target. *)
Load(c) ==
  /\ At(c, "ready") /\ target[Job(c)] # "gone"
  /\ ~ (Kind(c) \in {"doc", "asserts"} /\ target[Job(c)] = "applied" /\ ~ work[c].msg.force)
  /\ Go(c, "working")
  /\ IF Kind(c) \in {"doc", "asserts", "diagnose"}
     THEN Tell(Job(c), "running") ELSE UNCHANGED target
  /\ UNCHANGED <<kind, plan, queue, dlq, shown, versions, failures>>

(* Successes without a word to ai_jobs: a difference that is gone, an      *)
(* execution without steps, an API that was analysed already.              *)
Skip(c) ==
  /\ At(c, "ready")
  /\ \/ Kind(c) = "diff" /\ target[Job(c)] = "gone"
     \/ Kind(c) = "diagnose" /\ target[Job(c)] \in {"idle", "queued"}
     \/ /\ Kind(c) \in {"doc", "asserts"} /\ target[Job(c)] = "applied"
        /\ ~ work[c].msg.force
  /\ End(c)
  /\ UNCHANGED <<kind, plan, queue, dlq, shown, target, versions, failures>>

(* One of the two APIs of a difference was deleted. *)
DismissOrphan(c) ==
  /\ At(c, "ready") /\ Kind(c) = "diff" /\ Tell(Job(c), "dismissed") /\ End(c)
  /\ UNCHANGED <<kind, plan, queue, dlq, shown, versions, failures>>

(* The coroutine has failed and waits to requeue, asleep when the failure  *)
(* is one the worker excuses; it keeps its place in the semaphore.         *)
CountingAll(k, cause, n) == n + 1              \* slip: no failure is excused
Counted(k, cause, n) == IF cause \in Excused(k) THEN n ELSE n + 1
Blame(c, cause) ==
  /\ work' = [work EXCEPT ![c].pc = "failed",
                         ![c].msg.fails = Counted(Kind(c), cause, @)]
  /\ failures' = [failures EXCEPT ![Job(c)][cause] = @ + 1]

NoTarget(c) ==
  /\ At(c, "ready") /\ target[Job(c)] = "gone" /\ Kind(c) \notin {"diff", "scenario"}
  /\ Blame(c, "other")
  /\ UNCHANGED <<kind, plan, queue, dlq, shown, target, versions>>

(* The model refuses or answers nonsense.  The analyses and the diagnosis  *)
(* tell their target so when the call raises; an answer that the diagnosis *)
(* cannot parse leaves its execution at "running".                         *)
LlmFails(c) ==
  /\ At(c, "working")
  /\ \E cause \in Causes, raised \in BOOLEAN :
       /\ cause # "other" => raised
       /\ cause \in Excused(Kind(c)) => failures[Job(c)][cause] < MaxFree
       /\ Blame(c, cause)
       /\ IF Kind(c) \in {"doc", "asserts"} \/ (Kind(c) = "diagnose" /\ raised)
          THEN Tell(Job(c), "failed") ELSE UNCHANGED target
  /\ UNCHANGED <<kind, plan, queue, dlq, shown, versions>>

(* asyncio.wait_for(..., 600) of the generators: it may also strike when   *)
(* the version is inserted and the job or the target not yet told.         *)
TimesOut(c) ==
  /\ work[c].pc \in {"working", "inserted", "telling"}
  /\ Kind(c) \notin {"diff", "diagnose", "alert"}
  /\ Blame(c, "other")
  /\ UNCHANGED <<kind, plan, queue, dlq, shown, target, versions>>
------------------------------------------------------------------------------
(* Success. *)

Insert(j) == versions' = [versions EXCEPT ![j] = @ + 1]

(* The generators save a version and note the job as waiting for review.   *)
Generate(c) ==
  /\ At(c, "working") /\ Kind(c) \notin {"diff", "diagnose", "alert"}
  /\ Insert(Job(c)) /\ Go(c, "inserted")
  /\ UNCHANGED <<kind, plan, queue, dlq, shown, target, failures>>

Noted(c) ==
  /\ At(c, "inserted")
  /\ Show(Job(c), "pending_review")
  /\ CASE Kind(c) \in {"data_template", "monitor"} -> End(c)
       [] Kind(c) = "scenario" ->
            work' = [work EXCEPT ![c].pc = "batched", ![c].batch = @ + 1, ![c].saved = TRUE]
       [] OTHER -> Go(c, "telling")
  /\ UNCHANGED <<kind, plan, queue, dlq, target, versions, failures>>

(* Assertions somebody wrote are kept: no version, and the API is shown as *)
(* waiting for review all the same.                                        *)
KeepAsserts(c) ==
  /\ At(c, "working") /\ Kind(c) = "asserts" /\ ~ work[c].msg.force
  /\ Go(c, "telling")
  /\ UNCHANGED <<kind, plan, queue, dlq, shown, target, versions, failures>>

TellReview(c) ==
  /\ At(c, "telling")
  /\ Tell(Job(c), "pending_review") /\ End(c)
  /\ UNCHANGED <<kind, plan, queue, dlq, shown, versions, failures>>

(* A batch whose APIs are gone, or none of whose scenarios is valid, adds  *)
(* no version; the job has failed only when no batch of this try added one.*)
EmptyAgain(c) ==                               \* slip: only batches with a result count
  /\ At(c, "working") \/ (At(c, "ready") /\ target[Job(c)] = "gone")
  /\ Kind(c) = "scenario" /\ Go(c, "batched")
  /\ UNCHANGED <<kind, plan, queue, dlq, shown, target, versions, failures>>
EmptyBatch(c) ==
  /\ At(c, "working") \/ (At(c, "ready") /\ target[Job(c)] = "gone")
  /\ Kind(c) = "scenario"
  /\ work' = [work EXCEPT ![c].pc = "batched", ![c].batch = @ + 1]
  /\ UNCHANGED <<kind, plan, queue, dlq, shown, target, versions, failures>>

NextBatch(c) ==
  /\ At(c, "batched") /\ work[c].batch < Batches /\ Go(c, "ready")
  /\ UNCHANGED <<kind, plan, queue, dlq, shown, target, versions, failures>>

Gathered(c) == work[c].saved
CloseBatches(c) ==
  /\ At(c, "batched") /\ work[c].batch = Batches
  /\ Show(Job(c), IF Gathered(c) THEN "pending_review" ELSE "failed")
  /\ End(c)
  /\ UNCHANGED <<kind, plan, queue, dlq, target, versions, failures>>

(* The evaluator: noise is dismissed, anything else is confirmed, and a    *)
(* difference the documents are to blame for gets a version to review.     *)
Judge(c) ==
  /\ At(c, "working") /\ Kind(c) = "diff"
  /\ \E s \in {"confirmed", "dismissed"} : Tell(Job(c), s)
  /\ Go(c, "closing")
  /\ UNCHANGED <<kind, plan, queue, dlq, shown, versions, failures>>

InsertFix(c) ==
  /\ At(c, "working") /\ Kind(c) = "diff"
  /\ Insert(Job(c)) /\ Go(c, "fixed")
  /\ UNCHANGED <<kind, plan, queue, dlq, shown, target, failures>>
NoteFix(c) ==
  /\ At(c, "fixed") /\ Show(Job(c), "pending_review") /\ Go(c, "confirm")
  /\ UNCHANGED <<kind, plan, queue, dlq, target, versions, failures>>
ConfirmFix(c) ==
  /\ At(c, "confirm") /\ Tell(Job(c), "confirmed") /\ Go(c, "reviewing")
  /\ UNCHANGED <<kind, plan, queue, dlq, shown, versions, failures>>

(* The diagnosis: the execution first, then a version that repairs its     *)
(* assertions, then the job.                                               *)
Diagnose(c) ==
  /\ At(c, "working") /\ Kind(c) = "diagnose"
  /\ Tell(Job(c), "done")
  /\ \E pc \in {"repairing", "closing"} : Go(c, pc)
  /\ UNCHANGED <<kind, plan, queue, dlq, shown, versions, failures>>
Repair(c) ==
  /\ At(c, "repairing") /\ Insert(Job(c)) /\ Go(c, "reviewing")
  /\ UNCHANGED <<kind, plan, queue, dlq, shown, target, failures>>

Assess(c) ==
  /\ At(c, "working") /\ Kind(c) = "alert"
  /\ Tell(Job(c), "assessed") /\ Go(c, "closing")
  /\ UNCHANGED <<kind, plan, queue, dlq, shown, versions, failures>>

Close(c) ==
  /\ \/ At(c, "closing") /\ Show(Job(c), "done")
     \/ At(c, "reviewing") /\ Show(Job(c), "pending_review")
  /\ End(c)
  /\ UNCHANGED <<kind, plan, queue, dlq, target, versions, failures>>
------------------------------------------------------------------------------
(* Failure: back into the list, or into the dead letters. *)

LastTry(c) == work[c].msg.fails >= MaxRetry
(* Only the first message of a job carries force. *)
Requeue(c) ==
  /\ At(c, "failed") /\ ~ LastTry(c)
  /\ queue' = queue \cup {Message(Job(c), work[c].msg.fails, FALSE)}
  /\ Go(c, "requeued")
  /\ UNCHANGED <<kind, plan, dlq, shown, target, versions, failures>>
NoteRetry(c) ==
  /\ At(c, "requeued") /\ Show(Job(c), "retry") /\ End(c)
  /\ UNCHANGED <<kind, plan, queue, dlq, target, versions, failures>>

Bury(c) ==
  /\ At(c, "failed") /\ LastTry(c)
  /\ dlq' = dlq \cup {work[c].msg}
  /\ Go(c, "buried")
  /\ UNCHANGED <<kind, plan, queue, shown, target, versions, failures>>
NoteDlq(c) ==
  /\ At(c, "buried") /\ Show(Job(c), "dlq") /\ Go(c, "mourning")
  /\ UNCHANGED <<kind, plan, queue, dlq, target, versions, failures>>
TellsNobody(k) == FALSE                        \* slip: the target is not told
TellsBurial(k) == k \in {"doc", "asserts", "diagnose"}
TellDlq(c) ==
  /\ At(c, "mourning")
  /\ IF TellsBurial(Kind(c)) THEN Tell(Job(c), "failed") ELSE UNCHANGED target
  /\ End(c)
  /\ UNCHANGED <<kind, plan, queue, dlq, shown, versions, failures>>
------------------------------------------------------------------------------
Fails(c) == NoTarget(c) \/ LlmFails(c) \/ TimesOut(c)
Succeeds(c) ==
  \/ Skip(c) \/ DismissOrphan(c) \/ Generate(c) \/ Noted(c) \/ KeepAsserts(c) \/ TellReview(c)
  \/ EmptyBatch(c) \/ NextBatch(c) \/ CloseBatches(c)
  \/ Judge(c) \/ InsertFix(c) \/ NoteFix(c) \/ ConfirmFix(c)
  \/ Diagnose(c) \/ Repair(c) \/ Assess(c) \/ Close(c)
GivesBack(c) ==
  \/ Requeue(c) \/ NoteRetry(c) \/ Bury(c) \/ NoteDlq(c) \/ TellDlq(c)
Coroutine(c) == Take(c) \/ NoteRunning(c) \/ Load(c) \/ Fails(c) \/ Succeeds(c) \/ GivesBack(c)
Sender(j) == Push(j) \/ Note(j) \/ Announce(j)
Users(j) == Delete(j) \/ Resolve(j) \/ Accept(j)
Next == (\E c \in Coroutines : Coroutine(c)) \/ (\E j \in Jobs : Sender(j) \/ Users(j))

(* Every handler and coroutine that can go on does: asyncio runs each that *)
(* is ready, and the semaphore wakes its waiters in turn.                  *)
Spec == /\ Init /\ [][Next]_vars
        /\ \A c \in Coroutines : WF_vars(Coroutine(c)) /\ SF_vars(NoteRunning(c))
        /\ \A j \in Jobs : WF_vars(Sender(j))
------------------------------------------------------------------------------
Places == {"free", "waiting", "ready", "working", "inserted", "batched", "telling",
           "fixed", "confirm", "repairing", "closing", "reviewing",
           "failed", "requeued", "buried", "mourning"}
Messages == [job : Jobs, fails : 0..MaxRetry, force : BOOLEAN]
(* Every variable has its type. *)
TypeOK ==
  /\ kind \in [Jobs -> Kinds]
  /\ queue \subseteq Messages /\ dlq \subseteq Messages
  /\ \A c \in Coroutines :
       /\ work[c].pc \in Places /\ work[c].batch \in 0..Batches
       /\ work[c].pc # "free" => work[c].msg \in Messages
  /\ shown \in [Jobs -> {"none", "queued", "running", "retry", "pending_review",
                         "done", "failed", "dlq"}]
  /\ target \in [Jobs -> {"idle", "pending", "queued", "running", "failed", "pending_review",
                          "applied", "confirmed", "dismissed", "done", "assessed", "gone"}]
  /\ versions \in [Jobs -> Nat] /\ failures \in [Jobs -> [Causes -> Nat]]

(* A job is buried for MaxRetry failures.  Of the scenario, difference and *)
(* diagnosis workers a rate limit is none of them, of the monitor worker   *)
(* no error of the API is: however often these come in between, they bring *)
(* a job no closer to the dead letters.  Of the other four workers nothing *)
(* is said but that the failures are no fewer, for there a rate limit does *)
(* cost a try: RateLimitIsFree, below, is not so.                          *)
BuriedForCause ==
  \A m \in dlq :
    LET f == failures[m.job]
        k == kind[m.job]
    IN /\ m.fails = MaxRetry
       /\ k \in {"scenario", "diff", "diagnose"} => f["api"] + f["other"] = MaxRetry
       /\ k = "monitor" => f["other"] = MaxRetry
       /\ f["rate"] + f["api"] + f["other"] >= MaxRetry

(* What the comments of the document and assertion workers say            *)
(* (analyzer.py:2281, 2356: a rate limit does not increase fail_count) and *)
(* the branches of the template and alert workers mean to do: no rate      *)
(* limit counts towards a burial.  The model, as the code, violates it.    *)
RateLimitIsFree ==
  \A m \in dlq : failures[m.job]["api"] + failures[m.job]["other"] >= MaxRetry

(* Whoever shows a job as waiting for review has a version to show: the    *)
(* version is inserted first, and a scenario job whose batches were all    *)
(* empty says that it failed.                                              *)
ReviewHasVersion == \A j \in Jobs : shown[j] = "pending_review" => versions[j] > 0

Resting(j) ==
  /\ plan[j] = <<>> /\ \A m \in queue : m.job # j
  /\ \A c \in Coroutines : Job(c) # j
(* Once nothing of a job is left in the queue or in a coroutine, what it   *)
(* was about no longer says that it is being worked on: an unreadable      *)
(* answer and a timeout leave it at "running", and the retry, or the       *)
(* burial, corrects that; a difference that nobody judged has its job in   *)
(* the dead letters.  (An execution may say "queued" for ever: the engine  *)
(* writes that last.)                                                      *)
TargetsSettle ==
  \A j \in Jobs : Resting(j) =>
    /\ target[j] # "running"
    /\ target[j] = "queued" => kind[j] = "diagnose"
    /\ target[j] = "pending" => \E m \in dlq : m.job = j

(* An evaluation is concluded once: the evaluator and the diagnoser never  *)
(* leave two versions for one job, however often it was retried.           *)
OneVersion == \A j \in Jobs : kind[j] \in {"diff", "diagnose"} => versions[j] <= 1

(* Every job comes to rest when the excused failures do not go on forever. *)
JobsSettle == \A j \in Jobs : <>[]Resting(j)
==============================================================================
