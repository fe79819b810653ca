------------------------------- MODULE DlqAdmin -------------------------------
(***************************************************************************)
(* The dead letters of the analysis queues and the requests that take them *)
(* out again (api/routers/dlq.py): retry and removal by index, retry by    *)
(* job_id.  Three queues share one list of dead letters; a request reads   *)
(* the list, overwrites one element with a placeholder of its own, removes *)
(* the placeholder, and pushes the job to the queue it came from.  Each of *)
(* these is a Redis command of its own, an action each.  The workers pop   *)
(* into coroutines that wait for a slot, run, and end by themselves; what  *)
(* one of them pushes and what it notes in ai_jobs are two steps as well.  *)
(* The page of all AI jobs puts the records, the queues and the dead       *)
(* letters together, one reading after the other.                          *)
(***************************************************************************)
EXTENDS Naturals, FiniteSets, SequencesExt
CONSTANTS
  Jobs, HomeOf,   \* the queue whose worker gave the job up
  Legacy,         \* jobs whose dead letter has no target_queue
  Admins,         \* concurrent requests
  Coroutines,     \* bound: process_one coroutines alive at once
  Slots,          \* of the semaphore each worker has
  MaxRequests,    \* bound: requests made
  MaxCrashes      \* bound: crashes of the API process

(* The entries of QUEUE_DEFS whose dlq_key is queue:ai_analyze:dlq. *)
QueueDefs == <<"ai_analyze", "ai_analyze_doc", "ai_analyze_asserts">>
Queues == ToSet(QueueDefs)

ASSUME AdminAssumption ==
  /\ IsFiniteSet(Jobs) /\ HomeOf \in [Jobs -> Queues]
  /\ Jobs \cap Admins = {} /\ (Jobs \cup Admins) \cap {"stale", "none"} = {}
  /\ Legacy \subseteq {j \in Jobs : HomeOf[j] = "ai_analyze"} /\ MaxCrashes \in Nat
  /\ MaxRequests \in Nat /\ IsFiniteSet(Coroutines) /\ Slots \in Nat

VARIABLES
  dlq,        \* queue:ai_analyze:dlq
  queues,     \* the three work queues
  request,    \* what each admin's request does
  hand,       \* the coroutines of the workers: what each has popped, and how far it is
  jobStatus,  \* ai_jobs.status, as far as these queues change it
  over,       \* history: jobs that ended in a worker, were removed or got lost
  silent,     \* history: jobs taken out of the list without a word to ai_jobs,
              \* or noted as dead after a retry had come and gone
  asked, crashes,
  crossed     \* history: two requests were under way at once
vars == <<dlq, queues, request, hand, jobStatus, over, silent, asked, crashes, crossed>>

(* A dead letter; an admin in place of the job is his placeholder. *)
Letter(j, tag) == [job |-> j, tag |-> tag]
Placeholder(a) == Letter(a, "none")
NoRequest == [pc |-> "idle", op |-> "none", seen |-> "none", queue |-> "none",
              index |-> 0, left |-> <<>>, payload |-> Letter("none", "none"), rows |-> <<>>]
Free == [pc |-> "idle", job |-> "none", queue |-> "none"]

Init ==
  /\ dlq = SetToSeq({Letter(j, "none") : j \in Legacy})
  /\ queues = [q \in Queues |-> SetToSeq({j \in Jobs \ Legacy : HomeOf[j] = q})]
  /\ request = [a \in Admins |-> NoRequest]
  /\ hand = [w \in Coroutines |-> Free]
  /\ jobStatus = [j \in Jobs |-> IF j \in Legacy THEN "none" ELSE "queued"]
  /\ over = [j \in Jobs |-> {}] /\ silent = {}
  /\ asked = 0
  /\ crashes = 0 /\ crossed = FALSE
------------------------------------------------------------------------------
(* The workers' side.  The loop pops without waiting for a slot; once a    *)
(* coroutine has one it notes the job as running, or drops what is no job. *)
Is(w, pc) == hand[w].pc = pc
Goes(w, pc) == hand' = [hand EXCEPT ![w].pc = pc]
Shown(j, status) == jobStatus' = [jobStatus EXCEPT ![j] = status]
Frees(w) == hand' = [hand EXCEPT ![w] = Free]
HasSlot(w) == hand[w].pc \in {"running", "retrying", "burying"}

Pop(w, q) ==
  /\ Is(w, "idle") /\ queues[q] # <<>>
  /\ queues' = [queues EXCEPT ![q] = Tail(@)]
  /\ hand' = [hand EXCEPT ![w] = [pc |-> "waiting", job |-> Head(queues[q]), queue |-> q]]
  /\ UNCHANGED <<dlq, request, jobStatus, over, silent, asked, crashes, crossed>>

Begin(w) ==
  /\ Is(w, "waiting")
  /\ Cardinality({v \in Coroutines : HasSlot(v) /\ hand[v].queue = hand[w].queue}) < Slots
  /\ IF hand[w].job \in Jobs
     THEN Goes(w, "running") /\ Shown(hand[w].job, "running") /\ silent' = silent \ {hand[w].job}
     ELSE Frees(w) /\ UNCHANGED <<jobStatus, silent>>
  /\ UNCHANGED <<dlq, queues, request, over, asked, crashes, crossed>>

(* A version is saved, which may be one of two; the analysis goes on.      *)
Save(w) ==
  /\ Is(w, "running")
  /\ Shown(hand[w].job, "pending_review")
  /\ UNCHANGED <<dlq, queues, request, hand, over, silent, asked, crashes, crossed>>

Conclude(w) ==
  /\ Is(w, "running")
  /\ Frees(w)
  /\ over' = [over EXCEPT ![hand[w].job] = @ \cup {"done"}]
  /\ UNCHANGED <<dlq, queues, request, jobStatus, silent, asked, crashes, crossed>>

(* _requeue_or_dlq: push, then note what was pushed.                       *)
Requeue(w) ==
  /\ Is(w, "running")
  /\ Goes(w, "retrying")
  /\ queues' = [queues EXCEPT ![hand[w].queue] = Append(@, hand[w].job)]
  /\ UNCHANGED <<dlq, request, jobStatus, over, silent, asked, crashes, crossed>>

Bury(w) ==
  /\ Is(w, "running")
  /\ Goes(w, "burying")
  /\ dlq' = Append(dlq, Letter(hand[w].job, hand[w].queue))
  /\ UNCHANGED <<queues, request, jobStatus, over, silent, asked, crashes, crossed>>

NoteRequeued(w) ==
  /\ Is(w, "retrying")
  /\ Frees(w) /\ Shown(hand[w].job, "retry")
  /\ UNCHANGED <<dlq, queues, request, over, silent, asked, crashes, crossed>>

Acting(a) == request[a].pc \in {"drop", "push", "note"}
Returns(a, j) == Acting(a) /\ request[a].op = "retry_job"
                 /\ request[a].payload.job = j /\ request[a].seen = j
NoteBuried(w) ==
  /\ Is(w, "burying")
  /\ Frees(w) /\ Shown(hand[w].job, "dlq")
  /\ silent' = silent \cup {j \in {hand[w].job} :
       (\A i \in DOMAIN dlq : dlq[i].job # j) /\ \A a \in Admins : ~ Returns(a, j)}
  /\ UNCHANGED <<dlq, queues, request, over, asked, crashes, crossed>>
------------------------------------------------------------------------------
(* _list_dlq_items: the places in the list that belong to a queue; a       *)
(* letter without target_queue belongs to ai_analyze.                      *)
Matches(e, q) == e.tag = q \/ (q = "ai_analyze" /\ e.tag = "none")
(* Some positions in their order. *)
InOrder(K) ==
  [n \in 1..Cardinality(K) |-> CHOOSE k \in K : Cardinality({j \in K : j < k}) = n - 1]
Listed(q) == InOrder({i \in DOMAIN dlq : Matches(dlq[i], q)})

At(a, pc) == request[a].pc = pc
Move(a, fields) == request' = [request EXCEPT ![a] = fields]
Finish(a) == Move(a, NoRequest)

Asks(a) ==
  /\ asked < MaxRequests /\ asked' = asked + 1
  /\ crossed' = (crossed \/ \E b \in Admins \ {a} : ~ At(b, "idle"))

(* The page shows the list of a queue, and the admin picks one element. *)
See(a, op, q) ==
  /\ At(a, "idle")
  /\ \E n \in DOMAIN Listed(q) :
       Move(a, [NoRequest EXCEPT !.pc = "list", !.op = op, !.queue = q, !.index = n,
                                 !.seen = dlq[Listed(q)[n]].job])
  /\ Asks(a)
  /\ UNCHANGED <<dlq, queues, hand, jobStatus, over, silent, crashes>>

(* Retry by job_id: list queue after queue until the job turns up. *)
Name(a, j) ==
  /\ At(a, "idle")
  /\ Move(a, [NoRequest EXCEPT !.pc = "look", !.op = "retry_job", !.seen = j, !.left = QueueDefs])
  /\ Asks(a)
  /\ UNCHANGED <<dlq, queues, hand, jobStatus, over, silent, crashes>>

Look(a) ==
  /\ At(a, "look")
  /\ LET r == request[a]
         q == Head(r.left)
         found == {n \in DOMAIN Listed(q) : dlq[Listed(q)[n]].job = r.seen}
     IN IF r.left = <<>> THEN Finish(a)
        ELSE IF found = {} THEN Move(a, [r EXCEPT !.left = Tail(@)])
        ELSE Move(a, [r EXCEPT !.pc = "list", !.queue = q, !.left = <<>>,
                               !.index = CHOOSE n \in found : \A m \in found : n <= m])
  /\ UNCHANGED <<dlq, queues, hand, jobStatus, over, silent, asked, crashes, crossed>>

(* The index of the listing becomes an index of the raw list. *)
RawUnfiltered(q, n) == n                          \* slip: the filter is forgotten
Raw(q, n) == Listed(q)[n]
List(a) ==
  /\ At(a, "list")
  /\ LET r == request[a] IN
       IF r.index \notin DOMAIN Listed(r.queue) THEN Finish(a)
       ELSE Move(a, [r EXCEPT !.pc = "read", !.index = Raw(r.queue, r.index)])
  /\ UNCHANGED <<dlq, queues, hand, jobStatus, over, silent, asked, crashes, crossed>>

(* _remove_raw_dlq_item: read the list once more, LSET, LREM. *)
Read(a) ==
  /\ At(a, "read")
  /\ IF request[a].index > Len(dlq) THEN Finish(a)
     ELSE Move(a, [request[a] EXCEPT !.pc = "mark", !.payload = dlq[request[a].index]])
  /\ UNCHANGED <<dlq, queues, hand, jobStatus, over, silent, asked, crashes, crossed>>

Removal(a) == request[a].op = "remove"
(* What goes without a word: the letter of a request by index, or another  *)
(* one than was named, and one that is overwritten because the list moved. *)
Unsaid(a) ==
  LET read == request[a].payload.job
  IN {j \in {read, dlq[request[a].index].job} :
        j # read \/ request[a].op # "retry_job" \/ read # request[a].seen}
Mark(a) ==
  /\ At(a, "mark")
  /\ IF request[a].index > Len(dlq)               \* Redis answers with an error
     THEN Finish(a) /\ UNCHANGED <<dlq, over, silent>>
     ELSE /\ dlq' = [dlq EXCEPT ![request[a].index] = Placeholder(a)]
          /\ Move(a, [request[a] EXCEPT !.pc = "drop"])
          /\ over' = IF Removal(a) /\ request[a].payload.job \in Jobs
                     THEN [over EXCEPT ![request[a].payload.job] = @ \cup {"removed"}] ELSE over
          /\ silent' = silent \cup Unsaid(a)
  /\ UNCHANGED <<queues, hand, jobStatus, asked, crashes, crossed>>

Drop(a) ==
  /\ At(a, "drop")
  /\ dlq' = LET at == {i \in DOMAIN dlq : dlq[i] = Placeholder(a)}
            IN IF at = {} THEN dlq
               ELSE RemoveAt(dlq, CHOOSE i \in at : \A k \in at : i <= k)
  /\ Move(a, IF Removal(a) THEN NoRequest ELSE [request[a] EXCEPT !.pc = "push"])
  /\ UNCHANGED <<queues, hand, jobStatus, over, silent, asked, crashes, crossed>>

Destination(a) ==
  IF request[a].payload.tag = "none" THEN request[a].queue ELSE request[a].payload.tag

PushBack(a) ==                                    \* slip: the letter is kept as well
  /\ At(a, "push")
  /\ queues' = [queues EXCEPT ![Destination(a)] = Append(@, request[a].payload.job)]
  /\ dlq' = Append(dlq, request[a].payload)
  /\ IF request[a].op = "retry_job" THEN Move(a, [request[a] EXCEPT !.pc = "note"]) ELSE Finish(a)
  /\ UNCHANGED <<hand, jobStatus, over, silent, asked, crashes, crossed>>
Push(a) ==
  /\ At(a, "push")
  /\ queues' = [queues EXCEPT ![Destination(a)] = Append(@, request[a].payload.job)]
  /\ IF request[a].op = "retry_job" THEN Move(a, [request[a] EXCEPT !.pc = "note"]) ELSE Finish(a)
  /\ UNCHANGED <<dlq, hand, jobStatus, over, silent, asked, crashes, crossed>>

(* Only the retry by job_id touches ai_jobs, and it notes the job it was   *)
(* asked for.                                                              *)
NoteNothing(a) ==                                 \* slip: the record is left as it was
  /\ At(a, "note")
  /\ Finish(a)
  /\ UNCHANGED <<dlq, queues, hand, jobStatus, over, silent, asked, crashes, crossed>>
NoteRetry(a) ==
  /\ At(a, "note")
  /\ jobStatus' = [jobStatus EXCEPT ![request[a].seen] = "retry"]
  /\ Finish(a)
  /\ UNCHANGED <<dlq, queues, hand, over, silent, asked, crashes, crossed>>

(* GET /ai/jobs: the records, then every queue, then the dead letters of   *)
(* every queue; what is listed by its job_id already is passed over, and a *)
(* placeholder has none.  (Bound: fewer jobs than a page holds, and none   *)
(* that only a generated version knows of.)                                *)
Row(j) == [job |-> j]
MergedAll(rows, new) == rows \o new              \* slip: nothing is passed over
Merged(rows, new) ==
  LET seen(k) == \/ \E i \in DOMAIN rows : rows[i].job = new[k].job
                 \/ \E i \in 1..k - 1 : new[i].job = new[k].job
      at == InOrder({k \in DOMAIN new : new[k].job \in Jobs => ~ seen(k)})
  IN rows \o [n \in DOMAIN at |-> new[at[n]]]
Records(jobs) == SetToSeq({Row(j) : j \in {x \in jobs : jobStatus[x] # "none"}})

ListJobs(a) ==
  /\ At(a, "idle")
  /\ Move(a, [NoRequest EXCEPT !.pc = "queues", !.op = "jobs", !.left = QueueDefs,
                               !.rows = Records(Jobs)])
  /\ Asks(a)
  /\ UNCHANGED <<dlq, queues, hand, jobStatus, over, silent, crashes>>
(* GET /ai/jobs/{job_id}: the record, or what the whole list has. *)
FindJob(a, j) ==
  /\ At(a, "idle")
  /\ Move(a, IF jobStatus[j] # "none"
             THEN [NoRequest EXCEPT !.pc = "answer", !.op = "job", !.seen = j, !.rows = Records({j})]
             ELSE [NoRequest EXCEPT !.pc = "queues", !.op = "job", !.seen = j, !.left = QueueDefs,
                                    !.rows = Records(Jobs)])
  /\ Asks(a)
  /\ UNCHANGED <<dlq, queues, hand, jobStatus, over, silent, crashes>>

Queued(q) == [i \in DOMAIN queues[q] |-> Row(queues[q][i])]
Dead(q) == [n \in DOMAIN Listed(q) |-> Row(dlq[Listed(q)[n]].job)]
Reads(a, new, next) ==
  LET r == request[a]
      rest == Tail(r.left)
  IN Move(a, [r EXCEPT !.rows = Merged(@, new), !.pc = IF rest = <<>> THEN next ELSE @,
                       !.left = IF rest = <<>> /\ next = "letters" THEN QueueDefs ELSE rest])
ReadQueue(a) ==
  /\ At(a, "queues")
  /\ Reads(a, Queued(Head(request[a].left)), "letters")
  /\ UNCHANGED <<dlq, queues, hand, jobStatus, over, silent, asked, crashes, crossed>>
ReadLetters(a) ==
  /\ At(a, "letters")
  /\ Reads(a, Dead(Head(request[a].left)), "answer")
  /\ UNCHANGED <<dlq, queues, hand, jobStatus, over, silent, asked, crashes, crossed>>
Answer(a) ==
  /\ At(a, "answer")
  /\ Finish(a)
  /\ UNCHANGED <<dlq, queues, hand, jobStatus, over, silent, asked, crashes, crossed>>

(* The API process dies, and the workers with it: a job between LSET and   *)
(* RPUSH, or popped and not pushed yet, is nowhere.  A placeholder that    *)
(* stays is nobody's: each carries the time it was made.                   *)
InHand(a) == request[a].pc \in {"drop", "push"} /\ ~ Removal(a)
AtWork(w) == hand[w].pc \in {"waiting", "running"}
Crash ==
  /\ crashes < MaxCrashes
  /\ crashes' = crashes + 1
  /\ request' = [a \in Admins |-> NoRequest]
  /\ hand' = [w \in Coroutines |-> Free]
  /\ dlq' = [i \in DOMAIN dlq |-> IF dlq[i].job \in Admins THEN Letter("stale", "none") ELSE dlq[i]]
  /\ over' = [j \in Jobs |->
       IF \/ \E a \in Admins : InHand(a) /\ request[a].payload.job = j
          \/ \E w \in Coroutines : AtWork(w) /\ hand[w].job = j
       THEN over[j] \cup {"lost"} ELSE over[j]]
  /\ silent' = silent \cup {request[a].payload.job : a \in {b \in Admins : InHand(b) \/ At(b, "note")}}
  /\ UNCHANGED <<queues, jobStatus, asked, crossed>>

Work(w) == Begin(w) \/ Save(w) \/ Conclude(w) \/ Requeue(w) \/ Bury(w)
           \/ NoteRequeued(w) \/ NoteBuried(w)
Serve(a) == Look(a) \/ List(a) \/ Read(a) \/ Mark(a) \/ Drop(a) \/ Push(a) \/ NoteRetry(a)
            \/ ReadQueue(a) \/ ReadLetters(a) \/ Answer(a)
Next ==
  \/ \E w \in Coroutines : Work(w) \/ \E q \in Queues : Pop(w, q)
  \/ \E a \in Admins :
       \/ \E q \in Queues, op \in {"retry", "remove"} : See(a, op, q)
       \/ \E j \in Jobs : Name(a, j) \/ FindJob(a, j)
       \/ ListJobs(a)
       \/ Serve(a)
  \/ Crash

Spec == Init /\ [][Next]_vars
FairSpec == Spec /\ \A a \in Admins : WF_vars(Serve(a))
------------------------------------------------------------------------------
Entries == Jobs \cup Admins \cup {"stale"}
TypeOK ==
  /\ dlq \in Seq([job : Entries, tag : Queues \cup {"none"}])
  /\ queues \in [Queues -> Seq(Entries)]
  /\ \A a \in Admins :
       /\ request[a].pc \in {"idle", "look", "list", "read", "mark", "drop", "push", "note",
                             "queues", "letters", "answer"}
       /\ \A k \in DOMAIN request[a].rows : request[a].rows[k].job \in Entries
       /\ request[a].payload.job \in Entries \cup {"none"}
       /\ request[a].pc \in {"mark", "drop", "push", "note"} => request[a].payload.job \in Entries
  /\ \A w \in Coroutines :
       /\ hand[w].pc \in {"idle", "waiting", "running", "retrying", "burying"}
       /\ Is(w, "waiting") => hand[w].job \in Entries
       /\ HasSlot(w) => hand[w].job \in Jobs
       /\ hand[w].queue \in Queues \cup {"none"}
  /\ jobStatus \in [Jobs -> {"none", "queued", "running", "pending_review", "dlq", "retry"}]
  /\ over \in [Jobs -> SUBSET {"done", "removed", "lost"}] /\ silent \subseteq Entries
  /\ asked \in 0..MaxRequests /\ crashes \in 0..MaxCrashes /\ crossed \in BOOLEAN

(* One request at a time beside the workers that go on popping, pushing    *)
(* back and burying: a job is in one place only, be it a queue, the hands  *)
(* of a worker, the dead letters, the hands of the request or its end, and *)
(* the two-step removal by placeholder neither loses nor doubles it.       *)
Places(j) ==
  Cardinality({i \in DOMAIN dlq : dlq[i].job = j})
  + Cardinality(UNION {{<<q, i>> : i \in {k \in DOMAIN queues[q] : queues[q][k] = j}} : q \in Queues})
  + Cardinality({a \in Admins : InHand(a) /\ request[a].payload.job = j})
  + Cardinality({w \in Coroutines : AtWork(w) /\ hand[w].job = j})
  + Cardinality(over[j])
OnePlace == ~ crossed => \A j \in Jobs : Places(j) = 1

(* With one request at a time, the letter taken out is the one the admin   *)
(* saw on the page or named, although the list is read three times and     *)
(* grows meanwhile.                                                        *)
ActsOnTheOneSeen ==
  ~ crossed => \A a \in Admins : Acting(a) => request[a].payload.job = request[a].seen

(* "Retry from the dead letters by job_id" (dlq.py:589): no other job than *)
(* the one that was named is taken out, pushed and noted.                  *)
RetriesTheNamedJob ==
  \A a \in Admins : Acting(a) /\ request[a].op = "retry_job" /\ request[a].payload.job \in Jobs =>
    request[a].payload.job = request[a].seen

(* Doc and assertion jobs are never sent to another queue than their own   *)
(* (tests/test_ai_dlq_jobs.py:4): a retry returns a job to the queue whose *)
(* worker gave it up, however many requests move the list under it.        *)
BackToItsQueue ==
  \A q \in Queues : \A i \in DOMAIN queues[q] : queues[q][i] \in Jobs => HomeOf[queues[q][i]] = q

(* ai_jobs shows a job as a dead letter only while it is one, or is in the *)
(* hands of a retry that has yet to note it, whatever workers pop, run and *)
(* bury meanwhile.  Left so are: jobs taken out by index, by a request     *)
(* that met another letter than it meant or by one that a crash cut short, *)
(* and those whose retry came and went between the push of their letter    *)
(* and its note (analyzer.py:2907 and 2908), until a worker runs them.     *)
ShownDeadIsDead ==
  \A j \in Jobs : jobStatus[j] = "dlq" =>
    \/ j \in silent \/ \E i \in DOMAIN dlq : dlq[i].job = j
    \/ \E a \in Admins : Acting(a) /\ request[a].payload.job = j

(* The page of jobs, or of one, put together from seven readings while the *)
(* workers go on: it names no job twice, and without another request       *)
(* beside it passes over none that is not over, except those that had no   *)
(* record when the reading began and have one now, and those without one   *)
(* that a worker has popped and that wait for a slot: they are in no store. *)
PageNamesEachOnce ==
  \A a \in Admins : At(a, "answer") =>
    \A j \in IF request[a].op = "jobs" THEN Jobs ELSE {request[a].seen} :
      LET named == {k \in DOMAIN request[a].rows : request[a].rows[k].job = j}
      IN /\ Cardinality(named) <= 1
         /\ named = {} => crossed \/ over[j] # {} \/ jobStatus[j] # "none"
                           \/ \E w \in Coroutines : Is(w, "waiting") /\ hand[w].job = j

(* A placeholder never stays behind in the list, where pages would show it *)
(* as a job: it goes as soon as its request goes on.                       *)
PlaceholdersGo ==
  \A a \in Admins : (Placeholder(a) \in ToSet(dlq)) ~> (Placeholder(a) \notin ToSet(dlq))
==============================================================================
