---------------------------- MODULE AiWorkers_proofs ---------------------------
(* For what a job is buried, that an evaluation is concluded once, and     *)
(* that what a job was about is settled when nothing of it is left, and    *)
(* that what is shown for review is there: for any number of jobs of any   *)
(* kinds, coroutines, slots, batches and tries.                            *)
EXTENDS AiWorkers, WorkerShutdown, TLAPS

Held == Messages \cup {NoMessage}
Unsent == {<<"tell", "push", "note">>, <<"push", "note">>, <<"push", "note", "tell">>}
Sent == {<<"note">>, <<>>, <<"note", "tell">>, <<"tell">>}

(* The variables that say where messages are, and the others.              *)
Shape ==
  /\ kind \in [Jobs -> Kinds] /\ plan \in [Jobs -> Unsent \cup Sent]
  /\ queue \subseteq Messages /\ dlq \subseteq Messages
  /\ work \in [Coroutines -> [pc : Places, msg : Held, batch : 0..Batches, saved : BOOLEAN]]
  /\ \A c \in Coroutines : work[c].pc # "free" => work[c].msg \in Messages
  /\ failures \in [Jobs -> [Causes -> Nat]]
(* While a batch is under way there is one left to finish.                 *)
BatchLeft ==
  \A c \in Coroutines : work[c].pc \in {"waiting", "ready", "working", "inserted"} =>
    work[c].batch < Batches

(* A coroutine has the message of its job until it gave it back.           *)
Holds(c) == work[c].pc \notin {"free", "requeued", "buried", "mourning"}
(* A job has one message at most, in the list, with the dead letters or in *)
(* a coroutine, and none before it is sent.                                *)
OneMessage ==
  /\ \A m, n \in queue : m.job = n.job => m = n
  /\ \A m \in dlq, n \in dlq : m.job = n.job => m = n
  /\ \A m \in queue, n \in dlq : m.job # n.job
  /\ \A c \in Coroutines : Holds(c) => \A m \in queue \cup dlq : m.job # Job(c)
  /\ \A c, d \in Coroutines : Holds(c) /\ Holds(d) /\ Job(c) = Job(d) => c = d
  /\ \A j \in Jobs : plan[j] \in Unsent =>
       /\ \A m \in queue \cup dlq : m.job # j
       /\ \A c \in Coroutines : Holds(c) => Job(c) # j
(* The failures of a job that its worker counts.                           *)
Blamed(j) ==
  LET counts == Causes \ Excused(kind[j])
      Of(cause) == IF cause \in counts THEN failures[j][cause] ELSE 0
  IN Of("rate") + Of("api") + Of("other")
(* The number on the message is the number of failures that count; it      *)
(* reaches MaxRetry only in the hands of who is about to bury it.          *)
Tally ==
  /\ \A m \in queue : m.fails = Blamed(m.job) /\ m.fails < MaxRetry
  /\ \A m \in dlq : m.fails = Blamed(m.job) /\ m.fails = MaxRetry
  /\ \A c \in Coroutines : Holds(c) =>
       /\ work[c].msg.fails = Blamed(Job(c))
       /\ work[c].pc # "failed" => work[c].msg.fails < MaxRetry
  /\ \A j \in Jobs : plan[j] \in Unsent => Blamed(j) = 0
Counts == Shape /\ OneMessage /\ Tally
------------------------------------------------------------------------------
LEMMA CountsAtFirst == Init => Counts /\ BatchLeft
<1> SUFFICES ASSUME Init PROVE Counts /\ BatchLeft
  OBVIOUS
<1>1. \A c \in Coroutines : work[c] = Idle
  BY DEF Init
<1>2. Shape
  BY <1>1, WorkersAssumption DEF Init, Shape, PlanOf, Unsent, Sent, Idle, Held, Places, Causes
<1>3. OneMessage
  BY <1>1 DEF Init, OneMessage, Holds, Idle
<1>4. ASSUME NEW j \in Jobs PROVE Blamed(j) = 0
  <2>1. failures[j]["rate"] = 0 /\ failures[j]["api"] = 0 /\ failures[j]["other"] = 0
    BY DEF Init, Causes
  <2>. QED
    BY <2>1 DEF Blamed
<1>5. Tally
  BY <1>1, <1>4 DEF Init, Tally, Holds, Idle
<1>6. BatchLeft
  BY <1>1 DEF Init, BatchLeft, Idle
<1>. QED
  BY <1>2, <1>3, <1>5, <1>6 DEF Counts

LEMMA BlamedIsNat == ASSUME Shape, NEW j \in Jobs PROVE Blamed(j) \in Nat
BY DEF Shape, Blamed, Causes

LEMMA BlamedStays ==
  ASSUME UNCHANGED <<kind, failures>>, NEW j PROVE Blamed(j)' = Blamed(j)
BY DEF Blamed

(* What a coroutine does with the message it holds, up to giving it back.  *)
Advances(c) ==
  NoteRunning(c) \/ Load(c) \/ Succeeds(c) \/ NoteRetry(c) \/ NoteDlq(c) \/ TellDlq(c)
Moved(c, pc, batch, saved) ==
  [work EXCEPT ![c] = [pc |-> pc, msg |-> work[c].msg, batch |-> batch, saved |-> saved]]
Underway == Places \ {"free", "waiting", "failed", "requeued", "buried"}

LEMMA MovedIs ==
  ASSUME Shape, NEW c \in Coroutines, NEW pc, NEW batch, NEW saved
  PROVE  /\ [work EXCEPT ![c].pc = pc] = Moved(c, pc, work[c].batch, work[c].saved)
         /\ [work EXCEPT ![c].pc = pc, ![c].batch = batch] = Moved(c, pc, batch, work[c].saved)
         /\ [work EXCEPT ![c].pc = pc, ![c].batch = batch, ![c].saved = saved]
              = Moved(c, pc, batch, saved)
<1>1. /\ work[c] = [pc |-> work[c].pc, msg |-> work[c].msg, batch |-> work[c].batch,
                    saved |-> work[c].saved]
      /\ work = [d \in Coroutines |-> work[d]]
  BY DEF Shape
<1>2. [work[c] EXCEPT !.pc = pc]
        = [pc |-> pc, msg |-> work[c].msg, batch |-> work[c].batch, saved |-> work[c].saved]
  BY <1>1
<1>3. [work[c] EXCEPT !.pc = pc, !.batch = batch]
        = [pc |-> pc, msg |-> work[c].msg, batch |-> batch, saved |-> work[c].saved]
  <2> DEFINE w == [pc |-> pc, msg |-> work[c].msg, batch |-> work[c].batch, saved |-> work[c].saved]
  <2>1. [w EXCEPT !.batch = batch]
          = [pc |-> pc, msg |-> work[c].msg, batch |-> batch, saved |-> work[c].saved]
    OBVIOUS
  <2>. QED
    BY <1>2, <2>1
<1>4. [work[c] EXCEPT !.pc = pc, !.batch = batch, !.saved = saved]
        = [pc |-> pc, msg |-> work[c].msg, batch |-> batch, saved |-> saved]
  <2> DEFINE w == [pc |-> pc, msg |-> work[c].msg, batch |-> batch, saved |-> work[c].saved]
  <2>1. [w EXCEPT !.saved = saved] = [pc |-> pc, msg |-> work[c].msg, batch |-> batch, saved |-> saved]
    OBVIOUS
  <2>. QED
    BY <1>3, <2>1
<1>5. [work EXCEPT ![c].pc = pc] = Moved(c, pc, work[c].batch, work[c].saved)
  BY <1>1, <1>2 DEF Moved
<1>6. [work EXCEPT ![c].pc = pc, ![c].batch = batch] = Moved(c, pc, batch, work[c].saved)
  BY <1>1, <1>3 DEF Moved
<1>7. [work EXCEPT ![c].pc = pc, ![c].batch = batch, ![c].saved = saved] = Moved(c, pc, batch, saved)
  BY <1>1, <1>4 DEF Moved
<1>. QED
  BY <1>5, <1>6, <1>7

LEMMA TakersAre ==
  ASSUME Shape, NEW c \in Coroutines, Take(c)
  PROVE  /\ work'[c].pc = "waiting" /\ work'[c].saved = FALSE
         /\ \A d \in Coroutines \ {c} : work'[d] = work[d]
<1>1. PICK m \in queue :
        /\ queue' = queue \ {m}
        /\ work' = [work EXCEPT ![c] = [Idle EXCEPT !.pc = "waiting", !.msg = m]]
  BY DEF Take
<1>2. work'[c] = [pc |-> "waiting", msg |-> m, batch |-> 0, saved |-> FALSE]
  BY <1>1 DEF Shape, Idle
<1>. QED
  BY <1>1, <1>2 DEF Shape

LEMMA EmptyBatchesAre ==
  ASSUME Shape, NEW c \in Coroutines, EmptyBatch(c)
  PROVE  /\ work'[c].pc = "batched" /\ work'[c].msg = work[c].msg /\ work'[c].saved = work[c].saved
         /\ \A d \in Coroutines \ {c} : work'[d] = work[d]
<1>1. work' = Moved(c, "batched", work[c].batch + 1, work[c].saved)
  BY MovedIs DEF EmptyBatch
<1>. QED
  BY <1>1 DEF Moved, Shape

LEMMA HowItAdvances ==
  ASSUME Shape, BatchLeft, NEW c \in Coroutines, Advances(c)
  PROVE  /\ UNCHANGED <<kind, plan, queue, dlq, failures>>
         /\ \/ work' = [work EXCEPT ![c] = Idle]
            \/ /\ work[c].pc \notin {"free", "failed", "requeued", "mourning"}
               /\ \E pc \in Underway, batch \in 0..Batches, saved \in BOOLEAN :
                    /\ work' = Moved(c, pc, batch, saved)
                    /\ pc \in {"ready", "working", "inserted"} => batch < Batches
                    /\ work[c].pc = "buried" => pc = "mourning"
<1> USE DEF At, Underway, Places
<1>0. UNCHANGED <<kind, plan, queue, dlq, failures>>
  BY DEF Advances, NoteRunning, Load, Succeeds, NoteRetry, NoteDlq, TellDlq, Skip, DismissOrphan,
         Generate, Noted, KeepAsserts, TellReview, EmptyBatch, NextBatch, CloseBatches, Judge,
         InsertFix, NoteFix, ConfirmFix, Diagnose, Repair, Assess, Close
<1>1. work[c].batch \in 0..Batches /\ work[c].saved \in BOOLEAN /\ Batches \in Nat
  BY WorkersAssumption DEF Shape
<1>2. CASE Skip(c) \/ DismissOrphan(c) \/ TellReview(c) \/ CloseBatches(c) \/ Close(c)
           \/ NoteRetry(c) \/ TellDlq(c)
  BY <1>0, <1>2
     DEF Skip, DismissOrphan, TellReview, CloseBatches, Close, NoteRetry, TellDlq, End
<1>3. CASE NoteRunning(c) \/ Load(c) \/ Generate(c)
  <2>1. \E pc \in {"ready", "working", "inserted"} : work' = Moved(c, pc, work[c].batch, work[c].saved)
    BY <1>3, MovedIs DEF NoteRunning, Load, Generate, Go
  <2>2. work[c].pc \in {"waiting", "ready", "working"}
    BY <1>3 DEF NoteRunning, Load, Generate
  <2>3. work[c].batch < Batches
    BY <2>2 DEF BatchLeft
  <2>. QED
    BY <1>0, <1>1, <2>1, <2>2, <2>3
<1>4. CASE KeepAsserts(c) \/ Judge(c) \/ InsertFix(c) \/ NoteFix(c) \/ ConfirmFix(c) \/ Diagnose(c)
           \/ Repair(c) \/ Assess(c) \/ NoteDlq(c)
  <2>1. \E pc \in {"telling", "closing", "fixed", "confirm", "reviewing", "repairing", "mourning"} :
          /\ work' = Moved(c, pc, work[c].batch, work[c].saved)
          /\ work[c].pc = "buried" => pc = "mourning"
    BY ZenonT(30), <1>4, MovedIs DEF KeepAsserts, Judge, InsertFix, NoteFix, ConfirmFix, Diagnose, Repair, Assess,
                         NoteDlq, Go
  <2>2. work[c].pc \in {"working", "fixed", "confirm", "repairing", "buried"}
    BY <1>4 DEF KeepAsserts, Judge, InsertFix, NoteFix, ConfirmFix, Diagnose, Repair, Assess, NoteDlq
  <2>. QED
    BY <1>0, <1>1, <2>1, <2>2
<1>5. CASE Noted(c)
  <2>1. work[c].pc = "inserted" /\ work[c].batch + 1 \in 0..Batches
    BY <1>1, <1>5 DEF Noted, BatchLeft
  <2>2. \/ work' = [work EXCEPT ![c] = Idle]
        \/ \E saved \in BOOLEAN : work' = Moved(c, "batched", work[c].batch + 1, saved)
        \/ work' = Moved(c, "telling", work[c].batch, work[c].saved)
    <3>1. CASE work' = [work EXCEPT ![c].pc = "batched", ![c].batch = @ + 1, ![c].saved = TRUE]
      <4>1. work[c] = [pc |-> work[c].pc, msg |-> work[c].msg, batch |-> work[c].batch,
                       saved |-> work[c].saved]
        BY DEF Shape
      <4>2. work'[c] = [pc |-> "batched", msg |-> work[c].msg, batch |-> work[c].batch + 1,
                        saved |-> TRUE]
        BY <3>1, <4>1 DEF Shape
      <4>3. /\ \A d \in Coroutines \ {c} : work'[d] = work[d]
            /\ work' = [d \in Coroutines |-> work'[d]]
            /\ work = [d \in Coroutines |-> work[d]]
        BY <3>1 DEF Shape
      <4>. QED
        BY <4>2, <4>3 DEF Moved
    <3>2. [work EXCEPT ![c].pc = "telling"] = Moved(c, "telling", work[c].batch, work[c].saved)
      BY MovedIs
    <3>. QED
      BY <1>5, <3>1, <3>2 DEF Noted, End, Go
  <2>. QED
    BY <1>0, <1>1, <2>1, <2>2
<1>6. CASE EmptyBatch(c)
  <2>1. work[c].pc \in {"ready", "working"} /\ work[c].batch + 1 \in 0..Batches
    BY <1>1, <1>6 DEF EmptyBatch, BatchLeft
  <2>2. work' = Moved(c, "batched", work[c].batch + 1, work[c].saved)
    BY <1>6, MovedIs DEF EmptyBatch
  <2>. QED
    BY <1>0, <1>1, <2>1, <2>2
<1>7. CASE NextBatch(c)
  <2>1. work' = Moved(c, "ready", work[c].batch, work[c].saved)
    BY <1>7, MovedIs DEF NextBatch, Go
  <2>. QED
    BY <1>0, <1>1, <1>7, <2>1 DEF NextBatch
<1>. QED
  BY <1>2, <1>3, <1>4, <1>5, <1>6, <1>7 DEF Advances, Succeeds

LEMMA AdvancingCounts ==
  ASSUME Counts, BatchLeft, NEW c \in Coroutines, Advances(c)
  PROVE  Counts' /\ BatchLeft'
<1>1. /\ UNCHANGED <<kind, plan, queue, dlq, failures>>
      /\ \/ work' = [work EXCEPT ![c] = Idle]
         \/ /\ work[c].pc \notin {"free", "failed", "requeued", "mourning"}
            /\ \E pc \in Underway, batch \in 0..Batches, saved \in BOOLEAN :
                 /\ work' = Moved(c, pc, batch, saved)
                 /\ pc \in {"ready", "working", "inserted"} => batch < Batches
                 /\ work[c].pc = "buried" => pc = "mourning"
  BY HowItAdvances DEF Counts
<1>2. /\ \A d \in Coroutines \ {c} : work'[d] = work[d]
      /\ Holds(c)' => Holds(c) /\ work'[c].msg = work[c].msg /\ work[c].pc # "failed" /\ work'[c].pc # "failed"
  BY <1>1 DEF Counts, Shape, Moved, Holds, Idle, Underway, Places
<1>3. Shape' /\ BatchLeft'
  <2>1. CASE work' = [work EXCEPT ![c] = Idle]
    BY <1>1, <2>1, WorkersAssumption DEF Counts, Shape, Idle, Held, Places, BatchLeft
  <2>2. ASSUME work[c].pc # "free",
               NEW pc \in Underway, NEW batch \in 0..Batches, NEW saved \in BOOLEAN,
               work' = Moved(c, pc, batch, saved),
               pc \in {"ready", "working", "inserted"} => batch < Batches
        PROVE  Shape' /\ BatchLeft'
    BY <1>1, <2>2 DEF Counts, Shape, Moved, Held, Underway, Places, BatchLeft
  <2>. QED
    BY <1>1, <2>1, <2>2
<1>4. \A j \in Jobs : Blamed(j)' = Blamed(j)
  BY <1>1, BlamedStays
<1>5. \A d \in Coroutines : Holds(d)' =>
        /\ Holds(d) /\ Job(d)' = Job(d) /\ work'[d].msg = work[d].msg
        /\ work'[d].pc # "failed" => work[d].pc # "failed"
  BY <1>2 DEF Holds, Job
<1>6. OneMessage'
  BY <1>1, <1>5 DEF Counts, OneMessage
<1>7. \A m \in Messages : m.job \in Jobs
  BY DEF Messages
<1>8. Tally'
  <2>1. \A d \in Coroutines : Holds(d) => Job(d) \in Jobs
    BY <1>7 DEF Counts, Shape, Holds, Job
  <2>2. \A m \in queue \cup dlq : m.job \in Jobs
    BY <1>7 DEF Counts, Shape
  <2>. QED
    BY <1>1, <1>4, <1>5, <2>1, <2>2 DEF Counts, Tally
<1>. QED
  BY <1>3, <1>6, <1>8 DEF Counts
------------------------------------------------------------------------------
(* A job with a message, wherever it is, has been sent.                    *)
LEMMA TakeCounts ==
  ASSUME Counts, BatchLeft, NEW c \in Coroutines, Take(c)
  PROVE  Counts' /\ BatchLeft'
<1>1. PICK m \in queue :
        /\ queue' = queue \ {m}
        /\ work' = [work EXCEPT ![c] = [Idle EXCEPT !.pc = "waiting", !.msg = m]]
  BY DEF Take
<1>2. work[c].pc = "free" /\ UNCHANGED <<kind, plan, dlq, failures>> /\ m \in Messages
  BY DEF Take, At, Counts, Shape
<1>3. work'[c] = [pc |-> "waiting", msg |-> m, batch |-> 0, saved |-> FALSE]
  BY <1>1 DEF Counts, Shape, Idle
<1>4. \A d \in Coroutines \ {c} : work'[d] = work[d]
  BY <1>1 DEF Counts, Shape
<1>5. Shape' /\ BatchLeft'
  <2>1. work' \in [Coroutines -> [pc : Places, msg : Held, batch : 0..Batches, saved : BOOLEAN]]
    <3>1. work'[c] \in [pc : Places, msg : Held, batch : 0..Batches, saved : BOOLEAN]
      BY <1>2, <1>3, WorkersAssumption DEF Places, Held
    <3>. QED
      BY <1>1, <1>3, <3>1 DEF Counts, Shape
  <2>. QED
    <3>1. queue' \subseteq Messages
      BY <1>1 DEF Counts, Shape
    <3>2. \A d \in Coroutines : work'[d].pc # "free" => work'[d].msg \in Messages
      BY <1>2, <1>3, <1>4 DEF Counts, Shape
    <3>3. BatchLeft'
      BY <1>3, <1>4, WorkersAssumption DEF BatchLeft
    <3>. QED
      BY <1>2, <2>1, <3>1, <3>2, <3>3 DEF Counts, Shape
<1>6. \A d \in Coroutines \ {c} : Holds(d)' = Holds(d) /\ Job(d)' = Job(d)
  BY <1>4 DEF Holds, Job
<1>7. Job(c)' = m.job /\ Holds(c)'
  BY <1>3 DEF Holds, Job
<1>8. OneMessage'
  <2>1. \A n \in queue' \cup dlq' : n.job # m.job
    BY <1>1, <1>2 DEF Counts, OneMessage
  <2>2. \A d \in Coroutines : Holds(d) => Job(d) # m.job
    BY DEF Counts, OneMessage
  <2>3. \A j \in Jobs : plan[j] \in Unsent => m.job # j
    BY DEF Counts, OneMessage
  <2>. QED
    BY <1>1, <1>2, <1>6, <1>7, <2>1, <2>2, <2>3 DEF Counts, OneMessage
<1>9. Tally'
  <2>1. \A j : Blamed(j)' = Blamed(j)
    BY <1>2, BlamedStays
  <2>2. m.fails = Blamed(m.job) /\ m.fails < MaxRetry
    BY DEF Counts, Tally
  <2>. QED
    BY <1>1, <1>2, <1>3, <1>4, <1>6, <1>7, <2>1, <2>2 DEF Counts, Tally
<1>. QED
  BY <1>5, <1>8, <1>9 DEF Counts

LEMMA BlameAddsUp ==
  ASSUME Shape, NEW j \in Jobs, NEW cause \in Causes, NEW n \in Nat, n = Blamed(j),
         UNCHANGED kind, failures' = [failures EXCEPT ![j][cause] = @ + 1]
  PROVE  /\ Blamed(j)' = Counted(kind[j], cause, n)
         /\ \A i \in Jobs \ {j} : Blamed(i)' = Blamed(i)
<1>1. \A i \in Jobs \ {j} : failures'[i] = failures[i]
  BY DEF Shape
<1>2. \A i \in Jobs \ {j} : Blamed(i)' = Blamed(i)
  BY <1>1 DEF Blamed
<1>3. /\ failures[j]["rate"] \in Nat /\ failures[j]["api"] \in Nat /\ failures[j]["other"] \in Nat
      /\ \A x \in Causes : failures'[j][x] = IF x = cause THEN failures[j][x] + 1 ELSE failures[j][x]
  BY DEF Shape, Causes
<1>4. Blamed(j)' = Counted(kind[j], cause, n)
  BY <1>3 DEF Blamed, Counted, Causes
<1>. QED
  BY <1>2, <1>4

LEMMA FailingCounts ==
  ASSUME Counts, BatchLeft, NEW c \in Coroutines, Fails(c)
  PROVE  Counts' /\ BatchLeft'
<1>0. PICK j \in Jobs, n \in Nat : j = Job(c) /\ n = work[c].msg.fails
  <2>1. work[c].pc # "free"
    BY DEF Fails, NoTarget, LlmFails, TimesOut, At
  <2>. QED
    BY <2>1 DEF Counts, Shape, Messages, Job
<1>1. PICK cause \in Causes :
        /\ work' = [work EXCEPT ![c].pc = "failed", ![c].msg.fails = Counted(kind[j], cause, @)]
        /\ failures' = [failures EXCEPT ![j][cause] = @ + 1]
  BY <1>0 DEF Fails, NoTarget, LlmFails, TimesOut, Blame, Kind, Causes
<1>2. UNCHANGED <<kind, plan, queue, dlq>>
  BY DEF Fails, NoTarget, LlmFails, TimesOut
<1>3. work[c].pc \in {"ready", "working", "inserted", "telling"}
  BY DEF Fails, NoTarget, LlmFails, TimesOut, At
<1>4. /\ Holds(c) /\ n < MaxRetry /\ n = Blamed(j)
      /\ work[c].msg \in Messages /\ work[c].msg.job = j
  BY <1>0, <1>3 DEF Holds, Counts, Tally, Shape, Messages, Job
<1>5. Counted(kind[j], cause, n) \in 0..MaxRetry
  BY <1>4, MaxRetryAssumption DEF Counted
<1>6. /\ work'[c] = [pc |-> "failed", msg |-> work'[c].msg, batch |-> work[c].batch,
                     saved |-> work[c].saved]
      /\ work'[c].msg \in Messages /\ work'[c].msg.job = j
      /\ work'[c].msg.fails = Counted(kind[j], cause, n)
      /\ work' = [d \in Coroutines |-> work'[d]]
      /\ \A d \in Coroutines \ {c} : work'[d] = work[d]
  BY ZenonT(30), <1>0, <1>1, <1>4, <1>5 DEF Counts, Shape, Messages, Job
<1>7. Shape' /\ BatchLeft'
  <2>1. failures' \in [Jobs -> [Causes -> Nat]]
    BY <1>1, <1>4 DEF Counts, Shape
  <2>2. work'[c] \in [pc : Places, msg : Held, batch : 0..Batches, saved : BOOLEAN]
    BY <1>6 DEF Counts, Shape, Held, Places
  <2>. QED
    <3>1. work' \in [Coroutines -> [pc : Places, msg : Held, batch : 0..Batches, saved : BOOLEAN]]
      BY <1>6, <2>2 DEF Counts, Shape
    <3>2. \A d \in Coroutines : work'[d].pc # "free" => work'[d].msg \in Messages
      BY <1>6 DEF Counts, Shape
    <3>3. BatchLeft'
      BY <1>6 DEF BatchLeft
    <3>. QED
      BY <1>2, <2>1, <3>1, <3>2, <3>3 DEF Counts, Shape
<1>8. /\ Blamed(j)' = Counted(kind[j], cause, n)
      /\ \A i \in Jobs \ {j} : Blamed(i)' = Blamed(i)
  <2>1. Shape /\ UNCHANGED kind
    BY <1>2 DEF Counts
  <2>. QED
    BY <1>1, <1>4, <2>1, BlameAddsUp, Zenon
<1>9. \A d \in Coroutines : (Holds(d)' <=> Holds(d)) /\ Job(d)' = Job(d)
  BY <1>4, <1>6 DEF Holds, Job
<1>10. OneMessage'
  BY <1>2, <1>9 DEF Counts, OneMessage
<1>11. Tally'
  <2>1. \A m \in queue \cup dlq : m.job \in Jobs /\ m.job # j
    BY <1>0, <1>4 DEF Counts, OneMessage, Shape, Messages
  <2>2. \A d \in Coroutines \ {c} : Holds(d) => Job(d) \in Jobs /\ Job(d) # j
    BY <1>0, <1>4 DEF Counts, OneMessage, Shape, Messages, Holds, Job
  <2>3. \A i \in Jobs : plan[i] \in Unsent => i # j
    BY <1>0, <1>4 DEF Counts, OneMessage
  <2>. QED
    BY <1>0, <1>2, <1>6, <1>8, <1>9, <2>1, <2>2, <2>3 DEF Counts, Tally
<1>. QED
  BY <1>7, <1>10, <1>11 DEF Counts
------------------------------------------------------------------------------
(* Giving a message back: into the list again, or to the dead letters.     *)
LEMMA GivingBackCounts ==
  ASSUME Counts, BatchLeft, NEW c \in Coroutines, Requeue(c) \/ Bury(c)
  PROVE  Counts' /\ BatchLeft'
<1>0. PICK j \in Jobs, n \in Nat : j = Job(c) /\ n = work[c].msg.fails
  <2>1. work[c].pc # "free"
    BY DEF Requeue, Bury, At
  <2>. QED
    BY <2>1 DEF Counts, Shape, Messages, Job
<1>1. /\ UNCHANGED <<kind, plan, failures>> /\ work[c].pc = "failed"
      /\ work[c].msg \in Messages /\ Holds(c) /\ n = Blamed(j) /\ n \in 0..MaxRetry
  BY <1>0 DEF Requeue, Bury, At, Counts, Shape, Messages, Holds, Tally
<1>2. PICK m \in Messages : /\ m.job = j /\ m.fails = n
                            /\ \/ queue' = queue \cup {m} /\ dlq' = dlq /\ n < MaxRetry
                               \/ dlq' = dlq \cup {m} /\ queue' = queue /\ n = MaxRetry
  <2>1. CASE Requeue(c)
    <3>1. Message(j, n, FALSE) \in Messages /\ n < MaxRetry
      BY <1>0, <1>1, <2>1, MaxRetryAssumption DEF Message, Messages, Requeue, LastTry
    <3>. QED
      BY <1>0, <2>1, <3>1 DEF Requeue, Message
  <2>2. CASE Bury(c)
    <3>1. n = MaxRetry
      BY <1>0, <1>1, <2>2, MaxRetryAssumption DEF Bury, LastTry
    <3>. QED
      BY <1>0, <1>1, <2>2, <3>1 DEF Bury, Job
  <2>. QED
    BY <2>1, <2>2
<1>3. PICK pc \in {"requeued", "buried"} : work' = Moved(c, pc, work[c].batch, work[c].saved)
  BY MovedIs DEF Requeue, Bury, Go, Counts
<1>4. /\ work'[c].pc = pc /\ ~ Holds(c)'
      /\ \A d \in Coroutines \ {c} : work'[d] = work[d]
  BY <1>3 DEF Moved, Counts, Shape, Holds
<1>5. Shape' /\ BatchLeft'
  <2>1. work' \in [Coroutines -> [pc : Places, msg : Held, batch : 0..Batches, saved : BOOLEAN]]
    BY <1>1, <1>3 DEF Moved, Counts, Shape, Held, Places
  <2>2. \A d \in Coroutines : work'[d].pc # "free" => work'[d].msg \in Messages
    BY <1>1, <1>3, <1>4 DEF Moved, Counts, Shape
  <2>3. queue' \subseteq Messages /\ dlq' \subseteq Messages
    BY <1>2 DEF Counts, Shape
  <2>4. BatchLeft'
    BY <1>4 DEF BatchLeft
  <2>. QED
    BY <1>1, <2>1, <2>2, <2>3, <2>4 DEF Counts, Shape
<1>6. \A d \in Coroutines : Holds(d)' => Holds(d) /\ d # c /\ Job(d)' = Job(d) /\ Job(d) # j
  <2>1. \A d \in Coroutines \ {c} : Holds(d) => Job(d) # j
    BY <1>0, <1>1 DEF Counts, OneMessage
  <2>. QED
    BY <1>4, <2>1 DEF Holds, Job
<1>7. OneMessage'
  <2>1. \A o \in queue \cup dlq : o.job # j
    BY <1>0, <1>1 DEF Counts, OneMessage
  <2>2. plan[j] \notin Unsent
    BY <1>0, <1>1 DEF Counts, OneMessage
  <2>. QED
    BY <1>1, <1>2, <1>6, <2>1, <2>2 DEF Counts, OneMessage
<1>8. Tally'
  <2>1. \A i : Blamed(i)' = Blamed(i)
    BY <1>1, BlamedStays
  <2>. QED
    BY <1>1, <1>2, <1>4, <1>6, <2>1 DEF Counts, Tally
<1>. QED
  BY <1>5, <1>7, <1>8 DEF Counts

(* No plan is both before and after its push. *)
LEMMA PlansDiffer == Unsent \cap Sent = {}
<1>1. ASSUME NEW a \in Unsent, NEW b \in Sent PROVE a # b
  BY DEF Unsent, Sent
<1>. QED
  BY <1>1

(* What is left of each plan, and whether its message was sent by then.    *)
LEMMA TailsOfPlans ==
  ASSUME NEW todo \in Unsent \cup Sent, todo # <<>>
  PROVE  /\ todo \in Unsent =>
              \/ Head(todo) = "tell" /\ Tail(todo) \in Unsent
              \/ Head(todo) = "push" /\ Tail(todo) \in Sent
         /\ todo \in Sent => Head(todo) # "push" /\ Tail(todo) \in Sent
<1>1. CASE todo = <<"tell", "push", "note">>
  <2>1. Head(todo) = "tell" /\ Tail(todo) = <<"push", "note">>
    BY <1>1
  <2>. QED
    BY <1>1, <2>1, PlansDiffer DEF Unsent
<1>2. CASE todo = <<"push", "note">>
  <2>1. Head(todo) = "push" /\ Tail(todo) = <<"note">>
    BY <1>2
  <2>. QED
    BY <1>2, <2>1, PlansDiffer DEF Unsent, Sent
<1>3. CASE todo = <<"push", "note", "tell">>
  <2>1. Head(todo) = "push" /\ Tail(todo) = <<"note", "tell">>
    BY <1>3
  <2>. QED
    BY <1>3, <2>1, PlansDiffer DEF Unsent, Sent
<1>4. CASE todo = <<"note">>
  <2>1. Head(todo) = "note" /\ Tail(todo) = <<>>
    BY <1>4
  <2>. QED
    BY <1>4, <2>1, PlansDiffer DEF Sent
<1>5. CASE todo = <<"note", "tell">>
  <2>1. Head(todo) = "note" /\ Tail(todo) = <<"tell">>
    BY <1>5
  <2>. QED
    BY <1>5, <2>1, PlansDiffer DEF Sent
<1>6. CASE todo = <<"tell">>
  <2>1. Head(todo) = "tell" /\ Tail(todo) = <<>>
    BY <1>6
  <2>. QED
    BY <1>6, <2>1, PlansDiffer DEF Sent
<1>. QED
  BY <1>1, <1>2, <1>3, <1>4, <1>5, <1>6 DEF Unsent, Sent

LEMMA HowItSends ==
  ASSUME Counts, NEW j \in Jobs, Sender(j)
  PROVE  /\ UNCHANGED <<kind, dlq, work, failures>> /\ plan' = [plan EXCEPT ![j] = Tail(@)]
         /\ plan[j] # <<>> /\ plan' \in [Jobs -> Unsent \cup Sent]
         /\ \A i \in Jobs \ {j} : plan'[i] = plan[i]
         /\ plan'[j] \in Unsent => plan[j] \in Unsent /\ Head(plan[j]) = "tell"
         /\ Head(plan[j]) = "push" => plan[j] \in Unsent /\ plan'[j] \in Sent
<1>1. /\ UNCHANGED <<kind, dlq, work, failures>> /\ plan' = [plan EXCEPT ![j] = Tail(@)]
      /\ plan[j] # <<>>
  BY DEF Sender, Push, Note, Announce, Planned, Proceed
<1>2. /\ plan' \in [Jobs -> Unsent \cup Sent]
      /\ \A i \in Jobs \ {j} : plan'[i] = plan[i]
      /\ plan'[j] \in Unsent => plan[j] \in Unsent /\ Head(plan[j]) = "tell"
      /\ Head(plan[j]) = "push" => plan[j] \in Unsent /\ plan'[j] \in Sent
  <2>1. plan[j] \in Unsent \cup Sent /\ Tail(plan[j]) = plan'[j]
    BY <1>1 DEF Counts, Shape
  <2>0. PICK todo \in Unsent \cup Sent : todo = plan[j]
    BY <2>1
  <2>2. /\ plan[j] \in Unsent =>
             \/ Head(plan[j]) = "tell" /\ plan'[j] \in Unsent
             \/ Head(plan[j]) = "push" /\ plan'[j] \in Sent
        /\ plan[j] \in Sent => Head(plan[j]) # "push" /\ plan'[j] \in Sent
    BY <1>1, <2>0, <2>1, TailsOfPlans
  <2>3. plan' \in [Jobs -> Unsent \cup Sent] /\ \A i \in Jobs \ {j} : plan'[i] = plan[i]
    BY <1>1, <2>1, <2>2 DEF Counts, Shape
  <2>. QED
    BY <2>1, <2>2, <2>3, PlansDiffer
<1>. QED
  BY <1>1, <1>2

LEMMA SendingCounts ==
  ASSUME Counts, BatchLeft, NEW j \in Jobs, Sender(j)
  PROVE  Counts' /\ BatchLeft'
<1>1. /\ UNCHANGED <<kind, dlq, work, failures>> /\ plan' = [plan EXCEPT ![j] = Tail(@)]
      /\ plan[j] # <<>>
  BY HowItSends
<1>2. /\ plan' \in [Jobs -> Unsent \cup Sent]
      /\ \A i \in Jobs \ {j} : plan'[i] = plan[i]
      /\ plan'[j] \in Unsent => plan[j] \in Unsent /\ Head(plan[j]) = "tell"
      /\ Head(plan[j]) = "push" => plan[j] \in Unsent /\ plan'[j] \in Sent
  BY HowItSends
<1>3. \A i : Blamed(i)' = Blamed(i)
  BY <1>1, BlamedStays
<1>4. CASE UNCHANGED queue /\ (plan'[j] \in Unsent => plan[j] \in Unsent)
  BY <1>1, <1>2, <1>3, <1>4 DEF Counts, Shape, BatchLeft, OneMessage, Tally, Holds, Job
<1>5. CASE Push(j)
  <2>1. PICK m \in Messages : m.job = j /\ m.fails = 0 /\ queue' = queue \cup {m}
    <3>1. PICK force \in BOOLEAN : queue' = queue \cup {Message(j, 0, force)}
      BY <1>5 DEF Push, Forces
    <3>2. Message(j, 0, force) \in Messages
      BY MaxRetryAssumption DEF Message, Messages
    <3>. QED
      BY <3>1, <3>2 DEF Message
  <2>2. plan[j] \in Unsent /\ plan'[j] \in Sent /\ Unsent \cap Sent = {}
    BY <1>2, <1>5, PlansDiffer DEF Push, Planned
  <2>3. /\ \A o \in queue \cup dlq : o.job # j
        /\ \A d \in Coroutines : Holds(d) => Job(d) # j
        /\ Blamed(j) = 0 /\ 0 < MaxRetry
    BY <2>2, MaxRetryAssumption DEF Counts, OneMessage, Tally
  <2>4. OneMessage'
    BY <1>1, <1>2, <2>1, <2>2, <2>3 DEF Counts, OneMessage, Holds, Job
  <2>5. Tally'
    BY <1>1, <1>2, <1>3, <2>1, <2>2, <2>3 DEF Counts, Tally, Holds, Job
  <2>6. Shape' /\ BatchLeft'
    BY <1>1, <1>2, <2>1 DEF Counts, Shape, BatchLeft
  <2>. QED
    BY <2>4, <2>5, <2>6 DEF Counts
<1>. QED
  BY <1>1, <1>2, <1>4, <1>5 DEF Sender, Note, Announce, Planned

LEMMA NothingMoves ==
  ASSUME Counts, BatchLeft, UNCHANGED <<kind, plan, queue, dlq, work, failures>>
  PROVE  Counts' /\ BatchLeft'
<1>1. \A i : Blamed(i)' = Blamed(i)
  BY BlamedStays
<1>. QED
  BY <1>1 DEF Counts, Shape, BatchLeft, OneMessage, Tally, Holds, Job

LEMMA StepsCount ==
  ASSUME Counts, BatchLeft, [Next]_vars
  PROVE  Counts' /\ BatchLeft'
<1>1. ASSUME NEW c \in Coroutines, Coroutine(c)
      PROVE  Counts' /\ BatchLeft'
  BY <1>1, TakeCounts, AdvancingCounts, FailingCounts, GivingBackCounts
     DEF Coroutine, Advances, GivesBack
<1>2. ASSUME NEW j \in Jobs, Users(j)
      PROVE  Counts' /\ BatchLeft'
  BY <1>2, NothingMoves DEF Users, Delete, Resolve, Accept
<1>3. CASE UNCHANGED vars
  BY <1>3, NothingMoves DEF vars
<1>. QED
  BY <1>1, <1>2, <1>3, SendingCounts DEF Next

(* A job is buried for as many failures as a job has tries, whatever else  *)
(* fails, times out or is deleted on the way.  A rate limit is none of     *)
(* them in the scenario, difference and diagnosis workers, and no error of *)
(* the API is in the monitor worker (analyzer.py:2507, 2738,               *)
(* diff_evaluator.py:169, failure_diagnoser.py:230).  In the other four a  *)
(* rate limit does count.                                                  *)
THEOREM BuriedWithCause == Spec => []BuriedForCause
<1>1. Init => Counts /\ BatchLeft
  BY CountsAtFirst
<1>2. (Counts /\ BatchLeft) /\ [Next]_vars => (Counts /\ BatchLeft)'
  BY StepsCount
<1>3. Counts => BuriedForCause
  <2> SUFFICES ASSUME Counts, NEW m \in dlq
               PROVE  LET f == failures[m.job]
                          k == kind[m.job]
                      IN /\ m.fails = MaxRetry
                         /\ k \in {"scenario", "diff", "diagnose"} => f["api"] + f["other"] = MaxRetry
                         /\ k = "monitor" => f["other"] = MaxRetry
                         /\ f["rate"] + f["api"] + f["other"] >= MaxRetry
    BY DEF BuriedForCause
  <2>1. m.job \in Jobs /\ m.fails = MaxRetry /\ Blamed(m.job) = MaxRetry /\ MaxRetry \in Nat
    BY MaxRetryAssumption DEF Counts, Shape, Tally, Messages
  <2>2. \A x \in Causes : failures[m.job][x] \in Nat
    BY <2>1 DEF Counts, Shape
  <2>. QED
    BY <2>1, <2>2 DEF Blamed, Excused, Causes
<1>. QED
  BY <1>1, <1>2, <1>3, PTL DEF Spec
------------------------------------------------------------------------------
(* One version for each evaluation.  A difference or an execution has none *)
(* while its message can still be worked on: it is inserted on the way to  *)
(* a conclusion, from which no failure leads back.                         *)
Once == {"diff", "diagnose"}
Concluding == {"fixed", "confirm", "reviewing", "closing"}
Elsewhere == {"inserted", "batched", "telling"}  \* where the generators pass only
Single ==
  /\ versions \in [Jobs -> Nat]
  /\ \A j \in Jobs : kind[j] \in Once =>
       versions[j] <= 1 /\ (plan[j] \in Unsent => versions[j] = 0)
  /\ \A m \in queue : kind[m.job] \in Once => versions[m.job] = 0
  /\ \A c \in Coroutines : Holds(c) /\ Kind(c) \in Once =>
       work[c].pc \notin Elsewhere /\ (work[c].pc \in Concluding \/ versions[Job(c)] = 0)

LEMMA SingleAtFirst == Init => Single
BY DEF Init, Single, Holds, Idle

LEMMA JobsOfMessages ==
  ASSUME Counts
  PROVE  /\ \A m \in queue : m.job \in Jobs
         /\ \A c \in Coroutines : work[c].pc # "free" => Job(c) \in Jobs
BY DEF Counts, Shape, Messages, Job

(* A coroutine moves and inserts nothing. *)
LEMMA StaysSingle ==
  ASSUME Counts, Single, NEW c \in Coroutines, UNCHANGED <<kind, plan, versions>>,
         queue' \subseteq queue, \A d \in Coroutines \ {c} : work'[d] = work[d],
         Holds(c)' => Holds(c) /\ Job(c)' = Job(c),
         Holds(c)' /\ Kind(c) \in Once =>
           /\ work'[c].pc \notin Elsewhere
           /\ work[c].pc \in Concluding => work'[c].pc \in Concluding
  PROVE  Single'
<1>1. \A d \in Coroutines : Holds(d)' /\ Kind(d)' \in Once =>
        /\ Holds(d) /\ Kind(d) \in Once /\ Job(d)' = Job(d)
        /\ work'[d].pc \notin Elsewhere
        /\ work[d].pc \in Concluding => work'[d].pc \in Concluding
  BY DEF Single, Holds, Kind, Job
<1>. QED
  BY <1>1 DEF Single

LEMMA GoesOn ==
  ASSUME Counts, NEW c \in Coroutines, NEW pc, Go(c, pc)
  PROVE  /\ work'[c].pc = pc /\ work'[c].msg = work[c].msg
         /\ \A d \in Coroutines \ {c} : work'[d] = work[d]
<1>1. work' = Moved(c, pc, work[c].batch, work[c].saved)
  BY MovedIs DEF Go, Counts
<1>. QED
  BY <1>1 DEF Moved, Counts, Shape

LEMMA EndsThere ==
  ASSUME Counts, NEW c \in Coroutines, End(c)
  PROVE  ~ Holds(c)' /\ \A d \in Coroutines \ {c} : work'[d] = work[d]
BY DEF End, Counts, Shape, Idle, Holds

(* The steps of a coroutine that insert nothing, by where they lead.       *)
LEMMA MovesStaySingle ==
  ASSUME Counts, Single, NEW c \in Coroutines, Advances(c), UNCHANGED versions
  PROVE  Single'
<1>0. UNCHANGED <<kind, plan, queue>>
  BY HowItAdvances DEF Counts, Advances, NoteRunning, Load, Succeeds, NoteRetry, NoteDlq, TellDlq, Skip,
     DismissOrphan, Generate, Noted, KeepAsserts, TellReview, EmptyBatch, NextBatch, CloseBatches, Judge,
     InsertFix, NoteFix, ConfirmFix, Diagnose, Repair, Assess, Close
<1>1. CASE End(c)
  BY <1>0, <1>1, EndsThere, StaysSingle
<1>2. ASSUME NEW pc, Go(c, pc), Holds(c), pc \in Concluding \/ (work[c].pc \notin Concluding /\ pc \notin Elsewhere)
      PROVE  Single'
  <2>1. /\ work'[c].pc = pc /\ work'[c].msg = work[c].msg
        /\ \A d \in Coroutines \ {c} : work'[d] = work[d]
    BY <1>2, GoesOn
  <2>. QED
    BY <1>0, <1>2, <2>1, StaysSingle DEF Job, Concluding, Elsewhere
<1>3. CASE NoteRunning(c) \/ Load(c)
  BY <1>2, <1>3 DEF NoteRunning, Load, At, Holds, Concluding, Elsewhere
<1>4. CASE Judge(c) \/ InsertFix(c) \/ NoteFix(c) \/ ConfirmFix(c) \/ Assess(c) \/ Repair(c)
  BY <1>2, <1>4 DEF Judge, InsertFix, NoteFix, ConfirmFix, Assess, Repair, At, Holds, Concluding
<1>5. CASE Diagnose(c)
  BY <1>2, <1>5 DEF Diagnose, At, Holds, Concluding, Elsewhere
<1>6. ASSUME Holds(c), Kind(c) \notin Once, work'[c].msg = work[c].msg,
             \A d \in Coroutines \ {c} : work'[d] = work[d]
      PROVE  Single'
  BY <1>0, <1>6, StaysSingle DEF Job
<1>7. CASE KeepAsserts(c) \/ Generate(c)
  <2>1. PICK pc \in {"telling", "inserted"} : Go(c, pc)
    BY <1>7 DEF KeepAsserts, Generate
  <2>2. Holds(c) /\ Kind(c) \notin Once
    BY <1>7 DEF KeepAsserts, Generate, At, Holds, Once
  <2>. QED
    BY <1>6, <2>1, <2>2, GoesOn
<1>8. CASE NextBatch(c)
  <2>1. Go(c, "ready") /\ Holds(c) /\ Kind(c) \notin Once
    BY <1>8 DEF NextBatch, At, Holds, Single, Elsewhere
  <2>. QED
    BY <1>6, <2>1, GoesOn
<1>9. CASE Noted(c) \/ EmptyBatch(c)
  <2>1. Holds(c) /\ Kind(c) \notin Once
    BY <1>9 DEF Noted, EmptyBatch, At, Holds, Single, Elsewhere, Once
  <2>2. CASE End(c)
    BY <1>1, <2>2
  <2>3. CASE ~ End(c)
    <3>1. \/ Go(c, "telling")
          \/ work' = [work EXCEPT ![c].pc = "batched", ![c].batch = @ + 1, ![c].saved = TRUE]
          \/ work' = [work EXCEPT ![c].pc = "batched", ![c].batch = @ + 1]
      BY <1>9, <2>3 DEF Noted, EmptyBatch
    <3>2. work'[c].msg = work[c].msg /\ \A d \in Coroutines \ {c} : work'[d] = work[d]
      BY <3>1, GoesOn DEF Counts, Shape
    <3>. QED
      BY <1>6, <2>1, <3>2
  <2>. QED
    BY <2>2, <2>3
<1>10. CASE NoteDlq(c)
  <2>1. Go(c, "mourning")
    BY <1>10 DEF NoteDlq
  <2>2. work'[c].pc = "mourning" /\ \A d \in Coroutines \ {c} : work'[d] = work[d]
    BY <2>1, GoesOn
  <2>. QED
    BY <1>0, <2>2, StaysSingle DEF Holds
<1>. QED
  BY <1>1, <1>3, <1>4, <1>5, <1>7, <1>8, <1>9, <1>10
     DEF Advances, Succeeds, Skip, DismissOrphan, TellReview, CloseBatches, Close, NoteRetry, TellDlq

(* Inserting: nobody else has a message of this job. *)
LEMMA InsertsOnce ==
  ASSUME Counts, Single, NEW c \in Coroutines, Generate(c) \/ InsertFix(c) \/ Repair(c)
  PROVE  Single'
<1>1. PICK j \in Jobs : j = Job(c)
  <2>1. work[c].pc # "free"
    BY DEF Generate, InsertFix, Repair, At
  <2>. QED
    BY <2>1, JobsOfMessages
<1>2. PICK pc \in {"inserted", "fixed", "reviewing"} :
        /\ Go(c, pc)
        /\ kind[j] \in Once => pc \in Concluding
  BY <1>1 DEF Generate, InsertFix, Repair, Kind, Once, Concluding
<1>3. /\ Holds(c) /\ work[c].pc \notin Concluding /\ UNCHANGED <<kind, plan, queue>>
      /\ versions' = [versions EXCEPT ![j] = @ + 1]
  BY <1>1 DEF Generate, InsertFix, Repair, At, Holds, Concluding, Insert
<1>4. /\ work'[c].pc = pc /\ Job(c)' = j /\ \A d \in Coroutines \ {c} : work'[d] = work[d]
  <2>1. /\ work'[c].pc = pc /\ work'[c].msg = work[c].msg
        /\ \A d \in Coroutines \ {c} : work'[d] = work[d]
    BY <1>2, GoesOn
  <2>. QED
    BY <1>1, <2>1 DEF Job
<1>5. /\ plan[j] \notin Unsent /\ \A m \in queue : m.job # j
      /\ \A d \in Coroutines \ {c} : Holds(d) => Job(d) # j
  BY <1>1, <1>3 DEF Counts, OneMessage
<1>6. /\ versions' \in [Jobs -> Nat] /\ \A i \in Jobs \ {j} : versions'[i] = versions[i]
      /\ kind[j] \in Once => versions'[j] = 1
  BY <1>1, <1>3 DEF Single, Kind
<1>7. \A d \in Coroutines \ {c} : Holds(d)' = Holds(d) /\ Job(d)' = Job(d) /\ (Holds(d) => Job(d) \in Jobs)
  BY <1>4, JobsOfMessages DEF Holds, Job
<1>8. \A d \in Coroutines : Holds(d)' /\ Kind(d)' \in Once =>
        work'[d].pc \notin Elsewhere /\ (work'[d].pc \in Concluding \/ versions'[Job(d)'] = 0)
  <2>1. ASSUME NEW d \in Coroutines \ {c}, Holds(d)', Kind(d)' \in Once
        PROVE  work'[d].pc \notin Elsewhere /\ (work'[d].pc \in Concluding \/ versions'[Job(d)'] = 0)
    BY <1>3, <1>4, <1>5, <1>6, <1>7, <2>1 DEF Single, Kind
  <2>2. Kind(c)' \in Once => work'[c].pc \notin Elsewhere /\ work'[c].pc \in Concluding
    BY <1>2, <1>3, <1>4 DEF Kind, Elsewhere, Concluding
  <2>. QED
    BY <2>1, <2>2
<1>. QED
  BY <1>3, <1>5, <1>6, <1>8, JobsOfMessages DEF Single

LEMMA FailuresStaySingle ==
  ASSUME Counts, Single, NEW c \in Coroutines, Fails(c)
  PROVE  Single'
<1>1. UNCHANGED <<kind, plan, queue, versions>>
  BY DEF Fails, NoTarget, LlmFails, TimesOut
<1>2. Holds(c) /\ (Kind(c) \in Once => work[c].pc \in {"ready", "working"})
  BY DEF Fails, NoTarget, LlmFails, TimesOut, At, Holds, Once
<1>3. PICK cause \in Causes :
        work' = [work EXCEPT ![c].pc = "failed", ![c].msg.fails = Counted(Kind(c), cause, @)]
  BY DEF Fails, NoTarget, LlmFails, TimesOut, Blame, Causes
<1>4. /\ work'[c].pc = "failed" /\ work'[c].msg.job = work[c].msg.job
      /\ \A d \in Coroutines \ {c} : work'[d] = work[d]
  <2>1. work[c].msg \in Messages
    BY <1>2 DEF Counts, Shape, Holds
  <2>. QED
    BY <1>3, <2>1 DEF Counts, Shape, Messages
<1>. QED
  BY <1>1, <1>2, <1>4, StaysSingle DEF Job, Concluding, Elsewhere

LEMMA TakingStaysSingle ==
  ASSUME Counts, Single, NEW c \in Coroutines, Take(c)
  PROVE  Single'
<1>1. PICK m \in queue :
        /\ queue' = queue \ {m}
        /\ work' = [work EXCEPT ![c] = [Idle EXCEPT !.pc = "waiting", !.msg = m]]
  BY DEF Take
<1>2. UNCHANGED <<kind, plan, versions>>
  BY DEF Take
<1>3. /\ work'[c].pc = "waiting" /\ Job(c)' = m.job
      /\ \A d \in Coroutines \ {c} : work'[d] = work[d]
  BY <1>1 DEF Counts, Shape, Idle, Job
<1>4. \A d \in Coroutines \ {c} : Holds(d)' = Holds(d) /\ Kind(d)' = Kind(d) /\ Job(d)' = Job(d)
  BY <1>2, <1>3 DEF Holds, Kind, Job
<1>5. kind[m.job] \in Once => versions[m.job] = 0
  BY DEF Single
<1>. QED
  BY <1>1, <1>2, <1>3, <1>4, <1>5 DEF Single, Kind, Elsewhere

LEMMA GivingBackStaysSingle ==
  ASSUME Counts, Single, NEW c \in Coroutines, Requeue(c) \/ Bury(c)
  PROVE  Single'
<1>1. /\ UNCHANGED <<kind, plan, versions>> /\ work[c].pc = "failed" /\ Holds(c)
  BY DEF Requeue, Bury, At, Holds
<1>2. ~ Holds(c)' /\ \A d \in Coroutines \ {c} : work'[d] = work[d]
  <2>1. PICK pc \in {"requeued", "buried"} : Go(c, pc)
    BY DEF Requeue, Bury
  <2>. QED
    BY <2>1, GoesOn DEF Holds
<1>3. CASE UNCHANGED queue
  BY <1>1, <1>2, <1>3, StaysSingle
<1>4. CASE Requeue(c)
  <2>1. \A m \in queue' : m \in queue \/ m.job = Job(c)
    BY <1>4 DEF Requeue, Message
  <2>2. kind[Job(c)] \in Once => versions[Job(c)] = 0
    BY <1>1 DEF Single, Kind, Concluding
  <2>3. \A d \in Coroutines : Holds(d)' => Holds(d) /\ Kind(d)' = Kind(d) /\ work'[d] = work[d]
    BY <1>1, <1>2 DEF Holds, Kind, Job
  <2>. QED
    BY <1>1, <2>1, <2>2, <2>3 DEF Single, Kind, Job
<1>. QED
  BY <1>3, <1>4 DEF Bury

LEMMA SendingStaysSingle ==
  ASSUME Counts, Single, NEW j \in Jobs, Sender(j)
  PROVE  Single'
<1>1. /\ UNCHANGED <<kind, work, versions>>
      /\ \A i \in Jobs : plan'[i] \in Unsent => plan[i] \in Unsent
  BY HowItSends DEF Sender, Push, Note, Announce
<1>2. \A m \in queue' : m \in queue \/ (m.job = j /\ plan[j] \in Unsent)
  BY HowItSends DEF Sender, Push, Note, Announce, Message, Planned
<1>. QED
  BY <1>1, <1>2 DEF Single, Holds, Kind, Job

(* An evaluation is concluded once: however often a job of the evaluator   *)
(* or of the diagnoser fails, is retried and overtaken by its users, it    *)
(* leaves one version at most (diff_evaluator.py, failure_diagnoser.py).   *)
THEOREM ConcludedOnce == Spec => []OneVersion
<1>1. Init => (Counts /\ BatchLeft) /\ Single
  BY CountsAtFirst, SingleAtFirst
<1>2. (Counts /\ BatchLeft) /\ Single /\ [Next]_vars => ((Counts /\ BatchLeft) /\ Single)'
  <2> SUFFICES ASSUME Counts, BatchLeft, Single, [Next]_vars PROVE (Counts /\ BatchLeft)' /\ Single'
    OBVIOUS
  <2>1. ASSUME NEW c \in Coroutines, Advances(c)
        PROVE  Single'
    <3>1. CASE Generate(c) \/ InsertFix(c) \/ Repair(c)
      BY <3>1, InsertsOnce
    <3>2. CASE ~ (Generate(c) \/ InsertFix(c) \/ Repair(c))
      <4>1. UNCHANGED versions
        BY <2>1, <3>2 DEF Advances, NoteRunning, Load, Succeeds, NoteRetry, NoteDlq, TellDlq, Skip,
           DismissOrphan, Noted, KeepAsserts, TellReview, EmptyBatch, NextBatch, CloseBatches, Judge,
           NoteFix, ConfirmFix, Diagnose, Assess, Close
      <4>. QED
        BY <2>1, <4>1, MovesStaySingle
    <3>. QED
      BY <3>1, <3>2
  <2>2. ASSUME NEW c \in Coroutines, Coroutine(c)
        PROVE  Single'
    BY <2>1, <2>2, TakingStaysSingle, FailuresStaySingle, GivingBackStaysSingle
       DEF Coroutine, Advances, GivesBack
  <2>3. ASSUME UNCHANGED <<kind, plan, queue, work, versions>>
        PROVE  Single'
    BY <2>3 DEF Single, Holds, Kind, Job
  <2>4. ASSUME NEW j \in Jobs, Users(j)
        PROVE  Single'
    BY <2>3, <2>4 DEF Users, Delete, Resolve, Accept
  <2>5. Single'
    BY <2>2, <2>3, <2>4, SendingStaysSingle DEF Next, vars
  <2>. QED
    BY <2>5, StepsCount
<1>3. Single => OneVersion
  BY DEF Single, OneVersion, Once
<1>. QED
  BY <1>1, <1>2, <1>3, PTL DEF Spec
------------------------------------------------------------------------------
(* What a job was about settles.  A target that says it is being worked on *)
(* has a message on its way to be worked on, or a coroutine about to tell  *)
(* that it failed; a difference that nobody judged may also have its       *)
(* message in the dead letters.                                            *)
Targets == {"idle", "pending", "queued", "running", "failed", "pending_review",
            "applied", "confirmed", "dismissed", "done", "assessed", "gone"}
Told == {"repairing", "closing", "reviewing"}      \* where the target was told its end
Settled(j) ==
  /\ target[j] \notin {"running", "pending"}
  /\ target[j] = "queued" => kind[j] = "diagnose"
Carried(j) ==
  \/ plan[j] \in Unsent
  \/ \E m \in queue : m.job = j
  \/ \E c \in Coroutines : Holds(c) /\ Job(c) = j
Mourned(j) == \E c \in Coroutines : Job(c) = j /\ work[c].pc \in {"buried", "mourning"}
Buried(j) == \E m \in dlq : m.job = j
Cared(j) ==
  \/ Settled(j) \/ Carried(j)
  \/ target[j] # "pending" /\ Mourned(j)
  \/ target[j] = "pending" /\ Buried(j)
(* Which targets say so, and which plans tell one: by the kind of the job. *)
ByKind(j) ==
  /\ target[j] \in {"running", "queued"} => TellsBurial(kind[j])
  /\ target[j] = "pending" => kind[j] = "diff"
  /\ ~ TellsBurial(kind[j]) => plan[j] \in {<<"push", "note">>, <<"note">>, <<>>}
  /\ kind[j] \in {"doc", "asserts"} =>
       plan[j] \in {<<"tell", "push", "note">>, <<"push", "note">>, <<"note">>, <<>>}
WellTold(c) ==
  /\ work[c].pc \in Told => Settled(Job(c))
  /\ work[c].pc = "batched" => Kind(c) = "scenario"
Settling ==
  /\ target \in [Jobs -> Targets]
  /\ \A j \in Jobs : ByKind(j) /\ Cared(j)
  /\ \A c \in Coroutines : Holds(c) => WellTold(c)

LEMMA SettlingAtFirst == Init => Settling
<1> SUFFICES ASSUME Init PROVE Settling
  OBVIOUS
<1>1. target \in [Jobs -> Targets] /\ \A j \in Jobs : target[j] = IF kind[j] = "diff" THEN "pending" ELSE "idle"
  BY DEF Init, Targets
<1>2. \A c \in Coroutines : ~ Holds(c)
  BY DEF Init, Idle, Holds
<1>3. ASSUME NEW j \in Jobs PROVE ByKind(j) /\ Cared(j)
  <2>1. plan[j] = PlanOf(kind[j])
    BY DEF Init
  <2>2. plan[j] \in Unsent
    BY <2>1 DEF PlanOf, Unsent
  <2>3. ByKind(j)
    BY <1>1, <2>1 DEF ByKind, TellsBurial, PlanOf
  <2>. QED
    BY <2>2, <2>3 DEF Cared, Carried
<1>. QED
  BY <1>1, <1>2, <1>3 DEF Settling

(* Who is told something else than that it is being worked on is settled.  *)
Calm == Targets \ {"running", "pending", "queued"}
LEMMA CalmIsSettled ==
  ASSUME NEW j, target'[j] \in Calm \/ (target'[j] = "queued" /\ kind[j] = "diagnose"), UNCHANGED kind
  PROVE  Settled(j)'
BY DEF Settled, Calm

LEMMA Telling ==
  ASSUME Settling, NEW j \in Jobs, NEW s \in Targets, Tell(j, s)
  PROVE  /\ target' \in [Jobs -> Targets] /\ target'[j] \in {s, "gone"}
         /\ \A i \in Jobs \ {j} : target'[i] = target[i]
BY DEF Settling, Tell, Targets

(* A step of a coroutine on its job disturbs no other job, and keeps this  *)
(* one cared for if it does so much.                                       *)
Mindful(c, j) ==
  /\ UNCHANGED <<kind, plan>> /\ queue \subseteq queue' /\ dlq \subseteq dlq'
  /\ \A d \in Coroutines \ {c} : work'[d] = work[d]
  /\ target' \in [Jobs -> Targets] /\ \A i \in Jobs \ {j} : target'[i] = target[i]
  /\ Holds(c)' => Holds(c) /\ Job(c)' = j
LEMMA MindfulSettles ==
  ASSUME Counts, Settling, NEW c \in Coroutines, NEW j \in Jobs, work[c].pc # "free", Job(c) = j,
         Mindful(c, j), Holds(c) \/ target'[j] = target[j] \/ Settled(j)',
         ByKind(j)', Cared(j)', Holds(c)' => WellTold(c)'
  PROVE  Settling'
<1>1. \A d \in Coroutines \ {c} : Holds(d)' = Holds(d) /\ Job(d)' = Job(d) /\ work'[d].pc = work[d].pc
  BY DEF Mindful, Holds, Job
<1>2. ASSUME NEW i \in Jobs \ {j} PROVE ByKind(i)' /\ Cared(i)'
  <2>1. target'[i] = target[i] /\ ByKind(i) /\ Cared(i) /\ kind' = kind /\ plan' = plan
    BY DEF Mindful, Settling
  <2>2. Carried(i) => Carried(i)'
    BY <1>1, <2>1 DEF Carried, Mindful
  <2>3. Mourned(i) => Mourned(i)'
    BY <1>1 DEF Mourned
  <2>4. Buried(i) => Buried(i)'
    BY DEF Buried, Mindful
  <2>5. Settled(i)' = Settled(i)
    BY <2>1 DEF Settled
  <2>. QED
    BY <2>1, <2>2, <2>3, <2>4, <2>5 DEF ByKind, Cared
<1>3. ASSUME NEW d \in Coroutines \ {c}, Holds(d)' PROVE WellTold(d)'
  <2>1. Holds(d) /\ Job(d) \in Jobs /\ Job(d)' = Job(d) /\ work'[d].pc = work[d].pc /\ WellTold(d)
    BY <1>1, <1>3, JobsOfMessages DEF Settling, Holds
  <2>2. kind' = kind
    BY DEF Mindful
  <2>3. CASE Job(d) # j
    BY <2>1, <2>2, <2>3 DEF WellTold, Settled, Kind, Mindful
  <2>4. CASE Job(d) = j
    <3>1. ~ Holds(c)
      BY <2>1, <2>4 DEF Counts, OneMessage
    <3>2. CASE Settled(j)'
      BY <2>1, <2>2, <2>4, <3>2 DEF WellTold, Kind
    <3>3. CASE target'[j] = target[j]
      BY <2>1, <2>2, <2>4, <3>3 DEF WellTold, Kind, Settled
    <3>. QED
      BY <3>1, <3>2, <3>3
  <2>. QED
    BY <2>3, <2>4
<1>. QED
  BY <1>2, <1>3 DEF Settling, Mindful

LEMMA HoldsJob ==
  ASSUME Counts, NEW c \in Coroutines, work[c].pc # "free"
  PROVE  \E j \in Jobs : j = Job(c)
BY JobsOfMessages

(* A coroutine moves on with its message. *)
LEMMA GoingOnSettles ==
  ASSUME Counts, Settling, NEW c \in Coroutines, NEW j \in Jobs, j = Job(c), Holds(c), NEW pc,
         work'[c].pc = pc, work'[c].msg.job = j, \A d \in Coroutines \ {c} : work'[d] = work[d],
         UNCHANGED <<kind, plan, queue, dlq>>, pc \in Places \ {"free", "requeued", "buried", "mourning"},
         target' \in [Jobs -> Targets], \A i \in Jobs \ {j} : target'[i] = target[i],
         target'[j] \in {"running", "queued"} => TellsBurial(kind[j]),
         target'[j] = "pending" => kind[j] = "diff",
         pc \in Told => Settled(j)',
         pc = "batched" => kind[j] = "scenario"
  PROVE  Settling'
<1>1. work[c].pc # "free"
  BY DEF Holds
<1>2. Job(c)' = j /\ Holds(c)' /\ Kind(c)' = kind[j]
  BY <1>1 DEF Job, Holds, Kind
<1>3. Mindful(c, j)
  BY <1>1, <1>2 DEF Mindful
<1>4. ByKind(j)' /\ Cared(j)'
  BY <1>1, <1>2 DEF Settling, ByKind, Cared, Carried, Kind
<1>5. WellTold(c)'
  BY <1>1, <1>2 DEF WellTold
<1>. QED
  BY <1>1, <1>3, <1>4, <1>5, MindfulSettles

(* It ends, and its job is settled. *)
LEMMA EndingSettles ==
  ASSUME Counts, Settling, NEW c \in Coroutines, NEW j \in Jobs, j = Job(c), work[c].pc # "free", End(c),
         UNCHANGED <<kind, plan, queue, dlq>>,
         target' \in [Jobs -> Targets], \A i \in Jobs \ {j} : target'[i] = target[i],
         target'[j] = target[j] \/ target'[j] \in Calm, Settled(j)'
  PROVE  Settling'
<1>1. ~ Holds(c)' /\ \A d \in Coroutines \ {c} : work'[d] = work[d]
  BY EndsThere
<1>2. Mindful(c, j)
  BY <1>1 DEF Mindful
<1>3. ByKind(j)'
  BY DEF Settling, ByKind, Calm
<1>4. Cared(j)'
  BY DEF Cared
<1>. QED
  BY <1>1, <1>2, <1>3, <1>4, MindfulSettles

LEMMA KeepsTarget ==
  ASSUME Settling, UNCHANGED target
  PROVE  target' \in [Jobs -> Targets] /\ \A i \in Jobs : target'[i] = target[i]
BY DEF Settling

(* The steps on the way, by what they tell. *)
LEMMA SilentStepsSettle ==
  ASSUME Counts, Settling, NEW c \in Coroutines,
         NoteRunning(c) \/ Generate(c) \/ KeepAsserts(c) \/ InsertFix(c) \/ NoteFix(c) \/ Repair(c)
           \/ NextBatch(c) \/ EmptyBatch(c) \/ (Noted(c) /\ ~ End(c))
  PROVE  Settling'
<1>0. work[c].pc # "free" /\ Holds(c) /\ UNCHANGED <<kind, plan, queue, dlq, target>>
  BY DEF NoteRunning, Generate, KeepAsserts, InsertFix, NoteFix, Repair, NextBatch, EmptyBatch, Noted,
         At, Holds
<1>1. PICK j \in Jobs : j = Job(c)
  BY <1>0, HoldsJob
<1>2. /\ target' \in [Jobs -> Targets] /\ \A i \in Jobs : target'[i] = target[i]
      /\ ByKind(j) /\ WellTold(c) /\ (Settled(j) => Settled(j)')
  BY <1>0, KeepsTarget DEF Settling, Settled
<1>3. PICK pc \in {"ready", "inserted", "telling", "fixed", "confirm", "reviewing", "batched"} :
        /\ work'[c].pc = pc /\ work'[c].msg = work[c].msg
        /\ \A d \in Coroutines \ {c} : work'[d] = work[d]
        /\ pc \in Told => work[c].pc \in Told
        /\ pc = "batched" => Kind(c) = "scenario"
  <2>1. CASE NoteRunning(c) \/ NextBatch(c)
    <3>1. Go(c, "ready")
      BY <2>1 DEF NoteRunning, NextBatch
    <3>. QED
      BY <3>1, GoesOn DEF Told
  <2>2. CASE Generate(c) \/ KeepAsserts(c) \/ InsertFix(c) \/ NoteFix(c)
    <3>1. PICK pc \in {"inserted", "telling", "fixed", "confirm"} : Go(c, pc)
      BY <2>2 DEF Generate, KeepAsserts, InsertFix, NoteFix
    <3>. QED
      BY <3>1, GoesOn DEF Told
  <2>3. CASE Repair(c)
    <3>1. Go(c, "reviewing") /\ work[c].pc = "repairing"
      BY <2>3 DEF Repair, At
    <3>. QED
      BY <3>1, GoesOn DEF Told
  <2>4. CASE EmptyBatch(c)
    <3>1. /\ work' = [work EXCEPT ![c].pc = "batched", ![c].batch = @ + 1] /\ Kind(c) = "scenario"
      BY <2>4 DEF EmptyBatch
    <3>2. /\ work'[c].pc = "batched" /\ work'[c].msg = work[c].msg
          /\ \A d \in Coroutines \ {c} : work'[d] = work[d]
      BY <3>1 DEF Counts, Shape
    <3>. QED
      BY <3>1, <3>2 DEF Told
  <2>5. CASE Noted(c) /\ ~ End(c)
    <3>1. CASE Kind(c) = "scenario"
      <4>1. work' = [work EXCEPT ![c].pc = "batched", ![c].batch = @ + 1, ![c].saved = TRUE]
        BY <2>5, <3>1 DEF Noted
      <4>2. /\ work'[c].pc = "batched" /\ work'[c].msg = work[c].msg
            /\ \A d \in Coroutines \ {c} : work'[d] = work[d]
        BY <4>1 DEF Counts, Shape
      <4>. QED
        BY <3>1, <4>2 DEF Told
    <3>2. CASE Kind(c) # "scenario"
      <4>1. Go(c, "telling")
        BY <2>5, <3>2 DEF Noted
      <4>. QED
        BY <4>1, GoesOn DEF Told
    <3>. QED
      BY <3>1, <3>2
  <2>. QED
    BY <2>1, <2>2, <2>3, <2>4, <2>5
<1>4. work'[c].msg.job = j
  BY <1>1, <1>3 DEF Job
<1>. QED
  BY <1>0, <1>1, <1>2, <1>3, <1>4, GoingOnSettles DEF ByKind, WellTold, Kind, Places

LEMMA TellingStepsSettle ==
  ASSUME Counts, Settling, NEW c \in Coroutines,
         Load(c) \/ Judge(c) \/ ConfirmFix(c) \/ Diagnose(c) \/ Assess(c)
  PROVE  Settling'
<1>0. work[c].pc \in {"ready", "working", "confirm"} /\ Holds(c) /\ UNCHANGED <<kind, plan, queue, dlq>>
  BY DEF Load, Judge, ConfirmFix, Diagnose, Assess, At, Holds
<1>1. PICK j \in Jobs : j = Job(c)
  BY <1>0, HoldsJob
<1>2. ByKind(j)
  BY DEF Settling
<1>3. CASE Load(c)
  <2>1. Go(c, "working") /\ ((Tell(j, "running") /\ TellsBurial(kind[j])) \/ UNCHANGED target)
    BY <1>1, <1>3 DEF Load, Kind, TellsBurial
  <2>2. /\ target' \in [Jobs -> Targets] /\ \A i \in Jobs \ {j} : target'[i] = target[i]
        /\ target'[j] = target[j] \/ target'[j] = "gone" \/ (target'[j] = "running" /\ TellsBurial(kind[j]))
    BY <2>1, Telling, KeepsTarget DEF Targets
  <2>3. /\ work'[c].pc = "working" /\ work'[c].msg.job = j
        /\ \A d \in Coroutines \ {c} : work'[d] = work[d]
    BY <1>1, <2>1, GoesOn DEF Job
  <2>. QED
    BY <1>0, <1>1, <1>2, <2>2, <2>3, GoingOnSettles DEF ByKind, Told, Places
<1>4. CASE Judge(c) \/ ConfirmFix(c) \/ Diagnose(c) \/ Assess(c)
  <2>1. PICK pc \in Told, s \in {"confirmed", "dismissed", "done", "assessed"} : Go(c, pc) /\ Tell(j, s)
    BY <1>1, <1>4 DEF Judge, ConfirmFix, Diagnose, Assess, Told
  <2>2. /\ target' \in [Jobs -> Targets] /\ \A i \in Jobs \ {j} : target'[i] = target[i]
        /\ target'[j] \in Calm
    BY <2>1, Telling DEF Targets, Calm
  <2>3. /\ work'[c].pc = pc /\ work'[c].msg.job = j
        /\ \A d \in Coroutines \ {c} : work'[d] = work[d]
    BY <1>1, <2>1, GoesOn DEF Job
  <2>4. Settled(j)'
    BY <1>0, <2>2, CalmIsSettled
  <2>. QED
    BY <1>0, <1>1, <2>2, <2>3, <2>4, GoingOnSettles DEF Told, Calm, Places
<1>. QED
  BY <1>3, <1>4

LEMMA EndsSettle ==
  ASSUME Counts, Settling, NEW c \in Coroutines,
         Skip(c) \/ DismissOrphan(c) \/ TellReview(c) \/ CloseBatches(c) \/ Close(c) \/ (Noted(c) /\ End(c))
  PROVE  Settling'
<1>0. work[c].pc # "free" /\ Holds(c) /\ End(c) /\ UNCHANGED <<kind, plan, queue, dlq>>
  BY DEF Skip, DismissOrphan, TellReview, CloseBatches, Close, Noted, At, Holds
<1>1. PICK j \in Jobs : j = Job(c)
  BY <1>0, HoldsJob
<1>2. ByKind(j) /\ WellTold(c)
  BY <1>0 DEF Settling
<1>3. CASE DismissOrphan(c) \/ TellReview(c)
  <2>1. PICK s \in {"dismissed", "pending_review"} : Tell(j, s)
    BY <1>1, <1>3 DEF DismissOrphan, TellReview
  <2>2. /\ target' \in [Jobs -> Targets] /\ \A i \in Jobs \ {j} : target'[i] = target[i]
        /\ target'[j] \in Calm
    BY <2>1, Telling DEF Targets, Calm
  <2>. QED
    BY <1>0, <1>1, <2>2, CalmIsSettled, EndingSettles
<1>4. ASSUME UNCHANGED target, Settled(j)
      PROVE  Settling'
  <2>1. target' \in [Jobs -> Targets] /\ \A i \in Jobs : target'[i] = target[i]
    BY <1>4, KeepsTarget
  <2>2. Settled(j)'
    BY <1>0, <1>4 DEF Settled
  <2>. QED
    BY <1>0, <1>1, <2>1, <2>2, EndingSettles
<1>5. CASE Skip(c)
  <2>1. target[j] \in {"gone", "idle", "applied"} \/ (target[j] = "queued" /\ kind[j] = "diagnose")
    BY <1>1, <1>5 DEF Skip, Kind
  <2>. QED
    BY <1>4, <1>5, <2>1 DEF Skip, Settled
<1>6. CASE CloseBatches(c)
  <2>1. kind[j] = "scenario"
    BY <1>1, <1>2, <1>6 DEF CloseBatches, At, WellTold, Kind
  <2>2. Settled(j)
    BY <1>2, <2>1 DEF ByKind, TellsBurial, Settled
  <2>. QED
    BY <1>4, <1>6, <2>2 DEF CloseBatches
<1>7. CASE Close(c)
  <2>1. Settled(j)
    BY <1>1, <1>2, <1>7 DEF Close, At, WellTold, Told
  <2>. QED
    BY <1>4, <1>7, <2>1 DEF Close
<1>8. CASE Noted(c) /\ End(c)
  <2>1. kind[j] \in {"data_template", "monitor"}
    <3>1. ~ Holds(c)'
      BY <1>0, EndsThere
    <3>2. CASE Kind(c) = "scenario"
      <4>1. work' = [work EXCEPT ![c].pc = "batched", ![c].batch = @ + 1, ![c].saved = TRUE]
        BY <1>8, <3>2 DEF Noted
      <4>2. work'[c].pc = "batched"
        BY <4>1 DEF Counts, Shape
      <4>. QED
        BY <3>1, <4>2 DEF Holds
    <3>3. CASE Kind(c) \notin {"data_template", "monitor", "scenario"}
      <4>1. Go(c, "telling")
        BY <1>8, <3>3 DEF Noted
      <4>2. work'[c].pc = "telling"
        BY <4>1, GoesOn
      <4>. QED
        BY <3>1, <4>2 DEF Holds
    <3>. QED
      BY <1>1, <3>2, <3>3 DEF Kind
  <2>2. Settled(j)
    BY <1>2, <2>1 DEF ByKind, TellsBurial, Settled
  <2>. QED
    BY <1>4, <1>8, <2>2 DEF Noted
<1>. QED
  BY <1>3, <1>5, <1>6, <1>7, <1>8

LEMMA FailuresSettle ==
  ASSUME Counts, Settling, NEW c \in Coroutines, Fails(c)
  PROVE  Settling'
<1>0. Holds(c) /\ UNCHANGED <<kind, plan, queue, dlq>>
  BY DEF Fails, NoTarget, LlmFails, TimesOut, At, Holds
<1>1. PICK j \in Jobs : j = Job(c)
  BY <1>0, HoldsJob DEF Holds
<1>2. PICK cause \in Causes :
        work' = [work EXCEPT ![c].pc = "failed", ![c].msg.fails = Counted(Kind(c), cause, @)]
  BY DEF Fails, NoTarget, LlmFails, TimesOut, Blame, Causes
<1>3. /\ work'[c].pc = "failed" /\ work'[c].msg.job = j
      /\ \A d \in Coroutines \ {c} : work'[d] = work[d]
  <2>1. work[c].msg \in Messages
    BY <1>0 DEF Counts, Shape, Holds
  <2>. QED
    BY <1>1, <1>2, <2>1 DEF Counts, Shape, Messages, Job
<1>4. Tell(j, "failed") \/ UNCHANGED target
  BY <1>1 DEF Fails, NoTarget, LlmFails, TimesOut
<1>5. /\ target' \in [Jobs -> Targets] /\ \A i \in Jobs \ {j} : target'[i] = target[i]
      /\ target'[j] = target[j] \/ target'[j] \in {"failed", "gone"}
  BY <1>4, Telling, KeepsTarget DEF Targets
<1>6. ByKind(j)
  BY DEF Settling
<1>. QED
  BY <1>0, <1>1, <1>3, <1>5, <1>6, GoingOnSettles DEF ByKind, Told, Places

LEMMA GivingBackSettles ==
  ASSUME Counts, Settling, NEW c \in Coroutines, Requeue(c) \/ Bury(c)
  PROVE  Settling'
<1>0. work[c].pc = "failed" /\ Holds(c) /\ UNCHANGED <<kind, plan, target>>
  BY DEF Requeue, Bury, At, Holds
<1>1. PICK j \in Jobs : j = Job(c)
  BY <1>0, HoldsJob DEF Holds
<1>2. target' \in [Jobs -> Targets] /\ \A i \in Jobs : target'[i] = target[i]
  BY <1>0, KeepsTarget
<1>3. PICK pc \in {"requeued", "buried"} :
        Go(c, pc) /\ (pc = "requeued" <=> Requeue(c)) /\ (pc = "buried" <=> Bury(c))
  BY DEF Requeue, Bury
<1>4. /\ work'[c].pc = pc /\ Job(c)' = j /\ ~ Holds(c)'
      /\ \A d \in Coroutines \ {c} : work'[d] = work[d]
  BY <1>1, <1>3, GoesOn DEF Job, Holds
<1>5. queue \subseteq queue' /\ dlq \subseteq dlq'
  BY DEF Requeue, Bury
<1>6. Mindful(c, j)
  BY <1>0, <1>2, <1>4, <1>5 DEF Mindful
<1>7. ByKind(j)'
  BY <1>0, <1>2 DEF Settling, ByKind
<1>8. CASE Requeue(c)
  <2>1. \E m \in queue' : m.job = j
    <3>1. PICK m : m = Message(j, work[c].msg.fails, FALSE)
      OBVIOUS
    <3>2. m.job = j
      BY <3>1 DEF Message
    <3>3. m \in queue'
      BY <1>1, <1>8, <3>1 DEF Requeue
    <3>. QED
      BY <3>2, <3>3
  <2>2. Cared(j)'
    BY <2>1 DEF Cared, Carried
  <2>. QED
    BY <1>0, <1>1, <1>4, <1>6, <1>7, <2>2, MindfulSettles
<1>9. CASE Bury(c)
  <2>1. \E m \in dlq' : m.job = j
    BY <1>1, <1>9 DEF Bury, Job
  <2>2. Mourned(j)'
    BY <1>3, <1>4, <1>9 DEF Mourned
  <2>3. Cared(j)'
    BY <2>1, <2>2 DEF Cared, Buried
  <2>. QED
    BY <1>0, <1>1, <1>4, <1>6, <1>7, <2>3, MindfulSettles
<1>. QED
  BY <1>8, <1>9

(* After the message was given back: the note, and what is told. *)
LEMMA AftermathSettles ==
  ASSUME Counts, Settling, NEW c \in Coroutines, NoteRetry(c) \/ NoteDlq(c) \/ TellDlq(c)
  PROVE  Settling'
<1>0. work[c].pc \in {"requeued", "buried", "mourning"} /\ ~ Holds(c) /\ UNCHANGED <<kind, plan, queue, dlq>>
  BY DEF NoteRetry, NoteDlq, TellDlq, At, Holds
<1>1. PICK j \in Jobs : j = Job(c)
  BY <1>0, HoldsJob
<1>2. ByKind(j) /\ Cared(j)
  BY DEF Settling
<1>3. ~ Holds(c)' /\ \A d \in Coroutines \ {c} : work'[d] = work[d]
  <2>1. CASE NoteRetry(c) \/ TellDlq(c)
    BY <2>1, EndsThere DEF NoteRetry, TellDlq
  <2>2. CASE NoteDlq(c)
    <3>1. Go(c, "mourning")
      BY <2>2 DEF NoteDlq
    <3>. QED
      BY <3>1, GoesOn DEF Holds
  <2>. QED
    BY <2>1, <2>2
<1>4. Carried(j) => Carried(j)'
  <2>1. \A d \in Coroutines : Holds(d) => Holds(d)' /\ Job(d)' = Job(d)
    BY <1>0, <1>3 DEF Holds, Job
  <2>. QED
    BY <1>0, <2>1 DEF Carried
<1>5. ASSUME NEW s \in {"failed"}, Tell(j, s)
      PROVE  Settling'
  <2>1. /\ target' \in [Jobs -> Targets] /\ \A i \in Jobs \ {j} : target'[i] = target[i]
        /\ target'[j] \in Calm
    BY <1>5, Telling DEF Targets, Calm
  <2>2. Settled(j)' /\ ByKind(j)' /\ Cared(j)'
    BY <1>0, <1>2, <2>1, CalmIsSettled DEF ByKind, Cared, Calm
  <2>3. Mindful(c, j)
    BY <1>0, <1>3, <2>1 DEF Mindful
  <2>. QED
    BY <1>0, <1>1, <1>3, <2>2, <2>3, MindfulSettles
<1>6. ASSUME UNCHANGED target, Mourned(j) /\ target[j] # "pending" => Mourned(j)' \/ Settled(j)
      PROVE  Settling'
  <2>1. target' \in [Jobs -> Targets] /\ \A i \in Jobs : target'[i] = target[i]
    BY <1>6, KeepsTarget
  <2>2. Settled(j)' = Settled(j) /\ Buried(j)' = Buried(j)
    BY <1>0, <1>6 DEF Settled, Buried
  <2>3. ByKind(j)' /\ Cared(j)'
    BY <1>0, <1>2, <1>4, <1>6, <2>1, <2>2 DEF ByKind, Cared
  <2>4. Mindful(c, j)
    BY <1>0, <1>3, <2>1 DEF Mindful
  <2>. QED
    BY <1>0, <1>1, <1>3, <2>1, <2>3, <2>4, MindfulSettles
<1>7. ASSUME NEW d \in Coroutines \ {c}, work[d].pc \in {"buried", "mourning"}, Job(d) = j
      PROVE  Mourned(j)'
  BY <1>3, <1>7 DEF Mourned, Job
<1>8. CASE NoteRetry(c)
  <2>1. UNCHANGED target /\ work[c].pc = "requeued"
    BY <1>8 DEF NoteRetry, At
  <2>2. Mourned(j) => Mourned(j)'
    BY <1>7, <2>1 DEF Mourned
  <2>. QED
    BY <1>6, <2>1, <2>2
<1>9. CASE NoteDlq(c)
  <2>1. UNCHANGED target /\ Go(c, "mourning")
    BY <1>9 DEF NoteDlq
  <2>2. work'[c].pc = "mourning" /\ Job(c)' = j
    BY <1>1, <2>1, GoesOn DEF Job
  <2>3. Mourned(j)'
    BY <2>2 DEF Mourned
  <2>. QED
    BY <1>6, <2>1, <2>3
<1>10. CASE TellDlq(c)
  <2>1. CASE TellsBurial(kind[j])
    BY <1>1, <1>5, <1>10, <2>1 DEF TellDlq, Kind
  <2>2. CASE ~ TellsBurial(kind[j])
    <3>1. UNCHANGED target
      BY <1>1, <1>10, <2>2 DEF TellDlq, Kind
    <3>2. target[j] # "pending" => Settled(j)
      BY <1>2, <2>2 DEF ByKind, Settled
    <3>. QED
      BY <1>6, <3>1, <3>2
  <2>. QED
    BY <2>1, <2>2
<1>. QED
  BY <1>8, <1>9, <1>10

LEMMA TakingSettles ==
  ASSUME Counts, Settling, NEW c \in Coroutines, Take(c)
  PROVE  Settling'
<1>1. PICK m \in queue :
        /\ queue' = queue \ {m}
        /\ work' = [work EXCEPT ![c] = [Idle EXCEPT !.pc = "waiting", !.msg = m]]
  BY DEF Take
<1>2. UNCHANGED <<kind, plan, dlq, target>> /\ work[c].pc = "free"
  BY DEF Take, At
<1>3. /\ work'[c].pc = "waiting" /\ Job(c)' = m.job
      /\ \A d \in Coroutines \ {c} : work'[d] = work[d]
  BY <1>1 DEF Counts, Shape, Idle, Job
<1>4. ASSUME NEW j \in Jobs PROVE Cared(j)'
  <2>1. Settled(j)' = Settled(j) /\ Buried(j)' = Buried(j)
    BY <1>2 DEF Settled, Buried
  <2>2. Mourned(j) => Mourned(j)'
    BY <1>2, <1>3 DEF Mourned, Job
  <2>3. Carried(j) => Carried(j)'
    <3>1. Holds(c)'
      BY <1>3 DEF Holds
    <3>2. \A d \in Coroutines : Holds(d) => Holds(d)' /\ Job(d)' = Job(d)
      BY <1>2, <1>3 DEF Holds, Job
    <3>. QED
      BY <1>1, <1>2, <1>3, <3>1, <3>2 DEF Carried
  <2>. QED
    BY <1>2, <2>1, <2>2, <2>3 DEF Settling, Cared
<1>5. ASSUME NEW d \in Coroutines, Holds(d)' PROVE WellTold(d)'
  <2>1. CASE d = c
    BY <1>3, <2>1 DEF WellTold, Told
  <2>2. CASE d # c
    <3>1. work'[d] = work[d] /\ Holds(d) /\ Job(d)' = Job(d)
      BY <1>3, <1>5, <2>2 DEF Holds, Job
    <3>. QED
      BY <1>2, <3>1 DEF Settling, WellTold, Settled, Kind
  <2>. QED
    BY <2>1, <2>2
<1>6. \A j \in Jobs : ByKind(j)'
  BY <1>2 DEF Settling, ByKind
<1>. QED
  BY <1>2, <1>4, <1>5, <1>6 DEF Settling

(* Users settle what they touch. *)
LEMMA UsersSettle ==
  ASSUME Counts, Settling, NEW j \in Jobs, Users(j)
  PROVE  Settling'
<1>1. UNCHANGED <<kind, plan, queue, dlq, work>>
  BY DEF Users, Delete, Resolve, Accept
<1>2. /\ target' \in [Jobs -> Targets] /\ \A i \in Jobs \ {j} : target'[i] = target[i]
      /\ target'[j] \in Calm
  <2>1. CASE Delete(j)
    BY <2>1 DEF Delete, Settling, Targets, Calm
  <2>2. CASE Resolve(j) \/ Accept(j)
    <3>1. PICK s \in {"confirmed", "dismissed", "applied"} : Tell(j, s)
      BY <2>2 DEF Resolve, Accept
    <3>. QED
      BY <3>1, Telling DEF Targets, Calm
  <2>. QED
    BY <2>1, <2>2 DEF Users
<1>3. Settled(j)'
  BY <1>1, <1>2, CalmIsSettled
<1>4. \A i \in Jobs \ {j} : Settled(i)' = Settled(i)
  BY <1>1, <1>2 DEF Settled
<1>5. \A i \in Jobs : /\ Carried(i)' = Carried(i) /\ Mourned(i)' = Mourned(i) /\ Buried(i)' = Buried(i)
  BY <1>1 DEF Carried, Mourned, Buried, Holds, Job
<1>6. \A i \in Jobs : ByKind(i)' /\ Cared(i)'
  BY <1>1, <1>2, <1>3, <1>4, <1>5 DEF Settling, ByKind, Cared, Calm
<1>7. ASSUME NEW d \in Coroutines, Holds(d)' PROVE WellTold(d)'
  <2>1. Holds(d) /\ Job(d)' = Job(d) /\ WellTold(d)
    BY <1>1, <1>7 DEF Settling, Holds, Job
  <2>2. PICK i \in Jobs : i = Job(d)
    BY <2>1, JobsOfMessages DEF Holds
  <2>3. Settled(i) => Settled(i)'
    BY <1>3, <1>4
  <2>. QED
    BY <1>1, <2>1, <2>2, <2>3 DEF WellTold, Kind
<1>. QED
  BY <1>2, <1>6, <1>7 DEF Settling

LEMMA PlansByKind ==
  ASSUME NEW todo, todo # <<>>
  PROVE  /\ todo \in {<<"push", "note">>, <<"note">>, <<>>} =>
              Tail(todo) \in {<<"push", "note">>, <<"note">>, <<>>} /\ Head(todo) # "tell"
         /\ todo \in {<<"tell", "push", "note">>, <<"push", "note">>, <<"note">>, <<>>} =>
              /\ Tail(todo) \in {<<"tell", "push", "note">>, <<"push", "note">>, <<"note">>, <<>>}
              /\ Head(todo) = "tell" => todo \in Unsent /\ Tail(todo) \in Unsent
<1>1. CASE todo = <<"tell", "push", "note">>
  <2>1. Head(todo) = "tell" /\ Tail(todo) = <<"push", "note">>
    BY <1>1
  <2>2. todo # <<"push", "note">> /\ todo # <<"note">>
    BY <1>1
  <2>. QED
    BY <1>1, <2>1, <2>2 DEF Unsent
<1>2. CASE todo = <<"push", "note">>
  <2>1. Head(todo) = "push" /\ Tail(todo) = <<"note">>
    BY <1>2
  <2>. QED
    BY <1>2, <2>1
<1>3. CASE todo = <<"note">>
  <2>1. Head(todo) = "note" /\ Tail(todo) = <<>>
    BY <1>3
  <2>. QED
    BY <1>3, <2>1
<1>. QED
  BY <1>1, <1>2, <1>3

LEMMA SendingSettles ==
  ASSUME Counts, Settling, NEW j \in Jobs, Sender(j)
  PROVE  Settling'
<1>1. /\ UNCHANGED <<kind, dlq, work>> /\ plan'[j] = Tail(plan[j]) /\ plan[j] # <<>>
      /\ plan[j] \in Unsent \cup Sent
      /\ \A i \in Jobs \ {j} : plan'[i] = plan[i]
  BY HowItSends DEF Counts, Shape
<1>2. ByKind(j)
  BY DEF Settling
<1>3. PICK todo : todo = plan[j]
  OBVIOUS
<1>4. /\ ~ TellsBurial(kind[j]) => plan'[j] \in {<<"push", "note">>, <<"note">>, <<>>} /\ Head(plan[j]) # "tell"
      /\ kind[j] \in {"doc", "asserts"} =>
           /\ plan'[j] \in {<<"tell", "push", "note">>, <<"push", "note">>, <<"note">>, <<>>}
           /\ Head(plan[j]) = "tell" => plan[j] \in Unsent /\ plan'[j] \in Unsent
  BY <1>1, <1>2, <1>3, PlansByKind DEF ByKind
<1>5. \A i \in Jobs : Mourned(i)' = Mourned(i) /\ Buried(i)' = Buried(i)
  BY <1>1 DEF Mourned, Buried, Job
<1>6. \A d \in Coroutines : Holds(d)' = Holds(d) /\ Job(d)' = Job(d) /\ Kind(d)' = Kind(d) /\ work'[d].pc = work[d].pc
  BY <1>1 DEF Holds, Job, Kind
<1>7. queue \subseteq queue' /\ (Head(plan[j]) = "push" => \E m \in queue' : m.job = j)
  <2>1. CASE Push(j)
    <3>1. PICK force, m : queue' = queue \cup {m} /\ m = Message(j, 0, force)
      BY <2>1 DEF Push
    <3>2. m.job = j
      BY <3>1 DEF Message
    <3>. QED
      BY <3>1, <3>2
  <2>2. CASE Note(j) \/ Announce(j)
    BY <2>2 DEF Note, Announce, Planned
  <2>. QED
    BY <2>1, <2>2 DEF Sender
<1>8. \A i \in Jobs : Carried(i) => Carried(i)'
  <2>1. ASSUME NEW i \in Jobs, i # j \/ plan[j] \notin Unsent \/ plan'[j] \in Unsent, Carried(i)
        PROVE  Carried(i)'
    BY <1>1, <1>6, <1>7, <2>1 DEF Carried
  <2>2. plan[j] \in Unsent /\ plan'[j] \notin Unsent => Carried(j)'
    <3>1. plan[j] \in Unsent /\ plan'[j] \notin Unsent => Head(plan[j]) = "push"
      BY <1>1, <1>3, TailsOfPlans
    <3>. QED
      BY <1>7, <3>1 DEF Carried
  <2>. QED
    BY <2>1, <2>2
<1>9. CASE UNCHANGED target
  <2>1. \A i \in Jobs : Settled(i)' = Settled(i)
    BY <1>1, <1>9 DEF Settled
  <2>2. \A i \in Jobs : Cared(i)'
    BY <1>5, <1>8, <1>9, <2>1 DEF Settling, Cared
  <2>3. \A i \in Jobs : ByKind(i)'
    BY <1>1, <1>4, <1>9 DEF Settling, ByKind
  <2>4. \A d \in Coroutines : Holds(d)' => WellTold(d)'
    BY <1>1, <1>6, <1>9 DEF Settling, WellTold, Settled
  <2>. QED
    BY <1>9, <2>2, <2>3, <2>4 DEF Settling
<1>10. CASE Announce(j)
  <2>1. Head(plan[j]) = "tell" /\ Tell(j, "queued")
    BY <1>10 DEF Announce, Planned
  <2>2. /\ target' \in [Jobs -> Targets] /\ \A i \in Jobs \ {j} : target'[i] = target[i]
        /\ target'[j] \in {"queued", "gone"}
    BY <2>1, Telling DEF Targets
  <2>3. \A i \in Jobs \ {j} : Settled(i)' = Settled(i)
    BY <1>1, <2>2 DEF Settled
  <2>4. Settled(j)' \/ (plan[j] \in Unsent /\ plan'[j] \in Unsent)
    <3>1. kind[j] \in {"doc", "asserts", "diagnose"}
      BY <1>4, <2>1 DEF TellsBurial
    <3>2. CASE kind[j] = "diagnose"
      BY <1>1, <2>2, <3>2 DEF Settled
    <3>3. CASE kind[j] \in {"doc", "asserts"}
      BY <1>4, <2>1, <3>3
    <3>. QED
      BY <3>1, <3>2, <3>3
  <2>5. \A i \in Jobs : Cared(i)'
    BY <1>5, <1>8, <2>2, <2>3, <2>4 DEF Settling, Cared, Carried
  <2>6. \A i \in Jobs : ByKind(i)'
    BY <1>1, <1>4, <2>1, <2>2 DEF Settling, ByKind
  <2>7. ASSUME NEW d \in Coroutines, Holds(d)' PROVE WellTold(d)'
    <3>1. PICK i \in Jobs : i = Job(d)
      BY <1>6, <2>7, JobsOfMessages DEF Holds
    <3>2. WellTold(d)
      BY <1>6, <2>7 DEF Settling
    <3>3. Settled(i) => Settled(i)'
      BY <1>6, <2>3, <2>4, <2>7, <3>1 DEF Counts, OneMessage
    <3>. QED
      BY <1>6, <3>1, <3>2, <3>3 DEF WellTold
  <2>. QED
    BY <2>2, <2>5, <2>6, <2>7 DEF Settling
<1>. QED
  BY <1>9, <1>10 DEF Sender, Push, Note

LEMMA StepsSettle ==
  ASSUME Counts, Settling, [Next]_vars
  PROVE  Settling'
<1>1. ASSUME NEW c \in Coroutines, Coroutine(c)
      PROVE  Settling'
  <2>1. ASSUME Noted(c) PROVE Settling'
    BY <2>1, SilentStepsSettle, EndsSettle
  <2>. QED
    BY <1>1, <2>1, TakingSettles, SilentStepsSettle, TellingStepsSettle, EndsSettle, FailuresSettle,
       GivingBackSettles, AftermathSettles
       DEF Coroutine, Succeeds, GivesBack
<1>2. CASE UNCHANGED vars
  BY <1>2 DEF vars, Settling, ByKind, Cared, Settled, Carried, Mourned, Buried, WellTold, Holds, Job, Kind
<1>. QED
  BY <1>1, <1>2, SendingSettles, UsersSettle DEF Next

(* Once nothing of a job is left in the queue or in a coroutine, what it   *)
(* was about is told how it ended, or that a user settled it, or the job   *)
(* of a difference nobody judged lies in the dead letters: whatever the    *)
(* model answered, timed out or was deleted on the way.                    *)
THEOREM WhatIsLeftIsSettled == Spec => []TargetsSettle
<1>1. Init => (Counts /\ BatchLeft) /\ Settling
  BY CountsAtFirst, SettlingAtFirst
<1>2. (Counts /\ BatchLeft) /\ Settling /\ [Next]_vars => ((Counts /\ BatchLeft) /\ Settling)'
  <2> SUFFICES ASSUME Counts, BatchLeft, Settling, [Next]_vars PROVE (Counts /\ BatchLeft)' /\ Settling'
    OBVIOUS
  <2>. QED
    BY StepsCount, StepsSettle
<1>3. Settling => TargetsSettle
  <2> SUFFICES ASSUME Settling, NEW j \in Jobs, Resting(j)
               PROVE  Settled(j) \/ (target[j] = "pending" /\ Buried(j))
    BY DEF TargetsSettle, Settled, Buried
  <2>1. ~ Mourned(j)
    BY DEF Resting, Mourned
  <2>2. plan[j] \notin Unsent
    <3>1. <<>> \notin Unsent
      BY DEF Unsent
    <3>. QED
      BY <3>1 DEF Resting
  <2>3. ~ Carried(j)
    BY <2>2 DEF Resting, Carried
  <2>. QED
    BY <2>1, <2>3 DEF Settling, Cared
<1>. QED
  BY <1>1, <1>2, <1>3, PTL DEF Spec
------------------------------------------------------------------------------
(* What is shown for review can be reviewed.  A coroutine that has saved   *)
(* something, in a batch or on its way to tell so, has inserted a version  *)
(* of its job, and versions stay.                                          *)
Fruitful == {"inserted", "fixed", "confirm", "reviewing"}
Shows == {"none", "queued", "running", "retry", "pending_review", "done", "failed", "dlq"}
HasOne(c) == work[c].saved \/ work[c].pc \in Fruitful => versions[Job(c)] > 0
Supplied ==
  /\ versions \in [Jobs -> Nat] /\ shown \in [Jobs -> Shows] /\ ReviewHasVersion
  /\ \A c \in Coroutines : work[c].pc # "free" => HasOne(c)

LEMMA SuppliedAtFirst == Init => Supplied
BY DEF Init, Supplied, Shows, ReviewHasVersion, Idle

LEMMA StaysSupplied ==
  ASSUME Supplied, NEW c \in Coroutines, \A d \in Coroutines \ {c} : work'[d] = work[d],
         versions' \in [Jobs -> Nat], \A j \in Jobs : versions[j] <= versions'[j],
         \A d \in Coroutines : work[d].pc # "free" => Job(d) \in Jobs,
         NEW j \in Jobs, NEW s \in Shows,
         shown' = shown \/ shown' = [shown EXCEPT ![j] = s],
         s = "pending_review" => versions'[j] > 0,
         work'[c].pc # "free" => HasOne(c)'
  PROVE  Supplied'
<1>1. shown' \in [Jobs -> Shows] /\ ReviewHasVersion'
  BY DEF Supplied, ReviewHasVersion
<1>2. ASSUME NEW d \in Coroutines \ {c}, work'[d].pc # "free" PROVE HasOne(d)'
  <2>1. work'[d] = work[d] /\ Job(d) \in Jobs /\ HasOne(d)
    BY <1>2 DEF Supplied
  <2>. QED
    BY <2>1 DEF HasOne, Job, Supplied
<1>. QED
  BY <1>1, <1>2 DEF Supplied

LEMMA CoroutinesSupply ==
  ASSUME Counts, Supplied, NEW c \in Coroutines, Coroutine(c)
  PROVE  Supplied'
<1>1. \A d \in Coroutines : work[d].pc # "free" => Job(d) \in Jobs
  BY JobsOfMessages
<1>2. CASE Take(c)
  <2>2. /\ work'[c].pc = "waiting" /\ work'[c].saved = FALSE
        /\ \A d \in Coroutines \ {c} : work'[d] = work[d]
    BY <1>2, TakersAre DEF Counts
  <2>3. HasOne(c)' /\ shown' = shown /\ versions' = versions
    BY <1>2, <2>2 DEF Take, HasOne, Fruitful
  <2>4. ASSUME NEW d \in Coroutines \ {c}, work'[d].pc # "free" PROVE HasOne(d)'
    BY <2>2, <2>3, <2>4 DEF HasOne, Job, Supplied
  <2>. QED
    BY <2>3, <2>4 DEF Supplied, ReviewHasVersion
<1>3. CASE ~ Take(c)
  <2>1. work[c].pc # "free"
    BY <1>3 DEF Coroutine, NoteRunning, Load, Fails, NoTarget, LlmFails, TimesOut, Succeeds, Skip,
                DismissOrphan, Generate, Noted, KeepAsserts, TellReview, EmptyBatch, NextBatch,
                CloseBatches, Judge, InsertFix, NoteFix, ConfirmFix, Diagnose, Repair, Assess, Close,
                GivesBack, Requeue, NoteRetry, Bury, NoteDlq, TellDlq, At
  <2>2. Job(c) \in Jobs /\ HasOne(c)
    BY <1>1, <2>1 DEF Supplied
  <2>3. work \in [Coroutines -> [pc : Places, msg : Held, batch : 0..Batches, saved : BOOLEAN]]
    BY DEF Counts, Shape
  <2>4. CASE Skip(c) \/ DismissOrphan(c) \/ TellReview(c) \/ CloseBatches(c) \/ Close(c)
             \/ NoteRetry(c) \/ TellDlq(c)
    <3>1. work' = [work EXCEPT ![c] = Idle] /\ versions' = versions
      BY <2>4 DEF Skip, DismissOrphan, TellReview, CloseBatches, Close, NoteRetry, TellDlq, End
    <3>2. work'[c].pc = "free" /\ \A d \in Coroutines \ {c} : work'[d] = work[d]
      BY <2>3, <3>1 DEF Idle
    <3>3. \E s \in Shows : /\ shown' = shown \/ shown' = [shown EXCEPT ![Job(c)] = s]
                           /\ s = "pending_review" => versions[Job(c)] > 0
      <4>1. CASE CloseBatches(c)
        BY <2>2, <4>1 DEF CloseBatches, Gathered, Show, Shows, HasOne
      <4>2. CASE Close(c)
        BY <2>2, <4>2 DEF Close, Show, Shows, HasOne, Fruitful, At
      <4>3. CASE NoteRetry(c)
        BY <4>3 DEF NoteRetry, Show, Shows
      <4>4. CASE Skip(c) \/ DismissOrphan(c) \/ TellReview(c) \/ TellDlq(c)
        BY <4>4 DEF Skip, DismissOrphan, TellReview, TellDlq, Shows
      <4>. QED
        BY <2>4, <4>1, <4>2, <4>3, <4>4
    <3>. QED
      BY <1>1, <2>2, <3>1, <3>2, <3>3, StaysSupplied DEF Supplied
  <2>5. CASE Generate(c) \/ InsertFix(c) \/ Repair(c)
    <3>1. Insert(Job(c)) /\ shown' = shown /\ \E pc \in {"inserted", "fixed", "reviewing"} : Go(c, pc)
      BY <2>5 DEF Generate, InsertFix, Repair
    <3>2. /\ work'[c].pc # "free" /\ work'[c].msg = work[c].msg
          /\ \A d \in Coroutines \ {c} : work'[d] = work[d]
      BY <3>1, GoesOn
    <3>3. /\ versions' \in [Jobs -> Nat] /\ versions'[Job(c)] > 0
          /\ \A j \in Jobs : versions[j] <= versions'[j]
      BY <2>2, <3>1 DEF Insert, Supplied
    <3>4. HasOne(c)'
      BY <3>2, <3>3 DEF HasOne, Job
    <3>. QED
      BY <1>1, <2>2, <3>1, <3>2, <3>3, <3>4, StaysSupplied DEF Shows
  <2>6. CASE NoteRunning(c) \/ NoteFix(c) \/ NoteDlq(c) \/ Noted(c)
    <3>1. \E s \in Shows : /\ shown' = [shown EXCEPT ![Job(c)] = s]
                           /\ s = "pending_review" => versions[Job(c)] > 0
      BY <2>2, <2>6 DEF NoteRunning, NoteFix, NoteDlq, Noted, Show, Shows, HasOne, Fruitful, At
    <3>2. versions' = versions /\ \A d \in Coroutines \ {c} : work'[d] = work[d]
      BY <2>3, <2>6 DEF NoteRunning, NoteFix, NoteDlq, Noted, Go, End
    <3>3. work'[c].pc # "free" => HasOne(c)'
      <4>1. CASE Noted(c)
        <5>1. versions[Job(c)] > 0
          BY <2>2, <4>1 DEF Noted, HasOne, Fruitful, At
        <5>2. work'[c].pc = "free" \/ work'[c].msg = work[c].msg
          BY <2>3, <4>1 DEF Noted, Go, End, Idle
        <5>. QED
          BY <3>2, <5>1, <5>2 DEF HasOne, Job
      <4>2. CASE NoteRunning(c) \/ NoteFix(c) \/ NoteDlq(c)
        <5>1. /\ work'[c].msg = work[c].msg /\ work'[c].saved = work[c].saved
              /\ work'[c].pc \in Fruitful => work[c].pc \in Fruitful
          BY <2>3, <4>2 DEF NoteRunning, NoteFix, NoteDlq, Go, At, Fruitful
        <5>. QED
          BY <2>2, <3>2, <5>1 DEF HasOne, Job
      <4>. QED
        BY <2>6, <4>1, <4>2
    <3>4. versions' \in [Jobs -> Nat] /\ \A j \in Jobs : versions[j] <= versions'[j]
      BY <3>2 DEF Supplied
    <3>. QED
      BY <1>1, <2>2, <3>1, <3>2, <3>3, <3>4, StaysSupplied
  <2>7. CASE Load(c) \/ Fails(c) \/ KeepAsserts(c) \/ EmptyBatch(c) \/ NextBatch(c) \/ Judge(c)
             \/ ConfirmFix(c) \/ Diagnose(c) \/ Assess(c) \/ Requeue(c) \/ Bury(c)
    <3>1. shown' = shown /\ versions' = versions
      BY <2>7 DEF Load, Fails, NoTarget, LlmFails, TimesOut, KeepAsserts, EmptyBatch, NextBatch, Judge,
                  ConfirmFix, Diagnose, Assess, Requeue, Bury
    <3>2. /\ work'[c].msg.job = work[c].msg.job /\ work'[c].saved = work[c].saved
          /\ work'[c].pc \in Fruitful => work[c].pc \in Fruitful
          /\ \A d \in Coroutines \ {c} : work'[d] = work[d]
      <4>1. CASE Fails(c)
        <5>1. \E cause : Blame(c, cause)
          BY <4>1 DEF Fails, NoTarget, LlmFails, TimesOut
        <5>2. work[c].msg \in Messages
          BY <2>1 DEF Counts, Shape
        <5>. QED
          BY <2>3, <5>1, <5>2 DEF Blame, Fruitful, Messages
      <4>2. CASE EmptyBatch(c)
        BY <4>2, EmptyBatchesAre DEF Counts, Fruitful
      <4>3. CASE Load(c) \/ KeepAsserts(c) \/ NextBatch(c) \/ Judge(c) \/ ConfirmFix(c)
                 \/ Diagnose(c) \/ Assess(c) \/ Requeue(c) \/ Bury(c)
        <5>1. \E pc \in Places : Go(c, pc) /\ (pc \in Fruitful => work[c].pc \in Fruitful)
          BY <4>3 DEF Load, KeepAsserts, NextBatch, Judge, ConfirmFix, Diagnose, Assess, Requeue, Bury,
                      Fruitful, Places, At
        <5>. QED
          BY <2>3, <5>1 DEF Go
      <4>. QED
        BY <2>7, <4>1, <4>2, <4>3
    <3>3. HasOne(c)'
      BY <2>2, <3>1, <3>2 DEF HasOne, Job
    <3>. QED
      BY <1>1, <2>2, <3>1, <3>2, <3>3, StaysSupplied DEF Supplied, Shows
  <2>. QED
    BY <1>3, <2>4, <2>5, <2>6, <2>7 DEF Coroutine, Succeeds, GivesBack
<1>. QED
  BY <1>2, <1>3

(* Nobody shows a job as waiting for review that has no version to show,   *)
(* however its tries, its batches and its timeouts went.                   *)
THEOREM WhatIsShownIsThere == Spec => []ReviewHasVersion
<1>1. (Counts /\ BatchLeft) /\ Supplied /\ [Next]_vars => (Counts /\ BatchLeft)' /\ Supplied'
  <2> SUFFICES ASSUME Counts, BatchLeft, Supplied, [Next]_vars PROVE Supplied'
    BY StepsCount
  <2>1. ASSUME NEW c \in Coroutines, Coroutine(c) PROVE Supplied'
    BY <2>1, CoroutinesSupply
  <2>2. ASSUME NEW j \in Jobs, Note(j) PROVE Supplied'
    <3>1. shown' = [shown EXCEPT ![j] = "queued"] /\ versions' = versions /\ work' = work
      BY <2>2 DEF Note, Show
    <3>. QED
      BY <3>1 DEF Supplied, Shows, ReviewHasVersion, HasOne, Job
  <2>3. CASE UNCHANGED <<work, shown, versions>>
    BY <2>3 DEF Supplied, ReviewHasVersion, HasOne, Job
  <2>4. ASSUME NEW j \in Jobs, Push(j) \/ Announce(j) \/ Users(j) PROVE UNCHANGED <<work, shown, versions>>
    BY <2>4 DEF Push, Announce, Users, Delete, Resolve, Accept
  <2>. QED
    BY <2>1, <2>2, <2>3, <2>4 DEF Next, Sender, vars
<1>2. Supplied => ReviewHasVersion
  BY DEF Supplied
<1>. QED
  BY <1>1, <1>2, CountsAtFirst, SuppliedAtFirst, PTL DEF Spec
------------------------------------------------------------------------------
(* The shutdown, for every number of loops, every order of shutdown and   *)
(* every number of messages.                                              *)

OnItsWay(w) == IF loop[w] = "answered" THEN 1 ELSE 0

(* No message is counted twice: it is in Redis, on its way, in a handler   *)
(* or lost.                                                                *)
Accounted == \A w \in Loops : inRedis[w] + OnItsWay(w) + handlers[w] + lost[w] <= PerQueue

(* A task ends only after its loop, and shutdown() passes a group only     *)
(* when its tasks have ended.                                              *)
TaskOutlivesLoop == \A w \in Loops : Ended(w) => loop[w] = "ended"
PassedGroupsEnded == \A i \in 1..Len(Groups) : i < stopping => \A w \in Groups[i] : Ended(w)

ShutdownInv == ShutdownTypeOK /\ Accounted /\ LossBounded /\ TaskOutlivesLoop /\ PassedGroupsEnded
------------------------------------------------------------------------------
LEMMA GroupsAreLoops == ASSUME NEW i \in 1..Len(Groups) PROVE Groups[i] \subseteq Loops
BY ShutdownAssumption

LEMMA EveryLoopInAGroup == \A w \in Loops : \E i \in 1..Len(Groups) : w \in Groups[i]
BY ShutdownAssumption DEF Loops, ToSet

LEMMA Initially == ShutdownInit => ShutdownInv
BY ShutdownAssumption DEF ShutdownInit, ShutdownInv, ShutdownTypeOK, Accounted, OnItsWay, LossBounded, TaskOutlivesLoop,
   PassedGroupsEnded, Ended

(* A step of one loop leaves shutdown() where it is, the other loops alone *)
(* and every task that ended ended.                                        *)
LEMMA LoopStep ==
  ASSUME ShutdownInv, NEW w \in Loops,
         Answer(w) \/ BlpopFails(w) \/ HandlerEnds(w) \/ Turn(w)
  PROVE  ShutdownInv'
<1> USE ShutdownAssumption DEF ShutdownTypeOK, Accounted, OnItsWay, LossBounded, TaskOutlivesLoop, Ended
<1>. /\ ShutdownTypeOK /\ Accounted /\ LossBounded /\ TaskOutlivesLoop /\ PassedGroupsEnded
  BY DEF ShutdownInv
<1>1. CASE Answer(w)
  <2>1. ShutdownTypeOK' /\ Accounted' /\ LossBounded' /\ TaskOutlivesLoop'
    BY SMTT(30), <1>1 DEF Answer
  <2>. QED
    BY <1>1, <2>1 DEF Answer, ShutdownInv, PassedGroupsEnded
<1>2. CASE Receive(w)
  <2>0. handlers[w] + 1 \in 0..PerQueue
    BY <1>2 DEF Receive
  <2>1. ShutdownTypeOK' /\ LossBounded' /\ TaskOutlivesLoop'
    BY <1>2, <2>0 DEF Receive
  <2>2. Accounted'
    BY SMTT(30), <1>2 DEF Receive
  <2>. QED
    BY <1>2, <2>1, <2>2 DEF Receive, ShutdownInv, PassedGroupsEnded
<1>3. CASE BlpopFails(w)
  <2>1. ShutdownTypeOK' /\ Accounted' /\ LossBounded' /\ TaskOutlivesLoop'
    BY <1>3 DEF BlpopFails
  <2>. QED
    BY <1>3, <2>1 DEF BlpopFails, ShutdownInv, PassedGroupsEnded
<1>4. CASE Wake(w)
  <2>1. ShutdownTypeOK' /\ Accounted' /\ LossBounded' /\ TaskOutlivesLoop'
    BY <1>4 DEF Wake
  <2>. QED
    BY <1>4, <2>1 DEF Wake, ShutdownInv, PassedGroupsEnded
<1>5. CASE HandlerEnds(w)
  <2>0. handlers[w] - 1 \in 0..PerQueue
    BY <1>5 DEF HandlerEnds
  <2>1. ShutdownTypeOK' /\ LossBounded' /\ TaskOutlivesLoop'
    BY SMTT(30), <1>5, <2>0 DEF HandlerEnds
  <2>2. Accounted'
    BY SMTT(30), <1>5 DEF HandlerEnds
  <2>. QED
    BY <1>5, <2>1, <2>2 DEF HandlerEnds, ShutdownInv, PassedGroupsEnded
<1>6. CASE CancelBlpop(w)
  <2>0. loop[w] = "answered" => lost[w] + 1 \in 0..PerQueue
    OBVIOUS
  <2>1. ShutdownTypeOK' /\ TaskOutlivesLoop'
    BY SMTT(30), <1>6, <2>0 DEF CancelBlpop
  <2>2. Accounted'
    BY SMTT(30), <1>6 DEF CancelBlpop
  <2>3. LossBounded'
    BY <1>6 DEF CancelBlpop
  <2>4. \A v \in Loops : Ended(v) => Ended(v)'
    BY <1>6 DEF CancelBlpop
  <2>. QED
    BY <1>6, <2>1, <2>2, <2>3, <2>4, GroupsAreLoops DEF CancelBlpop, ShutdownInv, PassedGroupsEnded
<1>7. CASE CancelSleep(w)
  <2>1. ShutdownTypeOK' /\ Accounted' /\ LossBounded' /\ TaskOutlivesLoop'
    BY <1>7 DEF CancelSleep
  <2>2. \A v \in Loops : Ended(v) => Ended(v)'
    BY <1>7 DEF CancelSleep
  <2>. QED
    BY <1>7, <2>1, <2>2, GroupsAreLoops DEF CancelSleep, ShutdownInv, PassedGroupsEnded
<1>8. CASE Reawait(w) \/ CannotReuse(w)
  <2>1. ShutdownTypeOK' /\ Accounted' /\ LossBounded' /\ TaskOutlivesLoop'
    BY <1>8 DEF Reawait, CannotReuse
  <2>2. \A v \in Loops : Ended(v) => Ended(v)'
    BY <1>8 DEF Reawait, CannotReuse
  <2>. QED
    BY <1>8, <2>1, <2>2, GroupsAreLoops DEF Reawait, CannotReuse, ShutdownInv, PassedGroupsEnded
<1>. QED
  BY <1>1, <1>2, <1>3, <1>4, <1>5, <1>6, <1>7, <1>8 DEF Turn

LEMMA AdvanceStep == ASSUME ShutdownInv, Advance PROVE ShutdownInv'
<1>1. ShutdownTypeOK'
  <2>1. told' \subseteq Loops
    <3>1. CASE stopping < Len(Groups)
      <4>1. Groups[stopping + 1] \subseteq Loops
        BY <3>1, GroupsAreLoops, ShutdownAssumption DEF ShutdownInv, ShutdownTypeOK
      <4>. QED
        BY <3>1, <4>1 DEF Advance, ShutdownInv, ShutdownTypeOK
    <3>. QED
      BY <3>1 DEF Advance, ShutdownInv, ShutdownTypeOK
  <2>. QED
    BY <2>1, ShutdownAssumption DEF Advance, Closed, ShutdownInv, ShutdownTypeOK
<1>2. PassedGroupsEnded'
  <2> SUFFICES ASSUME NEW i \in 1..Len(Groups), i < stopping', NEW w \in Groups[i] PROVE Ended(w)'
    BY DEF PassedGroupsEnded
  <2>1. i < stopping \/ i = stopping
    BY ShutdownAssumption DEF Advance, ShutdownInv, ShutdownTypeOK
  <2>2. Ended(w)
    BY <2>1 DEF Advance, Waited, Awaited, ShutdownInv, PassedGroupsEnded
  <2>. QED
    BY <2>2 DEF Advance, Ended
<1>. QED
  BY <1>1, <1>2 DEF Advance, ShutdownInv, Accounted, OnItsWay, LossBounded, TaskOutlivesLoop, Ended

(* The loops are stopped in their groups, none loses more than it held.     *)
LEMMA ShutdownInvariant == ShutdownSpec => []ShutdownInv
<1>1. ShutdownInv /\ [ShutdownNext]_shutdownVars => ShutdownInv'
  <2>1. ASSUME ShutdownInv, UNCHANGED shutdownVars PROVE ShutdownInv'
    BY <2>1 DEF shutdownVars, ShutdownInv, ShutdownTypeOK, Accounted, OnItsWay, LossBounded, TaskOutlivesLoop,
       PassedGroupsEnded, Ended
  <2>. QED
    BY <2>1, LoopStep, AdvanceStep DEF ShutdownNext
<1>. QED
  BY <1>1, Initially, PTL DEF ShutdownSpec

(* Every variable has its type: no queue is overdrawn, nothing is handled  *)
(* or lost twice.                                                          *)
THEOREM ShutdownTypeCorrect == ShutdownSpec => []ShutdownTypeOK
<1>1. ShutdownInv => ShutdownTypeOK
  BY DEF ShutdownInv
<1>. QED
  BY <1>1, ShutdownInvariant, PTL

(* A shutdown costs a queue one message at most.                           *)
THEOREM AtMostOneIsLost == ShutdownSpec => []LossBounded
<1>1. ShutdownInv => LossBounded
  BY DEF ShutdownInv
<1>. QED
  BY <1>1, ShutdownInvariant, PTL

(* When the connections are closed no loop is left that would use them.    *)
THEOREM NoLoopIsLeft == ShutdownSpec => []ClosedUnderNoLoop
<1>1. ShutdownInv => ClosedUnderNoLoop
  <2> SUFFICES ASSUME ShutdownInv, Closed, NEW w \in Loops PROVE loop[w] = "ended" /\ super[w] = "ended"
    BY DEF ClosedUnderNoLoop
  <2>1. PICK i \in 1..Len(Groups) : w \in Groups[i]
    BY EveryLoopInAGroup
  <2>2. Ended(w)
    BY <2>1, ShutdownAssumption DEF ShutdownInv, PassedGroupsEnded, Closed
  <2>. QED
    BY <2>2 DEF ShutdownInv, TaskOutlivesLoop, Ended
<1>. QED
  BY <1>1, ShutdownInvariant, PTL
==============================================================================
