---------------------------- MODULE JobQueue_proofs ----------------------------
(***************************************************************************)
(* The analysis queue, for any jobs, APIs, sources, coroutines, semaphore  *)
(* and MAX_RETRY: it keeps the promise of JobLife, step by step, and what  *)
(* it shows of jobs and APIs is true.                                      *)
(*                                                                         *)
(* Everything rests on custody: a job's message is in one place, in the    *)
(* queue, in the dead letters or with one coroutine, its fail_count tells  *)
(* how often it was taken up, and before the push there is no message.     *)
(***************************************************************************)
EXTENDS JobQueue, FiniteSetTheorems, TLAPS

JobMsg == [job : Jobs, fails : 0..MaxRetry, force : BOOLEAN]
Pcs == {"free", "waiting", "ready", "running", "calling", "saved", "failing", "requeued", "buried",
        "noted"}
Plans == {<<"check", "announce", "push", "note">>, <<"announce", "push", "note">>, <<"push", "note">>,
          <<"note">>, <<"note", "push">>, <<"push">>, <<>>}
HarPlans == {<<"note", "push">>, <<"push">>, <<>>}
Unpushed(j) == plan[j] \notin {<<>>, <<"note">>}

Planning ==
  /\ plan \in [Jobs -> Plans]
  /\ \A j \in Jobs : SourceOf[j] = "har" => plan[j] \in HarPlans
  /\ \A j \in Jobs : SourceOf[j] # "har" => plan[j] \notin {<<"note", "push">>, <<"push">>}
Typed ==
  /\ Planning
  /\ queue \in Seq(JobMsg) /\ dlq \in Seq(JobMsg)
  /\ work \in [Coroutines -> [pc : Pcs, msg : Msg]]
  /\ \A c \in Coroutines : work[c].pc # "free" => work[c].msg \in JobMsg
  /\ jobStatus \in [Jobs -> {"none", "queued", "running", "retry", "pending_review", "dlq"}]
  /\ apiStatus \in [Apis -> {"idle", "queued", "running", "pending_review", "applied", "failed"}]
  /\ pending \subseteq Jobs \X (0..MaxRetry)
  /\ over \in [Jobs -> {"no", "done", "lost"}]
  /\ tries \in [Jobs -> Nat] /\ limited \in [Jobs -> 0..MaxLimited]
  /\ crashes \in 0..MaxCrashes

(* One message of a job at most, and none before its push. *)
Distinct(s) == \A i, k \in DOMAIN s : s[i].job = s[k].job => i = k
OneHolder == \A c, d \in Coroutines : Holding(c) /\ Holding(d) /\ Job(c) = Job(d) => c = d
Apart ==
  \A j \in Jobs :
    /\ j \in Queued => j \notin Dead /\ j \notin Held /\ over[j] = "no"
    /\ j \in Dead => j \notin Held /\ over[j] = "no"
    /\ j \in Held => over[j] = "no"
    /\ Unpushed(j) => j \notin Queued /\ j \notin Dead /\ over[j] = "no"
Unknown == \A j \in Jobs, c \in Coroutines : Unpushed(j) /\ work[c].pc # "free" => Job(c) # j
Tally ==
  /\ \A m \in ToSet(queue) : tries[m.job] = m.fails /\ m.fails < MaxRetry
  /\ \A m \in ToSet(dlq) : tries[m.job] = MaxRetry /\ m.fails = MaxRetry
  /\ \A c \in Coroutines :
       Holding(c) => tries[Job(c)] = work[c].msg.fails + 1 /\ work[c].msg.fails < MaxRetry
  /\ \A j \in Jobs : over[j] = "no" /\ j \notin Queued \cup Dead \cup Held => tries[j] = 0
Custody == Distinct(queue) /\ Distinct(dlq) /\ OneHolder /\ Apart /\ Unknown /\ Tally
------------------------------------------------------------------------------
(* Sequences of messages, at their two ends. *)
JobsIn(s) == {s[i].job : i \in DOMAIN s}

LEMMA AppendedMessage ==
  \A s \in Seq(JobMsg), m \in JobMsg :
    /\ Append(s, m) \in Seq(JobMsg)
    /\ JobsIn(Append(s, m)) = JobsIn(s) \cup {m.job}
    /\ ToSet(Append(s, m)) = ToSet(s) \cup {m}
    /\ Distinct(s) /\ m.job \notin JobsIn(s) => Distinct(Append(s, m))
<1> SUFFICES ASSUME NEW s \in Seq(JobMsg), NEW m \in JobMsg
             PROVE  /\ Append(s, m) \in Seq(JobMsg)
                    /\ JobsIn(Append(s, m)) = JobsIn(s) \cup {m.job}
                    /\ ToSet(Append(s, m)) = ToSet(s) \cup {m}
                    /\ Distinct(s) /\ m.job \notin JobsIn(s) => Distinct(Append(s, m))
  OBVIOUS
<1> DEFINE t == Append(s, m)
<1>1. /\ t \in Seq(JobMsg) /\ DOMAIN t = DOMAIN s \cup {Len(s) + 1} /\ Len(s) + 1 \notin DOMAIN s
      /\ t[Len(s) + 1] = m /\ \A i \in DOMAIN s : t[i] = s[i]
  OBVIOUS
<1>. HIDE DEF t
<1>2. JobsIn(t) = JobsIn(s) \cup {m.job}
  BY <1>1 DEF JobsIn
<1>3. ToSet(t) = ToSet(s) \cup {m}
  BY <1>1 DEF ToSet
<1>4. Distinct(s) /\ m.job \notin JobsIn(s) => Distinct(t)
  BY <1>1 DEF Distinct, JobsIn
<1>. QED
  BY <1>1, <1>2, <1>3, <1>4 DEF t

LEMMA TakenMessage ==
  \A s \in Seq(JobMsg) : s # <<>> =>
    /\ Tail(s) \in Seq(JobMsg) /\ Head(s) \in ToSet(s) /\ Head(s) \in JobMsg
    /\ ToSet(Tail(s)) \subseteq ToSet(s)
    /\ Distinct(s) => Distinct(Tail(s)) /\ JobsIn(Tail(s)) = JobsIn(s) \ {Head(s).job}
<1> SUFFICES ASSUME NEW s \in Seq(JobMsg), s # <<>>
             PROVE  /\ Tail(s) \in Seq(JobMsg) /\ Head(s) \in ToSet(s) /\ Head(s) \in JobMsg
                    /\ ToSet(Tail(s)) \subseteq ToSet(s)
                    /\ Distinct(s) => Distinct(Tail(s)) /\ JobsIn(Tail(s)) = JobsIn(s) \ {Head(s).job}
  OBVIOUS
<1> DEFINE t == Tail(s)
<1>1. /\ t \in Seq(JobMsg) /\ Head(s) = s[1] /\ 1 \in DOMAIN s /\ s[1] \in JobMsg
      /\ \A i \in DOMAIN t : i + 1 \in DOMAIN s /\ i + 1 # 1 /\ t[i] = s[i + 1] /\ i \in Nat
      /\ \A i \in DOMAIN s : i # 1 => i - 1 \in DOMAIN t /\ t[i - 1] = s[i]
  OBVIOUS
<1>. HIDE DEF t
<1>2. Head(s) \in ToSet(s) /\ ToSet(t) \subseteq ToSet(s)
  BY <1>1 DEF ToSet
<1>3. ASSUME Distinct(s) PROVE Distinct(t)
  <2> SUFFICES ASSUME NEW i \in DOMAIN t, NEW k \in DOMAIN t, t[i].job = t[k].job PROVE i = k
    BY DEF Distinct
  <2>1. i \in Nat /\ k \in Nat /\ s[i + 1].job = s[k + 1].job
    BY <1>1
  <2>2. i + 1 = k + 1
    BY <1>1, <1>3, <2>1 DEF Distinct
  <2>. QED
    BY <2>1, <2>2
<1>4. ASSUME Distinct(s) PROVE JobsIn(t) = JobsIn(s) \ {Head(s).job}
  BY <1>1, <1>4 DEF Distinct, JobsIn
<1>. QED
  BY <1>1, <1>2, <1>3, <1>4 DEF t

LEMMA MessagesOfJobs == \A s \in Seq(JobMsg) : \A m \in ToSet(s) : m \in JobMsg /\ m.job \in Jobs
<1>1. ASSUME NEW s \in Seq(JobMsg), NEW i \in DOMAIN s PROVE s[i] \in JobMsg
  OBVIOUS
<1>. QED
  BY <1>1 DEF ToSet, JobMsg
LEMMA QueuedAndDead ==
  /\ Queued = JobsIn(queue) /\ Dead = JobsIn(dlq)
  /\ Queued = {m.job : m \in ToSet(queue)} /\ Dead = {m.job : m \in ToSet(dlq)}
BY DEF Queued, Dead, JobsIn, ToSet

(* The plan of a handler only gets shorter. *)
LEMMA PlanTails ==
  /\ Tail(<<"check", "announce", "push", "note">>) = <<"announce", "push", "note">>
  /\ Tail(<<"announce", "push", "note">>) = <<"push", "note">>
  /\ Tail(<<"push", "note">>) = <<"note">>
  /\ Tail(<<"note">>) = <<>>
  /\ Tail(<<"note", "push">>) = <<"push">>
  /\ Tail(<<"push">>) = <<>>
<1>1. Tail(<<"check", "announce", "push", "note">>) = <<"announce", "push", "note">>
  OBVIOUS
<1>2. Tail(<<"announce", "push", "note">>) = <<"push", "note">>
  OBVIOUS
<1>3. Tail(<<"push", "note">>) = <<"note">>
  OBVIOUS
<1>4. Tail(<<"note">>) = <<>>
  OBVIOUS
<1>5. Tail(<<"note", "push">>) = <<"push">>
  OBVIOUS
<1>6. Tail(<<"push">>) = <<>>
  OBVIOUS
<1>. QED
  BY <1>1, <1>2, <1>3, <1>4, <1>5, <1>6
LEMMA PlanHeads ==
  /\ Head(<<"check", "announce", "push", "note">>) = "check"
  /\ Head(<<"announce", "push", "note">>) = "announce"
  /\ Head(<<"push", "note">>) = "push"
  /\ Head(<<"note">>) = "note" /\ Head(<<"note", "push">>) = "note" /\ Head(<<"push">>) = "push"
OBVIOUS
LEMMA PlanSteps ==
  \A p \in Plans : p # <<>> =>
    /\ Tail(p) \in Plans
    /\ Head(p) = "push" => p \in {<<"push", "note">>, <<"push">>} /\ Tail(p) \in {<<"note">>, <<>>}
    /\ Head(p) = "announce" => p = <<"announce", "push", "note">> /\ Tail(p) = <<"push", "note">>
    /\ Head(p) = "note" => p \in {<<"note">>, <<"note", "push">>}
    /\ p \in {<<"note">>, <<"push">>} => Tail(p) = <<>>
    /\ p \in HarPlans => Tail(p) \in HarPlans
    /\ Tail(p) \in {<<"note", "push">>, <<"push">>} => p = <<"note", "push">>
    /\ Tail(p) = <<"push", "note">> => p = <<"announce", "push", "note">>
    /\ Tail(p) \in {<<"check", "announce", "push", "note">>, <<"announce", "push", "note">>} =>
         p = <<"check", "announce", "push", "note">>
<1> SUFFICES ASSUME NEW p \in Plans, p # <<>>
             PROVE  /\ Tail(p) \in Plans
                    /\ Head(p) = "push" => /\ p \in {<<"push", "note">>, <<"push">>}
                                           /\ Tail(p) \in {<<"note">>, <<>>}
                    /\ Head(p) = "announce" => /\ p = <<"announce", "push", "note">>
                                               /\ Tail(p) = <<"push", "note">>
                    /\ Head(p) = "note" => p \in {<<"note">>, <<"note", "push">>}
                    /\ p \in {<<"note">>, <<"push">>} => Tail(p) = <<>>
                    /\ p \in HarPlans => Tail(p) \in HarPlans
                    /\ Tail(p) \in {<<"note", "push">>, <<"push">>} => p = <<"note", "push">>
                    /\ Tail(p) = <<"push", "note">> => p = <<"announce", "push", "note">>
                    /\ Tail(p) \in {<<"check", "announce", "push", "note">>, <<"announce", "push", "note">>} =>
                         p = <<"check", "announce", "push", "note">>
  OBVIOUS
<1> USE PlanTails, PlanHeads DEF Plans, HarPlans
<1>1. CASE p = <<"check", "announce", "push", "note">>
  BY <1>1
<1>2. CASE p = <<"announce", "push", "note">>
  BY <1>2
<1>3. CASE p = <<"push", "note">>
  BY <1>3
<1>4. CASE p = <<"note">>
  BY <1>4
<1>5. CASE p = <<"note", "push">>
  BY <1>5
<1>6. CASE p = <<"push">>
  BY <1>6
<1>. QED
  BY <1>1, <1>2, <1>3, <1>4, <1>5, <1>6
------------------------------------------------------------------------------
LEMMA InitHolds == Init => Typed /\ Custody
<1> SUFFICES ASSUME Init PROVE Typed /\ Custody
  OBVIOUS
<1>1. Planning
  <2>1. ASSUME NEW j \in Jobs
        PROVE  /\ plan[j] \in Plans /\ (SourceOf[j] = "har" => plan[j] \in HarPlans)
               /\ SourceOf[j] # "har" => plan[j] \notin {<<"note", "push">>, <<"push">>}
    <3>1. SourceOf[j] \in {"service", "capture", "har"}
      BY QueueAssumption
    <3>2. CASE SourceOf[j] = "service"
      BY <3>2 DEF Init, PlanOf, Plans, HarPlans
    <3>3. CASE SourceOf[j] = "capture"
      BY <3>3 DEF Init, PlanOf, Plans, HarPlans
    <3>4. CASE SourceOf[j] = "har"
      BY <3>4 DEF Init, PlanOf, Plans, HarPlans
    <3>. QED
      BY <3>1, <3>2, <3>3, <3>4
  <2>. QED
    BY <2>1 DEF Planning, Init
<1>2. work \in [Coroutines -> [pc : Pcs, msg : Msg]] /\ \A c \in Coroutines : work[c].pc = "free"
  <2>1. NoMessage \in Msg
    BY MaxRetryAssumption DEF NoMessage, Msg
  <2>. QED
    BY <2>1 DEF Init, Idle, Pcs
<1>3. Typed
  BY <1>1, <1>2, MaxRetryAssumption, QueueAssumption DEF Init, Typed
<1>4. Queued = {} /\ Dead = {} /\ Held = {} /\ ToSet(queue) = {} /\ ToSet(dlq) = {}
  BY <1>2 DEF Init, Queued, Dead, Held, Holding, ToSet
<1>5. Custody
  BY <1>2, <1>4 DEF Init, Custody, Distinct, OneHolder, Holding, Apart, Unknown, Tally
<1>. QED
  BY <1>3, <1>5

(* A step that moves no message keeps custody. *)
Unmoved ==
  /\ UNCHANGED <<queue, dlq, over, tries>>
  /\ \A c \in Coroutines : /\ Holding(c)' <=> Holding(c)
                           /\ work'[c].pc # "free" => work[c].pc # "free" /\ work'[c].msg = work[c].msg
  /\ \A j \in Jobs : Unpushed(j)' => Unpushed(j)
LEMMA UnmovedKeepsCustody ==
  ASSUME Typed, Custody, Unmoved
  PROVE  Custody' /\ Held' = Held /\ Queued' = Queued /\ Dead' = Dead
<1>1. \A c \in Coroutines : Holding(c)' => work'[c].msg = work[c].msg /\ Job(c)' = Job(c)
  BY DEF Unmoved, Holding, Job
<1>2. Held' = Held
  BY <1>1 DEF Unmoved, Held
<1>3. Queued' = Queued /\ Dead' = Dead /\ ToSet(queue)' = ToSet(queue) /\ ToSet(dlq)' = ToSet(dlq)
  BY DEF Unmoved, Queued, Dead, ToSet
<1>4. OneHolder' /\ Distinct(queue)' /\ Distinct(dlq)'
  BY <1>1 DEF Custody, OneHolder, Unmoved, Distinct
<1>5. Apart'
  BY <1>2, <1>3 DEF Custody, Apart, Unmoved
<1>6. Unknown'
  BY DEF Custody, Unknown, Unmoved, Job
<1>7. Tally'
  BY <1>1, <1>2, <1>3 DEF Custody, Tally, Unmoved
<1>. QED
  BY <1>2, <1>3, <1>4, <1>5, <1>6, <1>7 DEF Custody

(* The job in JobLife's eyes: its place, and its failed tries. *)
LEMMA PlaceFollows ==
  ASSUME Custody, NEW j \in Jobs
  PROVE  PlaceOf(j) = IF over[j] # "no" THEN over[j] ELSE IF j \in Held THEN "held"
                      ELSE IF j \in Queued THEN "waiting" ELSE IF j \in Dead THEN "dead" ELSE "new"
BY DEF PlaceOf, Custody, Apart
LEMMA FailsFollow ==
  ASSUME Typed, Custody, NEW j \in Jobs
  PROVE  FailsOf(j) = IF over[j] # "no" \/ j \in Held THEN tries[j] - 1 ELSE tries[j]
<1>1. CASE over[j] # "no"
  <2>1. j \notin Queued /\ j \notin Dead /\ j \notin Held
    BY <1>1 DEF Custody, Apart
  <2>2. ~ \E m \in Messages : m.job = j
    BY <2>1, QueuedAndDead DEF Messages, Held, Job
  <2>. QED
    BY <1>1, <2>2 DEF FailsOf
<1>2. CASE over[j] = "no" /\ \E m \in Messages : m.job = j
  <2>1. PICK m \in Messages : m.job = j /\ FailsOf(j) = m.fails
    BY <1>2 DEF FailsOf
  <2>2. CASE m \in ToSet(queue)
    <3>1. j \in Queued
      BY <2>1, <2>2, QueuedAndDead
    <3>. QED
      BY <1>2, <2>1, <2>2, <3>1 DEF Custody, Tally, Apart
  <2>3. CASE m \in ToSet(dlq)
    <3>1. j \in Dead
      BY <2>1, <2>3, QueuedAndDead
    <3>. QED
      BY <1>2, <2>1, <2>3, <3>1 DEF Custody, Tally, Apart
  <2>4. ASSUME NEW c \in Coroutines, Holding(c), m = work[c].msg
        PROVE  j \in Held /\ tries[j] - 1 = m.fails
    <3>1. m \in JobMsg /\ Job(c) = j
      BY <2>1, <2>4 DEF Typed, Holding, Job
    <3>2. tries[j] = m.fails + 1 /\ m.fails \in Nat
      BY <2>4, <3>1, MaxRetryAssumption DEF Custody, Tally, JobMsg
    <3>. QED
      BY <2>4, <3>1, <3>2 DEF Held
  <2>. QED
    BY <1>2, <2>1, <2>2, <2>3, <2>4 DEF Messages
<1>3. CASE over[j] = "no" /\ ~ \E m \in Messages : m.job = j
  <2>1. j \notin Queued /\ j \notin Dead
    BY <1>3, QueuedAndDead DEF Messages
  <2>2. j \notin Held
    BY <1>3 DEF Held, Messages, Job
  <2>3. FailsOf(j) = 0
    BY <1>3 DEF FailsOf
  <2>. QED
    BY <1>3, <2>1, <2>2, <2>3 DEF Custody, Tally
<1>. QED
  BY <1>1, <1>2, <1>3
------------------------------------------------------------------------------
(* Steps that move a message. *)
LEMMA PushKeepsCustody ==
  ASSUME Typed, Custody, NEW j \in Jobs, Push(j)
  PROVE  /\ Custody' /\ j \notin Queued \cup Held \cup Dead /\ over[j] = "no"
         /\ Queued' = Queued \cup {j} /\ Held' = Held /\ Dead' = Dead /\ UNCHANGED <<over, tries>>
<1> DEFINE m == Message(j, 0, j \in Forced)
<1>1. /\ queue' = Append(queue, m) /\ UNCHANGED <<dlq, work, over, tries>>
      /\ plan[j] # <<>> /\ Head(plan[j]) = "push" /\ plan' = [plan EXCEPT ![j] = Tail(@)]
  BY DEF Push, Planned, Proceed, history
<1>2. m \in JobMsg /\ m.job = j /\ m.fails = 0
  BY MaxRetryAssumption DEF Message, JobMsg
<1>3. /\ plan[j] \in {<<"push", "note">>, <<"push">>} /\ Tail(plan[j]) \in {<<"note">>, <<>>}
      /\ \A k \in Jobs \ {j} : plan'[k] = plan[k]
      /\ plan'[j] \in {<<"note">>, <<>>}
  BY <1>1, PlanSteps DEF Typed, Planning
<1>4. Unpushed(j) /\ ~ Unpushed(j)' /\ \A k \in Jobs \ {j} : Unpushed(k)' = Unpushed(k)
  <2>1. <<"push", "note">> \notin {<<>>, <<"note">>} /\ <<"push">> \notin {<<>>, <<"note">>}
    OBVIOUS
  <2>. QED
    BY <1>3, <2>1 DEF Unpushed
<1>5. j \notin Queued \cup Dead /\ over[j] = "no" /\ \A c \in Coroutines : work[c].pc # "free" => Job(c) # j
  BY <1>4 DEF Custody, Apart, Unknown
<1>6. j \notin Held
  BY <1>5 DEF Held, Holding
<1>7. Held' = Held /\ Dead' = Dead
  BY <1>1 DEF Held, Holding, Job, Dead
<1>. HIDE DEF m
<1>8. Queued' = Queued \cup {j} /\ ToSet(queue)' = ToSet(queue) \cup {m} /\ Distinct(queue)'
  <2>1. queue \in Seq(JobMsg) /\ Queued = JobsIn(queue) /\ Queued' = JobsIn(queue')
    BY QueuedAndDead DEF Typed, Queued, JobsIn
  <2>. QED
    BY <1>1, <1>2, <1>5, <2>1, AppendedMessage DEF Custody
<1>9. OneHolder' /\ Distinct(dlq)' /\ Unknown'
  BY <1>1, <1>4 DEF Custody, OneHolder, Holding, Job, Distinct, Unknown
<1>10. Apart'
  BY <1>1, <1>4, <1>5, <1>6, <1>7, <1>8 DEF Custody, Apart
<1>11. Tally'
  <2>1. tries[j] = 0
    BY <1>5, <1>6 DEF Custody, Tally
  <2>2. \A x \in ToSet(queue)' : tries[x.job] = x.fails /\ x.fails < MaxRetry
    BY <1>2, <1>8, <2>1, MaxRetryAssumption DEF Custody, Tally
  <2>3. ToSet(dlq)' = ToSet(dlq) /\ \A c \in Coroutines : Holding(c)' = Holding(c) /\ Job(c)' = Job(c)
    BY <1>1 DEF Holding, Job
  <2>. QED
    BY <1>1, <1>7, <1>8, <2>2, <2>3 DEF Custody, Tally
<1>. QED
  BY <1>1, <1>5, <1>6, <1>7, <1>8, <1>9, <1>10, <1>11 DEF Custody

LEMMA TakeKeepsCustody ==
  ASSUME Typed, Custody, NEW c \in Coroutines, Take(c)
  PROVE  \E j \in Jobs :
           /\ Custody' /\ j \in Queued
           /\ Queued' = Queued \ {j} /\ Held' = Held \cup {j} /\ Dead' = Dead
           /\ UNCHANGED over /\ tries' = [tries EXCEPT ![j] = @ + 1]
<1> DEFINE m == Head(queue)
           j == m.job
<1>1. /\ queue' = Tail(queue) /\ queue # <<>> /\ UNCHANGED <<plan, dlq, over>> /\ work[c].pc = "free"
      /\ work' = [work EXCEPT ![c] = [pc |-> "waiting", msg |-> m]]
      /\ tries' = [tries EXCEPT ![j] = @ + 1]
  BY DEF Take, At
<1>2. /\ m \in ToSet(queue) /\ m \in JobMsg /\ ToSet(queue)' \subseteq ToSet(queue)
      /\ Distinct(queue)' /\ Queued' = Queued \ {j}
  <2>1. queue \in Seq(JobMsg) /\ Queued = JobsIn(queue) /\ Queued' = JobsIn(queue')
    BY QueuedAndDead DEF Typed, Queued, JobsIn
  <2>. QED
    BY <1>1, <2>1, TakenMessage DEF Custody
<1>. HIDE DEF m
<1>3. j \in Jobs /\ j \in Queued
  BY <1>2, QueuedAndDead DEF JobMsg
<1>4. j \notin Dead /\ j \notin Held /\ over[j] = "no" /\ ~ Unpushed(j)
  BY <1>3 DEF Custody, Apart
<1>5. /\ \A d \in Coroutines \ {c} : work'[d] = work[d]
      /\ work'[c] = [pc |-> "waiting", msg |-> m]
  BY <1>1 DEF Typed
<1>6. /\ \A d \in Coroutines \ {c} : Holding(d)' = Holding(d) /\ Job(d)' = Job(d)
      /\ Holding(c)' /\ Job(c)' = j /\ ~ Holding(c)
  BY <1>1, <1>5 DEF Holding, Job
<1>. HIDE DEF j
<1>7. Held' = Held \cup {j} /\ Dead' = Dead /\ ToSet(dlq)' = ToSet(dlq)
  <2>1. Dead' = Dead /\ ToSet(dlq)' = ToSet(dlq)
    BY <1>1 DEF Dead
  <2>. QED
    BY <1>6, <2>1 DEF Held
<1>8. OneHolder' /\ Distinct(dlq)'
  <2>1. \A d \in Coroutines : Holding(d) => Job(d) # j
    BY <1>4 DEF Held
  <2>. QED
    BY <1>1, <1>6, <2>1 DEF Custody, OneHolder, Distinct
<1>9. \A k \in Jobs : Unpushed(k)' = Unpushed(k)
  BY <1>1 DEF Unpushed
<1>10. Apart' /\ Unknown'
  <2>1. Apart'
    BY <1>1, <1>2, <1>4, <1>7, <1>9 DEF Custody, Apart
  <2>2. Unknown'
    BY <1>4, <1>5, <1>6, <1>9 DEF Custody, Unknown
  <2>. QED
    BY <2>1, <2>2
<1>11. tries'[j] = tries[j] + 1 /\ \A k \in Jobs \ {j} : tries'[k] = tries[k]
  BY <1>1, <1>3 DEF Typed
<1>12. Tally'
  <2>1. \A x \in ToSet(queue)' : x.job # j /\ x.job \in Jobs
    <3>1. \A x \in ToSet(queue)' : x.job \in Queued'
      BY DEF ToSet, Queued
    <3>2. \A x \in ToSet(queue) : x.job \in Jobs
      BY MessagesOfJobs DEF Typed
    <3>. QED
      BY <1>2, <3>1, <3>2
  <2>2. \A x \in ToSet(queue)' : tries'[x.job] = x.fails /\ x.fails < MaxRetry
    BY <1>2, <1>11, <2>1 DEF Custody, Tally
  <2>3. \A x \in ToSet(dlq)' : tries'[x.job] = MaxRetry /\ x.fails = MaxRetry
    <3>1. \A x \in ToSet(dlq) : x.job # j /\ x.job \in Jobs
      <4>1. \A x \in ToSet(dlq) : x.job \in Dead
        BY QueuedAndDead
      <4>. QED
        BY <1>4, <4>1, MessagesOfJobs DEF Typed
    <3>. QED
      BY <1>7, <1>11, <3>1 DEF Custody, Tally
  <2>4. ASSUME NEW d \in Coroutines, Holding(d)'
        PROVE  tries'[Job(d)'] = work'[d].msg.fails + 1 /\ work'[d].msg.fails < MaxRetry
    <3>1. CASE d = c
      <4>1. tries[j] = m.fails /\ m.fails < MaxRetry /\ work'[c].msg = m
        BY <1>2, <1>5 DEF Custody, Tally, j
      <4>. QED
        BY <1>6, <1>11, <3>1, <4>1
    <3>2. CASE d # c
      <4>1. Holding(d) /\ Job(d) # j /\ Job(d) \in Jobs
        BY <1>4, <1>6, <2>4, <3>2 DEF Held, Typed, Holding, Job, JobMsg
      <4>. QED
        BY <1>5, <1>6, <1>11, <3>2, <4>1 DEF Custody, Tally
    <3>. QED
      BY <3>1, <3>2
  <2>5. \A k \in Jobs : over'[k] = "no" /\ k \notin Queued' \cup Dead' \cup Held' => tries'[k] = 0
    BY <1>1, <1>2, <1>7, <1>11 DEF Custody, Tally
  <2>. QED
    BY <2>2, <2>3, <2>4, <2>5 DEF Tally
<1>13. Custody'
  BY <1>2, <1>8, <1>10, <1>12 DEF Custody
<1>14. tries' = [tries EXCEPT ![j] = @ + 1]
  BY <1>1 DEF j
<1>15. Queued' = Queued \ {j}
  BY <1>2 DEF j
<1>. QED
  BY <1>1, <1>3, <1>7, <1>13, <1>14, <1>15

(* A coroutine lets go of its job: back to the queue, to the dead letters, *)
(* or as one that is over.                                                 *)
LEMMA LettingGo ==
  ASSUME Typed, Custody, NEW c \in Coroutines, Holding(c), ~ Holding(c)', UNCHANGED plan,
         \A d \in Coroutines \ {c} : work'[d] = work[d],
         work'[c].pc # "free" => work'[c].msg = work[c].msg
  PROVE  /\ Job(c) \in Jobs /\ work[c].msg \in JobMsg
         /\ Job(c) \in Held /\ Job(c) \notin Queued \cup Dead /\ over[Job(c)] = "no" /\ ~ Unpushed(Job(c))
         /\ Held' = Held \ {Job(c)} /\ OneHolder' /\ Unknown'
         /\ \A k \in Jobs : Unpushed(k)' = Unpushed(k)
         /\ \A d \in Coroutines : Holding(d)' => d # c /\ Holding(d) /\ Job(d)' = Job(d) /\ Job(d) # Job(c)
<1>1. Job(c) \in Jobs /\ work[c].msg \in JobMsg
  BY DEF Holding, Typed, JobMsg, Job
<1>2. Job(c) \in Held
  BY DEF Held
<1>3. Job(c) \notin Queued \cup Dead /\ over[Job(c)] = "no" /\ ~ Unpushed(Job(c))
  <2>1. ~ Unpushed(Job(c))
    BY <1>1 DEF Custody, Unknown, Holding
  <2>. QED
    BY <1>1, <1>2, <2>1 DEF Custody, Apart
<1>4. \A k \in Jobs : Unpushed(k)' = Unpushed(k)
  BY DEF Unpushed
<1>5. \A d \in Coroutines \ {c} : Holding(d)' = Holding(d) /\ Job(d)' = Job(d)
  BY DEF Holding, Job
<1>6. \A d \in Coroutines : Holding(d)' => d # c /\ Holding(d) /\ Job(d)' = Job(d) /\ Job(d) # Job(c)
  BY <1>5 DEF Custody, OneHolder
<1>7. Held' = Held \ {Job(c)}
  BY <1>5, <1>6 DEF Held
<1>8. OneHolder'
  BY <1>6 DEF Custody, OneHolder
<1>9. Unknown'
  BY <1>4, <1>5 DEF Custody, Unknown, Job, Holding
<1>. QED
  BY <1>1, <1>2, <1>3, <1>4, <1>6, <1>7, <1>8, <1>9

LEMMA ConcludingKeepsCustody ==
  ASSUME Typed, Custody, NEW c \in Coroutines, Holding(c), ~ Holding(c)', Done(Job(c)),
         UNCHANGED <<plan, queue, dlq, tries>>,
         \A d \in Coroutines \ {c} : work'[d] = work[d],
         work'[c].pc = "free"
  PROVE  /\ Custody' /\ Job(c) \in Jobs /\ Job(c) \in Held
         /\ Queued' = Queued /\ Dead' = Dead /\ Held' = Held \ {Job(c)}
<1>1. /\ Job(c) \in Jobs /\ Job(c) \in Held /\ Job(c) \notin Queued \cup Dead /\ ~ Unpushed(Job(c))
      /\ Held' = Held \ {Job(c)} /\ OneHolder' /\ Unknown'
      /\ \A k \in Jobs : Unpushed(k)' = Unpushed(k)
      /\ \A d \in Coroutines : Holding(d)' => d # c /\ Holding(d) /\ Job(d)' = Job(d)
  BY LettingGo
<1>2. Queued' = Queued /\ Dead' = Dead /\ ToSet(queue)' = ToSet(queue) /\ ToSet(dlq)' = ToSet(dlq)
  BY DEF Queued, Dead
<1>3. over'[Job(c)] = "done" /\ \A k \in Jobs \ {Job(c)} : over'[k] = over[k]
  BY <1>1 DEF Done, Typed
<1>4. Apart'
  BY <1>1, <1>2, <1>3 DEF Custody, Apart
<1>5. Tally'
  <2>1. \A d \in Coroutines : Holding(d)' => work'[d].msg = work[d].msg
    BY <1>1
  <2>. QED
    BY <1>1, <1>2, <1>3, <2>1 DEF Custody, Tally
<1>6. Distinct(queue)' /\ Distinct(dlq)'
  BY DEF Custody, Distinct
<1>. QED
  BY <1>1, <1>2, <1>4, <1>5, <1>6 DEF Custody

LEMMA GivingBackKeepsCustody ==
  ASSUME Typed, Custody, NEW c \in Coroutines, GiveBack(c)
  PROVE  /\ Custody' /\ Job(c) \in Jobs /\ Job(c) \in Held /\ tries[Job(c)] < MaxRetry
         /\ Queued' = Queued \cup {Job(c)} /\ Dead' = Dead /\ Held' = Held \ {Job(c)}
<1> DEFINE j == Job(c)
           m == Message(j, work[c].msg.fails + 1, FALSE)
<1>1. /\ work[c].pc = "failing" /\ ~ LastTry(work[c].msg) /\ queue' = Append(queue, m)
      /\ UNCHANGED <<plan, dlq, over, tries>> /\ work' = [work EXCEPT ![c].pc = "requeued"]
  BY DEF GiveBack, Go, At, history
<1>2. Holding(c) /\ ~ Holding(c)' /\ work'[c].msg = work[c].msg /\ \A d \in Coroutines \ {c} : work'[d] = work[d]
  BY <1>1 DEF Holding, Typed
<1>3. /\ j \in Jobs /\ work[c].msg \in JobMsg
      /\ j \in Held /\ j \notin Queued \cup Dead /\ over[j] = "no" /\ ~ Unpushed(j)
      /\ Held' = Held \ {j} /\ OneHolder' /\ Unknown'
      /\ \A k \in Jobs : Unpushed(k)' = Unpushed(k)
      /\ \A d \in Coroutines : Holding(d)' => d # c /\ Holding(d) /\ Job(d)' = Job(d)
  BY <1>1, <1>2, LettingGo
<1>4. tries[j] = work[c].msg.fails + 1 /\ work[c].msg.fails + 1 < MaxRetry /\ work[c].msg.fails \in Nat
  BY <1>1, <1>2, <1>3, MaxRetryAssumption DEF Custody, Tally, LastTry, JobMsg
<1>5. m \in JobMsg /\ m.job = j /\ m.fails = tries[j]
  BY <1>3, <1>4, MaxRetryAssumption DEF Message, JobMsg
<1>. HIDE DEF m, j
<1>6. Queued' = Queued \cup {j} /\ ToSet(queue)' = ToSet(queue) \cup {m} /\ Distinct(queue)'
  <2>1. queue \in Seq(JobMsg) /\ Queued = JobsIn(queue) /\ Queued' = JobsIn(queue')
    BY QueuedAndDead DEF Typed, Queued, JobsIn
  <2>. QED
    BY <1>1, <1>3, <1>5, <2>1, AppendedMessage DEF Custody
<1>7. Dead' = Dead /\ ToSet(dlq)' = ToSet(dlq) /\ Distinct(dlq)'
  BY <1>1 DEF Dead, Custody, Distinct
<1>8. Apart'
  BY <1>1, <1>3, <1>6, <1>7 DEF Custody, Apart
<1>9. Tally'
  <2>1. \A d \in Coroutines : Holding(d)' => work'[d].msg = work[d].msg
    BY <1>2, <1>3
  <2>2. \A x \in ToSet(queue)' : tries'[x.job] = x.fails /\ x.fails < MaxRetry
    BY <1>1, <1>4, <1>5, <1>6 DEF Custody, Tally, j
  <2>. QED
    BY <1>1, <1>3, <1>6, <1>7, <2>1, <2>2 DEF Custody, Tally
<1>. QED
  BY <1>3, <1>4, <1>6, <1>7, <1>8, <1>9 DEF Custody, j

LEMMA BuryingKeepsCustody ==
  ASSUME Typed, Custody, NEW c \in Coroutines, Bury(c)
  PROVE  /\ Custody' /\ Job(c) \in Jobs /\ Job(c) \in Held /\ tries[Job(c)] = MaxRetry
         /\ Queued' = Queued /\ Dead' = Dead \cup {Job(c)} /\ Held' = Held \ {Job(c)}
<1> DEFINE j == Job(c)
           m == Message(j, work[c].msg.fails + 1, FALSE)
<1>1. /\ work[c].pc = "failing" /\ LastTry(work[c].msg) /\ dlq' = Append(dlq, m)
      /\ UNCHANGED <<plan, queue, over, tries>> /\ work' = [work EXCEPT ![c].pc = "buried"]
  BY DEF Bury, Go, At, history
<1>2. Holding(c) /\ ~ Holding(c)' /\ work'[c].msg = work[c].msg /\ \A d \in Coroutines \ {c} : work'[d] = work[d]
  BY <1>1 DEF Holding, Typed
<1>3. /\ j \in Jobs /\ work[c].msg \in JobMsg
      /\ j \in Held /\ j \notin Queued \cup Dead /\ over[j] = "no" /\ ~ Unpushed(j)
      /\ Held' = Held \ {j} /\ OneHolder' /\ Unknown'
      /\ \A k \in Jobs : Unpushed(k)' = Unpushed(k)
      /\ \A d \in Coroutines : Holding(d)' => d # c /\ Holding(d) /\ Job(d)' = Job(d)
  BY <1>1, <1>2, LettingGo
<1>4. tries[j] = work[c].msg.fails + 1 /\ work[c].msg.fails + 1 = MaxRetry /\ work[c].msg.fails \in Nat
  BY <1>1, <1>2, <1>3, MaxRetryAssumption DEF Custody, Tally, LastTry, JobMsg
<1>5. m \in JobMsg /\ m.job = j /\ m.fails = MaxRetry
  BY <1>3, <1>4, MaxRetryAssumption DEF Message, JobMsg
<1>. HIDE DEF m, j
<1>6. Dead' = Dead \cup {j} /\ ToSet(dlq)' = ToSet(dlq) \cup {m} /\ Distinct(dlq)'
  <2>1. dlq \in Seq(JobMsg) /\ Dead = JobsIn(dlq) /\ Dead' = JobsIn(dlq')
    BY QueuedAndDead DEF Typed, Dead, JobsIn
  <2>. QED
    BY <1>1, <1>3, <1>5, <2>1, AppendedMessage DEF Custody
<1>7. Queued' = Queued /\ ToSet(queue)' = ToSet(queue) /\ Distinct(queue)'
  BY <1>1 DEF Queued, Custody, Distinct
<1>8. Apart'
  BY <1>1, <1>3, <1>6, <1>7 DEF Custody, Apart
<1>9. Tally'
  <2>1. \A d \in Coroutines : Holding(d)' => work'[d].msg = work[d].msg
    BY <1>2, <1>3
  <2>2. \A x \in ToSet(dlq)' : tries'[x.job] = MaxRetry /\ x.fails = MaxRetry
    BY <1>1, <1>4, <1>5, <1>6 DEF Custody, Tally, j
  <2>. QED
    BY <1>1, <1>3, <1>6, <1>7, <2>1, <2>2 DEF Custody, Tally
<1>. QED
  BY <1>3, <1>4, <1>6, <1>7, <1>8, <1>9 DEF Custody, j

LEMMA CrashKeepsCustody ==
  ASSUME Typed, Custody, Crash
  PROVE  /\ Custody' /\ Queued' = Queued /\ Dead' = Dead /\ Held' = {}
         /\ UNCHANGED tries /\ \A j \in Jobs : over'[j] = IF j \in Held THEN "lost" ELSE over[j]
<1>1. /\ UNCHANGED <<queue, dlq, tries>> /\ work' = [c \in Coroutines |-> Idle]
      /\ plan' = [j \in Jobs |-> IF plan[j] = PlanOf(j) THEN plan[j] ELSE <<>>]
      /\ over' = [j \in Jobs |-> IF j \in Held THEN "lost" ELSE over[j]]
  BY DEF Crash
<1>2. \A c \in Coroutines : work'[c].pc = "free" /\ ~ Holding(c)'
  BY <1>1 DEF Idle, Holding
<1>3. Queued' = Queued /\ Dead' = Dead /\ Held' = {} /\ ToSet(queue)' = ToSet(queue) /\ ToSet(dlq)' = ToSet(dlq)
  BY <1>1, <1>2 DEF Queued, Dead, Held
<1>4. \A j \in Jobs : Unpushed(j)' => Unpushed(j)
  BY <1>1 DEF Unpushed
<1>5. \A j \in Jobs : over'[j] = IF j \in Held THEN "lost" ELSE over[j]
  BY <1>1
<1>6. OneHolder' /\ Unknown' /\ Distinct(queue)' /\ Distinct(dlq)'
  BY <1>1, <1>2 DEF OneHolder, Unknown, Custody, Distinct
<1>7. \A j \in Held : j \in Jobs /\ ~ Unpushed(j)
  <2>1. \A j \in Held : j \in Jobs
    BY DEF Held, Holding, Typed, JobMsg, Job
  <2>. QED
    BY <2>1 DEF Custody, Unknown, Held, Holding
<1>8. Apart'
  BY <1>3, <1>4, <1>5, <1>7 DEF Custody, Apart
<1>9. Tally'
  BY <1>1, <1>2, <1>3, <1>5 DEF Custody, Tally
<1>. QED
  BY <1>1, <1>3, <1>5, <1>6, <1>8, <1>9 DEF Custody
------------------------------------------------------------------------------
(* Every step keeps the types. *)
LEMMA PlanningStays ==
  ASSUME Planning, NEW j \in Jobs, plan[j] # <<>>,
         plan' = [plan EXCEPT ![j] = Tail(@)] \/ plan' = [plan EXCEPT ![j] = <<>>]
  PROVE  Planning' /\ \A k \in Jobs : Unpushed(k)' => Unpushed(k)
<1>1. /\ \A k \in Jobs \ {j} : plan'[k] = plan[k]
      /\ plan'[j] \in {Tail(plan[j]), <<>>} /\ plan[j] \in Plans
  BY DEF Planning
<1>2. <<>> \in Plans /\ <<>> \in HarPlans /\ <<>> \notin {<<"note", "push">>, <<"push">>}
  BY DEF Plans, HarPlans
<1>3. /\ plan'[j] \in Plans /\ (plan[j] \in HarPlans => plan'[j] \in HarPlans)
      /\ plan'[j] \in {<<"note", "push">>, <<"push">>} => plan[j] = <<"note", "push">>
      /\ plan[j] = <<"note">> => plan'[j] = <<>>
  BY <1>1, <1>2, PlanSteps
<1>4. plan' \in [Jobs -> Plans]
  BY <1>3 DEF Planning
<1>5. Planning'
  BY <1>1, <1>3, <1>4 DEF Planning
<1>6. \A k \in Jobs : Unpushed(k)' => Unpushed(k)
  BY <1>1, <1>3 DEF Unpushed
<1>. QED
  BY <1>5, <1>6

LEMMA WorkStays ==
  ASSUME Typed, NEW c \in Coroutines,
         \/ End(c)
         \/ work[c].pc # "free" /\ \E pc \in Pcs \ {"free"} : Go(c, pc)
         \/ \E m \in JobMsg : work' = [work EXCEPT ![c] = [pc |-> "waiting", msg |-> m]]
  PROVE  /\ work' \in [Coroutines -> [pc : Pcs, msg : Msg]]
         /\ \A d \in Coroutines : work'[d].pc # "free" => work'[d].msg \in JobMsg
<1>1. CASE End(c)
  <2>1. Idle \in [pc : Pcs, msg : Msg] /\ Idle.pc = "free"
    BY MaxRetryAssumption DEF Idle, NoMessage, Msg, Pcs
  <2>2. work' = [work EXCEPT ![c] = Idle]
    BY <1>1 DEF End
  <2>. QED
    BY <2>1, <2>2 DEF Typed
<1>2. CASE work[c].pc # "free" /\ \E pc \in Pcs \ {"free"} : Go(c, pc)
  <2>1. PICK pc \in Pcs \ {"free"} : work' = [work EXCEPT ![c].pc = pc]
    BY <1>2 DEF Go
  <2>2. work[c] \in [pc : Pcs, msg : Msg] /\ work[c].msg \in JobMsg
    BY <1>2 DEF Typed
  <2>3. PICK u : u = [work[c] EXCEPT !.pc = pc]
    OBVIOUS
  <2>4. u \in [pc : Pcs, msg : Msg] /\ u.msg \in JobMsg
    BY ONLY <2>2, <2>3
  <2>5. work' = [work EXCEPT ![c] = u]
    BY ONLY <2>1, <2>3
  <2>. QED
    BY <2>4, <2>5 DEF Typed
<1>3. ASSUME NEW m \in JobMsg, work' = [work EXCEPT ![c] = [pc |-> "waiting", msg |-> m]]
      PROVE  /\ work' \in [Coroutines -> [pc : Pcs, msg : Msg]]
             /\ \A d \in Coroutines : work'[d].pc # "free" => work'[d].msg \in JobMsg
  <2>1. [pc |-> "waiting", msg |-> m] \in [pc : Pcs, msg : Msg]
    BY DEF JobMsg, Msg, Pcs
  <2>. QED
    BY <1>3, <2>1 DEF Typed
<1>. QED
  BY <1>1, <1>2, <1>3

(* A step keeps the types if each variable it writes does. *)
JobStates == {"none", "queued", "running", "retry", "pending_review", "dlq"}
ApiStates == {"idle", "queued", "running", "pending_review", "applied", "failed"}
Working ==
  /\ work \in [Coroutines -> [pc : Pcs, msg : Msg]]
  /\ \A c \in Coroutines : work[c].pc # "free" => work[c].msg \in JobMsg
LEMMA TypedFromParts ==
  ASSUME Typed,
         UNCHANGED plan \/ Planning',
         UNCHANGED queue \/ queue' \in Seq(JobMsg),
         UNCHANGED dlq \/ dlq' \in Seq(JobMsg),
         UNCHANGED work \/ Working',
         UNCHANGED jobStatus \/ jobStatus' \in [Jobs -> JobStates],
         UNCHANGED apiStatus \/ apiStatus' \in [Apis -> ApiStates],
         UNCHANGED pending \/ pending' \subseteq Jobs \X (0..MaxRetry),
         UNCHANGED over \/ over' \in [Jobs -> {"no", "done", "lost"}],
         UNCHANGED tries \/ tries' \in [Jobs -> Nat],
         UNCHANGED limited \/ limited' \in [Jobs -> 0..MaxLimited],
         UNCHANGED crashes \/ crashes' \in 0..MaxCrashes
  PROVE  Typed'
<1>1. Planning'
  BY DEF Typed, Planning
<1>2. Working'
  BY DEF Typed, Working
<1>3. queue' \in Seq(JobMsg) /\ dlq' \in Seq(JobMsg)
  BY DEF Typed
<1>4. jobStatus' \in [Jobs -> JobStates] /\ apiStatus' \in [Apis -> ApiStates]
  BY DEF Typed, JobStates, ApiStates
<1>5. pending' \subseteq Jobs \X (0..MaxRetry) /\ over' \in [Jobs -> {"no", "done", "lost"}]
  BY DEF Typed
<1>6. tries' \in [Jobs -> Nat] /\ limited' \in [Jobs -> 0..MaxLimited] /\ crashes' \in 0..MaxCrashes
  BY DEF Typed
<1>. QED
  BY <1>1, <1>2, <1>3, <1>4, <1>5, <1>6 DEF Typed, Working, JobStates, ApiStates

LEMMA StatusesStay ==
  ASSUME Typed
  PROVE  /\ \A j \in Jobs, s \in JobStates : ShowJob(j, s) => jobStatus' \in [Jobs -> JobStates]
         /\ \A j \in Jobs, s \in ApiStates : ShowApi(j, s) => apiStatus' \in [Apis -> ApiStates]
         /\ \A j \in Jobs : Done(j) => over' \in [Jobs -> {"no", "done", "lost"}]
BY QueueAssumption DEF Typed, ShowJob, ShowApi, Done, JobStates, ApiStates

LEMMA EnqueueKeepsTypes ==
  ASSUME Typed, NEW j \in Jobs, Enqueue(j)
  PROVE  Typed'
<1> USE DEF shown, history
<1>1. "queued" \in JobStates /\ "queued" \in ApiStates
  BY DEF JobStates, ApiStates
<1>2. CASE Check(j)
  <2>1. plan[j] # <<>> /\ (plan' = [plan EXCEPT ![j] = Tail(@)] \/ plan' = [plan EXCEPT ![j] = <<>>])
    BY <1>2 DEF Check, Planned
  <2>2. Planning'
    BY <2>1, PlanningStays DEF Typed
  <2>. QED
    BY <1>2, <2>2, TypedFromParts DEF Check
<1>3. CASE Announce(j)
  <2>1. plan[j] # <<>> /\ plan' = [plan EXCEPT ![j] = Tail(@)]
    BY <1>3 DEF Announce, Planned, Proceed
  <2>2. Planning'
    BY <2>1, PlanningStays DEF Typed
  <2>3. apiStatus' \in [Apis -> ApiStates]
    BY <1>1, <1>3, StatusesStay DEF Announce
  <2>. QED
    BY <1>3, <2>2, <2>3, TypedFromParts DEF Announce
<1>4. CASE Push(j)
  <2>1. plan[j] # <<>> /\ plan' = [plan EXCEPT ![j] = Tail(@)]
    BY <1>4 DEF Push, Planned, Proceed
  <2>2. Planning'
    BY <2>1, PlanningStays DEF Typed
  <2>3. Message(j, 0, j \in Forced) \in JobMsg
    BY MaxRetryAssumption DEF Message, JobMsg
  <2>4. queue' \in Seq(JobMsg)
    BY <1>4, <2>3, AppendedMessage DEF Push, Typed
  <2>. QED
    BY <1>4, <2>2, <2>4, TypedFromParts DEF Push
<1>5. CASE Note(j)
  <2>1. plan[j] # <<>> /\ plan' = [plan EXCEPT ![j] = Tail(@)]
    BY <1>5 DEF Note, Planned, Proceed
  <2>2. Planning'
    BY <2>1, PlanningStays DEF Typed
  <2>3. jobStatus' \in [Jobs -> JobStates]
    BY <1>1, <1>5, StatusesStay DEF Note
  <2>. QED
    BY <1>5, <2>2, <2>3, TypedFromParts DEF Note
<1>. QED
  BY <1>2, <1>3, <1>4, <1>5 DEF Enqueue

LEMMA RunKeepsTypes ==
  ASSUME Typed, Custody, NEW c \in Coroutines, Run(c)
  PROVE  Typed'
<1> USE DEF shown, history
<1>1. work[c].pc # "free" => Job(c) \in Jobs /\ work[c].msg \in JobMsg
  BY DEF Typed, Job, JobMsg
<1>2. \A pc \in Pcs \ {"free"} : Go(c, pc) /\ work[c].pc # "free" => Working'
  <2> SUFFICES ASSUME NEW pc \in Pcs \ {"free"}, Go(c, pc), work[c].pc # "free" PROVE Working'
    OBVIOUS
  <2>. QED
    BY WorkStays DEF Working
<1>3. End(c) => Working'
  BY WorkStays DEF Working
<1>p. /\ {"ready", "running", "calling", "failing", "saved", "requeued", "buried", "noted"} \subseteq Pcs \ {"free"}
      /\ {"running", "pending_review", "retry", "dlq"} \subseteq JobStates
      /\ {"running", "failed", "pending_review", "applied"} \subseteq ApiStates
  BY DEF Pcs, JobStates, ApiStates
<1>4. CASE Take(c)
  <2>1. /\ queue # <<>> /\ queue' = Tail(queue) /\ tries' = [tries EXCEPT ![Head(queue).job] = @ + 1]
        /\ work' = [work EXCEPT ![c] = [pc |-> "waiting", msg |-> Head(queue)]]
    BY <1>4 DEF Take
  <2>2. Head(queue) \in JobMsg /\ queue' \in Seq(JobMsg)
    BY <2>1, TakenMessage DEF Typed
  <2>3. Working'
    BY <2>1, <2>2, WorkStays DEF Working
  <2>4. tries' \in [Jobs -> Nat]
    <3>1. Head(queue).job \in Jobs /\ tries \in [Jobs -> Nat]
      BY <2>2 DEF Typed, JobMsg
    <3>. QED
      BY <2>1, <3>1
  <2>. QED
    BY <1>4, <2>2, <2>3, <2>4, TypedFromParts DEF Take
<1>5. CASE Acquire(c)
  BY <1>2, <1>5, <1>p, TypedFromParts DEF Acquire, At
<1>6. CASE NoteRunning(c)
  <2>1. Working' /\ jobStatus' \in [Jobs -> JobStates]
    BY <1>1, <1>2, <1>6, <1>p, StatusesStay DEF NoteRunning, At
  <2>. QED
    BY <1>6, <2>1, TypedFromParts DEF NoteRunning
<1>7. CASE Skip(c)
  <2>1. Working' /\ over' \in [Jobs -> {"no", "done", "lost"}]
    BY <1>1, <1>3, <1>7, StatusesStay DEF Skip, At
  <2>. QED
    BY <1>7, <2>1, TypedFromParts DEF Skip
<1>8. CASE Prepare(c)
  <2>1. Working' /\ apiStatus' \in [Apis -> ApiStates]
    BY <1>1, <1>2, <1>8, <1>p, StatusesStay DEF Prepare, At
  <2>. QED
    BY <1>8, <2>1, TypedFromParts DEF Prepare
<1>9. CASE LlmFails(c)
  <2>1. Working' /\ apiStatus' \in [Apis -> ApiStates]
    BY <1>1, <1>2, <1>9, <1>p, StatusesStay DEF LlmFails, At
  <2>2. limited' \in [Jobs -> 0..MaxLimited]
    <3>1. Job(c) \in Jobs /\ limited \in [Jobs -> 0..MaxLimited]
      BY <1>1, <1>9 DEF LlmFails, At, Typed
    <3>2. \/ limited' = limited
          \/ MayRefuse(c) /\ limited' = [limited EXCEPT ![Job(c)] = @ + 1]
      BY <1>9 DEF LlmFails
    <3>. QED
      BY <3>1, <3>2, QueueAssumption DEF MayRefuse
  <2>. QED
    BY <1>9, <2>1, <2>2, TypedFromParts DEF LlmFails
<1>10. CASE LlmAnswers(c)
  <2>1. Working' /\ jobStatus' \in [Jobs -> JobStates]
    BY <1>1, <1>2, <1>10, <1>p, StatusesStay DEF LlmAnswers, At
  <2>2. Version(c) \in Jobs \X (0..MaxRetry)
    BY <1>1, <1>10 DEF LlmAnswers, At, Version, JobMsg
  <2>3. pending' \subseteq Jobs \X (0..MaxRetry)
    BY <1>10, <2>2 DEF LlmAnswers, Typed
  <2>. QED
    BY <1>10, <2>1, <2>3, TypedFromParts DEF LlmAnswers
<1>11. CASE Publish(c)
  <2>1. Working' /\ over' \in [Jobs -> {"no", "done", "lost"}]
    BY <1>1, <1>3, <1>11, StatusesStay DEF Publish, At
  <2>2. apiStatus' \in [Apis -> ApiStates]
    BY <1>1, <1>11, <1>p, StatusesStay DEF Publish, At
  <2>3. pending' \subseteq Jobs \X (0..MaxRetry)
    BY <1>11 DEF Publish, Typed
  <2>. QED
    BY <1>11, <2>1, <2>2, <2>3, TypedFromParts DEF Publish
<1>12. CASE Interrupted(c)
  BY <1>2, <1>12, <1>p, TypedFromParts DEF Interrupted
<1>13. CASE GiveBack(c)
  <2>1. Working'
    BY <1>2, <1>13, <1>p DEF GiveBack, At
  <2>2. Message(Job(c), work[c].msg.fails + 1, FALSE) \in JobMsg
    BY <1>1, <1>13, MaxRetryAssumption DEF GiveBack, LastTry, Message, JobMsg, At
  <2>3. queue' \in Seq(JobMsg)
    BY <1>13, <2>2, AppendedMessage DEF GiveBack, Typed
  <2>. QED
    BY <1>13, <2>1, <2>3, TypedFromParts DEF GiveBack
<1>14. CASE NoteRetry(c)
  <2>1. Working' /\ jobStatus' \in [Jobs -> JobStates]
    BY <1>1, <1>3, <1>14, <1>p, StatusesStay DEF NoteRetry, At
  <2>. QED
    BY <1>14, <2>1, TypedFromParts DEF NoteRetry
<1>15. CASE Bury(c)
  <2>1. Working'
    BY <1>2, <1>15, <1>p DEF Bury, At
  <2>2. work[c].msg.fails < MaxRetry
    BY <1>15 DEF Bury, At, Custody, Tally, Holding
  <2>3. Message(Job(c), work[c].msg.fails + 1, FALSE) \in JobMsg
    BY <1>1, <1>15, <2>2, MaxRetryAssumption DEF Bury, Message, JobMsg, At
  <2>4. dlq' \in Seq(JobMsg)
    BY <1>15, <2>3, AppendedMessage DEF Bury, Typed
  <2>. QED
    BY <1>15, <2>1, <2>4, TypedFromParts DEF Bury
<1>16. CASE NoteDlq(c)
  <2>1. Working' /\ jobStatus' \in [Jobs -> JobStates]
    BY <1>1, <1>2, <1>16, <1>p, StatusesStay DEF NoteDlq, At
  <2>. QED
    BY <1>16, <2>1, TypedFromParts DEF NoteDlq
<1>17. CASE NoteFailed(c)
  <2>1. Working' /\ apiStatus' \in [Apis -> ApiStates]
    BY <1>1, <1>3, <1>17, <1>p, StatusesStay DEF NoteFailed, At
  <2>. QED
    BY <1>17, <2>1, TypedFromParts DEF NoteFailed
<1>. QED
  BY <1>4, <1>5, <1>6, <1>7, <1>8, <1>9, <1>10, <1>11, <1>12, <1>13, <1>14, <1>15, <1>16, <1>17 DEF Run

LEMMA NextKeepsTypes ==
  ASSUME Typed, Custody, [Next]_vars
  PROVE  Typed'
<1> USE DEF shown, history
<1>1. ASSUME NEW v \in pending, Accept(v) PROVE Typed'
  <2>1. v[1] \in Jobs /\ "applied" \in ApiStates
    BY DEF Typed, ApiStates
  <2>2. apiStatus' \in [Apis -> ApiStates]
    BY <1>1, <2>1, StatusesStay DEF Accept
  <2>3. pending' \subseteq Jobs \X (0..MaxRetry)
    BY <1>1 DEF Accept, Typed
  <2>. QED
    BY <1>1, <2>2, <2>3, TypedFromParts DEF Accept
<1>2. CASE Crash
  <2>1. /\ UNCHANGED <<queue, dlq, shown, tries, limited>> /\ crashes < MaxCrashes /\ crashes' = crashes + 1
        /\ work' = [c \in Coroutines |-> Idle]
        /\ plan' = [j \in Jobs |-> IF plan[j] = PlanOf(j) THEN plan[j] ELSE <<>>]
        /\ over' = [j \in Jobs |-> IF j \in Held THEN "lost" ELSE over[j]]
    BY <1>2 DEF Crash
  <2>2. Planning'
    <3>1. \A j \in Jobs : plan'[j] \in {plan[j], <<>>}
      BY <2>1
    <3>2. <<>> \in Plans /\ <<>> \in HarPlans /\ <<>> \notin {<<"note", "push">>, <<"push">>}
      BY DEF Plans, HarPlans
    <3>3. plan' \in [Jobs -> Plans]
      BY <2>1, <3>2 DEF Typed, Planning
    <3>. QED
      BY <3>1, <3>2, <3>3 DEF Typed, Planning
  <2>3. Working'
    <3>1. Idle \in [pc : Pcs, msg : Msg] /\ Idle.pc = "free"
      BY MaxRetryAssumption DEF Idle, NoMessage, Msg, Pcs
    <3>. QED
      BY <2>1, <3>1 DEF Working
  <2>4. over' \in [Jobs -> {"no", "done", "lost"}]
    BY <2>1 DEF Typed
  <2>5. crashes' \in 0..MaxCrashes
    BY <2>1, QueueAssumption DEF Typed
  <2>. QED
    BY <2>1, <2>2, <2>3, <2>4, <2>5, TypedFromParts
<1>3. CASE UNCHANGED vars
  BY <1>3, TypedFromParts DEF vars
<1>. QED
  BY <1>1, <1>2, <1>3, EnqueueKeepsTypes, RunKeepsTypes DEF Next
------------------------------------------------------------------------------
(* What a step does with the jobs: nothing, or one job changes hands, or   *)
(* the process dies.                                                       *)
Still ==
  /\ Queued' = Queued /\ Held' = Held /\ Dead' = Dead
  /\ UNCHANGED <<over, tries>>
Submits(j) ==
  /\ j \notin Queued \cup Held \cup Dead /\ over[j] = "no"
  /\ Queued' = Queued \cup {j} /\ Held' = Held /\ Dead' = Dead
  /\ UNCHANGED <<over, tries>>
Takes(j) ==
  /\ j \in Queued
  /\ Queued' = Queued \ {j} /\ Held' = Held \cup {j} /\ Dead' = Dead
  /\ UNCHANGED over /\ tries' = [tries EXCEPT ![j] = @ + 1]
Concludes(j) ==
  /\ j \in Held
  /\ Queued' = Queued /\ Held' = Held \ {j} /\ Dead' = Dead
  /\ over' = [over EXCEPT ![j] = "done"] /\ UNCHANGED tries
GivesBack(j) ==
  /\ j \in Held /\ tries[j] < MaxRetry
  /\ Queued' = Queued \cup {j} /\ Held' = Held \ {j} /\ Dead' = Dead
  /\ UNCHANGED <<over, tries>>
Buries(j) ==
  /\ j \in Held /\ tries[j] = MaxRetry
  /\ Queued' = Queued /\ Held' = Held \ {j} /\ Dead' = Dead \cup {j}
  /\ UNCHANGED <<over, tries>>
Loses ==
  /\ Queued' = Queued /\ Held' = {} /\ Dead' = Dead
  /\ \A j \in Jobs : over'[j] = IF j \in Held THEN "lost" ELSE over[j]
  /\ UNCHANGED tries
Moves ==
  \/ Still
  \/ \E j \in Jobs :
       Submits(j) \/ Takes(j) \/ Concludes(j) \/ GivesBack(j) \/ Buries(j)
  \/ Loses

LEMMA UnmovedIsStill ==
  ASSUME Typed, Custody, Unmoved
  PROVE  Custody' /\ Moves
BY UnmovedKeepsCustody DEF Moves, Still, Unmoved

(* A coroutine that goes on without letting go of its message, or ends     *)
(* after it let go.                                                        *)
HoldingPcs == {"waiting", "ready", "running", "calling", "saved", "failing"}
LEMMA GoingIsUnmoved ==
  ASSUME Typed, NEW c \in Coroutines, work[c].pc # "free", UNCHANGED <<plan, queue, dlq, over, tries>>,
         \/ \E pc \in Pcs : Go(c, pc) /\ (pc \in HoldingPcs <=> work[c].pc \in HoldingPcs)
         \/ End(c) /\ work[c].pc \notin HoldingPcs
  PROVE  Unmoved
<1>1. \A d \in Coroutines \ {c} : work'[d] = work[d]
  BY DEF Go, End, Typed
<1>2. \A j \in Jobs : Unpushed(j)' => Unpushed(j)
  BY DEF Unpushed
<1>3. CASE End(c) /\ work[c].pc \notin HoldingPcs
  <2>1. work'[c].pc = "free"
    BY <1>3 DEF End, Typed, Idle
  <2>. QED
    BY <1>1, <1>2, <1>3, <2>1 DEF Unmoved, Holding, HoldingPcs
<1>4. ASSUME NEW pc \in Pcs, Go(c, pc), pc \in HoldingPcs <=> work[c].pc \in HoldingPcs
      PROVE  Unmoved
  <2>1. work'[c].pc = pc /\ work'[c].msg = work[c].msg
    BY <1>4 DEF Go, Typed
  <2>. QED
    BY <1>1, <1>2, <1>4, <2>1 DEF Unmoved, Holding, HoldingPcs
<1>. QED
  BY <1>3, <1>4

LEMMA EnqueueMoves ==
  ASSUME Typed, Custody, NEW j \in Jobs, Enqueue(j)
  PROVE  Custody' /\ Moves
<1>1. CASE Push(j)
  BY <1>1, PushKeepsCustody DEF Moves, Submits
<1>2. CASE Check(j) \/ Announce(j) \/ Note(j)
  <2>1. /\ plan[j] # <<>> /\ (plan' = [plan EXCEPT ![j] = Tail(@)] \/ plan' = [plan EXCEPT ![j] = <<>>])
        /\ UNCHANGED <<queue, dlq, work, over, tries>>
    BY <1>2 DEF Check, Announce, Note, Planned, Proceed, history
  <2>2. \A k \in Jobs : Unpushed(k)' => Unpushed(k)
    BY <2>1, PlanningStays DEF Typed
  <2>3. Unmoved
    BY <2>1, <2>2 DEF Unmoved, Holding
  <2>. QED
    BY <2>3, UnmovedIsStill
<1>. QED
  BY <1>1, <1>2 DEF Enqueue

LEMMA RunMoves ==
  ASSUME Typed, Custody, NEW c \in Coroutines, Run(c)
  PROVE  Custody' /\ Moves
<1>1. CASE Take(c)
  BY <1>1, TakeKeepsCustody DEF Moves, Takes
<1>2. CASE Skip(c) \/ Publish(c)
  <2>1. /\ work[c].pc \in {"running", "saved"} /\ Done(Job(c)) /\ End(c)
        /\ UNCHANGED <<plan, queue, dlq, tries>>
    BY <1>2 DEF Skip, Publish, At
  <2>2. (\A d \in Coroutines \ {c} : work'[d] = work[d]) /\ work'[c].pc = "free"
    BY <2>1 DEF End, Typed, Idle
  <2>3. Holding(c) /\ ~ Holding(c)'
    BY <2>1, <2>2 DEF Holding
  <2>4. /\ Custody' /\ Job(c) \in Jobs /\ Job(c) \in Held
        /\ Queued' = Queued /\ Dead' = Dead /\ Held' = Held \ {Job(c)}
    BY <2>1, <2>2, <2>3, ConcludingKeepsCustody
  <2>. QED
    BY <2>1, <2>4 DEF Moves, Concludes, Done
<1>3. CASE GiveBack(c)
  BY <1>3, GivingBackKeepsCustody DEF Moves, GivesBack, GiveBack, history
<1>4. CASE Bury(c)
  BY <1>4, BuryingKeepsCustody DEF Moves, Buries, Bury, history
<1>5. CASE Acquire(c) \/ NoteRunning(c) \/ Prepare(c) \/ LlmFails(c) \/ LlmAnswers(c) \/ Interrupted(c)
  <2>1. /\ UNCHANGED <<plan, queue, dlq, over, tries>> /\ work[c].pc \in HoldingPcs
        /\ \E pc \in {"ready", "running", "calling", "failing", "saved"} : Go(c, pc)
    BY <1>5 DEF Acquire, NoteRunning, Prepare, LlmFails, LlmAnswers, Interrupted, At, history, HoldingPcs
  <2>2. {"ready", "running", "calling", "failing", "saved"} \subseteq Pcs \cap HoldingPcs /\ "free" \notin HoldingPcs
    BY DEF Pcs, HoldingPcs
  <2>3. Unmoved
    BY <2>1, <2>2, GoingIsUnmoved
  <2>. QED
    BY <2>3, UnmovedIsStill
<1>6. CASE NoteRetry(c) \/ NoteDlq(c) \/ NoteFailed(c)
  <2>1. /\ UNCHANGED <<plan, queue, dlq, over, tries>>
        /\ work[c].pc \in {"requeued", "buried", "noted"} /\ (End(c) \/ Go(c, "noted"))
    BY <1>6 DEF NoteRetry, NoteDlq, NoteFailed, At, history
  <2>2. {"requeued", "buried", "noted"} \cap HoldingPcs = {} /\ "noted" \in Pcs
    BY DEF Pcs, HoldingPcs
  <2>3. Unmoved
    BY <2>1, <2>2, GoingIsUnmoved
  <2>. QED
    BY <2>3, UnmovedIsStill
<1>. QED
  BY <1>1, <1>2, <1>3, <1>4, <1>5, <1>6 DEF Run

LEMMA NextMoves ==
  ASSUME Typed, Custody, [Next]_vars
  PROVE  Typed' /\ Custody' /\ Moves
<1>1. ASSUME Crash PROVE Custody' /\ Moves
  BY <1>1, CrashKeepsCustody DEF Moves, Loses
<1>2. ASSUME (\E v \in pending : Accept(v)) \/ UNCHANGED vars PROVE Custody' /\ Moves
  <2>1. UNCHANGED <<plan, queue, dlq, work, over, tries>>
    BY <1>2 DEF Accept, vars, history
  <2>2. Unmoved
    BY <2>1 DEF Unmoved, Holding, Unpushed
  <2>. QED
    BY <2>2, UnmovedIsStill
<1>3. Custody' /\ Moves
  BY <1>1, <1>2, EnqueueMoves, RunMoves DEF Next
<1>. QED
  BY <1>3, NextKeepsTypes

LEMMA Always == Spec => [](Typed /\ Custody)
<1>1. Typed /\ Custody /\ [Next]_vars => Typed' /\ Custody'
  BY NextMoves
<1>. QED
  BY <1>1, InitHolds, PTL DEF Spec

(* The variables keep their types. *)
THEOREM TypeCorrect == Spec => []TypeOK
<1>1. Typed => TypeOK
  <2> SUFFICES ASSUME Typed PROVE TypeOK
    OBVIOUS
  <2>1. Plans \subseteq Seq({"check", "announce", "push", "note"})
    BY DEF Plans
  <2>2. plan \in [Jobs -> Seq({"check", "announce", "push", "note"})]
    BY <2>1 DEF Typed, Planning
  <2>3. \A s \in Seq(JobMsg) : s \in Seq(Msg)
    <3>1. JobMsg \subseteq Msg
      BY DEF JobMsg, Msg
    <3>. QED
      BY <3>1
  <2>4. queue \in Seq(Msg) /\ dlq \in Seq(Msg)
    BY <2>3 DEF Typed
  <2>5. limited \in [Jobs -> Nat]
    BY QueueAssumption DEF Typed
  <2>6. work \in [Coroutines -> [pc : Pcs, msg : Msg]]
    BY DEF Typed
  <2>7. /\ jobStatus \in [Jobs -> {"none", "queued", "running", "retry", "pending_review", "dlq"}]
        /\ apiStatus \in [Apis -> {"idle", "queued", "running", "pending_review", "applied", "failed"}]
        /\ pending \subseteq Jobs \X (0..MaxRetry) /\ over \in [Jobs -> {"no", "done", "lost"}]
        /\ tries \in [Jobs -> Nat] /\ crashes \in 0..MaxCrashes
    BY DEF Typed
  <2>. QED
    BY <2>2, <2>4, <2>5, <2>6, <2>7 DEF TypeOK, Pcs
<1>. QED
  BY <1>1, Always, PTL
------------------------------------------------------------------------------
(* The refinement of JobLife.  A job's place and failed tries, which the   *)
(* mapping reads off queue, dead letters and coroutines, in closed form.   *)
View ==
  \A j \in Jobs :
    /\ PlaceOf(j) = IF over[j] # "no" THEN over[j] ELSE IF j \in Held THEN "held"
                    ELSE IF j \in Queued THEN "waiting" ELSE IF j \in Dead THEN "dead" ELSE "new"
    /\ FailsOf(j) = IF over[j] # "no" \/ j \in Held THEN tries[j] - 1 ELSE tries[j]
IInv == Typed /\ Custody /\ View
LEMMA AlwaysIInv == Spec => []IInv
<1>1. Typed /\ Custody => IInv
  BY PlaceFollows, FailsFollow DEF IInv, View
<1>. QED
  BY <1>1, Always, PTL

LEMMA InitIsALife == Init => Life!Init
<1> SUFFICES ASSUME Init PROVE Life!Init
  OBVIOUS
<1>1. IInv
  BY InitHolds, PlaceFollows, FailsFollow DEF IInv, View
<1>2. Queued = {} /\ Dead = {} /\ Held = {}
  BY DEF Init, Queued, Dead, Held, Holding, Idle
<1>3. \A j \in Jobs : PlaceOf(j) = "new" /\ FailsOf(j) = 0
  BY <1>1, <1>2 DEF IInv, View, Init
<1>. QED
  BY <1>3 DEF Life!Init, Init

(* One job moves from a place to a place: the others stay. *)
MovesTo(j, from, to) ==
  /\ PlaceOf(j) = from /\ PlaceOf(j)' = to
  /\ \A k \in Jobs \ {j} : PlaceOf(k)' = PlaceOf(k) /\ FailsOf(k)' = FailsOf(k)
LEMMA MovingIsMoving ==
  \A j \in Jobs : \A from, to : MovesTo(j, from, to) =>
    /\ Life!Moves(j, from, to)
    /\ FailsOf(j)' = FailsOf(j) => UNCHANGED [k \in Jobs |-> FailsOf(k)]
    /\ FailsOf(j)' = FailsOf(j) + 1 =>
         [k \in Jobs |-> FailsOf(k)]' = [[k \in Jobs |-> FailsOf(k)] EXCEPT ![j] = @ + 1]
BY DEF MovesTo, Life!Moves

LEMMA MovesAreLifeSteps ==
  ASSUME IInv, IInv', Moves
  PROVE  [Life!Next]_(Life!vars)
<1>1. \A j \in Jobs : tries[j] \in Nat /\ over[j] \in {"no", "done", "lost"}
  BY DEF IInv, Typed
<1>2. \A j \in Jobs : /\ j \in Queued => j \notin Dead /\ j \notin Held /\ over[j] = "no"
                      /\ j \in Dead => j \notin Held /\ over[j] = "no"
                      /\ j \in Held => over[j] = "no"
  BY DEF IInv, Custody, Apart
<1>3. CASE Still
  <2>1. \A j \in Jobs : PlaceOf(j)' = PlaceOf(j) /\ FailsOf(j)' = FailsOf(j)
    BY <1>3 DEF Still, IInv, View
  <2>. QED
    BY <1>3, <2>1 DEF Still, Life!vars
<1>4. ASSUME NEW j \in Jobs, Submits(j) PROVE Life!Submit(j)
  <2>1. MovesTo(j, "new", "waiting") /\ FailsOf(j)' = FailsOf(j) /\ UNCHANGED tries
    BY <1>1, <1>2, <1>4 DEF Submits, MovesTo, IInv, View
  <2>. QED
    BY <2>1, MovingIsMoving DEF Life!Submit
<1>5. ASSUME NEW j \in Jobs, Takes(j) PROVE Life!Take(j)
  <2>1. tries' = [tries EXCEPT ![j] = @ + 1] /\ tries'[j] = tries[j] + 1 /\ \A k \in Jobs \ {j} : tries'[k] = tries[k]
    BY <1>5 DEF Takes, IInv, Typed
  <2>2. MovesTo(j, "waiting", "held") /\ FailsOf(j)' = FailsOf(j)
    BY <1>1, <1>2, <1>5, <2>1 DEF Takes, MovesTo, IInv, View
  <2>. QED
    BY <2>1, <2>2, MovingIsMoving DEF Life!Take
<1>6. ASSUME NEW j \in Jobs, Concludes(j) PROVE Life!Conclude(j)
  <2>1. over'[j] = "done" /\ UNCHANGED tries /\ \A k \in Jobs \ {j} : over'[k] = over[k]
    BY <1>6 DEF Concludes, IInv, Typed
  <2>2. MovesTo(j, "held", "done") /\ FailsOf(j)' = FailsOf(j)
    BY <1>1, <1>2, <1>6, <2>1 DEF Concludes, MovesTo, IInv, View
  <2>. QED
    BY <2>1, <2>2, MovingIsMoving DEF Life!Conclude
<1>7. ASSUME NEW j \in Jobs, GivesBack(j) PROVE Life!GiveBack(j)
  <2>1. MovesTo(j, "held", "waiting") /\ FailsOf(j)' = FailsOf(j) + 1 /\ UNCHANGED tries /\ FailsOf(j) + 1 < MaxRetry
    BY <1>1, <1>2, <1>7 DEF GivesBack, MovesTo, IInv, View
  <2>. QED
    BY <2>1, MovingIsMoving DEF Life!GiveBack
<1>8. ASSUME NEW j \in Jobs, Buries(j) PROVE Life!Bury(j)
  <2>1. MovesTo(j, "held", "dead") /\ FailsOf(j)' = FailsOf(j) + 1 /\ UNCHANGED tries /\ FailsOf(j) + 1 >= MaxRetry
    BY <1>1, <1>2, <1>8, MaxRetryAssumption DEF Buries, MovesTo, IInv, View
  <2>. QED
    BY <2>1, MovingIsMoving DEF Life!Bury
<1>9. ASSUME Loses PROVE Life!Crash
  <2>1. \A j \in Jobs : /\ PlaceOf(j)' = IF PlaceOf(j) = "held" THEN "lost" ELSE PlaceOf(j)
                        /\ FailsOf(j)' = FailsOf(j)
    BY <1>1, <1>2, <1>9 DEF Loses, IInv, View
  <2>. QED
    BY <1>9, <2>1 DEF Loses, Life!Crash
<1>. QED
  BY <1>3, <1>4, <1>5, <1>6, <1>7, <1>8, <1>9 DEF Moves, Life!Next

(* The queue, its coroutines and the dead letters implement JobLife:       *)
(* every step, a crash in the middle of an analysis included, moves a job  *)
(* as JobLife allows or moves none.                                        *)
THEOREM TheQueueKeepsItsPromise == Spec => ImplementsJobLife
<1>1. IInv /\ IInv' /\ [Next]_vars => [Life!Next]_(Life!vars)
  BY NextMoves, MovesAreLifeSteps DEF IInv
<1>. QED
  BY <1>1, AlwaysIInv, InitIsALife, PTL DEF Spec, ImplementsJobLife, Life!Spec
------------------------------------------------------------------------------
(* What JobLife promises, and so what the queue keeps.  That tries are     *)
(* bounded is not inductive: nothing in Take looks at tries.  It follows   *)
(* from how tries and fails go together in each place.                     *)
LifeTally ==
  \A j \in Jobs :
    /\ PlaceOf(j) \in Life!Places /\ FailsOf(j) \in Nat /\ tries[j] \in Nat
    /\ PlaceOf(j) = "new" => tries[j] = 0 /\ FailsOf(j) = 0
    /\ PlaceOf(j) = "waiting" => tries[j] = FailsOf(j) /\ FailsOf(j) < MaxRetry
    /\ PlaceOf(j) \in {"held", "done", "lost"} => tries[j] = FailsOf(j) + 1 /\ FailsOf(j) < MaxRetry
    /\ PlaceOf(j) = "dead" => tries[j] = MaxRetry /\ FailsOf(j) = MaxRetry
LifeInv == tries \in [Jobs -> Nat] /\ LifeTally

LEMMA LifeStartsTallied == Life!Init => LifeInv
<1> SUFFICES ASSUME Life!Init PROVE LifeInv
  OBVIOUS
<1>1. /\ \A j \in Jobs : PlaceOf(j) = "new" /\ FailsOf(j) = 0
      /\ tries = [j \in Jobs |-> 0]
  BY DEF Life!Init
<1>. QED
  BY <1>1, MaxRetryAssumption DEF LifeInv, LifeTally, Life!Places

(* A step of JobLife, job by job. *)
LEMMA LifeStaysTallied == LifeInv /\ [Life!Next]_(Life!vars) => LifeInv'
<1> SUFFICES ASSUME LifeInv, [Life!Next]_(Life!vars) PROVE LifeInv'
  OBVIOUS
<1> DEFINE Stays(k) == PlaceOf(k)' = PlaceOf(k) /\ FailsOf(k)' = FailsOf(k) /\ tries'[k] = tries[k]
           Fine(k) ==
             /\ PlaceOf(k) \in Life!Places /\ FailsOf(k) \in Nat /\ tries[k] \in Nat
             /\ PlaceOf(k) = "new" => tries[k] = 0 /\ FailsOf(k) = 0
             /\ PlaceOf(k) = "waiting" => tries[k] = FailsOf(k) /\ FailsOf(k) < MaxRetry
             /\ PlaceOf(k) \in {"held", "done", "lost"} =>
                  tries[k] = FailsOf(k) + 1 /\ FailsOf(k) < MaxRetry
             /\ PlaceOf(k) = "dead" => tries[k] = MaxRetry /\ FailsOf(k) = MaxRetry
<1>1. \A k \in Jobs : Fine(k)
  BY DEF LifeInv, LifeTally
<1>2. ASSUME NEW j \in Jobs, Fine(j)', \A k \in Jobs \ {j} : Stays(k), tries' \in [Jobs -> Nat] PROVE LifeInv'
  <2>1. \A k \in Jobs : Fine(k)'
    BY <1>1, <1>2
  <2>. QED
    BY <1>2, <2>1 DEF LifeInv, LifeTally
<1>3. ASSUME NEW j \in Jobs, Life!Submit(j) PROVE LifeInv'
  <2>1. /\ PlaceOf(j) = "new" /\ PlaceOf(j)' = "waiting" /\ FailsOf(j)' = FailsOf(j) /\ tries' = tries
        /\ \A k \in Jobs \ {j} : Stays(k)
    BY <1>3 DEF Life!Submit, Life!Moves
  <2>. QED
    BY <1>1, <1>2, <2>1, MaxRetryAssumption DEF LifeInv, Life!Places
<1>4. ASSUME NEW j \in Jobs, Life!Take(j) PROVE LifeInv'
  <2>1. /\ PlaceOf(j) = "waiting" /\ PlaceOf(j)' = "held" /\ FailsOf(j)' = FailsOf(j)
        /\ tries' = [tries EXCEPT ![j] = @ + 1]
        /\ \A k \in Jobs \ {j} : PlaceOf(k)' = PlaceOf(k) /\ FailsOf(k)' = FailsOf(k)
    BY <1>4 DEF Life!Take, Life!Moves
  <2>2. /\ tries' \in [Jobs -> Nat] /\ tries'[j] = tries[j] + 1
        /\ \A k \in Jobs \ {j} : tries'[k] = tries[k]
    BY <2>1 DEF LifeInv
  <2>. QED
    BY <1>1, <1>2, <2>1, <2>2 DEF Life!Places
<1>5. ASSUME NEW j \in Jobs, Life!Conclude(j) PROVE LifeInv'
  <2>1. /\ PlaceOf(j) = "held" /\ PlaceOf(j)' = "done" /\ FailsOf(j)' = FailsOf(j) /\ tries' = tries
        /\ \A k \in Jobs \ {j} : Stays(k)
    BY <1>5 DEF Life!Conclude, Life!Moves
  <2>. QED
    BY <1>1, <1>2, <2>1 DEF LifeInv, Life!Places
<1>6. ASSUME NEW j \in Jobs, Life!GiveBack(j) PROVE LifeInv'
  <2>1. /\ PlaceOf(j) = "held" /\ PlaceOf(j)' = "waiting" /\ FailsOf(j)' = FailsOf(j) + 1 /\ tries' = tries
        /\ FailsOf(j) + 1 < MaxRetry
        /\ \A k \in Jobs \ {j} : Stays(k)
    BY <1>6 DEF Life!GiveBack, Life!Moves
  <2>. QED
    BY <1>1, <1>2, <2>1 DEF LifeInv, Life!Places
<1>7. ASSUME NEW j \in Jobs, Life!Bury(j) PROVE LifeInv'
  <2>1. /\ PlaceOf(j) = "held" /\ PlaceOf(j)' = "dead" /\ FailsOf(j)' = FailsOf(j) + 1 /\ tries' = tries
        /\ FailsOf(j) + 1 >= MaxRetry
        /\ \A k \in Jobs \ {j} : Stays(k)
    BY <1>7 DEF Life!Bury, Life!Moves
  <2>. QED
    BY <1>1, <1>2, <2>1, MaxRetryAssumption DEF LifeInv, Life!Places
<1>8. ASSUME Life!Crash \/ UNCHANGED Life!vars PROVE LifeInv'
  <2>1. /\ tries' = tries
        /\ \A k \in Jobs : /\ PlaceOf(k)' \in {PlaceOf(k), IF PlaceOf(k) = "held" THEN "lost" ELSE PlaceOf(k)}
                           /\ FailsOf(k)' = FailsOf(k)
    BY <1>8 DEF Life!Crash, Life!vars
  <2>2. \A k \in Jobs : Fine(k)'
    BY <1>1, <2>1 DEF Life!Places
  <2>. QED
    BY <2>1, <2>2 DEF LifeInv, LifeTally
<1>. QED
  BY <1>3, <1>4, <1>5, <1>6, <1>7, <1>8 DEF Life!Next

LEMMA LivesAreTallied == Life!Spec => []LifeInv
BY LifeStartsTallied, LifeStaysTallied, PTL DEF Life!Spec

(* JobLife: the variables keep their types. *)
THEOREM LifeTypeCorrect == Life!Spec => []Life!TypeOK
<1>1. LifeInv => Life!TypeOK
  BY DEF LifeInv, LifeTally, Life!TypeOK
<1>. QED
  BY <1>1, LivesAreTallied, PTL

(* JobLife: no job is worked on more than MAX_RETRY times. *)
THEOREM TriesAreBounded == Life!Spec => []Life!WorkBounded
<1>1. ASSUME LifeInv, NEW j \in Jobs PROVE tries[j] <= MaxRetry
  <2>1. PlaceOf(j) \in Life!Places /\ FailsOf(j) \in Nat /\ tries[j] \in Nat
    BY <1>1 DEF LifeInv, LifeTally
  <2>. QED
    BY <1>1, <2>1, MaxRetryAssumption DEF LifeInv, LifeTally, Life!Places
<1>2. LifeInv => Life!WorkBounded
  BY <1>1 DEF Life!WorkBounded
<1>. QED
  BY <1>2, LivesAreTallied, PTL

(* JobLife: a job in the dead letters has used all its tries. *)
THEOREM DeadHaveTriedAll == Life!Spec => []Life!DeadOnlyWhenSpent
<1>1. LifeInv => Life!DeadOnlyWhenSpent
  BY DEF LifeInv, LifeTally, Life!DeadOnlyWhenSpent
<1>. QED
  BY <1>1, LivesAreTallied, PTL

(* JobLife: only a worker's crash loses a job, and what is over stays      *)
(* over.                                                                   *)
THEOREM LossIsOutOfHands == Life!Spec => Life!OnlyHeldIsLost
<1> DEFINE Place == [j \in Jobs |-> PlaceOf(j)]
           Kept == \A j \in Jobs :
             /\ Place'[j] = "lost" => Place[j] \in {"held", "lost"}
             /\ Place[j] \in {"done", "dead", "lost"} => Place'[j] = Place[j]
<1>1. [Life!Next]_(Life!vars) => Kept
  <2> SUFFICES ASSUME [Life!Next]_(Life!vars) PROVE Kept
    OBVIOUS
  <2>1. ASSUME NEW j \in Jobs,
               Life!Submit(j) \/ Life!Take(j) \/ Life!Conclude(j) \/ Life!GiveBack(j) \/ Life!Bury(j)
        PROVE  Kept
    BY <2>1 DEF Life!Submit, Life!Take, Life!Conclude, Life!GiveBack, Life!Bury, Life!Moves
  <2>2. CASE Life!Crash
    BY <2>2 DEF Life!Crash
  <2>3. CASE UNCHANGED Life!vars
    BY <2>3 DEF Life!vars
  <2>. QED
    BY <2>1, <2>2, <2>3 DEF Life!Next
<1>2. [Life!Next]_(Life!vars) => [Kept]_(Life!vars)
  BY <1>1
<1>. QED
  BY <1>2, PTL DEF Life!Spec, Life!OnlyHeldIsLost

(* The code keeps all three: however a job fails, times out, is refused,   *)
(* overtaken or cut off by a crash.                                        *)
THEOREM TheQueueWorksAsPromised ==
  Spec => /\ []Life!WorkBounded
          /\ []Life!DeadOnlyWhenSpent
          /\ Life!OnlyHeldIsLost
BY TheQueueKeepsItsPromise, TriesAreBounded, DeadHaveTriedAll, LossIsOutOfHands, PTL DEF ImplementsJobLife
------------------------------------------------------------------------------
(* What an API shows.  A job carries a busy status of its API: it waits in *)
(* the queue, or a coroutine that has not given it back works on it, or    *)
(* the handler has announced it and is about to push it.                   *)
BusyStatus == {"queued", "running"}
Carries(c) == work[c].pc \notin {"free", "requeued"}
Carried(j) ==
  \/ j \in Queued
  \/ \E c \in Coroutines : Carries(c) /\ Job(c) = j
  \/ plan[j] = <<"push", "note">> /\ SourceOf[j] = "service"
BusyIsCarried ==
  crashes = 0 => \A a \in Apis : apiStatus[a] \in BusyStatus => \E j \in Jobs : ApiOf[j] = a /\ Carried(j)
ServicePlans ==
  \A j \in Jobs :
    plan[j] \in {<<"check", "announce", "push", "note">>, <<"announce", "push", "note">>} =>
      SourceOf[j] = "service"

(* A step leaves no API busy whose carrier it took away.                   *)
HandsOver ==
  /\ \A j \in Jobs : Carried(j) => Carried(j)' \/ apiStatus'[ApiOf[j]] \notin BusyStatus
  /\ \A a \in Apis : apiStatus'[a] \in BusyStatus =>
       apiStatus[a] \in BusyStatus \/ \E j \in Jobs : ApiOf[j] = a /\ Carried(j)'

LEMMA HandingOverKeepsBusy ==
  ASSUME BusyIsCarried, HandsOver, crashes' = 0 => crashes = 0
  PROVE  BusyIsCarried'
<1> SUFFICES ASSUME crashes' = 0, NEW a \in Apis, apiStatus'[a] \in BusyStatus
             PROVE  \E j \in Jobs : ApiOf[j] = a /\ Carried(j)'
  BY DEF BusyIsCarried
<1>1. CASE apiStatus[a] \in BusyStatus
  <2>1. PICK j \in Jobs : ApiOf[j] = a /\ Carried(j)
    BY <1>1 DEF BusyIsCarried
  <2>. QED
    BY <2>1 DEF HandsOver
<1>. QED
  BY <1>1 DEF HandsOver

LEMMA EnqueueHandsOver ==
  ASSUME Typed, Custody, ServicePlans, NEW j \in Jobs, Enqueue(j)
  PROVE  HandsOver /\ ServicePlans'
<1>1. /\ plan[j] # <<>> /\ plan[j] \in Plans /\ ApiOf[j] \in Apis
      /\ (plan' = [plan EXCEPT ![j] = Tail(@)] \/ plan' = [plan EXCEPT ![j] = <<>>])
      /\ UNCHANGED work
  BY QueueAssumption DEF Enqueue, Check, Announce, Push, Note, Planned, Proceed, Typed, Planning
<1>2. /\ \A k \in Jobs \ {j} : plan'[k] = plan[k]
      /\ plan'[j] \in {Tail(plan[j]), <<>>}
  BY <1>1 DEF Typed, Planning
<1>3. ServicePlans'
  <2>1. Tail(plan[j]) \in {<<"check", "announce", "push", "note">>, <<"announce", "push", "note">>}
          => plan[j] = <<"check", "announce", "push", "note">>
    BY <1>1, PlanSteps
  <2>2. <<>> \notin {<<"check", "announce", "push", "note">>, <<"announce", "push", "note">>}
    OBVIOUS
  <2>. QED
    BY <1>2, <2>1, <2>2 DEF ServicePlans
<1>4. \A c \in Coroutines : Carries(c)' = Carries(c) /\ Job(c)' = Job(c)
  BY <1>1 DEF Carries, Job
<1>5. CASE Push(j)
  <2>1. Queued' = Queued \cup {j} /\ UNCHANGED apiStatus
    BY <1>5, PushKeepsCustody DEF Push, shown
  <2>2. \A k \in Jobs : Carried(k) => Carried(k)'
    BY <1>2, <1>4, <2>1 DEF Carried
  <2>. QED
    BY <1>3, <2>1, <2>2 DEF HandsOver
<1>6. CASE Check(j) \/ Note(j)
  <2>1. UNCHANGED <<queue, apiStatus>> /\ Head(plan[j]) \in {"check", "note"}
    BY <1>6 DEF Check, Note, Planned, shown
  <2>2. Queued' = Queued
    BY <2>1 DEF Queued
  <2>3. plan[j] # <<"push", "note">>
    BY <2>1, PlanHeads
  <2>4. \A k \in Jobs : Carried(k) => Carried(k)'
    BY <1>2, <1>4, <2>2, <2>3 DEF Carried
  <2>. QED
    BY <1>3, <2>1, <2>4 DEF HandsOver
<1>7. CASE Announce(j)
  <2>1. /\ UNCHANGED queue /\ Head(plan[j]) = "announce" /\ plan' = [plan EXCEPT ![j] = Tail(@)]
        /\ apiStatus' = [apiStatus EXCEPT ![ApiOf[j]] = "queued"]
    BY <1>7 DEF Announce, Planned, Proceed, ShowApi
  <2>2. Queued' = Queued
    BY <2>1 DEF Queued
  <2>3. plan[j] = <<"announce", "push", "note">> /\ plan'[j] = <<"push", "note">> /\ SourceOf[j] = "service"
    BY <1>1, <2>1, PlanSteps DEF ServicePlans, Typed, Planning
  <2>4. \A k \in Jobs : Carried(k) => Carried(k)'
    BY <1>2, <1>4, <2>2, <2>3 DEF Carried
  <2>5. Carried(j)'
    BY <2>3 DEF Carried
  <2>6. \A a \in Apis \ {ApiOf[j]} : apiStatus'[a] = apiStatus[a]
    BY <2>1 DEF Typed
  <2>. QED
    BY <1>3, <2>4, <2>5, <2>6 DEF HandsOver
<1>. QED
  BY <1>5, <1>6, <1>7 DEF Enqueue

(* A coroutine's step: who was carried stays so, but for its own job.      *)
LEMMA OthersAreCarried ==
  ASSUME NEW c \in Coroutines, UNCHANGED plan, Queued \subseteq Queued',
         \A d \in Coroutines \ {c} : work'[d] = work[d],
         NEW k \in Jobs, Carried(k)
  PROVE  Carried(k)' \/ (Carries(c) /\ Job(c) = k)
<1>1. \A d \in Coroutines \ {c} : Carries(d)' = Carries(d) /\ Job(d)' = Job(d)
  BY DEF Carries, Job
<1>. QED
  BY <1>1 DEF Carried

LEMMA RunHandsOver ==
  ASSUME Typed, Custody, NEW c \in Coroutines, Run(c)
  PROVE  HandsOver
<1>1. UNCHANGED plan /\ \A d \in Coroutines \ {c} : work'[d] = work[d]
  BY DEF Run, Take, Acquire, NoteRunning, Skip, Prepare, LlmFails, LlmAnswers, Publish, Interrupted,
         GiveBack, NoteRetry, Bury, NoteDlq, NoteFailed, Go, End, Typed
<1>2. work[c].pc # "free" => Job(c) \in Jobs /\ ApiOf[Job(c)] \in Apis
  BY QueueAssumption DEF Typed, Job, JobMsg
<1>3. CASE Take(c)
  <2>1. UNCHANGED apiStatus /\ work[c].pc = "free"
    BY <1>3 DEF Take, At, shown
  <2>2. PICK m \in JobMsg : work' = [work EXCEPT ![c] = [pc |-> "waiting", msg |-> m]] /\ Queued' = Queued \ {m.job}
    <3>1. queue \in Seq(JobMsg) /\ queue # <<>> /\ Distinct(queue) /\ Queued = JobsIn(queue) /\ Queued' = JobsIn(queue')
      BY <1>3, QueuedAndDead DEF Take, Typed, Custody, Queued, JobsIn
    <3>2. Head(queue) \in JobMsg /\ JobsIn(Tail(queue)) = JobsIn(queue) \ {Head(queue).job}
      BY <3>1, TakenMessage
    <3>. QED
      BY <1>3, <3>1, <3>2 DEF Take
  <2>3. Carries(c)' /\ Job(c)' = m.job
    BY <2>2 DEF Carries, Job, Typed
  <2>4. \A d \in Coroutines \ {c} : Carries(d)' = Carries(d) /\ Job(d)' = Job(d)
    BY <1>1 DEF Carries, Job
  <2>5. ~ Carries(c)
    BY <2>1 DEF Carries
  <2>6. \A k \in Jobs : Carried(k) => Carried(k)'
    BY <1>1, <2>2, <2>3, <2>4, <2>5 DEF Carried
  <2>. QED
    BY <2>1, <2>6 DEF HandsOver
<1>4. CASE GiveBack(c)
  <2>1. Job(c) \in Jobs /\ Queued' = Queued \cup {Job(c)} /\ UNCHANGED apiStatus
    BY <1>4, GivingBackKeepsCustody DEF GiveBack, shown
  <2>2. \A k \in Jobs : k = Job(c) => Carried(k)'
    BY <2>1 DEF Carried
  <2>3. ASSUME NEW k \in Jobs, Carried(k) PROVE Carried(k)'
    BY <1>1, <2>1, <2>2, <2>3, OthersAreCarried
  <2>. QED
    BY <2>1, <2>3 DEF HandsOver
<1>5. ASSUME UNCHANGED queue PROVE Queued' = Queued
  BY <1>5 DEF Queued
<1>6. CASE NoteRetry(c)
  <2>1. UNCHANGED <<queue, apiStatus>> /\ ~ Carries(c)
    BY <1>6 DEF NoteRetry, At, Carries
  <2>2. ASSUME NEW k \in Jobs, Carried(k) PROVE Carried(k)'
    BY <1>1, <1>5, <2>1, <2>2, OthersAreCarried
  <2>. QED
    BY <2>1, <2>2 DEF HandsOver
<1>7. CASE Skip(c) \/ Publish(c) \/ NoteFailed(c)
  <2>1. UNCHANGED queue /\ work[c].pc # "free"
    BY <1>7 DEF Skip, Publish, NoteFailed, At
  <2>2. /\ apiStatus'[ApiOf[Job(c)]] \notin BusyStatus
        /\ \A a \in Apis : apiStatus'[a] \in BusyStatus => apiStatus[a] = apiStatus'[a]
    BY <1>2, <1>7, <2>1 DEF Skip, Publish, NoteFailed, ShowApi, shown, Typed, BusyStatus
  <2>3. ASSUME NEW k \in Jobs, Carried(k) PROVE Carried(k)' \/ k = Job(c)
    BY <1>1, <1>5, <2>1, <2>3, OthersAreCarried
  <2>. QED
    BY <2>2, <2>3 DEF HandsOver
<1>8. CASE \/ Acquire(c) \/ NoteRunning(c) \/ Prepare(c) \/ LlmFails(c) \/ LlmAnswers(c) \/ Interrupted(c)
           \/ Bury(c) \/ NoteDlq(c)
  <2>1. /\ UNCHANGED queue /\ work[c].pc \notin {"free", "requeued"}
        /\ \E pc \in {"ready", "running", "calling", "failing", "saved", "buried", "noted"} : Go(c, pc)
    BY <1>8 DEF Acquire, NoteRunning, Prepare, LlmFails, LlmAnswers, Interrupted, Bury, NoteDlq, At
  <2>2. Carries(c)' /\ Job(c)' = Job(c)
    BY <2>1 DEF Go, Carries, Job, Typed
  <2>3. \A k \in Jobs : k = Job(c) => Carried(k)'
    BY <2>2 DEF Carried
  <2>4. ASSUME NEW k \in Jobs, Carried(k) PROVE Carried(k)'
    BY <1>1, <1>5, <2>1, <2>3, <2>4, OthersAreCarried
  <2>5. \/ UNCHANGED apiStatus
        \/ ShowApi(Job(c), "running") \/ ShowApi(Job(c), "failed")
    BY <1>8 DEF Acquire, NoteRunning, Prepare, LlmFails, LlmAnswers, Interrupted, Bury, NoteDlq, shown
  <2>6. \A a \in Apis : apiStatus'[a] \in BusyStatus => apiStatus[a] \in BusyStatus \/ a = ApiOf[Job(c)]
    BY <1>2, <2>1, <2>5 DEF ShowApi, Typed
  <2>. QED
    BY <1>2, <2>1, <2>3, <2>4, <2>6 DEF HandsOver
<1>. QED
  BY <1>3, <1>4, <1>6, <1>7, <1>8 DEF Run

LEMMA BusyStaysCarried ==
  ASSUME Typed, Custody, ServicePlans, BusyIsCarried, [Next]_vars
  PROVE  ServicePlans' /\ BusyIsCarried'
<1>1. ASSUME NEW j \in Jobs, Enqueue(j) PROVE ServicePlans' /\ BusyIsCarried'
  <2>1. UNCHANGED crashes
    BY <1>1 DEF Enqueue, Check, Announce, Push, Note
  <2>. QED
    BY <1>1, <2>1, EnqueueHandsOver, HandingOverKeepsBusy
<1>2. ASSUME NEW c \in Coroutines, Run(c) PROVE ServicePlans' /\ BusyIsCarried'
  <2>1. UNCHANGED <<plan, crashes>>
    BY <1>2 DEF Run, Take, Acquire, NoteRunning, Skip, Prepare, LlmFails, LlmAnswers, Publish, Interrupted,
           GiveBack, NoteRetry, Bury, NoteDlq, NoteFailed
  <2>2. ServicePlans'
    BY <2>1 DEF ServicePlans
  <2>. QED
    BY <1>2, <2>1, <2>2, RunHandsOver, HandingOverKeepsBusy
<1>3. ASSUME (\E v \in pending : Accept(v)) \/ UNCHANGED vars PROVE ServicePlans' /\ BusyIsCarried'
  <2>1. UNCHANGED <<plan, queue, work, crashes>>
    BY <1>3 DEF Accept, vars, history
  <2>2. \A a \in Apis : apiStatus'[a] \in BusyStatus => apiStatus[a] = apiStatus'[a]
    BY <1>3, QueueAssumption DEF Accept, ShowApi, vars, shown, Typed, BusyStatus
  <2>3. \A k \in Jobs : Carried(k)' = Carried(k)
    BY <2>1 DEF Carried, Queued, Carries, Job
  <2>4. HandsOver
    BY <2>2, <2>3 DEF HandsOver
  <2>. QED
    BY <2>1, <2>4, HandingOverKeepsBusy DEF ServicePlans
<1>4. ASSUME Crash PROVE ServicePlans' /\ BusyIsCarried'
  <2>1. crashes' # 0
    BY <1>4, QueueAssumption DEF Crash, Typed
  <2>2. \A j \in Jobs : plan'[j] \in {plan[j], <<>>}
    BY <1>4 DEF Crash
  <2>3. <<>> \notin {<<"check", "announce", "push", "note">>, <<"announce", "push", "note">>}
    OBVIOUS
  <2>. QED
    BY <2>1, <2>2, <2>3 DEF BusyIsCarried, ServicePlans
<1>. QED
  BY <1>1, <1>2, <1>3, <1>4 DEF Next

(* No retry, timeout, skip or overtaking leaves an API shown as busy when  *)
(* no job for it is under way.                                             *)
THEOREM BusyIsTrue == Spec => []ShownBusyIsBusy
<1>1. Init => ServicePlans /\ BusyIsCarried
  <2> SUFFICES ASSUME Init PROVE ServicePlans /\ BusyIsCarried
    OBVIOUS
  <2>1. ASSUME NEW j \in Jobs, SourceOf[j] # "service"
        PROVE  plan[j] \notin {<<"check", "announce", "push", "note">>, <<"announce", "push", "note">>}
    <3>1. plan[j] \in {<<"push", "note">>, <<"note", "push">>}
      BY <2>1, QueueAssumption DEF Init, PlanOf
    <3>2. /\ <<"push", "note">> \notin {<<"check", "announce", "push", "note">>, <<"announce", "push", "note">>}
          /\ <<"note", "push">> \notin {<<"check", "announce", "push", "note">>, <<"announce", "push", "note">>}
      OBVIOUS
    <3>. QED
      BY <3>1, <3>2
  <2>2. \A a \in Apis : apiStatus[a] \notin BusyStatus
    BY DEF Init, BusyStatus
  <2>. QED
    BY <2>1, <2>2 DEF ServicePlans, BusyIsCarried
<1>2. Typed /\ Custody /\ BusyIsCarried => ShownBusyIsBusy
  <2> SUFFICES ASSUME Typed, Custody, BusyIsCarried, crashes = 0,
                      NEW a \in Apis, apiStatus[a] \in {"queued", "running"}
               PROVE  \E j \in UnderWay : ApiOf[j] = a
    BY DEF ShownBusyIsBusy
  <2>1. PICK j \in Jobs : ApiOf[j] = a /\ Carried(j)
    BY DEF BusyIsCarried, BusyStatus
  <2>2. ASSUME plan[j] = <<"push", "note">>, SourceOf[j] = "service" PROVE Entering(j)
    <3>1. /\ PlanOf(j) = <<"check", "announce", "push", "note">>
          /\ <<"push", "note">> # <<>> /\ <<"push", "note">> # <<"check", "announce", "push", "note">>
      BY <2>2 DEF PlanOf
    <3>. QED
      BY <2>2, <3>1 DEF Entering
  <2>3. j \in UnderWay
    BY <2>1, <2>2 DEF Carried, UnderWay, Busy, Carries
  <2>. QED
    BY <2>1, <2>3
<1>3. Typed /\ Custody /\ (ServicePlans /\ BusyIsCarried) /\ [Next]_vars => (ServicePlans /\ BusyIsCarried)'
  BY BusyStaysCarried
<1>. QED
  BY <1>1, <1>2, <1>3, Always, PTL DEF Spec
------------------------------------------------------------------------------
(* What a job shows.  With one slot there is one coroutine inside, so the  *)
(* note of a retry cannot come after the burial it precedes.               *)
OneInside == Concurrency = 1 => \A c, d \in Inside : c = d
RetryIsFresh == Concurrency = 1 => \A c \in Coroutines : work[c].pc = "requeued" => Job(c) \notin Dead
DeadIsShown ==
  crashes = 0 => \A j \in Dead : SourceOf[j] = "har" =>
    \/ jobStatus[j] \in {"dlq"} \cup Outrun
    \/ \E c \in Coroutines : work[c].pc = "buried" /\ Job(c) = j
Noted == OneInside /\ RetryIsFresh /\ DeadIsShown

LEMMA OneGoesIn ==
  ASSUME Typed, OneInside, NEW c \in Coroutines, Run(c)
  PROVE  OneInside'
<1> SUFFICES ASSUME Concurrency = 1 PROVE \A x, y \in Inside' : x = y
  BY DEF OneInside
<1>1. \A d \in Coroutines \ {c} : work'[d] = work[d]
  BY DEF Run, Take, Acquire, NoteRunning, Skip, Prepare, LlmFails, LlmAnswers, Publish, Interrupted,
         GiveBack, NoteRetry, Bury, NoteDlq, NoteFailed, Go, End, Typed
<1>2. CASE Acquire(c)
  <2>1. Inside = {}
    <3>1. SUFFICES ASSUME NEW d \in Inside PROVE FALSE
      OBVIOUS
    <3>2. Inside = {d}
      BY <3>1 DEF OneInside
    <3>3. Cardinality(Inside) = 1
      BY <3>2, FS_Singleton
    <3>. QED
      BY <1>2, <3>3 DEF Acquire
  <2>. QED
    BY <1>1, <2>1 DEF Inside
<1>3. CASE ~ Acquire(c)
  <2>1. CASE Take(c)
    <3>1. work'[c].pc = "waiting"
      BY <2>1 DEF Take, Typed
    <3>2. Inside' \subseteq Inside
      BY <1>1, <3>1 DEF Inside
    <3>. QED
      BY <3>2 DEF OneInside
  <2>2. CASE ~ Take(c)
    <3>1. work[c].pc \notin {"free", "waiting"}
      BY <1>3, <2>2 DEF Run, NoteRunning, Skip, Prepare, LlmFails, LlmAnswers, Publish, Interrupted,
           GiveBack, NoteRetry, Bury, NoteDlq, NoteFailed, At
    <3>2. Inside' \subseteq Inside
      BY <1>1, <3>1 DEF Inside
    <3>. QED
      BY <3>2 DEF OneInside
  <2>. QED
    BY <2>1, <2>2
<1>. QED
  BY <1>2, <1>3

(* A step of a coroutine that neither buries a job, nor gives one back,    *)
(* nor notes a dead one.                                                   *)
LEMMA RunKeepsNotes ==
  ASSUME Typed, Custody, Typed', Custody', OneInside, RetryIsFresh, DeadIsShown,
         NEW c \in Coroutines, Run(c)
  PROVE  RetryIsFresh' /\ DeadIsShown'
<1>1. /\ \A d \in Coroutines \ {c} : work'[d] = work[d] /\ Job(d)' = Job(d)
      /\ UNCHANGED crashes
  <2>1. UNCHANGED crashes
    BY DEF Run, Take, Acquire, NoteRunning, Skip, Prepare, LlmFails, LlmAnswers, Publish, Interrupted,
           GiveBack, NoteRetry, Bury, NoteDlq, NoteFailed, history
  <2>2. \A d \in Coroutines \ {c} : work'[d] = work[d]
    BY ZenonT(30) DEF Run, Take, Acquire, NoteRunning, Skip, Prepare, LlmFails, LlmAnswers, Publish, Interrupted,
           GiveBack, NoteRetry, Bury, NoteDlq, NoteFailed, Go, End, Typed
  <2>. QED
    BY <2>1, <2>2 DEF Job
<1>2. ASSUME UNCHANGED dlq PROVE Dead' = Dead
  BY <1>2 DEF Dead
<1>3. ASSUME UNCHANGED dlq, work'[c].pc # "requeued" PROVE RetryIsFresh'
  BY <1>1, <1>2, <1>3 DEF RetryIsFresh
<1>4. ASSUME UNCHANGED dlq, work[c].pc # "buried",
             \A j \in Dead : SourceOf[j] = "har" => jobStatus'[j] \in {jobStatus[j]} \cup Outrun
      PROVE  DeadIsShown'
  BY <1>1, <1>2, <1>4 DEF DeadIsShown
<1>5. CASE GiveBack(c)
  <2>1. /\ UNCHANGED <<dlq, jobStatus>> /\ work[c].pc = "failing" /\ Go(c, "requeued")
        /\ Job(c) \in Jobs /\ Job(c) \in Queued' /\ Dead' = Dead
    BY <1>5, GivingBackKeepsCustody DEF GiveBack, At, shown
  <2>2. Job(c)' = Job(c) /\ Job(c) \notin Dead'
    BY <2>1 DEF Go, Job, Typed, Custody, Apart
  <2>3. RetryIsFresh'
    BY <1>1, <2>1, <2>2 DEF RetryIsFresh
  <2>. QED
    BY <1>4, <2>1, <2>3
<1>6. CASE Bury(c)
  <2>1. /\ UNCHANGED jobStatus /\ work[c].pc = "failing" /\ Go(c, "buried")
        /\ Dead' = Dead \cup {Job(c)}
    BY <1>6, BuryingKeepsCustody DEF Bury, At, shown
  <2>2. work'[c].pc = "buried" /\ Job(c)' = Job(c)
    BY <2>1 DEF Go, Job, Typed
  <2>3. RetryIsFresh'
    <3>1. \A d \in Coroutines \ {c} : Concurrency = 1 => work[d].pc # "requeued"
      BY <2>1 DEF OneInside, Inside
    <3>. QED
      BY <1>1, <2>2, <3>1 DEF RetryIsFresh
  <2>4. DeadIsShown'
    BY <1>1, <2>1, <2>2 DEF DeadIsShown
  <2>. QED
    BY <2>3, <2>4
<1>7. CASE NoteDlq(c)
  <2>1. /\ UNCHANGED dlq /\ work[c].pc = "buried" /\ Go(c, "noted")
        /\ jobStatus' = [jobStatus EXCEPT ![Job(c)] = "dlq"] /\ Job(c) \in Jobs
    BY <1>7 DEF NoteDlq, At, ShowJob, Typed, JobMsg, Job
  <2>2. /\ jobStatus'[Job(c)] = "dlq" /\ work'[c].pc = "noted"
        /\ \A j \in Jobs \ {Job(c)} : jobStatus'[j] = jobStatus[j]
    BY <2>1 DEF Go, Typed
  <2>3. \A j \in Dead : j \in Jobs
    BY MessagesOfJobs, QueuedAndDead DEF Typed
  <2>4. DeadIsShown'
    BY <1>1, <1>2, <2>1, <2>2, <2>3 DEF DeadIsShown
  <2>. QED
    BY <1>3, <2>1, <2>2, <2>4
<1>8. CASE NoteRetry(c)
  <2>1. /\ UNCHANGED dlq /\ work[c].pc = "requeued" /\ End(c)
        /\ jobStatus' = [jobStatus EXCEPT ![Job(c)] = "retry"]
    BY <1>8 DEF NoteRetry, At, ShowJob
  <2>2. work'[c].pc = "free"
    BY <2>1 DEF End, Idle, Typed
  <2>3. \A j \in Dead : jobStatus'[j] \in {jobStatus[j]} \cup Outrun
    <3>1. \A j \in Dead : j \in Jobs
      BY MessagesOfJobs, QueuedAndDead DEF Typed
    <3>2. CASE Concurrency = 1
      BY <2>1, <3>1, <3>2 DEF RetryIsFresh, Typed
    <3>3. CASE Concurrency > 1
      BY <2>1, <3>1, <3>3 DEF Outrun, Typed
    <3>. QED
      BY <3>2, <3>3, QueueAssumption
  <2>. QED
    BY <1>3, <1>4, <2>1, <2>2, <2>3
<1>9. CASE NoteRunning(c) \/ LlmAnswers(c)
  <2>1. /\ UNCHANGED dlq /\ Holding(c) /\ work[c].pc # "buried" /\ work'[c].pc \in {"running", "saved"}
        /\ \E s \in JobStates : jobStatus' = [jobStatus EXCEPT ![Job(c)] = s]
    BY <1>9 DEF NoteRunning, LlmAnswers, At, ShowJob, JobStates, Go, Holding, Typed
  <2>2. \A j \in Dead : j \in Jobs /\ j # Job(c)
    <3>1. \A j \in Dead : j \in Jobs
      BY MessagesOfJobs, QueuedAndDead DEF Typed
    <3>. QED
      BY <2>1, <3>1 DEF Custody, Apart, Held
  <2>3. \A j \in Dead : jobStatus'[j] = jobStatus[j]
    BY <2>1, <2>2 DEF Typed
  <2>. QED
    BY <1>3, <1>4, <2>1, <2>3
<1>10. CASE Take(c) \/ Acquire(c) \/ Skip(c) \/ Prepare(c) \/ LlmFails(c) \/ Publish(c) \/ Interrupted(c) \/ NoteFailed(c)
  <2>1. /\ UNCHANGED <<dlq, jobStatus>> /\ work[c].pc # "buried" /\ work'[c].pc # "requeued"
    BY <1>10 DEF Take, Acquire, Skip, Prepare, LlmFails, Publish, Interrupted, NoteFailed, At, Go, End, Idle,
                 shown, Typed
  <2>. QED
    BY <1>3, <1>4, <2>1
<1>. QED
  BY <1>5, <1>6, <1>7, <1>8, <1>9, <1>10 DEF Run

LEMMA NotesStay ==
  ASSUME Typed, Custody, Typed', Custody', Noted, [Next]_vars
  PROVE  Noted'
<1>1. ASSUME NEW c \in Coroutines, Run(c) PROVE Noted'
  BY <1>1, OneGoesIn, RunKeepsNotes DEF Noted
<1>2. ASSUME UNCHANGED <<dlq, work, crashes>>,
             \A j \in Dead : SourceOf[j] = "har" => jobStatus'[j] = jobStatus[j]
      PROVE  Noted'
  <2>1. Dead' = Dead /\ Inside' = Inside /\ \A c \in Coroutines : Job(c)' = Job(c)
    BY <1>2 DEF Dead, Inside, Job
  <2>. QED
    BY <1>2, <2>1 DEF Noted, OneInside, RetryIsFresh, DeadIsShown
<1>3. ASSUME NEW j \in Jobs, Enqueue(j) PROVE Noted'
  <2>1. UNCHANGED <<dlq, work, crashes>>
    BY <1>3 DEF Enqueue, Check, Announce, Push, Note
  <2>2. \A k \in Dead : SourceOf[k] = "har" => jobStatus'[k] = jobStatus[k]
    <3>1. CASE Note(j)
      <4>1. /\ plan[j] # <<>> /\ plan[j] \in Plans /\ Head(plan[j]) = "note"
            /\ jobStatus' = [jobStatus EXCEPT ![j] = "queued"]
        BY <3>1 DEF Note, Planned, ShowJob, Typed, Planning
      <4>2. SourceOf[j] = "har" => plan[j] = <<"note", "push">>
        <5>1. SourceOf[j] = "har" => plan[j] \in HarPlans
          BY DEF Typed, Planning
        <5>. QED
          BY <4>1, <5>1, PlanHeads DEF HarPlans
      <4>3. <<"note", "push">> \notin {<<>>, <<"note">>}
        OBVIOUS
      <4>4. SourceOf[j] = "har" => j \notin Dead
        BY <4>2, <4>3 DEF Custody, Apart, Unpushed
      <4>. QED
        BY <4>1, <4>4 DEF Typed
    <3>2. CASE ~ Note(j)
      BY <1>3, <3>2 DEF Enqueue, Check, Announce, Push, shown
    <3>. QED
      BY <3>1, <3>2
  <2>. QED
    BY <1>2, <2>1, <2>2
<1>4. ASSUME (\E v \in pending : Accept(v)) \/ UNCHANGED vars PROVE Noted'
  BY <1>2, <1>4 DEF Accept, vars, shown, history
<1>5. ASSUME Crash PROVE Noted'
  <2>1. crashes' # 0 /\ \A c \in Coroutines : work'[c].pc = "free"
    BY <1>5, QueueAssumption DEF Crash, Typed, Idle
  <2>. QED
    BY <2>1 DEF Noted, OneInside, Inside, RetryIsFresh, DeadIsShown
<1>. QED
  BY <1>1, <1>3, <1>4, <1>5 DEF Next

(* A job of the HAR import that is given up is shown as given up, or, with *)
(* more than one slot, as due for a retry: never as queued, running or     *)
(* waiting for review.                                                     *)
THEOREM GivenUpIsShown == Spec => []NotedFirstIsShown
<1>1. Init => Noted
  <2>1. Init => Dead = {} /\ Inside = {} /\ \A c \in Coroutines : work[c].pc = "free"
    BY DEF Init, Dead, Inside, Idle
  <2>. QED
    BY <2>1 DEF Noted, OneInside, RetryIsFresh, DeadIsShown
<1>2. Noted => NotedFirstIsShown
  BY DEF Noted, DeadIsShown, NotedFirstIsShown, UnderWay, Busy
<1>3. (Typed /\ Custody) /\ (Typed /\ Custody)' /\ Noted /\ [Next]_vars => Noted'
  BY NotesStay
<1>. QED
  BY <1>1, <1>2, <1>3, Always, PTL DEF Spec
==============================================================================
