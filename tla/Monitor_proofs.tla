---------------------------- MODULE Monitor_proofs -----------------------------
(* What was sent is on record, an alert has its streak behind it and ends *)
(* it, one is sent in a window at most, a recovery ends a failure, and run *)
(* now reports nothing stale: for any number of checks, bodies, overlaps   *)
(* and troubles.                                                           *)
EXTENDS Monitor, MonitorSchedule, FiniteSetTheorems, TLAPS

Stages == {"new", "call", "compare", "prev", "count", "write", "status", "save",
           "dedup", "push", "mark", "enqueue", "done"}
(* As much of the types as the records need: the counts are numbers. *)
Shape ==
  /\ result \in [Checks -> Bodies \cup {"none", "error"}]
  /\ check \in [Checks -> [at : Stages, diff : BOOLEAN, prev : BOOLEAN, count : Nat]]
  /\ failCount \in Nat /\ prevPassed \in BOOLEAN
  /\ faults \in Nat /\ crashes \in Nat

(* Between its saving and its end a check means one notice, which is in    *)
(* the records unless a call failed, and is among those sent after Push.   *)
Saved(r) == check[r].at \in {"dedup", "push"} /\ faults = 0 => Notice(r) \in alerts
Sent(r) == check[r].at \in {"mark", "enqueue"} => Notice(r) \in pushed
Alerting(r) == check[r].at \in {"dedup", "enqueue"} => ~ Recovers(r)
Assessed == \A r \in assess : <<r, FALSE>> \in pushed
OnRecord == faults = 0 => pushed \subseteq alerts
Records ==
  /\ Shape /\ OnRecord /\ Assessed
  /\ \A r \in Checks : Saved(r) /\ Sent(r) /\ Alerting(r)

LEMMA RecordsAtFirst == Init => Records
BY MonitorAssumption
   DEF Init, Records, Shape, Stages, OnRecord, Assessed, Saved, Sent, Alerting, Unstarted

(* What a step of one check r does to the records follows from what it     *)
(* does to that check alone: the others mean the notices they meant, and   *)
(* records and notices are never taken back.                               *)
LEMMA OthersKeepTheirs ==
  ASSUME Records, Shape', NEW r \in Checks,
         \A s \in Checks \ {r} : check'[s] = check[s] /\ result'[s] = result[s],
         alerts \subseteq alerts', pushed \subseteq pushed', faults' = 0 => faults = 0,
         OnRecord', Assessed', Saved(r)', Sent(r)', Alerting(r)'
  PROVE  Records'
<1>1. \A s \in Checks \ {r} : Notice(s)' = Notice(s) /\ Recovers(s)' = Recovers(s)
  BY DEF Notice, Recovers, ShouldAlert, IsRecovery, Passed
<1>2. ASSUME NEW s \in Checks \ {r}
      PROVE  Saved(s)' /\ Sent(s)' /\ Alerting(s)'
  BY <1>1, <1>2 DEF Records, Saved, Sent, Alerting
<1>. QED
  BY <1>2 DEF Records

(* The first half, up to the decision: nothing is recorded or sent. *)
Deciding(r) ==
  Begin(r) \/ Call(r) \/ Compare(r) \/ ReadPrev(r) \/ ReadCount(r) \/ WriteCount(r) \/ WriteStatus(r)
LEMMA DecidingKeepsShape ==
  ASSUME Shape, NEW r \in Checks, Deciding(r)
  PROVE  Shape'
<1> USE DEF Shape, Stages, Go, redis, outcome, bounds, Raises
<1>1. CASE Begin(r)
  BY <1>1 DEF Begin
<1>2. CASE Call(r)
  BY <1>2 DEF Call
<1>3. CASE Compare(r)
  <2>1. Differs(r) \in BOOLEAN
    BY DEF Differs
  <2>. QED
    BY ZenonT(30), <1>3, <2>1 DEF Compare
<1>4. CASE ReadPrev(r)
  <2>1. PICK bad \in BOOLEAN :
          /\ faults' \in {faults, faults + 1} /\ UNCHANGED <<crashes, result, failCount, prevPassed>>
          /\ check' = [check EXCEPT ![r].at = "count", ![r].prev = bad \/ prevPassed]
    BY <1>4 DEF ReadPrev
  <2>2. PICK prev \in BOOLEAN : check' = [check EXCEPT ![r].at = "count", ![r].prev = prev]
    BY <2>1
  <2>3. check' \in [Checks -> [at : Stages, diff : BOOLEAN, prev : BOOLEAN, count : Nat]]
    BY ZenonT(30), <2>2
  <2>. QED
    BY <2>1, <2>3
<1>5. CASE ReadCount(r)
  <2>1. PICK n \in Nat : check' = [check EXCEPT ![r].at = "write", ![r].count = n]
    <3>1. \A n \in Nat : NewCount(r, n) \in Nat
      BY DEF NewCount
    <3>. QED
      BY <1>5, <3>1 DEF ReadCount
  <2>2. faults' \in {faults, faults + 1} /\ UNCHANGED <<crashes, result, failCount, prevPassed>>
    BY <1>5 DEF ReadCount
  <2>3. check' \in [Checks -> [at : Stages, diff : BOOLEAN, prev : BOOLEAN, count : Nat]]
    BY ZenonT(30), <2>1
  <2>. QED
    BY <2>2, <2>3
<1>6. CASE WriteCount(r)
  BY <1>6 DEF WriteCount
<1>7. CASE WriteStatus(r)
  <2>1. Passed(r) \in BOOLEAN
    BY DEF Passed
  <2>2. prevPassed' \in BOOLEAN
    BY <1>7, <2>1 DEF WriteStatus
  <2>3. PICK at \in {"save", "done"} : check' = [check EXCEPT ![r].at = at]
    BY <1>7 DEF WriteStatus
  <2>4. faults' \in {faults, faults + 1} /\ UNCHANGED <<crashes, result, failCount>>
    BY <1>7 DEF WriteStatus
  <2>. QED
    BY <2>2, <2>3, <2>4
<1>. QED
  BY <1>1, <1>2, <1>3, <1>4, <1>5, <1>6, <1>7 DEF Deciding

LEMMA DecidingRecordsNothing ==
  ASSUME Records, NEW r \in Checks, Deciding(r)
  PROVE  Records'
<1>1. Shape'
  BY DecidingKeepsShape DEF Records
<1>2. /\ \A s \in Checks \ {r} : check'[s] = check[s] /\ result'[s] = result[s]
      /\ check'[r].at \in {"call", "compare", "prev", "count", "write", "status", "save", "done"}
      /\ UNCHANGED <<alerts, pushed, assess>>
      /\ faults' = 0 => faults = 0
  BY DEF Records, Shape, Deciding, Begin, Call, Compare, ReadPrev, ReadCount, WriteCount, WriteStatus,
         Go, redis, outcome, bounds, Raises
<1>3. OnRecord' /\ Assessed' /\ Saved(r)' /\ Sent(r)' /\ Alerting(r)'
  BY <1>2 DEF Records, OnRecord, Assessed, Saved, Sent, Alerting
<1>. QED
  BY <1>1, <1>2, <1>3, OthersKeepTheirs

(* The second half: the notice of a check stays the one it saved. *)
Alarming(r) == Save(r) \/ Dedup(r) \/ Push(r) \/ Mark(r) \/ Enqueue(r)
LEMMA AlarmingKeepsShape ==
  ASSUME Shape, NEW r \in Checks, Alarming(r)
  PROVE  /\ Shape'
         /\ \A s \in Checks : Notice(s)' = Notice(s) /\ Recovers(s)' = Recovers(s)
         /\ \A s \in Checks \ {r} : check'[s] = check[s] /\ result'[s] = result[s]
         /\ alerts \subseteq alerts' /\ pushed \subseteq pushed' /\ (faults' = 0 => faults = 0)
<1>1. PICK at \in Stages : check' = [check EXCEPT ![r].at = at]
  BY DEF Alarming, Save, Dedup, Push, Mark, Enqueue, Go, Stages
<1>2. /\ UNCHANGED <<result, failCount, prevPassed>>
      /\ alerts \subseteq alerts' /\ pushed \subseteq pushed'
      /\ faults' \in {faults, faults + 1} /\ crashes' = crashes
  BY DEF Alarming, Save, Dedup, Push, Mark, Enqueue, redis, outcome, bounds, Raises
<1>3. Shape'
  BY <1>1, <1>2 DEF Shape
<1>4. \A s \in Checks : /\ check'[s].diff = check[s].diff /\ check'[s].prev = check[s].prev
                        /\ check'[s].count = check[s].count
  BY <1>1 DEF Shape
<1>5. \A s \in Checks : Notice(s)' = Notice(s) /\ Recovers(s)' = Recovers(s)
  BY <1>2, <1>4 DEF Notice, Recovers, ShouldAlert, IsRecovery, Passed
<1>6. \A s \in Checks \ {r} : check'[s] = check[s]
  BY <1>1 DEF Shape
<1>7. faults' = 0 => faults = 0
  BY <1>2 DEF Shape
<1>. QED
  BY <1>2, <1>3, <1>5, <1>6, <1>7

LEMMA AlarmingRecordsFirst ==
  ASSUME Records, NEW r \in Checks, Alarming(r)
  PROVE  Records'
<1> USE DEF Records, OnRecord, Assessed, Saved, Sent, Alerting, Go, redis, outcome, bounds, Raises
<1>0. /\ Shape'
      /\ \A s \in Checks : Notice(s)' = Notice(s) /\ Recovers(s)' = Recovers(s)
      /\ \A s \in Checks \ {r} : check'[s] = check[s] /\ result'[s] = result[s]
      /\ alerts \subseteq alerts' /\ pushed \subseteq pushed' /\ (faults' = 0 => faults = 0)
  BY AlarmingKeepsShape
<1>1. CASE Save(r)
  <2>1. check'[r].at = IF Recovers(r) THEN "push" ELSE "dedup"
    BY <1>1 DEF Save, Shape
  <2>2. faults' = 0 => Notice(r) \in alerts'
    BY <1>1 DEF Save, Shape
  <2>3. UNCHANGED <<pushed, assess>>
    BY <1>1 DEF Save
  <2>4. OnRecord' /\ Assessed' /\ Saved(r)' /\ Sent(r)' /\ Alerting(r)'
    BY <1>0, <2>1, <2>2, <2>3
  <2>. QED
    BY <1>0, <2>4, OthersKeepTheirs
<1>2. CASE Dedup(r)
  <2>1. check[r].at = "dedup" /\ check'[r].at \in {"push", "done"} /\ UNCHANGED <<alerts, pushed, assess>>
    BY <1>2 DEF Dedup, Shape, At
  <2>. QED
    BY <1>0, <2>1, OthersKeepTheirs
<1>3. CASE Push(r)
  <2>1. check[r].at = "push" /\ check'[r].at = "mark" /\ UNCHANGED <<alerts, assess, faults>>
    BY <1>3 DEF Push, Shape, At
  <2>2. pushed' = pushed \cup {Notice(r)}
    BY <1>3 DEF Push
  <2>. QED
    BY <1>0, <2>1, <2>2, OthersKeepTheirs
<1>4. CASE Mark(r)
  <2>1. /\ check[r].at = "mark" /\ UNCHANGED <<alerts, pushed, assess>>
        /\ check'[r].at = IF Recovers(r) THEN "done" ELSE "enqueue"
    BY <1>4 DEF Mark, Shape, At
  <2>. QED
    BY <1>0, <2>1, OthersKeepTheirs
<1>5. CASE Enqueue(r)
  <2>1. check[r].at = "enqueue" /\ check'[r].at = "done" /\ UNCHANGED <<alerts, pushed>>
    BY <1>5 DEF Enqueue, Shape, At
  <2>2. assess' \subseteq assess \cup {r}
    BY <1>5 DEF Enqueue
  <2>3. <<r, FALSE>> \in pushed
    BY <2>1 DEF Notice, Recovers
  <2>. QED
    BY <1>0, <2>1, <2>2, <2>3, OthersKeepTheirs
<1>. QED
  BY <1>1, <1>2, <1>3, <1>4, <1>5 DEF Alarming

(* A crash ends what is under way, an expiry and a report touch no record. *)
LEMMA AroundKeepsRecords ==
  ASSUME Records,
         Crash \/ (\E f \in Fingerprints : Expire(f)) \/ (\E r \in RunNow : Report(r)) \/ UNCHANGED vars
  PROVE  Records'
<1> USE DEF redis, outcome, bounds
<1>1. CASE Crash
  <2>1. /\ Shape' /\ UNCHANGED <<result, alerts, pushed, assess, faults>>
        /\ \A s \in Checks : check'[s] = check[s] \/ check'[s].at = "done"
    BY <1>1 DEF Crash, Records, Shape, Stages, UnderWay
  <2>2. ASSUME NEW s \in Checks PROVE Saved(s)' /\ Sent(s)' /\ Alerting(s)'
    BY <2>1, <2>2
       DEF Records, Saved, Sent, Alerting, Notice, Recovers, ShouldAlert, IsRecovery, Passed
  <2>. QED
    BY <2>1, <2>2 DEF Records, OnRecord, Assessed
<1>2. ASSUME UNCHANGED <<result, check, failCount, prevPassed, alerts, assess, pushed, crashes>>,
             faults' \in {faults, faults + 1}
      PROVE  Records'
  <2>1. Shape' /\ (faults' = 0 => faults = 0)
    BY <1>2 DEF Records, Shape
  <2>2. \A r \in Checks : Notice(r)' = Notice(r) /\ Recovers(r)' = Recovers(r)
    BY <1>2 DEF Notice, Recovers, ShouldAlert, IsRecovery, Passed
  <2>. QED
    BY <1>2, <2>1, <2>2 DEF Records, OnRecord, Assessed, Saved, Sent, Alerting
<1>3. CASE \E f \in Fingerprints : Expire(f)
  BY <1>2, <1>3 DEF Expire
<1>4. CASE \E r \in RunNow : Report(r)
  BY <1>2, <1>4 DEF Report, Raises
<1>5. CASE UNCHANGED vars
  BY <1>2, <1>5 DEF vars
<1>. QED
  BY <1>1, <1>3, <1>4, <1>5

LEMMA RecordsStay == Records /\ [Next]_vars => Records'
<1> SUFFICES ASSUME Records, [Next]_vars PROVE Records'
  OBVIOUS
<1>1. ASSUME NEW r \in Checks, RunMonitor(r) PROVE Records'
  BY <1>1, DecidingRecordsNothing, AlarmingRecordsFirst DEF RunMonitor, Deciding, Alarming
<1>. QED
  BY <1>1, AroundKeepsRecords DEF Next

(* A notice that was sent is among the records unless a call failed, and   *)
(* an alert that went to the analysis was sent (monitor.py:6): however     *)
(* checks overlap, whatever is answered and wherever the process dies.     *)
THEOREM WhatWasSentIsRecorded == Spec => []SentIsRecorded
<1>1. Init => Records
  BY RecordsAtFirst
<1>2. Records /\ [Next]_vars => Records'
  BY RecordsStay
<1>3. Records => SentIsRecorded
  BY DEF Records, OnRecord, Assessed, SentIsRecorded
<1>. QED
  BY <1>1, <1>2, <1>3, PTL DEF Spec
------------------------------------------------------------------------------
(* Checks one by one.  While no two overlap, no call fails and the process *)
(* lives, a check that has started finds those before it done, so its      *)
(* count is the length of the run of bad checks it ends.                   *)
Late == {"status", "save", "dedup", "push", "mark", "enqueue", "done"}
Run(r) == {s \in 1..r : \A t \in s..r : Bad(t)}

InOrder == \A r \in Checks : ~ At(r, "new") => \A s \in 1..(r - 1) : At(s, "done")
Compared(r) ==
  /\ result[r] = "none" <=> check[r].at \in {"new", "call"}
  /\ check[r].at \notin {"new", "call", "compare"} => (Bad(r) <=> ~ Passed(r) \/ check[r].diff)
Tallied(r) == check[r].at \in Late \cup {"write"} => check[r].count = Cardinality(Run(r))
Alerted(r) ==
  /\ <<r, FALSE>> \in alerts <=>
       check[r].at \in {"dedup", "push", "mark", "enqueue", "done"} /\ ShouldAlert(r)
  /\ check[r].at \in {"save", "dedup", "push", "mark", "enqueue"} => ShouldAlert(r) \/ Recovers(r)
Settled(r) == Compared(r) /\ Tallied(r) /\ Alerted(r)
Counted ==
  /\ counted = {r \in Checks : check[r].at \in Late}
  /\ \A r \in 0..MaxChecks : counted = 1..r => failCount = Cardinality(Run(r))
(* An alert sent is marked, or about to be; one about to be sent is free. *)
Windowed ==
  /\ recent \in [Fingerprints -> {0, 1}] /\ window \in [Fingerprints -> {"free", "alert", "recovery"}]
  /\ \A f \in Fingerprints : recent[f] = 1 /\ window[f] = "free" =>
       \E r \in Checks : At(r, "mark") /\ Fingerprint(r) = f
  /\ \A r \in Checks : At(r, "push") /\ ~ Recovers(r) => window[Fingerprint(r)] = "free"
Steady == InOrder /\ (\A r \in Checks : Settled(r)) /\ Counted /\ Windowed

LEMMA ChecksAreNumbered ==
  /\ MaxChecks \in Nat /\ 0..MaxChecks \subseteq Nat
  /\ \A r \in Checks : r \in Nat /\ r > 0 /\ r <= MaxChecks /\ 1..r \subseteq Checks /\ 1..(r - 1) \subseteq Checks
BY MonitorAssumption DEF Checks

LEMMA SteadyAtFirst == Init => Steady
<1> SUFFICES ASSUME Init PROVE Steady
  OBVIOUS
<1>1. \A r \in Checks : check[r].at = "new" /\ result[r] = "none"
  BY DEF Init, Unstarted
<1>2. InOrder /\ \A r \in Checks : Settled(r)
  BY <1>1 DEF Init, InOrder, Settled, Compared, Tallied, Alerted, At, Late
<1>3. counted = {r \in Checks : check[r].at \in Late}
  BY <1>1 DEF Init, Late
<1>4. ASSUME NEW r \in 0..MaxChecks, counted = 1..r PROVE failCount = Cardinality(Run(r))
  <2>1. r = 0
    BY <1>4, ChecksAreNumbered DEF Init
  <2>2. Run(r) = {}
    BY <2>1 DEF Run
  <2>. QED
    BY <2>2, FS_EmptySet DEF Init
<1>5. Windowed
  BY <1>1 DEF Init, Windowed, At
<1>. QED
  BY <1>2, <1>3, <1>4, <1>5 DEF Steady, Counted

(* A bad check makes the run it ends one longer, a good one ends it. *)
LEMMA RunGrows ==
  ASSUME NEW r \in Checks
  PROVE  /\ Cardinality(Run(r - 1)) \in Nat
         /\ Cardinality(Run(r)) = IF Bad(r) THEN Cardinality(Run(r - 1)) + 1 ELSE 0
<1>1. r \in Nat /\ r > 0
  BY ChecksAreNumbered
<1>2. IsFiniteSet(Run(r - 1))
  <2>1. IsFiniteSet(1..(r - 1))
    BY <1>1, FS_Interval
  <2>2. Run(r - 1) \subseteq 1..(r - 1)
    BY DEF Run
  <2>. QED
    BY <2>1, <2>2, FS_Subset
<1>3. Cardinality(Run(r - 1)) \in Nat
  BY <1>2, FS_CardinalityType
<1>4. CASE Bad(r)
  <2>1. Run(r) = Run(r - 1) \cup {r} /\ r \notin Run(r - 1)
    BY <1>1, <1>4 DEF Run
  <2>2. Cardinality(Run(r)) = Cardinality(Run(r - 1)) + 1
    BY <1>2, <2>1, FS_AddElement
  <2>. QED
    BY <1>3, <1>4, <2>2
<1>5. CASE ~ Bad(r)
  <2>1. Run(r) = {}
    BY <1>1, <1>5 DEF Run
  <2>. QED
    BY <1>3, <1>5, <2>1, FS_EmptySet
<1>. QED
  BY <1>4, <1>5

(* Whether a check is bad, and the run it ends, is a matter of the past. *)
LEMMA RunIsPast ==
  ASSUME NEW r \in 0..MaxChecks, \A s \in 1..r : result'[s] = result[s]
  PROVE  Run(r)' = Run(r) /\ (r > 0 => (Bad(r)' <=> Bad(r)))
<1>1. r \in Nat
  BY ChecksAreNumbered
<1>2. \A s \in 1..r : Passed(s)' = Passed(s)
  BY DEF Passed
<1>3. \A s \in 1..r : PassedBefore(s)' = PassedBefore(s)
  BY <1>1, <1>2 DEF PassedBefore
<1>4. ASSUME NEW s \in 1..r PROVE Bad(s)' <=> Bad(s)
  <2>1. PassedBefore(s) \subseteq 1..r
    BY <1>1 DEF PassedBefore
  <2>. QED
    BY <1>2, <1>3, <2>1 DEF Bad
<1>5. Run(r)' = Run(r)
  BY <1>1, <1>4 DEF Run
<1>. QED
  BY <1>1, <1>4, <1>5

LEMMA OthersStaySettled ==
  ASSUME NEW s \in Checks, Settled(s), check'[s] = check[s], result'[s] = result[s],
         At(s, "new") \/ \A t \in 1..s : result'[t] = result[t],
         <<s, FALSE>> \in alerts' <=> <<s, FALSE>> \in alerts
  PROVE  Settled(s)'
<1>1. CASE At(s, "new")
  BY <1>1 DEF At, Settled, Compared, Tallied, Alerted, Late
<1>2. CASE \A t \in 1..s : result'[t] = result[t]
  <2>1. Run(s)' = Run(s) /\ (Bad(s)' <=> Bad(s))
    BY <1>2, RunIsPast, ChecksAreNumbered
  <2>2. /\ Passed(s)' = Passed(s) /\ ShouldAlert(s)' = ShouldAlert(s)
        /\ Recovers(s)' = Recovers(s)
    BY DEF Passed, ShouldAlert, Recovers, IsRecovery
  <2>. QED
    BY <2>1, <2>2 DEF Settled, Compared, Tallied, Alerted
<1>. QED
  BY <1>1, <1>2

(* The check that takes a step is the only one under way. *)
Alone(r) ==
  /\ ~ At(r, "done") /\ \A s \in 1..(r - 1) : At(s, "done")
  /\ \A s \in Checks : s > r => At(s, "new")
Untouched(r) ==
  \A s \in Checks \ {r} : /\ check'[s] = check[s] /\ result'[s] = result[s]
                          /\ <<s, FALSE>> \in alerts' <=> <<s, FALSE>> \in alerts

LEMMA OneActsAtATime ==
  ASSUME Shape, InOrder, NEW r \in Checks, RunMonitor(r), OneByOne'
  PROVE  Alone(r) /\ faults' = faults /\ faults = 0 /\ OneByOne
<1>1. r \in Nat /\ r > 0 /\ 1..(r - 1) \subseteq Checks /\ \A s \in Checks : s \in Nat
  BY ChecksAreNumbered
<1>2. faults' = faults /\ faults = 0
  BY DEF RunMonitor, Begin, Call, Compare, ReadPrev, ReadCount, WriteCount, WriteStatus, Save, Dedup,
         Push, Mark, Enqueue, OneByOne, bounds, Raises, Shape
<1>3. OneByOne
  <2>1. overlapped => overlapped'
    BY DEF RunMonitor, Begin, Call, Compare, ReadPrev, ReadCount, WriteCount, WriteStatus, Save, Dedup,
           Push, Mark, Enqueue
  <2>. QED
    BY <1>2, <2>1 DEF OneByOne
<1>4. CASE At(r, "new")
  <2>1. Begin(r) /\ UnderWay = {}
    BY <1>4 DEF RunMonitor, Begin, Call, Compare, ReadPrev, ReadCount, WriteCount, WriteStatus, Save,
                Dedup, Push, Mark, Enqueue, At, OneByOne
  <2>2. \A s \in 1..(r - 1) : ~ At(s, "new")
    BY <2>1 DEF Begin
  <2>3. \A s \in 1..(r - 1) : At(s, "done")
    BY <1>1, <2>1, <2>2 DEF UnderWay, At
  <2>4. ASSUME NEW s \in Checks, s > r PROVE At(s, "new")
    <3>1. r \in 1..(s - 1) /\ ~ At(r, "done")
      BY <1>1, <1>4, <2>4 DEF At
    <3>. QED
      BY <3>1 DEF InOrder
  <2>. QED
    BY <1>2, <1>3, <1>4, <2>3, <2>4 DEF Alone, At
<1>5. CASE ~ At(r, "new")
  <2>1. ~ At(r, "done")
    BY DEF RunMonitor, Begin, Call, Compare, ReadPrev, ReadCount, WriteCount, WriteStatus, Save, Dedup,
           Push, Mark, Enqueue, At
  <2>2. \A s \in 1..(r - 1) : At(s, "done")
    BY <1>5 DEF InOrder
  <2>3. ASSUME NEW s \in Checks, s > r PROVE At(s, "new")
    BY <1>1, <2>1, <2>3 DEF InOrder
  <2>. QED
    BY <1>2, <1>3, <2>1, <2>2, <2>3 DEF Alone
<1>. QED
  BY <1>4, <1>5

LEMMA AloneStaysInOrder ==
  ASSUME NEW r \in Checks, Alone(r), ~ At(r, "new")', \A s \in Checks \ {r} : check'[s] = check[s]
  PROVE  InOrder'
<1>1. r \in Nat /\ r > 0 /\ 1..(r - 1) \subseteq Checks /\ \A s \in Checks : s \in Nat
  BY ChecksAreNumbered
<1>2. \A s \in Checks \ {r} : At(s, "new")' = At(s, "new") /\ At(s, "done")' = At(s, "done")
  BY DEF At
<1>3. ASSUME NEW s \in Checks, ~ At(s, "new")', NEW t \in 1..(s - 1)
      PROVE  At(t, "done")'
  <2>1. s <= r
    <3>1. ASSUME s > r PROVE FALSE
      <4>1. At(s, "new") /\ s # r
        BY <1>1, <3>1 DEF Alone
      <4>. QED
        BY <1>2, <1>3, <4>1
    <3>. QED
      BY <1>1, <3>1
  <2>2. t \in 1..(r - 1) /\ t # r
    BY <1>1, <2>1
  <2>. QED
    BY <1>1, <1>2, <2>2 DEF Alone
<1>. QED
  BY <1>3 DEF InOrder

LEMMA NobodyElseActs ==
  ASSUME Shape, Steady, NEW r \in Checks, RunMonitor(r), Calm'
  PROVE  Alone(r) /\ faults' = faults /\ faults = 0
BY OneActsAtATime DEF Steady, Calm

LEMMA AloneStaysSteady ==
  ASSUME Steady, NEW r \in Checks, Alone(r), Untouched(r),
         ~ At(r, "new")', Settled(r)', Counted', Windowed'
  PROVE  Steady'
<1>1. r \in Nat /\ r > 0 /\ 1..(r - 1) \subseteq Checks /\ \A s \in Checks : s \in Nat
  BY ChecksAreNumbered
<1>2. InOrder'
  BY AloneStaysInOrder DEF Untouched
<1>3. ASSUME NEW s \in Checks \ {r} PROVE Settled(s)'
  <2>1. s < r => \A t \in 1..s : result'[t] = result[t]
    <3>1. s < r => \A t \in 1..s : t \in Checks \ {r}
      BY <1>1, ChecksAreNumbered
    <3>. QED
      BY <3>1 DEF Untouched
  <2>2. At(s, "new") \/ \A t \in 1..s : result'[t] = result[t]
    BY <1>1, <2>1 DEF Alone
  <2>. QED
    BY <2>2, OthersStaySettled DEF Steady, Untouched
<1>. QED
  BY <1>2, <1>3 DEF Steady

LEMMA CountedStays ==
  ASSUME Shape, Steady, NEW r \in Checks, Alone(r), Untouched(r),
         counted' = counted, failCount' = failCount,
         check'[r].at \in Late <=> check[r].at \in Late,
         r \in counted => result'[r] = result[r]
  PROVE  Counted'
<1>1. counted' = {s \in Checks : check'[s].at \in Late}
  BY DEF Steady, Counted, Untouched
<1>2. ASSUME NEW s \in 0..MaxChecks, counted' = 1..s
      PROVE  failCount' = Cardinality(Run(s))'
  <2>1. \A t \in 1..s : result'[t] = result[t]
    BY <1>2 DEF Steady, Counted, Untouched
  <2>2. Run(s)' = Run(s)
    BY <2>1, RunIsPast
  <2>. QED
    BY <1>2, <2>2 DEF Steady, Counted
<1>. QED
  BY <1>1, <1>2 DEF Counted

LEMMA WindowedStays ==
  ASSUME Steady, NEW r \in Checks, Alone(r), Untouched(r), recent' = recent, window' = window,
         ~ At(r, "mark"), ~ At(r, "push")' \/ Recovers(r)' \/ window[Fingerprint(r)]' = "free"
  PROVE  Windowed'
<1>1. \A s \in Checks \ {r} : At(s, "new") \/ At(s, "done")
  BY ChecksAreNumbered DEF Alone
<1>2. \A s \in Checks \ {r} : ~ At(s, "push")' /\ ~ At(s, "mark")
  BY <1>1 DEF Untouched, At
<1>. QED
  BY <1>2 DEF Steady, Windowed

(* A step of a check that only moves it, to a stage that asks no more of it. *)
OnlyAt(r, at) ==
  /\ check'[r].at = at /\ check'[r].diff = check[r].diff
  /\ check'[r].count = check[r].count /\ check'[r].prev = check[r].prev

LEMMA DecidingStaysSteady ==
  ASSUME Shape, Steady, NEW r \in Checks, Deciding(r), Alone(r), faults' = 0
  PROVE  Steady'
<1> DEFINE Rest == UNCHANGED <<alerts, recent, window>>
<1>1. Settled(r) /\ InOrder /\ Counted /\ Windowed
  BY DEF Steady
<1>2. r \in 0..MaxChecks /\ r > 0 /\ r \in Nat
  BY ChecksAreNumbered
<1>3. CASE Begin(r)
  <2>1. At(r, "new") /\ check'[r].at = "call" /\ Untouched(r)
    BY <1>3 DEF Begin, Go, At, Untouched, Shape, outcome
  <2>2. Rest /\ UNCHANGED <<result, counted, failCount>>
    BY <1>3 DEF Begin, outcome, redis
  <2>3. Settled(r)'
    BY <1>1, <2>1, <2>2 DEF Settled, Compared, Tallied, Alerted, At, Late
  <2>4. Counted'
    BY <2>1, <2>2, CountedStays DEF At, Late
  <2>5. Windowed'
    BY <2>1, <2>2, WindowedStays DEF At
  <2>. QED
    BY <2>1, <2>3, <2>4, <2>5, AloneStaysSteady DEF At
<1>4. CASE Call(r)
  <2>1. /\ At(r, "call") /\ check'[r].at = "compare" /\ Untouched(r)
        /\ result'[r] \in Bodies \cup {"error"}
    BY <1>4 DEF Call, Go, At, Untouched, Shape, outcome
  <2>2. Rest /\ UNCHANGED <<counted, failCount>>
    BY <1>4 DEF Call, outcome, redis
  <2>3. Settled(r)'
    BY <1>1, <2>1, <2>2, MonitorAssumption DEF Settled, Compared, Tallied, Alerted, At, Late
  <2>4. Counted'
    <3>1. r \notin counted
      BY <2>1, <1>1 DEF Counted, At, Late
    <3>. QED
      BY <2>1, <2>2, <3>1, CountedStays DEF At, Late
  <2>5. Windowed'
    BY <2>1, <2>2, WindowedStays DEF At
  <2>. QED
    BY <2>1, <2>3, <2>4, <2>5, AloneStaysSteady DEF At
<1>5. ASSUME check[r].at \in {"compare", "prev", "count", "status"},
             check'[r].at \notin {"new", "call", "compare", "dedup", "push", "mark", "enqueue"},
             check'[r].at \in Late <=> check[r].at \in Late,
             Untouched(r), Rest, UNCHANGED <<result, counted, failCount>>,
             Bad(r) <=> ~ Passed(r) \/ check'[r].diff, Tallied(r)',
             check'[r].at = "save" => ShouldAlert(r)' \/ Recovers(r)',
             check'[r].at = "done" => ~ ShouldAlert(r)'
      PROVE  Steady'
  <2>1. Bad(r)' <=> Bad(r)
    BY <1>2, <1>5, RunIsPast
  <2>2. Compared(r)'
    BY <1>1, <1>5, <2>1 DEF Settled, Compared, Passed
  <2>3. Alerted(r)'
    BY <1>1, <1>5 DEF Settled, Alerted
  <2>4. Counted'
    BY <1>5, CountedStays
  <2>5. Windowed'
    BY <1>5, WindowedStays DEF At
  <2>. QED
    BY <1>5, <2>2, <2>3, <2>4, <2>5, AloneStaysSteady DEF At, Settled
<1>6. CASE Compare(r)
  <2>1. /\ check[r].at = "compare" /\ check'[r].at = "prev" /\ Untouched(r)
        /\ check'[r].diff = Differs(r)
    BY <1>6 DEF Compare, At, Untouched, Shape, outcome
  <2>2. Rest /\ UNCHANGED <<result, counted, failCount>>
    BY <1>6 DEF Compare, outcome, redis
  <2>3. Baselines(r) = PassedBefore(r)
    <3>1. \A s \in Checks : s > r => ~ Passed(s)
      BY MonitorAssumption DEF Alone, At, Steady, Settled, Compared, Passed
    <3>. QED
      BY <3>1, ChecksAreNumbered DEF Baselines, PassedBefore, Checks
  <2>4. result[r] = "error" <=> ~ Passed(r)
    BY <1>1, <2>1, MonitorAssumption DEF Settled, Compared, Passed, Shape
  <2>5. Bad(r) <=> ~ Passed(r) \/ Differs(r)
    BY <2>3, <2>4 DEF Bad, Differs
  <2>. QED
    BY <1>5, <2>1, <2>2, <2>5 DEF Tallied, Late
<1>7. CASE ReadPrev(r)
  <2>1. PICK prev \in BOOLEAN : check' = [check EXCEPT ![r].at = "count", ![r].prev = prev]
    <3>1. PICK bad \in BOOLEAN : check' = [check EXCEPT ![r].at = "count", ![r].prev = bad \/ prevPassed]
      BY <1>7 DEF ReadPrev
    <3>. QED
      BY <3>1 DEF Shape
  <2>2. /\ check[r].at = "prev" /\ check'[r].at = "count" /\ Untouched(r)
        /\ check'[r].diff = check[r].diff
    BY <1>7, <2>1 DEF ReadPrev, At, Untouched, Shape, outcome
  <2>3. Rest /\ UNCHANGED <<result, counted, failCount>>
    BY <1>7 DEF ReadPrev, outcome, redis
  <2>. QED
    BY <1>1, <1>5, <2>2, <2>3 DEF Tallied, Late, Settled, Compared
<1>8. CASE ReadCount(r)
  <2>1. check' = [check EXCEPT ![r].at = "write", ![r].count = NewCount(r, failCount)]
    <3>1. PICK bad \in BOOLEAN :
            /\ Raises(bad)
            /\ check' = [check EXCEPT ![r].at = "write", ![r].count = NewCount(r, IF bad THEN 0 ELSE failCount)]
      BY <1>8 DEF ReadCount
    <3>2. ~ bad
      BY <3>1 DEF Raises, Shape
    <3>. QED
      BY <3>1, <3>2
  <2>2. /\ check[r].at = "count" /\ check'[r].at = "write" /\ Untouched(r)
        /\ check'[r].diff = check[r].diff /\ check'[r].count = NewCount(r, failCount)
    BY <1>8, <2>1 DEF ReadCount, At, Untouched, Shape, outcome
  <2>3. Rest /\ UNCHANGED <<result, counted, failCount>>
    BY <1>8 DEF ReadCount, outcome, redis
  <2>4. Bad(r) <=> ~ Passed(r) \/ check[r].diff
    BY <1>1, <2>2 DEF Settled, Compared
  <2>5. failCount = Cardinality(Run(r - 1))
    <3>1. counted = 1..(r - 1)
      BY <1>1, <2>2, ChecksAreNumbered DEF Counted, Alone, At, Late
    <3>2. r - 1 \in 0..MaxChecks
      BY <1>2, ChecksAreNumbered
    <3>. QED
      BY <1>1, <3>1, <3>2 DEF Counted
  <2>6. check'[r].count = Cardinality(Run(r))
    BY <2>2, <2>4, <2>5, RunGrows DEF NewCount
  <2>7. Tallied(r)'
    <3>1. Run(r)' = Run(r)
      BY <1>2, <2>3, RunIsPast
    <3>. QED
      BY <2>6, <3>1 DEF Tallied
  <2>. QED
    BY <1>5, <2>2, <2>3, <2>4, <2>7 DEF Late
<1>9. CASE WriteCount(r)
  <2>1. check[r].at = "write" /\ check'[r].at = "status" /\ Untouched(r) /\ OnlyAt(r, "status")
    BY <1>9 DEF WriteCount, Go, At, Untouched, Shape, outcome, OnlyAt
  <2>2. Rest /\ UNCHANGED result /\ failCount' = check[r].count /\ counted' = counted \cup {r}
    BY <1>9 DEF WriteCount, outcome, Raises, Shape
  <2>3. Run(r)' = Run(r) /\ (Bad(r)' <=> Bad(r))
    BY <1>2, <2>2, RunIsPast
  <2>4. Settled(r)'
    BY <1>1, <2>1, <2>2, <2>3 DEF Settled, Compared, Tallied, Alerted, OnlyAt, Late, Passed
  <2>5. Counted'
    <3>1. counted' = {s \in Checks : check'[s].at \in Late}
      BY <1>1, <2>1, <2>2 DEF Counted, Untouched, Late
    <3>2. ASSUME NEW s \in 0..MaxChecks, counted' = 1..s PROVE failCount' = Cardinality(Run(s))'
      <4>1. counted = 1..(r - 1)
        BY <1>1, <2>1, ChecksAreNumbered DEF Counted, Alone, At, Late
      <4>2. 1..s = 1..r
        <5>1. 1..(r - 1) \cup {r} = 1..r
          BY <1>2
        <5>. QED
          BY <2>2, <3>2, <4>1, <5>1
      <4>3. s \in Nat
        BY ChecksAreNumbered
      <4>4. s = r
        <5>1. r \in 1..s
          BY <1>2, <4>2
        <5>2. s \in 1..s
          BY <1>2, <4>3, <5>1
        <5>. QED
          BY <1>2, <4>2, <4>3, <5>1, <5>2
      <4>. QED
        BY <1>1, <2>1, <2>2, <2>3, <4>4 DEF Settled, Tallied
    <3>. QED
      BY <3>1, <3>2 DEF Counted
  <2>6. Windowed'
    BY <2>1, <2>2, WindowedStays DEF At
  <2>. QED
    BY <2>1, <2>4, <2>5, <2>6, AloneStaysSteady DEF At
<1>10. CASE WriteStatus(r)
  <2>1. /\ check[r].at = "status" /\ Untouched(r)
        /\ OnlyAt(r, IF ShouldAlert(r) \/ Recovers(r) THEN "save" ELSE "done")
    BY <1>10 DEF WriteStatus, Go, At, Untouched, Shape, outcome, OnlyAt
  <2>2. Rest /\ UNCHANGED <<result, counted, failCount>>
    BY <1>10 DEF WriteStatus, outcome
  <2>3. ShouldAlert(r)' = ShouldAlert(r) /\ Recovers(r)' = Recovers(r)
    BY <2>1, <2>2 DEF OnlyAt, ShouldAlert, Recovers, IsRecovery, Passed
  <2>4. Tallied(r)'
    <3>1. Run(r)' = Run(r)
      BY <1>2, <2>2, RunIsPast
    <3>. QED
      BY <1>1, <2>1, <3>1 DEF Settled, Tallied, OnlyAt, Late
  <2>5. Bad(r) <=> ~ Passed(r) \/ check'[r].diff
    BY <1>1, <2>1 DEF Settled, Compared, OnlyAt
  <2>6. /\ check'[r].at = "save" => ShouldAlert(r)' \/ Recovers(r)'
        /\ check'[r].at = "done" => ~ ShouldAlert(r)'
    BY <2>1, <2>3 DEF OnlyAt
  <2>7. check'[r].at \in {"save", "done"} /\ check'[r].at \in Late
    BY <2>1 DEF OnlyAt, Late
  <2>8. check[r].at \in Late /\ check[r].at \in {"compare", "prev", "count", "status"}
    BY <2>1 DEF Late
  <2>9. check'[r].at \notin {"new", "call", "compare", "dedup", "push", "mark", "enqueue"}
    BY <2>7
  <2>10. Untouched(r)
    BY <2>1
  <2>11. check'[r].at \in Late <=> check[r].at \in Late
    BY <2>7, <2>8
  <2>. HIDE DEF Rest
  <2>. QED
    BY <1>5, <2>2, <2>4, <2>5, <2>6, <2>8, <2>9, <2>10, <2>11
<1>. QED
  BY <1>3, <1>4, <1>6, <1>7, <1>8, <1>9, <1>10 DEF Deciding

LEMMA AlarmingStaysSteady ==
  ASSUME Shape, Steady, NEW r \in Checks, Alarming(r), Alone(r), faults' = 0
  PROVE  Steady'
<1>1. Settled(r) /\ InOrder /\ Counted /\ Windowed
  BY DEF Steady
<1>2. /\ \A s \in Checks : Notice(s)' = Notice(s) /\ Recovers(s)' = Recovers(s)
      /\ \A s \in Checks \ {r} : check'[s] = check[s] /\ result'[s] = result[s]
  BY AlarmingKeepsShape
<1>3. /\ UNCHANGED <<result, counted, failCount>>
      /\ check[r].at \in {"save", "dedup", "push", "mark", "enqueue"}
      /\ check'[r].at \in {"dedup", "push", "mark", "enqueue", "done"}
      /\ OnlyAt(r, check'[r].at)
  BY DEF Alarming, Save, Dedup, Push, Mark, Enqueue, redis, Go, At, OnlyAt, Shape
<1>4. Run(r)' = Run(r) /\ (Bad(r)' <=> Bad(r))
  BY <1>3, RunIsPast, ChecksAreNumbered
<1>5. ShouldAlert(r)' = ShouldAlert(r) /\ Recovers(r)' = Recovers(r) /\ (ShouldAlert(r) \/ Recovers(r))
  BY <1>1, <1>2, <1>3 DEF OnlyAt, ShouldAlert, Passed, Settled, Alerted
<1>6. Compared(r)' /\ Tallied(r)'
  BY <1>1, <1>3, <1>4 DEF Settled, Compared, Tallied, OnlyAt, Late, Passed
<1>8. ASSUME Untouched(r), <<r, FALSE>> \in alerts' <=> ShouldAlert(r), Windowed'
      PROVE  Steady'
  <2>1. Counted'
    BY <1>3, <1>8, CountedStays DEF Late
  <2>2. Alerted(r)'
    BY <1>3, <1>5, <1>8 DEF Alerted
  <2>. QED
    BY <1>3, <1>6, <1>8, <2>1, <2>2, AloneStaysSteady DEF Settled, At
<1>9. check[r].at # "save" => (<<r, FALSE>> \in alerts <=> ShouldAlert(r))
  BY <1>1, <1>3 DEF Settled, Alerted
<1>10. ASSUME alerts' = alerts PROVE Untouched(r)
  BY <1>2, <1>10 DEF Untouched
<1>11. Recovers(r) => ~ ShouldAlert(r)
  BY DEF Recovers
<1>12. CASE Save(r)
  <2>1. alerts' = alerts \cup {<<r, Recovers(r)>>} /\ UNCHANGED <<recent, window>>
    BY <1>12 DEF Save, Raises, Shape, Notice, redis
  <2>2. check[r].at = "save" /\ check'[r].at = IF Recovers(r) THEN "push" ELSE "dedup"
    BY <1>12 DEF Save, Go, At, Shape
  <2>3. Untouched(r)
    BY <1>2, <2>1 DEF Untouched
  <2>4. <<r, FALSE>> \notin alerts
    BY <1>1, <2>2 DEF Settled, Alerted
  <2>5. <<r, FALSE>> \in alerts' <=> ShouldAlert(r)
    <3>1. Recovers(r) \in BOOLEAN
      BY DEF Recovers
    <3>. QED
      BY <1>5, <1>11, <2>1, <2>4, <3>1
  <2>6. Windowed'
    BY <1>5, <2>1, <2>2, <2>3, WindowedStays DEF At
  <2>. QED
    BY <1>8, <2>3, <2>5, <2>6
<1>13. CASE Dedup(r)
  <2>1. UNCHANGED <<alerts, recent, window>>
    BY <1>13 DEF Dedup, outcome, redis
  <2>2. check[r].at = "dedup" /\ (check'[r].at = "push" => window[Fingerprint(r)] = "free")
    <3>1. PICK bad \in BOOLEAN :
            Raises(bad) /\ Go(r, IF bad \/ window[Fingerprint(r)] = "free" THEN "push" ELSE "done")
      BY <1>13 DEF Dedup
    <3>2. ~ bad
      BY <3>1 DEF Raises, Shape
    <3>. QED
      BY <1>13, <3>1, <3>2 DEF Dedup, Go, At, Shape
  <2>3. Fingerprint(r)' = Fingerprint(r)
    BY <1>3 DEF Fingerprint, Passed
  <2>4. Windowed'
    BY <1>10, <2>1, <2>2, <2>3, WindowedStays DEF At
  <2>. QED
    BY <1>5, <1>8, <1>9, <1>10, <2>1, <2>2, <2>4
<1>14. \A s \in Checks \ {r} : /\ ~ At(s, "push") /\ ~ At(s, "mark") /\ ~ At(s, "push")' /\ ~ At(s, "mark")'
  <2>1. \A s \in Checks \ {r} : At(s, "new") \/ At(s, "done")
    BY ChecksAreNumbered DEF Alone
  <2>. QED
    BY <1>2, <2>1 DEF At
<1>15. \A s \in Checks : Fingerprint(s)' = Fingerprint(s) /\ Fingerprint(s) \in Fingerprints
  BY <1>3 DEF Fingerprint, Passed, Fingerprints
<1>16. CASE Push(r)
  <2>1. /\ UNCHANGED <<alerts, window>> /\ check[r].at = "push" /\ check'[r].at = "mark"
        /\ recent' = IF Recovers(r) THEN recent ELSE [recent EXCEPT ![Fingerprint(r)] = @ + 1]
    BY <1>16 DEF Push, Go, At, Shape, redis
  <2>2. \A f \in Fingerprints : recent[f] = 1 => window[f] # "free"
    BY <1>1, <1>14, <2>1 DEF Windowed, At
  <2>3. ~ Recovers(r) => recent[Fingerprint(r)] = 0
    BY <1>1, <1>15, <2>1, <2>2 DEF Windowed, At
  <2>4. recent' \in [Fingerprints -> {0, 1}]
    BY <1>1, <1>15, <2>1, <2>3 DEF Windowed
  <2>5. ASSUME NEW f \in Fingerprints, recent'[f] = 1, window'[f] = "free"
        PROVE  At(r, "mark")' /\ Fingerprint(r)' = f
    BY <1>1, <1>15, <2>1, <2>2, <2>5 DEF Windowed, At
  <2>6. Windowed'
    BY <1>1, <1>14, <2>1, <2>4, <2>5 DEF Windowed, At
  <2>. QED
    BY <1>5, <1>8, <1>9, <1>10, <2>1, <2>6
<1>17. CASE Mark(r)
  <2>1. /\ UNCHANGED <<alerts, recent>> /\ check[r].at = "mark" /\ check'[r].at \in {"done", "enqueue"}
        /\ window' = [window EXCEPT ![Fingerprint(r)] = IF Recovers(r) THEN "recovery" ELSE "alert"]
    BY <1>17 DEF Mark, Go, At, Shape, outcome, Raises
  <2>2. window' \in [Fingerprints -> {"free", "alert", "recovery"}]
    BY <1>1, <1>15, <2>1 DEF Windowed
  <2>3. ASSUME NEW f \in Fingerprints, recent'[f] = 1 PROVE window'[f] # "free"
    BY <1>1, <1>14, <1>15, <2>1, <2>3 DEF Windowed
  <2>4. Windowed'
    BY <1>1, <1>14, <2>1, <2>2, <2>3 DEF Windowed, At
  <2>. QED
    BY <1>5, <1>8, <1>9, <1>10, <2>1, <2>4
<1>18. CASE Enqueue(r)
  <2>1. UNCHANGED <<alerts, recent, window>> /\ check[r].at = "enqueue" /\ check'[r].at = "done"
    BY <1>18 DEF Enqueue, Go, At, Shape, redis
  <2>2. Windowed'
    BY <1>10, <2>1, WindowedStays DEF At
  <2>. QED
    BY <1>5, <1>8, <1>9, <1>10, <2>1, <2>2
<1>. QED
  BY <1>12, <1>13, <1>16, <1>17, <1>18 DEF Alarming

(* What happens besides: thirty minutes pass, or a "run now" is answered.  *)
LEMMA AroundStaysSteady ==
  ASSUME Shape, Steady, Calm',
         Crash \/ (\E f \in Fingerprints : Expire(f)) \/ (\E r \in RunNow : Report(r)) \/ UNCHANGED vars
  PROVE  Steady'
<1>1. ~ Crash
  BY DEF Crash, Calm, Shape
<1>2. ASSUME UNCHANGED <<result, check, failCount, alerts, counted>>, Windowed'
      PROVE  Steady'
  <2>1. InOrder'
    BY <1>2 DEF Steady, InOrder, At
  <2>2. \A r \in Checks : Settled(r)'
    BY <1>2, OthersStaySettled DEF Steady
  <2>3. \A r \in 0..MaxChecks : Run(r)' = Run(r)
    BY <1>2, RunIsPast
  <2>4. Counted'
    BY <1>2, <2>3 DEF Steady, Counted
  <2>. QED
    BY <1>2, <2>1, <2>2, <2>4 DEF Steady
<1>3. ASSUME UNCHANGED <<result, check>>
      PROVE  \A r \in Checks : /\ Fingerprint(r)' = Fingerprint(r) /\ Recovers(r)' = Recovers(r)
                               /\ At(r, "push")' = At(r, "push") /\ At(r, "mark")' = At(r, "mark")
  BY <1>3 DEF Fingerprint, Recovers, ShouldAlert, IsRecovery, Passed, At
<1>4. ASSUME NEW f \in Fingerprints, Expire(f) PROVE Steady'
  <2>1. /\ UNCHANGED <<result, check, failCount, alerts, counted>> /\ UnderWay = {}
        /\ window' = [window EXCEPT ![f] = "free"] /\ recent' = [recent EXCEPT ![f] = 0]
    BY <1>4 DEF Expire
  <2>2. \A r \in Checks : ~ At(r, "push") /\ ~ At(r, "mark")
    BY <2>1 DEF UnderWay, At
  <2>3. \A r \in Checks : ~ At(r, "push")' /\ ~ At(r, "mark")'
    BY <1>3, <2>1, <2>2
  <2>4. /\ recent' \in [Fingerprints -> {0, 1}] /\ window' \in [Fingerprints -> {"free", "alert", "recovery"}]
        /\ \A g \in Fingerprints : recent'[g] = 1 => window'[g] # "free"
    BY <2>1, <2>2 DEF Steady, Windowed
  <2>5. Windowed'
    BY <2>3, <2>4 DEF Windowed
  <2>. QED
    BY <1>2, <2>1, <2>5
<1>5. ASSUME UNCHANGED <<result, check, failCount, alerts, counted, window, recent>> PROVE Steady'
  <2>1. Windowed'
    BY <1>3, <1>5 DEF Steady, Windowed
  <2>. QED
    BY <1>2, <1>5, <2>1
<1>6. ASSUME NEW r \in RunNow, Report(r) PROVE Steady'
  BY <1>5, <1>6 DEF Report, redis, outcome
<1>7. CASE UNCHANGED vars
  BY <1>5, <1>7 DEF vars, redis, outcome
<1>. QED
  BY <1>1, <1>4, <1>6, <1>7

LEMMA CalmStaysSteady ==
  ASSUME Shape, Shape', Calm => Steady, [Next]_vars
  PROVE  Calm' => Steady'
<1> SUFFICES ASSUME Calm' PROVE Steady'
  OBVIOUS
<1>1. ASSUME NEW r \in Checks, RunMonitor(r) PROVE Steady'
  <2>1. Calm
    <3> USE <1>1 DEF RunMonitor, Begin, Call, Compare, ReadPrev, ReadCount, WriteCount, WriteStatus,
                     Save, Dedup, Push, Mark, Enqueue
    <3>1. overlapped => overlapped'
      OBVIOUS
    <3>2. faults' \in {faults, faults + 1} /\ crashes' = crashes
      BY DEF bounds, Raises
    <3>. QED
      BY ONLY <3>1, <3>2, Calm', Shape DEF Calm, OneByOne, Shape
  <2>2. Alone(r) /\ faults' = 0
    BY <1>1, <2>1, NobodyElseActs DEF Calm, OneByOne
  <2>. QED
    BY <1>1, <2>1, <2>2, DecidingStaysSteady, AlarmingStaysSteady DEF RunMonitor, Deciding, Alarming
<1>2. CASE Crash \/ (\E f \in Fingerprints : Expire(f)) \/ (\E r \in RunNow : Report(r)) \/ UNCHANGED vars
  <2>1. Calm
    BY <1>2 DEF Crash, Expire, Report, vars, bounds, Raises, Calm, OneByOne, Shape
  <2>. QED
    BY <1>2, <2>1, AroundStaysSteady
<1>. QED
  BY <1>1, <1>2 DEF Next

LEMMA CheckedOneByOne == Spec => [](Calm => Steady)
<1>1. Init => Records /\ (Calm => Steady)
  BY RecordsAtFirst, SteadyAtFirst
<1>2. Records /\ (Calm => Steady) /\ [Next]_vars => Records' /\ (Calm' => Steady')
  <2>1. Records /\ [Next]_vars => Records'
    BY RecordsStay
  <2>2. Records => Shape
    BY DEF Records
  <2>3. Records' => Shape'
    BY DEF Records
  <2>. QED
    BY <2>1, <2>2, <2>3, CalmStaysSteady
<1>. QED
  BY <1>1, <1>2, PTL DEF Spec

(* A check leads to an alert record exactly when it is bad and the streak  *)
(* it ends has reached max_consecutive_failures (_evaluate_result), while  *)
(* checks come one by one and nothing fails: for any threshold, any number *)
(* of checks and bodies.                                                   *)
THEOREM AnAlertEndsAStreak == Spec => []AlertOnStreak
<1>1. ASSUME Calm, Steady, NEW r \in Checks, Finished(r)
      PROVE  <<r, FALSE>> \in alerts <=> Bad(r) /\ Streak(r) >= Threshold
  <2>1. Settled(r) /\ Counted /\ InOrder
    BY <1>1 DEF Steady
  <2>2. check[r].at = "done"
    BY <1>1 DEF Finished, At
  <2>3. Bad(r) <=> ~ Passed(r) \/ check[r].diff
    BY <2>1, <2>2 DEF Settled, Compared
  <2>4. check[r].count = Cardinality(Run(r))
    BY <2>1, <2>2 DEF Settled, Tallied, Late
  <2>5. \A s \in Checks : s <= r => s \in counted
    <3>1. \A s \in 1..(r - 1) : check[s].at = "done"
      BY <2>1, <2>2 DEF InOrder, At
    <3>. QED
      BY <2>1, <2>2, <3>1, ChecksAreNumbered DEF Counted, Late
  <2>6. Streak(r) = Cardinality(Run(r))
    <3>1. counted \subseteq Checks
      BY <2>1 DEF Counted
    <3>2. {s \in counted : s <= r /\ \A t \in {u \in counted : s <= u /\ u <= r} : Bad(t)} = Run(r)
      <4>1. ASSUME NEW s \in 1..r PROVE {u \in counted : s <= u /\ u <= r} = s..r
        BY <2>5, <3>1, ChecksAreNumbered
      <4>2. {s \in counted : s <= r} = 1..r
        <5>1. \A s \in 1..r : s \in Checks /\ s <= r
          BY ChecksAreNumbered
        <5>2. \A s \in Checks : s <= r => s \in 1..r
          BY ChecksAreNumbered DEF Checks
        <5>. QED
          BY <2>5, <3>1, <5>1, <5>2
      <4>. QED
        BY <4>1, <4>2 DEF Run
    <3>. QED
      BY <3>2 DEF Streak
  <2>7. <<r, FALSE>> \in alerts <=> ShouldAlert(r)
    BY <2>1, <2>2 DEF Settled, Alerted
  <2>. QED
    BY <2>3, <2>4, <2>6, <2>7 DEF ShouldAlert
<1>2. (Calm => Steady) => AlertOnStreak
  BY <1>1 DEF AlertOnStreak
<1>. QED
  BY <1>2, CheckedOneByOne, PTL

(* No fingerprint is alerted twice within thirty minutes (monitor.py:719), *)
(* while checks come one by one and nothing fails.                         *)
THEOREM OneAlertAWindow == Spec => []OncePerWindow
<1>1. (Calm => Steady) => OncePerWindow
  BY DEF Steady, Windowed, OncePerWindow
<1>. QED
  BY <1>1, CheckedOneByOne, PTL
------------------------------------------------------------------------------
(* What the recovery looks at.  The previous verdict in Redis is that of   *)
(* the last check that wrote it, a check read that of the one before it,   *)
(* and a recovery is sent by exactly the checks that decided to.           *)
Verdict == {"save", "dedup", "push", "mark", "enqueue", "done"}
LastVerdict(r) == check[r].at \in Verdict /\ \A s \in Checks : s > r => check[s].at \notin Verdict
Remembered ==
  /\ (\A s \in Checks : check[s].at \notin Verdict) => prevPassed
  /\ \A r \in Checks : LastVerdict(r) => (prevPassed <=> Passed(r))
Recalls(r) ==
  check[r].at \in {"count", "write", "status"} \cup Verdict =>
    (check[r].prev <=> r = 1 \/ Passed(r - 1))
Announced(r) ==
  <<r, TRUE>> \in pushed <=> check[r].at \in {"mark", "enqueue", "done"} /\ Recovers(r)
Mindful == Remembered /\ \A r \in Checks : Recalls(r) /\ Announced(r)

LEMMA MindfulAtFirst == Init => Mindful
<1> SUFFICES ASSUME Init PROVE Mindful
  OBVIOUS
<1>1. \A r \in Checks : check[r].at = "new"
  BY DEF Init, Unstarted
<1>. QED
  BY <1>1 DEF Init, Mindful, Remembered, LastVerdict, Recalls, Announced, Verdict

(* The others are done or have not begun: what they recall and announced   *)
(* stays as it is.                                                         *)
LEMMA OthersStayMindful ==
  ASSUME Mindful, NEW r \in Checks, Alone(r),
         \A s \in Checks \ {r} : check'[s] = check[s] /\ result'[s] = result[s],
         \A s \in Checks \ {r} : <<s, TRUE>> \in pushed' <=> <<s, TRUE>> \in pushed
  PROVE  \A s \in Checks \ {r} : Recalls(s)' /\ Announced(s)'
<1> SUFFICES ASSUME NEW s \in Checks \ {r} PROVE Recalls(s)' /\ Announced(s)'
  OBVIOUS
<1>1. Recovers(s)' = Recovers(s)
  BY DEF Recovers, ShouldAlert, IsRecovery, Passed
<1>2. Announced(s)'
  BY <1>1 DEF Mindful, Announced
<1>3. s \in Nat /\ r \in Nat /\ s > 0
  BY ChecksAreNumbered
<1>4. CASE s > r
  <2>1. check'[s].at = "new"
    BY <1>4 DEF Alone, At
  <2>. QED
    BY <1>2, <2>1 DEF Recalls, Verdict
<1>5. CASE s < r
  <2>1. s = 1 \/ (s - 1 \in Checks \ {r})
    BY <1>3, <1>5, ChecksAreNumbered DEF Checks
  <2>2. s = 1 \/ (Passed(s - 1)' <=> Passed(s - 1))
    BY <2>1 DEF Passed
  <2>. QED
    BY <1>2, <2>2 DEF Mindful, Recalls
<1>. QED
  BY <1>3, <1>4, <1>5

(* A step that neither gives nor is after a verdict leaves the last one.   *)
LEMMA VerdictStays ==
  ASSUME Remembered, NEW r \in Checks, Alone(r), prevPassed' = prevPassed,
         \A s \in Checks \ {r} : check'[s] = check[s] /\ result'[s] = result[s],
         check'[r].at \in Verdict <=> check[r].at \in Verdict,
         check[r].at \in Verdict => result'[r] = result[r]
  PROVE  Remembered'
<1>1. \A s \in Checks : check'[s].at \in Verdict <=> check[s].at \in Verdict
  OBVIOUS
<1>2. ASSUME NEW s \in Checks, LastVerdict(s)' PROVE LastVerdict(s) /\ Passed(s)' = Passed(s)
  BY <1>1, <1>2 DEF LastVerdict, Passed
<1>. QED
  BY <1>1, <1>2 DEF Remembered

LEMMA DecidingStaysMindful ==
  ASSUME Shape, Mindful, NEW r \in Checks, Deciding(r), Alone(r), faults' = 0
  PROVE  Mindful'
<1> USE DEF redis, outcome, bounds
<1>0. Remembered /\ Recalls(r) /\ Announced(r) /\ r \in Nat /\ r > 0 /\ \A s \in Checks : s \in Nat
  BY ChecksAreNumbered DEF Mindful
<1>1. /\ UNCHANGED <<alerts, pushed>>
      /\ \A s \in Checks \ {r} : check'[s] = check[s] /\ result'[s] = result[s]
  BY DEF Deciding, Begin, Call, Compare, ReadPrev, ReadCount, WriteCount, WriteStatus, Go, Shape
<1>2. check[r].at \notin Verdict /\ <<r, TRUE>> \notin pushed
  <2>1. check[r].at \in {"new", "call", "compare", "prev", "count", "write", "status"}
    BY DEF Deciding, Begin, Call, Compare, ReadPrev, ReadCount, WriteCount, WriteStatus, At
  <2>. QED
    BY <1>0, <2>1 DEF Announced, Verdict
<1>3. \A s \in Checks \ {r} : Recalls(s)' /\ Announced(s)'
  BY <1>1, OthersStayMindful
<1>4. ASSUME prevPassed' = prevPassed, check'[r].at \notin Verdict, Recalls(r)'
      PROVE  Mindful'
  <2>1. Remembered'
    BY <1>0, <1>1, <1>2, <1>4, VerdictStays
  <2>2. Announced(r)'
    BY <1>1, <1>2, <1>4 DEF Announced, Verdict
  <2>. QED
    BY <1>3, <1>4, <2>1, <2>2 DEF Mindful
<1>5. CASE Begin(r) \/ Call(r) \/ Compare(r)
  <2>1. check'[r].at \in {"call", "compare", "prev"} /\ prevPassed' = prevPassed
    BY <1>5 DEF Begin, Call, Compare, Go, Shape
  <2>. QED
    BY <1>4, <2>1 DEF Recalls, Verdict
<1>6. CASE ReadPrev(r)
  <2>1. check'[r].at = "count" /\ check'[r].prev = prevPassed /\ UNCHANGED <<prevPassed, result>>
        /\ check[r].at = "prev"
    BY <1>6 DEF ReadPrev, Raises, Shape, At
  <2>2. prevPassed <=> r = 1 \/ Passed(r - 1)
    <3>1. \A s \in Checks : s > r => check[s].at \notin Verdict
      BY DEF Alone, At, Verdict
    <3>2. CASE r = 1
      <4>1. \A s \in Checks : check[s].at \notin Verdict
        BY <1>2, <3>1, <3>2, ChecksAreNumbered
      <4>. QED
        BY <1>0, <3>2, <4>1 DEF Remembered
    <3>3. CASE r > 1
      <4>1. r - 1 \in Checks /\ r - 1 \in 1..(r - 1)
        BY <1>0, <3>3, ChecksAreNumbered
      <4>2. check[r - 1].at = "done"
        BY <4>1 DEF Alone, At
      <4>3. \A s \in Checks : s > r - 1 => s = r \/ s > r
        BY <1>0
      <4>4. LastVerdict(r - 1)
        BY <1>2, <3>1, <4>1, <4>2, <4>3 DEF LastVerdict, Verdict
      <4>. QED
        BY <1>0, <3>3, <4>1, <4>4 DEF Remembered
    <3>. QED
      BY <1>0, <3>2, <3>3
  <2>3. Passed(r - 1)' = Passed(r - 1)
    BY <2>1 DEF Passed
  <2>4. Recalls(r)'
    BY <2>1, <2>2, <2>3 DEF Recalls
  <2>. QED
    BY <1>4, <2>1, <2>4 DEF Verdict
<1>7. CASE ReadCount(r) \/ WriteCount(r)
  <2>1. /\ check'[r].at \in {"write", "status"} /\ check'[r].prev = check[r].prev
        /\ check[r].at \in {"count", "write"} /\ UNCHANGED <<prevPassed, result>>
    BY <1>7 DEF ReadCount, WriteCount, Go, At, Shape
  <2>2. Passed(r - 1)' = Passed(r - 1)
    BY <2>1 DEF Passed
  <2>3. Recalls(r)'
    BY <1>0, <2>1, <2>2 DEF Recalls
  <2>. QED
    BY <1>4, <2>1, <2>3 DEF Verdict
<1>8. CASE WriteStatus(r)
  <2>1. /\ check'[r].at = IF ShouldAlert(r) \/ Recovers(r) THEN "save" ELSE "done"
        /\ check'[r].prev = check[r].prev /\ check'[r].diff = check[r].diff
        /\ check'[r].count = check[r].count
        /\ prevPassed' = Passed(r) /\ UNCHANGED result /\ check[r].at = "status"
    BY <1>8 DEF WriteStatus, Raises, Go, At, Shape
  <2>2. \A s \in Checks : Passed(s)' = Passed(s)
    BY <2>1 DEF Passed
  <2>3. Recovers(r)' = Recovers(r)
    BY <2>1, <2>2 DEF Recovers, ShouldAlert, IsRecovery
  <2>4. Announced(r)'
    BY <1>1, <1>2, <2>1, <2>3 DEF Announced
  <2>5. Recalls(r)'
    <3>1. Passed(r - 1)' = Passed(r - 1)
      BY <2>1 DEF Passed
    <3>. QED
      BY <1>0, <2>1, <3>1 DEF Recalls
  <2>6. check'[r].at \in Verdict
    BY <2>1 DEF Verdict
  <2>7. ASSUME NEW s \in Checks, LastVerdict(s)' PROVE s = r
    <3>1. ~ (r > s)
      BY <2>6, <2>7 DEF LastVerdict
    <3>2. ~ (s > r)
      BY <1>1, <2>7 DEF Alone, At, LastVerdict, Verdict
    <3>. QED
      BY <1>0, <3>1, <3>2
  <2>8. Remembered'
    BY <2>1, <2>2, <2>6, <2>7 DEF Remembered
  <2>. QED
    BY <1>3, <2>4, <2>5, <2>8 DEF Mindful
<1>. QED
  BY <1>5, <1>6, <1>7, <1>8 DEF Deciding

LEMMA AlarmingStaysMindful ==
  ASSUME Records, Steady, Mindful, NEW r \in Checks, Alarming(r), Alone(r), faults' = 0
  PROVE  Mindful'
<1> USE DEF redis, outcome, bounds
<1>0. Remembered /\ Recalls(r) /\ Announced(r) /\ Shape /\ Alerting(r)
  BY DEF Mindful, Records
<1>1. /\ \A s \in Checks : Recovers(s)' = Recovers(s)
      /\ \A s \in Checks \ {r} : check'[s] = check[s] /\ result'[s] = result[s]
  BY <1>0, AlarmingKeepsShape
<1>2. /\ UNCHANGED <<result, prevPassed>> /\ check'[r].prev = check[r].prev
      /\ check[r].at \in {"save", "dedup", "push", "mark", "enqueue"}
      /\ check'[r].at \in {"dedup", "push", "mark", "enqueue", "done"}
  BY <1>0 DEF Alarming, Save, Dedup, Push, Mark, Enqueue, Go, At, Shape
<1>3. Remembered'
  BY <1>0, <1>1, <1>2, VerdictStays DEF Verdict
<1>4. Recalls(r)'
  <2>1. Passed(r - 1)' = Passed(r - 1)
    BY <1>2 DEF Passed
  <2>. QED
    BY <1>0, <1>2, <2>1 DEF Recalls, Verdict
<1>5. pushed' = pushed \/ (pushed' = pushed \cup {<<r, Recovers(r)>>} /\ Push(r))
  BY DEF Alarming, Save, Dedup, Push, Mark, Enqueue, Notice
<1>6. \A s \in Checks \ {r} : Recalls(s)' /\ Announced(s)'
  BY <1>0, <1>1, <1>5, OthersStayMindful
<1>7. Announced(r)'
  <2>1. CASE Save(r)
    <3>1. check[r].at = "save" /\ check'[r].at \in {"push", "dedup"} /\ pushed' = pushed
      BY <1>0, <2>1 DEF Save, Go, At, Shape
    <3>. QED
      BY <1>0, <3>1 DEF Announced
  <2>2. CASE Dedup(r)
    <3>1. check[r].at = "dedup" /\ check'[r].at \in {"push", "done"} /\ pushed' = pushed
      BY <1>0, <2>2 DEF Dedup, Go, At, Shape
    <3>. QED
      BY <1>0, <1>1, <3>1 DEF Announced, Alerting
  <2>3. CASE Push(r)
    <3>1. check[r].at = "push" /\ check'[r].at = "mark" /\ pushed' = pushed \cup {<<r, Recovers(r)>>}
      BY <1>0, <2>3 DEF Push, Notice, Go, At, Shape
    <3>2. Recovers(r) \in BOOLEAN
      BY DEF Recovers
    <3>. QED
      BY <1>0, <1>1, <3>1, <3>2 DEF Announced
  <2>4. CASE Mark(r) \/ Enqueue(r)
    <3>1. /\ check[r].at \in {"mark", "enqueue"} /\ check'[r].at \in {"enqueue", "done"}
          /\ pushed' = pushed
      BY <1>0, <2>4 DEF Mark, Enqueue, Go, At, Shape
    <3>. QED
      BY <1>0, <1>1, <3>1 DEF Announced
  <2>. QED
    BY <2>1, <2>2, <2>3, <2>4 DEF Alarming
<1>. QED
  BY <1>3, <1>4, <1>6, <1>7 DEF Mindful

LEMMA AroundStaysMindful ==
  ASSUME Mindful, UNCHANGED <<result, check, prevPassed, pushed>>
  PROVE  Mindful'
BY DEF Mindful, Remembered, LastVerdict, Recalls, Announced, Recovers, ShouldAlert, IsRecovery, Passed

LEMMA CalmStaysMindful ==
  ASSUME Records, Shape', Calm => Steady /\ Mindful, [Next]_vars, Calm'
  PROVE  Mindful'
<1>0. Shape
  BY DEF Records
<1>1. ASSUME NEW r \in Checks, RunMonitor(r) PROVE Mindful'
  <2>1. Calm
    <3> USE <1>1 DEF RunMonitor, Begin, Call, Compare, ReadPrev, ReadCount, WriteCount, WriteStatus,
                     Save, Dedup, Push, Mark, Enqueue
    <3>1. overlapped => overlapped'
      OBVIOUS
    <3>2. faults' \in {faults, faults + 1} /\ crashes' = crashes
      BY DEF bounds, Raises
    <3>. QED
      BY ONLY <3>1, <3>2, Calm', <1>0 DEF Calm, OneByOne, Shape
  <2>2. Alone(r) /\ faults' = 0
    BY <1>0, <1>1, <2>1, NobodyElseActs DEF Calm, OneByOne
  <2>. QED
    BY <1>0, <1>1, <2>1, <2>2, DecidingStaysMindful, AlarmingStaysMindful
       DEF RunMonitor, Deciding, Alarming
<1>2. CASE Crash \/ (\E f \in Fingerprints : Expire(f)) \/ (\E r \in RunNow : Report(r)) \/ UNCHANGED vars
  <2>1. Calm /\ ~ Crash
    BY <1>0, <1>2 DEF Crash, Expire, Report, vars, bounds, Raises, Calm, OneByOne, Shape
  <2>2. UNCHANGED <<result, check, prevPassed, pushed>>
    BY <1>2, <2>1 DEF Expire, Report, vars, redis, outcome
  <2>. QED
    BY <2>1, <2>2, AroundStaysMindful
<1>. QED
  BY <1>1, <1>2 DEF Next

LEMMA RememberedOneByOne == Spec => [](Records /\ (Calm => Steady /\ Mindful))
<1>1. Init => Records /\ (Calm => Mindful)
  BY RecordsAtFirst, MindfulAtFirst
<1>2. Records /\ (Calm => Steady) /\ (Calm => Mindful) /\ [Next]_vars => Records' /\ (Calm' => Mindful')
  <2>1. Records /\ [Next]_vars => Records'
    BY RecordsStay
  <2>2. Records' => Shape'
    BY DEF Records
  <2>. QED
    BY <2>1, <2>2, CalmStaysMindful
<1>. QED
  BY <1>1, <1>2, CheckedOneByOne, PTL DEF Spec

(* A recovery is announced exactly when the check passes unchanged and the *)
(* check before it failed (_evaluate_result), while checks come one by one *)
(* and nothing fails: for any number of checks and bodies.                 *)
THEOREM ARecoveryEndsAFailure == Spec => []RecoveryWhenBack
<1>1. ASSUME Shape, Steady, Mindful, NEW r \in Checks, Finished(r), r > 1
      PROVE  <<r, TRUE>> \in pushed <=> OnRecovery /\ ~ Bad(r) /\ result[r - 1] = "error"
  <2>1. /\ Settled(r) /\ InOrder /\ Recalls(r) /\ Announced(r) /\ check[r].at = "done"
        /\ r \in Nat /\ r - 1 \in Checks /\ r - 1 \in 1..(r - 1)
    BY <1>1, ChecksAreNumbered DEF Steady, Mindful, Finished, At
  <2>2. Settled(r - 1) /\ check[r - 1].at = "done"
    BY <1>1, <2>1 DEF Steady, InOrder, At
  <2>3. Bad(r) <=> ~ Passed(r) \/ check[r].diff
    BY <2>1 DEF Settled, Compared
  <2>4. check[r].prev <=> Passed(r - 1)
    BY <1>1, <2>1 DEF Recalls, Verdict
  <2>5. Passed(r - 1) <=> result[r - 1] # "error"
    <3>1. result[r - 1] # "none"
      BY <2>2 DEF Settled, Compared
    <3>. QED
      BY <1>1, <2>1, <3>1, MonitorAssumption DEF Shape, Passed
  <2>6. <<r, TRUE>> \in pushed <=> Recovers(r)
    BY <2>1 DEF Announced
  <2>. QED
    BY <2>3, <2>4, <2>5, <2>6 DEF Recovers, ShouldAlert, IsRecovery
<1>2. Records /\ (Calm => Steady /\ Mindful) => RecoveryWhenBack
  BY <1>1 DEF RecoveryWhenBack, Records
<1>. QED
  BY <1>2, RememberedOneByOne, PTL
------------------------------------------------------------------------------
(* However checks overlap and calls fail, a count has as many failed or    *)
(* differing checks behind it: each of them that reads adds one, and one   *)
(* that passes unchanged adds none.                                        *)
Behind == {s \in Checks : check[s].count > 0}
Owed(r) ==
  /\ check[r].at \in {"new", "call", "compare", "prev", "count"} => check[r].count = 0
  /\ check[r].at \in {"compare", "prev", "count"} => result[r] # "none"
  /\ check[r].count > 0 => result[r] = "error" \/ check[r].diff
  /\ check[r].at = "save" => ShouldAlert(r) \/ Recovers(r)
  /\ <<r, FALSE>> \in alerts => check[r].count >= Threshold
Backed(n) == n <= Cardinality(Behind)
Earned == Backed(failCount) /\ \A r \in Checks : Backed(check[r].count) /\ Owed(r)

LEMMA BehindIsFinite ==
  IsFiniteSet(Checks) /\ IsFiniteSet(Behind) /\ Cardinality(Behind) \in Nat
<1>1. IsFiniteSet(Checks)
  BY MonitorAssumption, FS_Interval DEF Checks
<1>2. Behind \subseteq Checks
  BY DEF Behind
<1>. QED
  BY <1>1, <1>2, FS_Subset, FS_CardinalityType

LEMMA EarnedAtFirst == Init => Earned
<1> SUFFICES ASSUME Init PROVE Earned
  OBVIOUS
<1>1. \A r \in Checks : check[r].at = "new" /\ check[r].count = 0
  BY DEF Init, Unstarted
<1>2. Backed(0)
  BY BehindIsFinite DEF Backed
<1>. QED
  BY <1>1, <1>2 DEF Init, Earned, Owed

(* A step that leaves the counts of the checks as they are.                *)
LEMMA CountsStay ==
  ASSUME Earned, \A s \in Checks : check'[s].count = check[s].count,
         failCount' = failCount \/ \E s \in Checks : failCount' = check[s].count,
         \A s \in Checks : Owed(s)'
  PROVE  Earned'
<1>1. Behind' = Behind
  BY DEF Behind
<1>. QED
  BY <1>1 DEF Earned, Backed

LEMMA OthersStayOwed ==
  ASSUME NEW s \in Checks, Owed(s), check'[s] = check[s], result'[s] = result[s],
         <<s, FALSE>> \in alerts' => <<s, FALSE>> \in alerts
  PROVE  Owed(s)'
<1>1. ShouldAlert(s)' = ShouldAlert(s) /\ Recovers(s)' = Recovers(s)
  BY DEF Recovers, ShouldAlert, IsRecovery, Passed
<1>. QED
  BY <1>1 DEF Owed

LEMMA DecidingIsEarned ==
  ASSUME Shape, Earned, NEW r \in Checks, Deciding(r)
  PROVE  Earned'
<1> USE DEF redis, outcome
<1>0. Owed(r) /\ check[r].count \in Nat /\ failCount \in Nat
  BY DEF Earned, Shape
<1>1. /\ UNCHANGED alerts
      /\ \A s \in Checks \ {r} : check'[s] = check[s] /\ result'[s] = result[s]
  BY DEF Deciding, Begin, Call, Compare, ReadPrev, ReadCount, WriteCount, WriteStatus, Go, Shape
<1>2. \A s \in Checks \ {r} : Owed(s)'
  BY <1>1, OthersStayOwed DEF Earned
<1>3. ASSUME check'[r].count = check[r].count, Owed(r)',
             failCount' = failCount \/ failCount' = check[r].count
      PROVE  Earned'
  BY <1>1, <1>2, <1>3, CountsStay
<1>4. CASE Begin(r)
  <2>1. /\ check[r].at = "new" /\ check'[r].at = "call" /\ check'[r].count = check[r].count
        /\ check'[r].diff = check[r].diff /\ UNCHANGED <<result, failCount>>
    BY <1>4 DEF Begin, Go, At, Shape
  <2>. QED
    BY <1>0, <1>1, <1>3, <2>1 DEF Owed
<1>5. CASE Call(r)
  <2>1. /\ check[r].at = "call" /\ check'[r].at = "compare" /\ check'[r].count = check[r].count
        /\ result'[r] # "none" /\ UNCHANGED failCount
    BY <1>5, MonitorAssumption DEF Call, Go, At, Shape
  <2>. QED
    BY <1>0, <1>1, <1>3, <2>1 DEF Owed
<1>6. CASE Compare(r) \/ ReadPrev(r)
  <2>1. /\ check[r].at \in {"compare", "prev"} /\ check'[r].at \in {"prev", "count"}
        /\ check'[r].count = check[r].count /\ UNCHANGED <<result, failCount>>
    BY <1>6 DEF Compare, ReadPrev, At, Shape
  <2>. QED
    BY <1>0, <1>1, <1>3, <2>1 DEF Owed
<1>7. CASE ReadCount(r)
  <2>1. PICK n \in {0, failCount} :
          /\ check[r].at = "count" /\ check'[r].at = "write" /\ check'[r].count = NewCount(r, n)
          /\ check'[r].diff = check[r].diff /\ UNCHANGED <<result, failCount>>
    BY <1>7 DEF ReadCount, At, Shape
  <2>2. check[r].count = 0 /\ result[r] # "none" /\ r \notin Behind
    BY <1>0, <2>1 DEF Owed, Behind
  <2>3. NewCount(r, n) = (IF Passed(r) /\ ~ check[r].diff THEN 0 ELSE n + 1)
    BY DEF NewCount
  <2>4. Passed(r) \/ result[r] = "error"
    BY <2>2 DEF Passed, Shape
  <2>5. Owed(r)'
    <3>1. <<r, FALSE>> \notin alerts
      BY <1>0, <2>2, MonitorAssumption DEF Owed
    <3>. QED
      BY <1>1, <2>1, <2>3, <2>4, <3>1 DEF Owed
  <2>6. Backed(n) /\ n \in Nat
    BY <1>0, <2>1, BehindIsFinite DEF Earned, Backed
  <2>7. CASE Passed(r) /\ ~ check[r].diff
    <3>1. check'[r].count = check[r].count
      BY <2>1, <2>2, <2>3, <2>7
    <3>. QED
      BY <1>3, <2>1, <2>5, <3>1
  <2>8. CASE ~ (Passed(r) /\ ~ check[r].diff)
    <3>1. check'[r].count = n + 1
      BY <2>1, <2>3, <2>8
    <3>2. Behind' = Behind \cup {r}
      BY <1>1, <2>6, <3>1 DEF Behind
    <3>3. Cardinality(Behind)' = Cardinality(Behind) + 1
      BY <2>2, <3>2, BehindIsFinite, FS_AddElement
    <3>4. \A s \in Checks \ {r} : Backed(check[s].count)' /\ check[s].count \in Nat
      BY <1>1, <3>3, BehindIsFinite DEF Earned, Backed, Shape
    <3>5. Backed(failCount)' /\ Backed(check[r].count)'
      BY <1>0, <2>1, <2>6, <3>1, <3>3, BehindIsFinite DEF Earned, Backed
    <3>. QED
      BY <1>2, <2>5, <3>4, <3>5 DEF Earned
  <2>. QED
    BY <2>7, <2>8
<1>8. CASE WriteCount(r)
  <2>1. /\ check[r].at = "write" /\ check'[r].at = "status" /\ check'[r].count = check[r].count
        /\ check'[r].diff = check[r].diff /\ UNCHANGED result
        /\ failCount' = failCount \/ failCount' = check[r].count
    BY <1>8 DEF WriteCount, Go, At, Shape
  <2>. QED
    BY <1>0, <1>1, <1>3, <2>1 DEF Owed
<1>9. CASE WriteStatus(r)
  <2>1. /\ check[r].at = "status" /\ check'[r].count = check[r].count
        /\ check'[r].at = IF ShouldAlert(r) \/ Recovers(r) THEN "save" ELSE "done"
        /\ check'[r].prev = check[r].prev
        /\ check'[r].diff = check[r].diff /\ UNCHANGED <<result, failCount>>
    BY <1>9 DEF WriteStatus, Go, At, Shape
  <2>2. ShouldAlert(r)' = ShouldAlert(r) /\ Recovers(r)' = Recovers(r)
    BY <2>1 DEF Recovers, ShouldAlert, IsRecovery, Passed
  <2>. QED
    BY <1>0, <1>1, <1>3, <2>1, <2>2 DEF Owed
<1>. QED
  BY <1>4, <1>5, <1>6, <1>7, <1>8, <1>9 DEF Deciding

LEMMA AlarmingIsEarned ==
  ASSUME Shape, Earned, NEW r \in Checks, Alarming(r)
  PROVE  Earned'
<1> USE DEF redis, outcome
<1>1. /\ UNCHANGED <<result, failCount>>
      /\ \A s \in Checks \ {r} : check'[s] = check[s]
      /\ check'[r].count = check[r].count /\ check'[r].diff = check[r].diff
      /\ check'[r].at \in {"dedup", "push", "mark", "enqueue", "done"}
  BY DEF Alarming, Save, Dedup, Push, Mark, Enqueue, Go, Shape
<1>2. alerts' = alerts \/ (alerts' = alerts \cup {<<r, Recovers(r)>>} /\ check[r].at = "save")
  BY DEF Alarming, Save, Dedup, Push, Mark, Enqueue, Notice, At
<1>3. \A s \in Checks \ {r} : Owed(s)'
  BY <1>1, <1>2, OthersStayOwed DEF Earned
<1>4. ASSUME <<r, FALSE>> \in alerts' PROVE check[r].count >= Threshold
  <2>1. CASE <<r, FALSE>> \in alerts
    BY <2>1 DEF Earned, Owed
  <2>2. CASE <<r, FALSE>> \notin alerts
    <3>1. check[r].at = "save" /\ ~ Recovers(r)
      <4>1. check[r].at = "save" /\ <<r, FALSE>> = <<r, Recovers(r)>>
        BY <1>2, <1>4, <2>2, Zenon
      <4>. QED
        BY <4>1, Zenon
    <3>2. ShouldAlert(r)
      BY <3>1 DEF Earned, Owed
    <3>. QED
      BY <3>2 DEF ShouldAlert
  <2>. QED
    BY <2>1, <2>2
<1>5. Owed(r)'
  BY <1>1, <1>4 DEF Earned, Owed
<1>. QED
  BY <1>1, <1>3, <1>5, CountsStay

LEMMA AroundIsEarned ==
  ASSUME Shape, Earned,
         Crash \/ (\E f \in Fingerprints : Expire(f)) \/ (\E r \in RunNow : Report(r)) \/ UNCHANGED vars
  PROVE  Earned'
<1> USE DEF redis, outcome
<1>1. CASE Crash
  <2>1. /\ UNCHANGED <<result, alerts, failCount>>
        /\ \A s \in Checks : /\ check'[s] = check[s] \/ check'[s].at = "done"
                             /\ check'[s].count = check[s].count /\ check'[s].diff = check[s].diff
    BY <1>1 DEF Crash, Shape
  <2>2. ASSUME NEW s \in Checks PROVE Owed(s)'
    <3>1. CASE check'[s] = check[s]
      BY <2>1, <3>1, OthersStayOwed DEF Earned
    <3>2. CASE check'[s].at = "done"
      BY <2>1, <3>2 DEF Earned, Owed
    <3>. QED
      BY <2>1, <3>1, <3>2
  <2>. QED
    BY <2>1, <2>2, CountsStay
<1>2. CASE UNCHANGED <<result, alerts, failCount, check>>
  BY <1>2, OthersStayOwed, CountsStay DEF Earned
<1>. QED
  BY <1>1, <1>2 DEF Expire, Report, vars

(* An alert has as many failed or differing checks behind it as the        *)
(* threshold asks for (monitor.py _evaluate_result), however checks        *)
(* overlap, whatever Redis answers and wherever the process dies.          *)
THEOREM AnAlertIsEarned == Spec => []AlertsAreEarned
<1>1. Records /\ Earned /\ [Next]_vars => Records' /\ Earned'
  <2> SUFFICES ASSUME Records, Earned, [Next]_vars PROVE Earned'
    BY RecordsStay
  <2>1. Shape
    BY DEF Records
  <2>2. ASSUME NEW r \in Checks, RunMonitor(r) PROVE Earned'
    BY <2>1, <2>2, DecidingIsEarned, AlarmingIsEarned DEF RunMonitor, Deciding, Alarming
  <2>. QED
    BY <2>1, <2>2, AroundIsEarned DEF Next
<1>2. Records /\ Earned => AlertsAreEarned
  <2> SUFFICES ASSUME Shape, Earned, NEW r \in Checks, <<r, FALSE>> \in alerts
               PROVE  Cardinality({s \in Checks : result[s] = "error" \/ check[s].diff}) >= Threshold
    BY DEF AlertsAreEarned, Records
  <2> DEFINE bad == {s \in Checks : result[s] = "error" \/ check[s].diff}
  <2>1. Behind \subseteq bad
    BY DEF Earned, Owed, Behind
  <2>2. IsFiniteSet(bad)
    BY BehindIsFinite, FS_Subset
  <2>3. Cardinality(Behind) <= Cardinality(bad) /\ Cardinality(bad) \in Nat
    BY <2>1, <2>2, FS_Subset, FS_CardinalityType
  <2>4. check[r].count >= Threshold /\ check[r].count <= Cardinality(Behind) /\ check[r].count \in Nat
    BY DEF Earned, Owed, Backed, Shape
  <2> HIDE DEF bad
  <2>5. Cardinality(bad) >= Threshold
    BY <2>3, <2>4, BehindIsFinite, MonitorAssumption
  <2>. QED
    BY <2>5 DEF bad
<1>. QED
  BY <1>1, <1>2, RecordsAtFirst, EarnedAtFirst, PTL DEF Spec

(* What "run now" reports was decided when its check was over.             *)
Stored == crashes = 0 => \A r \in Checks : check[r].at \notin {"new", "call"} => result[r] # "none"

LEMMA StoredStays == Records /\ Stored /\ [Next]_vars => Stored'
<1> SUFFICES ASSUME Shape, Stored, [Next]_vars PROVE Stored'
  BY DEF Records
<1> USE DEF redis, outcome, bounds
<1>1. ASSUME NEW r \in Checks, RunMonitor(r) PROVE Stored'
  <2>1. crashes' = crashes /\ \A s \in Checks \ {r} : check'[s] = check[s] /\ result'[s] = result[s]
    BY <1>1 DEF RunMonitor, Begin, Call, Compare, ReadPrev, ReadCount, WriteCount, WriteStatus, Save,
                Dedup, Push, Mark, Enqueue, Go, Raises, Shape
  <2>2. CASE Begin(r) \/ Call(r)
    <3>1. check'[r].at = "call" \/ result'[r] # "none"
      BY <2>2, MonitorAssumption DEF Begin, Call, Go, Shape
    <3>. QED
      BY <2>1, <3>1 DEF Stored
  <2>3. CASE ~ (Begin(r) \/ Call(r))
    <3>1. UNCHANGED result /\ check[r].at \notin {"new", "call"}
      BY <1>1, <2>3 DEF RunMonitor, Compare, ReadPrev, ReadCount, WriteCount, WriteStatus, Save,
                Dedup, Push, Mark, Enqueue, At
    <3>. QED
      BY <2>1, <3>1 DEF Stored
  <2>. QED
    BY <2>2, <2>3
<1>2. CASE Crash
  BY <1>2 DEF Crash, Stored, Shape
<1>3. CASE (\E f \in Fingerprints : Expire(f)) \/ (\E r \in RunNow : Report(r)) \/ UNCHANGED vars
  BY <1>3 DEF Expire, Report, Raises, vars, Stored
<1>. QED
  BY <1>1, <1>2, <1>3 DEF Next

(* "Run now" shows no execution that is older than the check it made       *)
(* (run_monitor_now), however many others overlap with that check.         *)
THEOREM AReportIsNotStale == Spec => []ReportIsNotStale
<1>1. Records /\ Stored /\ ReportIsNotStale /\ [Next]_vars => ReportIsNotStale'
  <2> SUFFICES ASSUME Stored, ReportIsNotStale, [Next]_vars PROVE ReportIsNotStale'
    OBVIOUS
  <2>1. CASE UNCHANGED shown
    BY <2>1 DEF ReportIsNotStale
  <2>2. ASSUME NEW r \in RunNow, Report(r) PROVE ReportIsNotStale'
    <3>1. PICK s : /\ shown' = [check |-> r, execution |-> s, answered |-> TRUE]
                   /\ s = 0 \/ s \in Latest
      BY <2>2 DEF Report
    <3>2. CASE r # 0 /\ s # 0
      <4>1. r \in Checks
        BY <3>2, MonitorAssumption DEF Checks
      <4>2. check[r].at = "done" /\ crashes = 0
        BY <2>2, <3>2 DEF Report, At
      <4>3. r \in Executions
        BY <4>1, <4>2 DEF Stored, Executions
      <4>4. r <= s /\ r \in Nat /\ s \in Nat
        BY <3>1, <3>2, <4>1, <4>3, ChecksAreNumbered DEF Latest, Executions
      <4>. QED
        BY <3>1, <4>4 DEF ReportIsNotStale
    <3>3. CASE ~ (r # 0 /\ s # 0)
      BY <3>1, <3>3 DEF ReportIsNotStale
    <3>. QED
      BY <3>2, <3>3
  <2>. QED
    BY <2>1, <2>2 DEF Next, RunMonitor, Begin, Call, Compare, ReadPrev, ReadCount, WriteCount, WriteStatus,
                      Save, Dedup, Push, Mark, Enqueue, Expire, Crash, vars
<1>2. Init => Stored /\ ReportIsNotStale
  BY DEF Init, Stored, ReportIsNotStale, Unstarted, Unreported
<1>. QED
  BY <1>1, <1>2, RecordsAtFirst, RecordsStay, StoredStays, PTL DEF Spec
------------------------------------------------------------------------------
(* Checks one by one in spite of crashes.  An interrupted check counts for *)
(* nothing, though the execution it stored may be a baseline; the count is *)
(* the number of counted checks that end the series with bad ones only.    *)
Ends == {s \in counted : \A t \in counted : s <= t => Bad(t)}
Lined(r) ==
  /\ At(r, "new") => result[r] = "none"
  /\ r \in counted => check[r].at \in Late
  /\ check[r].at \in {"compare", "prev", "count", "write"} => result[r] # "none"
  /\ check[r].at \in {"prev", "count", "write"} => (Bad(r) <=> ~ Passed(r) \/ check[r].diff)
  /\ At(r, "write") => check[r].count = IF Bad(r) THEN failCount + 1 ELSE 0
HasLast == counted = {} \/ \E m \in counted : \A s \in counted : s <= m
InLine ==
  /\ InOrder /\ counted \subseteq Checks /\ HasLast /\ failCount = Cardinality(Ends)
  /\ \A r \in Checks : Lined(r)

LEMMA InLineAtFirst == Init => InLine
<1> SUFFICES ASSUME Init PROVE InLine
  OBVIOUS
<1>1. \A r \in Checks : check[r].at = "new" /\ result[r] = "none"
  BY DEF Init, Unstarted
<1>2. Ends = {} /\ counted = {}
  BY DEF Init, Ends
<1>. QED
  BY <1>1, <1>2, FS_EmptySet DEF Init, InLine, InOrder, HasLast, Lined, At

(* The counted checks come before the one under way, and their bad ones    *)
(* are bad for good.                                                       *)
LEMMA CountedIsPast ==
  ASSUME Shape, InLine, NEW r \in Checks, Alone(r), \A s \in Checks \ {r} : result'[s] = result[s],
         r \in counted => result'[r] = result[r]
  PROVE  /\ \A t \in counted : t <= r /\ (Bad(t)' <=> Bad(t))
         /\ counted' = counted => Ends' = Ends
<1>1. ASSUME NEW t \in counted PROVE t <= r /\ (Bad(t)' <=> Bad(t))
  <2>1. t \in Checks /\ t \in Nat /\ r \in Nat /\ t > 0
    BY ChecksAreNumbered DEF InLine
  <2>2. ~ (t > r)
    BY <2>1 DEF InLine, Lined, Late, Alone, At
  <2>3. \A s \in 1..t : (s \in Checks /\ s # r) \/ r = t
    BY <2>1, <2>2, ChecksAreNumbered
  <2>4. \A s \in 1..t : s \in Checks
    BY <2>1, ChecksAreNumbered
  <2>5. \A s \in 1..t : result'[s] = result[s]
    BY <2>3, <2>4
  <2>. QED
    BY <2>1, <2>2, <2>5, RunIsPast, ChecksAreNumbered
<1>2. counted' = counted => Ends' = Ends
  BY <1>1 DEF Ends
<1>. QED
  BY <1>1, <1>2

LEMMA OthersStayLined ==
  ASSUME InLine, NEW r \in Checks, Alone(r), counted' \subseteq counted \cup {r},
         \A s \in Checks \ {r} : check'[s] = check[s] /\ result'[s] = result[s]
  PROVE  \A s \in Checks \ {r} : Lined(s)'
<1> SUFFICES ASSUME NEW s \in Checks \ {r} PROVE Lined(s)'
  OBVIOUS
<1>1. At(s, "new") \/ At(s, "done")
  BY ChecksAreNumbered DEF Alone
<1>. QED
  BY <1>1 DEF InLine, Lined, At

(* Any step but the writing of the count. *)
LEMMA StaysInLine ==
  ASSUME Shape, InLine, NEW r \in Checks, Alone(r), UNCHANGED <<counted, failCount>>,
         \A s \in Checks \ {r} : check'[s] = check[s] /\ result'[s] = result[s],
         r \in counted => result'[r] = result[r],
         ~ At(r, "new")', Lined(r)'
  PROVE  InLine'
<1>1. InOrder' /\ Ends' = Ends
  BY AloneStaysInOrder, CountedIsPast
<1>2. \A s \in Checks \ {r} : Lined(s)'
  BY OthersStayLined
<1>. QED
  BY <1>1, <1>2 DEF InLine, HasLast

LEMMA MonitorStaysInLine ==
  ASSUME Shape, InLine, NEW r \in Checks, RunMonitor(r), Alone(r), faults' = 0
  PROVE  InLine'
<1> USE DEF redis, outcome, bounds
<1>0. Lined(r) /\ r \in 0..MaxChecks /\ r > 0 /\ r \in Nat
  BY ChecksAreNumbered DEF InLine
<1>1. \A s \in Checks \ {r} : check'[s] = check[s] /\ result'[s] = result[s]
  BY DEF RunMonitor, Begin, Call, Compare, ReadPrev, ReadCount, WriteCount, WriteStatus, Save, Dedup,
         Push, Mark, Enqueue, Go, Shape
<1>2. CASE Begin(r) \/ Call(r)
  <2>1. /\ check[r].at \in {"new", "call"} /\ UNCHANGED <<counted, failCount>>
        /\ \/ check'[r].at = "call"
           \/ check'[r].at = "compare" /\ result'[r] # "none"
    BY <1>2, MonitorAssumption DEF Begin, Call, Go, At, Shape
  <2>2. r \notin counted
    BY <1>0, <2>1 DEF Lined, Late
  <2>3. Lined(r)'
    BY <2>1, <2>2 DEF Lined, At
  <2>. QED
    BY <1>1, <2>1, <2>2, <2>3, StaysInLine DEF At
<1>3. ASSUME UNCHANGED <<counted, failCount, result>>, check'[r].at # "new", Lined(r)'
      PROVE  InLine'
  BY <1>1, <1>3, StaysInLine DEF At
<1>4. result' = result => (Bad(r)' <=> Bad(r)) /\ (Passed(r)' <=> Passed(r))
  BY <1>0, RunIsPast DEF Passed
<1>5. CASE Compare(r)
  <2>1. /\ check[r].at = "compare" /\ check'[r].at = "prev" /\ check'[r].diff = Differs(r)
        /\ UNCHANGED <<counted, failCount, result>>
    BY <1>5 DEF Compare, At, Shape
  <2>2. Baselines(r) = PassedBefore(r)
    <3>1. \A s \in Checks : s > r => ~ Passed(s)
      BY MonitorAssumption DEF Alone, At, InLine, Lined, Passed
    <3>. QED
      BY <1>0, <3>1, ChecksAreNumbered DEF Baselines, PassedBefore, Checks
  <2>3. result[r] = "error" <=> ~ Passed(r)
    BY <1>0, <2>1, MonitorAssumption DEF Lined, Passed, Shape
  <2>4. Bad(r) <=> ~ Passed(r) \/ Differs(r)
    BY <2>2, <2>3 DEF Bad, Differs
  <2>5. r \notin counted
    BY <1>0, <2>1 DEF Lined, Late
  <2>6. Lined(r)'
    BY <1>0, <1>4, <2>1, <2>4, <2>5 DEF Lined, At
  <2>. QED
    BY <1>3, <2>1, <2>6
<1>6. CASE ReadPrev(r)
  <2>1. /\ check[r].at = "prev" /\ check'[r].at = "count" /\ check'[r].diff = check[r].diff
        /\ UNCHANGED <<counted, failCount, result>>
    BY <1>6 DEF ReadPrev, At, Shape
  <2>2. r \notin counted
    BY <1>0, <2>1 DEF Lined, Late
  <2>3. Lined(r)'
    BY <1>0, <1>4, <2>1, <2>2 DEF Lined, At
  <2>. QED
    BY <1>3, <2>1, <2>3
<1>7. CASE ReadCount(r)
  <2>1. /\ check[r].at = "count" /\ check'[r].at = "write" /\ check'[r].diff = check[r].diff
        /\ check'[r].count = NewCount(r, failCount) /\ UNCHANGED <<counted, failCount, result>>
    BY <1>7 DEF ReadCount, Raises, At, Shape
  <2>2. r \notin counted
    BY <1>0, <2>1 DEF Lined, Late
  <2>3. NewCount(r, failCount) = IF Bad(r) THEN failCount + 1 ELSE 0
    BY <1>0, <2>1 DEF Lined, NewCount
  <2>4. Lined(r)'
    BY <1>0, <1>4, <2>1, <2>2, <2>3 DEF Lined, At
  <2>. QED
    BY <1>3, <2>1, <2>4
<1>8. CASE WriteCount(r)
  <2>1. /\ check[r].at = "write" /\ check'[r].at = "status" /\ counted' = counted \cup {r}
        /\ failCount' = check[r].count /\ UNCHANGED result
    BY <1>8 DEF WriteCount, Raises, Go, At, Shape
  <2>2. r \notin counted /\ check[r].count = IF Bad(r) THEN failCount + 1 ELSE 0
    BY <1>0, <2>1 DEF Lined, Late, At
  <2>3. /\ \A t \in counted : t <= r /\ t \in Nat /\ t # r /\ (Bad(t)' <=> Bad(t))
        /\ Bad(r)' <=> Bad(r)
    BY <1>1, <1>4, <2>1, <2>2, CountedIsPast, ChecksAreNumbered DEF InLine
  <2>4. Ends' = IF Bad(r) THEN Ends \cup {r} ELSE {}
    <3>1. \A t \in counted : t < r
      BY <1>0, <2>3
    <3>2. CASE Bad(r)
      BY <1>0, <2>1, <2>3, <3>1, <3>2 DEF Ends
    <3>3. CASE ~ Bad(r)
      BY <1>0, <2>1, <2>3, <3>1, <3>3 DEF Ends
    <3>. QED
      BY <3>2, <3>3
  <2>5. failCount' = Cardinality(Ends)'
    <3>1. IsFiniteSet(Ends)
      <4>1. Ends \subseteq Checks
        BY DEF Ends, InLine
      <4>. QED
        BY <4>1, BehindIsFinite, FS_Subset
    <3>2. r \notin Ends /\ failCount = Cardinality(Ends)
      BY <2>2 DEF Ends, InLine
    <3>. QED
      BY <2>1, <2>2, <2>4, <3>1, <3>2, FS_AddElement, FS_EmptySet
  <2>6. Lined(r)' /\ \A s \in Checks \ {r} : Lined(s)'
    BY <1>1, <2>1, OthersStayLined DEF Lined, At, Late
  <2>7. InOrder' /\ counted' \subseteq Checks
    BY <1>1, <2>1, AloneStaysInOrder DEF InLine, At
  <2>8. HasLast'
    BY <1>0, <2>1, <2>3 DEF HasLast
  <2>. QED
    BY <2>5, <2>6, <2>7, <2>8 DEF InLine
<1>9. CASE WriteStatus(r) \/ Alarming(r)
  <2>1. /\ check'[r].at \in {"save", "dedup", "push", "mark", "enqueue", "done"}
        /\ UNCHANGED <<counted, failCount, result>>
    BY <1>9 DEF WriteStatus, Alarming, Save, Dedup, Push, Mark, Enqueue, Go, Shape
  <2>2. Lined(r)'
    BY <2>1 DEF Lined, At, Late
  <2>. QED
    BY <1>3, <2>1, <2>2
<1>. QED
  BY <1>2, <1>5, <1>6, <1>7, <1>8, <1>9 DEF RunMonitor, Alarming

LEMMA AroundStaysInLine ==
  ASSUME Shape, InLine,
         Crash \/ (\E f \in Fingerprints : Expire(f)) \/ (\E r \in RunNow : Report(r)) \/ UNCHANGED vars
  PROVE  InLine'
<1> USE DEF redis, outcome
<1>1. UNCHANGED <<result, counted, failCount>>
  BY DEF Crash, Expire, Report, vars
<1>2. \A r \in Checks : Bad(r)' = Bad(r) /\ Passed(r)' = Passed(r)
  BY <1>1 DEF Bad, Passed, PassedBefore
<1>3. Ends' = Ends
  BY <1>1, <1>2 DEF Ends, InLine
<1>4. CASE Crash
  <2>1. \A s \in Checks : \/ check'[s] = check[s] /\ check[s].at \in {"new", "done"}
                          \/ check'[s].at = "done" /\ check[s].at # "new"
    BY <1>4 DEF Crash, UnderWay, Shape
  <2>2. \A s \in Checks : Lined(s)'
    BY <1>1, <1>2, <2>1 DEF InLine, Lined, At, Late
  <2>3. InOrder'
    BY <2>1, ChecksAreNumbered DEF InLine, InOrder, At
  <2>. QED
    BY <1>1, <1>3, <2>2, <2>3 DEF InLine, HasLast
<1>5. CASE UNCHANGED check
  BY <1>1, <1>2, <1>3, <1>5 DEF InLine, HasLast, InOrder, Lined, At
<1>. QED
  BY <1>4, <1>5 DEF Expire, Report, vars

(* The count in Redis is the length of the streak of bad checks, while     *)
(* checks come one by one and every call is answered: wherever the process *)
(* dies, for any number of checks and bodies (monitor.py:4).               *)
THEOREM TheCountIsTheStreak == Spec => []CountIsStreak
<1>1. Records /\ (OneByOne => InLine) /\ [Next]_vars => Records' /\ (OneByOne' => InLine')
  <2> SUFFICES ASSUME Records, OneByOne => InLine, [Next]_vars, OneByOne' PROVE InLine'
    BY RecordsStay
  <2>1. Shape
    BY DEF Records
  <2>2. ASSUME NEW r \in Checks, RunMonitor(r) PROVE InLine'
    <3>1. OneByOne
      <4> USE <2>2 DEF RunMonitor, Begin, Call, Compare, ReadPrev, ReadCount, WriteCount, WriteStatus,
                       Save, Dedup, Push, Mark, Enqueue
      <4>1. overlapped => overlapped'
        OBVIOUS
      <4>2. faults' \in {faults, faults + 1}
        BY DEF bounds, Raises
      <4>. QED
        BY ONLY <4>1, <4>2, OneByOne', Shape DEF OneByOne, Shape
    <3>. QED
      BY <2>1, <2>2, <3>1, OneActsAtATime, MonitorStaysInLine DEF InLine
  <2>3. CASE Crash \/ (\E f \in Fingerprints : Expire(f)) \/ (\E r \in RunNow : Report(r)) \/ UNCHANGED vars
    <3>1. OneByOne
      BY <2>1, <2>3 DEF Crash, Expire, Report, vars, bounds, Raises, OneByOne, Shape
    <3>. QED
      BY <2>1, <2>3, <3>1, AroundStaysInLine
  <2>. QED
    BY <2>2, <2>3 DEF Next
<1>2. (OneByOne => InLine) => CountIsStreak
  <2> SUFFICES ASSUME InLine
               PROVE  failCount = IF counted = {} THEN 0
                                  ELSE Streak(CHOOSE r \in counted : \A s \in counted : s <= r)
    BY DEF CountIsStreak
  <2>1. CASE counted = {}
    <3>1. Ends = {}
      BY <2>1 DEF Ends
    <3>. QED
      BY <2>1, <3>1, FS_EmptySet DEF InLine
  <2>2. CASE counted # {}
    <3> DEFINE last == CHOOSE r \in counted : \A s \in counted : s <= r
    <3>1. last \in counted /\ \A s \in counted : s <= last
      BY <2>2 DEF InLine, HasLast
    <3> HIDE DEF last
    <3>2. {s \in counted : s <= last /\ \A t \in {u \in counted : s <= u /\ u <= last} : Bad(t)} = Ends
      BY <3>1 DEF Ends
    <3>3. failCount = Streak(last)
      BY <3>2 DEF Streak, InLine
    <3>. QED
      BY <2>2, <3>3 DEF last
  <2>. QED
    BY <2>1, <2>2
<1>. QED
  BY <1>1, <1>2, RecordsAtFirst, InLineAtFirst, PTL DEF Spec
------------------------------------------------------------------------------
(* The schedule, for every set of monitors, plans and requests: documents *)
(* and jobs keep in step where requests come one at a time.               *)

(* What holds between two steps of a request nobody else crossed. *)
Between(q) ==
  /\ q.at = "create registering" => doc[q.on] = q.new /\ job[q.on] = "none"
  /\ q.at = "update loaded" => RunsAsStored(q.on)
  /\ q.at = "update read" => doc[q.on] = q.read
  /\ q.at = "toggle loaded" => Exists(q.on) /\ doc[q.on].plan = q.new.plan
  /\ q.at = "toggle written" => doc[q.on] = q.new
  /\ q.at = "delete unscheduled" => job[q.on] = "none"

Good(m) ==
  \/ AtRest(m) /\ RunsAsStored(m)
  \/ \E a \in Requests : Working(m) = {a} /\ Between(request[a])
ScheduleInv == ScheduleTypeOK /\ \A m \in Monitors \ crossed : Good(m)
------------------------------------------------------------------------------
LEMMA NoneIsNoDocument == None \notin Docs
BY ScheduleAssumption DEF None, Docs

LEMMA NoneRunsNot == Scheduled(None) = "none"
BY DEF Scheduled, None

LEMMA NoRequestIsIdle == NoRequest \in Request /\ NoRequest.at \notin Steps /\ NoRequest.on \notin Monitors
BY ScheduleAssumption DEF NoRequest, Request, Steps, None

LEMMA ScheduledIsPlan == ASSUME NEW d \in Docs \cup {None} PROVE Scheduled(d) \in Plans \cup {"none"}
BY DEF Scheduled, Docs, None

(* A request at a step of its own works on a monitor. *)
LEMMA Underway ==
  ASSUME ScheduleTypeOK, NEW a \in Requests, NEW s \in Steps, Stands(a, s)
  PROVE  Formed(request[a]) /\ Of(a) \in Monitors /\ request[a] \in Request
BY NoRequestIsIdle DEF ScheduleTypeOK, Stands, Formed, Of

(* What a request becomes when it goes on to its next step. *)
LEMMA NextStep ==
  ASSUME NEW q \in Request, Formed(q), NEW s \in Steps,
         s \in {"delete loaded", "delete unscheduled"} \/ q.new \in Docs
  PROVE  LET p == [q EXCEPT !.at = s]
         IN  p \in Request /\ Formed(p) /\ p.at = s /\ p.on = q.on /\ p.new = q.new /\ p.read = q.read
BY DEF Request, Formed, Steps

LEMMA RequestsTyped ==
  ASSUME ScheduleTypeOK, NEW a \in Requests, NEW q \in Request, q = NoRequest \/ Formed(q),
         request' = [request EXCEPT ![a] = q]
  PROVE  /\ request' \in [Requests -> Request]
         /\ \A b \in Requests : request'[b] = NoRequest \/ Formed(request'[b])
BY DEF ScheduleTypeOK

(* A request that begins on a monitor is well formed. *)
LEMMA BeginTyped ==
  ASSUME ScheduleTypeOK, NEW a \in Requests, NEW m \in Monitors, NEW step \in Steps,
         NEW new \in Docs \cup {None}, Open(a, m, step, new),
         step \in {"delete loaded", "delete unscheduled"} \/ new \in Docs
  PROVE  /\ request' \in [Requests -> Request]
         /\ \A b \in Requests : request'[b] = NoRequest \/ Formed(request'[b])
         /\ crossed' \subseteq Monitors
<1> DEFINE q == [at |-> step, on |-> m, read |-> doc[m], new |-> new]
<1>1. q \in Request /\ Formed(q)
  BY DEF ScheduleTypeOK, Request, Formed
<1>2. request' = [request EXCEPT ![a] = q] /\ crossed' \subseteq Monitors
  BY DEF Open, ScheduleTypeOK
<1>. QED
  BY <1>1, <1>2, RequestsTyped

LEMMA GoOnTyped ==
  ASSUME ScheduleTypeOK, NEW a \in Requests, NEW s \in Steps, Stands(a, s), NEW step \in Steps, GoOn(a, step),
         step \in {"delete loaded", "delete unscheduled"} \/ request[a].new \in Docs
  PROVE  /\ request' \in [Requests -> Request]
         /\ \A b \in Requests : request'[b] = NoRequest \/ Formed(request'[b])
         /\ crossed' \subseteq Monitors
<1> DEFINE q == [request[a] EXCEPT !.at = step]
<1>1. q \in Request /\ Formed(q)
  BY Underway, NextStep
<1>2. request' = [request EXCEPT ![a] = q] /\ crossed' \subseteq Monitors
  BY DEF GoOn, ScheduleTypeOK
<1>. QED
  BY <1>1, <1>2, RequestsTyped

LEMMA FinishTyped ==
  ASSUME ScheduleTypeOK, NEW a \in Requests, Finish(a)
  PROVE  /\ request' \in [Requests -> Request]
         /\ \A b \in Requests : request'[b] = NoRequest \/ Formed(request'[b])
         /\ crossed' \subseteq Monitors
BY NoRequestIsIdle DEF Finish, ScheduleTypeOK

(* start() loads none that is disabled. *)
LEMMA LoadedEnabled == ASSUME NEW S \in Loaded PROVE S \subseteq Enabled
BY DEF Loaded, Fill

LEMMA ScheduleTyped == ASSUME ScheduleTypeOK, [ScheduleNext]_scheduleVars PROVE ScheduleTypeOK'
<1>1. ASSUME NEW a \in Requests, NEW m \in Monitors, NEW d \in Docs, Insert(a, m, d) PROVE ScheduleTypeOK'
  <2>1. Open(a, m, "create registering", d)
    BY <1>1 DEF Insert
  <2>. QED
    BY <1>1, <2>1, BeginTyped DEF Insert, ScheduleTypeOK, Exists, Steps
<1>2. ASSUME NEW a \in Requests, NEW m \in Monitors, NEW d \in Docs, LoadUpdate(a, m, d) PROVE ScheduleTypeOK'
  BY <1>2, BeginTyped DEF LoadUpdate, ScheduleTypeOK, Exists, Steps
<1>3. ASSUME NEW a \in Requests, NEW m \in Monitors, NEW on \in BOOLEAN, LoadToggle(a, m, on) PROVE ScheduleTypeOK'
  <2>1. [doc[m] EXCEPT !.enabled = on] \in Docs
    BY <1>3 DEF LoadToggle, Exists, ScheduleTypeOK, Docs
  <2>. QED
    BY <1>3, <2>1, BeginTyped DEF LoadToggle, ScheduleTypeOK, Exists, Steps
<1>4. ASSUME NEW a \in Requests, NEW m \in Monitors, LoadDelete(a, m) PROVE ScheduleTypeOK'
  BY <1>4, BeginTyped DEF LoadDelete, ScheduleTypeOK, Exists, Steps
<1>5. ASSUME NEW a \in Requests, Register(a) PROVE ScheduleTypeOK'
  <2>1. request[a].new \in Docs /\ Of(a) \in Monitors
    BY <1>5, Underway DEF Register, Formed, Steps, Stands
  <2>2. job' \in [Monitors -> Plans \cup {"none"}]
    <3>1. Scheduled(request[a].new) \in Plans \cup {"none"}
      BY <2>1, ScheduledIsPlan
    <3>2. job' = job \/ job' = [job EXCEPT ![Of(a)] = Scheduled(request[a].new)]
      BY <1>5 DEF Register, Schedule
    <3>. QED
      BY <2>1, <3>1, <3>2 DEF ScheduleTypeOK
  <2>. QED
    BY <1>5, <2>2, FinishTyped DEF Register, ScheduleTypeOK, Exists
<1>6. ASSUME NEW a \in Requests, UpdateDoc(a) PROVE ScheduleTypeOK'
  <2>1. request[a].new \in Docs /\ Of(a) \in Monitors
    BY <1>6, Underway DEF UpdateDoc, Formed, Steps, Stands
  <2>2. /\ request' \in [Requests -> Request]
        /\ \A b \in Requests : request'[b] = NoRequest \/ Formed(request'[b])
        /\ crossed' \subseteq Monitors
    BY <1>6, <2>1, FinishTyped, GoOnTyped DEF UpdateDoc, Steps
  <2>. QED
    BY <1>6, <2>1, <2>2 DEF UpdateDoc, ScheduleTypeOK, Exists
<1>7. ASSUME NEW a \in Requests, ReadAgain(a) PROVE ScheduleTypeOK'
  <2>1. Of(a) \in Monitors /\ request[a].new \in Docs /\ request[a] \in Request
    BY <1>7, Underway DEF ReadAgain, Steps, Stands, Formed
  <2> DEFINE q == [request[a] EXCEPT !.at = "update read", !.read = doc[Of(a)]]
  <2>2. q \in Request /\ Formed(q)
    BY <1>7, <2>1, Underway DEF Request, Formed, Steps, ScheduleTypeOK, ReadAgain, Of
  <2>3. request' = [request EXCEPT ![a] = q]
    BY <1>7 DEF ReadAgain
  <2>. QED
    BY <1>7, <2>2, <2>3, RequestsTyped DEF ReadAgain, ScheduleTypeOK, Exists
<1>8. ASSUME NEW a \in Requests, UpdateJob(a) PROVE ScheduleTypeOK'
  <2>1. request[a].read \in Docs \cup {None}
    BY DEF ScheduleTypeOK, Request
  <2>2. job' \in [Monitors -> Plans \cup {"none"}]
    BY <1>8, <2>1, ScheduledIsPlan DEF UpdateJob, Schedule, ScheduleTypeOK
  <2>. QED
    BY <1>8, <2>2, FinishTyped DEF UpdateJob, ScheduleTypeOK, Exists
<1>9. ASSUME NEW a \in Requests, ToggleDoc(a) PROVE ScheduleTypeOK'
  <2>1. request[a].new \in Docs /\ Of(a) \in Monitors
    BY <1>9, Underway DEF ToggleDoc, Formed, Steps, Stands
  <2>2. Exists(Of(a)) => [doc[Of(a)] EXCEPT !.enabled = request[a].new.enabled] \in Docs
    BY <2>1 DEF Exists, ScheduleTypeOK, Docs
  <2>3. /\ doc' \in [Monitors -> Docs \cup {None}]
        /\ \A m \in Monitors : doc[m] = None => doc'[m] = None
    BY <1>9, <2>1, <2>2 DEF ToggleDoc, ScheduleTypeOK, Exists
  <2>4. /\ request' \in [Requests -> Request]
        /\ \A b \in Requests : request'[b] = NoRequest \/ Formed(request'[b])
        /\ crossed' \subseteq Monitors
    BY <1>9, <2>1, GoOnTyped DEF ToggleDoc, Steps
  <2>. QED
    BY <1>9, <2>3, <2>4 DEF ToggleDoc, ScheduleTypeOK, Exists
<1>10. ASSUME NEW a \in Requests, ToggleJob(a) PROVE ScheduleTypeOK'
  <2>1. request[a].new \in Docs
    BY <1>10, Underway DEF ToggleJob, Formed, Steps, Stands
  <2>2. job' \in [Monitors -> Plans \cup {"none"}]
    BY <1>10, <2>1, ScheduledIsPlan DEF ToggleJob, Schedule, ScheduleTypeOK
  <2>. QED
    BY <1>10, <2>2, FinishTyped DEF ToggleJob, ScheduleTypeOK, Exists
<1>11. ASSUME NEW a \in Requests, DeleteJob(a) PROVE ScheduleTypeOK'
  <2>1. job' \in [Monitors -> Plans \cup {"none"}]
    BY <1>11, ScheduledIsPlan DEF DeleteJob, Schedule, ScheduleTypeOK
  <2>2. /\ request' \in [Requests -> Request]
        /\ \A b \in Requests : request'[b] = NoRequest \/ Formed(request'[b])
        /\ crossed' \subseteq Monitors
    BY <1>11, GoOnTyped DEF DeleteJob, Steps
  <2>. QED
    BY <1>11, <2>1, <2>2 DEF DeleteJob, ScheduleTypeOK, Exists
<1>12. ASSUME NEW a \in Requests, DeleteDoc(a) PROVE ScheduleTypeOK'
  <2>1. Of(a) \in Monitors
    BY <1>12, Underway DEF DeleteDoc, Steps
  <2>. QED
    BY <1>12, <2>1, FinishTyped DEF DeleteDoc, ScheduleTypeOK, Exists
<1>13. CASE Restart
  <2>1. PICK S \in Loaded : job' = [m \in Monitors |-> IF m \in S THEN doc[m].plan ELSE "none"]
    BY <1>13 DEF Restart
  <2>2. ASSUME NEW m \in S PROVE doc[m].plan \in Plans
    BY LoadedEnabled DEF Enabled, ScheduleTypeOK, Docs, None
  <2>3. job' \in [Monitors -> Plans \cup {"none"}]
    BY <2>1, <2>2
  <2>. QED
    BY <1>13, <2>3, NoRequestIsIdle DEF Restart, ScheduleTypeOK, Exists
<1>14. CASE UNCHANGED scheduleVars
  BY <1>14 DEF scheduleVars, ScheduleTypeOK, Exists
<1>. QED
  BY <1>1, <1>2, <1>3, <1>4, <1>5, <1>6, <1>7, <1>8, <1>9, <1>10, <1>11, <1>12, <1>13, <1>14 DEF ScheduleNext

(* Every variable has its type. *)
THEOREM ScheduleTypeCorrect == ScheduleSpec => []ScheduleTypeOK
<1>1. ScheduleInit => ScheduleTypeOK
  BY NoRequestIsIdle DEF ScheduleInit, ScheduleTypeOK
<1>. QED
  BY <1>1, ScheduleTyped, PTL DEF ScheduleSpec
------------------------------------------------------------------------------
(* A step of one request leaves the monitors of the others alone. *)
LEMMA Elsewhere ==
  ASSUME ScheduleTypeOK, NEW a \in Requests, NEW q \in Request, request' = [request EXCEPT ![a] = q],
         NEW m \in Monitors, Of(a) # m, q.on # m,
         doc'[m] = doc[m], job'[m] = job[m], Good(m)
  PROVE  Good(m)'
<1>1. \A b \in Working(m) : b # a /\ request'[b] = request[b] /\ request[b].on = m
  BY DEF Working, Of, ScheduleTypeOK
<1>2. Working(m)' = Working(m)
  BY DEF Working, Of, ScheduleTypeOK
<1>3. CASE AtRest(m) /\ RunsAsStored(m)
  BY <1>2, <1>3 DEF Good, AtRest, RunsAsStored
<1>4. ASSUME NEW b \in Requests, Working(m) = {b}, Between(request[b]) PROVE Good(m)'
  <2>1. request'[b] = request[b] /\ request[b].on = m
    BY <1>1, <1>4
  <2>2. Between(request[b])'
    BY <1>4, <2>1 DEF Between, RunsAsStored, Exists
  <2>. QED
    BY <1>2, <1>4, <2>2 DEF Good
<1>. QED
  BY <1>3, <1>4 DEF Good

(* The request that works on a monitor nobody crossed is alone with it. *)
LEMMA Here ==
  ASSUME ScheduleTypeOK, NEW a \in Requests, NEW q \in Request, request' = [request EXCEPT ![a] = q],
         NEW m \in Monitors, Of(a) = m, Good(m)
  PROVE  /\ Between(request[a])
         /\ q.on = m => Working(m)' = {a} /\ request'[a] = q
         /\ q.on # m => Working(m)' = {}
<1>1. a \in Working(m)
  BY DEF Working
<1>2. Working(m) = {a} /\ Between(request[a])
  BY <1>1 DEF Good, AtRest
<1>. QED
  BY <1>2 DEF Working, Of, ScheduleTypeOK

LEMMA BeginHere ==
  ASSUME ScheduleTypeOK, NEW a \in Requests, NEW m \in Monitors, NEW step \in Steps,
         NEW new \in Docs \cup {None}, Open(a, m, step, new), m \notin crossed', Good(m)
  PROVE  /\ RunsAsStored(m) /\ Working(m)' = {a}
         /\ request'[a].at = step /\ request'[a].on = m /\ request'[a].new = new
<1>1. Working(m) = {} /\ RunsAsStored(m)
  BY DEF Open, Good, AtRest
<1>. QED
  BY <1>1 DEF Open, Working, Of, ScheduleTypeOK

(* The same for the three shapes of a step. *)
LEMMA BeginElsewhere ==
  ASSUME ScheduleTypeOK, NEW a \in Requests, NEW m \in Monitors, NEW step \in Steps,
         NEW new \in Docs \cup {None}, Open(a, m, step, new),
         NEW n \in Monitors, n # m, doc'[n] = doc[n], job'[n] = job[n], Good(n)
  PROVE  Good(n)'
<1> DEFINE q == [at |-> step, on |-> m, read |-> doc[m], new |-> new]
<1>1. q \in Request /\ q.on # n
  BY DEF ScheduleTypeOK, Request
<1>2. request' = [request EXCEPT ![a] = q] /\ Of(a) # n
  BY NoRequestIsIdle DEF Open, Of
<1>. QED
  BY <1>1, <1>2, Elsewhere

LEMMA GoOnElsewhere ==
  ASSUME ScheduleTypeOK, NEW a \in Requests, NEW step \in Steps, GoOn(a, step), NEW n \in Monitors, Of(a) # n,
         doc'[n] = doc[n], job'[n] = job[n], Good(n)
  PROVE  Good(n)'
<1> DEFINE q == [request[a] EXCEPT !.at = step]
<1>1. q \in Request /\ q.on # n
  BY DEF ScheduleTypeOK, Request, Of
<1>2. request' = [request EXCEPT ![a] = q]
  BY DEF GoOn
<1>. QED
  BY <1>1, <1>2, Elsewhere

LEMMA GoOnHere ==
  ASSUME ScheduleTypeOK, NEW a \in Requests, NEW s \in Steps, Stands(a, s), NEW step \in Steps, GoOn(a, step),
         step \in {"delete loaded", "delete unscheduled"} \/ request[a].new \in Docs,
         NEW m \in Monitors, Of(a) = m, Good(m)
  PROVE  /\ Between(request[a])
         /\ Working(m)' = {a}
         /\ request'[a].at = step /\ request'[a].on = m /\ request'[a].new = request[a].new
<1> DEFINE q == [request[a] EXCEPT !.at = step]
<1>1. q \in Request /\ q.on = m /\ q.at = step /\ q.new = request[a].new
  BY Underway, NextStep DEF Of
<1>2. request' = [request EXCEPT ![a] = q]
  BY DEF GoOn
<1>. HIDE DEF q
<1>3. Between(request[a]) /\ Working(m)' = {a} /\ request'[a] = q
  BY <1>1, <1>2, Here
<1>. QED
  BY <1>1, <1>3

LEMMA FinishElsewhere ==
  ASSUME ScheduleTypeOK, NEW a \in Requests, Finish(a), NEW n \in Monitors, Of(a) # n,
         doc'[n] = doc[n], job'[n] = job[n], Good(n)
  PROVE  Good(n)'
BY NoRequestIsIdle, Elsewhere DEF Finish

LEMMA FinishHere ==
  ASSUME ScheduleTypeOK, NEW a \in Requests, Finish(a), NEW m \in Monitors, Of(a) = m, Good(m)
  PROVE  Between(request[a]) /\ Working(m)' = {}
BY NoRequestIsIdle, Here DEF Finish

(* Nobody's monitor, and no other request's, is touched by a step. *)
LEMMA Kept ==
  ASSUME ScheduleInv, [ScheduleNext]_scheduleVars, IsFiniteSet(Monitors), Cardinality(Monitors) <= LoadLimit,
         NEW m \in Monitors \ crossed'
  PROVE  Good(m)'
<1>0. ScheduleTypeOK
  BY DEF ScheduleInv
<1>1. ASSUME NEW a \in Requests, NEW n \in Monitors, NEW d \in Docs, Insert(a, n, d) PROVE Good(m)'
  <2>1. Open(a, n, "create registering", d) /\ "create registering" \in Steps /\ d \in Docs \cup {None}
    BY <1>1 DEF Insert, Steps
  <2>2. Good(m)
    BY <2>1 DEF ScheduleInv, Open
  <2>3. CASE m # n
    BY <1>0, <1>1, <2>1, <2>2, <2>3, BeginElsewhere DEF Insert, ScheduleTypeOK
  <2>4. CASE m = n
    <3>1. /\ RunsAsStored(m) /\ Working(m)' = {a}
          /\ request'[a].at = "create registering" /\ request'[a].on = m /\ request'[a].new = d
      BY <1>0, <2>1, <2>2, <2>4, BeginHere
    <3>2. doc'[m] = d /\ job'[m] = "none"
      BY <1>0, <1>1, <2>4, <3>1, NoneRunsNot DEF Insert, ScheduleTypeOK, RunsAsStored, Exists
    <3>3. Between(request[a])'
      BY <3>1, <3>2 DEF Between
    <3>. QED
      BY <3>1, <3>3 DEF Good
  <2>. QED
    BY <2>3, <2>4
<1>2. ASSUME NEW a \in Requests, NEW n \in Monitors, NEW d \in Docs, LoadUpdate(a, n, d) PROVE Good(m)'
  <2>1. Open(a, n, "update loaded", d) /\ "update loaded" \in Steps /\ d \in Docs \cup {None}
    BY <1>2 DEF LoadUpdate, Steps
  <2>2. Good(m)
    BY <2>1 DEF ScheduleInv, Open
  <2>3. CASE m # n
    BY <1>0, <1>2, <2>1, <2>2, <2>3, BeginElsewhere DEF LoadUpdate
  <2>4. CASE m = n
    <3>1. /\ RunsAsStored(m) /\ Working(m)' = {a}
          /\ request'[a].at = "update loaded" /\ request'[a].on = m /\ request'[a].new = d
      BY <1>0, <2>1, <2>2, <2>4, BeginHere
    <3>2. Between(request[a])'
      BY <1>2, <3>1 DEF Between, LoadUpdate, RunsAsStored
    <3>. QED
      BY <3>1, <3>2 DEF Good
  <2>. QED
    BY <2>3, <2>4
<1>3. ASSUME NEW a \in Requests, NEW n \in Monitors, NEW on \in BOOLEAN, LoadToggle(a, n, on) PROVE Good(m)'
  <2> DEFINE d == [doc[n] EXCEPT !.enabled = on]
  <2>1. doc[n] \in Docs /\ d \in Docs /\ d.plan = doc[n].plan
    BY <1>0, <1>3 DEF LoadToggle, Exists, ScheduleTypeOK, Docs
  <2>2. Open(a, n, "toggle loaded", d) /\ "toggle loaded" \in Steps /\ d \in Docs \cup {None}
    BY <1>3, <2>1 DEF LoadToggle, Steps
  <2>. HIDE DEF d
  <2>3. Good(m)
    BY <2>2 DEF ScheduleInv, Open
  <2>4. CASE m # n
    BY <1>0, <1>3, <2>2, <2>3, <2>4, BeginElsewhere DEF LoadToggle
  <2>5. CASE m = n
    <3>1. /\ Working(m)' = {a}
          /\ request'[a].at = "toggle loaded" /\ request'[a].on = m /\ request'[a].new = d
      BY <1>0, <2>2, <2>3, <2>5, BeginHere
    <3>2. doc'[m] = doc[m] /\ Exists(m)
      BY <1>3, <2>5 DEF LoadToggle
    <3>3. Between(request[a])'
      BY <2>1, <2>5, <3>1, <3>2 DEF Between, Exists
    <3>. QED
      BY <3>1, <3>3 DEF Good
  <2>. QED
    BY <2>4, <2>5
<1>4. ASSUME NEW a \in Requests, NEW n \in Monitors, LoadDelete(a, n) PROVE Good(m)'
  <2>1. Open(a, n, "delete loaded", None) /\ "delete loaded" \in Steps /\ None \in Docs \cup {None}
    BY <1>4 DEF LoadDelete, Steps
  <2>2. Good(m)
    BY <2>1 DEF ScheduleInv, Open
  <2>3. CASE m # n
    BY <1>0, <1>4, <2>1, <2>2, <2>3, BeginElsewhere DEF LoadDelete
  <2>4. CASE m = n
    <3>1. /\ Working(m)' = {a}
          /\ request'[a].at = "delete loaded" /\ request'[a].on = m /\ request'[a].new = None
      BY <1>0, <2>1, <2>2, <2>4, BeginHere
    <3>. QED
      BY <3>1 DEF Good, Between
  <2>. QED
    BY <2>3, <2>4
<1>5. ASSUME NEW a \in Requests, Register(a) PROVE Good(m)'
  <2>1. Good(m) /\ Finish(a) /\ doc' = doc /\ Stands(a, "create registering")
    BY <1>5 DEF ScheduleInv, Register, Finish
  <2>2. Of(a) \in Monitors /\ request[a].new \in Docs
    BY <1>0, <2>1, Underway DEF Formed, Steps, Stands
  <2>3. CASE Of(a) # m
    BY <1>0, <1>5, <2>1, <2>2, <2>3, FinishElsewhere DEF Register, Schedule, ScheduleTypeOK
  <2>4. CASE Of(a) = m
    <3>1. Between(request[a]) /\ Working(m)' = {}
      BY <1>0, <2>1, <2>4, FinishHere
    <3>2. doc[m] = request[a].new /\ job[m] = "none"
      BY <2>1, <2>4, <3>1 DEF Between, Stands, Of
    <3>3. job'[m] = Scheduled(doc[m])
      BY <1>0, <1>5, <2>4, <3>2 DEF Register, Schedule, Scheduled, ScheduleTypeOK
    <3>. QED
      BY <2>1, <3>1, <3>3 DEF Good, AtRest, RunsAsStored
  <2>. QED
    BY <2>3, <2>4
<1>6. ASSUME NEW a \in Requests, UpdateDoc(a) PROVE Good(m)'
  <2>1. Good(m) /\ job' = job /\ Stands(a, "update loaded")
    BY <1>6 DEF ScheduleInv, UpdateDoc, Finish, GoOn
  <2>2. Of(a) \in Monitors /\ request[a].new \in Docs
    BY <1>0, <2>1, Underway DEF Formed, Steps, Stands
  <2>3. CASE Of(a) # m /\ Exists(Of(a))
    BY <1>0, <1>6, <2>1, <2>2, <2>3, GoOnElsewhere DEF UpdateDoc, ScheduleTypeOK, Steps
  <2>4. CASE Of(a) # m /\ ~ Exists(Of(a))
    BY <1>0, <1>6, <2>1, <2>4, FinishElsewhere DEF UpdateDoc
  <2>5. CASE Of(a) = m /\ Exists(Of(a))
    <3>1. GoOn(a, "update written")
      BY <1>6, <2>5 DEF UpdateDoc
    <3>2. Working(m)' = {a} /\ request'[a].at = "update written"
      BY <1>0, <2>1, <2>2, <2>5, <3>1, GoOnHere DEF Steps
    <3>. QED
      BY <3>2 DEF Good, Between
  <2>6. CASE Of(a) = m /\ ~ Exists(Of(a))
    <3>1. Finish(a) /\ doc' = doc
      BY <1>6, <2>6 DEF UpdateDoc
    <3>2. Between(request[a]) /\ Working(m)' = {}
      BY <1>0, <2>1, <2>6, <3>1, FinishHere
    <3>3. RunsAsStored(m)
      BY <2>1, <2>6, <3>2 DEF Between, Stands, Of
    <3>. QED
      BY <2>1, <3>1, <3>2, <3>3 DEF Good, AtRest, RunsAsStored
  <2>. QED
    BY <2>3, <2>4, <2>5, <2>6
<1>7. ASSUME NEW a \in Requests, ReadAgain(a) PROVE Good(m)'
  <2> DEFINE q == [request[a] EXCEPT !.at = "update read", !.read = doc[Of(a)]]
  <2>1. Good(m) /\ job' = job /\ doc' = doc /\ Stands(a, "update written") /\ request' = [request EXCEPT ![a] = q]
    BY <1>7 DEF ScheduleInv, ReadAgain
  <2>2. Of(a) \in Monitors /\ request[a] \in Request
    BY <1>0, <2>1, Underway DEF Steps
  <2>3. q \in Request /\ q.on = Of(a) /\ q.at = "update read" /\ q.read = doc[Of(a)]
    BY <1>0, <2>2 DEF Request, Of, ScheduleTypeOK, Steps
  <2>. HIDE DEF q
  <2>4. CASE Of(a) # m
    BY <1>0, <2>1, <2>3, <2>4, Elsewhere
  <2>5. CASE Of(a) = m
    <3>1. Working(m)' = {a} /\ request'[a] = q
      BY <1>0, <2>1, <2>3, <2>5, Here
    <3>2. request'[a].at = "update read" /\ request'[a].on = m /\ request'[a].read = doc'[m]
      BY <2>1, <2>3, <2>5, <3>1
    <3>. QED
      BY <3>1, <3>2 DEF Good, Between
  <2>. QED
    BY <2>4, <2>5
<1>8. ASSUME NEW a \in Requests, UpdateJob(a) PROVE Good(m)'
  <2>1. Good(m) /\ Finish(a) /\ doc' = doc /\ Stands(a, "update read")
    BY <1>8 DEF ScheduleInv, UpdateJob, Finish
  <2>2. CASE Of(a) # m
    BY <1>0, <1>8, <2>1, <2>2, FinishElsewhere DEF UpdateJob, Schedule, ScheduleTypeOK
  <2>3. CASE Of(a) = m
    <3>1. Between(request[a]) /\ Working(m)' = {}
      BY <1>0, <2>1, <2>3, FinishHere
    <3>2. doc[m] = request[a].read
      BY <2>1, <2>3, <3>1 DEF Between, Stands, Of
    <3>3. job'[m] = Scheduled(doc[m])
      BY <1>0, <1>8, <2>3, <3>2 DEF UpdateJob, Schedule, ScheduleTypeOK
    <3>. QED
      BY <2>1, <3>1, <3>3 DEF Good, AtRest, RunsAsStored
  <2>. QED
    BY <2>2, <2>3
<1>9. ASSUME NEW a \in Requests, ToggleDoc(a) PROVE Good(m)'
  <2>1. Good(m) /\ job' = job /\ Stands(a, "toggle loaded") /\ GoOn(a, "toggle written")
    BY <1>9 DEF ScheduleInv, ToggleDoc, GoOn
  <2>2. Of(a) \in Monitors /\ request[a].new \in Docs
    BY <1>0, <2>1, Underway DEF Formed, Steps, Stands
  <2>3. CASE Of(a) # m
    BY <1>0, <1>9, <2>1, <2>2, <2>3, GoOnElsewhere DEF ToggleDoc, ScheduleTypeOK, Steps
  <2>4. CASE Of(a) = m
    <3>1. /\ Between(request[a]) /\ Working(m)' = {a}
          /\ request'[a].at = "toggle written" /\ request'[a].on = m /\ request'[a].new = request[a].new
      BY <1>0, <2>1, <2>2, <2>4, GoOnHere DEF Steps
    <3>2. Exists(m) /\ doc[m].plan = request[a].new.plan
      BY <2>1, <2>4, <3>1 DEF Between, Stands, Of
    <3>3. doc'[m] = [doc[m] EXCEPT !.enabled = request[a].new.enabled] /\ doc[m] \in Docs
      BY <1>0, <1>9, <2>4, <3>2 DEF ToggleDoc, ScheduleTypeOK, Exists
    <3>4. doc'[m] = request[a].new
      BY <2>2, <3>2, <3>3 DEF Docs
    <3>. QED
      BY <3>1, <3>4 DEF Good, Between
  <2>. QED
    BY <2>3, <2>4
<1>10. ASSUME NEW a \in Requests, ToggleJob(a) PROVE Good(m)'
  <2>1. Good(m) /\ Finish(a) /\ doc' = doc /\ Stands(a, "toggle written")
    BY <1>10 DEF ScheduleInv, ToggleJob, Finish
  <2>2. CASE Of(a) # m
    BY <1>0, <1>10, <2>1, <2>2, FinishElsewhere DEF ToggleJob, Schedule, ScheduleTypeOK
  <2>3. CASE Of(a) = m
    <3>1. Between(request[a]) /\ Working(m)' = {}
      BY <1>0, <2>1, <2>3, FinishHere
    <3>2. doc[m] = request[a].new
      BY <2>1, <2>3, <3>1 DEF Between, Stands, Of
    <3>3. job'[m] = Scheduled(doc[m])
      BY <1>0, <1>10, <2>3, <3>2 DEF ToggleJob, Schedule, ScheduleTypeOK
    <3>. QED
      BY <2>1, <3>1, <3>3 DEF Good, AtRest, RunsAsStored
  <2>. QED
    BY <2>2, <2>3
<1>11. ASSUME NEW a \in Requests, DeleteJob(a) PROVE Good(m)'
  <2>1. Good(m) /\ doc' = doc /\ Stands(a, "delete loaded") /\ GoOn(a, "delete unscheduled")
    BY <1>11 DEF ScheduleInv, DeleteJob, GoOn
  <2>2. CASE Of(a) # m
    BY <1>0, <1>11, <2>1, <2>2, GoOnElsewhere DEF DeleteJob, Schedule, ScheduleTypeOK, Steps
  <2>3. CASE Of(a) = m
    <3>1. Working(m)' = {a} /\ request'[a].at = "delete unscheduled" /\ request'[a].on = m
      BY <1>0, <2>1, <2>3, GoOnHere DEF Steps
    <3>2. job'[m] = "none"
      BY <1>0, <1>11, <2>3 DEF DeleteJob, Schedule, Scheduled, None, ScheduleTypeOK
    <3>. QED
      BY <3>1, <3>2 DEF Good, Between
  <2>. QED
    BY <2>2, <2>3
<1>12. ASSUME NEW a \in Requests, DeleteDoc(a) PROVE Good(m)'
  <2>1. Good(m) /\ Finish(a) /\ job' = job /\ Stands(a, "delete unscheduled")
    BY <1>12 DEF ScheduleInv, DeleteDoc, Finish
  <2>2. CASE Of(a) # m
    BY <1>0, <1>12, <2>1, <2>2, FinishElsewhere DEF DeleteDoc, ScheduleTypeOK
  <2>3. CASE Of(a) = m
    <3>1. Between(request[a]) /\ Working(m)' = {}
      BY <1>0, <2>1, <2>3, FinishHere
    <3>2. job[m] = "none"
      BY <2>1, <2>3, <3>1 DEF Between, Stands, Of
    <3>3. doc'[m] = None
      BY <1>0, <1>12, <2>3 DEF DeleteDoc, ScheduleTypeOK
    <3>. QED
      BY <2>1, <3>1, <3>2, <3>3, NoneRunsNot DEF Good, AtRest, RunsAsStored
  <2>. QED
    BY <2>2, <2>3
<1>13. CASE Restart
  <2>1. Cardinality(Enabled) <= LoadLimit
    <3>1. IsFiniteSet(Enabled) /\ Cardinality(Enabled) <= Cardinality(Monitors)
      BY FS_Subset DEF Enabled
    <3>. QED
      BY <3>1, FS_CardinalityType, ScheduleAssumption
  <2>2. job'[m] = IF m \in Enabled THEN doc[m].plan ELSE "none"
    BY <1>13, <2>1 DEF Restart, Loaded, Fill
  <2>3. RunsAsStored(m)'
    BY <1>13, <2>2 DEF Restart, RunsAsStored, Scheduled, Enabled
  <2>4. Working(m)' = {}
    BY <1>13, NoRequestIsIdle DEF Restart, Working, Of
  <2>. QED
    BY <2>3, <2>4 DEF Good, AtRest
<1>14. CASE UNCHANGED scheduleVars
  <2>1. Good(m) /\ Working(m)' = Working(m) /\ RunsAsStored(m)' = RunsAsStored(m)
    BY <1>14 DEF scheduleVars, ScheduleInv, Working, Of, RunsAsStored
  <2>2. ASSUME NEW a \in Requests, Between(request[a]) PROVE Between(request[a])'
    BY <1>14, <2>2 DEF scheduleVars, Between, RunsAsStored, Exists
  <2>. QED
    BY <2>1, <2>2 DEF Good, AtRest
<1>. QED
  BY <1>1, <1>2, <1>3, <1>4, <1>5, <1>6, <1>7, <1>8, <1>9, <1>10, <1>11, <1>12, <1>13, <1>14 DEF ScheduleNext

(* A monitor whose requests came one at a time runs as its document says,  *)
(* provided that start() may load as many documents as there are monitors. *)
THEOREM KeptInStep ==
  ASSUME IsFiniteSet(Monitors), Cardinality(Monitors) <= LoadLimit
  PROVE  ScheduleSpec => []InStep
<1>1. ScheduleInit => ScheduleInv
  <2>1. ScheduleInit => ScheduleTypeOK
    BY NoRequestIsIdle DEF ScheduleInit, ScheduleTypeOK
  <2>2. ASSUME ScheduleInit, NEW m \in Monitors PROVE Good(m)
    BY <2>2, NoRequestIsIdle DEF ScheduleInit, Good, AtRest, Working, Of, RunsAsStored, Scheduled, None
  <2>. QED
    BY <2>1, <2>2 DEF ScheduleInv
<1>2. ScheduleInv /\ [ScheduleNext]_scheduleVars => ScheduleInv'
  <2> SUFFICES ASSUME ScheduleInv, [ScheduleNext]_scheduleVars PROVE ScheduleInv'
    OBVIOUS
  <2>1. ScheduleTypeOK'
    BY ScheduleTyped DEF ScheduleInv
  <2>2. \A m \in Monitors \ crossed' : Good(m)'
    BY Kept
  <2>. QED
    BY <2>1, <2>2 DEF ScheduleInv
<1>3. ScheduleInv => InStep
  BY DEF ScheduleInv, InStep, Good, AtRest
<1>. QED
  BY <1>1, <1>2, <1>3, PTL DEF ScheduleSpec
==============================================================================
