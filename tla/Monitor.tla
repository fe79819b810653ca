-------------------------------- MODULE Monitor --------------------------------
(***************************************************************************)
(* One monitor of monitor/monitor.py: what a check does with its result.   *)
(* It compares the response with the last one that passed, keeps the count *)
(* of consecutive failures and the previous verdict in Redis, and alerts   *)
(* or announces the recovery, once per fingerprint in thirty minutes.      *)
(*                                                                         *)
(* Checks are numbered in the order they start (started_at).  The          *)
(* scheduler runs one at a time, "run now" starts others beside it.        *)
(* Bodies are responses that differ by diff_threshold changes or more; for *)
(* a failed check the comparison changes nothing, and is left out.  A      *)
(* silenced monitor starts no check.                                       *)
(***************************************************************************)
EXTENDS Naturals, FiniteSets
CONSTANTS
  Bodies,
  Threshold,     \* max_consecutive_failures
  OnRecovery,    \* alert_on_recovery
  MaxChecks,     \* bound: checks made
  Overlap,       \* bound: checks under way at once
  RunNow,        \* bound: the checks whose "run now" is followed to its report; 0: a skipped one
  MaxTroubles    \* bound: calls to Redis or MongoDB that raise, and crashes
ASSUME MonitorAssumption ==
  /\ "error" \notin Bodies /\ "none" \notin Bodies
  /\ Threshold \in Nat \ {0} /\ OnRecovery \in BOOLEAN
  /\ MaxChecks \in Nat /\ Overlap \in Nat /\ MaxTroubles \in Nat
  /\ RunNow \subseteq 0..MaxChecks

Checks == 1..MaxChecks

VARIABLES
  result,      \* the stored execution of a check: none, error or the body of one that passed
  check,       \* where a check is, and its local variables
  failCount, prevPassed,   \* Redis: monitor:fail_count, monitor:prev_status
  window,      \* Redis: monitor:last_alert_fp, by fingerprint: who wrote it
  alerts,      \* alert_records: <<check, is_recovery>>
  assess,      \* queue:alert_analyze
  pushed,      \* history: notices sent, <<check, is_recovery>>
  recent,      \* history: alerts sent in the last thirty minutes, by fingerprint
  counted,     \* history: checks that wrote the count
  overlapped,  \* history: two checks were under way at once
  shown,       \* _RUN_JOBS: what one "run now" reports
  faults, crashes
redis == <<failCount, prevPassed, window>>
outcome == <<alerts, assess, pushed, recent>>
bounds == <<faults, crashes>>
vars == <<result, check, redis, outcome, counted, overlapped, shown, bounds>>

Unreported == [check |-> 0, execution |-> 0, answered |-> FALSE]
Unstarted == [at |-> "new", diff |-> FALSE, prev |-> TRUE, count |-> 0]
Fingerprints == {"error", ""}       \* the error text; "" when the check passed
Passed(r) == result[r] \in Bodies
Fingerprint(r) == IF Passed(r) THEN "" ELSE "error"

Init ==
  /\ result = [r \in Checks |-> "none"]
  /\ check = [r \in Checks |-> Unstarted]
  /\ failCount = 0 /\ prevPassed = TRUE
  /\ window = [f \in Fingerprints |-> "free"]
  /\ alerts = {} /\ assess = {} /\ pushed = {}
  /\ recent = [f \in Fingerprints |-> 0]
  /\ counted = {} /\ overlapped = FALSE /\ shown = Unreported
  /\ faults = 0 /\ crashes = 0
------------------------------------------------------------------------------
At(r, at) == check[r].at = at
Go(r, at) == check' = [check EXCEPT ![r].at = at]
UnderWay == {r \in Checks : check[r].at \notin {"new", "done"}}

(* A call that may raise: every one of them is caught where it is made. *)
Raises(bad) ==
  /\ bad => faults + crashes < MaxTroubles
  /\ faults' = IF bad THEN faults + 1 ELSE faults
  /\ UNCHANGED crashes

Begin(r) ==
  /\ At(r, "new") /\ \A s \in 1..(r - 1) : ~ At(s, "new")
  /\ Cardinality(UnderWay) < Overlap
  /\ Go(r, "call")
  /\ overlapped' = (overlapped \/ UnderWay # {})
  /\ UNCHANGED <<result, redis, outcome, counted, bounds, shown>>

(* The engine calls the target and stores the execution. *)
Call(r) ==
  /\ At(r, "call")
  /\ \E x \in Bodies \cup {"error"} : result' = [result EXCEPT ![r] = x]
  /\ Go(r, "compare")
  /\ UNCHANGED <<redis, outcome, counted, bounds, overlapped, shown>>

(* _detect_diff: the baseline is the latest other check that passed. *)
Baselines(r) == {s \in Checks \ {r} : Passed(s)}
DiffersFromFirst(r) ==              \* slip: the oldest instead of the latest
  \E b \in Baselines(r) : (\A s \in Baselines(r) : b <= s) /\ Passed(r) /\ result[b] # result[r]
Differs(r) ==
  \E b \in Baselines(r) : (\A s \in Baselines(r) : s <= b) /\ Passed(r) /\ result[b] # result[r]
Compare(r) ==
  /\ At(r, "compare")
  /\ check' = [check EXCEPT ![r].at = "prev", ![r].diff = Differs(r)]
  /\ UNCHANGED <<result, redis, outcome, counted, bounds, overlapped, shown>>

(* _evaluate_result.  Redis that fails reads as "passed" and as 0. *)
ReadPrev(r) ==
  /\ At(r, "prev")
  /\ \E bad \in BOOLEAN :
       /\ Raises(bad)
       /\ check' = [check EXCEPT ![r].at = "count", ![r].prev = bad \/ prevPassed]
  /\ UNCHANGED <<result, redis, outcome, counted, overlapped, shown>>

NewCount(r, n) == IF Passed(r) /\ ~ check[r].diff THEN 0 ELSE n + 1
ReadCount(r) ==
  /\ At(r, "count")
  /\ \E bad \in BOOLEAN :
       /\ Raises(bad)
       /\ check' = [check EXCEPT ![r].at = "write",
                                 ![r].count = NewCount(r, IF bad THEN 0 ELSE failCount)]
  /\ UNCHANGED <<result, redis, outcome, counted, overlapped, shown>>

WriteCount(r) ==
  /\ At(r, "write")
  /\ \E bad \in BOOLEAN :
       /\ Raises(bad)
       /\ failCount' = IF bad THEN failCount ELSE check[r].count
  /\ counted' = counted \cup {r}
  /\ Go(r, "status")
  /\ UNCHANGED <<result, prevPassed, window, outcome, overlapped, shown>>

ShouldAlert(r) == (~ Passed(r) \/ check[r].diff) /\ check[r].count >= Threshold
IsRecovery(r) == Passed(r) /\ ~ check[r].prev /\ ~ check[r].diff
Recovers(r) == ~ ShouldAlert(r) /\ IsRecovery(r) /\ OnRecovery
WriteStatus(r) ==
  /\ At(r, "status")
  /\ \E bad \in BOOLEAN :
       /\ Raises(bad)
       /\ prevPassed' = IF bad THEN prevPassed ELSE Passed(r)
  /\ Go(r, IF ShouldAlert(r) \/ Recovers(r) THEN "save" ELSE "done")
  /\ UNCHANGED <<result, failCount, window, outcome, counted, overlapped, shown>>
------------------------------------------------------------------------------
(* _fire_alert: the record first, then the channels, then the fingerprint. *)
Notice(r) == <<r, Recovers(r)>>

SaveAlertsOnly(r) ==                \* slip: recoveries are not recorded
  /\ At(r, "save")
  /\ alerts' = IF Recovers(r) THEN alerts ELSE alerts \cup {Notice(r)}
  /\ Go(r, IF Recovers(r) THEN "push" ELSE "dedup")
  /\ UNCHANGED <<result, redis, assess, pushed, recent, counted, bounds, overlapped, shown>>
Save(r) ==
  /\ At(r, "save")
  /\ \E bad \in BOOLEAN :
       /\ Raises(bad)
       /\ alerts' = IF bad THEN alerts ELSE alerts \cup {Notice(r)}
  /\ Go(r, IF Recovers(r) THEN "push" ELSE "dedup")
  /\ UNCHANGED <<result, redis, assess, pushed, recent, counted, overlapped, shown>>

Dedup(r) ==
  /\ At(r, "dedup")
  /\ \E bad \in BOOLEAN :
       /\ Raises(bad)
       /\ Go(r, IF bad \/ window[Fingerprint(r)] = "free" THEN "push" ELSE "done")
  /\ UNCHANGED <<result, redis, outcome, counted, overlapped, shown>>

(* A channel that fails is not tried again, and stops no other. *)
Push(r) ==
  /\ At(r, "push")
  /\ pushed' = pushed \cup {Notice(r)}
  /\ recent' = IF Recovers(r) THEN recent ELSE [recent EXCEPT ![Fingerprint(r)] = @ + 1]
  /\ Go(r, "mark")
  /\ UNCHANGED <<result, redis, alerts, assess, counted, bounds, overlapped, shown>>

MarkRecoveryOnly(r) ==              \* slip: alerts are not marked
  /\ At(r, "mark")
  /\ UNCHANGED bounds
  /\ window' = IF Recovers(r) THEN [window EXCEPT ![Fingerprint(r)] = "recovery"] ELSE window
  /\ Go(r, IF Recovers(r) THEN "done" ELSE "enqueue")
  /\ UNCHANGED <<result, failCount, prevPassed, outcome, counted, overlapped, shown>>
Mark(r) ==
  /\ At(r, "mark")
  /\ \E bad \in BOOLEAN :
       /\ Raises(bad)
       /\ window' = IF bad THEN window
                    ELSE [window EXCEPT ![Fingerprint(r)] = IF Recovers(r) THEN "recovery" ELSE "alert"]
  /\ Go(r, IF Recovers(r) THEN "done" ELSE "enqueue")
  /\ UNCHANGED <<result, failCount, prevPassed, outcome, counted, overlapped, shown>>

Enqueue(r) ==
  /\ At(r, "enqueue")
  /\ \E bad \in BOOLEAN :
       /\ Raises(bad)
       /\ assess' = IF bad THEN assess ELSE assess \cup {r}
  /\ Go(r, "done")
  /\ UNCHANGED <<result, redis, alerts, pushed, recent, counted, overlapped, shown>>
------------------------------------------------------------------------------
(* Thirty minutes are over for a fingerprint; no check takes that long. *)
Expire(f) ==
  /\ UnderWay = {}
  /\ window[f] # "free" \/ recent[f] > 0
  /\ window' = [window EXCEPT ![f] = "free"]
  /\ recent' = [recent EXCEPT ![f] = 0]
  /\ UNCHANGED <<result, check, failCount, prevPassed, alerts, assess, pushed, counted, bounds, overlapped, shown>>

Crash ==
  /\ faults + crashes < MaxTroubles /\ crashes' = crashes + 1
  /\ check' = [r \in Checks |-> IF r \in UnderWay THEN [check[r] EXCEPT !.at = "done"] ELSE check[r]]
  /\ UNCHANGED <<result, redis, outcome, counted, faults, overlapped, shown>>

(* run_monitor_now: once its check is over, or was skipped as the monitor  *)
(* is silenced (check 0), it shows the latest execution of the target as   *)
(* its own; an error shows none (execution 0).  A crash empties _RUN_JOBS. *)
Executions == {s \in Checks : result[s] # "none"}
Latest == {s \in Executions : \A t \in Executions : t <= s}
Report(r) ==
  /\ ~ shown.answered /\ crashes = 0
  /\ r # 0 => At(r, "done")
  /\ \E bad \in BOOLEAN :
       /\ Raises(bad)
       /\ \E s \in IF bad \/ Executions = {} THEN {0} ELSE Latest :
            shown' = [check |-> r, execution |-> s, answered |-> TRUE]
  /\ UNCHANGED <<result, check, redis, outcome, counted, overlapped>>

RunMonitor(r) ==
  \/ Begin(r) \/ Call(r) \/ Compare(r) \/ ReadPrev(r) \/ ReadCount(r) \/ WriteCount(r) \/ WriteStatus(r)
  \/ Save(r) \/ Dedup(r) \/ Push(r) \/ Mark(r) \/ Enqueue(r)
Next ==
  \/ \E r \in Checks : RunMonitor(r)
  \/ \E r \in RunNow : Report(r)
  \/ \E f \in Fingerprints : Expire(f)
  \/ Crash
Spec == Init /\ [][Next]_vars
------------------------------------------------------------------------------
TypeOK ==
  /\ result \in [Checks -> Bodies \cup {"none", "error"}]
  /\ check \in [Checks -> [at : {"new", "call", "compare", "prev", "count", "write", "status", "save",
                                 "dedup", "push", "mark", "enqueue", "done"},
                           diff : BOOLEAN, prev : BOOLEAN, count : 0..MaxChecks]]
  /\ failCount \in 0..MaxChecks /\ prevPassed \in BOOLEAN
  /\ window \in [Fingerprints -> {"free", "alert", "recovery"}]
  /\ alerts \subseteq Checks \X BOOLEAN /\ pushed \subseteq Checks \X BOOLEAN /\ assess \subseteq Checks
  /\ recent \in [Fingerprints -> 0..MaxChecks]
  /\ shown \in [check : Checks \cup {0}, execution : Checks \cup {0}, answered : BOOLEAN]
  /\ counted \subseteq Checks /\ overlapped \in BOOLEAN /\ {faults, crashes} \subseteq 0..MaxTroubles

(* What the counters should amount to, from the stored executions alone:   *)
(* a check is bad if it failed or its body is not that of the last check   *)
(* before it that passed; a streak is a run of bad ones without a gap.     *)
PassedBefore(r) == {s \in 1..(r - 1) : Passed(s)}
Bad(r) ==
  \/ result[r] = "error"
  \/ \E b \in PassedBefore(r) : (\A s \in PassedBefore(r) : s <= b) /\ Passed(r) /\ result[b] # result[r]
Streak(r) ==
  Cardinality({s \in counted : s <= r /\ \A t \in {u \in counted : s <= u /\ u <= r} : Bad(t)})
Finished(r) == At(r, "done") /\ r \in counted

(* No two checks at once so far, and every call to Redis and MongoDB       *)
(* answered; Calm: nor did the process die.                                *)
OneByOne == ~ overlapped /\ faults = 0
Calm == OneByOne /\ crashes = 0

(* The count in Redis is the length of the streak of bad checks, and a     *)
(* restart loses no more of it than the check it interrupts: header line   *)
(* 4 of monitor.py.                                                        *)
CountIsStreak ==
  OneByOne /\ UnderWay = {} =>
    failCount = (IF counted = {} THEN 0
                 ELSE Streak(CHOOSE r \in counted : \A s \in counted : s <= r))

(* A check leads to an alert record exactly when it is bad and the streak  *)
(* it ends has reached max_consecutive_failures.                           *)
AlertOnStreak ==
  Calm => \A r \in Checks : Finished(r) =>
    (<<r, FALSE>> \in alerts <=> Bad(r) /\ Streak(r) >= Threshold)

(* However checks overlap, Redis fails or the process dies: an alert has   *)
(* as many failed or differing checks behind it as the threshold asks for. *)
AlertsAreEarned ==
  \A r \in Checks : <<r, FALSE>> \in alerts =>
    Cardinality({s \in Checks : result[s] = "error" \/ check[s].diff}) >= Threshold

(* A recovery is announced exactly when the check passes unchanged and the *)
(* check before it failed.                                                 *)
RecoveryWhenBack ==
  Calm => \A r \in Checks : Finished(r) /\ r > 1 =>
    (<<r, TRUE>> \in pushed <=> OnRecovery /\ ~ Bad(r) /\ result[r - 1] = "error")

(* "The same fingerprint is sent once in thirty minutes" (monitor.py:719): *)
(* true of checks one by one, as the mark is set after the notice is sent. *)
OncePerWindow == Calm => \A f \in Fingerprints : recent[f] <= 1

(* "The alert record is written before the channels are pushed, so that no *)
(* failure of a channel loses it" (monitor.py:6): what was sent, or went   *)
(* to the analysis of alerts, is on record unless MongoDB refused it, also *)
(* when checks overlap or the process dies.                                *)
SentIsRecorded ==
  (faults = 0 => pushed \subseteq alerts) /\ \A r \in assess : <<r, FALSE>> \in pushed

(* What "run now" shows once its check was made is never older than that   *)
(* check, however others overlap with it; it may be newer.                 *)
ReportIsNotStale ==
  shown.check # 0 /\ shown.execution # 0 => shown.execution >= shown.check

(* "Changes of the response are detected and alerted" (README.md:21): a    *)
(* body that replaces the former one for good, for as many checks as the   *)
(* threshold asks for, leads to an alert.                                  *)
ChangeIsReported ==
  \A r \in 2..MaxChecks :
    LET after == {s \in Checks : r <= s /\ s < r + Threshold} IN
    /\ r + Threshold - 1 <= MaxChecks
    /\ Passed(r - 1) /\ \A s \in after : Finished(s) /\ Passed(s) /\ result[s] = result[r]
    /\ result[r - 1] # result[r]
    => \E s \in after : <<s, FALSE>> \in alerts
==============================================================================
