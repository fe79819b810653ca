---------------------------- MODULE MonitorSchedule ----------------------------
(***************************************************************************)
(* Monitors twice: as documents in MongoDB and as jobs of the scheduler in *)
(* the process.  A request of api/routers/monitors.py changes both, one    *)
(* after the other, with awaits in between; start() of monitor/monitor.py  *)
(* builds the jobs from the documents.  The plan of a monitor stands for   *)
(* its cron or its interval.                                               *)
(***************************************************************************)
EXTENDS Naturals, FiniteSets
CONSTANTS
  Monitors, Plans,
  Requests,      \* the requests under way at once
  LoadLimit      \* documents start() asks for: 500 in the code
ASSUME ScheduleAssumption == "none" \notin Plans \cup Monitors /\ LoadLimit \in Nat

VARIABLES
  doc,       \* the document of a monitor, or None
  job,       \* the plan its job runs by, or "none"
  request,   \* what each request does, with the document it read last
  gone,      \* history: monitors that were deleted (ids are not used again)
  crossed    \* history: monitors two requests worked on at once since the start
scheduleVars == <<doc, job, request, gone, crossed>>

Docs == [enabled : BOOLEAN, plan : Plans]
None == [enabled |-> FALSE, plan |-> "none"]
NoRequest == [at |-> "idle", on |-> "none", read |-> None, new |-> None]
Steps == {"create registering", "update loaded", "update written", "update read",
          "toggle loaded", "toggle written", "delete loaded", "delete unscheduled"}

ScheduleInit ==
  /\ doc = [m \in Monitors |-> None]
  /\ job = [m \in Monitors |-> "none"]
  /\ request = [a \in Requests |-> NoRequest]
  /\ gone = {} /\ crossed = {}

Exists(m) == doc[m] # None
Of(a) == request[a].on
Working(m) == {a \in Requests : Of(a) = m}
Stands(a, step) == request[a].at = step
Open(a, m, step, new) ==
  /\ request[a] = NoRequest
  /\ request' = [request EXCEPT ![a] = [at |-> step, on |-> m, read |-> doc[m], new |-> new]]
  /\ crossed' = IF Working(m) = {} THEN crossed ELSE crossed \cup {m}
GoOn(a, step) == request' = [request EXCEPT ![a].at = step] /\ UNCHANGED crossed
Finish(a) == request' = [request EXCEPT ![a] = NoRequest] /\ UNCHANGED crossed
Scheduled(d) == IF d.enabled THEN d.plan ELSE "none"
Schedule(m, d) == job' = [job EXCEPT ![m] = Scheduled(d)]    \* _add_job or remove_job
------------------------------------------------------------------------------
(* create_monitor: register_monitor stores the document, then adds the job. *)
Insert(a, m, d) ==
  /\ ~ Exists(m) /\ m \notin gone
  /\ Open(a, m, "create registering", d)
  /\ doc' = [doc EXCEPT ![m] = d]
  /\ UNCHANGED <<job, gone>>

Register(a) ==
  /\ Stands(a, "create registering")
  /\ IF request[a].new.enabled THEN Schedule(Of(a), request[a].new) ELSE UNCHANGED job
  /\ Finish(a) /\ UNCHANGED <<doc, gone>>

(* Every other request loads the document first, or answers 404. *)
LoadUpdate(a, m, d) ==
  Exists(m) /\ Open(a, m, "update loaded", d) /\ UNCHANGED <<doc, job, gone>>
LoadToggle(a, m, on) ==
  Exists(m) /\ Open(a, m, "toggle loaded", [doc[m] EXCEPT !.enabled = on]) /\ UNCHANGED <<doc, job, gone>>
LoadDelete(a, m) ==
  Exists(m) /\ Open(a, m, "delete loaded", None) /\ UNCHANGED <<doc, job, gone>>

(* update_monitor writes the loaded document with the changes over what is *)
(* stored, and reads the document again for the scheduler.                 *)
UpdateDoc(a) ==
  /\ Stands(a, "update loaded")
  /\ IF Exists(Of(a))
     THEN doc' = [doc EXCEPT ![Of(a)] = request[a].new] /\ GoOn(a, "update written")
     ELSE Finish(a) /\ UNCHANGED doc                          \* 404
  /\ UNCHANGED <<job, gone>>

ReadAgain(a) ==
  /\ Stands(a, "update written")
  /\ request' = [request EXCEPT ![a].at = "update read", ![a].read = doc[Of(a)]]
  /\ UNCHANGED <<doc, job, gone, crossed>>

UpdateJobOfEnabled(a) ==     \* slip: a disabled monitor keeps its job
  /\ Stands(a, "update read")
  /\ IF request[a].read.enabled THEN Schedule(Of(a), request[a].read) ELSE UNCHANGED job
  /\ Finish(a) /\ UNCHANGED <<doc, gone>>
UpdateJob(a) ==
  /\ Stands(a, "update read")
  /\ Schedule(Of(a), request[a].read)
  /\ Finish(a) /\ UNCHANGED <<doc, gone>>

(* toggle_monitor sets one field, whether the document is still there or   *)
(* not, and schedules by the document it loaded.                           *)
ToggleDoc(a) ==
  /\ Stands(a, "toggle loaded")
  /\ doc' = IF Exists(Of(a)) THEN [doc EXCEPT ![Of(a)].enabled = request[a].new.enabled] ELSE doc
  /\ GoOn(a, "toggle written") /\ UNCHANGED <<job, gone>>

ToggleJob(a) ==
  /\ Stands(a, "toggle written")
  /\ Schedule(Of(a), request[a].new)
  /\ Finish(a) /\ UNCHANGED <<doc, gone>>

(* delete_monitor: the job first, then the document. *)
DeleteJob(a) ==
  /\ Stands(a, "delete loaded")
  /\ Schedule(Of(a), None)
  /\ GoOn(a, "delete unscheduled") /\ UNCHANGED <<doc, gone>>

DeleteDoc(a) ==
  /\ Stands(a, "delete unscheduled")
  /\ doc' = [doc EXCEPT ![Of(a)] = None]
  /\ gone' = gone \cup {Of(a)}
  /\ Finish(a) /\ UNCHANGED job

(* The process stops in the middle of whatever it does, and starts again.  *)
Enabled == {m \in Monitors : doc[m].enabled}
Fill(S) == IF Cardinality(S) <= LoadLimit THEN {S} ELSE {T \in SUBSET S : Cardinality(T) = LoadLimit}
Loaded == Fill(Enabled)
Restart ==
  /\ \E S \in Loaded : job' = [m \in Monitors |-> IF m \in S THEN doc[m].plan ELSE "none"]
  /\ request' = [a \in Requests |-> NoRequest]
  /\ crossed' = {}
  /\ UNCHANGED <<doc, gone>>

ScheduleNext ==
  \/ \E a \in Requests, m \in Monitors :
       \/ \E d \in Docs : Insert(a, m, d) \/ LoadUpdate(a, m, d)
       \/ \E on \in BOOLEAN : LoadToggle(a, m, on)
       \/ LoadDelete(a, m)
  \/ \E a \in Requests :
       \/ Register(a)
       \/ UpdateDoc(a) \/ ReadAgain(a) \/ UpdateJob(a)
       \/ ToggleDoc(a) \/ ToggleJob(a)
       \/ DeleteJob(a) \/ DeleteDoc(a)
  \/ Restart
ScheduleSpec == ScheduleInit /\ [][ScheduleNext]_scheduleVars
------------------------------------------------------------------------------
Request == [at : Steps \cup {"idle"}, on : Monitors \cup {"none"},
            read : Docs \cup {None}, new : Docs \cup {None}]
Formed(q) ==
  /\ q.at \in Steps /\ q.on \in Monitors
  /\ q.at \notin {"delete loaded", "delete unscheduled"} => q.new \in Docs

(* Type correctness: a job has a plan, a document is whole, and a deleted  *)
(* monitor has none (ids are fresh in create_monitor).                     *)
ScheduleTypeOK ==
  /\ doc \in [Monitors -> Docs \cup {None}]
  /\ job \in [Monitors -> Plans \cup {"none"}]
  /\ request \in [Requests -> Request]
  /\ \A a \in Requests : request[a] = NoRequest \/ Formed(request[a])
  /\ gone \subseteq {m \in Monitors : ~ Exists(m)}
  /\ crossed \subseteq Monitors

AtRest(m) == Working(m) = {}
RunsAsStored(m) == job[m] = Scheduled(doc[m])

(* The requests of monitors.py write MongoDB and the scheduler in separate *)
(* steps, in either order, and may die between them: a monitor whose       *)
(* requests came one at a time runs as its document says, whatever is done *)
(* to others meanwhile and wherever the process was stopped, as long as    *)
(* start() loads every enabled one.                                        *)
InStep == \A m \in Monitors \ crossed : AtRest(m) => RunsAsStored(m)
==============================================================================
