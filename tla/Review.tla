-------------------------------- MODULE Review ---------------------------------
(***************************************************************************)
(* Generated versions and their review: api/routers/generations.py (accept *)
(* whole, in part, or edited; reject; in batches), AIAnalyzer.apply_version*)
(* and _auto_review_generations (ai_analyzer/analyzer.py), the trial runs  *)
(* of services/trial_runner.py and the decision of services/quality_gate.py*)
(* Applying is a sequence of awaits without a lock and never looks at the  *)
(* status of the version: two reviewers may apply one version at once.     *)
(* Rejecting a scenario weakens the edges of Dependencies, and a reason    *)
(* given for a rejection becomes an entry of Knowledge.                    *)
(***************************************************************************)
EXTENDS Dependencies, Knowledge
CONSTANTS
  Kinds,         \* the types of version that may be under review
  Versions,      \* versions of one type, for one target
  Parts,         \* fields of a document or template, rules, items of a list
  Suggests,      \* the parts that a version holds,
  Usables,       \* which of them apply_version may find it can use
  Grades,        \* what the gates may have found in the versions
  Settings,      \* the switches of trials and of the automatic review
  MinConfidence, \* auto_review_min_confidence, in percent
  Reviewers,     \* the requests among Tasks that review
  Subject,       \* the API the versions are about,
  Refusal        \* and the title of the entry its rejections make

ASSUME ReviewAssumption ==
  /\ Kinds \subseteq {"doc", "asserts", "scenario", "scenarios", "data_template",
                      "monitor", "chat_suggestion"}
  /\ Reviewers \subseteq Tasks \cap Pupils /\ MinConfidence \in Nat
  /\ Subject \in Sources /\ Refusal \in Titles
  /\ Suggests \in [Versions -> (SUBSET Parts) \ {{}}] /\ Usables \subseteq [Versions -> SUBSET Parts]
  /\ Settings # {} /\ Settings \subseteq [trial_run_enabled : BOOLEAN, auto_review_enabled : BOOLEAN,
                                            auto_review_trial_required : BOOLEAN]
  /\ Grades # {}
  /\ Grades \subseteq [Versions -> [risk : {"low", "medium", "high"}, gate0 : BOOLEAN,
                                    gate1 : BOOLEAN, rate : {0, 50, 100}]]

VARIABLES
  kind,      \* the type of the versions
  settings,  \* get_settings()
  gv,        \* status, reviewer, content (its revision, its usable parts), grade and trial
  content,   \* the parts of the target: "absent", "old" or <<version, revision>>
  copies,    \* documents of the target: 0 once the API or the template is deleted
  made,      \* the items inserted for a version: its scenarios or monitors
  applied,   \* the status of the API: AnalysisStatus.APPLIED
  pushed,    \* downstream jobs sent for a version
  session,   \* review requests
  landed,    \* history: the parts of versions that reached the target
  granted,   \* history: the parts of versions somebody accepted
  proven,    \* history: versions that passed a trial
  deleted,   \* history: the target was deleted while its versions were under review
  crossed    \* history: two requests merged into the target at once
vars == <<depVars, knowledgeVars, kind, settings, gv, content, copies, made, applied, pushed,
          session, landed, granted, proven, deleted, crossed>>
history == <<landed, granted, proven, deleted, crossed>>
target == <<content, copies, made, applied, pushed>>

(* Of lists of scenarios, fields and monitors apply_version takes what it  *)
(* can use; a single scenario is one object, and documents and rules are   *)
(* written as they are.                                                    *)
Sifted == {"scenarios", "data_template", "monitor"}
Lists == {"scenario", "scenarios", "monitor"}      \* one insert per item
Away == [pc |-> "free", v |-> "none", by |-> "human", chosen |-> {}, rev |-> 0,
         seen |-> [copies |-> 1, content |-> <<>>], left |-> {}]

(* Bound: the knowledge is at work beside the versions of a document only. *)
NoLesson == [stock |-> <<>>, asks |-> [p \in Pupils |-> [op |-> "none", on |-> 0]]]
Init ==
  /\ DependencyInit
  /\ kind \in Kinds
  /\ kind # "scenario" => edges = [p \in Pairs |-> <<>>]
  /\ \E l \in IF kind = "doc" THEN Lessons \cup {NoLesson} ELSE {NoLesson} : KnowledgeInit(l)
  /\ settings \in IF kind = "scenario" THEN Settings ELSE {CHOOSE x \in Settings : TRUE}
  /\ \E grade \in IF kind = "scenario" THEN Grades ELSE {CHOOSE g \in Grades : TRUE},
        use \in IF kind \in Sifted THEN Usables ELSE {Suggests} :
       gv = [v \in Versions |-> [status |-> "pending_review", by |-> "none", rev |-> 0,
                              usable |-> use[v], grade |-> grade[v], trial |-> "none"]]
  /\ copies \in IF kind = "data_template" THEN {0, 1} ELSE {1}
  /\ content = [p \in Parts |-> IF copies = 1 THEN "old" ELSE "absent"]
  /\ made = [v \in Versions |-> [p \in Parts |-> 0]]
  /\ applied = FALSE /\ pushed = {}
  /\ session = [s \in Reviewers |-> Away]
  /\ landed = {} /\ granted = {} /\ proven = {} /\ deleted = FALSE /\ crossed = FALSE

At(s, pc) == session[s].pc = pc
V(s) == session[s].v
(* What a request applies: everything of the version when no names were    *)
(* given, and an empty list of names counts as none given.                 *)
Whole(s) == session[s].chosen = {}
ChosenOnly(s) == Suggests[V(s)] \cap session[s].chosen
Chosen(s) == IF Whole(s) THEN Suggests[V(s)] ELSE ChosenOnly(s)
Goes(s, pc) == session' = [session EXCEPT ![s].pc = pc]
Untouched == UNCHANGED <<depVars, knowledgeVars, kind, settings>>
------------------------------------------------------------------------------
(* The requests.  Every one loads the version first; those that accept go  *)
(* on into apply_version, which loads it again.                            *)

Free(s) == At(s, "free") /\ task[s].pc = "free" /\ Idle(s)
(* Applying reads no edge and no entry, and no request for an edge or an   *)
(* entry reads a version: they need not run in one behaviour, only         *)
(* rejections run beside all.                                              *)
NoEdgeWork == (\A t \in Tasks : task[t].pc = "free") /\ \A p \in Pupils : Idle(p)
NoApplying == \A s \in Reviewers : At(s, "free") \/ task[s].kind = "decay"
Accepting(s, v, chosen, parts) ==
  /\ Free(s) /\ NoEdgeWork
  /\ session' = [session EXCEPT ![s].pc = "load", ![s].v = v, ![s].chosen = chosen]
  /\ granted' = granted \cup {<<v, p>> : p \in parts}
  /\ UNCHANGED <<target, landed, proven, deleted, crossed>> /\ Untouched
Accept(s, v) ==
  /\ Accepting(s, v, {}, Suggests[v])
  /\ UNCHANGED gv
AcceptPartial(s, v) ==
  /\ \E chosen \in SUBSET Parts :
       Accepting(s, v, chosen, IF chosen = {} THEN Suggests[v] ELSE chosen)
  /\ UNCHANGED gv
EditAndAccept(s, v) ==
  /\ Accepting(s, v, {}, Suggests[v])
  /\ gv' = [gv EXCEPT ![v].rev = 1]  \* bound: one edited content, as usable as before

Rejecting(s, v) ==
  /\ Free(s)
  /\ gv' = [gv EXCEPT ![v].status = "rejected", ![v].by = "human"]
  /\ session' = [session EXCEPT ![s].pc = "over", ![s].v = v]
  /\ UNCHANGED <<target, history, kind, settings>>
Reject(s, v) ==
  /\ Rejecting(s, v)
  /\ IF kind = "scenario" THEN Decay(s) ELSE UNCHANGED depVars
  /\ UNCHANGED knowledgeVars
BatchReject(s, v) == Rejecting(s, v) /\ UNCHANGED <<depVars, knowledgeVars>>
RejectSaying(s, v) ==
  /\ kind = "doc" /\ Rejecting(s, v)
  /\ Teach(s, Subject, Refusal)
  /\ UNCHANGED <<depVars, entries, born, learned>>

(* The scenario worker reviews what it generated; a person may ask for a   *)
(* trial of anything.                                                      *)
Begins(s, v, pc, by) ==
  /\ Free(s) /\ NoEdgeWork
  /\ session' = [session EXCEPT ![s].pc = pc, ![s].v = v, ![s].by = by]
  /\ UNCHANGED <<gv, target, history>> /\ Untouched
AutoReview(s, v) ==
  /\ kind = "scenario"
  /\ Begins(s, v, IF settings.trial_run_enabled /\ gv[v].grade.risk # "high" /\ gv[v].trial # "passed"
                  THEN "trial" ELSE "decide", "system")
AskTrial(s, v) == Begins(s, v, "trial", "human")

(* A trial loads the content, runs it and notes the result: content whose  *)
(* steps are not at its top cannot be tried.                               *)
AfterTrial(s) == IF session[s].by = "system" THEN "decide" ELSE "over"
Untried(s) ==
  /\ At(s, "trial") /\ kind # "scenario"
  /\ Goes(s, AfterTrial(s))
  /\ UNCHANGED <<gv, target, history>> /\ Untouched
RunTrial(s) ==
  /\ At(s, "trial") /\ kind = "scenario"
  /\ Goes(s, "note")
  /\ UNCHANGED <<gv, target, history>> /\ Untouched
MarkTrial(s) ==
  /\ At(s, "note")
  /\ Goes(s, AfterTrial(s))
  /\ \E result \in {"failed", "passed"} :
       /\ gv' = [gv EXCEPT ![V(s)].trial = result]
       /\ proven' = IF result = "passed" THEN proven \cup {V(s)} ELSE proven
  /\ UNCHANGED <<target, landed, granted, deleted, crossed>> /\ Untouched

(* score_gate_results when the version is generated, before any trial, and *)
(* decide_auto_review on the version as it is now.  The consistency vote   *)
(* is there in every version and stands in for the self-check (gate1); a   *)
(* rate of 0 is no rate to Python, and falls back to one of 1.             *)
VoteRate(g) == IF g.rate = 0 THEN 100 ELSE g.rate
Confidence(g) ==
  LET conf == 30 + (30 * VoteRate(g)) \div 100
  IN IF g.gate0 THEN conf ELSE IF conf > 40 THEN 40 ELSE conf
Trustworthy(v) ==
  /\ settings.auto_review_enabled
  /\ gv[v].grade.risk # "high" /\ Confidence(gv[v].grade) >= MinConfidence
DecidesUntried(v) == Trustworthy(v)            \* slip: the trial is not asked for
Decides(v) ==
  /\ Trustworthy(v)
  /\ settings.auto_review_trial_required /\ kind = "scenario" => gv[v].trial = "passed"
Decide(s) ==
  /\ At(s, "decide")
  /\ Goes(s, IF Decides(V(s)) THEN "load" ELSE "over")
  /\ granted' = IF Decides(V(s)) THEN granted \cup {<<V(s), p>> : p \in Suggests[V(s)]}
                ELSE granted
  /\ UNCHANGED <<gv, target, landed, proven, deleted, crossed>> /\ Untouched
------------------------------------------------------------------------------
(* apply_version *)

Merges(s) == kind = "data_template" \/ (kind = "doc" /\ ~Whole(s))
(* apply_version passes over what it cannot use: scenarios and monitors    *)
(* that are no objects, fields without a name, monitors of no target.      *)
Used(s) == Chosen(s) \cap gv[V(s)].usable
(* Scenarios and monitors are inserted one by one; a partial accept of     *)
(* scenarios inserts them all.  A version of scenarios of which nothing    *)
(* can be used is accepted all the same, one of monitors or fields is not. *)
ItemsAll(s) == Suggests[V(s)] \cap gv[V(s)].usable  \* slip: monitors like scenarios
ItemsOf(s) == IF kind = "monitor" THEN Used(s) ELSE Suggests[V(s)] \cap gv[V(s)].usable
NothingAtAll(s) == kind = "data_template" /\ Used(s) = {}   \* slip: monitors like scenarios
Nothing(s) == kind \in {"data_template", "monitor"} /\ Used(s) = {}
Load(s) ==
  /\ At(s, "load")
  /\ session' = [session EXCEPT ![s].rev = gv[V(s)].rev, ![s].left = ItemsOf(s),
       ![s].pc = IF Nothing(s) THEN "over"
                 ELSE IF kind \in Lists /\ ItemsOf(s) # {} THEN "insert"
                 ELSE IF kind \in Lists \cup {"chat_suggestion"} THEN "close"
                 ELSE IF Merges(s) THEN "read" ELSE "write"]
  /\ UNCHANGED <<gv, target, history>> /\ Untouched
Read(s) ==
  /\ At(s, "read")
  /\ session' = [session EXCEPT ![s].pc = "write", ![s].seen = [copies |-> copies, content |-> content]]
  /\ crossed' = (crossed \/ \E t \in Reviewers \ {s} : At(t, "write"))
  /\ UNCHANGED <<gv, target, landed, granted, proven, deleted>> /\ Untouched

(* What the target holds afterwards: documents and templates merge into    *)
(* what was read, a whole document and the rules replace what is there.    *)
Base(s) == IF Merges(s) /\ session[s].seen.copies > 0
           THEN session[s].seen.content ELSE [p \in Parts |-> "absent"]
NewContent(s) ==
  [p \in Parts |-> IF p \in Used(s) THEN <<V(s), session[s].rev>> ELSE Base(s)[p]]
(* A template not found is inserted again: beside one that another request *)
(* has inserted meanwhile, where no reader finds it.  An update of what is *)
(* deleted matches nothing, and nobody looks at the count.                 *)
Write(s) ==
  /\ At(s, "write")
  /\ Goes(s, "close")
  /\ LET again == kind = "data_template" /\ session[s].seen.copies = 0
         unseen == IF again THEN copies > 0 ELSE copies = 0
     IN /\ copies' = IF again THEN copies + 1 ELSE copies
        /\ content' = IF unseen THEN content ELSE NewContent(s)
        /\ landed' = IF unseen THEN landed
                     ELSE landed \cup {<<V(s), session[s].rev, p>> : p \in Used(s)}
  /\ crossed' = (crossed \/ \E t \in Reviewers \ {s} : At(t, "write") /\ Merges(t))
  /\ UNCHANGED <<gv, made, applied, pushed, granted, proven, deleted>> /\ Untouched

AfterItem(s, p) == IF session[s].left = {p} THEN "close" ELSE "insert"
InsertItem(s) ==
  /\ At(s, "insert")
  /\ \E p \in session[s].left :
       /\ made' = [made EXCEPT ![V(s)][p] = @ + 1]
       /\ landed' = landed \cup {<<V(s), session[s].rev, p>>}
       /\ session' = [session EXCEPT ![s].left = @ \ {p}, ![s].pc = AfterItem(s, p)]
  /\ UNCHANGED <<gv, content, copies, applied, pushed, granted, proven, deleted, crossed>> /\ Untouched

(* A scenario or monitor that cannot be built of the item, a write that    *)
(* raises or a crash ends the request where it stands: what it inserted    *)
(* stays, the status too.                                                  *)
PassOverItem(s) ==                           \* slip: what raises is passed over as well
  LET p == CHOOSE q \in session[s].left : TRUE
  IN session' = [session EXCEPT ![s].left = @ \ {p}, ![s].pc = AfterItem(s, p)]
StopAtItem(s) == Goes(s, "over")
BreakOff(s) ==
  /\ \/ session[s].pc \in {"load", "read", "write", "close", "tell", "trigger"} /\ Goes(s, "over")
     \/ At(s, "insert") /\ StopAtItem(s)
  /\ UNCHANGED <<gv, target, history>> /\ Untouched

Close(s) ==
  /\ At(s, "close")
  /\ gv' = [gv EXCEPT ![V(s)].status = IF Whole(s) THEN "accepted" ELSE "partially_accepted",
                      ![V(s)].by = session[s].by]
  /\ Goes(s, "tell")
  /\ UNCHANGED <<target, history>> /\ Untouched
TellApi(s) ==
  /\ At(s, "tell")
  /\ applied' = (applied \/ kind \notin {"doc", "asserts"} \/ copies > 0)
  /\ Goes(s, IF Whole(s) THEN "trigger" ELSE "over")
  /\ UNCHANGED <<gv, content, copies, made, pushed, history>> /\ Untouched

(* _trigger_downstream_ai runs over gv.target_ids, a field that versions   *)
(* do not have: the AttributeError is caught and nothing is sent.          *)
Chain(k) == CASE k = "scenario" -> {"data_template", "monitor"}
              [] k = "data_template" -> {"monitor"}
              [] OTHER -> {}
TargetIds(v) == {}
Trigger(s) ==
  /\ At(s, "trigger")
  /\ pushed' = pushed \cup {<<V(s), job>> : job \in {k \in Chain(kind) : TargetIds(V(s)) # {}}}
  /\ Goes(s, "done")
  /\ UNCHANGED <<gv, content, copies, made, applied, history>> /\ Untouched

(* The API of documents and rules, or the template, is deleted meanwhile.  *)
(* (Bound: once, and while there is one.)                                  *)
DeleteTarget ==
  /\ kind \in {"doc", "asserts", "data_template"} /\ copies = 1 /\ ~deleted /\ NoEdgeWork
  /\ copies' = 0 /\ content' = [p \in Parts |-> "absent"] /\ deleted' = TRUE
  /\ UNCHANGED <<gv, made, applied, pushed, session, landed, granted, proven, crossed>> /\ Untouched

DependencyWork(t) ==
  /\ \/ Continue(t)
     \/ Ask(t) /\ kind = "scenario" /\ NoApplying /\ (t \in Reviewers => At(t, "free"))
  /\ UNCHANGED <<kind, settings, gv, session, target, history, knowledgeVars>>
KnowledgeWork(p) ==
  /\ Study(p)
  /\ UNCHANGED <<depVars, kind, settings, gv, session, target, history>>

Review(s, v) == Accept(s, v) \/ AcceptPartial(s, v) \/ EditAndAccept(s, v) \/ Reject(s, v)
                \/ BatchReject(s, v) \/ RejectSaying(s, v) \/ AutoReview(s, v) \/ AskTrial(s, v)
Apply(s) == Load(s) \/ Read(s) \/ Write(s) \/ InsertItem(s) \/ BreakOff(s) \/ Close(s)
            \/ TellApi(s) \/ Trigger(s)
Next ==
  \/ \E s \in Reviewers : \/ \E v \in Versions : Review(s, v)
                         \/ Untried(s) \/ RunTrial(s) \/ MarkTrial(s) \/ Decide(s)
                         \/ Apply(s)
  \/ DeleteTarget
  \/ \E t \in Tasks : DependencyWork(t)
  \/ \E p \in Pupils : KnowledgeWork(p)
Spec == Init /\ [][Next]_vars
------------------------------------------------------------------------------
(* What is called accepted was applied: of a version that apply_version    *)
(* marked accepted, every part it could use reached the target, in one     *)
(* revision, whatever failed, crossed or was edited in between, and of     *)
(* fields and monitors at least one.  Exempt are versions whose API or     *)
(* template somebody deletes meanwhile, whose update may match nothing,    *)
(* and a template that two requests recreated at once: one copy is never   *)
(* read.                                                                   *)
UsableParts(v) == Suggests[v] \cap gv[v].usable
AcceptedIsApplied ==
  \A v \in Versions :
    gv[v].status = "accepted" /\ kind # "chat_suggestion" /\ copies <= 1 /\ ~deleted =>
      /\ \E r \in {0, 1} : \A p \in UsableParts(v) : <<v, r, p>> \in landed
      /\ kind \in {"data_template", "monitor"} => UsableParts(v) # {}

(* What nobody accepted stays out: a part of a version is in the target    *)
(* only if a request accepted it, by name or with the whole version.       *)
(* Scenario versions are exempt, their partial acceptance inserts all.     *)
OnlyChosenLands ==
  kind \notin {"scenario", "scenarios"} =>
    \A x \in landed : <<x[1], x[3]>> \in granted

(* While a template keeps a field of its own it has them all, and unless   *)
(* two requests merged at once or it was deleted, a field that was accepted *)
(* never falls back to what it was or vanishes: acceptance in part costs   *)
(* no field.                                                               *)
TemplateKeepsFields ==
  kind = "data_template" =>
    /\ (\E p \in Parts : content[p] = "old") => \A p \in Parts : content[p] # "absent"
    /\ ~crossed /\ ~deleted => \A x \in landed : content[x[3]] \in Versions \X {0, 1}

(* The system accepts on evidence only: a version whose acceptance bears   *)
(* the name "system" is of low or medium risk, has passed a trial where    *)
(* the settings ask for one, and has a sound structure, since gate 0 keeps *)
(* the confidence at 40 % (quality_gate.py:65: "necessarily below the      *)
(* threshold", which is so of thresholds above that).                      *)
AutoHasEvidence ==
  \A v \in Versions : gv[v].by = "system" =>
    /\ gv[v].grade.risk # "high"
    /\ settings.auto_review_trial_required => v \in proven
    /\ MinConfidence > 40 => gv[v].grade.gate0

(* The trigger chain of the docstring (analyzer.py:891): a scenario        *)
(* accepted whole has its template and monitor jobs sent, a template its   *)
(* monitor job.                                                            *)
DownstreamFollows ==
  \A s \in Reviewers : At(s, "done") => \A k \in Chain(kind) : <<V(s), k>> \in pushed
==============================================================================
