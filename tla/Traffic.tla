-------------------------------- MODULE Traffic --------------------------------
(***************************************************************************)
(* Recorded traffic: the mitmproxy addon (mitmproxy_capture/               *)
(* capture_addon.py) applies the rules it fetched at most ten seconds ago  *)
(* to a flow, first to its request and then to its response, and posts     *)
(* what it records from a thread; TrafficService (services/mock_service.py,*)
(* api/routers/traffic.py) checks the source, keeps the record and puts    *)
(* the API into the Catalog.  A flow is a caller of source "flow".         *)
(***************************************************************************)
EXTENDS Catalog
CONSTANTS
  Rules     \* rules that may be in force: [action, record, at, on, rank]

ASSUME TrafficAssumption ==
  /\ \A r \in Rules : /\ r.action \in {"pass_through", "record", "modify_request",
                                       "modify_response", "mock_response", "drop"}
                      /\ r.record \in BOOLEAN /\ r.at \in {"request", "response", "both"}
                      /\ r.on \subseteq Requests /\ r.rank \in Nat

VARIABLES
  rules,    \* traffic_rules that are enabled
  source,   \* the traffic source: "on", "off" (disabled or key changed), "gone"
  cache,    \* self._rules of the addon
  armed,    \* self._capture_enabled
  flow,     \* the flows at the proxy
  skips,    \* self._skip_record_flow_ids
  records,  \* traffic_records: the API a caller's record is linked with
  blocked   \* history: flows dropped, or mocked by a rule that records nothing
proxyVars == <<rules, source, cache, armed, flow, skips, records, blocked>>
vars == <<catalogVars, proxyVars>>

Unlinked == <<>>
IsFlow(c) == From(c) = "flow" /\ At(c, "start")
(* Bound: rules, source and addon change only while a flow needs them. *)
Watched == \E c \in Callers : IsFlow(c)
TrafficInit ==
  /\ CatalogInit
  /\ rules \in IF Watched THEN SUBSET Rules ELSE {{}}
  /\ source = "on" /\ armed = TRUE /\ cache = {}
  /\ flow = [c \in Callers |-> "request"]
  /\ skips = {} /\ records = <<>> /\ blocked = {}

(* A fetch fails when the backend is away or refuses the source: then the  *)
(* addon has no rules until the next one.  Within ten seconds it keeps     *)
(* what it has.                                                            *)
Fetched == {cache, {}} \cup (IF source = "on" THEN {rules} ELSE {})
Matches(rs, c, phase) ==
  {r \in rs : r.at \in {phase, "both"} /\ Item(Own(c)) \in r.on}
ByRank(rs) == SetToSortSeq(rs, LAMBDA r, q : r.rank < q.rank)

(* The first rule that drops or mocks decides; the others only patch. *)
Deciding(rs) == {r \in rs : r.action \in {"drop", "mock_response"}}
First(rs) == CHOOSE r \in rs : \A q \in rs : r.rank <= q.rank
Hides(r) == r.action = "drop" \/ ~r.record
Request(c) ==
  /\ IsFlow(c) /\ flow[c] = "request"
  /\ \E rs \in Fetched :
       LET deciding == Deciding(Matches(rs, c, "request"))
           hidden == deciding # {} /\ Hides(First(deciding))
       IN  /\ cache' = rs
           /\ skips' = IF hidden THEN skips \cup {c} ELSE skips
           /\ blocked' = IF hidden THEN blocked \cup {c} ELSE blocked
  /\ flow' = [flow EXCEPT ![c] = "response"]
  /\ UNCHANGED <<catalogVars, rules, source, armed, records>>

(* Of the rules for the response the last that speaks of recording holds. *)
Speaks(r) == r.action \in {"drop", "pass_through", "record"}
Says(r) == r.action # "drop" /\ r.record
Recorded(rs) ==
  LET speaking == SelectSeq(ByRank(rs), Speaks)
  IN  speaking = <<>> \/ Says(Last(speaking))
Passes(c) == flow' = [flow EXCEPT ![c] = "over"]
(* Slip: the rules of the moment are asked, not the flow's own mark. *)
SkippedByRules(c) == c \in skips /\ Deciding(Matches(cache, c, "request")) # {}
Skipped(c) == c \in skips
Response(c) ==
  /\ IsFlow(c) /\ flow[c] = "response"
  /\ IF ~armed THEN Passes(c) /\ UNCHANGED <<cache, skips>>
     ELSE IF Skipped(c) THEN Passes(c) /\ skips' = skips \ {c} /\ UNCHANGED cache
     ELSE IF ~Usable(c, 1) THEN Passes(c) /\ UNCHANGED <<cache, skips>>
     ELSE \E rs \in Fetched :
            /\ cache' = rs
            /\ IF Recorded(Matches(rs, c, "response"))
               THEN flow' = [flow EXCEPT ![c] = "post"] ELSE Passes(c)
            /\ UNCHANGED skips
  /\ UNCHANGED <<catalogVars, rules, source, armed, records, blocked>>
ToggleCapture ==
  /\ budget.changes > 0 /\ budget' = [budget EXCEPT !.changes = @ - 1]
  /\ Watched /\ armed' = ~armed
  /\ UNCHANGED <<stores, history, caller, plan, capturing, rules, source, cache, flow,
                 skips, records, blocked>>

(* The thread's post may be lost; nobody sends it again. *)
Lose(c) ==
  /\ IsFlow(c) /\ flow[c] = "post" /\ budget.faults > 0
  /\ budget' = [budget EXCEPT !.faults = @ - 1]
  /\ Passes(c)
  /\ UNCHANGED <<stores, history, caller, plan, capturing, rules, source, cache, armed,
                 skips, records, blocked>>
------------------------------------------------------------------------------
(* POST /traffic/ingest: the source is checked, then the record kept, then *)
(* the API looked up.  A user's post needs no source.                      *)

Posted(c) ==
  /\ From(c) \in Recorders /\ At(c, "start")
  /\ IsFlow(c) => flow[c] = "post"
Admit(c) ==
  /\ Posted(c)
  /\ IF (IsFlow(c) /\ source # "on") \/ ~Usable(c, 1)
     THEN Ends(c, "refused") ELSE Moves(c, "keep")
  /\ Only(<<stores, history>>) /\ UNCHANGED proxyVars
Keep(c) ==
  /\ At(c, "keep")
  /\ records' = [x \in DOMAIN records \cup {c} |-> IF x = c THEN Unlinked ELSE records[x]]
  /\ Moves(c, "lookup")
  /\ Only(<<stores, history>>)
  /\ UNCHANGED <<rules, source, cache, armed, flow, skips, blocked>>
(* The record gets the id once the API is stored, sent and compared. *)
Link(c) ==
  /\ c \in DOMAIN records /\ records[c] = Unlinked
  /\ At(c, "over") /\ caller[c].end \in {"ok", "duplicate"}
  /\ records' = [records EXCEPT ![c] = caller[c].ids[1]]
  /\ Only(<<stores, history, caller>>)
  /\ UNCHANGED <<rules, source, cache, armed, flow, skips, blocked>>

ChangeRule(r) ==
  /\ budget.changes > 0 /\ budget' = [budget EXCEPT !.changes = @ - 1]
  /\ Watched /\ rules' = IF r \in rules THEN rules \ {r} ELSE rules \cup {r}
  /\ UNCHANGED <<stores, history, caller, plan, capturing, source, cache, armed, flow,
                 skips, records, blocked>>
(* Disabling the source or changing its key locks the proxy out; deleting  *)
(* it takes its rules along, in a second write.                            *)
ChangeSource ==
  /\ Watched /\ budget.changes > 0 /\ source # "gone" /\ budget' = [budget EXCEPT !.changes = @ - 1]
  /\ \E to \in {"on", "off", "gone"} \ {source} : source' = to
  /\ UNCHANGED <<stores, history, caller, plan, capturing, rules, cache, armed, flow,
                 skips, records, blocked>>
DropRules ==
  /\ source = "gone" /\ rules # {} /\ rules' = {}
  /\ UNCHANGED <<catalogVars, source, cache, armed, flow, skips, records, blocked>>

AtProxy(c) == Request(c) \/ Response(c) \/ Lose(c)
AtBackend(c) == Admit(c) \/ Keep(c) \/ Link(c)
Next ==
  \/ \E c \in Callers : AtProxy(c) \/ AtBackend(c)
  \/ \E c \in Callers : Store(c) /\ UNCHANGED proxyVars
  \/ \E c \in Callers : Tell(c) /\ UNCHANGED proxyVars
  \/ \E c \in Callers : Compare(c) /\ UNCHANGED proxyVars
  \/ \E c \in Callers : Fault(c) /\ UNCHANGED proxyVars
  \/ \E id \in ever : Forget(id) /\ UNCHANGED proxyVars
  \/ \E id \in queue : Analyse(id) /\ UNCHANGED proxyVars
  \/ Toggle /\ UNCHANGED proxyVars
  \/ \E r \in Rules : ChangeRule(r)
  \/ ToggleCapture \/ ChangeSource \/ DropRules
Spec == TrafficInit /\ [][Next]_vars
------------------------------------------------------------------------------
(* A flow that the proxy dropped, or mocked by a rule that records nothing,*)
(* is kept neither as a record nor as an API, whatever happens to rules,   *)
(* source and addon between its request, its response and its post.        *)
BlockedStaysOut ==
  \A c \in blocked : c \notin DOMAIN records /\ Own(c) \notin ever
==============================================================================
