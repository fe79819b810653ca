-------------------------------- MODULE Catalog --------------------------------
(***************************************************************************)
(* How APIs enter the catalogue and are told to the analysis: HAR files,   *)
(* whole or streamed in batches (har_parser/parser.py), live capture       *)
(* (services/capture_service.py), forms, cURL and OpenAPI                  *)
(* (api/routers/apis.py, services/api_service.py), recorded traffic        *)
(* (services/mock_service.py), and the comparison of every newcomer with   *)
(* the analysed APIs of its path (services/diff_service.py).  Every source *)
(* looks for duplicates and stores in separate awaits; only the unique     *)
(* index of config/init_db.py stands between two of them.                  *)
(***************************************************************************)
EXTENDS Integers, Sequences, FiniteSets, SequencesExt
CONSTANTS
  Callers,     \* requests under way at once
  Requests,    \* recorded requests: a method, a URL and a body
  Path,        \* the method and path of a request
  Fields,      \* the fields of its body and of its response
  Bodied,      \* the requests that carry a body
  Plans,       \* what the callers may bring: [Callers -> [source, items, whole]]
  BatchSize,   \* _STREAMING_BATCH_SIZE
  Faults,      \* bound: calls of the database or of Redis that fail
  Changes      \* bound: deletions and switches of the capture

Sources == {"har", "stream", "openapi", "form", "curl", "capture", "flow", "batch", "edit"}
Recorders == {"flow", "batch"}     \* recorded by the proxy, posted by a user
ASSUME CatalogAssumption ==
  /\ BatchSize \in Nat \ {0} /\ Faults \in Nat /\ Changes \in Nat
  /\ \A p \in Plans : \A c \in Callers :
       p[c].source \in Sources /\ p[c].items \in Seq(Requests \cup {"static"})
  /\ Bodied \subseteq Requests
  /\ Path \in [Requests -> STRING] /\ \A r \in Requests : IsFiniteSet(Fields[r])

VARIABLES
  apis,      \* api_dsls: what is stored, by id
  caller,    \* the requests
  plan,      \* what each of them brings
  capturing, \* _capture_state["enabled"]
  queue,     \* queue:ai_analyze: the ids of its messages
  jobs,      \* ids with a record in ai_jobs
  diffs,     \* import_diffs
  kept,      \* files in quarantine
  budget,    \* what is left of Faults and Changes
  ever,      \* history: every id that was stored
  sent       \* history: every id that a message named
stores == <<apis, queue, jobs, diffs, kept>>
history == <<ever, sent>>
catalogVars == <<stores, caller, plan, capturing, budget, history>>

Idle == [pc |-> "start", read |-> 0, batch |-> <<>>, ids |-> <<>>, left |-> <<>>,
         old |-> <<>>, guessed |-> FALSE, end |-> "none"]
CatalogInit ==
  /\ plan \in Plans
  /\ apis = <<>> /\ queue = {} /\ jobs = {} /\ diffs = {} /\ kept = {}
  /\ caller = [c \in Callers |-> Idle]
  /\ capturing = TRUE
  /\ budget \in {[faults |-> Faults, changes |-> 0], [faults |-> 0, changes |-> Changes]}
  /\ ever = {} /\ sent = {}

From(c) == plan[c].source
At(c, pc) == caller[c].pc = pc
Items(c) == plan[c].items
(* An API's id is drawn when its item is parsed, before anything is stored.*)
Item(id) == plan[id[1]].items[id[2]]
Live == DOMAIN apis

(* The fingerprint covers method, URL and body in _make_hash, capture,     *)
(* create_api and parse_curl, where a body stays the text of the command;  *)
(* traffic puts the project in front of it and OpenAPI takes path,         *)
(* operation and parameters.                                               *)
AsText(source, r) == source = "curl" /\ r \in Bodied
(* Slip: capture puts the project in front, as traffic does. *)
FingerprintOfProject(source, r) ==
  CASE source \in Recorders \cup {"capture"} -> <<"project", r>>
    [] source = "openapi" -> <<"operation", Path[r]>>
    [] AsText(source, r) -> <<"text", r>>
    [] OTHER -> <<"request", r>>
Fingerprint(source, r) ==
  CASE source \in Recorders -> <<"project", r>>
    [] source = "openapi" -> <<"operation", Path[r]>>
    [] AsText(source, r) -> <<"text", r>>
    [] OTHER -> <<"request", r>>
Hash(id) == Fingerprint(From(id[1]), Item(id))
Known(h) == \E id \in Live : apis[id].hash = h
Holders(h) == {id \in Live : apis[id].hash = h}
(* The unique index on (project_id, source_hash). *)
Refused(h) == Known(h)

(* A spec documents its parameters; everything else comes without a doc.   *)
Stored(id) == [hash |-> Hash(id), request |-> Item(id), status |-> "idle", edited |-> FALSE,
               parsed |-> ~AsText(From(id[1]), Item(id)),
               doc |-> IF From(id[1]) = "openapi" THEN Fields[Item(id)] ELSE {}]
With(ids) == [id \in Live \cup ids |-> IF id \in Live THEN apis[id] ELSE Stored(id)]

Moves(c, pc) == caller' = [caller EXCEPT ![c].pc = pc]
Ends(c, how) == caller' = [caller EXCEPT ![c].pc = "over", ![c].end = how]
Only(x) == UNCHANGED <<plan, budget, capturing>> /\ UNCHANGED x
------------------------------------------------------------------------------
(* Files: static resources and hosts outside the filters are passed over,  *)
(* entries that do not parse are counted, and a file without a usable      *)
(* entry, or whose JSON breaks off, goes to quarantine.                    *)

(* Some positions in order, and what a list has at them.                   *)
InOrder(K) ==
  [n \in 1 .. Cardinality(K) |-> CHOOSE k \in K : Cardinality({j \in K : j < k}) = n - 1]
Of(list, K) == [n \in 1 .. Cardinality(K) |-> list[InOrder(K)[n]]]

Usable(c, i) == Items(c)[i] \in Requests
Parsed(c, first, last) ==
  LET at == InOrder({k \in first .. last : Usable(c, k)}) IN [n \in DOMAIN at |-> <<c, at[n]>>]
Takes(c, last, batch) ==
  caller' = [caller EXCEPT ![c].pc = IF batch = <<>> THEN "start" ELSE "dedup",
                           ![c].read = last, ![c].batch = batch]
Quarantines(c) ==
  /\ From(c) # "openapi" => kept' = kept \cup {c}
  /\ From(c) = "openapi" => UNCHANGED kept
  /\ Ends(c, "failed")
  /\ UNCHANGED <<apis, queue, jobs, diffs>> /\ Only(history)

ReadFile(c) ==
  /\ From(c) \in {"har", "openapi"} /\ At(c, "start")
  /\ LET batch == Parsed(c, 1, Len(Items(c)))
     IN  IF batch = <<>> \/ ~plan[c].whole
         THEN Quarantines(c)
         ELSE Takes(c, Len(Items(c)), batch) /\ Only(<<stores, history>>)

(* Each batch is filtered, stored, sent and compared before the next is    *)
(* read; what the earlier ones stored stays when the JSON breaks off.      *)
NextBatch(c) == {n \in {caller[c].read + BatchSize} : n <= Len(Items(c))}
ReadBatch(c) ==
  /\ From(c) = "stream" /\ At(c, "start")
  /\ LET read == caller[c].read
         last == IF NextBatch(c) # {} THEN read + BatchSize ELSE Len(Items(c))
     IN  CASE NextBatch(c) # {} \/ (plan[c].whole /\ read < last) ->
                Takes(c, last, Parsed(c, read + 1, last)) /\ Only(<<stores, history>>)
           [] NextBatch(c) = {} /\ (~plan[c].whole \/ last = 0) -> Quarantines(c)
           [] OTHER -> Ends(c, "ok") /\ Only(<<stores, history>>)

(* import_openapi names a db it does not have once it is done with the     *)
(* analysis: it answers 500 and compares nothing.                          *)
AfterBatch(c) ==
  CASE From(c) = "stream" -> Moves(c, "start")
    [] From(c) = "openapi" -> Ends(c, "error")
    [] OTHER -> Ends(c, "ok")
Dedup(c) ==
  /\ At(c, "dedup")
  /\ LET batch == caller[c].batch
         new == Of(batch, {k \in DOMAIN batch : ~Known(Hash(batch[k]))})
     IN  IF new = <<>> THEN AfterBatch(c)
         ELSE caller' = [caller EXCEPT ![c].pc = "write", ![c].batch = new]
  /\ Only(<<stores, history>>)

(* insert_many(ordered=False): the index refuses a document whose hash is  *)
(* stored already, by somebody else or by an earlier one of the list.      *)
Accepted(batch) ==
  {batch[k] : k \in {k \in DOMAIN batch :
     ~Refused(Hash(batch[k])) /\ \A j \in 1 .. k - 1 : Hash(batch[j]) # Hash(batch[k])}}
(* Slip: the ids of the earlier batches are sent and compared again. *)
ThenAll(c, ids) ==
  caller' = [caller EXCEPT ![c].pc = IF From(c) = "openapi" THEN "mark" ELSE "note",
                           ![c].ids = @ \o ids, ![c].left = caller[c].ids \o ids]
Then(c, ids) ==
  caller' = [caller EXCEPT ![c].pc = IF From(c) = "openapi" THEN "mark" ELSE "note",
                           ![c].ids = ids, ![c].left = ids]
WriteAll(c) ==
  /\ At(c, "write")
  /\ LET batch == caller[c].batch
         in == Accepted(batch)
     IN  /\ apis' = With(in) /\ ever' = ever \cup in
         /\ CASE in = ToSet(batch) -> Then(c, batch)
              [] in # ToSet(batch) /\ From(c) = "openapi" -> Ends(c, "failed")
              [] OTHER -> Moves(c, "recover")
  /\ UNCHANGED <<queue, jobs, diffs, kept>> /\ Only(sent)
(* Slip: a refused bulk insert is taken to have stored nothing. *)
RecoveredNone(batch) == <<>>
(* After a refusal the ids are guessed from the hashes that are stored.    *)
Recovered(batch) == Of(batch, {k \in DOMAIN batch : Known(Hash(batch[k]))})
Recover(c) ==
  /\ At(c, "recover")
  /\ LET ids == Recovered(caller[c].batch)
     IN  caller' = [caller EXCEPT ![c].pc = "note", ![c].ids = ids, ![c].left = ids,
                                  ![c].guessed = TRUE]
  /\ Only(<<stores, history>>)

(* _push_ai_queue notes every job, then sends the pipeline. *)
Note(c) ==
  /\ At(c, "note")
  /\ jobs' = jobs \cup ToSet(caller[c].ids)
  /\ Moves(c, "send")
  /\ UNCHANGED <<apis, queue, diffs, kept>> /\ Only(history)
Sends(ids) == queue' = queue \cup ids /\ sent' = sent \cup ids
Send(c) ==
  /\ At(c, "send")
  /\ Sends(ToSet(caller[c].ids))
  /\ Moves(c, "detect")
  /\ UNCHANGED <<apis, jobs, diffs, kept>> /\ Only(ever)
------------------------------------------------------------------------------
(* One API at a time. *)

Own(c) == <<c, 1>>
(* A form or a cURL command is stored unlooked, and a refusal answers 500. *)
Submit(c) ==
  /\ From(c) \in {"form", "curl"} /\ At(c, "start")
  /\ Moves(c, "insert")
  /\ Only(<<stores, history>>)
(* POST /capture/ingest reads the switch first. *)
Ingest(c) ==
  /\ From(c) = "capture" /\ At(c, "start")
  /\ IF capturing /\ Usable(c, 1) THEN Moves(c, "lookup") ELSE Ends(c, "refused")
  /\ Only(<<stores, history>>)
Lookup(c) ==
  /\ At(c, "lookup")
  /\ IF Known(Hash(Own(c)))
     THEN \E id \in Holders(Hash(Own(c))) :
            caller' = [caller EXCEPT ![c].pc = "over", ![c].end = "duplicate", ![c].ids = <<id>>]
     ELSE Moves(c, "insert")
  /\ Only(<<stores, history>>)
(* Capture takes a refusal for a duplicate and looks again, so once the    *)
(* other one is deleted it fails; the others let it through.               *)
OnRefusal(c) == IF From(c) = "capture" THEN Moves(c, "again") ELSE Ends(c, "failed")
AfterInsert(c) == IF From(c) \in {"form", "curl"} THEN "mark" ELSE "push"
Insert(c) ==
  /\ At(c, "insert")
  /\ IF Refused(Hash(Own(c)))
     THEN OnRefusal(c) /\ UNCHANGED <<apis, ever>>
     ELSE /\ apis' = With({Own(c)}) /\ ever' = ever \cup {Own(c)}
          /\ caller' = [caller EXCEPT ![c].pc = AfterInsert(c), ![c].ids = <<Own(c)>>,
                                      ![c].left = <<Own(c)>>]
  /\ UNCHANGED <<queue, jobs, diffs, kept>> /\ Only(sent)
Again(c) ==
  /\ At(c, "again")
  /\ IF Known(Hash(Own(c))) THEN Ends(c, "duplicate") ELSE Ends(c, "failed")
  /\ Only(<<stores, history>>)

(* enqueue_analyze, for every id in turn: an API that is gone or under     *)
(* analysis is passed over, the others become queued.                      *)
Marked(c) == IF From(c) = "openapi" THEN AfterBatch(c)
             ELSE caller' = [caller EXCEPT ![c].pc = "detect", ![c].left = caller[c].ids]
Mark(c) ==
  /\ At(c, "mark")
  /\ LET left == caller[c].left IN
       IF left = <<>> THEN Marked(c)
       ELSE IF Head(left) \in Live /\ apis[Head(left)].status \notin {"queued", "running"}
       THEN Moves(c, "queued")
       ELSE caller' = [caller EXCEPT ![c].left = Tail(left)]
  /\ Only(<<stores, history>>)
MarkQueued(c) ==
  /\ At(c, "queued")
  /\ apis' = [id \in Live |-> IF id # Head(caller[c].left) THEN apis[id]
                             ELSE [apis[id] EXCEPT !.status = "queued"]]
  /\ Moves(c, "push")
  /\ UNCHANGED <<queue, jobs, diffs, kept>> /\ Only(history)
(* Recorded traffic sends the bare id and notes no job. *)
AfterPush(c) ==
  IF From(c) \in Recorders THEN Moves(c, "detect") ELSE Moves(c, "record")
Push(c) ==
  /\ At(c, "push")
  /\ Sends({Head(caller[c].left)})
  /\ AfterPush(c)
  /\ UNCHANGED <<apis, jobs, diffs, kept>> /\ Only(ever)
(* AiJobService.upsert swallows its own failure. *)
AfterRecord(c) ==
  IF From(c) = "capture" THEN Moves(c, "detect")
  ELSE caller' = [caller EXCEPT ![c].pc = "mark", ![c].left = Tail(@)]
RecordJob(c) ==
  /\ At(c, "record")
  /\ jobs' = jobs \cup {Head(caller[c].left)}
  /\ AfterRecord(c)
  /\ UNCHANGED <<apis, queue, diffs, kept>> /\ Only(history)

(* PUT /apis/{id} overwrites what it is given but the id and the hash; an  *)
(* edit of request or document is compared again.                          *)
Edit(c) ==
  /\ From(c) = "edit" /\ At(c, "start")
  /\ \E id \in Live :
       /\ apis' = [apis EXCEPT ![id].request = Items(c)[1], ![id].edited = TRUE,
                                 ![id].parsed = TRUE]
       /\ caller' = [caller EXCEPT ![c].pc = "detect", ![c].ids = <<id>>, ![c].left = <<id>>]
  /\ UNCHANGED <<queue, jobs, diffs, kept>> /\ Only(history)
Forget(id) ==
  /\ id \in Live /\ budget.changes > 0
  /\ apis' = [other \in Live \ {id} |-> apis[other]]
  /\ budget' = [budget EXCEPT !.changes = @ - 1]
  /\ UNCHANGED <<queue, jobs, diffs, kept, caller, plan, capturing, history>>
------------------------------------------------------------------------------
(* DiffService: a newcomer is compared with an analysed API of its path;   *)
(* the documents count first, the bodies only when the documents agree.    *)

Candidates(id) ==
  {o \in Live \ {id} : /\ Path[apis[o].request] = Path[apis[id].request]
                       /\ apis[o].status \in {"applied", "done"}}
Differ(o, n) ==
  o.doc # n.doc \/ (o.parsed /\ n.parsed /\ Fields[o.request] # Fields[n.request])
Finish(c) == IF From(c) \in {"har", "stream"} THEN AfterBatch(c) ELSE Ends(c, "ok")
Passed(c) == caller' = [caller EXCEPT ![c].pc = "detect", ![c].left = Tail(@)]
Detect(c) ==
  /\ At(c, "detect")
  /\ LET left == caller[c].left IN
       IF left = <<>> THEN Finish(c)
       ELSE IF Head(left) \notin Live \/ Candidates(Head(left)) = {} THEN Passed(c)
       ELSE \E o \in Candidates(Head(left)) :
              IF Differ(apis[o], apis[Head(left)])
              THEN caller' = [caller EXCEPT ![c].pc = "report", ![c].old = o]
              ELSE Passed(c)
  /\ Only(<<stores, history>>)
Report(c) ==
  /\ At(c, "report")
  /\ diffs' = diffs \cup {[old |-> caller[c].old, new |-> Head(caller[c].left),
                           by |-> <<c, caller[c].read>>]}
  /\ Passed(c)
  /\ UNCHANGED <<apis, queue, jobs, kept>> /\ Only(history)
------------------------------------------------------------------------------
(* A call of the database or of Redis fails and has no effect.  Failures   *)
(* of the comparison and of a job's record are caught: the look-up of a    *)
(* newcomer ends the comparison, what fails after it ends that newcomer's  *)
(* only.  Any failure of an insert counts as a refusal where refusals are  *)
(* caught, and a streamed file is quarantined.                             *)
Comparing(c) == caller[c].pc \in {"detect", "report"}
Recording(c) == caller[c].pc \in {"note", "record"}
Caught(c) == (At(c, "write") /\ From(c) # "openapi") \/ (At(c, "insert") /\ From(c) = "capture")
ComparisonFails(c) == (At(c, "detect") /\ Finish(c)) \/ (caller[c].left # <<>> /\ Passed(c))
Fatal(c) == ~Comparing(c) /\ ~Recording(c) /\ ~Caught(c)
Fault(c) ==
  /\ budget.faults > 0 /\ caller[c].pc \notin {"start", "over"}
  /\ budget' = [budget EXCEPT !.faults = @ - 1]
  /\ CASE Comparing(c) -> ComparisonFails(c)
       [] Recording(c) -> IF At(c, "note") THEN Moves(c, "send") ELSE AfterRecord(c)
       [] Caught(c) -> Moves(c, IF At(c, "write") THEN "recover" ELSE "again")
       [] Fatal(c) -> Ends(c, "fault")
  /\ kept' = IF From(c) = "stream" /\ Fatal(c) THEN kept \cup {c} ELSE kept
  /\ UNCHANGED <<apis, queue, jobs, diffs, plan, capturing, history>>

Toggle ==      \* bound: while a capture has yet to read the switch
  /\ \E c \in Callers : From(c) = "capture" /\ At(c, "start")
  /\ budget.changes > 0 /\ capturing' = ~capturing
  /\ budget' = [budget EXCEPT !.changes = @ - 1]
  /\ UNCHANGED <<stores, caller, plan, history>>

(* The analysis worker and the review of its result (JobQueue, Review): an *)
(* API that is gone is dropped, one already analysed is left alone.        *)
Analyse(id) ==
  /\ id \in queue /\ queue' = queue \ {id}
  /\ IF id \in Live /\ apis[id].status # "applied"
     THEN apis' = [apis EXCEPT ![id].status = "applied", ![id].doc = Fields[apis[id].request]]
     ELSE UNCHANGED apis
  /\ UNCHANGED <<jobs, diffs, kept, caller>> /\ Only(history)

Store(c) == ReadFile(c) \/ ReadBatch(c) \/ Dedup(c) \/ WriteAll(c) \/ Recover(c)
            \/ Submit(c) \/ Ingest(c) \/ Lookup(c) \/ Insert(c) \/ Again(c) \/ Edit(c)
Tell(c) == Note(c) \/ Send(c) \/ Mark(c) \/ MarkQueued(c) \/ Push(c) \/ RecordJob(c)
Compare(c) == Detect(c) \/ Report(c)
------------------------------------------------------------------------------
(* HAR files, capture, forms and cURL compute one fingerprint in four      *)
(* places: two APIs of theirs that nobody edited never stand for the same  *)
(* request, however the checks and inserts of their requests interleave;   *)
(* a cURL command with a body is the exception.                            *)
Apart(id) == From(id[1]) \in Recorders \cup {"openapi"} \/ AsText(From(id[1]), Item(id))
SameRequestOnce ==
  \A a, b \in Live :
    (apis[a].request = apis[b].request /\ ~apis[a].edited /\ ~apis[b].edited)
      => a = b \/ Apart(a) \/ Apart(b)

(* What a request stored before it answered has been sent to the analysis, *)
(* by whichever path it came, a file that broke off half-way included: only*)
(* a failing call and a refused OpenAPI insert leave an API unsent.        *)
StoredIsSent ==
  \A id \in Live :
    ( /\ At(id[1], "over") /\ caller[id[1]].end # "fault"
      /\ ~(From(id[1]) = "openapi" /\ caller[id[1]].end = "failed") )
    => id \in sent

(* A message names an API that its sender stored itself, or the ids were   *)
(* guessed from the hashes after a refused bulk insert.                    *)
SentIsStored == \A id \in sent : id \in ever \/ caller[id[1]].guessed

(* An import compares each of its APIs once: nobody gets two differences   *)
(* to judge for one newcomer unless somebody edited it.                    *)
ReportedOnce ==
  \A d, e \in diffs :
    (d.new = e.new /\ d # e) =>
      \E x \in {d, e} : From(x.by[1]) = "edit"
==============================================================================
