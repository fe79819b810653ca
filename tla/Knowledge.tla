------------------------------- MODULE Knowledge -------------------------------
(***************************************************************************)
(* KnowledgeService (knowledge/service.py): what the language model learns *)
(* from analysed APIs, and people from rejecting versions, as entries with *)
(* a title, the APIs they come from and a confidence in percent.  Entries  *)
(* of one hash are merged when stored, entries with titles alike when the  *)
(* project is consolidated, after a batch of extractions or on request.    *)
(* Every one reads, computes and writes in separate awaits; a hash is a    *)
(* title here, and titles alike are of one type.                           *)
(***************************************************************************)
EXTENDS Integers, FiniteSets, Sequences
CONSTANTS
  Titles,
  Alike,      \* the titles at an edit distance below three from a title
  Sources,    \* the analysed APIs: at most three, one gather of batch_extract
  Taught,     \* the titles a model finds in an API, in its order
  Pupils,     \* the requests to the knowledge
  Lessons     \* bound: [stock, asks]: the entries there are, what each request asks

KnowledgeOps == {"none", "extract", "batch", "consolidate", "upvote", "downvote", "rename", "delete"}
ASSUME KnowledgeAssumption ==
  /\ Alike \in [Titles -> SUBSET Titles] /\ Cardinality(Sources) <= 3
  /\ \A t \in Titles : t \in Alike[t] /\ \A u \in Alike[t] : t \in Alike[u]
  /\ Taught \in [Sources -> Seq(Titles)]
  /\ \A l \in Lessons : /\ l.stock \in Seq([title : Titles, from : SUBSET Sources, conf : Nat])
                         /\ \A p \in Pupils : l.asks[p].op \in KnowledgeOps

VARIABLES
  entries,    \* knowledge_entries by the order of their insertion
  born,       \* how many there ever were
  pupil,      \* the requests: op, on, pc, hands, writes and gone
  learned     \* history: taught and dropped titles, pupils that read calmly, mingled
knowledgeVars == <<entries, born, pupil, learned>>

Known == DOMAIN entries
Titled(t) == {i \in Known : entries[i].title = t}
Oldest(ids) == CHOOSE i \in ids : \A j \in ids : i <= j
Entry(t, from, conf) == [title |-> t, from |-> from, conf |-> conf]
AtMost100(n) == IF n > 100 THEN 100 ELSE n
AtLeast5(n) == IF n < 5 THEN 5 ELSE n

Unread == [found |-> FALSE, from |-> {}, conf |-> 0]
Hand(titles) == [left |-> titles, looked |-> FALSE, saw |-> Unread]
Closed == [a \in Sources |-> Hand(<<>>)]
Pupil(ask, pc) == [op |-> ask.op, on |-> ask.on, pc |-> pc, hands |-> Closed,
                   writes |-> <<>>, gone |-> {}]
KnowledgeInit(l) ==
  /\ entries = [i \in DOMAIN l.stock |-> l.stock[i]] /\ born = Len(l.stock)
  /\ pupil = [p \in Pupils |-> Pupil(l.asks[p], "start")]
  /\ learned = [taught |-> {l.stock[i].title : i \in DOMAIN l.stock}, dropped |-> {},
                calm |-> {}, mingled |-> FALSE]

Asks(p, op) == pupil[p].pc = "start" /\ pupil[p].op = op
Does(p, pc) == pupil[p].pc = pc
Idle(p) == pupil[p].op = "none"
Turns(p, pc) == pupil' = [pupil EXCEPT ![p].pc = pc]
------------------------------------------------------------------------------
(* Extraction: one coroutine for each API, the titles of one after the     *)
(* other; the model may fail, and then nothing comes of the API.           *)

Opens(p, apis) ==
  /\ \E answered \in SUBSET apis :
       pupil' = [pupil EXCEPT ![p].pc = "gather",
         ![p].hands = [a \in Sources |-> Hand(IF a \in answered THEN Taught[a] ELSE <<>>)]]
  /\ UNCHANGED <<entries, born, learned>>
Extract(p) == \/ Asks(p, "extract") /\ Opens(p, {pupil[p].on})
              \/ Asks(p, "batch") /\ Opens(p, Sources)
(* A rejection with a reason teaches one title, about the API refused.     *)
Teach(p, a, t) ==
  pupil' = [pupil EXCEPT ![p].op = "refuse", ![p].pc = "gather", ![p].hands[a] = Hand(<<t>>)]

(* upsert_entry: find by hash, then merge into the one found or insert.    *)
Looking(p, a) == ~ pupil[p].hands[a].looked /\ pupil[p].hands[a].left # <<>>
Look(p, a) ==
  /\ Does(p, "gather") /\ Looking(p, a)
  /\ LET there == Titled(Head(pupil[p].hands[a].left))
         e == entries[Oldest(there)]
     IN pupil' = [pupil EXCEPT ![p].hands[a].looked = TRUE,
          ![p].hands[a].saw = IF there = {} THEN Unread
                              ELSE [found |-> TRUE, from |-> e.from, conf |-> e.conf]]
  /\ UNCHANGED <<entries, born, learned>>

Into(t, saw, a) ==                 \* the first of that hash, if it is still there
  IF Titled(t) = {} THEN entries
  ELSE [entries EXCEPT ![Oldest(Titled(t))].from = saw.from \cup {a},
                       ![Oldest(Titled(t))].conf = AtMost100(saw.conf + 10)]
With(id, e) == [i \in Known \cup {id} |-> IF i = id THEN e ELSE entries[i]]
Store(p, a) ==
  /\ Does(p, "gather") /\ pupil[p].hands[a].looked
  /\ LET t == Head(pupil[p].hands[a].left)
         saw == pupil[p].hands[a].saw
     IN /\ entries' = IF saw.found THEN Into(t, saw, a) ELSE With(born + 1, Entry(t, {a}, 50))
        /\ born' = IF saw.found THEN born ELSE born + 1
        /\ learned' = [learned EXCEPT !.taught = @ \cup {t}, !.calm = {}]
  /\ pupil' = [pupil EXCEPT ![p].hands[a] = Hand(Tail(@.left))]
Gathered(p) ==
  /\ Does(p, "gather") /\ \A a \in Sources : pupil[p].hands[a].left = <<>>
  /\ Turns(p, IF pupil[p].op = "batch" THEN "read" ELSE "over")
  /\ UNCHANGED <<entries, born, learned>>
------------------------------------------------------------------------------
(* consolidate compares every two entries as it read them, and only the    *)
(* list of those to be removed remembers what was decided before.  An      *)
(* entry removed in the inner loop goes on being compared there.           *)

Keeps(a, b) == a.conf >= b.conf
Joint(id, a, b) == [id |-> id, from |-> a.from \cup b.from,
                    conf |-> AtMost100((IF Keeps(a, b) THEN a.conf ELSE b.conf) + 5)]
Matching(read, i, j) == read[j].title \in Alike[read[i].title]
Pair(read, i, j, plan) ==
  IF j \in plan.gone \/ ~ Matching(read, i, j) THEN plan
  ELSE LET keeper == IF Keeps(read[i], read[j]) THEN i ELSE j
           other == IF keeper = i THEN j ELSE i
       IN [gone |-> plan.gone \cup {other},
           writes |-> Append(plan.writes, Joint(keeper, read[i], read[j]))]
(* Slip: the inner loop ends with the first entry alike. *)
FirstOnly(read, i, plan) ==
  LET alike == {j \in DOMAIN read : j > i /\ j \notin plan.gone /\ Matching(read, i, j)}
  IN IF alike = {} THEN plan ELSE Pair(read, i, Oldest(alike), plan)
Row(read, i, plan) ==
  LET after[j \in i .. born] ==
        IF j = i THEN plan
        ELSE IF j \in DOMAIN read THEN Pair(read, i, j, after[j - 1]) ELSE after[j - 1]
  IN  after[born]
Consolidated(read) ==
  LET after[i \in 0 .. born] ==
        IF i = 0 THEN [gone |-> {}, writes |-> <<>>]
        ELSE IF i \in DOMAIN read \ after[i - 1].gone THEN Row(read, i, after[i - 1]) ELSE after[i - 1]
  IN  after[born]

Merging(p) == Does(p, "merge")
ReadAll(p) ==
  /\ Does(p, "read") \/ Asks(p, "consolidate")
  /\ LET plan == Consolidated(entries) IN
       pupil' = [pupil EXCEPT ![p].pc = "merge", ![p].writes = plan.writes, ![p].gone = plan.gone]
  /\ learned' = [learned EXCEPT !.calm = @ \cup {p},
                                !.mingled = @ \/ \E q \in Pupils \ {p} : Merging(q)]
  /\ UNCHANGED <<entries, born>>

(* One update by id: of an entry deleted meanwhile there is none. *)
Updated(w) ==
  [i \in Known |-> IF i # w.id THEN entries[i]
                   ELSE [entries[i] EXCEPT !.conf = w.conf,
                                           !.from = IF w.from = {} THEN @ ELSE w.from]]
WriteNext(p) ==
  /\ pupil[p].writes # <<>>
  /\ entries' = Updated(Head(pupil[p].writes))
  /\ pupil' = [pupil EXCEPT ![p].writes = Tail(@)]
  /\ learned' = [learned EXCEPT !.calm = @ \cap {p}]
  /\ UNCHANGED born

(* Slip: removed by hash, not by id. *)
WithoutTitles(ids) ==
  {i \in Known : \A j \in ids \cap Known : entries[i].title # entries[j].title}
Without(ids) == Known \ ids
AfterMerge(p) == IF pupil[p].op = "batch" THEN "promote" ELSE "over"
Prune(p) ==
  /\ Merging(p) /\ pupil[p].writes = <<>>
  /\ entries' = [i \in Without(pupil[p].gone) |-> entries[i]]
  /\ Turns(p, AfterMerge(p))
  /\ learned' = IF pupil[p].gone = {} THEN learned ELSE [learned EXCEPT !.calm = @ \cap {p}]
  /\ UNCHANGED born
(* A call that raises ends it where it stands; a batch goes on promoting.  *)
GiveUp(p) ==
  /\ Merging(p) /\ Turns(p, AfterMerge(p))
  /\ learned' = [learned EXCEPT !.calm = @ \ {p}]
  /\ UNCHANGED <<entries, born>>
------------------------------------------------------------------------------
(* auto_merge, after a batch, promotes what three APIs bear out; a person  *)
(* votes on an entry.  Both write a confidence computed from what was read.*)

Raise(i, conf) == [id |-> i, conf |-> conf, from |-> {}]
Low == {i \in Known : entries[i].conf < 90 /\ Cardinality(entries[i].from) >= 3}
ReadLow(p) ==
  /\ Does(p, "promote")
  /\ LET ids == SelectSeq([k \in 1..born |-> k], LAMBDA k : k \in Low)
         Better(i) == AtMost100(90 + 3 * (Cardinality(entries[i].from) - 3))
     IN pupil' = [pupil EXCEPT ![p].pc = "raise",
                               ![p].writes = [k \in DOMAIN ids |-> Raise(ids[k], Better(ids[k]))]]
  /\ UNCHANGED <<entries, born, learned>>
Voted(op, conf) == IF op = "upvote" THEN AtMost100(conf + 5) ELSE AtLeast5(conf - 15)
Vote(p) ==
  /\ Asks(p, "upvote") \/ Asks(p, "downvote")
  /\ LET i == pupil[p].on IN
       pupil' = [pupil EXCEPT ![p].pc = "raise",
         ![p].writes = IF i \notin Known THEN <<>>
                       ELSE <<Raise(i, Voted(pupil[p].op, entries[i].conf))>>]
  /\ UNCHANGED <<entries, born, learned>>
Raised(p) ==
  /\ Does(p, "raise") /\ pupil[p].writes = <<>> /\ Turns(p, "over")
  /\ UNCHANGED <<entries, born, learned>>

(* A person edits the title, and with it the hash, or deletes entries.     *)
Touches(p, ids, now) ==
  /\ entries' = now
  /\ learned' = [learned EXCEPT !.calm = {},
       !.dropped = @ \cup {entries[i].title : i \in ids \cap Known},
       !.taught = @ \cup {now[i].title : i \in ids \cap DOMAIN now},
       !.mingled = @ \/ \E q \in Pupils \ {p} : Merging(q)]
  /\ Turns(p, "over") /\ UNCHANGED born
Rename(p) ==
  /\ Asks(p, "rename")
  /\ \E t \in Titles :
       Touches(p, {pupil[p].on},
         [i \in Known |-> IF i = pupil[p].on THEN [entries[i] EXCEPT !.title = t] ELSE entries[i]])
Delete(p) ==
  /\ Asks(p, "delete")
  /\ Touches(p, pupil[p].on, [i \in Without(pupil[p].on) |-> entries[i]])

Study(p) ==
  \/ Extract(p) \/ Gathered(p) \/ \E a \in Sources : Look(p, a) \/ Store(p, a)
  \/ ReadAll(p) \/ WriteNext(p) \/ Prune(p) \/ GiveUp(p)
  \/ ReadLow(p) \/ Vote(p) \/ Raised(p) \/ Rename(p) \/ Delete(p)
------------------------------------------------------------------------------
Topic(t) ==
  {u \in Titles : \A S \in SUBSET Titles :
     t \in S /\ (\A s \in S : Alike[s] \subseteq S) => u \in S}
(* What was learned stays known: unless a person dropped an entry of its   *)
(* topic, or two consolidations, or one and an edit, ran at once, every    *)
(* title that was ever stored has an entry left among those alike, however *)
(* extractions, votes and merges cross and whatever stale copy they write. *)
TopicSurvives ==
  learned.mingled \/ \A t \in learned.taught :
    \/ Topic(t) \cap learned.dropped # {}
    \/ \E i \in Known : entries[i].title \in Topic(t)

(* A consolidation that nobody disturbed leaves no two entries alike, the  *)
(* twins that the crossed lookups of its own batch inserted included.      *)
NoTwinsLeft ==
  \A p \in learned.calm : pupil[p].pc \in {"promote", "raise", "over"} =>
    \A i, j \in Known : i # j => entries[j].title \notin Alike[entries[i].title]

(* "Keeps the one with the higher confidence, merges source_api_ids"       *)
(* (service.py:475): the APIs behind an entry about to be removed are also *)
(* behind one of its topic that stays.                                     *)
MergedKeepsSources ==
  \A p \in learned.calm : Merging(p) /\ pupil[p].writes = <<>> =>
    \A i \in pupil[p].gone :
      LET stay == {j \in Without(pupil[p].gone) : entries[j].title \in Topic(entries[i].title)}
      IN entries[i].from \subseteq UNION {entries[j].from : j \in stay}
================================================================================
