----------------------------- MODULE Review_proofs -----------------------------
(* The review of generated versions, for any versions, parts, reviewers    *)
(* and grades: that what is called accepted was applied, that what nobody  *)
(* accepted stays out, that the system accepts on evidence, and that a     *)
(* template keeps its fields.  Then the edges between the APIs: that what  *)
(* a person refused stays out of the graph.  Last, the knowledge: that     *)
(* what was learned stays, and what a consolidation leaves.                *)
EXTENDS Review, FiniteSetTheorems, TLAPS

Verdicts == [risk : {"low", "medium", "high"}, gate0 : BOOLEAN, gate1 : BOOLEAN, rate : {0, 50, 100}]
Generations ==
  [status : {"pending_review", "accepted", "partially_accepted", "rejected"},
   by : {"none", "human", "system"}, rev : {0, 1}, usable : SUBSET Parts, grade : Verdicts,
   trial : {"none", "failed", "passed"}]
Applied == Versions \X {0, 1}
Fields == [Parts -> {"old", "absent"} \cup Applied]
Pcs == {"free", "over", "done", "trial", "note", "decide", "load", "read", "write", "insert",
        "close", "tell", "trigger"}
Sessions ==
  [pc : Pcs, v : Versions \cup {"none"}, by : {"human", "system"}, chosen : SUBSET Parts,
   rev : {0, 1}, seen : [copies : Nat, content : {<<>>} \cup Fields], left : SUBSET Parts]

(* What the variables of the review hold. *)
TargetTyped ==
  /\ made \in [Versions -> [Parts -> Nat]] /\ applied \in BOOLEAN
  /\ pushed \subseteq Versions \X {"data_template", "monitor"}
Typed ==
  /\ kind \in Kinds /\ settings \in Settings /\ gv \in [Versions -> Generations]
  /\ content \in Fields /\ copies \in Nat
  /\ session \in [Reviewers -> Sessions]
  /\ landed \subseteq Versions \X {0, 1} \X Parts /\ granted \subseteq Versions \X Parts
  /\ proven \subseteq Versions /\ deleted \in BOOLEAN /\ crossed \in BOOLEAN
TypeOK == Typed /\ TargetTyped

Picked(e) ==
  (IF e.chosen = {} THEN Suggests[e.v] ELSE Suggests[e.v] \cap e.chosen) \cap gv[e.v].usable
MergesFor(e) == kind = "data_template" \/ (kind = "doc" /\ e.chosen # {})
Evident(v) ==
  /\ gv[v].grade.risk # "high"
  /\ settings.auto_review_trial_required => v \in proven
  /\ MinConfidence > 40 => gv[v].grade.gate0
Landed(v, r) == \A p \in UsableParts(v) : <<v, r, p>> \in landed
NotEmpty(v) == kind \in {"data_template", "monitor"} => UsableParts(v) # {}
(* What the place a request stands at says of it: what it may still apply  *)
(* was accepted, what it has applied is there.                             *)
Fits(e) ==
  /\ e.pc = "free" => e = Away
  /\ e.pc # "free" => e.v \in Versions
  /\ e.by = "system" => kind = "scenario"
  /\ e.by = "system" /\ e.pc \in {"load", "read", "write", "insert", "close"} => Evident(e.v)
  /\ e.pc \in {"load", "read", "write", "insert"} /\ kind \notin {"scenario", "scenarios"} =>
       \A p \in Picked(e) : <<e.v, p>> \in granted
  /\ e.pc = "insert" =>
       /\ kind \in Lists
       /\ kind = "monitor" => e.left \subseteq Picked(e)
       /\ e.chosen = {} => \A p \in UsableParts(e.v) \ e.left : <<e.v, e.rev, p>> \in landed
  /\ e.pc \in {"read", "write", "insert", "close"} => NotEmpty(e.v)
  /\ e.pc = "read" => MergesFor(e)
  /\ e.pc = "write" /\ MergesFor(e) =>
       (deleted \/ e.seen.copies <= copies) /\ e.seen.content \in Fields
  /\ e.pc = "close" /\ e.chosen = {} /\ kind # "chat_suggestion" =>
       deleted \/ copies > 1 \/ Landed(e.v, e.rev)
AllFit == \A s \in Reviewers : Fits(session[s])

(* What a version says of itself is true. *)
Honest(v) ==
  /\ gv[v].trial = "passed" => v \in proven
  /\ gv[v].by = "system" => Evident(v)
  /\ gv[v].status = "accepted" /\ kind # "chat_suggestion" =>
       (deleted \/ copies > 1 \/ \E r \in {0, 1} : Landed(v, r)) /\ NotEmpty(v)
AllHonest == \A v \in Versions : Honest(v)

(* Until somebody deletes it, the target is there, unless it is a template *)
(* in which nothing has landed yet; and while two requests did not merge   *)
(* into a template at once, the one that merges knows what is there.       *)
TargetInv ==
  /\ copies = 0 /\ ~ deleted => kind = "data_template" /\ landed = {}
  /\ kind = "data_template" /\ ~ crossed /\ ~ deleted =>
       \A x \in landed : content[x[3]] \in Applied
Alone ==
  kind = "data_template" /\ ~ crossed /\ ~ deleted =>
    \A s \in Reviewers : At(s, "write") =>
      /\ session[s].seen = [copies |-> copies, content |-> content]
      /\ \A t \in Reviewers : At(t, "write") => t = s

ReviewInv == Typed /\ AllFit /\ AllHonest /\ OnlyChosenLands /\ TargetInv /\ Alone
-------------------------------------------------------------------------------
(* What the assumptions say of the parts of a version. *)
LEMMA SuggestsAre ==
  /\ \A v \in Versions : Suggests[v] \in SUBSET Parts /\ Suggests[v] # {}
  /\ \A v \in Versions : UsableParts(v) \in SUBSET Parts
  /\ \A e \in Sessions : e.v \in Versions => Picked(e) \in SUBSET Parts
<1>1. \A v \in Versions : Suggests[v] \in SUBSET Parts /\ Suggests[v] # {}
  BY ReviewAssumption
<1>. QED
  BY <1>1 DEF Picked, UsableParts, Sessions

(* Nothing a request relies on is ever taken back. *)
Grows ==
  /\ kind' = kind /\ settings' = settings /\ copies' \in Nat
  /\ deleted' \in BOOLEAN /\ (deleted => deleted') /\ (deleted' \/ copies <= copies')
  /\ granted \subseteq granted' /\ proven \subseteq proven' /\ landed \subseteq landed'
  /\ \A v \in Versions : gv'[v].grade = gv[v].grade /\ gv'[v].usable = gv[v].usable
(* What is evident or landed stays so.                                     *)
LEMMA EvidenceStays ==
  ASSUME Grows, NEW v \in Versions
  PROVE  /\ Evident(v) => Evident(v)'
         /\ \A r : Landed(v, r) => Landed(v, r)'
         /\ UsableParts(v)' = UsableParts(v) /\ (NotEmpty(v) => NotEmpty(v)')
BY DEF Grows, Evident, Landed, UsableParts, NotEmpty

(* What a request's place says of it stays true while others go on.        *)
LEMMA FitsStays ==
  ASSUME Typed, Grows, NEW e \in Sessions, Fits(e)
  PROVE  Fits(e)'
<1>. USE DEF Grows
<1>1. CASE e.pc = "free"
  BY <1>1 DEF Fits
<1>2. CASE e.pc # "free"
  <2>1. /\ e.v \in Versions /\ (Evident(e.v) => Evident(e.v)')
        /\ (Landed(e.v, e.rev) => Landed(e.v, e.rev)')
        /\ UsableParts(e.v)' = UsableParts(e.v) /\ (NotEmpty(e.v) => NotEmpty(e.v)')
    BY <1>2, EvidenceStays DEF Fits
  <2>2. (MergesFor(e)' <=> MergesFor(e)) /\ Picked(e)' = Picked(e)
    BY <2>1 DEF MergesFor, Picked
  <2>3. copies \in Nat /\ e.seen.copies \in Nat /\ deleted \in BOOLEAN
    BY DEF Typed, Sessions
  <2>4. e.pc \in {"load", "read", "write", "insert"} /\ kind \notin {"scenario", "scenarios"} =>
          \A p \in Picked(e)' : <<e.v, p>> \in granted'
    BY <2>2 DEF Fits
  <2>5. e.pc = "insert" =>
          /\ kind \in Lists /\ (kind = "monitor" => e.left \subseteq Picked(e)')
          /\ e.chosen = {} => \A p \in UsableParts(e.v)' \ e.left : <<e.v, e.rev, p>> \in landed'
    BY <2>1, <2>2 DEF Fits
  <2>6. e.pc = "write" /\ MergesFor(e) => (deleted' \/ e.seen.copies <= copies') /\ e.seen.content \in Fields
    <3>1. e.pc = "write" /\ MergesFor(e) => (deleted \/ e.seen.copies <= copies) /\ e.seen.content \in Fields
      BY DEF Fits
    <3>2. (deleted \/ e.seen.copies <= copies) => (deleted' \/ e.seen.copies <= copies')
      BY <2>3
    <3>. QED
      BY <3>1, <3>2
  <2>7. e.pc = "close" /\ e.chosen = {} /\ kind # "chat_suggestion" =>
          deleted' \/ copies' > 1 \/ Landed(e.v, e.rev)'
    <3>1. e.pc = "close" /\ e.chosen = {} /\ kind # "chat_suggestion" =>
            deleted \/ copies > 1 \/ Landed(e.v, e.rev)
      BY DEF Fits
    <3>2. (deleted \/ copies > 1) => (deleted' \/ copies' > 1)
      BY <2>3
    <3>. QED
      BY <2>1, <3>1, <3>2
  <2>8. e.pc \in {"read", "write", "insert", "close"} => NotEmpty(e.v)'
    BY <2>1 DEF Fits
  <2>9. /\ e.by = "system" => kind = "scenario"
        /\ e.by = "system" /\ e.pc \in {"load", "read", "write", "insert", "close"} => Evident(e.v)'
        /\ e.pc = "read" => MergesFor(e)
    BY <2>1 DEF Fits
  <2>. QED
    BY <1>2, <2>1, <2>2, <2>4, <2>5, <2>6, <2>7, <2>8, <2>9 DEF Fits
<1>. QED
  BY <1>1, <1>2

(* One request moves, the others are where they were. *)
Moved(s, e) == session' = [session EXCEPT ![s] = e]
(* When one request moves and fits where it comes to, all fit.             *)
LEMMA OthersFit ==
  ASSUME Typed, AllFit, Grows, NEW s \in Reviewers, NEW e \in Sessions, Moved(s, e), Fits(e)'
  PROVE  /\ session' \in [Reviewers -> Sessions] /\ AllFit'
         /\ session'[s] = e /\ \A t \in Reviewers : t # s => session'[t] = session[t]
<1>1. /\ session' \in [Reviewers -> Sessions] /\ session'[s] = e
      /\ \A t \in Reviewers : t # s => session'[t] = session[t]
  BY DEF Typed, Moved
<1>2. ASSUME NEW t \in Reviewers PROVE Fits(session[t])'
  <2>1. CASE t = s
    BY <1>1, <2>1
  <2>2. CASE t # s
    <3>1. session[t] \in Sessions /\ Fits(session[t])
      BY DEF Typed, AllFit
    <3>. QED
      BY <1>1, <2>2, <3>1, FitsStays
  <2>. QED
    BY <2>1, <2>2
<1>. QED
  BY <1>1, <1>2 DEF AllFit

(* A version that is not written to says what is true still.               *)
LEMMA HonestStays ==
  ASSUME Typed, Grows, NEW v \in Versions, Honest(v),
         gv'[v].trial = gv[v].trial, gv'[v].by = gv[v].by, gv'[v].status = gv[v].status
  PROVE  Honest(v)'
<1>1. copies \in Nat
  BY DEF Typed
<1>. QED
  BY <1>1, EvidenceStays DEF Honest, Grows, Typed

(* What a step does that touches neither the target nor the standing of a  *)
(* version: one request moves, and more may be granted.                    *)
Quiet(s, e) ==
  /\ Moved(s, e) /\ UNCHANGED <<kind, settings, content, copies, deleted, landed, proven, crossed>>
  /\ granted \subseteq granted' /\ granted' \subseteq Versions \X Parts
  /\ gv' \in [Versions -> Generations]
  /\ \A v \in Versions :
       /\ gv'[v].grade = gv[v].grade /\ gv'[v].usable = gv[v].usable /\ gv'[v].trial = gv[v].trial
       /\ gv'[v].by = gv[v].by /\ gv'[v].status = gv[v].status
  /\ e.pc = "write" => kind # "data_template"
(* A step that moves one request and touches neither verdicts nor target.  *)
LEMMA QuietStep ==
  ASSUME ReviewInv, NEW s \in Reviewers, NEW e \in Sessions, Quiet(s, e), Fits(e)'
  PROVE  ReviewInv'
<1>1. Grows
  BY DEF ReviewInv, Typed, Quiet, Grows
<1>2. /\ session' \in [Reviewers -> Sessions] /\ AllFit'
      /\ session'[s] = e /\ \A t \in Reviewers : t # s => session'[t] = session[t]
  BY <1>1, OthersFit DEF ReviewInv, Quiet
<1>3. Typed'
  BY <1>2 DEF ReviewInv, Typed, Quiet
<1>4. AllHonest'
  BY <1>1, HonestStays DEF ReviewInv, AllHonest, Quiet
<1>5. OnlyChosenLands'
  BY DEF ReviewInv, OnlyChosenLands, Quiet
<1>6. TargetInv'
  BY DEF ReviewInv, TargetInv, Quiet
<1>7. Alone'
  <2> SUFFICES ASSUME kind = "data_template", ~ crossed, ~ deleted, NEW t \in Reviewers, At(t, "write")'
               PROVE  /\ session'[t].seen = [copies |-> copies, content |-> content]
                      /\ \A u \in Reviewers : At(u, "write")' => u = t
    BY DEF Alone, Quiet
  <2>1. t # s /\ At(t, "write") /\ session'[t] = session[t]
    BY <1>2 DEF At, Quiet
  <2>2. ASSUME NEW u \in Reviewers, At(u, "write")' PROVE u = t
    <3>1. u # s /\ At(u, "write")
      BY <1>2, <2>2 DEF At, Quiet
    <3>. QED
      BY <2>1, <3>1 DEF ReviewInv, Alone
  <2>. QED
    BY <2>1, <2>2 DEF ReviewInv, Alone
<1>. QED
  BY <1>2, <1>3, <1>4, <1>5, <1>6, <1>7 DEF ReviewInv

(* A request that is over, or that shows nothing yet, fits everywhere.     *)
LEMMA BystanderFits ==
  ASSUME NEW e \in Sessions, e.pc \in {"over", "done", "trial", "note", "decide", "tell", "trigger"},
         e.v \in Versions, e.by = "system" => kind = "scenario", kind' = kind
  PROVE  Fits(e)'
BY DEF Fits
-------------------------------------------------------------------------------
(* The requests that begin. *)

(* A request that has not begun.                                           *)
LEMMA AwayIs ==
  /\ Away = [pc |-> "free", v |-> "none", by |-> "human", chosen |-> {}, rev |-> 0,
             seen |-> [copies |-> 1, content |-> <<>>], left |-> {}]
  /\ Away \in Sessions
<1>1. Away = [pc |-> "free", v |-> "none", by |-> "human", chosen |-> {}, rev |-> 0,
              seen |-> [copies |-> 1, content |-> <<>>], left |-> {}]
  BY DEF Away
<1>2. [copies |-> 1, content |-> <<>>] \in [copies : Nat, content : {<<>>} \cup Fields]
  OBVIOUS
<1>. QED
  BY <1>1, <1>2 DEF Sessions, Pcs

(* One that begins to accept has granted what it will apply.               *)
LEMMA AcceptingFits ==
  ASSUME ReviewInv, NEW s \in Reviewers, NEW v \in Versions, NEW chosen \in SUBSET Parts, NEW parts,
         parts = IF chosen = {} THEN Suggests[v] ELSE chosen, Accepting(s, v, chosen, parts),
         gv' \in [Versions -> Generations],
         \A w \in Versions :
           /\ gv'[w].grade = gv[w].grade /\ gv'[w].usable = gv[w].usable /\ gv'[w].trial = gv[w].trial
           /\ gv'[w].by = gv[w].by /\ gv'[w].status = gv[w].status
  PROVE  ReviewInv'
<1>1. session[s] = Away
  BY DEF Accepting, Free, At, ReviewInv, AllFit, Fits
<1>2. PICK e : e = [Away EXCEPT !.pc = "load", !.v = v, !.chosen = chosen]
  OBVIOUS
<1>3. e = [pc |-> "load", v |-> v, by |-> "human", chosen |-> chosen, rev |-> 0,
           seen |-> [copies |-> 1, content |-> <<>>], left |-> {}]
  BY <1>2, AwayIs
<1>4. e \in Sessions
  BY <1>3, AwayIs DEF Sessions, Pcs
<1>5. Moved(s, e)
  <2>1. session' = [session EXCEPT ![s] = [@ EXCEPT !.pc = "load", !.v = v, !.chosen = chosen]]
    BY DEF Accepting
  <2>. QED
    BY <1>1, <1>2, <2>1 DEF Moved
<1>6. parts \in SUBSET Parts /\ \A p \in Picked(e) : p \in parts
  BY <1>3, SuggestsAre DEF Picked
<1>7. /\ UNCHANGED <<kind, settings, content, copies, deleted, landed, proven, crossed>>
      /\ granted' = granted \cup {<<v, p>> : p \in parts}
  BY DEF Accepting, Untouched, target
<1>8. Quiet(s, e)
  <2>1. granted \subseteq Versions \X Parts
    BY DEF ReviewInv, Typed
  <2>2. granted \subseteq granted' /\ granted' \subseteq Versions \X Parts
    BY <1>6, <1>7, <2>1
  <2>. QED
    BY <1>3, <1>5, <1>7, <2>2 DEF Quiet
<1>9. \A p \in Picked(e)' : <<v, p>> \in granted'
  <2>1. Picked(e)' = Picked(e)
    BY <1>3 DEF Picked
  <2>. QED
    BY <1>6, <1>7, <2>1
<1>10. Fits(e)'
  BY <1>3, <1>9 DEF Fits
<1>. QED
  BY <1>4, <1>8, <1>10, QuietStep

(* Acceptance whole, in part and edited.                                   *)
LEMMA AcceptStep ==
  ASSUME ReviewInv, NEW s \in Reviewers, NEW v \in Versions,
         Accept(s, v) \/ AcceptPartial(s, v) \/ EditAndAccept(s, v)
  PROVE  ReviewInv'
<1>1. gv \in [Versions -> Generations]
  BY DEF ReviewInv, Typed
<1>2. CASE Accept(s, v)
  BY <1>1, <1>2, AcceptingFits DEF Accept
<1>3. CASE AcceptPartial(s, v)
  BY <1>1, <1>3, AcceptingFits DEF AcceptPartial
<1>4. CASE EditAndAccept(s, v)
  <2>1. gv' = [gv EXCEPT ![v] = [@ EXCEPT !.rev = 1]]
    BY <1>4 DEF EditAndAccept
  <2>2. [gv[v] EXCEPT !.rev = 1] \in Generations
    BY <1>1 DEF Generations
  <2>3. /\ gv' \in [Versions -> Generations]
        /\ \A w \in Versions :
             /\ gv'[w].grade = gv[w].grade /\ gv'[w].usable = gv[w].usable /\ gv'[w].trial = gv[w].trial
             /\ gv'[w].by = gv[w].by /\ gv'[w].status = gv[w].status
    BY <1>1, <2>1, <2>2 DEF Generations
  <2>. QED
    BY <1>4, <2>3, AcceptingFits DEF EditAndAccept
<1>. QED
  BY <1>2, <1>3, <1>4

(* The automatic review and a trial that somebody asked for.               *)
LEMMA BeginsStep ==
  ASSUME ReviewInv, NEW s \in Reviewers, NEW v \in Versions, AutoReview(s, v) \/ AskTrial(s, v)
  PROVE  ReviewInv'
<1>1. PICK pc \in {"trial", "decide"}, by \in {"human", "system"} :
        Begins(s, v, pc, by) /\ (by = "system" => kind = "scenario")
  BY DEF AutoReview, AskTrial
<1>2. session[s] = Away
  BY <1>1 DEF Begins, Free, At, ReviewInv, AllFit, Fits
<1>3. PICK e : e = [Away EXCEPT !.pc = pc, !.v = v, !.by = by]
  OBVIOUS
<1>4. e = [pc |-> pc, v |-> v, by |-> by, chosen |-> {}, rev |-> 0,
           seen |-> [copies |-> 1, content |-> <<>>], left |-> {}]
  BY <1>3, AwayIs
<1>5. e \in Sessions
  BY <1>4, AwayIs DEF Sessions, Pcs
<1>6. Moved(s, e)
  <2>1. session' = [session EXCEPT ![s] = [@ EXCEPT !.pc = pc, !.v = v, !.by = by]]
    BY <1>1 DEF Begins
  <2>. QED
    BY <1>2, <1>3, <2>1 DEF Moved
<1>7. UNCHANGED <<kind, settings, gv, content, copies, deleted, landed, granted, proven, crossed>>
  BY <1>1 DEF Begins, Untouched, target, history
<1>8. Quiet(s, e)
  BY <1>4, <1>6, <1>7 DEF Quiet, ReviewInv, Typed
<1>9. Fits(e)'
  BY <1>1, <1>4, <1>5, <1>7, BystanderFits
<1>. QED
  BY <1>5, <1>8, <1>9, QuietStep

(* A request that only goes to another place. *)
LEMMA GoesTo ==
  ASSUME Typed, NEW s \in Reviewers, NEW pc \in Pcs, Goes(s, pc)
  PROVE  \E e \in Sessions :
           /\ Moved(s, e) /\ e.pc = pc /\ e.v = session[s].v /\ e.by = session[s].by
           /\ e.chosen = session[s].chosen /\ e.rev = session[s].rev
           /\ e.seen = session[s].seen /\ e.left = session[s].left
<1>1. session[s] \in Sessions
  BY DEF Typed
<1>2. PICK e : e = [session[s] EXCEPT !.pc = pc]
  OBVIOUS
<1>3. e \in Sessions
  BY <1>1, <1>2 DEF Sessions
<1>4. Moved(s, e)
  BY <1>2 DEF Goes, Moved
<1>. QED
  BY <1>1, <1>2, <1>3, <1>4 DEF Sessions

(* A step that makes versions stand otherwise, and touches no target.      *)
LEMMA StandingStep ==
  ASSUME ReviewInv, NEW s \in Reviewers, NEW e \in Sessions, Moved(s, e), Fits(e)', Grows,
         e.pc # "write", UNCHANGED <<content, copies, deleted, landed, granted, crossed>>,
         proven' \subseteq Versions, gv' \in [Versions -> Generations], AllHonest'
  PROVE  ReviewInv'
<1>1. /\ session' \in [Reviewers -> Sessions] /\ AllFit'
      /\ session'[s] = e /\ \A t \in Reviewers : t # s => session'[t] = session[t]
  BY OthersFit DEF ReviewInv
<1>2. Typed'
  BY <1>1 DEF ReviewInv, Typed, Grows
<1>3. OnlyChosenLands'
  BY DEF ReviewInv, OnlyChosenLands, Grows
<1>4. TargetInv'
  BY DEF ReviewInv, TargetInv, Grows
<1>5. \A t \in Reviewers : At(t, "write")' => At(t, "write") /\ session'[t] = session[t]
  BY <1>1 DEF At
<1>6. Alone'
  BY <1>5 DEF ReviewInv, Alone, Grows
<1>. QED
  BY <1>1, <1>2, <1>3, <1>4, <1>6 DEF ReviewInv

(* Rejections, alone and in batches, with their decay or their lesson.     *)
LEMMA RejectStep ==
  ASSUME ReviewInv, NEW s \in Reviewers, NEW v \in Versions, Rejecting(s, v)
  PROVE  ReviewInv'
<1>1. session[s] = Away
  BY DEF Rejecting, Free, At, ReviewInv, AllFit, Fits
<1>2. PICK e : e = [Away EXCEPT !.pc = "over", !.v = v]
  OBVIOUS
<1>3. e = [pc |-> "over", v |-> v, by |-> "human", chosen |-> {}, rev |-> 0,
           seen |-> [copies |-> 1, content |-> <<>>], left |-> {}]
  BY <1>2, AwayIs
<1>4. e \in Sessions
  BY <1>3, AwayIs DEF Sessions, Pcs
<1>5. Moved(s, e)
  <2>1. session' = [session EXCEPT ![s] = [@ EXCEPT !.pc = "over", !.v = v]]
    BY DEF Rejecting
  <2>. QED
    BY <1>1, <1>2, <2>1 DEF Moved
<1>6. UNCHANGED <<kind, settings, content, copies, deleted, landed, granted, proven, crossed>>
  BY DEF Rejecting, target, history
<1>7. gv' = [gv EXCEPT ![v] = [@ EXCEPT !.status = "rejected", !.by = "human"]]
  BY DEF Rejecting
<1>8. gv \in [Versions -> Generations]
  BY DEF ReviewInv, Typed
<1>9. PICK g : g = [gv[v] EXCEPT !.status = "rejected", !.by = "human"]
  OBVIOUS
<1>10. /\ g \in Generations /\ g.grade = gv[v].grade /\ g.usable = gv[v].usable /\ g.trial = gv[v].trial
       /\ g.status = "rejected" /\ g.by = "human"
  BY <1>8, <1>9 DEF Generations
<1>11. /\ gv' \in [Versions -> Generations] /\ gv'[v] = g
       /\ \A w \in Versions : w # v => gv'[w] = gv[w]
  BY <1>7, <1>8, <1>9, <1>10
<1>12. Grows
  BY <1>6, <1>10, <1>11 DEF ReviewInv, Typed, Grows
<1>13. Honest(v)'
  BY <1>6, <1>10, <1>11 DEF ReviewInv, AllHonest, Honest
<1>14. ASSUME NEW w \in Versions, w # v PROVE Honest(w)'
  BY <1>11, <1>12, <1>14, HonestStays DEF ReviewInv, AllHonest
<1>15. AllHonest'
  BY <1>13, <1>14 DEF AllHonest
<1>16. Fits(e)'
  BY <1>3, <1>4, <1>6, BystanderFits
<1>. QED
  BY <1>3, <1>4, <1>5, <1>6, <1>11, <1>12, <1>15, <1>16, StandingStep DEF ReviewInv, Typed
-------------------------------------------------------------------------------
(* Trials and the decision. *)

(* A trial that is run, or that the content does not allow.                *)
LEMMA TrialStep ==
  ASSUME ReviewInv, NEW s \in Reviewers, Untried(s) \/ RunTrial(s)
  PROVE  ReviewInv'
<1>1. PICK pc \in {"decide", "over", "note"} : Goes(s, pc)
  BY DEF Untried, RunTrial, AfterTrial
<1>2. /\ session[s].pc = "trial"
      /\ UNCHANGED <<kind, settings, gv, content, copies, deleted, landed, granted, proven, crossed>>
  BY DEF Untried, RunTrial, At, Untouched, target, history
<1>3. PICK e \in Sessions : Moved(s, e) /\ e.pc = pc /\ e.v = session[s].v /\ e.by = session[s].by
  BY <1>1, GoesTo DEF ReviewInv, Pcs
<1>4. Fits(e)'
  BY <1>2, <1>3, BystanderFits DEF ReviewInv, AllFit, Fits
<1>5. Quiet(s, e)
  BY <1>2, <1>3 DEF Quiet, ReviewInv, Typed
<1>. QED
  BY <1>4, <1>5, QuietStep

(* The result of a trial is noted: a version passed has proof.             *)
LEMMA MarkStep ==
  ASSUME ReviewInv, NEW s \in Reviewers, MarkTrial(s)
  PROVE  ReviewInv'
<1>1. PICK result \in {"failed", "passed"} :
        /\ gv' = [gv EXCEPT ![V(s)] = [@ EXCEPT !.trial = result]]
        /\ proven' = IF result = "passed" THEN proven \cup {V(s)} ELSE proven
  BY DEF MarkTrial
<1>2. PICK pc \in {"decide", "over"} : Goes(s, pc)
  BY DEF MarkTrial, AfterTrial
<1>3. /\ session[s].pc = "note"
      /\ UNCHANGED <<kind, settings, content, copies, deleted, landed, granted, crossed>>
  BY DEF MarkTrial, At, Untouched, target
<1>4. PICK e \in Sessions : Moved(s, e) /\ e.pc = pc /\ e.v = session[s].v /\ e.by = session[s].by
  BY <1>2, GoesTo DEF ReviewInv, Pcs
<1>5. PICK v \in Versions : v = V(s)
  BY <1>3 DEF V, ReviewInv, AllFit, Fits
<1>6. gv \in [Versions -> Generations] /\ proven \subseteq Versions
  BY DEF ReviewInv, Typed
<1>7. PICK g : g = [gv[v] EXCEPT !.trial = result]
  OBVIOUS
<1>8. /\ g \in Generations /\ g.grade = gv[v].grade /\ g.usable = gv[v].usable /\ g.trial = result
      /\ g.status = gv[v].status /\ g.by = gv[v].by
  BY <1>6, <1>7 DEF Generations
<1>9. /\ gv' \in [Versions -> Generations] /\ gv'[v] = g
      /\ \A w \in Versions : w # v => gv'[w] = gv[w]
  BY <1>1, <1>5, <1>6, <1>7, <1>8
<1>10. Grows
  BY <1>1, <1>3, <1>8, <1>9 DEF ReviewInv, Typed, Grows
<1>11. Honest(v)'
  <2>1. Honest(v)
    BY DEF ReviewInv, AllHonest
  <2>2. result = "passed" => v \in proven'
    BY <1>1, <1>5
  <2>3. /\ Evident(v) => Evident(v)'
        /\ NotEmpty(v) => NotEmpty(v)'
        /\ \A x : Landed(v, x) => Landed(v, x)'
    BY <1>10, EvidenceStays
  <2>4. /\ gv'[v].by = "system" => Evident(v)'
        /\ gv'[v].trial = "passed" => v \in proven'
    BY <1>8, <1>9, <2>1, <2>2, <2>3 DEF Honest
  <2>5. gv'[v].status = "accepted" /\ kind' # "chat_suggestion" =>
          (deleted' \/ copies' > 1 \/ \E x \in {0, 1} : Landed(v, x)') /\ NotEmpty(v)'
    BY <1>3, <1>8, <1>9, <2>1, <2>3 DEF Honest
  <2>. QED
    BY <2>4, <2>5 DEF Honest
<1>12. ASSUME NEW w \in Versions, w # v PROVE Honest(w)'
  BY <1>9, <1>10, <1>12, HonestStays DEF ReviewInv, AllHonest
<1>13. AllHonest'
  BY <1>11, <1>12 DEF AllHonest
<1>14. Fits(e)'
  BY <1>3, <1>4, BystanderFits DEF ReviewInv, AllFit, Fits
<1>15. proven' \subseteq Versions
  BY <1>1, <1>5, <1>6
<1>. QED
  BY <1>3, <1>4, <1>9, <1>10, <1>13, <1>14, <1>15, StandingStep

(* What gate 0 refuses has a confidence of 40 % at the most.               *)
LEMMA SoundOrDoubted ==
  ASSUME ReviewInv, NEW v \in Versions, Confidence(gv[v].grade) >= MinConfidence, MinConfidence > 40
  PROVE  gv[v].grade.gate0
<1>1. gv[v].grade \in Verdicts
  BY DEF ReviewInv, Typed, Generations
<1>2. VoteRate(gv[v].grade) \in {50, 100}
  BY <1>1 DEF VoteRate, Verdicts
<1>3. (30 * VoteRate(gv[v].grade)) \div 100 \in {15, 30}
  BY <1>2
<1>4. ~ gv[v].grade.gate0 => Confidence(gv[v].grade) <= 40
  BY <1>3 DEF Confidence
<1>5. MinConfidence \in Nat /\ (~ gv[v].grade.gate0 => Confidence(gv[v].grade) \in Nat)
  BY <1>3, ReviewAssumption DEF Confidence
<1>. QED
  BY <1>4, <1>5

(* decide_auto_review goes on to apply on evidence only.                   *)
LEMMA DecideStep ==
  ASSUME ReviewInv, NEW s \in Reviewers, Decide(s)
  PROVE  ReviewInv'
<1>1. PICK pc \in {"load", "over"} : Goes(s, pc) /\ (pc = "load" <=> Decides(V(s)))
  BY DEF Decide
<1>2. /\ session[s].pc = "decide"
      /\ UNCHANGED <<kind, settings, gv, content, copies, deleted, landed, proven, crossed>>
      /\ granted' = IF Decides(V(s)) THEN granted \cup {<<V(s), p>> : p \in Suggests[V(s)]} ELSE granted
  BY DEF Decide, At, Untouched, target
<1>3. PICK e \in Sessions :
        /\ Moved(s, e) /\ e.pc = pc /\ e.v = session[s].v /\ e.by = session[s].by
        /\ e.chosen = session[s].chosen
  BY <1>1, GoesTo DEF ReviewInv, Pcs
<1>4. V(s) \in Versions /\ e.v = V(s) /\ (e.by = "system" => kind = "scenario")
  BY <1>2, <1>3 DEF V, ReviewInv, AllFit, Fits
<1>5. Suggests[V(s)] \in SUBSET Parts /\ Picked(e) \subseteq Suggests[V(s)]
  BY <1>4, SuggestsAre DEF Picked
<1>6. Quiet(s, e)
  <2>1. granted \subseteq granted' /\ granted' \subseteq Versions \X Parts
    BY <1>2, <1>4, <1>5 DEF ReviewInv, Typed
  <2>. QED
    BY <1>1, <1>2, <1>3, <2>1 DEF Quiet, ReviewInv, Typed
<1>7. CASE pc = "over"
  <2>1. Fits(e)'
    BY <1>2, <1>3, <1>4, <1>7, BystanderFits
  <2>. QED
    BY <1>6, <2>1, QuietStep
<1>8. CASE pc = "load"
  <2>1. Decides(V(s))
    BY <1>1, <1>8
  <2>2. e.by = "system" => Evident(e.v)'
    <3>1. Evident(V(s)) \/ kind # "scenario"
      BY <1>4, <2>1, SoundOrDoubted DEF Decides, Trustworthy, Evident, ReviewInv, AllHonest, Honest
    <3>. QED
      BY <1>2, <1>4, <3>1 DEF Evident
  <2>3. \A p \in Picked(e)' : <<e.v, p>> \in granted'
    <3>1. Picked(e)' = Picked(e)
      BY <1>2 DEF Picked
    <3>. QED
      BY <1>2, <1>4, <1>5, <2>1, <3>1
  <2>4. Fits(e)'
    BY <1>2, <1>3, <1>4, <1>8, <2>2, <2>3 DEF Fits
  <2>. QED
    BY <1>6, <2>4, QuietStep
<1>. QED
  BY <1>7, <1>8
-------------------------------------------------------------------------------
(* Applying. *)

(* An entry of which only the named fields are given anew. *)
Anew(d, pc, rev, seen, left) ==
  [pc |-> pc, v |-> d.v, by |-> d.by, chosen |-> d.chosen, rev |-> rev, seen |-> seen, left |-> left]
LEMMA EntryIs ==
  ASSUME NEW d \in Sessions, NEW pc \in Pcs, NEW rev \in {0, 1},
         NEW seen \in [copies : Nat, content : {<<>>} \cup Fields], NEW left \in SUBSET Parts,
         NEW e, e = Anew(d, pc, rev, seen, left)
  PROVE  /\ e \in Sessions
         /\ e.pc = pc /\ e.v = d.v /\ e.by = d.by /\ e.chosen = d.chosen
         /\ e.rev = rev /\ e.seen = seen /\ e.left = left
BY DEF Anew, Sessions

(* apply_version loads the version and chooses what to apply.              *)
LEMMA LoadStep ==
  ASSUME ReviewInv, NEW s \in Reviewers, Load(s)
  PROVE  ReviewInv'
<1>1. PICK d \in Sessions : d = session[s] /\ d.pc = "load" /\ d.v \in Versions /\ Fits(d) /\ d.v = V(s)
  BY DEF Load, At, V, ReviewInv, Typed, AllFit, Fits
<1>2. PICK pc : pc = IF Nothing(s) THEN "over"
                      ELSE IF kind \in Lists /\ ItemsOf(s) # {} THEN "insert"
                      ELSE IF kind \in Lists \cup {"chat_suggestion"} THEN "close"
                      ELSE IF Merges(s) THEN "read" ELSE "write"
  OBVIOUS
<1>3. PICK e : e = [d EXCEPT !.rev = gv[d.v].rev, !.left = ItemsOf(s), !.pc = pc]
  OBVIOUS
<1>4. Moved(s, e)
  <2>1. session' = [session EXCEPT ![s].rev = gv[V(s)].rev, ![s].left = ItemsOf(s), ![s].pc = pc]
    BY ONLY <1>2, Load(s), Zenon DEF Load
  <2>2. session' = [session EXCEPT ![s] = [@ EXCEPT !.rev = gv[V(s)].rev, !.left = ItemsOf(s), !.pc = pc]]
    BY ONLY <2>1
  <2>. QED
    BY <1>1, <1>3, <2>2 DEF Moved
<1>5. /\ Used(s) = Picked(d) /\ Picked(d) \in SUBSET Parts
      /\ UsableParts(d.v) \in SUBSET Parts /\ Picked(d) \subseteq UsableParts(d.v)
      /\ d.chosen = {} => Picked(d) = UsableParts(d.v)
  BY <1>1, SuggestsAre DEF Used, Chosen, ChosenOnly, Whole, Picked, UsableParts
<1>6. ItemsOf(s) \in SUBSET Parts /\ (kind = "monitor" => ItemsOf(s) = Picked(d))
      /\ (d.chosen = {} => ItemsOf(s) = UsableParts(d.v))
  BY <1>1, <1>5 DEF ItemsOf, UsableParts
<1>7. Merges(s) <=> MergesFor(d)
  BY <1>1 DEF Merges, MergesFor, Whole
<1>8. /\ pc \in {"over", "close", "insert", "read", "write"}
      /\ pc = "close" => kind \in Lists \cup {"chat_suggestion"}
      /\ pc = "close" /\ kind # "chat_suggestion" => ItemsOf(s) = {}
      /\ pc = "insert" => kind \in Lists
      /\ pc = "read" => MergesFor(d)
      /\ pc = "write" => ~ MergesFor(d)
      /\ pc # "over" => ~ Nothing(s)
  BY <1>2, <1>7
<1>20. pc # "over" => NotEmpty(d.v)
  BY <1>5, <1>8 DEF Nothing, NotEmpty
<1>9. gv[d.v].rev \in {0, 1}
  BY <1>1 DEF ReviewInv, Typed, Generations
<1>10. /\ e \in Sessions /\ e.pc = pc /\ e.v = d.v /\ e.by = d.by /\ e.chosen = d.chosen
       /\ e.rev = gv[d.v].rev /\ e.left = ItemsOf(s)
  BY <1>3, <1>6, <1>8, <1>9 DEF Sessions, Pcs
<1>11. UNCHANGED <<kind, settings, gv, content, copies, deleted, landed, granted, proven, crossed>>
  BY DEF Load, Untouched, target, history
<1>12. Picked(e) = Picked(d) /\ (MergesFor(e) <=> MergesFor(d))
  BY <1>10 DEF Picked, MergesFor
<1>13. e.by = "system" => kind = "scenario" /\ Evident(e.v)
  BY <1>1, <1>10 DEF Fits
<1>14. kind \notin {"scenario", "scenarios"} => \A p \in Picked(e) : <<e.v, p>> \in granted
  BY <1>1, <1>10, <1>12 DEF Fits
<1>15. Fits(e)
  <2>1. pc = "insert" => (kind = "monitor" => e.left \subseteq Picked(e))
                          /\ (e.chosen = {} => UsableParts(e.v) \ e.left = {})
    BY <1>6, <1>10, <1>12
  <2>2. pc = "close" /\ e.chosen = {} /\ kind # "chat_suggestion" => Landed(e.v, e.rev)
    BY <1>6, <1>8, <1>10 DEF Landed
  <2>3. pc # "over" => NotEmpty(e.v)
    BY <1>10, <1>20
  <2>. QED
    BY <1>1, <1>8, <1>10, <1>12, <1>13, <1>14, <2>1, <2>2, <2>3 DEF Fits
<1>16. Grows
  BY <1>11 DEF ReviewInv, Typed, Grows
<1>17. Fits(e)'
  BY <1>10, <1>15, <1>16, FitsStays DEF ReviewInv
<1>18. e.pc = "write" => kind # "data_template"
  BY <1>8, <1>10 DEF MergesFor
<1>19. Quiet(s, e)
  BY <1>4, <1>11, <1>18 DEF Quiet, ReviewInv, Typed
<1>. QED
  BY <1>10, <1>17, <1>19, QuietStep

(* A request that breaks off leaves what it did.                           *)
LEMMA BreakStep ==
  ASSUME ReviewInv, NEW s \in Reviewers, BreakOff(s)
  PROVE  ReviewInv'
<1>1. Goes(s, "over") /\ session[s].pc # "free"
  BY DEF BreakOff, StopAtItem, At
<1>2. UNCHANGED <<kind, settings, gv, content, copies, deleted, landed, granted, proven, crossed>>
  BY DEF BreakOff, Untouched, target, history
<1>3. PICK e \in Sessions : Moved(s, e) /\ e.pc = "over" /\ e.v = session[s].v /\ e.by = session[s].by
  BY <1>1, GoesTo DEF ReviewInv, Pcs
<1>4. Fits(e)'
  BY <1>1, <1>2, <1>3, BystanderFits DEF ReviewInv, AllFit, Fits
<1>5. Quiet(s, e)
  BY <1>2, <1>3 DEF Quiet, ReviewInv, Typed
<1>. QED
  BY <1>4, <1>5, QuietStep

(* The last two steps of apply_version touch no version.                   *)
LEMMA TellStep ==
  ASSUME ReviewInv, NEW s \in Reviewers, TellApi(s) \/ Trigger(s)
  PROVE  ReviewInv'
<1>1. PICK pc \in {"trigger", "over", "done"} : Goes(s, pc)
  BY DEF TellApi, Trigger
<1>2. /\ session[s].pc # "free"
      /\ UNCHANGED <<kind, settings, gv, content, copies, deleted, landed, granted, proven, crossed>>
  BY DEF TellApi, Trigger, At, Untouched, history
<1>3. PICK e \in Sessions : Moved(s, e) /\ e.pc = pc /\ e.v = session[s].v /\ e.by = session[s].by
  BY <1>1, GoesTo DEF ReviewInv, Pcs
<1>4. Fits(e)'
  BY <1>2, <1>3, BystanderFits DEF ReviewInv, AllFit, Fits
<1>5. Quiet(s, e)
  BY <1>2, <1>3 DEF Quiet, ReviewInv, Typed
<1>. QED
  BY <1>4, <1>5, QuietStep

(* Who calls a version accepted has applied it.                            *)
LEMMA CloseStep ==
  ASSUME ReviewInv, NEW s \in Reviewers, Close(s)
  PROVE  ReviewInv'
<1>1. PICK d \in Sessions : d = session[s] /\ d.pc = "close" /\ d.v \in Versions /\ Fits(d)
  BY DEF Close, At, ReviewInv, Typed, AllFit, Fits
<1>2. PICK standing \in {"accepted", "partially_accepted"} :
        /\ standing = "accepted" => d.chosen = {}
        /\ gv' = [gv EXCEPT ![d.v] = [@ EXCEPT !.status = standing, !.by = d.by]]
  <2>1. gv' = [gv EXCEPT ![d.v] = [@ EXCEPT !.status = IF d.chosen = {} THEN "accepted"
                                                         ELSE "partially_accepted", !.by = d.by]]
    BY <1>1 DEF Close, V, Whole
  <2>. QED
    BY <2>1
<1>3. Goes(s, "tell") /\ UNCHANGED <<kind, settings, content, copies, deleted, landed, granted, proven, crossed>>
  BY DEF Close, Untouched, target, history
<1>4. PICK e \in Sessions : Moved(s, e) /\ e.pc = "tell" /\ e.v = d.v /\ e.by = d.by
  BY <1>1, <1>3, GoesTo DEF ReviewInv, Pcs
<1>5. gv \in [Versions -> Generations] /\ d.by \in {"human", "system"} /\ d.rev \in {0, 1}
  BY <1>1 DEF ReviewInv, Typed, Sessions
<1>6. PICK g : g = [gv[d.v] EXCEPT !.status = standing, !.by = d.by]
  OBVIOUS
<1>7. /\ g \in Generations /\ g.grade = gv[d.v].grade /\ g.usable = gv[d.v].usable /\ g.trial = gv[d.v].trial
      /\ g.status = standing /\ g.by = d.by
  <2>1. gv[d.v] \in Generations
    BY <1>1, <1>5
  <2>. QED
    BY <1>2, <1>5, <1>6, <2>1 DEF Generations
<1>8. /\ gv' \in [Versions -> Generations] /\ gv'[d.v] = g
      /\ \A w \in Versions : w # d.v => gv'[w] = gv[w]
  BY <1>1, <1>2, <1>5, <1>6, <1>7
<1>9. Grows
  BY <1>3, <1>7, <1>8 DEF ReviewInv, Typed, Grows
<1>10. Honest(d.v)'
  <2>1. gv'[d.v].trial = "passed" => d.v \in proven'
    BY <1>1, <1>3, <1>7, <1>8 DEF ReviewInv, AllHonest, Honest
  <2>2. d.by = "system" => Evident(d.v)'
    BY <1>1, <1>9, EvidenceStays DEF Fits
  <2>3. /\ standing = "accepted" /\ kind # "chat_suggestion" =>
             deleted \/ copies > 1 \/ Landed(d.v, d.rev)
        /\ NotEmpty(d.v)
    BY <1>1, <1>2 DEF Fits
  <2>4. (Landed(d.v, d.rev) => Landed(d.v, d.rev)') /\ (NotEmpty(d.v) => NotEmpty(d.v)')
    BY <1>1, <1>9, EvidenceStays
  <2>. QED
    BY <1>3, <1>5, <1>7, <1>8, <2>1, <2>2, <2>3, <2>4 DEF Honest
<1>11. ASSUME NEW w \in Versions, w # d.v PROVE Honest(w)'
  BY <1>8, <1>9, <1>11, HonestStays DEF ReviewInv, AllHonest
<1>12. AllHonest'
  BY <1>10, <1>11 DEF AllHonest
<1>13. Fits(e)'
  BY <1>1, <1>3, <1>4, BystanderFits DEF Fits
<1>. QED
  BY <1>3, <1>4, <1>8, <1>9, <1>12, <1>13, StandingStep DEF ReviewInv, Typed

(* What a merging request reads is the target as it is.                    *)
LEMMA ReadStep ==
  ASSUME ReviewInv, NEW s \in Reviewers, Read(s)
  PROVE  ReviewInv'
<1>1. PICK d \in Sessions : d = session[s] /\ d.pc = "read" /\ d.v \in Versions /\ Fits(d)
  BY DEF Read, At, ReviewInv, Typed, AllFit, Fits
<1>2. PICK e : e = [d EXCEPT !.pc = "write", !.seen = [copies |-> copies, content |-> content]]
  OBVIOUS
<1>3. Moved(s, e)
  <2>1. session' = [session EXCEPT ![s] = [@ EXCEPT !.pc = "write",
                                              !.seen = [copies |-> copies, content |-> content]]]
    BY DEF Read
  <2>. QED
    BY <1>1, <1>2, <2>1 DEF Moved
<1>4. /\ UNCHANGED <<kind, settings, gv, content, copies, deleted, landed, granted, proven>>
      /\ crossed' = (crossed \/ \E t \in Reviewers \ {s} : At(t, "write"))
  BY DEF Read, Untouched, target
<1>5. copies \in Nat /\ content \in Fields
  BY DEF ReviewInv, Typed
<1>6. /\ e \in Sessions /\ e.pc = "write" /\ e.v = d.v /\ e.by = d.by /\ e.chosen = d.chosen
      /\ e.seen = [copies |-> copies, content |-> content]
  BY <1>1, <1>2, <1>5 DEF Sessions, Pcs
<1>7. Grows
  BY <1>4, <1>5 DEF ReviewInv, Typed, Grows
<1>8. Picked(e) = Picked(d)
  BY <1>6 DEF Picked
<1>10. Fits(e)
  BY <1>1, <1>5, <1>6, <1>8 DEF Fits
<1>11. Fits(e)'
  BY <1>6, <1>7, <1>10, FitsStays DEF ReviewInv
<1>12. /\ session' \in [Reviewers -> Sessions] /\ AllFit'
       /\ session'[s] = e /\ \A t \in Reviewers : t # s => session'[t] = session[t]
  BY <1>3, <1>6, <1>7, <1>11, OthersFit DEF ReviewInv
<1>13. Typed'
  BY <1>4, <1>12 DEF ReviewInv, Typed
<1>14. AllHonest'
  BY <1>4, <1>7, HonestStays DEF ReviewInv, AllHonest
<1>15. OnlyChosenLands'
  BY <1>4 DEF ReviewInv, OnlyChosenLands
<1>16. TargetInv'
  BY <1>4 DEF ReviewInv, TargetInv
<1>17. Alone'
  <2> SUFFICES ASSUME kind = "data_template", ~ crossed', ~ deleted, NEW t \in Reviewers, At(t, "write")'
               PROVE  /\ session'[t].seen = [copies |-> copies, content |-> content]
                      /\ \A u \in Reviewers : At(u, "write")' => u = t
    BY <1>4 DEF Alone
  <2>1. \A u \in Reviewers : At(u, "write")' => u = s
    BY <1>4, <1>12 DEF At
  <2>. QED
    BY <1>6, <1>12, <2>1
<1>. QED
  BY <1>12, <1>13, <1>14, <1>15, <1>16, <1>17 DEF ReviewInv

(* An item is inserted: one less to go, one more that landed.              *)
LEMMA InsertStep ==
  ASSUME ReviewInv, NEW s \in Reviewers, InsertItem(s)
  PROVE  ReviewInv'
<1>1. PICK d \in Sessions : d = session[s] /\ d.pc = "insert" /\ d.v \in Versions /\ Fits(d)
                            /\ d.v = V(s)
  BY DEF InsertItem, At, V, ReviewInv, Typed, AllFit, Fits
<1>2. PICK p \in d.left :
        /\ landed' = landed \cup {<<d.v, d.rev, p>>}
        /\ session' = [session EXCEPT ![s].left = @ \ {p}, ![s].pc = AfterItem(s, p)]
  BY <1>1 DEF InsertItem
<1>3. PICK pc \in {"close", "insert"} : pc = AfterItem(s, p) /\ (pc = "close" => d.left = {p})
  BY <1>1 DEF AfterItem
<1>4. PICK e : e = [d EXCEPT !.left = d.left \ {p}, !.pc = pc]
  OBVIOUS
<1>5. Moved(s, e)
  <2>1. session' = [session EXCEPT ![s].left = @ \ {p}, ![s].pc = pc]
    BY ONLY <1>2, <1>3
  <2>2. session' = [session EXCEPT ![s] = [session[s] EXCEPT !.left = session[s].left \ {p}, !.pc = pc]]
    BY ONLY <2>1
  <2>. QED
    BY <1>1, <1>4, <2>2 DEF Moved
<1>6. UNCHANGED <<kind, settings, gv, content, copies, deleted, granted, proven, crossed>>
  BY DEF InsertItem, Untouched
<1>7. /\ e \in Sessions /\ e.pc = pc /\ e.v = d.v /\ e.by = d.by /\ e.chosen = d.chosen
      /\ e.rev = d.rev /\ e.left = d.left \ {p} /\ p \in Parts /\ d.rev \in {0, 1}
  BY <1>1, <1>2, <1>3, <1>4 DEF Sessions, Pcs
<1>8. landed' \subseteq Versions \X {0, 1} \X Parts
  BY <1>1, <1>2, <1>7 DEF ReviewInv, Typed
<1>9. Grows
  BY <1>2, <1>6 DEF ReviewInv, Typed, Grows
<1>10. kind \in Lists /\ kind # "data_template"
  BY <1>1 DEF Fits, Lists
<1>11. Picked(e) = Picked(d)
  BY <1>7 DEF Picked
<1>12. d.chosen = {} => \A q \in UsableParts(d.v) \ (d.left \ {p}) : <<d.v, d.rev, q>> \in landed'
  <2> SUFFICES ASSUME d.chosen = {}, NEW q \in UsableParts(d.v), q \notin d.left \ {p}
               PROVE  <<d.v, d.rev, q>> \in landed'
    OBVIOUS
  <2>1. CASE q = p
    BY <1>2, <2>1
  <2>2. CASE q # p
    BY <1>1, <1>2, <2>2 DEF Fits
  <2>. QED
    BY <2>1, <2>2
<1>23. /\ UsableParts(d.v)' = UsableParts(d.v) /\ NotEmpty(d.v)' /\ Picked(e)' = Picked(e)
       /\ MergesFor(e)' <=> MergesFor(e)
  BY <1>1, <1>6, <1>7, <1>9, EvidenceStays DEF Fits, Picked, MergesFor
<1>13. pc = "close" /\ d.chosen = {} => Landed(d.v, d.rev)'
  BY <1>2, <1>3, <1>12, <1>23 DEF Landed
<1>14. d.by = "system" => kind = "scenario" /\ Evident(d.v)'
  BY <1>1, <1>9, EvidenceStays DEF Fits
<1>15. kind \notin {"scenario", "scenarios"} => \A q \in Picked(e) : <<d.v, q>> \in granted
  BY <1>1, <1>11 DEF Fits
<1>16. kind = "monitor" => p \in Picked(d) /\ e.left \subseteq Picked(e)
  BY <1>1, <1>7, <1>11 DEF Fits
<1>17. Fits(e)'
  BY <1>1, <1>2, <1>6, <1>7, <1>10, <1>12, <1>13, <1>14, <1>15, <1>16, <1>23 DEF Fits
<1>18. /\ session' \in [Reviewers -> Sessions] /\ AllFit'
  BY <1>5, <1>7, <1>9, <1>17, OthersFit DEF ReviewInv
<1>19. Typed'
  BY <1>6, <1>8, <1>18 DEF ReviewInv, Typed
<1>20. AllHonest'
  BY <1>6, <1>9, HonestStays DEF ReviewInv, AllHonest
<1>21. OnlyChosenLands'
  <2> SUFFICES ASSUME kind \notin {"scenario", "scenarios"}, NEW x \in landed'
               PROVE  <<x[1], x[3]>> \in granted
    BY <1>6 DEF OnlyChosenLands
  <2>1. CASE x \in landed
    BY <2>1 DEF ReviewInv, OnlyChosenLands
  <2>2. CASE x = <<d.v, d.rev, p>>
    <3>1. kind = "monitor"
      BY <1>10 DEF Lists
    <3>. QED
      BY <1>11, <1>15, <1>16, <2>2, <3>1
  <2>. QED
    BY <1>2, <2>1, <2>2
<1>22. TargetInv' /\ Alone'
  <2>1. copies # 0 \/ deleted
    BY <1>10 DEF ReviewInv, TargetInv
  <2>. QED
    BY <1>6, <1>10, <2>1 DEF TargetInv, Alone
<1>. QED
  BY <1>18, <1>19, <1>20, <1>21, <1>22 DEF ReviewInv

(* A document, a template or the rules are written.                        *)
LEMMA WriteStep ==
  ASSUME ReviewInv, NEW s \in Reviewers, Write(s)
  PROVE  ReviewInv'
<1>1. PICK d \in Sessions : d = session[s] /\ d.pc = "write" /\ d.v \in Versions /\ Fits(d)
                            /\ d.v = V(s)
  BY DEF Write, At, V, ReviewInv, Typed, AllFit, Fits
<1>2. /\ Merges(s) <=> MergesFor(d)
      /\ Used(s) = Picked(d) /\ Picked(d) \in SUBSET Parts
      /\ d.chosen = {} => Picked(d) = UsableParts(d.v)
  BY <1>1, SuggestsAre DEF Merges, MergesFor, Whole, Used, Chosen, ChosenOnly, Picked, UsableParts
<1>24. PICK again \in BOOLEAN : again <=> kind = "data_template" /\ d.seen.copies = 0
  OBVIOUS
<1>25. PICK unseen \in BOOLEAN : unseen <=> IF again THEN copies > 0 ELSE copies = 0
  OBVIOUS
<1>3. /\ again <=> kind = "data_template" /\ d.seen.copies = 0
      /\ unseen <=> IF again THEN copies > 0 ELSE copies = 0
      /\ copies' = IF again THEN copies + 1 ELSE copies
      /\ content' = IF unseen THEN content ELSE NewContent(s)
      /\ landed' = IF unseen THEN landed ELSE landed \cup {<<d.v, d.rev, p>> : p \in Picked(d)}
  <2>1. /\ copies' = IF again THEN copies + 1 ELSE copies
        /\ content' = IF unseen THEN content ELSE NewContent(s)
        /\ landed' = IF unseen THEN landed
                     ELSE landed \cup {<<V(s), session[s].rev, p>> : p \in Used(s)}
    <3>1. CASE again
      BY <1>1, <1>24, <1>25, <3>1 DEF Write
    <3>2. CASE ~ again
      BY <1>1, <1>24, <1>25, <3>2 DEF Write
    <3>. QED
      BY <3>1, <3>2
  <2>. QED
    BY <1>1, <1>2, <1>24, <1>25, <2>1
<1>4. PICK e \in Sessions :
        /\ Moved(s, e) /\ e.pc = "close" /\ e.v = d.v /\ e.by = d.by /\ e.chosen = d.chosen
        /\ e.rev = d.rev
  <2>1. Goes(s, "close")
    BY DEF Write
  <2>. QED
    BY <1>1, <2>1, GoesTo DEF ReviewInv, Pcs
<1>5. /\ UNCHANGED <<kind, settings, gv, deleted, granted, proven>>
      /\ crossed' = (crossed \/ \E t \in Reviewers \ {s} : At(t, "write") /\ Merges(t))
  BY DEF Write, Untouched
<1>6. copies \in Nat /\ d.seen.copies \in Nat /\ d.rev \in {0, 1} /\ content \in Fields
  BY DEF ReviewInv, Typed, Sessions
<1>7. MergesFor(d) =>
        (deleted \/ d.seen.copies <= copies) /\ d.seen.content \in Fields
  BY <1>1 DEF Fits
<1>8. PICK base : /\ base \in Fields
                  /\ MergesFor(d) /\ d.seen.copies > 0 => base = d.seen.content
                  /\ ~ (MergesFor(d) /\ d.seen.copies > 0) => base = [p \in Parts |-> "absent"]
                  /\ base = Base(s)
  <2>1. [p \in Parts |-> "absent"] \in Fields
    BY DEF Fields
  <2>2. Base(s) = IF MergesFor(d) /\ d.seen.copies > 0 THEN d.seen.content
                  ELSE [p \in Parts |-> "absent"]
    BY <1>1, <1>2 DEF Base
  <2>. QED
    BY <1>7, <2>1, <2>2
<1>9. NewContent(s) = [p \in Parts |-> IF p \in Picked(d) THEN <<d.v, d.rev>> ELSE base[p]]
  BY <1>1, <1>2, <1>8 DEF NewContent
<1>10. content' \in Fields /\ copies' \in Nat /\ copies <= copies' /\ landed \subseteq landed'
  <2>1. <<d.v, d.rev>> \in Applied
    BY <1>1, <1>6 DEF Applied
  <2>2. NewContent(s) \in Fields
    BY <1>8, <1>9, <2>1 DEF Fields
  <2>. QED
    BY <1>3, <1>6, <2>2
<1>11. Grows
  BY <1>5, <1>10 DEF ReviewInv, Typed, Grows
<1>22. /\ \A r : Landed(d.v, r) <=> \A p \in UsableParts(d.v) : <<d.v, r, p>> \in landed
       /\ UsableParts(d.v)' = UsableParts(d.v) /\ NotEmpty(d.v)'
  BY <1>1, <1>11, EvidenceStays DEF Fits, Landed
<1>12. landed' \subseteq Versions \X {0, 1} \X Parts
  BY <1>1, <1>2, <1>3, <1>6 DEF ReviewInv, Typed
<1>13. d.chosen = {} => deleted' \/ copies' > 1 \/ Landed(d.v, d.rev)'
  <2>1. CASE unseen /\ again
    BY <1>3, <1>6, <2>1
  <2>2. CASE unseen /\ ~ again
    <3>1. copies = 0 /\ (kind = "data_template" => d.seen.copies > 0)
      BY <1>3, <1>6, <2>2
    <3>2. CASE kind = "data_template"
      BY <1>5, <1>6, <1>7, <3>1, <3>2 DEF MergesFor
    <3>3. CASE kind # "data_template"
      BY <1>5, <3>1, <3>3 DEF ReviewInv, TargetInv
    <3>. QED
      BY <3>2, <3>3
  <2>3. CASE ~ unseen
    BY <1>2, <1>3, <1>22, <2>3 DEF Landed
  <2>. QED
    BY <2>1, <2>2, <2>3
<1>14. d.by = "system" => kind = "scenario" /\ Evident(d.v)'
  BY <1>1, <1>11, EvidenceStays DEF Fits
<1>15. Fits(e)'
  BY <1>1, <1>4, <1>5, <1>13, <1>14, <1>22 DEF Fits
<1>16. /\ session' \in [Reviewers -> Sessions] /\ AllFit'
       /\ session'[s] = e /\ \A t \in Reviewers : t # s => session'[t] = session[t]
  BY <1>4, <1>11, <1>15, OthersFit DEF ReviewInv
<1>17. Typed'
  BY <1>5, <1>10, <1>12, <1>16 DEF ReviewInv, Typed
<1>18. AllHonest'
  BY <1>5, <1>11, HonestStays DEF ReviewInv, AllHonest
<1>19. OnlyChosenLands'
  <2> SUFFICES ASSUME kind \notin {"scenario", "scenarios"}, NEW x \in landed'
               PROVE  <<x[1], x[3]>> \in granted
    BY <1>5 DEF OnlyChosenLands
  <2>1. CASE x \in landed
    BY <2>1 DEF ReviewInv, OnlyChosenLands
  <2>2. ASSUME NEW p \in Picked(d), x = <<d.v, d.rev, p>> PROVE <<x[1], x[3]>> \in granted
    BY <1>1, <2>2 DEF Fits
  <2>. QED
    BY <1>3, <2>1, <2>2
<1>20. CASE kind = "data_template"
  <2>1. MergesFor(d) /\ (copies' # 0 \/ deleted)
    BY <1>3, <1>6, <1>7, <1>20 DEF MergesFor
  <2>3. ASSUME ~ crossed', ~ deleted, NEW x \in landed' PROVE content'[x[3]] \in Applied
    <3>1. ~ crossed /\ d.seen = [copies |-> copies, content |-> content]
      BY <1>1, <1>5, <1>20, <2>3 DEF ReviewInv, Alone, At
    <3>2. ~ unseen
      BY <1>3, <1>6, <1>20, <3>1
    <3>3. content' = [p \in Parts |-> IF p \in Picked(d) THEN <<d.v, d.rev>> ELSE base[p]]
      BY <1>3, <1>9, <3>2
    <3>4. <<d.v, d.rev>> \in Applied /\ x[3] \in Parts
      BY <1>1, <1>6, <1>12, <2>3 DEF Applied
    <3>5. CASE x[3] \in Picked(d)
      BY <3>3, <3>4, <3>5
    <3>6. CASE x[3] \notin Picked(d)
      <4>1. x \in landed
        BY <1>3, <2>3, <3>2, <3>6
      <4>2. copies # 0 /\ content[x[3]] \in Applied
        BY <1>20, <2>3, <3>1, <4>1 DEF ReviewInv, TargetInv
      <4>3. base = content
        BY <1>6, <1>8, <2>1, <3>1, <4>2
      <4>. QED
        BY <3>3, <3>4, <3>6, <4>2, <4>3
    <3>. QED
      BY <3>5, <3>6
  <2>4. Alone'
    <3>1. ASSUME ~ crossed', NEW t \in Reviewers PROVE ~ At(t, "write")'
      <4>1. CASE t = s
        BY <1>4, <1>16, <4>1 DEF At
      <4>2. CASE t # s
        BY <1>5, <1>16, <1>20, <3>1, <4>2 DEF At, Merges
      <4>. QED
        BY <4>1, <4>2
    <3>. QED
      BY <3>1 DEF Alone
  <2>5. TargetInv'
    BY <1>5, <1>20, <2>1, <2>3 DEF TargetInv
  <2>. QED
    BY <1>16, <1>17, <1>18, <1>19, <2>4, <2>5 DEF ReviewInv
<1>21. CASE kind # "data_template"
  <2>2. copies # 0 \/ deleted
    BY <1>21 DEF ReviewInv, TargetInv
  <2>3. copies' # 0 \/ deleted'
    BY <1>5, <1>6, <1>10, <2>2
  <2>1. TargetInv' /\ Alone'
    BY <1>5, <1>21, <2>3 DEF TargetInv, Alone
  <2>. QED
    BY <1>16, <1>17, <1>18, <1>19, <2>1 DEF ReviewInv
<1>. QED
  BY <1>20, <1>21
-------------------------------------------------------------------------------
(* The invariant. *)

(* The invariant at first.                                                 *)
LEMMA InitReview ==
  ASSUME Init
  PROVE  ReviewInv /\ TargetTyped
<1>1. PICK grade \in Grades, use \in Usables \cup {Suggests} :
        gv = [v \in Versions |-> [status |-> "pending_review", by |-> "none", rev |-> 0,
                                  usable |-> use[v], grade |-> grade[v], trial |-> "none"]]
  BY ReviewAssumption DEF Init
<1>2. grade \in [Versions -> Verdicts] /\ use \in [Versions -> SUBSET Parts]
  BY ReviewAssumption DEF Verdicts
<1>3. gv \in [Versions -> Generations]
  BY <1>1, <1>2 DEF Generations
<1>4. copies \in {0, 1} /\ content \in Fields /\ (content = [p \in Parts |-> "old"] \/ copies = 0)
  BY DEF Init, Fields
<1>5. session = [s \in Reviewers |-> Away] /\ landed = {} /\ granted = {} /\ proven = {}
      /\ crossed = FALSE /\ deleted = FALSE /\ kind \in Kinds /\ settings \in Settings
  BY ReviewAssumption DEF Init
<1>6. Typed
  <2>1. session \in [Reviewers -> Sessions]
    BY <1>5, AwayIs
  <2>2. copies \in Nat /\ proven \subseteq Versions
    BY <1>4, <1>5
  <2>3. crossed \in BOOLEAN /\ deleted \in BOOLEAN
    BY <1>5, Zenon
  <2>4. landed \subseteq Versions \X {0, 1} \X Parts /\ granted \subseteq Versions \X Parts
    BY <1>5
  <2>. QED
    BY <1>3, <1>4, <1>5, <2>1, <2>2, <2>3, <2>4 DEF Typed
<1>7. AllFit
  BY <1>5, AwayIs DEF AllFit, Fits
<1>8. AllHonest
  BY <1>1 DEF AllHonest, Honest
<1>9. OnlyChosenLands /\ TargetInv
  <2>1. copies = 0 => kind = "data_template"
    BY DEF Init
  <2>. QED
    BY <1>5, <2>1 DEF OnlyChosenLands, TargetInv
<1>10. Alone
  BY <1>5, AwayIs DEF Alone, At
<1>11. TargetTyped
  BY DEF Init, TargetTyped
<1>. QED
  BY <1>6, <1>7, <1>8, <1>9, <1>10, <1>11 DEF ReviewInv

(* What the edges and the knowledge do beside a review moves nothing of it.*)
LEMMA StandsStill ==
  ASSUME ReviewInv, UNCHANGED <<kind, settings, gv, content, copies, deleted, session, landed, granted, proven, crossed>>
  PROVE  ReviewInv'
<1>1. Typed'
  BY DEF ReviewInv, Typed
<1>2. Grows
  BY DEF ReviewInv, Typed, Grows
<1>3. ASSUME NEW s \in Reviewers PROVE Fits(session[s])'
  BY <1>2, FitsStays DEF ReviewInv, Typed, AllFit
<1>4. AllFit'
  BY <1>3 DEF AllFit
<1>5. AllHonest'
  BY <1>2, HonestStays DEF ReviewInv, AllHonest
<1>6. OnlyChosenLands'
  BY DEF ReviewInv, OnlyChosenLands
<1>7. TargetInv'
  BY DEF ReviewInv, TargetInv
<1>8. Alone'
  BY DEF ReviewInv, Alone, At
<1>. QED
  BY <1>1, <1>4, <1>5, <1>6, <1>7, <1>8 DEF ReviewInv

(* Whoever deletes the target takes back nothing that is said of it since. *)
LEMMA DeleteStep ==
  ASSUME ReviewInv, DeleteTarget
  PROVE  ReviewInv'
<1>1. /\ UNCHANGED <<kind, settings, gv, session, landed, granted, proven, crossed>>
      /\ copies' = 0 /\ content' = [p \in Parts |-> "absent"] /\ deleted' = TRUE
  BY DEF DeleteTarget, Untouched
<1>2. Typed'
  BY <1>1 DEF ReviewInv, Typed, Fields
<1>3. Grows
  BY <1>1 DEF ReviewInv, Typed, Grows
<1>4. ASSUME NEW s \in Reviewers PROVE Fits(session[s])'
  BY <1>1, <1>3, FitsStays DEF ReviewInv, Typed, AllFit
<1>5. AllFit'
  BY <1>4 DEF AllFit
<1>6. AllHonest'
  BY <1>1, <1>3, HonestStays DEF ReviewInv, AllHonest
<1>7. OnlyChosenLands' /\ TargetInv' /\ Alone'
  BY <1>1 DEF ReviewInv, OnlyChosenLands, TargetInv, Alone
<1>. QED
  BY <1>2, <1>5, <1>6, <1>7 DEF ReviewInv

(* The invariant in every step.                                            *)
LEMMA ReviewStep ==
  ASSUME ReviewInv, [Next]_vars
  PROVE  ReviewInv'
<1>1. CASE UNCHANGED vars
  BY <1>1, StandsStill DEF vars
<1>2. ASSUME NEW s \in Reviewers, NEW v \in Versions, Review(s, v) PROVE ReviewInv'
  <2>1. CASE Accept(s, v) \/ AcceptPartial(s, v) \/ EditAndAccept(s, v)
    BY <2>1, AcceptStep
  <2>2. CASE Reject(s, v) \/ BatchReject(s, v) \/ RejectSaying(s, v)
    BY <2>2, RejectStep DEF Reject, BatchReject, RejectSaying
  <2>3. CASE AutoReview(s, v) \/ AskTrial(s, v)
    BY <2>3, BeginsStep
  <2>. QED
    BY <1>2, <2>1, <2>2, <2>3 DEF Review
<1>3. ASSUME NEW s \in Reviewers, Untried(s) \/ RunTrial(s) \/ MarkTrial(s) \/ Decide(s)
      PROVE  ReviewInv'
  BY <1>3, TrialStep, MarkStep, DecideStep
<1>4. ASSUME NEW s \in Reviewers, Apply(s) PROVE ReviewInv'
  BY <1>4, LoadStep, ReadStep, WriteStep, InsertStep, BreakStep, CloseStep, TellStep DEF Apply
<1>5. ASSUME NEW t \in Tasks, DependencyWork(t) PROVE ReviewInv'
  BY <1>5, StandsStill DEF DependencyWork, target, history
<1>6. ASSUME NEW p \in Pupils, KnowledgeWork(p) PROVE ReviewInv'
  BY <1>6, StandsStill DEF KnowledgeWork, target, history
<1>7. CASE DeleteTarget
  BY <1>7, DeleteStep
<1>. QED
  BY <1>1, <1>2, <1>3, <1>4, <1>5, <1>6, <1>7 DEF Next

(* The parts of the invariant hold in every state that can be reached: a   *)
(* request applies only what was accepted, has applied what it says it     *)
(* has, and a version never says more of itself than is true.              *)
THEOREM ReviewInvariant == Spec => []ReviewInv
<1>1. Init => ReviewInv
  BY InitReview
<1>2. ReviewInv /\ [Next]_vars => ReviewInv'
  BY ReviewStep
<1>. QED
  BY <1>1, <1>2, PTL DEF Spec

(* Of what apply_version marked accepted every part that it could use      *)
(* reached the target, in one revision, whatever failed, crossed or was    *)
(* edited in between, and of fields and monitors there was one: unless the *)
(* target was deleted meanwhile, or a template was recreated twice.        *)
THEOREM WhatIsAcceptedIsApplied == Spec => []AcceptedIsApplied
<1>1. ReviewInv => AcceptedIsApplied
  <2> SUFFICES ASSUME ReviewInv, NEW v \in Versions, gv[v].status = "accepted",
                      kind # "chat_suggestion", copies <= 1, ~ deleted
               PROVE  /\ \E r \in {0, 1} : \A p \in UsableParts(v) : <<v, r, p>> \in landed
                      /\ kind \in {"data_template", "monitor"} => UsableParts(v) # {}
    BY DEF AcceptedIsApplied
  <2>1. copies \in Nat /\ Honest(v)
    BY DEF ReviewInv, Typed, AllHonest
  <2>. QED
    BY <2>1 DEF Honest, Landed, NotEmpty
<1>. QED
  BY <1>1, ReviewInvariant, PTL

(* A part of a version is in the target only if a request accepted it, by  *)
(* name or with the whole version.                                         *)
THEOREM NothingElseLands == Spec => []OnlyChosenLands
<1>1. ReviewInv => OnlyChosenLands
  BY DEF ReviewInv
<1>. QED
  BY <1>1, ReviewInvariant, PTL

(* What bears the name of the system is of low or medium risk, has passed  *)
(* a trial where the settings ask for one, and has a sound structure where *)
(* the confidence asked for is above 40 %.                                 *)
THEOREM TheSystemHasEvidence == Spec => []AutoHasEvidence
<1>1. ReviewInv => AutoHasEvidence
  BY DEF ReviewInv, AllHonest, Honest, Evident, AutoHasEvidence
<1>. QED
  BY <1>1, ReviewInvariant, PTL

(* Only a write or a deletion changes the content of the target.           *)
LEMMA ContentStays ==
  ASSUME [Next]_vars
  PROVE  UNCHANGED content \/ DeleteTarget \/ \E s \in Reviewers : Write(s)
<1>1. ASSUME NEW s \in Reviewers, NEW v \in Versions, Review(s, v) PROVE UNCHANGED content
  BY <1>1 DEF Review, Accept, AcceptPartial, EditAndAccept, Accepting, Reject, BatchReject,
              RejectSaying, Rejecting, AutoReview, AskTrial, Begins, target
<1>2. ASSUME NEW s \in Reviewers,
             Untried(s) \/ RunTrial(s) \/ MarkTrial(s) \/ Decide(s) \/ Load(s) \/ Read(s)
             \/ InsertItem(s) \/ BreakOff(s) \/ Close(s) \/ TellApi(s) \/ Trigger(s)
      PROVE  UNCHANGED content
  BY <1>2 DEF Untried, RunTrial, MarkTrial, Decide, Load, Read, InsertItem, BreakOff, Close, TellApi,
              Trigger, target
<1>3. (\E t \in Tasks : DependencyWork(t)) \/ (\E p \in Pupils : KnowledgeWork(p)) \/ UNCHANGED vars
      => UNCHANGED content
  BY DEF DependencyWork, KnowledgeWork, target, vars
<1>. QED
  BY <1>1, <1>2, <1>3 DEF Next, Apply

(* The versions under review are of one type throughout.                   *)
LEMMA KindStays ==
  ASSUME [Next]_vars
  PROVE  kind' = kind
<1>1. ASSUME NEW s \in Reviewers, NEW v \in Versions, Review(s, v) PROVE kind' = kind
  BY <1>1 DEF Review, Accept, AcceptPartial, EditAndAccept, Accepting, Reject, BatchReject,
              RejectSaying, Rejecting, AutoReview, AskTrial, Begins, Untouched
<1>2. ASSUME NEW s \in Reviewers, Untried(s) \/ RunTrial(s) \/ MarkTrial(s) \/ Decide(s) \/ Apply(s)
      PROVE  kind' = kind
  BY <1>2 DEF Untried, RunTrial, MarkTrial, Decide, Apply, Load, Read, Write, InsertItem, BreakOff,
              Close, TellApi, Trigger, Untouched
<1>3. (\E t \in Tasks : DependencyWork(t)) \/ (\E p \in Pupils : KnowledgeWork(p)) \/ UNCHANGED vars
      \/ DeleteTarget => kind' = kind
  BY DEF DependencyWork, KnowledgeWork, vars, DeleteTarget, Untouched
<1>. QED
  BY <1>1, <1>2, <1>3 DEF Next

(* A template that keeps one of its own fields keeps them all.  (That a    *)
(* pair is no string is no theorem of TLA+, hence the mention of Applied.) *)
KeepsFields(c) ==
  (\E p \in Parts : c[p] = "old" /\ c[p] \notin Applied) => \A p \in Parts : c[p] \in Applied \cup {"old"}
KeptInv ==
  kind = "data_template" =>
    KeepsFields(content) /\ \A s \in Reviewers : At(s, "write") => KeepsFields(session[s].seen.content)

(* A request that writes into a template had read it, now or before.       *)
LEMMA WritersHaveRead ==
  ASSUME ReviewInv, [Next]_vars, kind = "data_template", NEW t \in Reviewers, At(t, "write")'
  PROVE  session'[t] = session[t] \/ session'[t].seen.content = content
<1>1. session \in [Reviewers -> Sessions]
  BY DEF ReviewInv, Typed
<1>. DEFINE Others(s) == t # s => session'[t] = session[t]
<1>2. ASSUME NEW s \in Reviewers, NEW v \in Versions, Review(s, v) PROVE Others(s) /\ t # s
  <2>1. CASE Accept(s, v) \/ AcceptPartial(s, v) \/ EditAndAccept(s, v)
    <3>1. PICK w, chosen : session' = [session EXCEPT ![s].pc = "load", ![s].v = w, ![s].chosen = chosen]
      BY <2>1 DEF Accept, AcceptPartial, EditAndAccept, Accepting
    <3>. QED
      BY <1>1, <3>1 DEF At, Sessions
  <2>2. CASE Reject(s, v) \/ BatchReject(s, v) \/ RejectSaying(s, v)
    <3>1. session' = [session EXCEPT ![s].pc = "over", ![s].v = v]
      BY <2>2 DEF Reject, BatchReject, RejectSaying, Rejecting
    <3>. QED
      BY <1>1, <3>1 DEF At, Sessions
  <2>3. CASE AutoReview(s, v) \/ AskTrial(s, v)
    <3>1. PICK pc \in {"trial", "decide"}, by \in {"human", "system"} : Begins(s, v, pc, by)
      BY <2>3 DEF AutoReview, AskTrial
    <3>. QED
      BY <1>1, <3>1 DEF Begins, At
  <2>. QED
    BY <1>2, <2>1, <2>2, <2>3 DEF Review
<1>3. ASSUME NEW s \in Reviewers, NEW pc \in Pcs \ {"write"}, Goes(s, pc) PROVE Others(s) /\ t # s
  BY <1>1, <1>3 DEF Goes, At
<1>4. ASSUME NEW s \in Reviewers,
             Untried(s) \/ RunTrial(s) \/ MarkTrial(s) \/ Decide(s) \/ BreakOff(s) \/ Close(s)
             \/ TellApi(s) \/ Trigger(s) \/ Write(s)
      PROVE  Others(s) /\ t # s
  <2>1. PICK pc \in Pcs \ {"write"} : Goes(s, pc)
    BY <1>4 DEF Untried, RunTrial, MarkTrial, Decide, BreakOff, StopAtItem, Close, TellApi, Trigger,
                Write, AfterTrial, Pcs
  <2>. QED
    BY <1>3, <2>1
<1>5. ASSUME NEW s \in Reviewers, Load(s) PROVE Others(s) /\ t # s
  <2>1. PICK rev, left, pc :
          session' = [session EXCEPT ![s].rev = rev, ![s].left = left, ![s].pc = pc] /\ pc \in {"over", "read"}
    <3>1. kind = "data_template" /\ Merges(s) /\ kind \notin Lists /\ kind # "chat_suggestion"
      BY DEF Merges, Lists
    <3>2. CASE Nothing(s)
      BY <1>5, <3>2 DEF Load
    <3>3. CASE ~ Nothing(s)
      BY <1>5, <3>1, <3>3 DEF Load
    <3>. QED
      BY <3>2, <3>3
  <2>. QED
    BY <1>1, <2>1 DEF At
<1>6. ASSUME NEW s \in Reviewers, InsertItem(s) PROVE Others(s) /\ t # s
  <2>1. PICK left, pc :
          session' = [session EXCEPT ![s].left = left, ![s].pc = pc] /\ pc \in {"close", "insert"}
    BY <1>6 DEF InsertItem, AfterItem
  <2>. QED
    BY <1>1, <2>1 DEF At
<1>7. ASSUME NEW s \in Reviewers, Read(s) PROVE Others(s) /\ (t = s => session'[t].seen.content = content)
  BY <1>1, <1>7 DEF Read
<1>8. ASSUME UNCHANGED session PROVE session'[t] = session[t]
  BY <1>8
<1>9. (\E u \in Tasks : DependencyWork(u)) \/ (\E p \in Pupils : KnowledgeWork(p)) \/ UNCHANGED vars
      \/ DeleteTarget => UNCHANGED session
  BY DEF DependencyWork, KnowledgeWork, vars, DeleteTarget
<1>. QED
  BY <1>2, <1>4, <1>5, <1>6, <1>7, <1>8, <1>9 DEF Next, Apply

(* What is written is what was read, with the chosen fields in it.         *)
LEMMA MixedStep ==
  ASSUME ReviewInv, KeptInv, [Next]_vars
  PROVE  KeptInv'
<1> SUFFICES ASSUME kind = "data_template"
             PROVE  /\ KeepsFields(content)'
                    /\ \A s \in Reviewers : At(s, "write")' => KeepsFields(session[s].seen.content)'
  <2>1. kind' = kind
    BY KindStays
  <2>. QED
    BY <2>1 DEF KeptInv
<1>1. KeepsFields(content)'
  <2>1. CASE UNCHANGED content
    BY <2>1 DEF KeptInv, KeepsFields
  <2>2. ASSUME NEW s \in Reviewers, Write(s) PROVE KeepsFields(content)'
    <3>1. CASE content' = NewContent(s)
      <4>1. KeepsFields(session[s].seen.content)
        BY <2>2 DEF Write, KeptInv
      <4>2. \A p \in Parts : content'[p] = IF p \in Used(s) THEN <<V(s), session[s].rev>> ELSE Base(s)[p]
        BY <3>1 DEF NewContent
      <4>3. <<V(s), session[s].rev>> \in Applied
        BY <2>2 DEF Write, At, V, ReviewInv, Typed, Sessions, AllFit, Fits, Applied
      <4>4. KeepsFields(Base(s))
        <5>1. CASE Base(s) = session[s].seen.content
          BY <4>1, <5>1 DEF KeepsFields
        <5>2. CASE Base(s) = [p \in Parts |-> "absent"]
          BY <5>2 DEF KeepsFields
        <5>. QED
          BY <5>1, <5>2 DEF Base
      <4>. QED
        BY <4>2, <4>3, <4>4 DEF KeepsFields
    <3>. QED
      BY <2>1, <2>2, <3>1 DEF Write
  <2>3. UNCHANGED content \/ DeleteTarget \/ \E s \in Reviewers : Write(s)
    BY ContentStays
  <2>4. CASE DeleteTarget
    BY <2>4 DEF DeleteTarget, KeepsFields
  <2>. QED
    BY <2>1, <2>2, <2>3, <2>4
<1>2. ASSUME NEW s \in Reviewers, At(s, "write")' PROVE KeepsFields(session[s].seen.content)'
  <2>1. CASE session'[s] = session[s]
    BY <1>2, <2>1 DEF KeptInv, KeepsFields, At
  <2>2. CASE session'[s].seen.content = content
    BY <2>2 DEF KeptInv, KeepsFields
  <2>. QED
    BY <1>2, <2>1, <2>2, WritersHaveRead
<1>. QED
  BY <1>1, <1>2

(* What TemplateKeepsFields says. *)
FieldsAreKept ==
  kind = "data_template" =>
    KeepsFields(content) /\ (~ crossed /\ ~ deleted => \A x \in landed : content[x[3]] \in Versions \X {0, 1})
(* A template that keeps a field of its own has them all, and a field that *)
(* was accepted never falls back or vanishes, unless two requests merged at*)
(* once or somebody deleted it: whatever is accepted in part, edited or    *)
(* broken off.                                                             *)
THEOREM TemplatesKeepFields == Spec => []FieldsAreKept
<1>1. Init => ReviewInv /\ KeptInv
  <2>1. ASSUME Init PROVE KeptInv
    <3>1. \A s \in Reviewers : ~ At(s, "write")
      BY <2>1 DEF Init, At, Away
    <3>2. \E c \in {"old", "absent"} : content = [p \in Parts |-> c]
      BY <2>1 DEF Init
    <3>3. KeepsFields(content)
      BY <3>2 DEF KeepsFields
    <3>. QED
      BY <3>1, <3>3 DEF KeptInv
  <2>. QED
    BY <2>1, InitReview
<1>2. (ReviewInv /\ KeptInv) /\ [Next]_vars => (ReviewInv /\ KeptInv)'
  BY ReviewStep, MixedStep
<1>3. ReviewInv /\ KeptInv => FieldsAreKept
  BY DEF ReviewInv, TargetInv, Applied, KeptInv, FieldsAreKept
<1>. QED
  BY <1>1, <1>2, <1>3, PTL DEF Spec

(* What the target holds keeps to its type. *)
LEMMA TargetStep ==
  ASSUME ReviewInv, TargetTyped, [Next]_vars
  PROVE  TargetTyped'
<1>1. CASE UNCHANGED <<made, applied, pushed>>
  BY <1>1 DEF TargetTyped
<1>2. ASSUME NEW s \in Reviewers, InsertItem(s) PROVE TargetTyped'
  <2>1. PICK p \in session[s].left : made' = [made EXCEPT ![V(s)][p] = @ + 1]
    BY <1>2 DEF InsertItem
  <2>2. PICK v \in Versions : v = V(s)
    BY <1>2 DEF InsertItem, At, V, ReviewInv, AllFit, Fits
  <2>3. p \in Parts
    BY <2>1 DEF ReviewInv, Typed, Sessions
  <2>4. PICK m : m = [made[v] EXCEPT ![p] = @ + 1]
    OBVIOUS
  <2>5. m \in [Parts -> Nat]
    BY <2>3, <2>4 DEF TargetTyped
  <2>6. made' = [made EXCEPT ![v] = m]
    BY ONLY <2>1, <2>2, <2>4
  <2>7. made' \in [Versions -> [Parts -> Nat]]
    BY <2>5, <2>6 DEF TargetTyped
  <2>. QED
    BY <1>2, <2>7 DEF InsertItem, TargetTyped
<1>3. ASSUME NEW s \in Reviewers, TellApi(s) PROVE TargetTyped'
  <2>1. applied' \in BOOLEAN
    BY <1>3 DEF TellApi, TargetTyped
  <2>. QED
    BY <1>3, <2>1 DEF TellApi, TargetTyped
<1>4. ASSUME NEW s \in Reviewers, Trigger(s) PROVE TargetTyped'
  <2>1. V(s) \in Versions
    BY <1>4 DEF Trigger, At, V, ReviewInv, AllFit, Fits
  <2>2. Chain(kind) \subseteq {"data_template", "monitor"}
    BY DEF Chain
  <2>3. pushed' \subseteq Versions \X {"data_template", "monitor"}
    BY <1>4, <2>1, <2>2 DEF Trigger, TargetTyped
  <2>. QED
    BY <1>4, <2>3 DEF Trigger, TargetTyped
<1>5. ASSUME NEW s \in Reviewers, NEW v \in Versions, Review(s, v)
      PROVE  UNCHANGED <<made, applied, pushed>>
  BY <1>5 DEF Review, Accept, AcceptPartial, EditAndAccept, Accepting, Reject, BatchReject,
              RejectSaying, Rejecting, AutoReview, AskTrial, Begins, target
<1>6. ASSUME NEW s \in Reviewers,
             Untried(s) \/ RunTrial(s) \/ MarkTrial(s) \/ Decide(s) \/ Load(s) \/ Read(s)
             \/ Write(s) \/ BreakOff(s) \/ Close(s)
      PROVE  UNCHANGED <<made, applied, pushed>>
  BY <1>6 DEF Untried, RunTrial, MarkTrial, Decide, Load, Read, Write, BreakOff, Close, target
<1>7. ASSUME NEW t \in Tasks, DependencyWork(t) PROVE UNCHANGED <<made, applied, pushed>>
  BY <1>7 DEF DependencyWork, target
<1>8. ASSUME NEW p \in Pupils, KnowledgeWork(p) PROVE UNCHANGED <<made, applied, pushed>>
  BY <1>8 DEF KnowledgeWork, target
<1>9. UNCHANGED vars \/ DeleteTarget => UNCHANGED <<made, applied, pushed>>
  BY DEF vars, DeleteTarget
<1>. QED
  BY <1>1, <1>2, <1>3, <1>4, <1>5, <1>6, <1>7, <1>8, <1>9 DEF Next, Apply

(* The variables of the review keep to their types.                        *)
THEOREM TypeCorrect == Spec => []TypeOK
<1>1. Init => ReviewInv /\ TargetTyped
  BY InitReview
<1>2. (ReviewInv /\ TargetTyped) /\ [Next]_vars => (ReviewInv /\ TargetTyped)'
  BY ReviewStep, TargetStep
<1>3. ReviewInv /\ TargetTyped => TypeOK
  BY DEF ReviewInv, TypeOK
<1>. QED
  BY <1>1, <1>2, <1>3, PTL DEF Spec
-------------------------------------------------------------------------------
(* The edges. *)

Edges ==
  [status : {"candidate", "confirmed", "rejected"}, conf : Nat, obs : Nat,
   evidence : {"static", "dynamic", "none", "human"}]
Readings == [pair : Pairs, at : Nat, edge : Edges]
(* What a request read before it writes, or vouches for. *)
Founds == {<<x, <<>> >> : x \in Readings} \cup {<<x, <<e>> >> : x \in Readings, e \in Edges}
Job(r) ==
  /\ r = [pc |-> r.pc, kind |-> r.kind, todo |-> r.todo, found |-> r.found]
  /\ r.todo \subseteq Readings
  /\ r.pc = "write" => r.found \in Founds
  /\ r.pc = "vouch" => r.kind = "confirm" /\ r.found \in Pairs \X Nat
EdgesTyped == edges \in [Pairs -> Seq(Edges)]
TasksTyped == DOMAIN task = Tasks /\ \A t \in Tasks : Job(task[t])
EdgeInv == EdgesTyped /\ TasksTyped

(* The fields of an edge.                                                  *)
LEMMA EdgeIs ==
  ASSUME NEW status \in {"candidate", "confirmed", "rejected"}, NEW conf \in Nat, NEW obs \in Nat,
         NEW evidence \in {"static", "dynamic", "none", "human"},
         NEW e, e = Edge(status, conf, obs, evidence)
  PROVE  /\ e \in Edges /\ e.status = status /\ e.conf = conf /\ e.obs = obs /\ e.evidence = evidence
BY DEF Edge, Edges

(* One request goes on to its next entry. *)
LEMMA TaskMoves ==
  ASSUME TasksTyped, NEW t \in Tasks, NEW r, Job(r), task' = [task EXCEPT ![t] = r]
  PROVE  TasksTyped' /\ task'[t] = r
<1>1. DOMAIN task' = Tasks /\ task'[t] = r /\ \A u \in Tasks : u # t => task'[u] = task[u]
  BY DEF TasksTyped
<1>2. ASSUME NEW u \in Tasks PROVE Job(task[u])'
  <2>1. CASE u = t
    BY <1>1, <2>1
  <2>2. CASE u # t
    BY <1>1, <2>2 DEF TasksTyped
  <2>. QED
    BY <2>1, <2>2
<1>. QED
  BY <1>1, <1>2 DEF TasksTyped

(* One document is written anew, the others stay what they were. *)
Rewritten(p, i, e) == edges' = [edges EXCEPT ![p] = [edges[p] EXCEPT ![i] = e]]
LEMMA RewrittenIs ==
  ASSUME EdgesTyped, NEW p \in Pairs, NEW i, NEW e, i \in DOMAIN edges[p] => e \in Edges,
         Rewritten(p, i, e)
  PROVE  /\ EdgesTyped'
         /\ \A q \in Pairs : DOMAIN edges'[q] = DOMAIN edges[q] /\ (q # p => edges'[q] = edges[q])
         /\ \A k \in DOMAIN edges[p] : edges'[p][k] = IF k = i THEN e ELSE edges[p][k]
<1>1. PICK s : s = [edges[p] EXCEPT ![i] = e]
  OBVIOUS
<1>2. edges[p] \in Seq(Edges)
  BY DEF EdgesTyped
<1>3. /\ s \in Seq(Edges) /\ DOMAIN s = DOMAIN edges[p]
      /\ \A k \in DOMAIN edges[p] : s[k] = IF k = i THEN e ELSE edges[p][k]
  <2>1. PICK n \in Nat : DOMAIN edges[p] = 1 .. n /\ \A k \in 1 .. n : edges[p][k] \in Edges
    BY <1>2
  <2>2. DOMAIN s = 1 .. n /\ \A k \in 1 .. n : s[k] = IF k = i THEN e ELSE edges[p][k]
    BY <1>1, <2>1
  <2>3. s = [k \in 1 .. n |-> s[k]] /\ \A k \in 1 .. n : s[k] \in Edges
    BY <1>1, <2>1, <2>2
  <2>4. s \in Seq(Edges)
    BY <2>3
  <2>. QED
    BY <2>1, <2>2, <2>4
<1>4. edges' = [edges EXCEPT ![p] = s]
  BY <1>1 DEF Rewritten
<1>. QED
  BY <1>3, <1>4 DEF EdgesTyped

(* What was refused is in the graph after a step only by a person's word,  *)
(* or by who had read it before.                                           *)
Back(p) == \E t \in Tasks : task'[t].kind = "confirm" \/ HadRead(t, p)
StaysOut == \A p \in Pairs : Refused(p) /\ p \in Graph' => Back(p)

(* An edge left as it is is no nearer to the graph.                        *)
LEMMA RefusedIsOut ==
  ASSUME NEW p \in Pairs, edges'[p] = edges[p], Refused(p)
  PROVE  p \notin Graph'
BY DEF Refused, Graph, Trusted

(* Where no edge is written nothing comes back.                            *)
LEMMA NothingWritten ==
  ASSUME UNCHANGED edges
  PROVE  StaysOut
BY RefusedIsOut DEF StaysOut

(* One document written anew: only its pair can come back.                 *)
LEMMA OneWritten ==
  ASSUME EdgesTyped, NEW p \in Pairs, NEW i, NEW e, i \in DOMAIN edges[p] => e \in Edges,
         Rewritten(p, i, e), Refused(p) /\ i \in DOMAIN edges[p] => e.status = "rejected" \/ Back(p)
  PROVE  EdgesTyped' /\ StaysOut
<1>1. /\ EdgesTyped'
      /\ \A q \in Pairs : DOMAIN edges'[q] = DOMAIN edges[q] /\ (q # p => edges'[q] = edges[q])
      /\ \A k \in DOMAIN edges[p] : edges'[p][k] = IF k = i THEN e ELSE edges[p][k]
  BY RewrittenIs
<1>2. ASSUME NEW q \in Pairs, Refused(q), q \in Graph' PROVE Back(q)
  <2>1. q = p
    BY <1>1, <1>2, RefusedIsOut
  <2>2. PICK k \in DOMAIN edges[p] : edges'[p][k].status # "rejected"
    BY <1>1, <1>2, <2>1 DEF Graph, Trusted
  <2>3. k = i /\ e.status # "rejected"
    BY <1>1, <1>2, <2>1, <2>2 DEF Refused
  <2>. QED
    BY <1>2, <2>1, <2>2, <2>3
<1>. QED
  BY <1>1, <1>2 DEF StaysOut

(* What a request lists are edges as they stand.                           *)
LEMMA ListedAre ==
  ASSUME EdgesTyped, NEW statuses
  PROVE  Listed(statuses) \subseteq Readings
<1> SUFFICES ASSUME NEW p \in Pairs, NEW i \in DOMAIN edges[p]
             PROVE  [pair |-> p, at |-> i, edge |-> edges[p][i]] \in Readings
  BY DEF Listed
<1>1. i \in Nat /\ edges[p][i] \in Edges
  BY DEF EdgesTyped
<1>. QED
  BY <1>1 DEF Readings

(* Discovery, probing and decay begin.                                     *)
LEMMA StartsKeep ==
  ASSUME EdgeInv, NEW t \in Tasks, Discover(t) \/ Probe(t) \/ Decay(t)
  PROVE  EdgeInv' /\ StaysOut
<1>1. {Unseen(p) : p \in Pairs} \subseteq Readings
  <2>1. ASSUME NEW p \in Pairs PROVE Unseen(p) \in Readings
    <3>1. Edge("candidate", 0, 0, "static") \in Edges
      BY EdgeIs
    <3>. QED
      BY <3>1 DEF Unseen, Readings
  <2>. QED
    BY <2>1
<1>2. PICK kd \in {"discover", "probe", "decay"}, todo \in SUBSET Readings : Starts(t, kd, todo)
  <2>1. CASE Discover(t)
    BY <1>1, <2>1 DEF Discover
  <2>2. CASE Probe(t)
    <3>1. {x \in Listed({"candidate"}) : x.pair \in Sampled} \in SUBSET Readings
      BY ListedAre DEF EdgeInv
    <3>. QED
      BY <2>2, <3>1 DEF Probe
  <2>3. CASE Decay(t)
    <3>1. Listed({"candidate", "confirmed"}) \in SUBSET Readings
      BY ListedAre DEF EdgeInv
    <3>. QED
      BY <2>3, <3>1 DEF Decay
  <2>. QED
    BY <2>1, <2>2, <2>3
<1>3. PICK r : r = [pc |-> "next", kind |-> kd, todo |-> todo, found |-> <<>>]
  OBVIOUS
<1>4. Job(r) /\ task' = [task EXCEPT ![t] = r]
  BY <1>2, <1>3 DEF Job, Starts
<1>5. TasksTyped'
  BY <1>4, TaskMoves DEF EdgeInv
<1>6. UNCHANGED edges
  BY <1>2 DEF Starts
<1>. QED
  BY <1>5, <1>6, NothingWritten DEF EdgeInv, EdgesTyped

(* upsert_edge reads the edge it is about to write.                        *)
LEMMA FindKeeps ==
  ASSUME EdgeInv, NEW t \in Tasks, Find(t)
  PROVE  EdgeInv' /\ StaysOut
<1>1. PICK x \in task[t].todo :
        task' = [task EXCEPT ![t].pc = "write", ![t].todo = @ \ {x},
                             ![t].found = <<x, IF edges[x.pair] = <<>> THEN <<>> ELSE <<edges[x.pair][1]>> >>]
  BY DEF Find
<1>2. Job(task[t])
  BY DEF EdgeInv, TasksTyped
<1>3. x \in Readings /\ x.pair \in Pairs
  BY <1>1, <1>2 DEF Job, Readings
<1>4. PICK found : found = <<x, IF edges[x.pair] = <<>> THEN <<>> ELSE <<edges[x.pair][1]>> >>
  OBVIOUS
<1>5. found \in Founds
  <2>1. edges[x.pair] # <<>> => edges[x.pair][1] \in Edges
    BY <1>3 DEF EdgeInv, EdgesTyped
  <2>. QED
    BY <1>3, <1>4, <2>1 DEF Founds
<1>6. PICK r : r = [task[t] EXCEPT !.pc = "write", !.todo = task[t].todo \ {x}, !.found = found]
  OBVIOUS
<1>7. Job(r)
  BY <1>2, <1>5, <1>6 DEF Job
<1>8. task' = [task EXCEPT ![t] = r]
  BY ONLY <1>1, <1>4, <1>6
<1>9. TasksTyped'
  BY <1>7, <1>8, TaskMoves DEF EdgeInv
<1>10. UNCHANGED edges
  BY DEF Find
<1>. QED
  BY <1>9, <1>10, NothingWritten DEF EdgeInv, EdgesTyped

(* A request for edges ends, or a scenario job is split.                   *)
LEMMA EndKeeps ==
  ASSUME EdgeInv, NEW t \in Tasks, EndTask(t) \/ Split(t)
  PROVE  EdgeInv' /\ StaysOut
<1>1. UNCHANGED edges
  BY DEF EndTask, Split
<1>2. PICK r : task' = [task EXCEPT ![t] = r] /\ r.pc = "over" /\ r.todo = {}
               /\ r = [pc |-> r.pc, kind |-> r.kind, todo |-> r.todo, found |-> r.found]
  <2>1. CASE EndTask(t)
    <3>1. PICK r : r = [Resting EXCEPT !.pc = "over"]
      OBVIOUS
    <3>2. task' = [task EXCEPT ![t] = r]
      BY <2>1, <3>1 DEF EndTask
    <3>3. r = [pc |-> "over", kind |-> "none", todo |-> {}, found |-> <<>>]
      BY <3>1 DEF Resting
    <3>4. r.pc = "over" /\ r.todo = {} /\ r = [pc |-> r.pc, kind |-> r.kind, todo |-> r.todo, found |-> r.found]
      BY <3>3
    <3>. QED
      BY <3>2, <3>4
  <2>2. CASE Split(t)
    <3>1. PICK x, r : /\ r = [Resting EXCEPT !.pc = "over", !.kind = "split", !.found = x]
                      /\ task' = [task EXCEPT ![t] = r]
      BY ONLY <2>2 DEF Split
    <3>2. r = [pc |-> "over", kind |-> "split", todo |-> {}, found |-> x]
      BY <3>1 DEF Resting
    <3>. QED
      BY <3>1, <3>2
  <2>. QED
    BY <2>1, <2>2
<1>5. Job(r)
  BY <1>2 DEF Job
<1>6. TasksTyped'
  BY <1>2, <1>5, TaskMoves DEF EdgeInv
<1>. QED
  BY <1>1, <1>6, NothingWritten DEF EdgeInv, EdgesTyped

(* A document is found again, or a first one is written.                   *)
LEMMA MergedIs ==
  ASSUME NEW e \in Edges, NEW new, new.conf \in Nat, new.obs \in {0, 1},
         new.evidence \in {"dynamic", "none"}
  PROVE  /\ Merged(e, new) \in Edges
         /\ e.status = "rejected" /\ new.evidence = "none" => Merged(e, new).status = "rejected"
<1>1. /\ e.status \in {"candidate", "confirmed", "rejected"} /\ e.conf \in Nat /\ e.obs \in Nat
      /\ e.evidence \in {"static", "dynamic", "none", "human"}
  BY DEF Edges
<1>2. MaxOf(e.conf, new.conf) \in Nat /\ e.obs + new.obs \in Nat
  BY <1>1 DEF MaxOf
<1>. DEFINE twice == e.obs + new.obs >= 2 /\ e.status # "rejected"
            sure == twice \/ new.evidence # "none"
<1>3. PICK st, ev : /\ st = (IF sure THEN "confirmed" ELSE e.status)
                    /\ ev = (IF twice THEN "dynamic" ELSE IF sure THEN new.evidence ELSE e.evidence)
  OBVIOUS
<1>4. st \in {"candidate", "confirmed", "rejected"} /\ ev \in {"static", "dynamic", "none", "human"}
  BY <1>1, <1>3
<1>5. Merged(e, new) = Edge(st, MaxOf(e.conf, new.conf), e.obs + new.obs, ev)
  BY <1>3 DEF Merged
<1>6. Merged(e, new) \in Edges /\ Merged(e, new).status = st
  BY <1>2, <1>4, <1>5 DEF Edge, Edges
<1>. QED
  BY <1>3, <1>6

(* What a discovery or a probe adds to an edge.                            *)
LEMMA AddingIs ==
  ASSUME NEW t \in Tasks, NEW x \in Readings
  PROVE  /\ Adding(t, x).conf \in Nat /\ Adding(t, x).obs \in {0, 1}
         /\ Adding(t, x).evidence \in {"dynamic", "none"}
         /\ task[t].kind # "probe" => Adding(t, x).evidence = "none"
<1>1. x.edge.conf \in Nat /\ x.pair \in Pairs
  BY DEF Readings, Edges
<1>2. Score[x.pair] \in Nat
  BY <1>1, DependencyAssumption
<1>. QED
  BY <1>1, <1>2 DEF Adding, MaxOf

(* upsert_edge writes: discovery leaves a refused edge refused unless it   *)
(* had read it before the refusal.                                         *)
LEMMA UpsertKeeps ==
  ASSUME EdgeInv, NEW t \in Tasks, Upsert(t)
  PROVE  EdgeInv' /\ StaysOut
<1>1. task[t].pc = "write" /\ task[t].kind \in {"discover", "probe"} /\ Job(task[t])
  BY DEF Upsert, EdgeInv, TasksTyped
<1>2. PICK x, known : x \in Readings /\ task[t].found = <<x, known>> /\ (known = <<>> \/ \E e \in Edges : known = <<e>>)
  BY <1>1 DEF Job, Founds
<1>3. PICK p \in Pairs : p = x.pair
  BY <1>2 DEF Readings
<1>4. edges' = [edges EXCEPT ![p] = IF known = <<>> THEN Append(edges[p], Static(p))
                                    ELSE [edges[p] EXCEPT ![1] = Merged(known[1], Adding(t, x))]]
  BY <1>2, <1>3 DEF Upsert
<1>5. TasksTyped'
  <2>1. PICK r : r = [task[t] EXCEPT !.pc = "next", !.found = <<>>]
    OBVIOUS
  <2>2. Job(r)
    BY <1>1, <2>1 DEF Job
  <2>3. task' = [task EXCEPT ![t].pc = "next", ![t].found = <<>>]
    BY DEF Upsert
  <2>4. task' = [task EXCEPT ![t] = r]
    BY ONLY <2>1, <2>3
  <2>. QED
    BY <2>2, <2>4, TaskMoves DEF EdgeInv
<1>6. CASE known = <<>>
  <2>1. HadRead(t, p)
    BY <1>1, <1>2, <1>3, <1>6 DEF HadRead
  <2>2. Static(p) \in Edges
    <3>1. Score[p] \in Nat
      BY DependencyAssumption
    <3>. QED
      BY <3>1 DEF Static, Edge, Edges
  <2>3. EdgesTyped' /\ \A q \in Pairs : q # p => edges'[q] = edges[q]
    <3>1. Append(edges[p], Static(p)) \in Seq(Edges)
      BY <2>2 DEF EdgeInv, EdgesTyped
    <3>2. edges' = [edges EXCEPT ![p] = Append(edges[p], Static(p))]
      BY <1>4, <1>6
    <3>. QED
      BY <3>1, <3>2 DEF EdgeInv, EdgesTyped
  <2>4. StaysOut
    BY <2>1, <2>3, RefusedIsOut DEF StaysOut, Back
  <2>. QED
    BY <1>5, <2>3, <2>4 DEF EdgeInv
<1>7. CASE known # <<>>
  <2>1. PICK e \in Edges : known = <<e>>
    BY <1>2, <1>7
  <2>2. PICK m : m = Merged(e, Adding(t, x))
    OBVIOUS
  <2>3. m \in Edges /\ (e.status = "rejected" /\ task[t].kind # "probe" => m.status = "rejected")
    <3>1. /\ Adding(t, x).conf \in Nat /\ Adding(t, x).obs \in {0, 1}
          /\ Adding(t, x).evidence \in {"dynamic", "none"}
          /\ task[t].kind # "probe" => Adding(t, x).evidence = "none"
      BY <1>2, AddingIs
    <3>. QED
      BY <2>2, <3>1, MergedIs
  <2>4. Rewritten(p, 1, m)
    BY <1>4, <1>7, <2>1, <2>2 DEF Rewritten
  <2>5. m.status = "rejected" \/ Back(p)
    <3>1. e.status # "rejected" \/ task[t].kind = "probe" => HadRead(t, p)
      BY <1>1, <1>2, <1>3, <2>1 DEF HadRead
    <3>. QED
      BY <2>3, <3>1 DEF Back
  <2>6. EdgesTyped' /\ StaysOut
    BY <2>1, <2>3, <2>4, <2>5, OneWritten DEF EdgeInv
  <2>. QED
    BY <1>5, <2>6 DEF EdgeInv
<1>. QED
  BY <1>6, <1>7

(* decay_edges_for_generation writes what it had listed.                   *)
LEMMA WeakenKeeps ==
  ASSUME EdgeInv, NEW t \in Tasks, Weaken(t)
  PROVE  EdgeInv' /\ StaysOut
<1>1. task[t].kind = "decay" /\ task[t].pc = "next" /\ Job(task[t])
  BY DEF Weaken, EdgeInv, TasksTyped
<1>2. PICK x \in task[t].todo :
        /\ edges' = [edges EXCEPT ![x.pair][x.at].conf = Weakened(x.edge).conf,
                                  ![x.pair][x.at].status = Weakened(x.edge).status]
        /\ task' = [task EXCEPT ![t].todo = @ \ {x}]
  BY DEF Weaken
<1>3. x \in Readings /\ x.pair \in Pairs /\ x.edge \in Edges
  BY <1>1, <1>2 DEF Job, Readings
<1>4. PICK p, i, conf, status :
        p \in Pairs /\ p = x.pair /\ i = x.at /\ conf = Weakened(x.edge).conf /\ status = Weakened(x.edge).status
  BY <1>3
<1>5. conf \in Nat /\ status \in {"candidate", "confirmed", "rejected"}
  BY <1>3, <1>4 DEF Weakened, MaxOf, Edges
<1>6. HadRead(t, p)
  BY <1>1, <1>2, <1>4 DEF HadRead
<1>7. PICK e : e = [edges[p][i] EXCEPT !.conf = conf, !.status = status]
  OBVIOUS
<1>8. Rewritten(p, i, e)
  <2>1. edges' = [edges EXCEPT ![p][i].conf = conf, ![p][i].status = status]
    BY <1>2, <1>4
  <2>. QED
    BY ONLY <1>7, <2>1 DEF Rewritten
<1>9. i \in DOMAIN edges[p] => e \in Edges
  <2>1. i \in DOMAIN edges[p] => edges[p][i] \in Edges
    BY <1>4 DEF EdgeInv, EdgesTyped
  <2>. QED
    BY <1>5, <1>7, <2>1 DEF Edges
<1>10. EdgesTyped' /\ StaysOut
  BY <1>4, <1>6, <1>8, <1>9, OneWritten DEF EdgeInv, Back
<1>11. TasksTyped'
  <2>1. PICK r : r = [task[t] EXCEPT !.todo = task[t].todo \ {x}]
    OBVIOUS
  <2>2. Job(r)
    BY <1>1, <2>1 DEF Job
  <2>3. task' = [task EXCEPT ![t] = r]
    BY ONLY <1>2, <2>1
  <2>. QED
    BY <2>2, <2>3, TaskMoves DEF EdgeInv
<1>. QED
  BY <1>10, <1>11 DEF EdgeInv

(* A person confirms or refuses.                                           *)
LEMMA PersonKeeps ==
  ASSUME EdgeInv, NEW t \in Tasks, Confirm(t) \/ Vouch(t) \/ Refuse(t)
  PROVE  EdgeInv' /\ StaysOut
<1>1. ASSUME NEW p \in Pairs, NEW i \in DOMAIN edges[p]
      PROVE  edges[p][i] \in Edges /\ i \in Nat
  BY DEF EdgeInv, EdgesTyped
<1>2. CASE Confirm(t)
  <2>1. PICK p, i :
          /\ p \in Pairs /\ i \in DOMAIN edges[p]
          /\ edges' = [edges EXCEPT ![p][i].status = "confirmed"]
          /\ task' = [task EXCEPT ![t] = [pc |-> "vouch", kind |-> "confirm", todo |-> {}, found |-> <<p, i>>]]
    BY <1>2 DEF Confirm
  <2>2. PICK r, e : /\ r = [pc |-> "vouch", kind |-> "confirm", todo |-> {}, found |-> <<p, i>>]
                    /\ e = [edges[p][i] EXCEPT !.status = "confirmed"]
    OBVIOUS
  <2>3. Job(r) /\ r.kind = "confirm" /\ e \in Edges
    BY <1>1, <2>1, <2>2 DEF Job, Edges
  <2>4. TasksTyped' /\ Back(p)
    BY <2>1, <2>2, <2>3, TaskMoves DEF EdgeInv, Back
  <2>5. Rewritten(p, i, e)
    BY <2>1, <2>2 DEF Rewritten
  <2>6. EdgesTyped' /\ StaysOut
    BY <2>1, <2>3, <2>4, <2>5, OneWritten DEF EdgeInv
  <2>. QED
    BY <2>4, <2>6 DEF EdgeInv
<1>3. CASE Vouch(t)
  <2>1. PICK p \in Pairs, i \in Nat : p = task[t].found[1] /\ i = task[t].found[2] /\ task[t].kind = "confirm"
    BY <1>3 DEF Vouch, EdgeInv, TasksTyped, Job
  <2>2. edges' = [edges EXCEPT ![p][i].status = "confirmed", ![p][i].evidence = "human"]
    BY <1>3, <2>1 DEF Vouch
  <2>3. PICK r, e : /\ r = [task[t] EXCEPT !.pc = "over"]
                    /\ e = [edges[p][i] EXCEPT !.status = "confirmed", !.evidence = "human"]
    OBVIOUS
  <2>4. Job(r) /\ r.kind = "confirm"
    BY <2>1, <2>3 DEF EdgeInv, TasksTyped, Job
  <2>5. i \in DOMAIN edges[p] => e \in Edges
    <3>1. i \in DOMAIN edges[p] => edges[p][i] \in Edges
      BY <1>1, <2>1
    <3>. QED
      BY <2>3, <3>1 DEF Edges
  <2>6. Rewritten(p, i, e)
    BY ONLY <2>2, <2>3 DEF Rewritten
  <2>7. TasksTyped' /\ Back(p)
    <3>1. task' = [task EXCEPT ![t] = r]
      BY <1>3, <2>3 DEF Vouch
    <3>. QED
      BY <2>4, <3>1, TaskMoves DEF EdgeInv, Back
  <2>8. EdgesTyped' /\ StaysOut
    BY <2>5, <2>6, <2>7, OneWritten DEF EdgeInv
  <2>. QED
    BY <2>7, <2>8 DEF EdgeInv
<1>4. CASE Refuse(t)
  <2>1. PICK p, i : p \in Pairs /\ i \in DOMAIN edges[p] /\ edges' = [edges EXCEPT ![p][i].status = "rejected"]
    BY <1>4 DEF Refuse
  <2>2. PICK e : e = [edges[p][i] EXCEPT !.status = "rejected"]
    OBVIOUS
  <2>3. e \in Edges /\ e.status = "rejected"
    BY <1>1, <2>1, <2>2 DEF Edges
  <2>4. Rewritten(p, i, e)
    BY <2>1, <2>2 DEF Rewritten
  <2>5. EdgesTyped' /\ StaysOut
    BY <2>1, <2>3, <2>4, OneWritten DEF EdgeInv
  <2>6. PICK r : r = [Resting EXCEPT !.pc = "over", !.kind = "refuse"]
    OBVIOUS
  <2>7. r = [pc |-> "over", kind |-> "refuse", todo |-> {}, found |-> <<>>]
    BY <2>6 DEF Resting
  <2>8. Job(r)
    BY <2>7 DEF Job
  <2>9. task' = [task EXCEPT ![t] = r]
    BY <1>4, <2>6 DEF Refuse
  <2>. QED
    BY <2>5, <2>8, <2>9, TaskMoves DEF EdgeInv
<1>. QED
  BY <1>2, <1>3, <1>4

(* Of the requests that review, only a rejection touches the edges.        *)
LEMMA EdgeStep ==
  ASSUME EdgeInv, [Next]_vars
  PROVE  EdgeInv' /\ (UNCHANGED depVars \/ StaysOut)
<1>1. CASE UNCHANGED depVars
  BY <1>1 DEF EdgeInv, EdgesTyped, TasksTyped, depVars
<1>2. ASSUME NEW t \in Tasks, DependencyWork(t) PROVE EdgeInv' /\ StaysOut
  BY <1>2, StartsKeep, FindKeeps, EndKeeps, UpsertKeeps, WeakenKeeps, PersonKeeps
     DEF DependencyWork, Ask, Continue
<1>3. ASSUME NEW s \in Reviewers, NEW v \in Versions, Review(s, v)
      PROVE  UNCHANGED depVars \/ Decay(s)
  BY <1>3 DEF Review, Accept, AcceptPartial, EditAndAccept, Accepting, Reject, BatchReject,
              RejectSaying, AutoReview, AskTrial, Begins, Untouched
<1>4. ASSUME NEW s \in Reviewers, Decay(s) PROVE EdgeInv' /\ StaysOut
  BY <1>4, StartsKeep, ReviewAssumption
<1>5. ASSUME NEW s \in Reviewers,
             Untried(s) \/ RunTrial(s) \/ MarkTrial(s) \/ Decide(s) \/ Apply(s)
      PROVE  UNCHANGED depVars
  BY <1>5 DEF Untried, RunTrial, MarkTrial, Decide, Apply, Load, Read, Write, InsertItem, BreakOff,
              Close, TellApi, Trigger, Untouched
<1>6. ASSUME NEW p \in Pupils, KnowledgeWork(p) PROVE UNCHANGED depVars
  BY <1>6 DEF KnowledgeWork
<1>7. UNCHANGED vars \/ DeleteTarget => UNCHANGED depVars
  BY DEF vars, DeleteTarget, Untouched
<1>. QED
  BY <1>1, <1>2, <1>3, <1>4, <1>5, <1>6, <1>7 DEF Next

(* The edges at first.                                                     *)
LEMMA EdgesBegin ==
  ASSUME DependencyInit
  PROVE  EdgeInv
<1>1. ASSUME NEW p \in Pairs PROVE Static(p) \in Edges
  <2>1. Score[p] \in Nat
    BY DependencyAssumption
  <2>. QED
    BY <2>1 DEF Static, Edge, Edges
<1>2. EdgesTyped
  <2>1. \A p \in Pairs : <<>> \in Seq(Edges) /\ <<Static(p)>> \in Seq(Edges)
    BY <1>1
  <2>. QED
    BY <2>1 DEF DependencyInit, EdgesTyped
<1>3. Job(Resting)
  BY DEF Job, Resting
<1>4. TasksTyped
  BY <1>3 DEF DependencyInit, TasksTyped
<1>. QED
  BY <1>2, <1>4 DEF EdgeInv

(* The edges and what the requests hold of them keep to their types.       *)
THEOREM EdgesInvariant == Spec => []EdgeInv
<1>1. Init => EdgeInv
  BY EdgesBegin DEF Init
<1>2. EdgeInv /\ [Next]_vars => EdgeInv'
  BY EdgeStep
<1>. QED
  BY <1>1, <1>2, PTL DEF Spec

(* What a person refused stays out of the graph, unless a person confirms  *)
(* it, or a request that read the edge before the refusal writes it back   *)
(* (discover_static_edges, probe_dependencies, decay_edges_for_generation).*)
THEOREM OnlyAPersonBringsBack == Spec => RefusedStaysOut
<1>. DEFINE Kept == \A p \in Pairs : Refused(p) /\ p \in Graph' =>
                      \E t \in Tasks : task'[t].kind = "confirm" \/ HadRead(t, p)
<1>1. EdgeInv /\ [Next]_vars => [Kept]_depVars
  BY EdgeStep DEF StaysOut, Back
<1>. HIDE DEF Kept
<1>2. Spec => [][Kept]_depVars
  BY <1>1, EdgesInvariant, PTL DEF Spec
<1>. QED
  BY <1>2 DEF RefusedStaysOut, Kept
-------------------------------------------------------------------------------
(* The knowledge. *)

(* Of some numbers up to N there is a least one.                            *)
LEMMA Least ==
  ASSUME NEW N \in Nat, NEW T \in SUBSET (0 .. N), T # {}
  PROVE  \E n \in T : \A k \in T : n <= k
<1> DEFINE S == {X \in SUBSET (0 .. N) : \E n \in T : X = 0 .. n}
<1>1. IsWellFoundedOn(StrictSubsetOrdering(0 .. N), SUBSET (0 .. N))
  <2>1. IsFiniteSet(0 .. N)
    BY FS_Interval
  <2>. QED
    BY <2>1, FS_StrictSubsetOrderingWellFounded, FS_FiniteSubsetsOfFinite
<1>2. S \subseteq SUBSET (0 .. N) /\ S # {}
  <2>1. PICK n \in T : TRUE
    OBVIOUS
  <2>2. 0 .. n \in S
    OBVIOUS
  <2>. QED
    BY <2>2
<1>3. PICK X \in S : \A Y \in S : ~ (<<Y, X>> \in StrictSubsetOrdering(0 .. N))
  <2> HIDE DEF S
  <2>. QED
    BY <1>1, <1>2, WFMin
<1>4. PICK n \in T : X = 0 .. n
  OBVIOUS
<1>5. ASSUME NEW k \in T, k < n PROVE FALSE
  <2>1. 0 .. k \in S /\ 0 .. k \subseteq 0 .. n /\ 0 .. k # 0 .. n
    <3>1. n \in 0 .. n /\ n \notin 0 .. k
      BY <1>5
    <3>. QED
      BY <1>5, <3>1
  <2>2. <<0 .. k, X>> \in StrictSubsetOrdering(0 .. N)
    BY <1>4, <2>1 DEF StrictSubsetOrdering
  <2>. QED
    BY <1>3, <2>1, <2>2
<1>. QED
  BY <1>5

(* Titles of one topic: a title is of its own, those alike are of one, and *)
(* the topic of a title of a topic is within it.                           *)
LEMMA TopicIs ==
  /\ \A t \in Titles : t \in Topic(t)
  /\ \A t, u \in Titles : u \in Alike[t] => u \in Topic(t) /\ t \in Topic(u)
  /\ \A t, u, v \in Titles : u \in Topic(t) /\ v \in Topic(u) => v \in Topic(t)
<1>1. \A t \in Titles : t \in Topic(t)
  BY DEF Topic
<1>2. \A t, u \in Titles : u \in Alike[t] => u \in Topic(t)
  BY DEF Topic
<1>3. \A t, u \in Titles : u \in Alike[t] => t \in Alike[u]
  BY KnowledgeAssumption
<1>4. ASSUME NEW t \in Titles, NEW u \in Titles, NEW v \in Titles, u \in Topic(t), v \in Topic(u)
      PROVE  v \in Topic(t)
  <2> SUFFICES ASSUME NEW S \in SUBSET Titles, t \in S, \A s \in S : Alike[s] \subseteq S
               PROVE  v \in S
    BY <1>4 DEF Topic
  <2>1. u \in S
    BY <1>4 DEF Topic
  <2>. QED
    BY <1>4, <2>1 DEF Topic
<1>. QED
  BY <1>1, <1>2, <1>3, <1>4

(* The rounds of the two loops of consolidate: from 0 the outer, from the  *)
(* number of an entry the inner one.                                       *)
Turn(read, i, k, plan) ==
  IF i = 0 THEN IF k \in DOMAIN read \ plan.gone THEN Row(read, k, plan) ELSE plan
           ELSE IF k \in DOMAIN read THEN Pair(read, i, k, plan) ELSE plan
Laps(f, read, i, plan, n) ==
  f = [k \in i .. n |-> IF k = i THEN plan ELSE Turn(read, i, k, f[k - 1])]

(* The recursive functions of Row and Consolidated are what their          *)
(* equations say.                                                          *)
LEMMA LapsExist ==
  ASSUME NEW read, NEW i \in Nat, NEW plan, NEW N \in Nat, i <= N
  PROVE  \E f : Laps(f, read, i, plan, N)
<1> DEFINE T == {n \in i .. N : ~ \E f : Laps(f, read, i, plan, n)}
<1>1. SUFFICES ASSUME T # {} PROVE FALSE
  OBVIOUS
<1>2. PICK n \in T : \A k \in T : n <= k
  <2>1. T \in SUBSET (0 .. N)
    OBVIOUS
  <2> HIDE DEF T
  <2>. QED
    BY <1>1, <2>1, Least
<1>3. CASE n = i
  <2> DEFINE f == [k \in i .. i |-> plan]
  <2>1. f = [k \in i .. i |-> IF k = i THEN plan ELSE Turn(read, i, k, f[k - 1])]
    <3> HIDE DEF f
    <3>1. f = [k \in i .. i |-> plan] /\ \A k \in i .. i : k = i
      BY DEF f
    <3>. QED
      BY <3>1
  <2>. QED
    BY <1>3, <2>1 DEF Laps
<1>4. CASE n # i
  <2>1. n - 1 \in i .. N /\ n - 1 \notin T
    BY <1>2, <1>4
  <2>2. PICK f : Laps(f, read, i, plan, n - 1)
    BY <2>1
  <2> DEFINE g == [k \in i .. n |-> IF k = n THEN Turn(read, i, n, f[n - 1]) ELSE f[k]]
  <2>3. \A k \in i .. n - 1 : /\ f[k] = (IF k = i THEN plan ELSE Turn(read, i, k, f[k - 1]))
                              /\ g[k] = f[k]
    BY <2>2 DEF Laps
  <2>4. ASSUME NEW k \in i .. n
        PROVE  g[k] = IF k = i THEN plan ELSE Turn(read, i, k, g[k - 1])
    <3>1. CASE k = n
      <4>1. n - 1 \in i .. n - 1
        BY <1>4
      <4>2. g[n] = Turn(read, i, n, f[n - 1]) /\ g[n - 1] = f[n - 1]
        BY <2>3, <4>1
      <4>. QED
        BY <1>4, <3>1, <4>2
    <3>2. CASE k # n
      <4>1. k \in i .. n - 1 /\ (k # i => k - 1 \in i .. n - 1)
        BY <3>2
      <4> HIDE DEF g
      <4>. QED
        BY <2>3, <4>1
    <3>. QED
      BY <3>1, <3>2
  <2>5. Laps(g, read, i, plan, n)
    <3>1. g = [k \in i .. n |-> g[k]]
      OBVIOUS
    <3> HIDE DEF g
    <3>. QED
      BY <2>4, <3>1 DEF Laps
  <2>. QED
    BY <2>5
<1>. QED
  BY <1>3, <1>4

LEMMA RowRuns ==
  ASSUME born \in Nat, NEW i \in 1 .. born, NEW read, NEW plan
  PROVE  \E f : Laps(f, read, i, plan, born) /\ Row(read, i, plan) = f[born]
<1> DEFINE Is(f) == f = [j \in i .. born |->
                           IF j = i THEN plan
                           ELSE IF j \in DOMAIN read THEN Pair(read, i, j, f[j - 1]) ELSE f[j - 1]]
<1>1. \A f : Laps(f, read, i, plan, born) <=> Is(f)
  BY DEF Laps, Turn
<1>2. \E f : Is(f)
  <2>1. \E f : Laps(f, read, i, plan, born)
    BY LapsExist
  <2> HIDE DEF Is
  <2>. QED
    BY <1>1, <2>1
<1>3. Row(read, i, plan) = (CHOOSE f : Is(f))[born]
  BY DEF Row
<1>4. Is(CHOOSE f : Is(f))
  BY <1>2
<1>. QED
  BY <1>1, <1>3, <1>4

NonePlanned == [gone |-> {}, writes |-> <<>>]
LEMMA OuterRuns ==
  ASSUME born \in Nat, NEW read
  PROVE  \E f : Laps(f, read, 0, NonePlanned, born) /\ Consolidated(read) = f[born]
<1> DEFINE Is(f) == f = [i \in 0 .. born |->
                           IF i = 0 THEN [gone |-> {}, writes |-> <<>>]
                           ELSE IF i \in DOMAIN read \ f[i - 1].gone THEN Row(read, i, f[i - 1]) ELSE f[i - 1]]
<1>1. \A f : Laps(f, read, 0, NonePlanned, born) <=> Is(f)
  BY DEF Laps, Turn, NonePlanned
<1>2. \E f : Is(f)
  <2>1. \E f : Laps(f, read, 0, NonePlanned, born)
    <3>1. 0 \in Nat /\ 0 <= born
      OBVIOUS
    <3> HIDE DEF Is
    <3>. QED
      BY <3>1, LapsExist
  <2> HIDE DEF Is
  <2>. QED
    BY <1>1, <2>1
<1>3. Consolidated(read) = (CHOOSE f : Is(f))[born]
  BY DEF Consolidated
<1>4. Is(CHOOSE f : Is(f))
  BY <1>2
<1>. QED
  BY <1>1, <1>3, <1>4

(* What a plan so far owes to the entries it removes, and to the pairs it  *)
(* has compared.                                                           *)
Stands(read, plan, i, j) ==
  j \in DOMAIN read \ plan.gone /\ read[j].title \in Topic(read[i].title)
Replaced(read, plan) ==
  plan.gone \subseteq DOMAIN read /\ \A i \in plan.gone : \E j : Stands(read, plan, i, j)
Compared(read, plan, i, n) ==
  \A j \in DOMAIN read \ plan.gone : i < j /\ j <= n => i \in plan.gone \/ ~ Matching(read, i, j)
InRow(read, plan, i, n) ==
  /\ Replaced(read, plan)
  /\ i \in plan.gone => \E j : Stands(read, plan, i, j) /\ j <= n
  /\ Compared(read, plan, i, n)
Readable(read) == DOMAIN read \subseteq 1 .. born /\ \A i \in DOMAIN read : read[i].title \in Titles

LEMMA PairIs ==
  ASSUME born \in Nat, NEW read, Readable(read), NEW i \in DOMAIN read, NEW n \in DOMAIN read, i < n,
         NEW plan, InRow(read, plan, i, n - 1), NEW new, new = Pair(read, i, n, plan)
  PROVE  InRow(read, new, i, n) /\ plan.gone \subseteq new.gone
<1>. i \in Nat /\ n \in Nat /\ \A j \in DOMAIN read : j \in Nat
  BY DEF Readable
<1>1. CASE n \in plan.gone \/ ~ Matching(read, i, n)
  <2>1. new = plan
    BY <1>1 DEF Pair
  <2>2. Compared(read, plan, i, n)
    <3> SUFFICES ASSUME NEW j \in DOMAIN read \ plan.gone, i < j, j <= n
                 PROVE  i \in plan.gone \/ ~ Matching(read, i, j)
      BY DEF Compared
    <3>1. CASE j = n
      BY <1>1, <3>1
    <3>2. CASE j # n
      BY <3>2 DEF InRow, Compared
    <3>. QED
      BY <3>1, <3>2
  <2>3. i \in plan.gone => \E j : Stands(read, plan, i, j) /\ j <= n
    BY DEF InRow, Stands
  <2>. QED
    BY <2>1, <2>2, <2>3 DEF InRow
<1>2. CASE n \notin plan.gone /\ Matching(read, i, n)
  <2>1. /\ read[n].title \in Topic(read[i].title) /\ read[i].title \in Topic(read[n].title)
    BY <1>2, TopicIs DEF Matching, Readable
  <2>2. ASSUME NEW a, NEW b, NEW c, a \in DOMAIN read, Stands(read, plan, a, b),
               c \in DOMAIN read, read[c].title \in Topic(read[b].title)
        PROVE  read[c].title \in Topic(read[a].title)
    BY <2>2, TopicIs DEF Stands, Readable
  <2>3. PICK other : /\ other = (IF Keeps(read[i], read[n]) THEN n ELSE i)
                     /\ new.gone = plan.gone \cup {other}
    BY <1>2 DEF Pair
  <2>4. plan.gone \subseteq DOMAIN read /\ other \in DOMAIN read
    BY <2>3 DEF InRow, Replaced
  \* Who stands for the one removed, and for all for whom that one stood.
  <2>5. PICK c : /\ c \in DOMAIN read \ new.gone /\ c <= n /\ read[c].title \in Topic(read[other].title)
                 /\ i \in new.gone => read[c].title \in Topic(read[i].title)
    <3>1. CASE other = i
      BY <1>2, <2>1, <2>3, <3>1
    <3>2. CASE other = n /\ i \notin plan.gone
      BY <2>1, <2>3, <3>2
    <3>3. CASE other = n /\ i \in plan.gone
      <4>1. PICK j : Stands(read, plan, i, j) /\ j <= n - 1
        BY <3>3 DEF InRow
      <4>2. j \in DOMAIN read \ new.gone /\ j <= n
        BY <2>3, <3>3, <4>1 DEF Stands
      <4>3. read[j].title \in Topic(read[n].title)
        BY <2>1, <4>1, TopicIs DEF Stands, Readable
      <4>. QED
        BY <3>3, <4>1, <4>2, <4>3 DEF Stands
    <3>. QED
      BY <2>3, <3>1, <3>2, <3>3
  <2>6. ASSUME NEW a \in new.gone PROVE \E j : Stands(read, new, a, j)
    <3>1. CASE a = other
      BY <2>5, <3>1 DEF Stands
    <3>2. CASE a \in plan.gone
      <4>1. PICK j : Stands(read, plan, a, j)
        BY <3>2 DEF InRow, Replaced
      <4>2. CASE j = other
        BY <2>2, <2>4, <2>5, <3>2, <4>1, <4>2 DEF Stands
      <4>3. CASE j # other
        BY <2>3, <4>1, <4>3 DEF Stands
      <4>. QED
        BY <4>2, <4>3
    <3>. QED
      BY <2>3, <3>1, <3>2
  <2>7. i \in new.gone => \E j : Stands(read, new, i, j) /\ j <= n
    BY <2>5 DEF Stands
  <2>8. Compared(read, new, i, n)
    <3> SUFFICES ASSUME NEW j \in DOMAIN read \ new.gone, i < j, j <= n, i \notin new.gone
                 PROVE  ~ Matching(read, i, j)
      BY DEF Compared
    <3>1. j # n
      BY <2>3
    <3>. QED
      BY <2>3, <3>1 DEF InRow, Compared
  <2>. QED
    BY <2>3, <2>4, <2>6, <2>7, <2>8 DEF InRow, Replaced
<1>. QED
  BY <1>1, <1>2

LEMMA RowIs ==
  ASSUME born \in Nat, NEW read, Readable(read), NEW i \in DOMAIN read,
         NEW plan, i \notin plan.gone, Replaced(read, plan), NEW new, new = Row(read, i, plan)
  PROVE  InRow(read, new, i, born) /\ plan.gone \subseteq new.gone
<1>0. i \in 1 .. born /\ \A j \in DOMAIN read : j \in 1 .. born
  BY DEF Readable
<1>1. PICK f : Laps(f, read, i, plan, born) /\ new = f[born]
  BY <1>0, RowRuns
<1> DEFINE Good(n) == InRow(read, f[n], i, n) /\ plan.gone \subseteq f[n].gone
           T == {n \in i .. born : ~ Good(n)}
<1>2. SUFFICES ASSUME T # {} PROVE FALSE
  BY <1>0, <1>1
<1>3. PICK n \in T : \A k \in T : n <= k
  <2>1. T \in SUBSET (0 .. born)
    BY <1>0
  <2> HIDE DEF T
  <2>. QED
    BY <1>2, <2>1, Least
<1>4. f[n] = IF n = i THEN plan ELSE Turn(read, i, n, f[n - 1])
  BY <1>1, <1>3 DEF Laps
<1>5. CASE n = i
  <2>1. InRow(read, plan, i, i)
    BY <1>0 DEF InRow, Compared
  <2>. QED
    BY <1>3, <1>4, <1>5, <2>1
<1>6. CASE n # i
  <2>1. n - 1 \in i .. born /\ Good(n - 1)
    BY <1>0, <1>3, <1>6
  <2>2. CASE n \in DOMAIN read
    <3>1. f[n] = Pair(read, i, n, f[n - 1])
      BY <1>0, <1>4, <1>6, <2>2 DEF Turn
    <3>2. i < n
      BY <1>0, <1>3, <1>6
    <3>3. InRow(read, f[n], i, n) /\ f[n - 1].gone \subseteq f[n].gone
      BY <2>1, <2>2, <3>1, <3>2, PairIs
    <3>. QED
      BY <1>3, <2>1, <3>3
  <2>3. CASE n \notin DOMAIN read
    <3>1. f[n] = f[n - 1]
      BY <1>0, <1>4, <1>6, <2>3 DEF Turn
    <3>2. InRow(read, f[n], i, n)
      BY <1>0, <1>3, <2>1, <2>3, <3>1 DEF InRow, Compared, Stands
    <3>. QED
      BY <1>3, <2>1, <3>1, <3>2
  <2>. QED
    BY <2>2, <2>3
<1>. QED
  BY <1>5, <1>6

(* What consolidate decides: every entry it removes has one of its topic   *)
(* that stays, and of those that stay no two are alike.                    *)
LEMMA ConsolidatedIs ==
  ASSUME born \in Nat, NEW read, Readable(read), NEW plan, plan = Consolidated(read)
  PROVE  /\ Replaced(read, plan)
         /\ \A i, j \in DOMAIN read \ plan.gone : i # j => read[j].title \notin Alike[read[i].title]
<1>0. \A j \in DOMAIN read : j \in 1 .. born /\ j \in Nat
  BY DEF Readable
<1>1. PICK f : Laps(f, read, 0, NonePlanned, born) /\ plan = f[born]
  BY OuterRuns
<1> DEFINE Good(n) == /\ Replaced(read, f[n])
                      /\ \A i \in DOMAIN read \ f[n].gone : i <= n => Compared(read, f[n], i, born)
           T == {n \in 0 .. born : ~ Good(n)}
<1>2. T = {}
  <2> SUFFICES ASSUME T # {} PROVE FALSE
    OBVIOUS
  <2>1. PICK n \in T : \A k \in T : n <= k
    <3>1. T \in SUBSET (0 .. born)
      OBVIOUS
    <3> HIDE DEF T
    <3>. QED
      BY <3>1, Least
  <2>2. f[n] = IF n = 0 THEN NonePlanned ELSE Turn(read, 0, n, f[n - 1])
    BY <1>1, <2>1 DEF Laps
  <2>3. CASE n = 0
    BY <1>0, <2>1, <2>2, <2>3 DEF Replaced, NonePlanned
  <2>4. CASE n # 0
    <3>1. n - 1 \in 0 .. born /\ Good(n - 1)
      BY <2>1, <2>4
    <3>2. CASE n \in DOMAIN read \ f[n - 1].gone
      <4>1. f[n] = Row(read, n, f[n - 1])
        BY <2>2, <2>4, <3>2 DEF Turn
      <4>2. InRow(read, f[n], n, born) /\ f[n - 1].gone \subseteq f[n].gone
        BY <3>1, <3>2, <4>1, RowIs
      <4>3. ASSUME NEW i \in DOMAIN read \ f[n].gone, i <= n PROVE Compared(read, f[n], i, born)
        <5>1. CASE i = n
          BY <4>2, <5>1 DEF InRow
        <5>2. CASE i # n
          <6>1. i \in DOMAIN read \ f[n - 1].gone /\ i <= n - 1
            BY <1>0, <2>1, <4>2, <4>3, <5>2
          <6>2. Compared(read, f[n - 1], i, born)
            BY <3>1, <6>1
          <6>. QED
            BY <4>2, <6>1, <6>2 DEF Compared
        <5>. QED
          BY <5>1, <5>2
      <4>. QED
        BY <2>1, <4>2, <4>3 DEF InRow
    <3>3. CASE n \notin DOMAIN read \ f[n - 1].gone
      <4>1. f[n] = f[n - 1]
        BY <2>2, <2>4, <3>3 DEF Turn
      <4>2. \A i \in DOMAIN read \ f[n].gone : i <= n => i <= n - 1
        BY <1>0, <2>1, <3>3, <4>1
      <4>. QED
        BY <2>1, <3>1, <4>1, <4>2
    <3>. QED
      BY <3>2, <3>3
  <2>. QED
    BY <2>3, <2>4
<1>3. Good(born)
  BY <1>2
<1>4. ASSUME NEW i \in DOMAIN read \ plan.gone, NEW j \in DOMAIN read \ plan.gone, i # j
      PROVE  read[j].title \notin Alike[read[i].title]
  <2>1. \A a, b \in DOMAIN read \ plan.gone : a < b => read[b].title \notin Alike[read[a].title]
    BY <1>0, <1>1, <1>3 DEF Compared, Matching
  <2>2. CASE i < j
    BY <2>1, <2>2
  <2>3. CASE j < i
    BY <2>1, <2>3, KnowledgeAssumption DEF Readable
  <2>. QED
    BY <1>0, <1>4, <2>2, <2>3
<1>. QED
  BY <1>1, <1>3, <1>4

(* The entries, the requests and the history, each a record of its fields; *)
(* every title there is was taught, and so was one that a request found.   *)
EntryOk(e) == e = [title |-> e.title, from |-> e.from, conf |-> e.conf] /\ e.title \in Titles
KnownOk ==
  /\ born \in Nat /\ Known \subseteq 1 .. born
  /\ \A i \in Known : EntryOk(entries[i]) /\ entries[i].title \in learned.taught
LearnedOk ==
  /\ learned = [taught |-> learned.taught, dropped |-> learned.dropped, calm |-> learned.calm,
                mingled |-> learned.mingled]
  /\ learned.taught \subseteq Titles /\ learned.calm \subseteq Pupils /\ learned.mingled \in BOOLEAN
HandOk(h) ==
  /\ h = [left |-> h.left, looked |-> h.looked, saw |-> h.saw]
  /\ h.left \in Seq(Titles) /\ h.looked \in BOOLEAN /\ h.saw.found \in BOOLEAN
  /\ h.looked => h.left # <<>> /\ (h.saw.found => Head(h.left) \in learned.taught)
PupilOk(r) ==
  /\ r = [op |-> r.op, on |-> r.on, pc |-> r.pc, hands |-> r.hands, writes |-> r.writes, gone |-> r.gone]
  /\ DOMAIN r.hands = Sources /\ \A a \in Sources : HandOk(r.hands[a])
  /\ r.pc = "read" => r.op = "batch"
PupilsOk == DOMAIN pupil = Pupils /\ \A p \in Pupils : PupilOk(pupil[p])

(* While no two consolidations crossed, one at most is under way, and what *)
(* it will remove has one of its topic that stays.                         *)
MergesReplace ==
  learned.mingled \/ \A p \in Pupils : Merging(p) =>
    (\A q \in Pupils : Merging(q) => q = p) /\ Replaced(entries, pupil[p])
(* What an undisturbed consolidation leaves is apart.                      *)
Left(p) == Known \ (IF pupil[p].pc = "merge" THEN pupil[p].gone ELSE {})
CalmApart ==
  \A p \in learned.calm :
    /\ pupil[p].op \in {"batch", "consolidate"}
    /\ pupil[p].pc \in {"merge", "promote", "raise", "over"}
    /\ \A i, j \in Left(p) : i # j => entries[j].title \notin Alike[entries[i].title]
KnowInv == KnownOk /\ LearnedOk /\ PupilsOk /\ TopicSurvives /\ MergesReplace /\ CalmApart

(* One request goes on.                                                    *)
LEMMA PupilMoves ==
  ASSUME PupilsOk, learned.taught \subseteq learned'.taught, NEW p \in Pupils, NEW r, PupilOk(r)',
         pupil' = [pupil EXCEPT ![p] = r]
  PROVE  /\ PupilsOk' /\ pupil'[p] = r
         /\ \A q \in Pupils : q # p => pupil'[q] = pupil[q]
<1>1. /\ DOMAIN pupil' = Pupils /\ pupil'[p] = r
      /\ \A q \in Pupils : q # p => pupil'[q] = pupil[q]
  BY DEF PupilsOk
<1>2. ASSUME NEW q \in Pupils, q # p PROVE PupilOk(pupil[q])'
  <2>1. PupilOk(pupil[q])
    BY DEF PupilsOk
  <2>2. ASSUME NEW a \in Sources PROVE HandOk(pupil[q].hands[a])'
    <3>1. HandOk(pupil[q].hands[a]) /\ pupil'[q] = pupil[q]
      BY <1>1, <1>2, <2>1 DEF PupilOk
    <3>. QED
      BY <3>1 DEF HandOk
  <2>. QED
    BY <1>1, <1>2, <2>1, <2>2 DEF PupilOk
<1>. QED
  BY <1>1, <1>2 DEF PupilsOk

(* A step that leaves the titles of the entries alone.                     *)
SameTitles ==
  /\ born' = born /\ DOMAIN entries' = Known
  /\ \A i \in Known : EntryOk(entries'[i]) /\ entries'[i].title = entries[i].title
LEMMA TitlesStay ==
  ASSUME KnowInv, NEW p \in Pupils, NEW r, PupilOk(r)', pupil' = [pupil EXCEPT ![p] = r],
         SameTitles, LearnedOk', learned'.taught = learned.taught,
         learned'.dropped = learned.dropped, learned'.mingled = learned.mingled,
         learned'.calm \subseteq learned.calm,
         r.pc = "merge" => Merging(p) /\ r.gone = pupil[p].gone,
         p \in learned'.calm => /\ r.op = pupil[p].op /\ r.pc \in {"merge", "promote", "raise", "over"}
                                /\ (Merging(p) => r.pc = "merge")
  PROVE  KnowInv'
<1>1. /\ PupilsOk' /\ pupil'[p] = r
      /\ \A q \in Pupils : q # p => pupil'[q] = pupil[q]
  BY PupilMoves DEF KnowInv
<1>2. KnownOk'
  BY DEF KnowInv, KnownOk, SameTitles, Known, EntryOk
<1>3. TopicSurvives'
  BY DEF KnowInv, TopicSurvives, SameTitles, Known
<1>4. \A q \in Pupils : Merging(q)' => Merging(q) /\ pupil'[q].gone = pupil[q].gone
  BY <1>1 DEF Merging, Does
<1>5. MergesReplace'
  <2> SUFFICES ASSUME ~ learned.mingled, NEW q \in Pupils, Merging(q)'
               PROVE  (\A o \in Pupils : Merging(o)' => o = q) /\ Replaced(entries', pupil'[q])
    BY DEF MergesReplace
  <2>1. (\A o \in Pupils : Merging(o) => o = q) /\ Replaced(entries, pupil[q])
    BY <1>4 DEF KnowInv, MergesReplace
  <2>2. Replaced(entries', pupil'[q])
    BY <1>4, <2>1 DEF Replaced, Stands, SameTitles, Known
  <2>. QED
    BY <1>4, <2>1, <2>2
<1>6. CalmApart'
  <2> SUFFICES ASSUME NEW q \in learned'.calm
               PROVE  /\ pupil'[q].op \in {"batch", "consolidate"}
                      /\ pupil'[q].pc \in {"merge", "promote", "raise", "over"}
                      /\ \A i, j \in Left(q)' : i # j => entries'[j].title \notin Alike[entries'[i].title]
    BY DEF CalmApart
  <2>1. /\ q \in Pupils /\ pupil[q].op \in {"batch", "consolidate"}
        /\ pupil[q].pc \in {"merge", "promote", "raise", "over"}
        /\ \A i, j \in Left(q) : i # j => entries[j].title \notin Alike[entries[i].title]
    BY DEF KnowInv, LearnedOk, CalmApart
  <2>2. /\ pupil'[q].op = pupil[q].op /\ pupil'[q].pc \in {"merge", "promote", "raise", "over"}
        /\ Left(q)' = Left(q)
    <3>1. CASE q = p
      BY <1>1, <3>1 DEF Merging, Does, Left, SameTitles, Known
    <3>2. CASE q # p
      BY <1>1, <2>1, <3>2 DEF Left, SameTitles, Known
    <3>. QED
      BY <3>1, <3>2
  <2>3. Left(q) \subseteq Known
    BY DEF Left
  <2>. QED
    BY <2>1, <2>2, <2>3 DEF SameTitles
<1>. QED
  BY <1>1, <1>2, <1>3, <1>5, <1>6 DEF KnowInv
-------------------------------------------------------------------------------
(* Extraction, reading and voting write no entry.                          *)
LEMMA NothingStirs ==
  ASSUME KnowInv, UNCHANGED <<entries, born>>
  PROVE  SameTitles
BY DEF KnowInv, KnownOk, SameTitles, Known

LEMMA HandsOpen ==
  ASSUME NEW titles \in Seq(Titles), NEW h, h = Hand(titles)
  PROVE  /\ h = [left |-> h.left, looked |-> h.looked, saw |-> h.saw] /\ h.left = titles
         /\ h.looked = FALSE /\ h.saw.found = FALSE
BY DEF Hand, Unread

LEMMA ExtractLearns ==
  ASSUME KnowInv, NEW p \in Pupils, Extract(p)
  PROVE  KnowInv'
<1>1. PICK apis : pupil[p].pc = "start" /\ Opens(p, apis)
  BY DEF Extract, Asks
<1>2. PICK answered : pupil' = [pupil EXCEPT ![p].pc = "gather",
         ![p].hands = [a \in Sources |-> Hand(IF a \in answered THEN Taught[a] ELSE <<>>)]]
  BY <1>1 DEF Opens
<1> DEFINE hands == [a \in Sources |-> Hand(IF a \in answered THEN Taught[a] ELSE <<>>)]
<1>3. UNCHANGED <<entries, born, learned>>
  BY <1>1 DEF Opens
<1>4. ASSUME NEW a \in Sources PROVE HandOk(hands[a])'
  <2>1. PICK titles \in Seq(Titles) : hands[a] = Hand(titles)
    <3>1. Taught[a] \in Seq(Titles) /\ <<>> \in Seq(Titles)
      BY KnowledgeAssumption
    <3>. QED
      BY <1>2, <3>1
  <2>2. PICK h : h = hands[a]
    OBVIOUS
  <2>3. HandOk(h)'
    BY ONLY <2>1, <2>2, HandsOpen DEF HandOk
  <2>. QED
    BY <2>2, <2>3
<1> HIDE DEF hands
<1>5. PICK r : r = [pupil[p] EXCEPT !.pc = "gather", !.hands = hands]
  OBVIOUS
<1>6. pupil' = [pupil EXCEPT ![p] = r]
  BY ONLY <1>2, <1>5 DEF hands
<1>7. PupilOk(pupil[p])
  BY DEF KnowInv, PupilsOk
<1>8. r = [pupil[p] EXCEPT !.pc = "gather", !.hands = hands] /\ r.pc = "gather" /\ r.hands = hands
  BY <1>5, <1>7 DEF PupilOk
<1>9. PupilOk(r)'
  BY <1>4, <1>7, <1>8 DEF PupilOk, hands
<1>10. p \notin learned.calm
  BY <1>1 DEF KnowInv, CalmApart
<1>. QED
  BY <1>3, <1>6, <1>8, <1>9, <1>10, NothingStirs, TitlesStay DEF KnowInv, LearnedOk

(* The steps that only change where a request stands and what it writes.   *)
LEMMA TurnsOn ==
  ASSUME KnowInv, NEW p \in Pupils, NEW pc, pc = "read" => pupil[p].op = "batch", Turns(p, pc)
  PROVE  \E r : /\ PupilOk(r) /\ pupil' = [pupil EXCEPT ![p] = r]
                /\ r.pc = pc /\ r.gone = pupil[p].gone /\ r.op = pupil[p].op
<1>1. PupilOk(pupil[p])
  BY DEF KnowInv, PupilsOk
<1>2. PICK r : r = [pupil[p] EXCEPT !.pc = pc]
  OBVIOUS
<1>3. pupil' = [pupil EXCEPT ![p] = r]
  BY ONLY <1>2, Turns(p, pc) DEF Turns
<1>4. PupilOk(r) /\ r.pc = pc /\ r.gone = pupil[p].gone /\ r.op = pupil[p].op
  BY <1>1, <1>2 DEF PupilOk
<1>. QED
  BY <1>3, <1>4

LEMMA GoesOn ==
  ASSUME KnowInv, NEW p \in Pupils, NEW pc, NEW writes, pc = "read" => pupil[p].op = "batch",
         pupil' = [pupil EXCEPT ![p].pc = pc, ![p].writes = writes]
  PROVE  \E r : /\ PupilOk(r) /\ pupil' = [pupil EXCEPT ![p] = r]
                /\ r.pc = pc /\ r.gone = pupil[p].gone /\ r.op = pupil[p].op
<1>1. PupilOk(pupil[p])
  BY DEF KnowInv, PupilsOk
<1>2. PICK r : r = [pupil[p] EXCEPT !.pc = pc, !.writes = writes]
  OBVIOUS
<1>3. pupil' = [pupil EXCEPT ![p] = r]
  BY ONLY <1>2, pupil' = [pupil EXCEPT ![p].pc = pc, ![p].writes = writes]
<1>4. PupilOk(r) /\ r.pc = pc /\ r.gone = pupil[p].gone /\ r.op = pupil[p].op
  BY <1>1, <1>2 DEF PupilOk
<1>. QED
  BY <1>3, <1>4

LEMMA LearnedStays ==
  ASSUME LearnedOk, NEW r, PupilOk(r), NEW p, UNCHANGED learned \/ learned' = [learned EXCEPT !.calm = @ \ {p}]
                                                     \/ learned' = [learned EXCEPT !.calm = @ \cap {p}]
  PROVE  /\ LearnedOk' /\ PupilOk(r)' /\ learned'.taught = learned.taught
         /\ learned'.dropped = learned.dropped /\ learned'.mingled = learned.mingled
         /\ learned'.calm \subseteq learned.calm
         /\ learned' = [learned EXCEPT !.calm = @ \ {p}] => p \notin learned'.calm
<1>1. /\ LearnedOk' /\ learned'.taught = learned.taught
      /\ learned'.dropped = learned.dropped /\ learned'.mingled = learned.mingled
      /\ learned'.calm \subseteq learned.calm
      /\ learned' = [learned EXCEPT !.calm = @ \ {p}] => p \notin learned'.calm
  BY DEF LearnedOk
<1>2. PupilOk(r)'
  BY <1>1 DEF PupilOk, HandOk
<1>. QED
  BY <1>1, <1>2

LEMMA OthersGoOn ==
  ASSUME KnowInv, NEW p \in Pupils,
         Gathered(p) \/ ReadLow(p) \/ Vote(p) \/ Raised(p) \/ GiveUp(p)
  PROVE  KnowInv'
<1>1. UNCHANGED <<entries, born>>
  BY DEF Gathered, ReadLow, Vote, Raised, GiveUp
<1>2. PICK pc, writes :
        /\ Turns(p, pc) \/ pupil' = [pupil EXCEPT ![p].pc = pc, ![p].writes = writes]
        /\ pc # "merge" /\ (pc = "read" => pupil[p].op = "batch")
        /\ (p \in learned'.calm => pc \in {"promote", "raise", "over"} /\ ~ Merging(p))
        /\ UNCHANGED learned \/ learned' = [learned EXCEPT !.calm = @ \ {p}]
  <2>1. p \in learned.calm => pupil[p].pc \in {"merge", "promote", "raise", "over"}
    BY DEF KnowInv, CalmApart
  <2>2. CASE Gathered(p)
    BY <2>1, <2>2 DEF Gathered, Does
  <2>3. CASE ReadLow(p)
    <3>1. PICK writes : pupil' = [pupil EXCEPT ![p].pc = "raise", ![p].writes = writes]
      BY <2>3 DEF ReadLow
    <3>2. UNCHANGED learned /\ ~ Merging(p)
      BY <2>3 DEF ReadLow, Does, Merging
    <3>. WITNESS "raise", writes
    <3>. QED
      BY <3>1, <3>2
  <2>4. CASE Vote(p)
    <3>1. PICK writes : pupil' = [pupil EXCEPT ![p].pc = "raise", ![p].writes = writes]
      BY <2>4 DEF Vote
    <3>2. UNCHANGED learned /\ ~ Merging(p)
      BY <2>4 DEF Vote, Asks, Does, Merging
    <3>. WITNESS "raise", writes
    <3>. QED
      BY <3>1, <3>2
  <2>5. CASE Raised(p)
    BY <2>5 DEF Raised, Does, Merging
  <2>6. CASE GiveUp(p)
    <3>1. p \notin learned'.calm /\ AfterMerge(p) \in {"promote", "over"}
      BY <2>6 DEF GiveUp, AfterMerge, KnowInv, LearnedOk
    <3>. QED
      BY <2>6, <3>1 DEF GiveUp
  <2>. QED
    BY <2>2, <2>3, <2>4, <2>5, <2>6
<1>3. PICK r : /\ PupilOk(r) /\ pupil' = [pupil EXCEPT ![p] = r]
               /\ r.pc = pc /\ r.gone = pupil[p].gone /\ r.op = pupil[p].op
  <2>1. CASE Turns(p, pc)
    BY <1>2, <2>1, TurnsOn
  <2>2. CASE pupil' = [pupil EXCEPT ![p].pc = pc, ![p].writes = writes]
    BY <1>2, <2>2, GoesOn
  <2>. QED
    BY <1>2, <2>1, <2>2
<1>. QED
  BY <1>1, <1>2, <1>3, LearnedStays, NothingStirs, TitlesStay DEF KnowInv
-------------------------------------------------------------------------------
(* A request's hand moves.                                                  *)
HandMoved(p, a, h, op, pc) ==
  [pupil[p] EXCEPT !.op = op, !.pc = pc, !.hands = [pupil[p].hands EXCEPT ![a] = h]]
LEMMA HandMoves ==
  ASSUME KnowInv, learned.taught \subseteq learned'.taught, NEW p \in Pupils, NEW a \in Sources,
         NEW h, HandOk(h)', NEW op, NEW pc, pc # "read",
         NEW r, r = HandMoved(p, a, h, op, pc)
  PROVE  PupilOk(r)' /\ r.op = op /\ r.pc = pc
<1>1. PupilOk(pupil[p])
  BY DEF KnowInv, PupilsOk
<1>2. ASSUME NEW b \in Sources, NEW g, g = pupil[p].hands[b] PROVE HandOk(g)'
  <2>1. HandOk(g)
    BY <1>1, <1>2 DEF PupilOk
  <2>. QED
    BY <2>1 DEF HandOk
<1>. QED
  BY <1>1, <1>2 DEF PupilOk, HandMoved

LEMMA TeachLearns ==
  ASSUME KnowInv, NEW p \in Pupils, NEW a \in Sources, NEW t \in Titles, Idle(p), Teach(p, a, t),
         UNCHANGED <<entries, born, learned>>
  PROVE  KnowInv'
<1>1. p \notin learned.calm
  BY DEF KnowInv, CalmApart, Idle
<1>2. PICK h : h = Hand(<<t>>)
  OBVIOUS
<1>3. HandOk(h)'
  <2>1. <<t>> \in Seq(Titles)
    OBVIOUS
  <2>. QED
    BY <1>2, <2>1, HandsOpen DEF HandOk
<1>4. PICK r : r = HandMoved(p, a, h, "refuse", "gather")
  OBVIOUS
<1>5. p \in DOMAIN pupil /\ PupilOk(pupil[p])
  BY DEF KnowInv, PupilsOk
<1>6. pupil' = [pupil EXCEPT ![p] = r]
  BY ONLY <1>2, <1>4, <1>5, Teach(p, a, t) DEF Teach, PupilOk, HandMoved
<1>7. PupilOk(r)' /\ r.pc = "gather"
  BY <1>3, <1>4, HandMoves
<1>. QED
  BY <1>1, <1>6, <1>7, NothingStirs, TitlesStay DEF KnowInv, LearnedOk

LEMMA LookFinds ==
  ASSUME KnowInv, NEW p \in Pupils, NEW a \in Sources, Look(p, a)
  PROVE  KnowInv'
<1>1. p \notin learned.calm
  BY DEF KnowInv, CalmApart, Look, Does
<1>2. p \in DOMAIN pupil /\ PupilOk(pupil[p]) /\ HandOk(pupil[p].hands[a])
  BY DEF KnowInv, PupilsOk, PupilOk
<1> DEFINE there == Titled(Head(pupil[p].hands[a].left))
           e == entries[Oldest(there)]
           saw == IF there = {} THEN Unread ELSE [found |-> TRUE, from |-> e.from, conf |-> e.conf]
<1>3. /\ pupil' = [pupil EXCEPT ![p].hands[a].looked = TRUE, ![p].hands[a].saw = saw]
      /\ saw.found \in BOOLEAN /\ (saw.found => there # {})
  BY DEF Look, Unread
<1> HIDE DEF saw
<1>4. saw.found => Head(pupil[p].hands[a].left) \in learned.taught
  BY <1>3 DEF KnowInv, KnownOk, Titled
<1>5. PICK h : h = [pupil[p].hands[a] EXCEPT !.looked = TRUE, !.saw = saw]
  OBVIOUS
<1>6. pupil[p].hands[a].left # <<>> /\ UNCHANGED <<entries, born, learned>> /\ pupil[p].pc = "gather"
  BY DEF Look, Looking, Does
<1>7. HandOk(h)'
  BY <1>2, <1>3, <1>4, <1>5, <1>6 DEF HandOk
<1>8. PICK r : r = HandMoved(p, a, h, pupil[p].op, "gather")
  OBVIOUS
<1>9. PupilOk(r)' /\ r.pc = "gather"
  BY <1>6, <1>7, <1>8, HandMoves
<1>10. r = [pupil[p] EXCEPT !.hands = [pupil[p].hands EXCEPT ![a] = h]]
  BY <1>2, <1>6, <1>8 DEF PupilOk, HandMoved
<1>11. pupil' = [pupil EXCEPT ![p] = r]
  BY ONLY <1>2, <1>3, <1>5, <1>10 DEF PupilOk, HandOk
<1>. QED
  BY <1>1, <1>6, <1>9, <1>11, NothingStirs, TitlesStay DEF KnowInv, LearnedOk

(* A title is stored: merged into the first of its hash, or new.            *)
LEMMA IntoKeeps ==
  ASSUME KnowInv, NEW t, NEW saw, NEW a, entries' = Into(t, saw, a), born' = born
  PROVE  SameTitles
<1>1. CASE Titled(t) = {}
  BY <1>1, NothingStirs DEF Into
<1>2. CASE Titled(t) # {}
  <2>1. PICK o : o = Oldest(Titled(t))
    OBVIOUS
  <2>2. entries' = [entries EXCEPT ![o].from = saw.from \cup {a}, ![o].conf = AtMost100(saw.conf + 10)]
    BY <1>2, <2>1 DEF Into
  <2>3. \A i \in Known : EntryOk(entries[i])
    BY DEF KnowInv, KnownOk
  <2>4. DOMAIN entries' = Known /\ \A i \in Known : i # o => entries'[i] = entries[i]
    BY <2>2 DEF Known
  <2>5. o \in Known => /\ entries'[o].title = entries[o].title
                      /\ EntryOk(entries'[o])
    BY <2>2, <2>3 DEF EntryOk, Known
  <2>. QED
    BY <2>3, <2>4, <2>5 DEF SameTitles
<1>. QED
  BY <1>1, <1>2

LEMMA StoreKeeps ==
  ASSUME KnowInv, NEW p \in Pupils, NEW a \in Sources, Store(p, a)
  PROVE  KnowInv'
<1>1. p \in DOMAIN pupil /\ PupilOk(pupil[p]) /\ HandOk(pupil[p].hands[a])
  BY DEF KnowInv, PupilsOk, PupilOk
<1>2. PICK h : h = Hand(Tail(pupil[p].hands[a].left))
  OBVIOUS
<1> DEFINE t == Head(pupil[p].hands[a].left)
           saw == pupil[p].hands[a].saw
<1>3. /\ pupil[p].hands[a].looked /\ pupil[p].pc = "gather"
      /\ learned' = [learned EXCEPT !.taught = learned.taught \cup {t}, !.calm = {}]
      /\ IF saw.found THEN entries' = Into(t, saw, a) /\ born' = born
         ELSE entries' = With(born + 1, Entry(t, {a}, 50)) /\ born' = born + 1
      /\ pupil' = [pupil EXCEPT ![p].hands[a] = h]
  BY <1>2 DEF Store, Does
<1>4. t \in Titles /\ Tail(pupil[p].hands[a].left) \in Seq(Titles)
  BY <1>1, <1>3 DEF HandOk
<1>5. HandOk(h)'
  BY <1>2, <1>4, HandsOpen DEF HandOk
<1>6. PICK r : r = HandMoved(p, a, h, pupil[p].op, "gather")
  OBVIOUS
<1>7. r = [pupil[p] EXCEPT !.hands = [pupil[p].hands EXCEPT ![a] = h]]
  BY <1>1, <1>3, <1>6 DEF PupilOk, HandMoved
<1>8. pupil' = [pupil EXCEPT ![p] = r]
  BY ONLY <1>1, <1>3, <1>7 DEF PupilOk
<1> HIDE DEF t, saw
<1>9. /\ LearnedOk' /\ learned'.taught = learned.taught \cup {t} /\ learned'.dropped = learned.dropped
      /\ learned'.mingled = learned.mingled /\ learned'.calm = {}
  BY <1>3, <1>4 DEF KnowInv, LearnedOk
<1>10. PupilOk(r)' /\ r.pc = "gather"
  BY <1>5, <1>6, <1>9, HandMoves
<1>11. CASE saw.found
  <2>1. SameTitles
    BY <1>3, <1>11, IntoKeeps
  <2>2. t \in learned.taught
    BY <1>1, <1>3, <1>11 DEF HandOk, t, saw
  <2>. QED
    BY <1>8, <1>9, <1>10, <2>1, <2>2, TitlesStay
<1>12. CASE ~ saw.found
  <2>1. /\ born' = born + 1 /\ Known' = Known \cup {born + 1}
        /\ entries'[born + 1] = [title |-> t, from |-> {a}, conf |-> 50]
        /\ \A i \in Known : i # born + 1 => entries'[i] = entries[i]
    BY <1>3, <1>12 DEF With, Known, Entry
  <2>2. born + 1 \notin Known /\ born \in Nat /\ Known \subseteq 1 .. born
    BY DEF KnowInv, KnownOk
  <2>3. KnownOk'
    BY <1>4, <1>9, <2>1, <2>2 DEF KnowInv, KnownOk, EntryOk
  <2>4. /\ PupilsOk' /\ pupil'[p] = r
        /\ \A q \in Pupils : q # p => pupil'[q] = pupil[q]
    BY <1>8, <1>9, <1>10, PupilMoves DEF KnowInv
  <2>5. TopicSurvives'
    <3>1. t \in Topic(t)
      BY <1>4, TopicIs
    <3>. QED
      BY <1>9, <2>1, <2>2, <3>1 DEF KnowInv, TopicSurvives
  <2>6. MergesReplace'
    <3> SUFFICES ASSUME ~ learned.mingled, NEW q \in Pupils, Merging(q)'
                 PROVE  (\A o \in Pupils : Merging(o)' => o = q) /\ Replaced(entries', pupil'[q])
      BY <1>9 DEF MergesReplace
    <3>1. \A o \in Pupils : Merging(o)' => Merging(o) /\ pupil'[o].gone = pupil[o].gone
      BY <1>10, <2>4 DEF Merging, Does
    <3>2. (\A o \in Pupils : Merging(o) => o = q) /\ Replaced(entries, pupil[q])
      BY <3>1 DEF KnowInv, MergesReplace
    <3>3. Replaced(entries', pupil'[q])
      <4>1. ASSUME NEW i \in Known, NEW j, Stands(entries, pupil[q], i, j)
            PROVE  Stands(entries', pupil'[q], i, j)
        BY <2>1, <2>2, <3>1, <4>1 DEF Stands, Known
      <4>2. pupil[q].gone \subseteq Known /\ pupil'[q].gone = pupil[q].gone
        BY <3>1, <3>2 DEF Replaced, Known
      <4>3. \A i \in pupil[q].gone : \E j : Stands(entries, pupil[q], i, j)
        BY <3>2 DEF Replaced
      <4>. QED
        BY <2>1, <4>1, <4>2, <4>3 DEF Replaced, Known
    <3>. QED
      BY <3>1, <3>2, <3>3
  <2>7. CalmApart'
    BY <1>9 DEF CalmApart
  <2>. QED
    BY <1>9, <2>3, <2>4, <2>5, <2>6, <2>7 DEF KnowInv
<1>. QED
  BY <1>11, <1>12
-------------------------------------------------------------------------------
(* What a consolidation or a vote writes: a confidence and sources.         *)
LEMMA WriteKeeps ==
  ASSUME KnowInv, NEW p \in Pupils, WriteNext(p)
  PROVE  KnowInv'
<1>1. PupilOk(pupil[p])
  BY DEF KnowInv, PupilsOk
<1>2. PICK w : entries' = Updated(w)
  BY DEF WriteNext
<1>3. SameTitles
  <2>1. \A i \in Known : EntryOk(entries[i])
    BY DEF KnowInv, KnownOk
  <2>2. ASSUME NEW i \in Known
        PROVE  EntryOk(entries'[i]) /\ entries'[i].title = entries[i].title
    <3>1. CASE i # w.id
      BY <1>2, <2>1, <3>1 DEF Updated
    <3>2. CASE i = w.id
      <4>1. PICK from : entries'[i] = [entries[i] EXCEPT !.conf = w.conf, !.from = from]
        BY <1>2, <3>2 DEF Updated
      <4>. QED
        BY <2>1, <4>1 DEF EntryOk
    <3>. QED
      BY <3>1, <3>2
  <2>3. DOMAIN entries' = Known /\ born' = born
    BY <1>2 DEF Updated, WriteNext
  <2>. QED
    BY <2>2, <2>3 DEF SameTitles
<1>4. learned' = [learned EXCEPT !.calm = @ \cap {p}]
  BY DEF WriteNext
<1>5. PICK r : r = [pupil[p] EXCEPT !.writes = Tail(pupil[p].writes)]
  OBVIOUS
<1>6. pupil' = [pupil EXCEPT ![p] = r]
  BY ONLY <1>5, WriteNext(p) DEF WriteNext
<1>7. PupilOk(r) /\ r.pc = pupil[p].pc /\ r.gone = pupil[p].gone /\ r.op = pupil[p].op
  BY <1>1, <1>5 DEF PupilOk
<1>8. /\ LearnedOk' /\ PupilOk(r)' /\ learned'.taught = learned.taught
      /\ learned'.dropped = learned.dropped /\ learned'.mingled = learned.mingled
      /\ learned'.calm \subseteq learned.calm
  BY <1>4, <1>7, LearnedStays DEF KnowInv
<1>9. p \in learned'.calm => pupil[p].pc \in {"merge", "promote", "raise", "over"}
  BY <1>8 DEF KnowInv, CalmApart
<1>. QED
  BY <1>3, <1>6, <1>7, <1>8, <1>9, TitlesStay DEF Merging, Does

(* A consolidation reads and decides.                                       *)
LEMMA ReadKeeps ==
  ASSUME KnowInv, NEW p \in Pupils, ReadAll(p)
  PROVE  KnowInv'
<1>1. PupilOk(pupil[p])
  BY DEF KnowInv, PupilsOk
<1>2. PICK plan : plan = Consolidated(entries)
  OBVIOUS
<1>3. /\ UNCHANGED <<entries, born>>
      /\ pupil' = [pupil EXCEPT ![p].pc = "merge", ![p].writes = plan.writes, ![p].gone = plan.gone]
      /\ learned' = [learned EXCEPT !.calm = learned.calm \cup {p},
                                    !.mingled = learned.mingled \/ \E q \in Pupils \ {p} : Merging(q)]
  BY <1>2 DEF ReadAll
<1>4. pupil[p].op \in {"batch", "consolidate"}
  BY <1>1 DEF ReadAll, Asks, Does, PupilOk
<1>5. PICK r : r = [pupil[p] EXCEPT !.pc = "merge", !.writes = plan.writes, !.gone = plan.gone]
  OBVIOUS
<1>6. pupil' = [pupil EXCEPT ![p] = r]
  BY ONLY <1>3, <1>5
<1>7. /\ LearnedOk' /\ learned'.taught = learned.taught /\ learned'.dropped = learned.dropped
      /\ learned'.calm = learned.calm \cup {p}
      /\ learned'.mingled <=> learned.mingled \/ \E q \in Pupils \ {p} : Merging(q)
  BY <1>3 DEF KnowInv, LearnedOk
<1>8. r.pc = "merge" /\ r.gone = plan.gone /\ r.op = pupil[p].op /\ PupilOk(r)
  BY <1>1, <1>5 DEF PupilOk
<1>9. PupilOk(r)'
  BY <1>7, <1>8 DEF PupilOk, HandOk
<1>10. /\ PupilsOk' /\ pupil'[p] = r
       /\ \A q \in Pupils : q # p => pupil'[q] = pupil[q]
  BY <1>6, <1>7, <1>9, PupilMoves DEF KnowInv
<1>11. /\ Replaced(entries, plan)
       /\ \A i, j \in DOMAIN entries \ plan.gone : i # j => entries[j].title \notin Alike[entries[i].title]
  <2>1. born \in Nat /\ Readable(entries)
    BY DEF KnowInv, KnownOk, Readable, EntryOk, Known
  <2>. QED
    BY <1>2, <2>1, ConsolidatedIs
<1>12. KnownOk' /\ TopicSurvives'
  <2>1. KnownOk'
    BY <1>3, <1>7 DEF KnowInv, KnownOk, Known
  <2>2. TopicSurvives'
    BY <1>3, <1>7 DEF KnowInv, TopicSurvives, Known
  <2>. QED
    BY <2>1, <2>2
<1>13. MergesReplace'
  <2> SUFFICES ASSUME ~ learned.mingled, \A q \in Pupils \ {p} : ~ Merging(q), NEW q \in Pupils, Merging(q)'
               PROVE  (\A o \in Pupils : Merging(o)' => o = q) /\ Replaced(entries', pupil'[q])
    BY <1>7 DEF MergesReplace
  <2>1. \A o \in Pupils : Merging(o)' => o = p
    BY <1>10 DEF Merging, Does
  <2>2. Replaced(entries', pupil'[p])
    BY <1>3, <1>8, <1>10, <1>11 DEF Replaced, Stands
  <2>. QED
    BY <2>1, <2>2
<1>14. CalmApart'
  <2> SUFFICES ASSUME NEW q \in learned'.calm
               PROVE  /\ pupil'[q].op \in {"batch", "consolidate"}
                      /\ pupil'[q].pc \in {"merge", "promote", "raise", "over"}
                      /\ \A i, j \in Left(q)' : i # j => entries'[j].title \notin Alike[entries'[i].title]
    BY DEF CalmApart
  <2>1. CASE q = p
    <3>1. Left(p)' = DOMAIN entries \ plan.gone
      BY <1>3, <1>8, <1>10 DEF Left, Known
    <3>. QED
      BY <1>3, <1>4, <1>8, <1>10, <1>11, <2>1, <3>1
  <2>2. CASE q # p
    <3>1. q \in learned.calm /\ q \in Pupils
      BY <1>7, <2>2 DEF KnowInv, LearnedOk
    <3>2. Left(q)' = Left(q) /\ pupil'[q] = pupil[q]
      BY <1>3, <1>10, <2>2, <3>1 DEF Left, Known
    <3>. QED
      BY <1>3, <3>1, <3>2 DEF KnowInv, CalmApart
  <2>. QED
    BY <2>1, <2>2
<1>. QED
  BY <1>7, <1>10, <1>12, <1>13, <1>14 DEF KnowInv

(* It removes what was merged into others.                                  *)
LEMMA PruneKeeps ==
  ASSUME KnowInv, NEW p \in Pupils, Prune(p)
  PROVE  KnowInv'
<1> DEFINE gone == pupil[p].gone
<1>1. /\ Merging(p) /\ born' = born /\ Turns(p, AfterMerge(p)) /\ AfterMerge(p) \in {"promote", "over"}
      /\ Known' = Known \ gone /\ \A i \in Known' : entries'[i] = entries[i]
      /\ learned' = IF gone = {} THEN learned ELSE [learned EXCEPT !.calm = @ \cap {p}]
  BY DEF Prune, Without, AfterMerge, Known
<1>2. PICK r : /\ PupilOk(r) /\ pupil' = [pupil EXCEPT ![p] = r]
               /\ r.pc = AfterMerge(p) /\ r.gone = gone /\ r.op = pupil[p].op
  <2>1. AfterMerge(p) # "read"
    BY <1>1
  <2>. QED
    BY <1>1, <2>1, TurnsOn
<1> HIDE DEF gone
<1>3. /\ LearnedOk' /\ PupilOk(r)' /\ learned'.taught = learned.taught
      /\ learned'.dropped = learned.dropped /\ learned'.mingled = learned.mingled
      /\ learned'.calm \subseteq learned.calm
  BY <1>1, <1>2, LearnedStays DEF KnowInv
<1>4. /\ PupilsOk' /\ pupil'[p] = r
      /\ \A q \in Pupils : q # p => pupil'[q] = pupil[q]
  BY <1>2, <1>3, PupilMoves DEF KnowInv
<1>5. KnownOk'
  BY <1>1, <1>3 DEF KnowInv, KnownOk
<1>6. TopicSurvives'
  <2> SUFFICES ASSUME ~ learned.mingled, NEW t \in learned.taught, Topic(t) \cap learned.dropped = {}
               PROVE  \E i \in Known' : entries'[i].title \in Topic(t)
    BY <1>3 DEF TopicSurvives
  <2>1. PICK i \in Known : entries[i].title \in Topic(t)
    BY DEF KnowInv, TopicSurvives
  <2>2. CASE i \notin gone
    BY <1>1, <2>1, <2>2
  <2>3. CASE i \in gone
    <3>1. PICK j : Stands(entries, pupil[p], i, j)
      BY <1>1, <2>3 DEF KnowInv, MergesReplace, Replaced, gone
    <3>2. j \in Known' /\ entries'[j] = entries[j] /\ entries[j].title \in Topic(entries[i].title)
      BY <1>1, <3>1 DEF Stands, gone, Known
    <3>3. t \in Titles /\ entries[i].title \in Titles /\ entries[j].title \in Titles
      BY <1>1, <2>1, <3>2 DEF KnowInv, KnownOk, LearnedOk, EntryOk
    <3>4. entries[j].title \in Topic(t)
      BY <2>1, <3>2, <3>3, TopicIs
    <3>. QED
      BY <3>2, <3>4
  <2>. QED
    BY <2>2, <2>3
<1>7. MergesReplace'
  <2> SUFFICES ASSUME ~ learned.mingled, NEW q \in Pupils, Merging(q)' PROVE FALSE
    BY <1>3 DEF MergesReplace
  <2>1. q # p /\ Merging(q)
    BY <1>1, <1>2, <1>4 DEF Merging, Does
  <2>. QED
    BY <1>1, <2>1 DEF KnowInv, MergesReplace
<1>8. CalmApart'
  <2> SUFFICES ASSUME NEW q \in learned'.calm
               PROVE  /\ pupil'[q].op \in {"batch", "consolidate"}
                      /\ pupil'[q].pc \in {"merge", "promote", "raise", "over"}
                      /\ \A i, j \in Left(q)' : i # j => entries'[j].title \notin Alike[entries'[i].title]
    BY DEF CalmApart
  <2>1. /\ q \in Pupils /\ pupil[q].op \in {"batch", "consolidate"}
        /\ pupil[q].pc \in {"merge", "promote", "raise", "over"}
        /\ \A i, j \in Left(q) : i # j => entries[j].title \notin Alike[entries[i].title]
    BY <1>3 DEF KnowInv, LearnedOk, CalmApart
  <2>2. CASE q = p
    <3>1. Left(p)' \subseteq Left(p)
      BY <1>1, <1>2, <1>4 DEF Left, gone, Merging, Does
    <3>2. Left(p)' \subseteq Known'
      BY DEF Left
    <3>. QED
      BY <1>1, <1>2, <1>4, <2>1, <2>2, <3>1, <3>2
  <2>3. CASE q # p
    <3>1. gone = {}
      BY <1>1, <2>3 DEF KnowInv, LearnedOk
    <3>2. Left(q)' = Left(q) /\ pupil'[q] = pupil[q] /\ Left(q)' \subseteq Known'
      BY <1>1, <1>4, <2>1, <2>3, <3>1 DEF Left
    <3>. QED
      BY <1>1, <2>1, <3>2
  <2>. QED
    BY <2>2, <2>3
<1>. QED
  BY <1>3, <1>4, <1>5, <1>6, <1>7, <1>8 DEF KnowInv

(* A person edits a title or deletes entries.                               *)
LEMMA TouchKeeps ==
  ASSUME KnowInv, NEW p \in Pupils, NEW ids, NEW now, Touches(p, ids, now), pupil[p].pc = "start",
         DOMAIN now \subseteq Known, \A i \in DOMAIN now : EntryOk(now[i]),
         \A i \in Known \ ids : i \in DOMAIN now /\ now[i] = entries[i]
  PROVE  KnowInv'
<1> DEFINE lost == {entries[i].title : i \in ids \cap Known}
           new == {now[i].title : i \in ids \cap DOMAIN now}
<1>1. /\ entries' = now /\ born' = born /\ Turns(p, "over")
      /\ learned' = [learned EXCEPT !.calm = {}, !.dropped = learned.dropped \cup lost,
                       !.taught = learned.taught \cup new,
                       !.mingled = learned.mingled \/ \E q \in Pupils \ {p} : Merging(q)]
  BY DEF Touches
<1>2. lost \subseteq Titles /\ new \subseteq Titles
  BY DEF KnowInv, KnownOk, EntryOk
<1>3. ASSUME NEW i \in DOMAIN now
      PROVE  now[i].title \in learned.taught \cup new
  <2>1. CASE i \in ids
    BY <2>1
  <2>2. CASE i \notin ids
    BY <2>2 DEF KnowInv, KnownOk
  <2>. QED
    BY <2>1, <2>2
<1>4. \A i \in ids \cap Known : entries[i].title \in lost
  OBVIOUS
<1>5. \A t \in new : \E i \in DOMAIN now : now[i].title = t
  OBVIOUS
<1> HIDE DEF lost, new
<1>6. /\ LearnedOk' /\ learned'.taught = learned.taught \cup new
      /\ learned'.dropped = learned.dropped \cup lost /\ learned'.calm = {}
      /\ learned'.mingled <=> learned.mingled \/ \E q \in Pupils \ {p} : Merging(q)
  BY <1>1, <1>2 DEF KnowInv, LearnedOk
<1>7. PICK r : PupilOk(r) /\ pupil' = [pupil EXCEPT ![p] = r] /\ r.pc = "over"
  BY <1>1, TurnsOn
<1>8. PupilOk(r)'
  BY <1>6, <1>7 DEF PupilOk, HandOk
<1>9. /\ PupilsOk' /\ pupil'[p] = r
      /\ \A q \in Pupils : q # p => pupil'[q] = pupil[q]
  BY <1>6, <1>7, <1>8, PupilMoves DEF KnowInv
<1>10. KnownOk'
  BY <1>1, <1>3, <1>6 DEF KnowInv, KnownOk, Known
<1>11. TopicSurvives'
  <2> SUFFICES ASSUME ~ learned.mingled, NEW t \in learned.taught \cup new,
                      Topic(t) \cap (learned.dropped \cup lost) = {}
               PROVE  \E i \in DOMAIN now : now[i].title \in Topic(t)
    BY <1>1, <1>6 DEF TopicSurvives, Known
  <2>1. CASE t \in learned.taught
    <3>1. PICK i \in Known : entries[i].title \in Topic(t)
      BY <2>1 DEF KnowInv, TopicSurvives
    <3>2. i \notin ids
      BY <1>4, <3>1
    <3>. QED
      BY <3>1, <3>2
  <2>2. CASE t \in new
    <3>1. PICK i \in DOMAIN now : now[i].title = t
      BY <1>5, <2>2
    <3>2. t \in Topic(t)
      BY <1>2, <2>2, TopicIs
    <3>. QED
      BY <3>1, <3>2
  <2>. QED
    BY <2>1, <2>2
<1>12. MergesReplace'
  <2> SUFFICES ASSUME ~ learned.mingled, \A q \in Pupils \ {p} : ~ Merging(q), NEW q \in Pupils, Merging(q)'
               PROVE  FALSE
    BY <1>6 DEF MergesReplace
  <2>. QED
    BY <1>7, <1>9 DEF Merging, Does
<1>13. CalmApart'
  BY <1>6 DEF CalmApart
<1>. QED
  BY <1>6, <1>9, <1>10, <1>11, <1>12, <1>13 DEF KnowInv

LEMMA PersonEdits ==
  ASSUME KnowInv, NEW p \in Pupils, Rename(p) \/ Delete(p)
  PROVE  KnowInv'
<1>1. \A i \in Known : EntryOk(entries[i])
  BY DEF KnowInv, KnownOk
<1>2. CASE Rename(p)
  <2> DEFINE now(t) == [i \in Known |-> IF i = pupil[p].on THEN [entries[i] EXCEPT !.title = t] ELSE entries[i]]
  <2>1. PICK t \in Titles : Touches(p, {pupil[p].on}, now(t)) /\ pupil[p].pc = "start"
    BY <1>2 DEF Rename, Asks
  <2>2. DOMAIN now(t) = Known /\ \A i \in Known \ {pupil[p].on} : now(t)[i] = entries[i]
    OBVIOUS
  <2>3. \A i \in Known : EntryOk(now(t)[i])
    BY <1>1 DEF EntryOk
  <2> HIDE DEF now
  <2>. QED
    BY <2>1, <2>2, <2>3, TouchKeeps
<1>3. CASE Delete(p)
  <2> DEFINE ids == pupil[p].on
             now == [i \in Without(ids) |-> entries[i]]
  <2>1. Touches(p, ids, now) /\ pupil[p].pc = "start"
    BY <1>3 DEF Delete, Asks
  <2>2. DOMAIN now = Known \ ids /\ \A i \in Known \ ids : now[i] = entries[i]
    BY DEF Without
  <2> HIDE DEF now, ids
  <2>. QED
    BY <1>1, <2>1, <2>2, TouchKeeps
<1>. QED
  BY <1>2, <1>3
-------------------------------------------------------------------------------
LEMMA KnowledgeBegins ==
  ASSUME NEW l, l.stock \in Seq([title : Titles, from : SUBSET Sources, conf : Nat]), KnowledgeInit(l)
  PROVE  KnowInv
<1>1. /\ born \in Nat /\ Known = 1 .. born
      /\ \A i \in Known : entries[i] \in [title : Titles, from : SUBSET Sources, conf : Nat]
      /\ learned.taught = {entries[i].title : i \in Known}
  <2>1. PICK stock \in Seq([title : Titles, from : SUBSET Sources, conf : Nat]) : stock = l.stock
    OBVIOUS
  <2>2. /\ Len(stock) \in Nat /\ DOMAIN stock = 1 .. Len(stock)
        /\ \A i \in 1 .. Len(stock) : stock[i] \in [title : Titles, from : SUBSET Sources, conf : Nat]
    <3> DEFINE Stock == [title : Titles, from : SUBSET Sources, conf : Nat]
    <3>1. stock \in Seq(Stock)
      OBVIOUS
    <3> HIDE DEF Stock
    <3>2. /\ Len(stock) \in Nat /\ DOMAIN stock = 1 .. Len(stock)
          /\ \A i \in 1 .. Len(stock) : stock[i] \in Stock
      BY <3>1
    <3>. QED
      BY <3>2 DEF Stock
  <2>3. /\ entries = [i \in 1 .. Len(stock) |-> stock[i]] /\ born = Len(stock)
        /\ learned.taught = {stock[i].title : i \in 1 .. Len(stock)}
    BY <2>1, <2>2 DEF KnowledgeInit
  <2>. QED
    BY <2>2, <2>3 DEF Known
<1>2. KnownOk
  BY <1>1 DEF KnownOk, EntryOk
<1>3. LearnedOk /\ learned.calm = {}
  BY <1>1 DEF KnowledgeInit, LearnedOk
<1>4. ASSUME NEW p \in Pupils PROVE PupilOk(pupil[p]) /\ pupil[p].pc = "start"
  <2>1. PICK hands : hands = Closed
    OBVIOUS
  <2>2. DOMAIN hands = Sources /\ \A a \in Sources : HandOk(hands[a])
    <3>1. <<>> \in Seq(Titles)
      OBVIOUS
    <3>2. ASSUME NEW h, h = Hand(<<>>) PROVE HandOk(h)
      BY <3>1, <3>2, HandsOpen DEF HandOk
    <3>. QED
      BY <2>1, <3>2 DEF Closed
  <2>3. pupil[p] = [op |-> l.asks[p].op, on |-> l.asks[p].on, pc |-> "start", hands |-> hands,
                    writes |-> <<>>, gone |-> {}]
    BY <2>1 DEF KnowledgeInit, Pupil
  <2>. QED
    BY <2>2, <2>3 DEF PupilOk
<1>5. PupilsOk
  BY <1>4 DEF KnowledgeInit, PupilsOk
<1>6. TopicSurvives
  <2>1. \A t \in Titles : t \in Topic(t)
    BY TopicIs
  <2>. QED
    BY <1>1, <2>1 DEF TopicSurvives
<1>7. MergesReplace /\ CalmApart
  BY <1>3, <1>4 DEF MergesReplace, CalmApart, Merging, Does
<1>. QED
  BY <1>2, <1>3, <1>5, <1>6, <1>7 DEF KnowInv

LEMMA KnowledgeRests ==
  ASSUME KnowInv, UNCHANGED knowledgeVars
  PROVE  KnowInv'
<1>1. UNCHANGED <<entries, born, pupil, learned>>
  BY DEF knowledgeVars
<1>2. KnownOk' /\ LearnedOk'
  BY <1>1 DEF KnowInv, KnownOk, LearnedOk, Known
<1>3. PupilsOk'
  BY <1>1 DEF KnowInv, PupilsOk, PupilOk, HandOk
<1>4. TopicSurvives' /\ MergesReplace'
  BY <1>1 DEF KnowInv, TopicSurvives, MergesReplace, Known, Merging, Does
<1>5. CalmApart'
  BY <1>1 DEF KnowInv, CalmApart, Left, Known
<1>. QED
  BY <1>2, <1>3, <1>4, <1>5 DEF KnowInv

LEMMA KnowledgeStep ==
  ASSUME KnowInv, [Next]_vars
  PROVE  KnowInv'
<1>1. ASSUME NEW p \in Pupils, KnowledgeWork(p) PROVE KnowInv'
  BY <1>1, ExtractLearns, OthersGoOn, LookFinds, StoreKeeps, ReadKeeps, WriteKeeps, PruneKeeps, PersonEdits
     DEF KnowledgeWork, Study
<1>2. ASSUME NEW s \in Reviewers, NEW v \in Versions, RejectSaying(s, v) PROVE KnowInv'
  <2>1. s \in Pupils /\ Subject \in Sources /\ Refusal \in Titles
    BY ReviewAssumption
  <2>2. Idle(s) /\ Teach(s, Subject, Refusal) /\ UNCHANGED <<entries, born, learned>>
    BY <1>2 DEF RejectSaying, Rejecting, Free
  <2>. QED
    BY <2>1, <2>2, TeachLearns
<1>3. ASSUME NEW s \in Reviewers, NEW v \in Versions, Review(s, v)
      PROVE  UNCHANGED knowledgeVars \/ RejectSaying(s, v)
  BY <1>3 DEF Review, Accept, AcceptPartial, EditAndAccept, Accepting, Reject, BatchReject,
              AutoReview, AskTrial, Begins, Untouched
<1>4. ASSUME NEW s \in Reviewers,
             Untried(s) \/ RunTrial(s) \/ MarkTrial(s) \/ Decide(s) \/ Apply(s)
      PROVE  UNCHANGED knowledgeVars
  BY <1>4 DEF Untried, RunTrial, MarkTrial, Decide, Apply, Load, Read, Write, InsertItem, BreakOff,
              Close, TellApi, Trigger, Untouched
<1>5. ASSUME NEW t \in Tasks, DependencyWork(t) PROVE UNCHANGED knowledgeVars
  BY <1>5 DEF DependencyWork
<1>6. UNCHANGED vars \/ DeleteTarget => UNCHANGED knowledgeVars
  BY DEF vars, DeleteTarget, Untouched
<1>. QED
  BY <1>1, <1>2, <1>3, <1>4, <1>5, <1>6, KnowledgeRests DEF Next

LEMMA KnowledgeHolds == Spec => []KnowInv
<1>1. ASSUME Init PROVE KnowInv
  <2>1. PICK l \in Lessons \cup {NoLesson} : KnowledgeInit(l)
    BY <1>1 DEF Init
  <2>2. l.stock \in Seq([title : Titles, from : SUBSET Sources, conf : Nat])
    <3>1. CASE l \in Lessons
      BY <3>1, KnowledgeAssumption
    <3>2. CASE l = NoLesson
      BY <3>2 DEF NoLesson
    <3>. QED
      BY <2>1, <3>1, <3>2
  <2>. QED
    BY <2>1, <2>2, KnowledgeBegins
<1>2. KnowInv /\ [Next]_vars => KnowInv'
  BY KnowledgeStep
<1>. QED
  BY <1>1, <1>2, PTL DEF Spec

(* What was learned stays known, however extractions, votes and merges     *)
(* cross and whatever stale copies they write (upsert_entry, consolidate,  *)
(* auto_merge), unless a person dropped it or two consolidations crossed.  *)
THEOREM WhatWasLearnedStays == Spec => []TopicSurvives
<1>1. KnowInv => TopicSurvives
  BY DEF KnowInv
<1>. QED
  BY <1>1, KnowledgeHolds, PTL

(* A consolidation nobody disturbed leaves no two entries alike, though it *)
(* compares every two once, as it read them (consolidate, service.py:475). *)
THEOREM NoTwinsAreLeft == Spec => []NoTwinsLeft
<1>1. KnowInv => NoTwinsLeft
  BY DEF KnowInv, CalmApart, Left, NoTwinsLeft
<1>. QED
  BY <1>1, KnowledgeHolds, PTL
-------------------------------------------------------------------------------
(* The clusters and the batches. *)

(* A machine has a run for every number of turns.                           *)
Runs(f, x, step, n) == \A k \in 0 .. n : f[k] = IF k = 0 THEN x ELSE step[<<k, f[k - 1]>>]
LEMMA StepsExist ==
  ASSUME NEW S, NEW x \in S, NEW N \in Nat, NEW step \in [(1 .. N) \X S -> S]
  PROVE  \E f \in [0 .. N -> S] : Runs(f, x, step, N)
<1> USE DEF Runs
<1> DEFINE T == {n \in 0 .. N : ~ \E f \in [0 .. n -> S] : Runs(f, x, step, n)}
<1>1. SUFFICES ASSUME T # {} PROVE FALSE
  OBVIOUS
<1>2. PICK n \in T : \A k \in T : n <= k
  <2>1. T \in SUBSET (0 .. N)
    OBVIOUS
  <2> HIDE DEF T
  <2>. QED
    BY <1>1, <2>1, Least
<1>3. CASE n = 0
  <2>1. PICK f : f = [k \in 0 .. 0 |-> x]
    OBVIOUS
  <2>2. f \in [0 .. 0 -> S] /\ Runs(f, x, step, 0)
    BY <2>1
  <2>. QED
    BY <1>3, <2>2
<1>4. CASE n # 0
  <2>1. n - 1 \in 0 .. N /\ n - 1 \notin T
    <3>1. n \in 0 .. N
      BY <1>2
    <3> HIDE DEF T
    <3>2. n - 1 \in 0 .. N /\ ~ n <= n - 1
      BY <1>4, <3>1
    <3>. QED
      BY <1>2, <3>2
  <2>2. PICK f \in [0 .. n - 1 -> S] : Runs(f, x, step, n - 1)
    BY <2>1
  <2>3. PICK g : g = [k \in 0 .. n |-> IF k = n THEN step[<<n, f[n - 1]>>] ELSE f[k]]
    OBVIOUS
  <2>4. n \in 1 .. N /\ f[n - 1] \in S
    BY <1>4, <2>1
  <2>5. step[<<n, f[n - 1]>>] \in S
    BY <2>4
  <2>6. g \in [0 .. n -> S]
    BY <2>3, <2>5
  <2>7. ASSUME NEW k \in 0 .. n PROVE g[k] = IF k = 0 THEN x ELSE step[<<k, g[k - 1]>>]
    <3>1. CASE k = n
      <4>1. n # 0 /\ n \in 0 .. n /\ n - 1 \in 0 .. n /\ n - 1 # n
        BY <2>4
      <4>2. g[n] = step[<<n, f[n - 1]>>] /\ g[n - 1] = f[n - 1]
        BY ONLY <2>3, <4>1
      <4>. QED
        BY ONLY <3>1, <4>1, <4>2
    <3>2. CASE k # n
      <4>1. k \in 0 .. n - 1 /\ (k # 0 => k - 1 \in 0 .. n - 1)
        BY <3>2
      <4>2. f[k] = IF k = 0 THEN x ELSE step[<<k, f[k - 1]>>]
        BY <2>2, <4>1
      <4>3. g[k] = f[k] /\ (k # 0 => g[k - 1] = f[k - 1])
        BY <2>3, <3>2, <4>1
      <4>. QED
        BY <4>2, <4>3
    <3>. QED
      BY <3>1, <3>2
  <2>. QED
    BY <2>6, <2>7
<1>. QED
  BY <1>3, <1>4

(* A set as a list has its elements, each once.                             *)
Distinct(s) == \A i, j \in DOMAIN s : s[i] = s[j] => i = j
LEMMA SetToSeqIs ==
  ASSUME NEW S, IsFiniteSet(S), NEW s, s = SetToSeq(S)
  PROVE  s \in Seq(S) /\ Len(s) = Cardinality(S) /\ ToSet(s) = S /\ Distinct(s)
<1>1. PICK N \in Nat : N = Cardinality(S)
  BY FS_CardinalityType
<1>2. \E f \in [1 .. N -> S] : IsInjective(f)
  <2>1. ExistsBijection(1 .. N, S)
    BY <1>1, FS_CardinalityType
  <2>. QED
    BY <2>1 DEF ExistsBijection, Bijection, Injection
<1>3. s \in [1 .. N -> S] /\ IsInjective(s)
  BY <1>1, <1>2 DEF SetToSeq
<1>4. s \in Surjection(1 .. N, S)
  <2>1. Cardinality(1 .. N) = N
    BY <1>1, FS_Interval
  <2>2. s \in Injection(1 .. N, S)
    BY <1>3 DEF Injection
  <2>. QED
    BY <1>1, <2>1, <2>2, FS_Injection
<1>. QED
  BY <1>1, <1>3, <1>4 DEF Surjection, ToSet, Distinct, IsInjective

(* A list without repetitions is as long as the set of its elements.        *)
LEMMA DistinctLen ==
  ASSUME NEW S, NEW s \in Seq(S), Distinct(s)
  PROVE  IsFiniteSet(ToSet(s)) /\ Cardinality(ToSet(s)) = Len(s)
<1>1. Len(s) \in Nat /\ DOMAIN s = 1 .. Len(s) /\ s \in [1 .. Len(s) -> S]
  OBVIOUS
<1>2. PICK N \in Nat : N = Len(s)
  BY <1>1
<1>3. s \in Bijection(1 .. N, ToSet(s))
  BY <1>1, <1>2 DEF Bijection, Injection, Surjection, IsInjective, Distinct, ToSet
<1>4. IsFiniteSet(1 .. N) /\ Cardinality(1 .. N) = N
  BY FS_Interval
<1>5. ExistsBijection(1 .. N, ToSet(s))
  BY <1>3 DEF ExistsBijection
<1>. QED
  BY <1>2, <1>4, <1>5, FS_Bijection

(* InOrder numbers the members of a finite set of numbers, each once.      *)
LEMMA InOrderIs ==
  ASSUME NEW K \in SUBSET Nat, IsFiniteSet(K)
  PROVE  /\ Cardinality(K) \in Nat
         /\ \A n \in 1 .. Cardinality(K) : InOrder(K)[n] \in K
         /\ \A n, m \in 1 .. Cardinality(K) : InOrder(K)[n] = InOrder(K)[m] => n = m
         /\ \A k \in K : \E n \in 1 .. Cardinality(K) : InOrder(K)[n] = k
<1> DEFINE N == Cardinality(K)
           below == [k \in K |-> Cardinality({j \in K : j < k})]
<1>1. N \in Nat
  BY FS_CardinalityType
<1>2. \A k \in K : below[k] = Cardinality({j \in K : j < k}) /\ IsFiniteSet({j \in K : j < k})
  <2>1. \A k \in K : {j \in K : j < k} \in SUBSET K
    OBVIOUS
  <2>2. \A k \in K : IsFiniteSet({j \in K : j < k})
    BY ONLY IsFiniteSet(K), <2>1, FS_Subset
  <2>. QED
    BY <2>2
<1>3. \A n \in 1 .. N : InOrder(K)[n] = CHOOSE k \in K : Cardinality({j \in K : j < k}) = n - 1
  BY DEF InOrder
<1> HIDE DEF below, N
<1>4. below \in [K -> 0 .. N - 1]
  <2> SUFFICES ASSUME NEW k \in K PROVE below[k] \in 0 .. N - 1
    BY DEF below
  <2>1. PICK U : U = {j \in K : j < k}
    OBVIOUS
  <2>2. U \in SUBSET K /\ U # K /\ IsFiniteSet(U)
    BY <1>2, <2>1
  <2>3. Cardinality(U) \in Nat /\ Cardinality(U) <= N /\ Cardinality(U) # N
    BY <2>2, FS_Subset, FS_CardinalityType DEF N
  <2>4. below[k] = Cardinality(U)
    BY <1>2, <2>1
  <2>. QED
    BY <1>1, <2>3, <2>4
<1>5. ASSUME NEW k \in K, NEW l \in K, k < l PROVE below[k] < below[l]
  <2>1. PICK lo, up : lo = {j \in K : j < k} /\ up = {j \in K : j < l}
    OBVIOUS
  <2>2. lo \in SUBSET up /\ lo # up /\ IsFiniteSet(up) /\ IsFiniteSet(lo)
    <3>1. k \in up /\ k \notin lo
      BY <1>5, <2>1
    <3>2. ASSUME NEW j \in lo PROVE j \in up
      <4>1. j \in K /\ j < k
        BY <2>1
      <4>2. j \in Int /\ k \in Int /\ l \in Int
        BY <4>1
      <4>. QED
        BY <1>5, <2>1, <4>1, <4>2
    <3>3. IsFiniteSet(up) /\ IsFiniteSet(lo)
      BY <1>2, <2>1
    <3>. QED
      BY <3>1, <3>2, <3>3
  <2>3. Cardinality(lo) \in Nat /\ Cardinality(up) \in Nat /\ Cardinality(lo) <= Cardinality(up)
        /\ Cardinality(lo) # Cardinality(up)
    BY <2>2, FS_Subset, FS_CardinalityType
  <2>4. below[k] = Cardinality(lo) /\ below[l] = Cardinality(up)
    BY <1>2, <2>1
  <2>. QED
    BY <2>3, <2>4
<1>6. \A k, l \in K : below[k] = below[l] => k = l
  BY <1>4, <1>5
<1> DEFINE rank == [k \in K |-> below[k] + 1]
<1>7. rank \in [K -> 1 .. N] /\ \A k \in K : rank[k] = below[k] + 1
  BY <1>1, <1>4
<1> HIDE DEF rank
<1>8. rank \in Injection(K, 1 .. N)
  <2>1. \A k, l \in K : rank[k] = rank[l] => k = l
    BY <1>4, <1>6, <1>7
  <2>. QED
    BY <1>7, <2>1 DEF Injection, IsInjective
<1>9. rank \in Surjection(K, 1 .. N)
  <2>1. IsFiniteSet(1 .. N) /\ Cardinality(1 .. N) = Cardinality(K)
    BY <1>1, FS_Interval DEF N
  <2>. QED
    BY <1>8, <2>1, FS_Injection
<1>10. \A n \in 1 .. N : \E k \in K : rank[k] = n
  BY <1>9 DEF Surjection
<1>11. ASSUME NEW n \in 1 .. N PROVE InOrder(K)[n] \in K /\ below[InOrder(K)[n]] = n - 1
  <2>1. PICK k \in K : rank[k] = n
    BY <1>10
  <2>2. Cardinality({j \in K : j < k}) = n - 1
    BY <1>1, <1>2, <1>4, <1>7, <2>1
  <2>3. InOrder(K)[n] \in K /\ Cardinality({j \in K : j < InOrder(K)[n]}) = n - 1
    BY <1>3, <2>2
  <2>. QED
    BY <1>2, <2>3
<1>12. ASSUME NEW n \in 1 .. N, NEW m \in 1 .. N, InOrder(K)[n] = InOrder(K)[m] PROVE n = m
  BY <1>1, <1>11, <1>12
<1>13. ASSUME NEW k \in K PROVE \E n \in 1 .. N : InOrder(K)[n] = k
  <2>1. PICK n : n = rank[k]
    OBVIOUS
  <2>2. n \in 1 .. N /\ n - 1 = below[k]
    BY <1>1, <1>4, <1>7, <2>1
  <2>3. InOrder(K)[n] \in K /\ below[InOrder(K)[n]] = below[k]
    BY <1>11, <2>2
  <2>. QED
    BY <1>6, <2>2, <2>3
<1>. QED
  BY <1>1, <1>11, <1>12, <1>13 DEF N


(* Among a list, the elements that are in a set, each as often as before.   *)
LEMMA AmongIs ==
  ASSUME NEW S, NEW list \in Seq(S), NEW W, NEW a, a = Among(list, W)
  PROVE  /\ a \in Seq(S) /\ ToSet(a) = ToSet(list) \cap W
         /\ Distinct(list) => Distinct(a)
<1>1. PICK K : K = {i \in DOMAIN list : list[i] \in W}
  OBVIOUS
<1>2. K \in SUBSET Nat /\ IsFiniteSet(K) /\ K \subseteq DOMAIN list
  <2>1. DOMAIN list = 1 .. Len(list) /\ Len(list) \in Nat
    OBVIOUS
  <2>2. IsFiniteSet(1 .. Len(list))
    BY <2>1, FS_Interval
  <2>. QED
    BY <1>1, <2>1, <2>2, FS_Subset
<1>3. PICK N, at : N = Cardinality(K) /\ at = InOrder(K)
  OBVIOUS
<1>4. /\ N \in Nat /\ \A n \in 1 .. N : at[n] \in K
      /\ \A n, m \in 1 .. N : at[n] = at[m] => n = m
      /\ \A k \in K : \E n \in 1 .. N : at[n] = k
  BY <1>2, <1>3, InOrderIs
<1>5. a = [n \in 1 .. N |-> list[at[n]]]
  BY <1>1, <1>3 DEF Among
<1>6. \A k \in K : list[k] \in S /\ list[k] \in W
  BY <1>1, <1>2
<1>7. a \in [1 .. N -> S] /\ DOMAIN a = 1 .. N /\ \A n \in 1 .. N : a[n] = list[at[n]]
  BY <1>4, <1>5, <1>6
<1>8. a \in Seq(S)
  BY <1>4, <1>7
<1>9. ASSUME NEW y PROVE y \in ToSet(a) <=> y \in ToSet(list) \cap W
  <2>1. y \in ToSet(a) <=> \E n \in 1 .. N : y = list[at[n]]
    BY <1>7 DEF ToSet
  <2>2. y \in ToSet(list) \cap W <=> \E k \in K : y = list[k]
    BY <1>1 DEF ToSet
  <2>. QED
    BY <1>4, <2>1, <2>2
<1>10. Distinct(list) => Distinct(a)
  <2> SUFFICES ASSUME Distinct(list), NEW n \in 1 .. N, NEW m \in 1 .. N, a[n] = a[m] PROVE n = m
    BY <1>7 DEF Distinct
  <2>1. at[n] \in DOMAIN list /\ at[m] \in DOMAIN list /\ list[at[n]] = list[at[m]]
    BY <1>2, <1>4, <1>7
  <2>2. at[n] = at[m]
    BY <2>1 DEF Distinct
  <2>. QED
    BY <1>4, <2>2
<1>. QED
  BY <1>8, <1>9, <1>10

LEMMA FrontOf ==
  ASSUME NEW S, NEW s \in Seq(S), s # <<>>
  PROVE  /\ Front(s) \in Seq(S) /\ Last(s) \in S
         /\ ToSet(s) = ToSet(Front(s)) \cup {Last(s)}
         /\ Distinct(s) => Distinct(Front(s)) /\ Last(s) \notin ToSet(Front(s))
<1>1. PICK n \in Nat \ {0} : n = Len(s) /\ DOMAIN s = 1 .. n /\ \A i \in 1 .. n : s[i] \in S
  OBVIOUS
<1>2. PICK f : f = Front(s)
  OBVIOUS
<1>3. f = SubSeq(s, 1, n - 1) /\ Last(s) = s[n] /\ n \in 1 .. n
  BY <1>1, <1>2 DEF Front, Last
<1>4. f \in Seq(S) /\ DOMAIN f = 1 .. n - 1 /\ \A i \in 1 .. n - 1 : f[i] = s[i]
  <2>1. Len(SubSeq(s, 1, n - 1)) = n - 1 /\ SubSeq(s, 1, n - 1) \in Seq(S)
    BY <1>1
  <2>. QED
    BY <1>1, <1>3, <2>1
<1>5. \A i \in 1 .. n : i \in 1 .. n - 1 \/ i = n
  OBVIOUS
<1>6. \A i \in 1 .. n - 1 : i \in 1 .. n /\ i # n
  OBVIOUS
<1>7. ToSet(s) = ToSet(f) \cup {s[n]}
  <2>1. \A x : x \in ToSet(s) <=> \E i \in 1 .. n : x = s[i]
    BY <1>1 DEF ToSet
  <2>2. \A x : x \in ToSet(f) <=> \E i \in 1 .. n - 1 : x = s[i]
    BY <1>4 DEF ToSet
  <2>. QED
    BY ONLY <1>3, <1>5, <1>6, <2>1, <2>2
<1>8. ASSUME Distinct(s) PROVE Distinct(f) /\ s[n] \notin ToSet(f)
  <2>1. \A i, j \in 1 .. n : s[i] = s[j] => i = j
    BY <1>1, <1>8 DEF Distinct
  <2>2. Distinct(f)
    BY ONLY <1>4, <1>6, <2>1 DEF Distinct
  <2>3. s[n] \notin ToSet(f)
    BY ONLY <1>3, <1>4, <1>6, <2>1 DEF ToSet
  <2>. QED
    BY <2>2, <2>3
<1>. QED
  BY <1>1, <1>2, <1>3, <1>4, <1>7, <1>8

LEMMA JoinOf ==
  ASSUME NEW S, NEW s \in Seq(S), NEW t \in Seq(S)
  PROVE  /\ s \o t \in Seq(S) /\ ToSet(s \o t) = ToSet(s) \cup ToSet(t)
         /\ Distinct(s) /\ Distinct(t) /\ ToSet(s) \cap ToSet(t) = {} => Distinct(s \o t)
<1>1. PICK m \in Nat, n \in Nat : /\ m = Len(s) /\ DOMAIN s = 1 .. m
                                  /\ n = Len(t) /\ DOMAIN t = 1 .. n
  OBVIOUS
<1>2. PICK j : j = s \o t
  OBVIOUS
<1>3. /\ j \in Seq(S) /\ DOMAIN j = 1 .. m + n /\ \A i \in 1 .. m : j[i] = s[i]
      /\ \A i \in 1 .. n : j[m + i] = t[i]
  <2>1. j \in Seq(S) /\ Len(j) = m + n
    BY <1>1, <1>2
  <2>2. \A i \in 1 .. m : j[i] = s[i]
    BY <1>1, <1>2
  <2>3. \A i \in 1 .. n : j[m + i] = t[i]
    BY <1>1, <1>2
  <2>. QED
    BY <2>1, <2>2, <2>3
<1>4. \A i \in 1 .. m + n : i \in 1 .. m \/ \E k \in 1 .. n : i = m + k
  <2> SUFFICES ASSUME NEW i \in 1 .. m + n, i \notin 1 .. m PROVE \E k \in 1 .. n : i = m + k
    OBVIOUS
  <2>1. i - m \in 1 .. n /\ i = m + (i - m)
    OBVIOUS
  <2>. QED
    BY <2>1
<1>5. (\A i \in 1 .. m : i \in 1 .. m + n) /\ \A k \in 1 .. n : m + k \in 1 .. m + n
  OBVIOUS
<1>6. ToSet(j) = ToSet(s) \cup ToSet(t)
  <2>1. \A x : x \in ToSet(j) <=> \E i \in 1 .. m + n : x = j[i]
    BY <1>3 DEF ToSet
  <2>2. \A x : x \in ToSet(s) <=> \E i \in 1 .. m : x = s[i]
    BY <1>1 DEF ToSet
  <2>3. \A x : x \in ToSet(t) <=> \E i \in 1 .. n : x = t[i]
    BY <1>1 DEF ToSet
  <2>4. ASSUME NEW x \in ToSet(j) PROVE x \in ToSet(s) \cup ToSet(t)
    <3>1. PICK i \in 1 .. m + n : x = j[i]
      BY ONLY <2>1, <2>4
    <3>2. CASE i \in 1 .. m
      BY ONLY <1>3, <2>2, <3>1, <3>2
    <3>3. CASE \E k \in 1 .. n : i = m + k
      BY ONLY <1>3, <2>3, <3>1, <3>3
    <3>. QED
      BY <1>4, <3>2, <3>3
  <2>5. ASSUME NEW x \in ToSet(s) \cup ToSet(t) PROVE x \in ToSet(j)
    BY ONLY <1>3, <1>5, <2>1, <2>2, <2>3, <2>5
  <2>. QED
    BY ONLY <2>4, <2>5
<1>7. ASSUME Distinct(s), Distinct(t), ToSet(s) \cap ToSet(t) = {} PROVE Distinct(j)
  <2> SUFFICES ASSUME NEW i \in 1 .. m + n, NEW k \in 1 .. m + n, j[i] = j[k] PROVE i = k
    BY <1>3 DEF Distinct
  <2>1. \A a \in 1 .. m, b \in 1 .. n : s[a] # t[b]
    BY <1>1, <1>7 DEF ToSet
  <2>2. \A a, b \in 1 .. m : s[a] = s[b] => a = b
    BY <1>1, <1>7 DEF Distinct
  <2>3. \A a, b \in 1 .. n : t[a] = t[b] => a = b
    BY <1>1, <1>7 DEF Distinct
  <2>4. CASE i \in 1 .. m /\ k \in 1 .. m
    BY ONLY <1>3, <2>2, <2>4, j[i] = j[k]
  <2>5. CASE i \in 1 .. m /\ k \notin 1 .. m
    <3>1. PICK b \in 1 .. n : k = m + b
      BY ONLY <1>4, <2>5, k \in 1 .. m + n
    <3>. QED
      BY ONLY <1>3, <2>1, <2>5, <3>1, j[i] = j[k]
  <2>6. CASE i \notin 1 .. m /\ k \in 1 .. m
    <3>1. PICK b \in 1 .. n : i = m + b
      BY ONLY <1>4, <2>6, i \in 1 .. m + n
    <3>. QED
      BY ONLY <1>3, <2>1, <2>6, <3>1, j[i] = j[k]
  <2>7. CASE i \notin 1 .. m /\ k \notin 1 .. m
    <3>1. PICK a \in 1 .. n, b \in 1 .. n : i = m + a /\ k = m + b
      BY ONLY <1>4, <2>7, i \in 1 .. m + n, k \in 1 .. m + n
    <3>. QED
      <4>1. t[a] = t[b]
        BY ONLY <1>3, <3>1, j[i] = j[k]
      <4>. QED
        BY ONLY <2>3, <3>1, <4>1
  <2>. QED
    BY <2>4, <2>5, <2>6, <2>7
<1>. QED
  BY <1>2, <1>3, <1>6, <1>7

LEMMA AppendOf ==
  ASSUME NEW S, NEW s \in Seq(S), NEW x \in S
  PROVE  /\ Append(s, x) \in Seq(S) /\ ToSet(Append(s, x)) = ToSet(s) \cup {x}
         /\ Distinct(s) /\ x \notin ToSet(s) => Distinct(Append(s, x))
         /\ Len(Append(s, x)) = Len(s) + 1
<1>1. <<x>> \in Seq(S) /\ Append(s, x) = s \o <<x>> /\ Len(Append(s, x)) = Len(s) + 1
  OBVIOUS
<1>2. ToSet(<<x>>) = {x} /\ Distinct(<<x>>)
  BY DEF ToSet, Distinct
<1>3. PICK t \in Seq(S) : /\ t = <<x>> /\ ToSet(t) = {x} /\ Distinct(t)
                          /\ Append(s, x) = s \o t
  BY <1>1, <1>2
<1>4. PICK j : j = Append(s, x) /\ j = s \o t /\ Len(j) = Len(s) + 1
  BY <1>1, <1>3
<1>5. /\ j \in Seq(S) /\ ToSet(j) = ToSet(s) \cup ToSet(t)
      /\ Distinct(s) /\ Distinct(t) /\ ToSet(s) \cap ToSet(t) = {} => Distinct(j)
  <2>1. /\ s \o t \in Seq(S) /\ ToSet(s \o t) = ToSet(s) \cup ToSet(t)
        /\ Distinct(s) /\ Distinct(t) /\ ToSet(s) \cap ToSet(t) = {} => Distinct(s \o t)
    BY ONLY JoinOf, s \in Seq(S), t \in Seq(S), ZenonT(40)
  <2>. QED
    BY ONLY <1>4, <2>1, Zenon
<1>6. x \notin ToSet(s) => ToSet(s) \cap ToSet(t) = {}
  BY <1>3
<1>. QED
  BY ONLY <1>3, <1>4, <1>5, <1>6
-------------------------------------------------------------------------------
(* Sets no edge leads out of or into, and the least of them around an API.  *)
Shut(S) == S \subseteq Apis /\ \A x \in S : Adjacent(x) \subseteq S
LEMMA AdjacentIs ==
  /\ \A a, b \in Apis : b \in Adjacent(a) <=> <<a, b>> \in Graph \/ <<b, a>> \in Graph
  /\ \A a \in Apis : Adjacent(a) \subseteq Apis
  /\ \A e \in Graph : e[1] \in Apis /\ e[2] \in Apis /\ e = <<e[1], e[2]>>
<1>1. Graph \subseteq Apis \X Apis
  BY DependencyAssumption DEF Graph
<1>. QED
  BY <1>1 DEF Adjacent, BothWays

LEMMA ShutIs ==
  ASSUME NEW S, Shut(S)
  PROVE  S \in SUBSET Apis /\ \A e \in Graph : e[1] \in S <=> e[2] \in S
<1> SUFFICES ASSUME NEW e \in Graph PROVE e[1] \in S <=> e[2] \in S
  BY DEF Shut
<1>1. PICK a \in Apis, b \in Apis : a = e[1] /\ b = e[2] /\ <<a, b>> \in Graph
  BY AdjacentIs
<1>2. b \in Adjacent(a) /\ a \in Adjacent(b)
  BY <1>1, AdjacentIs
<1>. QED
  BY <1>1, <1>2 DEF Shut

LEMMA ClusterIs ==
  ASSUME NEW a \in Apis, NEW C, C = Cluster(Graph, a)
  PROVE  /\ a \in C /\ Shut(C) /\ \A S : Shut(S) /\ a \in S => C \subseteq S
         /\ \A b \in C : Cluster(Graph, b) = C
<1>1. \A b \in Apis : b \in Cluster(Graph, b) /\ Cluster(Graph, b) \subseteq Apis
  BY DEF Cluster
<1>2. ASSUME NEW b \in Apis, NEW S, Shut(S), b \in S PROVE Cluster(Graph, b) \subseteq S
  BY <1>2, ShutIs DEF Cluster
<1>3. ASSUME NEW b \in Apis PROVE Shut(Cluster(Graph, b))
  <2> SUFFICES ASSUME NEW x \in Cluster(Graph, b), NEW y \in Adjacent(x) PROVE y \in Cluster(Graph, b)
    BY <1>1 DEF Shut
  <2>1. x \in Apis /\ y \in Apis /\ (<<x, y>> \in Graph \/ <<y, x>> \in Graph)
    BY <1>1, AdjacentIs
  <2> SUFFICES ASSUME NEW S \in SUBSET Apis, b \in S, \A e \in Graph : e[1] \in S <=> e[2] \in S
               PROVE  y \in S
    BY <2>1 DEF Cluster
  <2>2. x \in S
    BY DEF Cluster
  <2>. QED
    BY <2>1, <2>2
<1>4. ASSUME NEW b \in C PROVE Cluster(Graph, b) = C
  <2>1. b \in Apis /\ Cluster(Graph, b) \subseteq C
    BY <1>1, <1>2, <1>3
  <2>2. a \in Cluster(Graph, b)
    <3> SUFFICES ASSUME a \notin Cluster(Graph, b) PROVE FALSE
      OBVIOUS
    <3> DEFINE S == Apis \ Cluster(Graph, b)
    <3>1. Shut(S)
      <4> SUFFICES ASSUME NEW x \in S, NEW y \in Adjacent(x), y \in Cluster(Graph, b) PROVE FALSE
        BY AdjacentIs DEF Shut
      <4>1. x \in Apis /\ y \in Apis /\ x \in Adjacent(y)
        BY AdjacentIs
      <4>. QED
        BY <1>3, <2>1, <4>1 DEF Shut
    <3>2. C \subseteq S
      BY <1>2, <3>1
    <3>. QED
      BY <1>1, <2>1, <3>2
  <2>. QED
    BY <1>2, <1>3, <2>1, <2>2
<1>. QED
  BY <1>1, <1>2, <1>3, <1>4

(* The search from an API, outside of what older clusters hold.            *)
Places == [stack : Seq(Apis), seen : SUBSET Apis, comp : Seq(Apis)]
Searching(a, old, s) ==
  /\ s \in Places /\ Distinct(s.stack) /\ Distinct(s.comp)
  /\ ToSet(s.stack) \cap ToSet(s.comp) = {}
  /\ s.seen = old \cup ToSet(s.stack) \cup ToSet(s.comp)
  /\ old \cap (ToSet(s.stack) \cup ToSet(s.comp)) = {}
  /\ \A x \in ToSet(s.comp) : Adjacent(x) \subseteq s.seen
  /\ ToSet(s.stack) \cup ToSet(s.comp) \subseteq Cluster(Graph, a)
  /\ a \in ToSet(s.stack) \cup ToSet(s.comp)

LEMMA PopStays ==
  ASSUME NEW s \in Places
  PROVE  Pop(s) \in Places
<1>1. CASE s.stack = <<>>
  BY <1>1 DEF Pop
<1>2. CASE s.stack # <<>>
  <2>1. PICK stack \in Seq(Apis), x \in Apis : Front(s.stack) = stack /\ Last(s.stack) = x
    BY <1>2, FrontOf DEF Places
  <2>2. PICK new : new = SetToSeq(Adjacent(x) \ s.seen)
    OBVIOUS
  <2>3. new \in Seq(Apis) /\ ToSet(new) \subseteq Apis
    <3>1. Adjacent(x) \ s.seen \in SUBSET Apis
      BY AdjacentIs
    <3>2. IsFiniteSet(Adjacent(x) \ s.seen)
      BY <3>1, DependencyAssumption, FS_Subset
    <3>3. new \in Seq(Adjacent(x) \ s.seen) /\ ToSet(new) = Adjacent(x) \ s.seen
      BY <2>2, <3>2, SetToSeqIs
    <3>. QED
      BY <3>1, <3>3
  <2>4. Pop(s) = [stack |-> stack \o new, seen |-> s.seen \cup ToSet(new), comp |-> Append(s.comp, x)]
    BY <1>2, <2>1, <2>2 DEF Pop
  <2>. QED
    BY <2>1, <2>3, <2>4 DEF Places
<1>. QED
  BY <1>1, <1>2

LEMMA PopKeeps ==
  ASSUME NEW a \in Apis, NEW old, Shut(old), NEW s, Searching(a, old, s)
  PROVE  /\ Searching(a, old, Pop(s))
         /\ s.stack # <<>> => Len(Pop(s).comp) = Len(s.comp) + 1
<1>1. CASE s.stack = <<>>
  BY <1>1 DEF Pop
<1>2. CASE s.stack # <<>>
  <2>1. PICK stack \in Seq(Apis), x \in Apis :
          /\ Front(s.stack) = stack /\ Last(s.stack) = x /\ ToSet(s.stack) = ToSet(stack) \cup {x}
          /\ Distinct(stack) /\ x \notin ToSet(stack)
    BY <1>2, FrontOf DEF Searching, Places
  <2>2. PICK new : new = SetToSeq(Adjacent(x) \ s.seen)
    OBVIOUS
  <2>3. new \in Seq(Apis) /\ ToSet(new) = Adjacent(x) \ s.seen /\ Distinct(new)
    <3>1. Adjacent(x) \ s.seen \in SUBSET Apis
      BY AdjacentIs
    <3>2. IsFiniteSet(Adjacent(x) \ s.seen)
      BY <3>1, DependencyAssumption, FS_Subset
    <3>3. new \in Seq(Adjacent(x) \ s.seen) /\ ToSet(new) = Adjacent(x) \ s.seen /\ Distinct(new)
      BY <2>2, <3>2, SetToSeqIs
    <3>. QED
      BY <3>1, <3>3
  <2>4. PICK n : n = Pop(s)
    OBVIOUS
  <2>5. n = [stack |-> stack \o new, seen |-> s.seen \cup ToSet(new), comp |-> Append(s.comp, x)]
    BY <1>2, <2>1, <2>2, <2>4 DEF Pop
  <2>6. n \in Places
    BY <2>4, PopStays DEF Searching
  <2>7. /\ n.seen = s.seen \cup ToSet(new) /\ n.stack = stack \o new /\ n.comp = Append(s.comp, x)
    BY ONLY <2>5
  <2>8. ToSet(n.stack) = ToSet(stack) \cup ToSet(new) /\ Distinct(n.stack)
    <3>1. ToSet(stack) \cap ToSet(new) = {}
      BY <2>1, <2>3 DEF Searching
    <3>2. stack \in Seq(Apis) /\ new \in Seq(Apis)
      BY <2>1, <2>3
    <3>3. ToSet(stack \o new) = ToSet(stack) \cup ToSet(new)
      BY ONLY <3>2, JoinOf, ZenonT(40)
    <3>4. Distinct(stack) /\ Distinct(new) /\ ToSet(stack) \cap ToSet(new) = {} => Distinct(stack \o new)
      BY ONLY <3>2, JoinOf, ZenonT(40)
    <3>. QED
      BY ONLY <2>1, <2>3, <2>7, <3>1, <3>3, <3>4, Zenon
  <2>9. /\ ToSet(n.comp) = ToSet(s.comp) \cup {x} /\ Distinct(n.comp) /\ Len(n.comp) = Len(s.comp) + 1
    <3>1. s.comp \in Seq(Apis) /\ Distinct(s.comp) /\ x \notin ToSet(s.comp)
      BY <2>1 DEF Searching, Places
    <3>2. /\ ToSet(Append(s.comp, x)) = ToSet(s.comp) \cup {x}
          /\ Distinct(s.comp) /\ x \notin ToSet(s.comp) => Distinct(Append(s.comp, x))
          /\ Len(Append(s.comp, x)) = Len(s.comp) + 1
      <4>1. PICK c : c \in Seq(Apis) /\ c = s.comp
        BY <3>1
      <4>2. x \in Apis
        BY <2>1
      <4>3. ToSet(Append(c, x)) = ToSet(c) \cup {x}
        <5>0. <<x>> \in Seq(Apis) /\ Append(c, x) = c \o <<x>>
          BY ONLY <4>1, <4>2
        <5>1. PICK d, o : d = Append(c, x) /\ o = <<x>> /\ d = c \o o /\ o \in Seq(Apis)
          BY ONLY <5>0, Zenon
        <5>2. ToSet(o) = {x}
          BY ONLY <5>1 DEF ToSet
        <5>3. ToSet(c \o o) = ToSet(c) \cup ToSet(o)
          BY ONLY <4>1, <5>1, JoinOf, ZenonT(40)
        <5>4. ToSet(d) = ToSet(c) \cup ToSet(o)
          BY ONLY <5>1, <5>3, Zenon
        <5>5. ToSet(d) = ToSet(c) \cup {x}
          BY ONLY <5>2, <5>4
        <5>. QED
          BY ONLY <5>1, <5>5, Zenon
      <4>4. Distinct(c) /\ x \notin ToSet(c) => Distinct(Append(c, x))
        BY ONLY <4>1, <4>2, AppendOf, ZenonT(40)
      <4>5. Len(Append(c, x)) = Len(c) + 1
        BY ONLY <4>1, <4>2
      <4>. QED
        BY ONLY <4>1, <4>3, <4>4, <4>5, Zenon
    <3>. QED
      BY ONLY <2>7, <3>1, <3>2, Zenon
  <2>10. ToSet(new) \subseteq Cluster(Graph, a)
    <3>1. x \in Cluster(Graph, a)
      BY <2>1 DEF Searching
    <3>. QED
      BY <2>3, <3>1, ClusterIs DEF Shut
  <2>11. PICK st, co, nw : st = ToSet(stack) /\ co = ToSet(s.comp) /\ nw = ToSet(new)
    OBVIOUS
  <2>12. /\ ToSet(s.stack) = st \cup {x} /\ ToSet(n.stack) = st \cup nw /\ ToSet(n.comp) = co \cup {x}
         /\ nw = Adjacent(x) \ s.seen /\ n.seen = s.seen \cup nw /\ x \notin st
    BY <2>1, <2>3, <2>7, <2>8, <2>9, <2>11
  <2>13. /\ (st \cup {x}) \cap co = {} /\ s.seen = old \cup (st \cup {x}) \cup co
         /\ old \cap ((st \cup {x}) \cup co) = {} /\ (\A y \in co : Adjacent(y) \subseteq s.seen)
         /\ (st \cup {x}) \cup co \subseteq Cluster(Graph, a) /\ a \in (st \cup {x}) \cup co
    BY ONLY <2>11, <2>12, Searching(a, old, s) DEF Searching
  <2>14. /\ (st \cup nw) \cap (co \cup {x}) = {} /\ n.seen = old \cup (st \cup nw) \cup (co \cup {x})
         /\ old \cap ((st \cup nw) \cup (co \cup {x})) = {}
         /\ (\A y \in co \cup {x} : Adjacent(y) \subseteq n.seen)
         /\ (st \cup nw) \cup (co \cup {x}) \subseteq Cluster(Graph, a) /\ a \in (st \cup nw) \cup (co \cup {x})
    BY ONLY <2>10, <2>11, <2>12, <2>13
  <2>15. Searching(a, old, n)
    BY ONLY <2>6, <2>8, <2>9, <2>12, <2>14 DEF Searching
  <2>. QED
    BY <2>4, <2>9, <2>15
<1>. QED
  BY <1>1, <1>2

(* The search from an API finds its cluster, each of it once.              *)
LEMMA ExploreIs ==
  ASSUME NEW a \in Apis, NEW old, Shut(old), a \notin old, NEW c, c = Explore(a, old)
  PROVE  c \in Seq(Apis) /\ Distinct(c) /\ ToSet(c) = Cluster(Graph, a)
<1>1. PICK N \in Nat : N = Cardinality(Apis)
  BY DependencyAssumption, FS_CardinalityType
<1>2. PICK x : x = [stack |-> <<a>>, seen |-> old \cup {a}, comp |-> <<>>]
  OBVIOUS
<1>3. Searching(a, old, x)
  <2>1. ToSet(<<a>>) = {a} /\ ToSet(<<>>) = {} /\ Distinct(<<a>>) /\ Distinct(<<>>)
    BY DEF ToSet, Distinct
  <2>2. x \in Places
    BY <1>2 DEF Shut, Places
  <2>3. a \in Cluster(Graph, a)
    BY ClusterIs
  <2>. QED
    BY <1>2, <2>1, <2>2, <2>3 DEF Searching
<1>4. PICK step : step = [y \in (1 .. N) \X Places |-> Pop(y[2])]
  OBVIOUS
<1>5. step \in [(1 .. N) \X Places -> Places] /\ \A k \in 1 .. N, s \in Places : step[<<k, s>>] = Pop(s)
  BY <1>4, PopStays
<1> DEFINE Is(f) == f = [n \in 0 .. N |-> IF n = 0 THEN [stack |-> <<a>>, seen |-> old \cup {a}, comp |-> <<>>]
                                          ELSE Pop(f[n - 1])]
<1>6. \E f : Is(f)
  <2>1. x \in Places
    BY <1>3 DEF Searching
  <2>2. PICK f \in [0 .. N -> Places] : Runs(f, x, step, N)
    BY <1>1, <1>5, <2>1, StepsExist
  <2>3. ASSUME NEW n \in 0 .. N PROVE f[n] = IF n = 0 THEN x ELSE Pop(f[n - 1])
    <3>1. n # 0 => n \in 1 .. N /\ f[n - 1] \in Places
      BY <2>2
    <3>. QED
      BY <1>5, <2>2, <3>1 DEF Runs
  <2>4. f = [n \in 0 .. N |-> f[n]]
    BY <2>2
  <2>5. Is(f)
    BY <1>2, <2>3, <2>4
  <2>. QED
    BY <2>5
<1>7. PICK g : Is(g) /\ c = g[N].comp
  <2>1. c = (CHOOSE f : Is(f))[N].comp
    BY <1>1 DEF Explore
  <2>2. Is(CHOOSE f : Is(f))
    BY <1>6
  <2>. QED
    BY <2>1, <2>2
<1>8. \A n \in 0 .. N : g[n] = IF n = 0 THEN x ELSE Pop(g[n - 1])
  BY <1>2, <1>7
<1> HIDE DEF Is
<1> DEFINE Good(n) == Searching(a, old, g[n]) /\ (g[n].stack = <<>> \/ Len(g[n].comp) = n)
           T == {n \in 0 .. N : ~ Good(n)}
<1>9. \A n \in 0 .. N : Good(n)
  <2>1. SUFFICES ASSUME T # {} PROVE FALSE
    OBVIOUS
  <2>2. PICK n \in T : \A k \in T : n <= k
    <3>1. T \in SUBSET (0 .. N)
      OBVIOUS
    <3> HIDE DEF T
    <3>. QED
      BY <2>1, <3>1, Least
  <2>3. CASE n = 0
    <3>1. g[0] = x
      BY <1>1, <1>8
    <3>2. Good(0)
      BY <1>2, <1>3, <3>1
    <3>. QED
      BY <2>2, <2>3, <3>2
  <2>4. CASE n # 0
    <3>1. n - 1 \in 0 .. N /\ Good(n - 1) /\ g[n] = Pop(g[n - 1])
      <4>1. n \in 0 .. N
        BY <2>2
      <4> HIDE DEF Good
      <4>2. n - 1 \in 0 .. N /\ ~ n <= n - 1
        BY <2>4, <4>1
      <4>. QED
        BY <1>8, <2>2, <2>4, <4>1, <4>2
    <3>2. PICK s : s = g[n - 1]
      OBVIOUS
    <3>3. Searching(a, old, Pop(s)) /\ (s.stack # <<>> => Len(Pop(s).comp) = Len(s.comp) + 1)
      BY <3>1, <3>2, PopKeeps
    <3>4. s.stack = <<>> => Pop(s) = s
      BY DEF Pop
    <3>5. Good(n)
      <4>1. n \in Int
        BY <2>2
      <4>. QED
        BY <3>1, <3>2, <3>3, <3>4, <4>1
    <3>. QED
      BY <2>2, <3>5
  <2>. QED
    BY <2>3, <2>4
<1>10. PICK s : s = g[N] /\ Searching(a, old, s) /\ (s.stack = <<>> \/ Len(s.comp) = N)
  BY <1>1, <1>9
<1>11. s.stack \in Seq(Apis) /\ s.comp \in Seq(Apis) /\ s.seen \subseteq Apis
  BY <1>10 DEF Searching, Places
<1>12. s.stack = <<>>
  <2> SUFFICES ASSUME s.stack # <<>> PROVE FALSE
    OBVIOUS
  <2>1. Cardinality(ToSet(s.comp)) = Cardinality(Apis)
    BY <1>1, <1>10, <1>11, DistinctLen DEF Searching
  <2>2. ToSet(s.comp) \in SUBSET Apis
    BY <1>11 DEF ToSet
  <2>3. ToSet(s.comp) = Apis
    BY <2>1, <2>2, DependencyAssumption, FS_Subset
  <2>4. Last(s.stack) \in ToSet(s.stack) /\ Last(s.stack) \in Apis
    <3>1. PICK st \in Seq(Apis) : st = s.stack /\ st # <<>>
      BY <1>11
    <3>2. Last(st) \in Apis /\ ToSet(st) = ToSet(Front(st)) \cup {Last(st)}
      BY ONLY <3>1, FrontOf, Zenon
    <3>. QED
      BY ONLY <3>1, <3>2
  <2>. QED
    BY <1>10, <2>3, <2>4 DEF Searching
<1>13. ToSet(s.stack) = {}
  BY <1>12 DEF ToSet
<1>14. ToSet(s.comp) = Cluster(Graph, a)
  <2>1. PICK C, D : C = Cluster(Graph, a) /\ D = ToSet(s.comp)
    OBVIOUS
  <2>2. /\ s.seen = old \cup D /\ old \cap D = {} /\ \A y \in D : Adjacent(y) \subseteq s.seen
        /\ D \subseteq C /\ a \in D
    BY <1>10, <1>13, <2>1 DEF Searching
  <2>3. Shut(D)
    <3> SUFFICES ASSUME NEW y \in D, NEW z \in Adjacent(y), z \notin D PROVE FALSE
      BY <1>11, <2>2 DEF Shut
    <3>1. z \in old /\ y \in Apis
      BY <1>11, <2>2
    <3>2. y \in Adjacent(z)
      BY <3>1, AdjacentIs
    <3>. QED
      BY <2>2, <3>1, <3>2 DEF Shut
  <2>. QED
    BY <2>1, <2>2, <2>3, ClusterIs
<1>. QED
  BY <1>7, <1>10, <1>11, <1>14 DEF Searching

(* The clusters found so far: each once and whole, and no two overlap.      *)
Clustered(K) ==
  /\ K \in Seq(Seq(Apis))
  /\ \A k \in DOMAIN K : Distinct(K[k]) /\ \A a \in ToSet(K[k]) : Cluster(Graph, a) = ToSet(K[k])
  /\ \A j, k \in DOMAIN K : j # k => ToSet(K[j]) \cap ToSet(K[k]) = {}
Growing(s) ==
  /\ s \in [seen : SUBSET Apis, clusters : Seq(Seq(Apis))] /\ Clustered(s.clusters)
  /\ Shut(s.seen) /\ \A a \in s.seen : \E k \in DOMAIN s.clusters : a \in ToSet(s.clusters[k])
  /\ \A k \in DOMAIN s.clusters : ToSet(s.clusters[k]) \subseteq s.seen

Rounds == {s \in [seen : SUBSET Apis, clusters : Seq(Seq(Apis))] : Growing(s)}

LEMMA GrownKeeps ==
  ASSUME NEW s, Growing(s), NEW a \in Apis, NEW n, n = Grown(s, a)
  PROVE  Growing(n) /\ a \in n.seen /\ s.seen \subseteq n.seen
<1>1. CASE a \in s.seen
  BY <1>1 DEF Grown
<1>2. CASE a \notin s.seen
  <2>1. PICK c : c = Explore(a, s.seen)
    OBVIOUS
  <2>2. c \in Seq(Apis) /\ Distinct(c) /\ ToSet(c) = Cluster(Graph, a)
    BY <1>2, <2>1, ExploreIs DEF Growing
  <2>3. PICK C : C = Cluster(Graph, a)
    OBVIOUS
  <2>4. a \in C /\ Shut(C) /\ \A b \in C : Cluster(Graph, b) = C
    BY <2>3, ClusterIs
  <2>5. C \cap s.seen = {}
    <3> SUFFICES ASSUME NEW b \in C, b \in s.seen PROVE FALSE
      OBVIOUS
    <3>1. b \in Apis /\ Cluster(Graph, b) = C /\ Shut(s.seen)
      BY <2>4 DEF Growing, Shut
    <3>2. C \subseteq s.seen
      BY ONLY <3>1, b \in s.seen, ClusterIs, Zenon
    <3>. QED
      BY <1>2, <2>4, <3>2
  <2>6. PICK K, old, L : K \in Seq(Seq(Apis)) /\ K = s.clusters /\ old = s.seen /\ L = Append(K, c)
    BY DEF Growing
  <2>7. /\ L \in Seq(Seq(Apis)) /\ \E m \in Nat : /\ DOMAIN K = 1 .. m /\ DOMAIN L = 1 .. m + 1
                                                 /\ L[m + 1] = c /\ \A k \in 1 .. m : L[k] = K[k]
    <3>1. L \in Seq(Seq(Apis)) /\ Len(K) \in Nat /\ DOMAIN K = 1 .. Len(K) /\ DOMAIN L = 1 .. Len(K) + 1
          /\ L[Len(K) + 1] = c /\ \A k \in 1 .. Len(K) : L[k] = K[k]
      BY <2>2, <2>6
    <3>. QED
      BY <3>1
  <2>8. PICK m \in Nat : /\ DOMAIN K = 1 .. m /\ DOMAIN L = 1 .. m + 1
                         /\ L[m + 1] = c /\ \A k \in 1 .. m : L[k] = K[k]
    BY <2>7
  <2>9. ASSUME NEW k \in 1 .. m + 1 PROVE k \in 1 .. m \/ k = m + 1
    OBVIOUS
  <2>10. m + 1 \in 1 .. m + 1 /\ \A k \in 1 .. m : k \in 1 .. m + 1 /\ k # m + 1
    OBVIOUS
  <2>11. /\ \A k \in 1 .. m : Distinct(K[k]) /\ ToSet(K[k]) \subseteq old
         /\ \A k \in 1 .. m : \A b \in ToSet(K[k]) : Cluster(Graph, b) = ToSet(K[k])
         /\ \A j, k \in 1 .. m : j # k => ToSet(K[j]) \cap ToSet(K[k]) = {}
         /\ \A b \in old : \E k \in 1 .. m : b \in ToSet(K[k])
    BY <2>6, <2>8 DEF Growing, Clustered
  <2>12. Clustered(L)
    <3>1. \A k \in 1 .. m + 1 : Distinct(L[k]) /\ \A b \in ToSet(L[k]) : Cluster(Graph, b) = ToSet(L[k])
      BY ONLY <2>2, <2>3, <2>4, <2>8, <2>9, <2>11
    <3>2. ASSUME NEW j \in 1 .. m + 1, NEW k \in 1 .. m + 1, j # k PROVE ToSet(L[j]) \cap ToSet(L[k]) = {}
      <4>1. ToSet(c) = C /\ \A i \in 1 .. m : ToSet(K[i]) \cap C = {}
        BY ONLY <2>2, <2>3, <2>5, <2>6, <2>11
      <4>2. CASE j \in 1 .. m /\ k \in 1 .. m
        BY ONLY <2>8, <2>11, <3>2, <4>2
      <4>3. CASE j \in 1 .. m /\ k = m + 1
        BY ONLY <2>8, <4>1, <4>3
      <4>4. CASE j = m + 1 /\ k \in 1 .. m
        BY ONLY <2>8, <4>1, <4>4
      <4>. QED
        BY <2>9, <3>2, <4>2, <4>3, <4>4
    <3>. QED
      BY ONLY <2>7, <2>8, <3>1, <3>2 DEF Clustered
  <2>13. n = [seen |-> old \cup C, clusters |-> L]
    BY <1>2, <2>1, <2>2, <2>3, <2>6 DEF Grown
  <2>14. Shut(old \cup C) /\ old \cup C \in SUBSET Apis
    BY <2>4, <2>6 DEF Growing, Shut
  <2>15. \A b \in old \cup C : \E k \in 1 .. m + 1 : b \in ToSet(L[k])
    BY ONLY <2>2, <2>3, <2>8, <2>10, <2>11
  <2>16. \A k \in 1 .. m + 1 : ToSet(L[k]) \subseteq old \cup C
    BY ONLY <2>2, <2>3, <2>8, <2>9, <2>11
  <2>17. PICK u : u = old \cup C
    OBVIOUS
  <2>18. n.seen = u /\ n.clusters = L /\ n \in [seen : SUBSET Apis, clusters : Seq(Seq(Apis))]
    BY ONLY <2>7, <2>13, <2>14, <2>17
  <2>19. Growing(n)
    BY ONLY <2>8, <2>12, <2>14, <2>15, <2>16, <2>17, <2>18 DEF Growing
  <2>. QED
    BY <2>4, <2>6, <2>17, <2>18, <2>19
<1>. QED
  BY <1>1, <1>2

(* The loop over the nodes finds every cluster that has an edge.           *)
LEMMA ComponentsAre ==
  ASSUME NEW K, K = Components
  PROVE  /\ Clustered(K)
         /\ \A a \in Apis : (\A k \in DOMAIN K : a \notin ToSet(K[k])) => Cluster(Graph, a) = {a}
<1>1. PICK nodes : nodes = SetToSeq(Nodes)
  OBVIOUS
<1>2. nodes \in Seq(Apis) /\ ToSet(nodes) = Nodes
  <2>1. Nodes \in SUBSET Apis
    BY DEF Nodes
  <2>2. IsFiniteSet(Nodes)
    BY <2>1, DependencyAssumption, FS_Subset
  <2>3. nodes \in Seq(Nodes) /\ ToSet(nodes) = Nodes
    BY <1>1, <2>2, SetToSeqIs
  <2>. QED
    BY <2>1, <2>3
<1>3. PICK N \in Nat : N = Len(nodes) /\ DOMAIN nodes = 1 .. N /\ \A n \in 1 .. N : nodes[n] \in Apis
  BY <1>2
<1>4. PICK x : x = [seen |-> {}, clusters |-> <<>>]
  OBVIOUS
<1>5. Growing(x)
  <2>1. Clustered(<<>>) /\ Shut({})
    BY DEF Clustered, Shut
  <2>. QED
    BY <1>4, <2>1 DEF Growing
<1> DEFINE Is(f) == f = [n \in 0 .. N |-> IF n = 0 THEN [seen |-> {}, clusters |-> <<>>]
                                       ELSE Grown(f[n - 1], nodes[n])]
<1>6. \A s : s \in Rounds <=> Growing(s)
  BY DEF Growing, Rounds
<1>7. PICK step : step = [y \in (1 .. N) \X Rounds |-> Grown(y[2], nodes[y[1]])]
  OBVIOUS
<1>8. /\ step \in [(1 .. N) \X Rounds -> Rounds]
      /\ \A k \in 1 .. N, s \in Rounds : step[<<k, s>>] = Grown(s, nodes[k])
  <2>1. ASSUME NEW y \in (1 .. N) \X Rounds PROVE Grown(y[2], nodes[y[1]]) \in Rounds
    <3>1. PICK k \in 1 .. N, s \in Rounds : k = y[1] /\ s = y[2]
      OBVIOUS
    <3>2. Growing(s) /\ nodes[k] \in Apis
      BY <1>3, <1>6, <3>1
    <3>3. Growing(Grown(s, nodes[k]))
      BY <3>2, GrownKeeps
    <3>. QED
      BY <1>6, <3>1, <3>3
  <2>. QED
    BY <1>7, <2>1
<1>9. \E f : Is(f)
  <2>1. x \in Rounds
    BY <1>5, <1>6
  <2>2. PICK f \in [0 .. N -> Rounds] : Runs(f, x, step, N)
    BY <1>3, <1>8, <2>1, StepsExist
  <2>3. ASSUME NEW n \in 0 .. N PROVE f[n] = IF n = 0 THEN x ELSE Grown(f[n - 1], nodes[n])
    <3>1. n # 0 => n \in 1 .. N /\ f[n - 1] \in Rounds
      BY <2>2
    <3>. QED
      BY <1>8, <2>2, <3>1 DEF Runs
  <2>4. f = [n \in 0 .. N |-> f[n]]
    BY <2>2
  <2>5. Is(f)
    BY <1>4, <2>3, <2>4
  <2>. QED
    BY <2>5
<1>10. PICK g : Is(g) /\ K = g[N].clusters
  <2>1. K = (CHOOSE f : Is(f))[N].clusters
    BY <1>1, <1>3 DEF Components
  <2>2. Is(CHOOSE f : Is(f))
    BY <1>9
  <2>. QED
    BY <2>1, <2>2
<1>11. \A n \in 0 .. N : g[n] = IF n = 0 THEN x ELSE Grown(g[n - 1], nodes[n])
  BY <1>4, <1>10
<1> HIDE DEF Is
<1> DEFINE Good(n) == Growing(g[n]) /\ \A i \in 1 .. n : nodes[i] \in g[n].seen
           T == {n \in 0 .. N : ~ Good(n)}
<1>12. \A n \in 0 .. N : Good(n)
  <2>1. SUFFICES ASSUME T # {} PROVE FALSE
    OBVIOUS
  <2>2. PICK n \in T : \A k \in T : n <= k
    <3>1. T \in SUBSET (0 .. N)
      OBVIOUS
    <3> HIDE DEF T
    <3>. QED
      BY <2>1, <3>1, Least
  <2>3. CASE n = 0
    <3>1. g[0] = x
      BY <1>3, <1>11
    <3>2. Good(0)
      BY <1>5, <3>1
    <3>. QED
      BY <2>2, <2>3, <3>2
  <2>4. CASE n # 0
    <3>1. n - 1 \in 0 .. N /\ Good(n - 1) /\ g[n] = Grown(g[n - 1], nodes[n]) /\ n \in 1 .. N
      <4>1. n \in 0 .. N
        BY <2>2
      <4> HIDE DEF Good
      <4>2. n - 1 \in 0 .. N /\ ~ n <= n - 1
        BY <2>4, <4>1
      <4>. QED
        BY <1>11, <2>2, <2>4, <4>1, <4>2
    <3>2. PICK s, a : s = g[n - 1] /\ a = nodes[n] /\ a \in Apis
      BY <1>3, <3>1
    <3>3. Growing(Grown(s, a)) /\ a \in Grown(s, a).seen /\ s.seen \subseteq Grown(s, a).seen
      BY <3>1, <3>2, GrownKeeps
    <3>4. ASSUME NEW i \in 1 .. n PROVE nodes[i] \in g[n].seen
      <4>1. i = n \/ i \in 1 .. n - 1
        BY <3>1
      <4>. QED
        BY <3>1, <3>2, <3>3, <4>1
    <3>. QED
      BY <2>2, <3>1, <3>2, <3>3, <3>4
  <2>. QED
    BY <2>3, <2>4
<1>13. PICK s : s = g[N] /\ Growing(s) /\ K = s.clusters /\ \A i \in 1 .. N : nodes[i] \in s.seen
  BY <1>3, <1>10, <1>12
<1>14. ASSUME NEW a \in Apis, \A k \in DOMAIN K : a \notin ToSet(K[k]) PROVE Cluster(Graph, a) = {a}
  <2>1. a \notin s.seen
    BY <1>13, <1>14 DEF Growing
  <2>2. a \notin Nodes
    BY <1>2, <1>3, <1>13, <2>1 DEF ToSet
  <2>3. Adjacent(a) = {}
    BY <2>2 DEF Nodes, Adjacent
  <2>4. Shut({a})
    BY <2>3 DEF Shut
  <2>. QED
    BY <2>4, ClusterIs
<1>. QED
  BY <1>13, <1>14 DEF Growing

(* A list cut from left to right: every element is in one cut, of the size. *)
LEMMA CutsAre ==
  ASSUME NEW S, NEW list \in Seq(S), Distinct(list)
  PROVE  /\ \A k \in Cuts(list) : /\ Cut(list, k) \in Seq(S) /\ Len(Cut(list, k)) \in 1 .. BatchSize
                                  /\ ToSet(Cut(list, k)) \subseteq ToSet(list)
         /\ \A x \in ToSet(list) : \E k \in Cuts(list) : x \in ToSet(Cut(list, k))
         /\ \A j, k \in Cuts(list) : ToSet(Cut(list, j)) \cap ToSet(Cut(list, k)) # {} => j = k
         /\ Len(list) <= BatchSize => Cuts(list) \subseteq {0}
<1>1. PICK L \in Nat : L = Len(list) /\ DOMAIN list = 1 .. L /\ \A i \in 1 .. L : list[i] \in S
  OBVIOUS
<1>2. PICK B \in Nat \ {0} : B = BatchSize
  BY DependencyAssumption
<1>3. \A k \in Nat : k * B \in Nat /\ (k + 1) * B = k * B + B
  BY <1>2
<1>4. ASSUME NEW j \in Nat, NEW k \in Nat, j < k PROVE j * B + B <= k * B
  <2>1. PICK d \in Nat : k = (j + 1) + d
    <3>1. k - (j + 1) \in Nat /\ k = (j + 1) + (k - (j + 1))
      BY <1>4
    <3>. QED
      BY <3>1
  <2>2. k * B = (j + 1) * B + d * B
    BY <1>2, <2>1
  <2>. QED
    BY <1>3, <2>2
<1>5. \A k : k \in Cuts(list) <=> k \in 0 .. L /\ k * B < L
  BY <1>1, <1>2 DEF Cuts
<1>6. ASSUME NEW k \in Cuts(list), NEW c, c = Cut(list, k)
      PROVE  /\ c \in Seq(S) /\ Len(c) \in 1 .. B
             /\ \A x : x \in ToSet(c) <=> \E i \in 1 .. L : x = list[i] /\ k * B < i /\ i <= k * B + B
  <2>1. PICK p, e : p \in Nat /\ p = k * B /\ (k + 1) * B = p + B /\ e = (IF p + B < L THEN p + B ELSE L) /\ p < L
    BY <1>3, <1>5, <1>6
  <2>2. c = SubSeq(list, p + 1, e)
    BY <1>1, <1>2, <1>6, <2>1 DEF Cut
  <2>3. e \in Nat /\ p < e /\ e <= L /\ e <= p + B /\ (e = L \/ e = p + B)
    BY <1>1, <1>2, <2>1
  <2>4. PICK l \in Nat : l = e - p /\ l \in 1 .. B
    BY <1>2, <2>1, <2>3
  <2>5. c \in Seq(S) /\ Len(c) = l /\ \A i \in 1 .. l : c[i] = list[p + i]
    <3>1. p + 1 \in 1 .. L /\ e \in 1 .. L
      BY <1>1, <2>1, <2>3
    <3>2. PICK u \in 1 .. L : u = p + 1 /\ u <= e /\ l = e - u + 1
      BY <1>1, <2>1, <2>3, <2>4, <3>1
    <3>3. c = SubSeq(list, u, e)
      BY ONLY <2>2, <3>2
    <3>4. Len(c) = l /\ c \in Seq(S)
      BY <1>1, <3>1, <3>2, <3>3
    <3>5. \A i \in 1 .. l : c[i] = list[u + i - 1]
      BY <1>1, <3>1, <3>2, <3>3
    <3>6. \A i \in 1 .. l : u + i - 1 = p + i
      BY <2>1, <2>4, <3>2
    <3>. QED
      BY <3>4, <3>5, <3>6
  <2>6. DOMAIN c = 1 .. l
    BY <2>5
  <2>7. ASSUME NEW x PROVE x \in ToSet(c) <=> \E i \in 1 .. L : x = list[i] /\ p < i /\ i <= p + B
    <3>1. ASSUME x \in ToSet(c) PROVE \E i \in 1 .. L : x = list[i] /\ p < i /\ i <= p + B
      <4>1. PICK i \in 1 .. l : x = c[i]
        BY <2>6, <3>1 DEF ToSet
      <4>2. p + i \in 1 .. L /\ p < p + i /\ p + i <= p + B
        BY <1>1, <1>2, <2>1, <2>3, <2>4
      <4>. QED
        BY <2>5, <4>1, <4>2
    <3>2. ASSUME NEW i \in 1 .. L, x = list[i], p < i, i <= p + B PROVE x \in ToSet(c)
      <4>1. i - p \in 1 .. l /\ p + (i - p) = i
        BY <1>1, <1>2, <2>1, <2>3, <2>4, <3>2
      <4>2. c[i - p] = x
        BY <2>5, <3>2, <4>1
      <4>. QED
        BY <2>6, <4>1, <4>2 DEF ToSet
    <3>. QED
      BY <3>1, <3>2
  <2>. QED
    BY <2>1, <2>4, <2>5, <2>7
<1>7. ASSUME NEW k \in Cuts(list)
      PROVE  /\ Cut(list, k) \in Seq(S) /\ Len(Cut(list, k)) \in 1 .. B
             /\ \A x : x \in ToSet(Cut(list, k)) <=> \E i \in 1 .. L : x = list[i] /\ k * B < i /\ i <= k * B + B
  BY <1>6
<1>8. \A k \in Cuts(list) : ToSet(Cut(list, k)) \subseteq ToSet(list)
  BY <1>1, <1>7 DEF ToSet
<1>9. ASSUME NEW x \in ToSet(list) PROVE \E k \in Cuts(list) : x \in ToSet(Cut(list, k))
  <2>1. PICK i \in 1 .. L : x = list[i]
    BY <1>1 DEF ToSet
  <2> DEFINE T == {k \in 0 .. L : i <= k * B + B}
  <2>2. L \in T
    <3>1. i <= L * B + B
      <4>1. PICK d \in Nat : B = d + 1
        <5>1. B - 1 \in Nat /\ B = (B - 1) + 1
          BY <1>2
        <5>. QED
          BY <5>1
      <4>2. L * B = L * d + L /\ L * d \in Nat
        BY <1>1, <4>1
      <4>3. L * B >= L
        BY <1>1, <4>2
      <4>. QED
        BY <1>1, <1>2, <1>3, <4>3
    <3>. QED
      BY <1>1, <3>1
  <2>3. PICK k \in T : \A j \in T : k <= j
    <3>1. T \in SUBSET (0 .. L) /\ T # {}
      BY <2>2
    <3> HIDE DEF T
    <3>. QED
      BY <1>1, <3>1, Least
  <2>4. k \in 0 .. L /\ i <= k * B + B
    BY <2>3
  <2>5. k * B < i
    <3>1. CASE k = 0
      <4>1. k * B = 0
        BY <1>2, <3>1
      <4>. QED
        BY <1>1, <4>1
    <3>2. CASE k # 0
      <4>1. k - 1 \in 0 .. L /\ ~ k <= k - 1
        BY <1>1, <2>4, <3>2
      <4>2. k - 1 \notin T
        <5> HIDE DEF T
        <5>. QED
          BY <2>3, <4>1
      <4>3. ~ i <= (k - 1) * B + B
        BY <4>1, <4>2
      <4>4. (k - 1) * B + B = k * B
        <5>1. PICK j \in Nat : j = k - 1 /\ k = j + 1
          BY <4>1
        <5>2. (j + 1) * B = j * B + B
          BY <1>3
        <5>. QED
          BY <5>1, <5>2
      <4>5. k * B \in Nat
        BY <1>1, <1>3, <2>4
      <4>. QED
        BY <4>3, <4>4, <4>5
    <3>. QED
      BY <3>1, <3>2
  <2>6. k \in Cuts(list)
    <3>1. k * B \in Nat
      BY <1>1, <1>3, <2>4
    <3>. QED
      BY <1>1, <1>5, <2>4, <2>5, <3>1
  <2>. QED
    BY <1>7, <2>1, <2>4, <2>5, <2>6
<1>10. ASSUME NEW j \in Cuts(list), NEW k \in Cuts(list), ToSet(Cut(list, j)) \cap ToSet(Cut(list, k)) # {}
       PROVE  j = k
  <2>1. PICK x : x \in ToSet(Cut(list, j)) /\ x \in ToSet(Cut(list, k))
    BY <1>10
  <2>2. PICK i \in 1 .. L : x = list[i] /\ j * B < i /\ i <= j * B + B
    BY <1>7, <2>1
  <2>3. PICK h \in 1 .. L : x = list[h] /\ k * B < h /\ h <= k * B + B
    BY <1>7, <2>1
  <2>4. i = h
    BY <1>1, <2>2, <2>3 DEF Distinct
  <2>5. j \in Nat /\ k \in Nat
    BY <1>1, <1>5
  <2>6. PICK p \in Nat, q \in Nat : p = j * B /\ q = k * B
    BY <1>3, <2>5
  <2>7. ~ j < k
    <3> SUFFICES ASSUME j < k PROVE FALSE
      OBVIOUS
    <3>1. p + B <= q
      BY <1>4, <2>5, <2>6
    <3>. QED
      BY <1>1, <1>2, <2>2, <2>3, <2>4, <2>6, <3>1
  <2>8. ~ k < j
    <3> SUFFICES ASSUME k < j PROVE FALSE
      OBVIOUS
    <3>1. q + B <= p
      BY <1>4, <2>5, <2>6
    <3>. QED
      BY <1>1, <1>2, <2>2, <2>3, <2>4, <2>6, <3>1
  <2>. QED
    BY <2>5, <2>7, <2>8
<1>11. ASSUME L <= B, NEW k \in Cuts(list) PROVE k = 0
  <2>1. k \in Nat /\ k * B < L
    BY <1>1, <1>5
  <2> SUFFICES ASSUME k # 0 PROVE FALSE
    OBVIOUS
  <2>2. 0 < k /\ 0 * B = 0
    BY <1>2, <2>1
  <2>3. B <= k * B
    <3>1. 0 * B + B <= k * B
      BY <1>4, <2>1, <2>2
    <3>. QED
      BY <1>2, <2>2, <3>1
  <2>. QED
    BY <1>1, <1>2, <1>3, <1>11, <2>1, <2>3
<1>. QED
  BY <1>1, <1>2, <1>7, <1>8, <1>9, <1>10, <1>11

(* The groups: what of a cluster was asked for, and what is in no cluster.  *)
LEMMA GroupsAre ==
  ASSUME NEW ids \in JobApis, NEW list, list = SetToSeq(ids), NEW K, Clustered(K),
         NEW g \in 0 .. Len(K), NEW G, G = Group(list, K, g)
  PROVE  /\ G \in Seq(Apis) /\ Distinct(G)
         /\ g = 0 => \A x : x \in ToSet(G) <=> x \in ids /\ \A k \in DOMAIN K : x \notin ToSet(K[k])
         /\ g # 0 => ToSet(G) = ids \cap ToSet(K[g])
<1>1. ids \in SUBSET Apis /\ IsFiniteSet(ids)
  <2>1. ids \in SUBSET Apis
    BY DependencyAssumption
  <2>. QED
    BY <2>1, DependencyAssumption, FS_Subset
<1>2. list \in Seq(ids) /\ ToSet(list) = ids /\ Distinct(list)
  BY <1>1, SetToSeqIs
<1>3. list \in Seq(Apis)
  BY <1>1, <1>2
<1>4. PICK m \in Nat : m = Len(K) /\ DOMAIN K = 1 .. m /\ \A k \in 1 .. m : K[k] \in Seq(Apis) /\ Distinct(K[k])
  BY DEF Clustered
<1>5. CASE g = 0
  <2>1. PICK W : W = ids \ Earlier(K, m + 1)
    OBVIOUS
  <2>2. G = Among(list, W)
    BY <1>2, <1>4, <1>5, <2>1 DEF Group
  <2>3. G \in Seq(Apis) /\ ToSet(G) = ids \cap W /\ Distinct(G)
    BY <1>2, <1>3, <2>2, AmongIs
  <2>4. ASSUME NEW x PROVE x \in Earlier(K, m + 1) <=> \E k \in DOMAIN K : x \in ToSet(K[k])
    <3>1. 1 .. (m + 1) - 1 = DOMAIN K
      BY <1>4
    <3>2. Earlier(K, m + 1) = UNION {ToSet(K[k]) : k \in DOMAIN K}
      BY <3>1 DEF Earlier
    <3>. QED
      BY ONLY <3>2
  <2>. QED
    BY <1>5, <2>1, <2>3, <2>4
<1>6. CASE g # 0
  <2>1. PICK W : W = ids \ Earlier(K, g)
    OBVIOUS
  <2>2. G = Among(K[g], W)
    BY <1>2, <1>6, <2>1 DEF Group
  <2>3. g \in 1 .. m
    BY <1>4, <1>6
  <2>4. G \in Seq(Apis) /\ ToSet(G) = ToSet(K[g]) \cap W /\ Distinct(G)
    BY <1>4, <2>2, <2>3, AmongIs
  <2>5. ASSUME NEW x \in ToSet(K[g]) PROVE x \notin Earlier(K, g)
    <3> SUFFICES ASSUME NEW h \in 1 .. g - 1, x \in ToSet(K[h]) PROVE FALSE
      BY DEF Earlier
    <3>1. h \in DOMAIN K /\ g \in DOMAIN K /\ h # g
      BY <1>4, <2>3
    <3>. QED
      BY <2>5, <3>1 DEF Clustered
  <2>. QED
    BY <1>6, <2>1, <2>4, <2>5
<1>. QED
  BY <1>5, <1>6

(* plan_batches follows the clusters.                                      *)
LEMMA SplitFollows ==
  ASSUME NEW ids \in JobApis, NEW batches, batches = Batches(SetToSeq(ids), Components)
  PROVE  FollowClusters(ids, Graph, batches)
<1>1. PICK list, K : list = SetToSeq(ids) /\ K = Components
  OBVIOUS
<1>2. Clustered(K) /\ \A a \in Apis : (\A k \in DOMAIN K : a \notin ToSet(K[k])) => Cluster(Graph, a) = {a}
  BY <1>1, ComponentsAre
<1>3. PICK m \in Nat : m = Len(K) /\ DOMAIN K = 1 .. m
  BY <1>2 DEF Clustered
<1>4. PICK G : G = [g \in 0 .. m |-> Group(list, K, g)]
  OBVIOUS
<1>5. ASSUME NEW g \in 0 .. m
      PROVE  /\ G[g] \in Seq(Apis) /\ Distinct(G[g])
             /\ g = 0 => \A x : x \in ToSet(G[g]) <=> x \in ids /\ \A k \in DOMAIN K : x \notin ToSet(K[k])
             /\ g # 0 => ToSet(G[g]) = ids \cap ToSet(K[g])
  <2>1. G[g] = Group(list, K, g) /\ g \in 0 .. Len(K)
    BY <1>3, <1>4
  <2>. QED
    BY <1>1, <1>2, <2>1, GroupsAre
<1>6. ASSUME NEW g \in 0 .. m
      PROVE  /\ \A k \in Cuts(G[g]) : /\ Len(Cut(G[g], k)) \in 1 .. BatchSize
                                      /\ ToSet(Cut(G[g], k)) \subseteq ToSet(G[g])
             /\ \A x \in ToSet(G[g]) : \E k \in Cuts(G[g]) : x \in ToSet(Cut(G[g], k))
             /\ \A j, k \in Cuts(G[g]) : ToSet(Cut(G[g], j)) \cap ToSet(Cut(G[g], k)) # {} => j = k
             /\ Len(G[g]) <= BatchSize => Cuts(G[g]) \subseteq {0}
  BY <1>5, CutsAre
<1>7. PICK D : D = DOMAIN batches
  OBVIOUS
<1>8. /\ \A d \in D : \E g \in 0 .. m : \E k \in Cuts(G[g]) : d = <<g, k>>
      /\ \A g \in 0 .. m : \A k \in Cuts(G[g]) : <<g, k>> \in D /\ batches[<<g, k>>] = Cut(G[g], k)
  <2>1. \A g \in 0 .. m : G[g] = Group(list, K, g)
    BY <1>4
  <2>2. batches = [x \in UNION {{<<g, k>> : k \in Cuts(Group(list, K, g))} : g \in 0 .. m} |->
                     Cut(Group(list, K, x[1]), x[2])]
    BY <1>1, <1>3 DEF Batches
  <2>3. D = UNION {{<<g, k>> : k \in Cuts(Group(list, K, g))} : g \in 0 .. m}
    BY ONLY <1>7, <2>2
  <2>4. \A x \in D : batches[x] = Cut(Group(list, K, x[1]), x[2])
    BY ONLY <2>2, <2>3
  <2>5. ASSUME NEW g \in 0 .. m, NEW k \in Cuts(G[g]) PROVE <<g, k>> \in D /\ batches[<<g, k>>] = Cut(G[g], k)
    <3>1. <<g, k>> \in D
      BY <2>1, <2>3
    <3>. QED
      BY <2>1, <2>4, <3>1
  <2>6. ASSUME NEW d \in D PROVE \E g \in 0 .. m : \E k \in Cuts(G[g]) : d = <<g, k>>
    BY <2>1, <2>3
  <2>. QED
    BY <2>5, <2>6
\* An API asked for is in one group, and there in one cut.
<1>9. ASSUME NEW a \in ids PROVE \E g \in 0 .. m : a \in ToSet(G[g])
  <2>1. CASE \E k \in DOMAIN K : a \in ToSet(K[k])
    <3>1. PICK k \in 1 .. m : a \in ToSet(K[k])
      BY <1>3, <2>1
    <3>2. k \in 0 .. m /\ k # 0
      BY <1>3, <3>1
    <3>. QED
      BY <1>5, <3>1, <3>2
  <2>2. CASE \A k \in DOMAIN K : a \notin ToSet(K[k])
    <3>1. 0 \in 0 .. m
      BY <1>3
    <3>. QED
      BY <1>5, <2>2, <3>1
  <2>. QED
    BY <2>1, <2>2
<1>10. ASSUME NEW g \in 0 .. m, NEW h \in 0 .. m, NEW a, a \in ToSet(G[g]), a \in ToSet(G[h]) PROVE g = h
  <2>1. \A k \in 0 .. m : k # 0 => k \in DOMAIN K
    BY <1>3
  <2>2. ASSUME NEW i \in 0 .. m, NEW j \in 0 .. m, a \in ToSet(G[i]), a \in ToSet(G[j]), i = 0, j # 0
        PROVE  FALSE
    <3>1. j \in DOMAIN K /\ a \in ToSet(K[j])
      BY <1>5, <2>1, <2>2
    <3>. QED
      BY <1>5, <2>2, <3>1
  <2>3. CASE g # 0 /\ h # 0
    <3>1. ToSet(G[g]) = ids \cap ToSet(K[g]) /\ ToSet(G[h]) = ids \cap ToSet(K[h])
      <4>1. ToSet(G[g]) = ids \cap ToSet(K[g])
        BY <1>5, <2>3
      <4>2. ToSet(G[h]) = ids \cap ToSet(K[h])
        BY <1>5, <2>3
      <4>. QED
        BY ONLY <4>1, <4>2
    <3>2. a \in ToSet(K[g]) /\ a \in ToSet(K[h])
      BY ONLY <1>10, <3>1
    <3>. QED
      BY <1>2, <2>1, <2>3, <3>2 DEF Clustered
  <2>. QED
    BY <1>10, <2>2, <2>3
<1>11. \A g \in 0 .. m : ToSet(G[g]) \subseteq ids
  <2> SUFFICES ASSUME NEW g \in 0 .. m PROVE ToSet(G[g]) \subseteq ids
    OBVIOUS
  <2>. QED
    BY <1>5
<1> DEFINE Of(a) == {d \in D : a \in ToSet(batches[d])}
<1>12. ASSUME NEW a \in ids, NEW g \in 0 .. m, a \in ToSet(G[g])
       PROVE  \E k \in Cuts(G[g]) : Of(a) = {<<g, k>>}
  <2>1. PICK k \in Cuts(G[g]) : a \in ToSet(Cut(G[g], k))
    BY <1>6, <1>12
  <2>2. <<g, k>> \in Of(a)
    BY <1>8, <2>1
  <2>3. ASSUME NEW d \in D, a \in ToSet(batches[d]) PROVE d = <<g, k>>
    <3>1. PICK h, l : h \in 0 .. m /\ l \in Cuts(G[h]) /\ d = <<h, l>>
      BY <1>8
    <3>2. a \in ToSet(Cut(G[h], l))
      BY <1>8, <2>3, <3>1
    <3>3. a \in ToSet(G[h])
      BY <1>6, <3>1, <3>2
    <3>4. h = g
      BY <1>10, <1>12, <3>1, <3>3
    <3>. QED
      BY <1>6, <2>1, <3>1, <3>2, <3>4
  <2>. QED
    BY <2>2, <2>3
<1>13. UNION {ToSet(batches[d]) : d \in D} = ids
  <2>1. ASSUME NEW d \in D PROVE ToSet(batches[d]) \subseteq ids
    <3>1. PICK h, l : h \in 0 .. m /\ l \in Cuts(G[h]) /\ d = <<h, l>>
      BY <1>8
    <3>2. batches[d] = Cut(G[h], l)
      BY <1>8, <3>1
    <3>. QED
      BY <1>6, <1>11, <3>1, <3>2
  <2>2. ASSUME NEW a \in ids PROVE \E d \in D : a \in ToSet(batches[d])
    <3>1. PICK d : d \in Of(a)
      BY <1>9, <1>12
    <3>. QED
      BY <3>1
  <2>. QED
    BY <2>1, <2>2
<1>14. ASSUME NEW d \in D PROVE Len(batches[d]) \in 1 .. BatchSize
  <2>1. PICK h, l : h \in 0 .. m /\ l \in Cuts(G[h]) /\ d = <<h, l>>
    BY <1>8
  <2>2. batches[d] = Cut(G[h], l)
    BY <1>8, <2>1
  <2>. QED
    BY <1>6, <2>1, <2>2
<1>15. ASSUME NEW a \in ids PROVE Cardinality(Of(a)) = 1
  <2>1. PICK d : Of(a) = {d}
    BY <1>9, <1>12
  <2> HIDE DEF Of
  <2>. QED
    BY <2>1, FS_Singleton
<1>16. ASSUME NEW a \in ids, NEW near, near = Cluster(Graph, a) \cap ids,
              Cardinality(near) <= BatchSize, NEW b \in near
       PROVE  Of(a) = Of(b)
  <2>1. PICK g \in 0 .. m : a \in ToSet(G[g])
    BY <1>9
  <2>2. CASE g = 0
    <3>1. a \in Apis /\ \A k \in DOMAIN K : a \notin ToSet(K[k])
      BY <1>5, <2>1, <2>2, DependencyAssumption
    <3>2. near = {a}
      BY <1>2, <1>16, <3>1
    <3>. QED
      BY <1>16, <3>2
  <2>3. CASE g # 0
    <3>1. ToSet(G[g]) = ids \cap ToSet(K[g]) /\ g \in DOMAIN K
      BY <1>3, <1>5, <2>3
    <3>2. Cluster(Graph, a) = ToSet(K[g])
      BY <1>2, <2>1, <3>1 DEF Clustered
    <3>3. near = ToSet(G[g])
      BY <1>16, <3>1, <3>2
    <3>4. Cardinality(near) = Len(G[g])
      BY <1>5, <3>3, DistinctLen
    <3>5. Cuts(G[g]) \subseteq {0}
      BY <1>6, <1>16, <3>4
    <3>6. Of(a) = {<<g, 0>>}
      BY <1>12, <2>1, <3>5
    <3>7. b \in ids /\ b \in ToSet(G[g])
      BY <1>16, <3>3
    <3>8. Of(b) = {<<g, 0>>}
      BY <1>12, <3>5, <3>7
    <3>. QED
      BY <3>6, <3>8
  <2>. QED
    BY <2>2, <2>3
<1>. QED
  BY <1>7, <1>13, <1>14, <1>15, <1>16 DEF FollowClusters

(* A job that was split was split along the clusters; no other request     *)
(* touches what it came to.                                                *)
Follows(r) == r.kind = "split" => r.pc = "over" /\ FollowClusters(r.found.ids, r.found.graph, r.found.batches)
Splits == \A t \in Tasks : Follows(task[t])

LEMMA SplitsMove ==
  ASSUME TasksTyped, Splits, NEW t \in Tasks, NEW r, Follows(r), task' = [task EXCEPT ![t] = r]
  PROVE  Splits'
<1>1. DOMAIN task' = Tasks /\ task'[t] = r /\ \A u \in Tasks : u # t => task'[u] = task[u]
  BY DEF TasksTyped
<1> SUFFICES ASSUME NEW u \in Tasks PROVE Follows(task[u])'
  BY DEF Splits
<1>2. CASE u = t
  BY <1>1, <1>2
<1>3. CASE u # t
  BY <1>1, <1>3 DEF Splits
<1>. QED
  BY <1>2, <1>3

LEMMA OthersSplit ==
  ASSUME EdgeInv, Splits, NEW t \in Tasks, Ask(t) \/ Decay(t) \/ Continue(t), ~ Split(t)
  PROVE  Splits'
<1>1. /\ TasksTyped /\ Job(task[t]) /\ Follows(task[t])
      /\ task[t] = [pc |-> task[t].pc, kind |-> task[t].kind, todo |-> task[t].todo, found |-> task[t].found]
  BY DEF EdgeInv, TasksTyped, Splits, Job
<1>2. SUFFICES ASSUME TRUE
               PROVE  \E r : task' = [task EXCEPT ![t] = r] /\ r.kind # "split"
  BY <1>1, SplitsMove DEF Follows
<1>3. CASE Discover(t) \/ Probe(t) \/ Decay(t)
  <2>1. PICK kd, todo : Starts(t, kd, todo) /\ kd # "split"
    BY <1>3 DEF Discover, Probe, Decay
  <2>2. PICK r : r = [pc |-> "next", kind |-> kd, todo |-> todo, found |-> <<>>]
    OBVIOUS
  <2>3. task' = [task EXCEPT ![t] = r] /\ r.kind = kd
    BY <2>1, <2>2 DEF Starts
  <2>. QED
    BY <2>1, <2>3
<1>4. CASE Find(t)
  <2>1. PICK x \in task[t].todo :
          task' = [task EXCEPT ![t].pc = "write", ![t].todo = @ \ {x},
                               ![t].found = <<x, IF edges[x.pair] = <<>> THEN <<>> ELSE <<edges[x.pair][1]>> >>]
    BY <1>4 DEF Find
  <2>2. PICK found : found = <<x, IF edges[x.pair] = <<>> THEN <<>> ELSE <<edges[x.pair][1]>> >>
    OBVIOUS
  <2>3. PICK r : r = [task[t] EXCEPT !.pc = "write", !.todo = task[t].todo \ {x}, !.found = found]
    OBVIOUS
  <2>4. task' = [task EXCEPT ![t] = r]
    BY ONLY <2>1, <2>2, <2>3
  <2>5. r.kind = task[t].kind /\ task[t].kind \in {"discover", "probe"}
    BY <1>1, <1>4, <2>3 DEF Find
  <2>. QED
    BY <2>4, <2>5
<1>5. CASE Upsert(t)
  <2>1. PICK r : r = [task[t] EXCEPT !.pc = "next", !.found = <<>>]
    OBVIOUS
  <2>2. task' = [task EXCEPT ![t].pc = "next", ![t].found = <<>>]
    BY <1>5 DEF Upsert
  <2>3. task' = [task EXCEPT ![t] = r]
    BY ONLY <2>1, <2>2
  <2>4. r.kind = task[t].kind /\ task[t].kind \in {"discover", "probe"}
    BY <1>1, <1>5, <2>1 DEF Upsert
  <2>. QED
    BY <2>3, <2>4
<1>6. CASE Weaken(t)
  <2>1. PICK x \in task[t].todo : task' = [task EXCEPT ![t].todo = @ \ {x}]
    BY <1>6 DEF Weaken
  <2>2. PICK r : r = [task[t] EXCEPT !.todo = task[t].todo \ {x}]
    OBVIOUS
  <2>3. task' = [task EXCEPT ![t] = r]
    BY ONLY <2>1, <2>2
  <2>4. r.kind = task[t].kind /\ task[t].kind = "decay"
    BY <1>1, <1>6, <2>2 DEF Weaken
  <2>. QED
    BY <2>3, <2>4
<1>7. CASE EndTask(t)
  <2>1. PICK r : r = [Resting EXCEPT !.pc = "over"]
    OBVIOUS
  <2>2. task' = [task EXCEPT ![t] = r]
    BY <1>7, <2>1 DEF EndTask
  <2>3. r.kind = "none"
    BY <2>1 DEF Resting
  <2>. QED
    BY <2>2, <2>3
<1>8. CASE Confirm(t)
  <2>1. PICK p, i : task' = [task EXCEPT ![t] = [pc |-> "vouch", kind |-> "confirm", todo |-> {}, found |-> <<p, i>>]]
    BY <1>8 DEF Confirm
  <2>2. PICK r : r = [pc |-> "vouch", kind |-> "confirm", todo |-> {}, found |-> <<p, i>>]
    OBVIOUS
  <2>3. r.kind = "confirm"
    BY <2>2
  <2>4. task' = [task EXCEPT ![t] = r]
    BY ONLY <2>1, <2>2
  <2>. QED
    BY <2>3, <2>4
<1>9. CASE Vouch(t)
  <2>1. PICK r : r = [task[t] EXCEPT !.pc = "over"]
    OBVIOUS
  <2>2. task' = [task EXCEPT ![t] = r]
    BY <1>9, <2>1 DEF Vouch
  <2>3. r.kind = task[t].kind /\ task[t].kind # "split"
    BY <1>1, <1>9, <2>1 DEF Vouch, Follows
  <2>. QED
    BY <2>2, <2>3
<1>10. CASE Refuse(t)
  <2>1. PICK r : r = [Resting EXCEPT !.pc = "over", !.kind = "refuse"]
    OBVIOUS
  <2>2. task' = [task EXCEPT ![t] = r]
    BY <1>10, <2>1 DEF Refuse
  <2>3. r.kind = "refuse"
    BY <2>1 DEF Resting
  <2>. QED
    BY <2>2, <2>3
<1>. QED
  BY <1>3, <1>4, <1>5, <1>6, <1>7, <1>8, <1>9, <1>10 DEF Ask, Continue

LEMMA SplitKeeps ==
  ASSUME EdgeInv, Splits, NEW t \in Tasks, Split(t)
  PROVE  Splits'
<1>1. PICK ids \in JobApis :
        task' = [task EXCEPT ![t] = [Resting EXCEPT !.pc = "over", !.kind = "split",
                   !.found = [ids |-> ids, graph |-> Graph, batches |-> Batches(SetToSeq(ids), Components)]]]
  BY DEF Split
<1>2. PICK batches : batches = Batches(SetToSeq(ids), Components) /\ FollowClusters(ids, Graph, batches)
  BY SplitFollows
<1>3. PICK found : found = [ids |-> ids, graph |-> Graph, batches |-> batches]
  OBVIOUS
<1>4. PICK r : r = [Resting EXCEPT !.pc = "over", !.kind = "split", !.found = found]
  OBVIOUS
<1>5. task' = [task EXCEPT ![t] = r]
  BY ONLY <1>1, <1>2, <1>3, <1>4
<1>6. r.pc = "over" /\ r.kind = "split" /\ r.found = found
  BY <1>4 DEF Resting
<1>7. found.ids = ids /\ found.graph = Graph /\ found.batches = batches
  BY ONLY <1>3
<1>8. Follows(r)
  BY ONLY <1>2, <1>6, <1>7 DEF Follows
<1>. QED
  BY <1>5, <1>8, SplitsMove DEF EdgeInv

LEMMA SplitsStep ==
  ASSUME EdgeInv, Splits, [Next]_vars
  PROVE  Splits'
<1>1. CASE UNCHANGED depVars
  BY <1>1 DEF Splits, depVars
<1>2. ASSUME NEW t \in Tasks, DependencyWork(t) PROVE Splits'
  BY <1>2, OthersSplit, SplitKeeps DEF DependencyWork
<1>3. ASSUME NEW s \in Reviewers, NEW v \in Versions, Review(s, v)
      PROVE  UNCHANGED depVars \/ Decay(s)
  BY <1>3 DEF Review, Accept, AcceptPartial, EditAndAccept, Accepting, Reject, BatchReject,
              RejectSaying, AutoReview, AskTrial, Begins, Untouched
<1>4. ASSUME NEW s \in Reviewers, Decay(s) PROVE Splits'
  BY <1>4, OthersSplit, SplitKeeps, ReviewAssumption
<1>5. ASSUME NEW s \in Reviewers,
             Untried(s) \/ RunTrial(s) \/ MarkTrial(s) \/ Decide(s) \/ Apply(s)
      PROVE  UNCHANGED depVars
  BY <1>5 DEF Untried, RunTrial, MarkTrial, Decide, Apply, Load, Read, Write, InsertItem, BreakOff,
              Close, TellApi, Trigger, Untouched
<1>6. ASSUME NEW p \in Pupils, KnowledgeWork(p) PROVE UNCHANGED depVars
  BY <1>6 DEF KnowledgeWork
<1>7. UNCHANGED vars \/ DeleteTarget => UNCHANGED depVars
  BY DEF vars, DeleteTarget, Untouched
<1>. QED
  BY <1>1, <1>2, <1>3, <1>4, <1>5, <1>6, <1>7 DEF Next

(* However the edges stand, a scenario job is split into batches within    *)
(* the size that hold each of its APIs exactly once, and no cluster that   *)
(* fits into a batch is torn (build_clusters, plan_batches).               *)
THEOREM BatchesFollowTheGraph == Spec => []BatchesFollowClusters
<1>1. Init => Splits
  BY DEF Init, DependencyInit, Splits, Follows, Resting
<1>2. EdgeInv /\ Splits /\ [Next]_vars => Splits'
  BY SplitsStep
<1>3. Splits => BatchesFollowClusters
  BY DEF Splits, Follows, BatchesFollowClusters
<1>. QED
  BY <1>1, <1>2, <1>3, EdgesInvariant, PTL DEF Spec
===============================================================================
