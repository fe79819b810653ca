----------------------------- MODULE Traffic_proofs ----------------------------
(* The catalogue and recorded traffic, for any requests, plans, rules,     *)
(* batches, failures and changes: that one request is stored once, that    *)
(* what is stored is sent and compared once, and that what the proxy       *)
(* blocked stays out.                                                      *)
EXTENDS Traffic, FiniteSetTheorems, TLAPS

(* Lists: some positions in order, and what a list has at them. *)
LEMMA InOrderIs ==
  ASSUME NEW K \in SUBSET Nat, IsFiniteSet(K)
  PROVE  /\ Cardinality(K) \in Nat
         /\ \A n \in 1 .. Cardinality(K) : InOrder(K)[n] \in K
         /\ \A n, m \in 1 .. Cardinality(K) : InOrder(K)[n] = InOrder(K)[m] => n = m
         /\ \A k \in K : \E n \in 1 .. Cardinality(K) : InOrder(K)[n] = k
<1> DEFINE N == Cardinality(K)
           below == [k \in K |-> Cardinality({j \in K : j < k})]
<1>1. N \in Nat
  BY FS_CardinalityType
<1>2. \A k \in K : below[k] = Cardinality({j \in K : j < k}) /\ IsFiniteSet({j \in K : j < k})
  <2>1. \A k \in K : {j \in K : j < k} \in SUBSET K
    OBVIOUS
  <2>2. \A k \in K : IsFiniteSet({j \in K : j < k})
    BY ONLY IsFiniteSet(K), <2>1, FS_Subset
  <2>. QED
    BY <2>2
<1>3. \A n \in 1 .. N : InOrder(K)[n] = CHOOSE k \in K : Cardinality({j \in K : j < k}) = n - 1
  BY DEF InOrder
<1> HIDE DEF below, N
<1>4. below \in [K -> 0 .. N - 1]
  <2> SUFFICES ASSUME NEW k \in K PROVE below[k] \in 0 .. N - 1
    BY DEF below
  <2>1. PICK U : U = {j \in K : j < k}
    OBVIOUS
  <2>2. U \in SUBSET K /\ U # K /\ IsFiniteSet(U)
    BY <1>2, <2>1
  <2>3. Cardinality(U) \in Nat /\ Cardinality(U) <= N /\ Cardinality(U) # N
    BY <2>2, FS_Subset, FS_CardinalityType DEF N
  <2>4. below[k] = Cardinality(U)
    BY <1>2, <2>1
  <2>. QED
    BY <1>1, <2>3, <2>4
<1>5. ASSUME NEW k \in K, NEW l \in K, k < l PROVE below[k] < below[l]
  <2>1. PICK U, V : U = {j \in K : j < k} /\ V = {j \in K : j < l}
    OBVIOUS
  <2>2. U \in SUBSET V /\ U # V /\ IsFiniteSet(V) /\ IsFiniteSet(U)
    <3>1. k \in V /\ k \notin U
      BY <1>5, <2>1
    <3>2. ASSUME NEW j \in U PROVE j \in V
      <4>1. j \in K /\ j < k
        BY <2>1
      <4>2. j \in Int /\ k \in Int /\ l \in Int
        BY <4>1
      <4>. QED
        BY <1>5, <2>1, <4>1, <4>2
    <3>3. IsFiniteSet(V) /\ IsFiniteSet(U)
      BY <1>2, <2>1
    <3>. QED
      BY <3>1, <3>2, <3>3
  <2>3. Cardinality(U) \in Nat /\ Cardinality(V) \in Nat /\ Cardinality(U) <= Cardinality(V)
        /\ Cardinality(U) # Cardinality(V)
    BY <2>2, FS_Subset, FS_CardinalityType
  <2>4. below[k] = Cardinality(U) /\ below[l] = Cardinality(V)
    BY <1>2, <2>1
  <2>. QED
    BY <2>3, <2>4
<1>6. \A k, l \in K : below[k] = below[l] => k = l
  BY <1>4, <1>5
<1> DEFINE rank == [k \in K |-> below[k] + 1]
<1>7. rank \in [K -> 1 .. N] /\ \A k \in K : rank[k] = below[k] + 1
  BY <1>1, <1>4
<1> HIDE DEF rank
<1>8. rank \in Injection(K, 1 .. N)
  <2>1. \A k, l \in K : rank[k] = rank[l] => k = l
    BY <1>4, <1>6, <1>7
  <2>. QED
    BY <1>7, <2>1 DEF Injection, IsInjective
<1>9. rank \in Surjection(K, 1 .. N)
  <2>1. IsFiniteSet(1 .. N) /\ Cardinality(1 .. N) = Cardinality(K)
    BY <1>1, FS_Interval DEF N
  <2>. QED
    BY <1>8, <2>1, FS_Injection
<1>10. \A n \in 1 .. N : \E k \in K : rank[k] = n
  BY <1>9 DEF Surjection
<1>11. ASSUME NEW n \in 1 .. N PROVE InOrder(K)[n] \in K /\ below[InOrder(K)[n]] = n - 1
  <2>1. PICK k \in K : rank[k] = n
    BY <1>10
  <2>2. Cardinality({j \in K : j < k}) = n - 1
    BY <1>1, <1>2, <1>4, <1>7, <2>1
  <2>3. InOrder(K)[n] \in K /\ Cardinality({j \in K : j < InOrder(K)[n]}) = n - 1
    BY <1>3, <2>2
  <2>. QED
    BY <1>2, <2>3
<1>12. ASSUME NEW n \in 1 .. N, NEW m \in 1 .. N, InOrder(K)[n] = InOrder(K)[m] PROVE n = m
  BY <1>1, <1>11, <1>12
<1>13. ASSUME NEW k \in K PROVE \E n \in 1 .. N : InOrder(K)[n] = k
  <2>1. PICK n : n = rank[k]
    OBVIOUS
  <2>2. n \in 1 .. N /\ n - 1 = below[k]
    BY <1>1, <1>4, <1>7, <2>1
  <2>3. InOrder(K)[n] \in K /\ below[InOrder(K)[n]] = below[k]
    BY <1>11, <2>2
  <2>. QED
    BY <1>6, <2>2, <2>3
<1>. QED
  BY <1>1, <1>11, <1>12, <1>13 DEF N

Distinct(s) == \A i, j \in DOMAIN s : s[i] = s[j] => i = j

LEMMA ChosenOf ==
  ASSUME NEW S, NEW list \in Seq(S), NEW K \in SUBSET (DOMAIN list)
  PROVE  /\ Of(list, K) \in Seq(S)
         /\ ToSet(Of(list, K)) = {list[k] : k \in K}
         /\ Distinct(list) => Distinct(Of(list, K))
<1>1. K \in SUBSET Nat /\ IsFiniteSet(K) /\ DOMAIN list = 1 .. Len(list) /\ Len(list) \in Nat
  <2>1. DOMAIN list = 1 .. Len(list) /\ Len(list) \in Nat
    OBVIOUS
  <2>2. IsFiniteSet(1 .. Len(list))
    BY <2>1, FS_Interval
  <2>. QED
    BY <2>1, <2>2, FS_Subset
<1>2. PICK N, at : N = Cardinality(K) /\ at = InOrder(K)
  OBVIOUS
<1>3. /\ N \in Nat /\ \A n \in 1 .. N : at[n] \in K
      /\ \A n, m \in 1 .. N : at[n] = at[m] => n = m
      /\ \A k \in K : \E n \in 1 .. N : at[n] = k
  BY <1>1, <1>2, InOrderIs
<1>4. Of(list, K) = [n \in 1 .. N |-> list[at[n]]]
  BY <1>2 DEF Of
<1>5. \A k \in K : list[k] \in S
  BY <1>1
<1>6. Of(list, K) \in [1 .. N -> S] /\ DOMAIN Of(list, K) = 1 .. N
  BY <1>3, <1>4, <1>5
<1>7. \A n \in 1 .. N : Of(list, K)[n] = list[at[n]]
  BY <1>4
<1>8. Of(list, K) \in Seq(S)
  BY <1>3, <1>6
<1>9. ToSet(Of(list, K)) = {list[k] : k \in K}
  <2>1. PICK o : o = Of(list, K)
    OBVIOUS
  <2>2. DOMAIN o = 1 .. N /\ \A n \in 1 .. N : o[n] = list[at[n]]
    BY ONLY <1>6, <1>7, <2>1
  <2>3. ToSet(o) = {o[n] : n \in 1 .. N}
    BY ONLY <2>2 DEF ToSet
  <2>4. ASSUME NEW n \in 1 .. N PROVE o[n] \in {list[k] : k \in K}
    BY ONLY <1>3, <2>2
  <2>5. ASSUME NEW k \in K PROVE \E n \in 1 .. N : o[n] = list[k]
    <3>1. PICK n \in 1 .. N : at[n] = k
      BY ONLY <1>3
    <3>. QED
      BY ONLY <2>2, <3>1
  <2>6. {o[n] : n \in 1 .. N} = {list[k] : k \in K}
    BY ONLY <2>4, <2>5
  <2>. QED
    BY ONLY <2>1, <2>3, <2>6
<1>10. Distinct(list) => Distinct(Of(list, K))
  BY <1>1, <1>3, <1>6, <1>7 DEF Distinct
<1>. QED
  BY <1>8, <1>9, <1>10

LEMMA TailOf ==
  ASSUME NEW S, NEW s \in Seq(S), s # <<>>
  PROVE  /\ Head(s) \in S /\ Tail(s) \in Seq(S) /\ Head(s) \in ToSet(s)
         /\ \A x : x \in ToSet(s) <=> x = Head(s) \/ x \in ToSet(Tail(s))
         /\ Distinct(s) => Distinct(Tail(s)) /\ Head(s) \notin ToSet(Tail(s))
<1>1. /\ Head(s) = s[1] /\ Tail(s) \in Seq(S) /\ Len(Tail(s)) = Len(s) - 1
      /\ \A i \in 1 .. Len(s) - 1 : Tail(s)[i] = s[i + 1]
      /\ Len(s) \in Nat \ {0} /\ DOMAIN s = 1 .. Len(s) /\ DOMAIN Tail(s) = 1 .. Len(s) - 1
  OBVIOUS
<1>2. PICK t, n : t = Tail(s) /\ n = Len(s)
  OBVIOUS
<1>3. /\ n \in Nat \ {0} /\ DOMAIN s = 1 .. n /\ DOMAIN t = 1 .. n - 1
      /\ \A i \in 1 .. n - 1 : t[i] = s[i + 1]
  BY <1>1, <1>2
<1>4. ToSet(s) = {s[i] : i \in 1 .. n} /\ ToSet(t) = {t[i] : i \in 1 .. n - 1}
  BY <1>3 DEF ToSet
<1>5. s[1] \in ToSet(s) /\ \A i \in 1 .. n - 1 : i + 1 \in 1 .. n
  BY <1>3, <1>4
<1>6. \A x : x \in ToSet(s) => x = s[1] \/ x \in ToSet(t)
  <2> SUFFICES ASSUME NEW i \in 1 .. n, i # 1 PROVE s[i] \in ToSet(t)
    BY <1>4
  <2>1. i - 1 \in 1 .. n - 1 /\ t[i - 1] = s[i]
    BY <1>3
  <2>. QED
    BY <1>4, <2>1
<1>7. \A x : x \in ToSet(t) => x \in ToSet(s)
  BY <1>3, <1>4, <1>5
<1>8. ASSUME Distinct(s) PROVE Distinct(t) /\ s[1] \notin ToSet(t)
  <2>1. \A i, j \in 1 .. n - 1 : t[i] = t[j] => i = j
    <3> SUFFICES ASSUME NEW i \in 1 .. n - 1, NEW j \in 1 .. n - 1, t[i] = t[j] PROVE i = j
      OBVIOUS
    <3>1. s[i + 1] = s[j + 1] /\ i + 1 \in DOMAIN s /\ j + 1 \in DOMAIN s
      BY <1>3, <1>5
    <3>2. i + 1 = j + 1
      BY <1>8, <3>1 DEF Distinct
    <3>. QED
      BY <3>2
  <2>2. \A i \in 1 .. n - 1 : t[i] # s[1]
    <3> SUFFICES ASSUME NEW i \in 1 .. n - 1, t[i] = s[1] PROVE FALSE
      OBVIOUS
    <3>1. s[i + 1] = s[1] /\ i + 1 \in DOMAIN s /\ 1 \in DOMAIN s
      BY <1>3, <1>5
    <3>2. i + 1 = 1
      BY <1>8, <3>1 DEF Distinct
    <3>. QED
      BY <1>3, <3>2
  <2>. QED
    BY <1>3, <1>4, <2>1, <2>2 DEF Distinct
<1>. QED
  BY <1>1, <1>2, <1>5, <1>6, <1>7, <1>8
------------------------------------------------------------------------------
(* What a caller holds, owes and has done. *)

Ids == Callers \X Nat
Storing == {"dedup", "write", "recover"}
Telling == {"note", "send", "mark", "queued", "push", "record"}
Comparison == {"detect", "report"}
Single == {"start", "keep", "lookup", "insert", "again", "over"}
Ways == {"none", "ok", "failed", "error", "refused", "duplicate", "fault"}
Phases == {"request", "response", "post", "over"}
Pcs == Single \cup Storing \cup Telling \cup Comparison
Entry == [pc : Pcs, read : Nat, batch : Seq(Ids), ids : Seq(Ids), left : Seq(Ids),
          old : Ids \cup {<<>>}, guessed : BOOLEAN, end : Ways]
OwnList(c, s) == Distinct(s) /\ \A id \in ToSet(s) : id[1] = c
Pending(q) ==
  IF q.pc \in Storing THEN ToSet(q.batch) ELSE IF q.pc \in Telling THEN ToSet(q.ids)
  ELSE IF q.pc \in Comparison THEN ToSet(q.left) ELSE {}

(* The lists of a caller q = caller[c] of source s name its own ids, once. *)
Form(s, c, q) ==
  /\ q.pc \in Storing => OwnList(c, q.batch)
  /\ q.pc \in Telling => /\ OwnList(c, q.ids) /\ OwnList(c, q.left)
                         /\ ToSet(q.left) \subseteq ToSet(q.ids)
  /\ q.pc \in Comparison /\ s # "edit" => OwnList(c, q.left)
  /\ q.pc \in {"queued", "push", "record", "report"} => q.left # <<>>
  /\ s \in Recorders \cup {"capture"} =>
       q.pc \notin {"mark", "queued"} /\ (q.pc \in {"push", "record"} => q.left = <<Own(c)>>)
  /\ s \in Recorders => q.pc # "record"
  /\ s = "edit" => q.pc \in {"start", "over"} \cup Comparison
  /\ s = "stream" => /\ q.pc \in {"start", "note", "send", "over"} \cup Storing \cup Comparison
                     /\ \A id \in Pending(q) : id[2] <= q.read

(* U, the ids of c that are stored and not sent, are those it has yet to   *)
(* send: none are left behind except by a failing call.                    *)
Owe(s, q, U) ==
  /\ q.pc \in {"note", "send"} => U \subseteq ToSet(q.ids)
  /\ q.pc = "recover" => U \subseteq ToSet(q.batch)
  /\ q.pc \in {"mark", "queued", "push"} => U \subseteq ToSet(q.left)
  /\ q.pc = "record" => U \subseteq ToSet(Tail(q.left))
  /\ q.pc \notin Telling \cup {"recover"} =>
       \/ U = {}
       \/ q.pc = "over" /\ (q.end = "fault" \/ (s = "openapi" /\ q.end = "failed"))
(* W, those of U that are marked queued: at most the one about to be sent. *)
Await(q, W) ==
  W = {} \/ (q.pc = "push" /\ W \subseteq {Head(q.left)}) \/ (q.pc = "over" /\ q.end = "fault")
(* D, the differences c has reported, concern none it has yet to compare.  *)
Rep(s, c, q, D) ==
  s # "edit" =>
    /\ \A d \in D : d.new \in Ids /\ d.new[1] = c /\ d.new \notin Pending(q)
    /\ s = "stream" => \A d \in D : d.new[2] <= q.read
    /\ \A d, e \in D : d.new = e.new => d = e
    /\ s # "stream" /\ q.pc \notin Comparison \cup {"over"} => D = {}
(* Unless c has guessed, it tells of what was stored (E) and so are the    *)
(* messages S.                                                             *)
Told(c, q, E, S) ==
  ~q.guessed => /\ q.pc \in Telling => ToSet(q.ids) \subseteq E
                /\ \A id \in S : id[1] = c => id \in E

Owes(c) == {id \in Live : id[1] = c} \ sent
Waits(c) == {id \in Owes(c) : apis[id].status = "queued"}
By(c) == {d \in diffs : d.by[1] = c}
Fine(c) ==
  /\ Form(From(c), c, caller[c])
  /\ Owe(From(c), caller[c], Owes(c)) /\ Await(caller[c], Waits(c))
  /\ Rep(From(c), c, caller[c], By(c)) /\ Told(c, caller[c], ever, sent)

(* A flow that has not been posted left no trace; a blocked one never is.  *)
Outside(c) ==
  /\ IsFlow(c) => c \notin DOMAIN records /\ \A id \in ever : id[1] # c
  /\ c \in blocked =>
       IsFlow(c) /\ (flow[c] = "over" \/ (flow[c] = "response" /\ c \in skips))

Unblocked(c) == IsFlow(c) => c \notin blocked

(* What is stored keeps the hash and, unedited, the request of its item;   *)
(* the hashes differ.                                                      *)
Whole(a) == {"hash", "request", "status", "edited", "parsed", "doc"} \subseteq DOMAIN a
Honest ==
  /\ \A id \in Live : /\ id \in Ids /\ Whole(apis[id]) /\ apis[id].hash = Hash(id)
                      /\ apis[id].edited \/ apis[id].request = Item(id)
                      /\ apis[id].status \in {"idle", "queued", "applied"}
  /\ \A a, b \in Live : Hash(a) = Hash(b) => a = b

TrafficInv ==
  /\ plan \in Plans /\ caller \in [Callers -> Entry]
  /\ flow \in [Callers -> Phases] /\ blocked \subseteq Callers
  /\ sent \subseteq Ids /\ \A d \in diffs : d.by[1] \in Callers
  /\ Honest
  /\ \A c \in Callers : Fine(c) /\ Outside(c)
------------------------------------------------------------------------------
(* Who is not concerned stays sound. *)

LEMMA Fewer ==
  ASSUME NEW s, NEW q, NEW U, NEW V, V \subseteq U
  PROVE  (Owe(s, q, U) => Owe(s, q, V)) /\ (Await(q, U) => Await(q, V))
<1>1. ASSUME Owe(s, q, U) PROVE Owe(s, q, V)
  BY <1>1 DEF Owe
<1>2. ASSUME Await(q, U) PROVE Await(q, V)
  BY <1>2 DEF Await
<1>. QED
  BY <1>1, <1>2

LEMMA Frame ==
  ASSUME plan' = plan
  PROVE  /\ \A c : From(c)' = From(c) /\ Items(c)' = Items(c)
         /\ \A id : Hash(id)' = Hash(id) /\ Item(id)' = Item(id)
<1>1. \A c : From(c)' = From(c) /\ Items(c)' = Items(c)
  BY DEF From, Items
<1>2. \A id : Item(id)' = Item(id)
  BY DEF Item
<1>3. \A id : Hash(id)' = Hash(id)
  BY <1>1, <1>2 DEF Hash, Fingerprint
<1>. QED
  BY <1>1, <1>2, <1>3

LEMMA OthersFine ==
  ASSUME TrafficInv, NEW C \in SUBSET Callers, plan' = plan, caller' \in [Callers -> Entry],
         \A d \in Callers \ C : caller'[d] = caller[d],
         \A id \in Live' : id[1] \notin C =>
           id \in Live /\ (apis'[id].status = "queued" => apis[id].status = "queued"),
         sent \subseteq sent', \A id \in sent' : id \in sent \/ id[1] \in C,
         ever \subseteq ever', diffs \subseteq diffs',
         \A d \in diffs' : d \in diffs \/ d.by[1] \in C,
         NEW d \in Callers \ C
  PROVE  Fine(d)'
<1>1. caller'[d] = caller[d] /\ From(d)' = From(d) /\ Fine(d)
  BY Frame DEF TrafficInv
<1>2. Owes(d)' \subseteq Owes(d) /\ Waits(d)' \subseteq Waits(d)
  BY DEF Owes, Waits
<1>3. By(d)' = By(d)
  BY DEF By
<1>4. Owe(From(d), caller[d], Owes(d)') /\ Await(caller[d], Waits(d)')
  BY <1>1, <1>2, Fewer DEF Fine
<1>5. Told(d, caller[d], ever', sent')
  BY <1>1 DEF Fine, Told
<1>6. Form(From(d), d, caller[d]) /\ Rep(From(d), d, caller[d], By(d)')
  BY <1>1, <1>3 DEF Fine
<1>. QED
  BY <1>1, <1>4, <1>5, <1>6 DEF Fine

LEMMA OthersOutside ==
  ASSUME TrafficInv, NEW C \in SUBSET Callers, plan' = plan,
         \A d \in Callers \ C : caller'[d] = caller[d],
         \A id \in ever' : id \in ever \/ id[1] \in C,
         UNCHANGED <<flow, skips, blocked>>, DOMAIN records' \subseteq DOMAIN records \cup C,
         \A c \in C : Unblocked(c) /\ ~ IsFlow(c)',
         NEW d \in Callers
  PROVE  Outside(d)'
<1>1. Outside(d) /\ From(d)' = From(d)
  BY Frame DEF TrafficInv
<1>2. CASE d \in C
  BY <1>1, <1>2 DEF Outside, Unblocked
<1>3. CASE d \notin C
  <2>1. IsFlow(d)' = IsFlow(d)
    BY <1>1, <1>3 DEF IsFlow, At
  <2>. QED
    BY <1>1, <1>3, <2>1 DEF Outside
<1>. QED
  BY <1>2, <1>3

LEMMA HonestStays == Honest /\ UNCHANGED <<plan, apis>> => Honest'
<1> SUFFICES ASSUME Honest, UNCHANGED <<plan, apis>> PROVE Honest'
  OBVIOUS
<1>1. \A id : Hash(id)' = Hash(id) /\ Item(id)' = Item(id)
  BY Frame
<1>. QED
  BY <1>1 DEF Honest, Live, Whole

(* A step that moves one caller and stores, sends and reports nothing. *)
Quiet == UNCHANGED <<plan, apis, diffs, ever, sent, flow, skips, blocked>>
LEMMA QuietStep ==
  ASSUME TrafficInv, NEW c \in Callers, NEW r \in Entry, caller' = [caller EXCEPT ![c] = r],
         Quiet, DOMAIN records' \subseteq DOMAIN records \cup {c}, Unblocked(c), r.pc = "start" => From(c) # "flow",
         Form(From(c), c, r), Owe(From(c), r, Owes(c)), Await(r, Waits(c)),
         Rep(From(c), c, r, By(c)), Told(c, r, ever, sent)
  PROVE  TrafficInv'
<1>1. /\ caller' \in [Callers -> Entry] /\ caller'[c] = r
      /\ \A d \in Callers \ {c} : caller'[d] = caller[d]
  BY DEF TrafficInv
<1>2. From(c)' = From(c) /\ Owes(c)' = Owes(c) /\ Waits(c)' = Waits(c) /\ By(c)' = By(c)
  BY Frame DEF Quiet, Owes, Waits, By, Live
<1>3. Fine(c)'
  BY <1>1, <1>2 DEF Fine, Quiet
<1>4. ASSUME NEW d \in Callers \ {c} PROVE Fine(d)'
  <2>1. \A id \in Live' : id \in Live /\ (apis'[id].status = "queued" => apis[id].status = "queued")
    BY DEF Quiet, Live
  <2>. QED
    BY <1>1, <1>4, <2>1, OthersFine DEF Quiet
<1>5. ~ IsFlow(c)'
  BY <1>1, <1>2 DEF IsFlow, At
<1>6. \A d \in Callers : Outside(d)'
  <2>1. /\ {c} \in SUBSET Callers /\ \A d \in Callers \ {c} : caller'[d] = caller[d]
        /\ \A id \in ever' : id \in ever \/ id[1] \in {c}
        /\ \A x \in {c} : Unblocked(x) /\ ~ IsFlow(x)'
    BY <1>1, <1>5 DEF Quiet
  <2>2. plan' = plan /\ UNCHANGED <<flow, skips, blocked>>
    BY DEF Quiet
  <2>. QED
    BY ONLY TrafficInv, DOMAIN records' \subseteq DOMAIN records \cup {c}, <2>1, <2>2, OthersOutside
<1>7. Honest'
  BY HonestStays DEF TrafficInv, Quiet
<1>. QED
  BY <1>1, <1>3, <1>4, <1>6, <1>7 DEF TrafficInv, Quiet

(* A step of one caller that does store, send or report. *)
LEMMA LoudStep ==
  ASSUME TrafficInv, NEW c \in Callers, NEW r \in Entry, caller' = [caller EXCEPT ![c] = r],
         UNCHANGED <<plan, flow, skips, records, blocked>>, Unblocked(c), r.pc # "start", Honest',
         \A id \in Live' : id[1] # c =>
           id \in Live /\ (apis'[id].status = "queued" => apis[id].status = "queued"),
         sent \subseteq sent', \A id \in sent' \ sent : id \in Ids /\ id[1] = c,
         ever \subseteq ever', \A id \in ever' \ ever : id[1] = c,
         diffs \subseteq diffs', \A d \in diffs' \ diffs : d.by[1] = c,
         Form(From(c), c, r), Owe(From(c), r, Owes(c)'), Await(r, Waits(c)'),
         Rep(From(c), c, r, By(c)'), Told(c, r, ever', sent')
  PROVE  TrafficInv'
<1>1. /\ caller' \in [Callers -> Entry] /\ caller'[c] = r
      /\ \A d \in Callers \ {c} : caller'[d] = caller[d]
  BY DEF TrafficInv
<1>2. From(c)' = From(c)
  BY Frame
<1>3. Fine(c)'
  BY <1>1, <1>2 DEF Fine
<1>4. ASSUME NEW d \in Callers \ {c} PROVE Fine(d)'
  BY <1>1, <1>4, OthersFine
<1>5. ~ IsFlow(c)'
  BY <1>1, <1>2 DEF IsFlow, At
<1>6. \A d \in Callers : Outside(d)'
  <2>1. /\ {c} \in SUBSET Callers /\ \A d \in Callers \ {c} : caller'[d] = caller[d]
        /\ \A id \in ever' : id \in ever \/ id[1] \in {c}
        /\ \A x \in {c} : Unblocked(x) /\ ~ IsFlow(x)'
    BY <1>1, <1>5
  <2>2. plan' = plan /\ UNCHANGED <<flow, skips, blocked>>
    OBVIOUS
  <2>3. DOMAIN records' \subseteq DOMAIN records \cup {c}
    OBVIOUS
  <2>. QED
    BY ONLY TrafficInv, <2>1, <2>2, <2>3, OthersOutside
<1>7. sent' \subseteq Ids /\ \A d \in diffs' : d.by[1] \in Callers
  BY DEF TrafficInv
<1>. QED
  BY <1>1, <1>3, <1>4, <1>6, <1>7 DEF TrafficInv

(* A step that moves no caller. *)
LEMMA StillStep ==
  ASSUME TrafficInv, UNCHANGED <<plan, caller, diffs, ever, sent>>, Honest', Live' \subseteq Live,
         \A id \in Live' : apis'[id].status = "queued" => apis[id].status = "queued",
         flow' \in [Callers -> Phases], blocked' \subseteq Callers,
         \A c \in Callers : Outside(c)'
  PROVE  TrafficInv'
<1>1. \A c \in Callers : Fine(c)'
  <2>1. caller' \in [Callers -> Entry] /\ \A d \in Callers \ {} : caller'[d] = caller[d]
    BY DEF TrafficInv
  <2>2. {} \in SUBSET Callers /\ \A id \in Live' : id \in Live
    OBVIOUS
  <2>. QED
    BY <2>1, <2>2, OthersFine
<1>. QED
  BY <1>1 DEF TrafficInv
------------------------------------------------------------------------------
LEMMA InitInv == TrafficInit => TrafficInv
<1> SUFFICES ASSUME TrafficInit PROVE TrafficInv
  OBVIOUS
<1>1. Idle \in Entry
  <2>1. PICK S, T : S = Seq(Ids) /\ T = Ids \cup {<<>>}
    OBVIOUS
  <2>2. <<>> \in S /\ <<>> \in T
    BY <2>1
  <2>3. "start" \in Pcs /\ "none" \in Ways /\ 0 \in Nat
    BY DEF Pcs, Single, Ways
  <2>4. Idle \in [pc : Pcs, read : Nat, batch : S, ids : S, left : S, old : T,
                  guessed : BOOLEAN, end : Ways]
    BY <2>2, <2>3 DEF Idle
  <2>. QED
    BY ONLY <2>1, <2>4 DEF Entry
<1>2. /\ plan \in Plans /\ caller = [c \in Callers |-> Idle] /\ apis = <<>>
      /\ diffs = {} /\ ever = {} /\ sent = {}
      /\ flow = [c \in Callers |-> "request"] /\ records = <<>> /\ blocked = {}
  BY DEF TrafficInit, CatalogInit
<1>3. Live = {} /\ DOMAIN records = {}
  BY <1>2 DEF Live
<1>4. ASSUME NEW c \in Callers PROVE Fine(c)
  <2>1. caller[c] = Idle /\ Owes(c) = {} /\ Waits(c) = {} /\ By(c) = {}
    BY <1>2, <1>3 DEF Owes, Waits, By
  <2>2. Idle.pc = "start" /\ Idle.guessed = FALSE
    BY DEF Idle
  <2>3. Pending(Idle) = {}
    BY <2>2 DEF Pending, Storing, Telling, Comparison
  <2>4. Form(From(c), c, Idle)
    BY <2>2, <2>3 DEF Form, Storing, Telling, Comparison
  <2>5. Owe(From(c), Idle, {}) /\ Await(Idle, {}) /\ Rep(From(c), c, Idle, {})
    BY <2>2 DEF Owe, Await, Rep, Telling
  <2>6. Told(c, Idle, ever, sent)
    BY <1>2, <2>2 DEF Told, Telling
  <2>. QED
    BY <2>1, <2>4, <2>5, <2>6 DEF Fine
<1>5. \A c \in Callers : Outside(c)
  BY <1>2, <1>3 DEF Outside
<1>6. Honest
  BY <1>3 DEF Honest
<1>7. caller \in [Callers -> Entry] /\ flow \in [Callers -> Phases]
  <2>1. caller \in [Callers -> Entry]
    BY ONLY <1>1, <1>2
  <2>2. "request" \in Phases
    BY DEF Phases
  <2>3. flow \in [Callers -> Phases]
    BY ONLY <1>2, <2>2
  <2>. QED
    BY <2>1, <2>3
<1>8. sent \subseteq Ids /\ (\A d \in diffs : d.by[1] \in Callers) /\ blocked \subseteq Callers
  BY <1>2
<1>9. \A c \in Callers : Fine(c) /\ Outside(c)
  BY ONLY <1>4, <1>5
<1>. QED
  BY ONLY <1>2, <1>6, <1>7, <1>8, <1>9 DEF TrafficInv
------------------------------------------------------------------------------
(* Steps that move no caller. *)

LEMMA HonestChange ==
  ASSUME Honest, plan' = plan, Live' \subseteq Live,
         \A id \in Live' :
           /\ Whole(apis'[id]) /\ apis'[id].hash = apis[id].hash
           /\ apis'[id].edited \/ (~ apis[id].edited /\ apis'[id].request = apis[id].request)
           /\ apis'[id].status \in {"idle", "queued", "applied"}
  PROVE  Honest'
<1>1. \A id : Hash(id)' = Hash(id) /\ Item(id)' = Item(id)
  BY Frame
<1>. QED
  BY <1>1 DEF Honest, Whole

LEMMA SameOutside ==
  ASSUME TrafficInv, UNCHANGED <<plan, caller, ever, flow, skips, blocked>>,
         DOMAIN records' = DOMAIN records, NEW c \in Callers
  PROVE  Outside(c)'
<1>1. Outside(c) /\ From(c)' = From(c)
  BY Frame DEF TrafficInv
<1>. QED
  BY <1>1 DEF Outside, IsFlow, At

LEMMA ForgetStep ==
  TrafficInv /\ (\E id \in ever : Forget(id)) /\ UNCHANGED proxyVars => TrafficInv'
<1> SUFFICES ASSUME TrafficInv, NEW id \in ever, Forget(id), UNCHANGED proxyVars
             PROVE  TrafficInv'
  OBVIOUS
<1>1. /\ apis' = [other \in Live \ {id} |-> apis[other]]
      /\ UNCHANGED <<plan, caller, diffs, ever, sent>>
  BY DEF Forget, history
<1>2. Live' = Live \ {id} /\ \A o \in Live' : apis'[o] = apis[o]
  BY <1>1 DEF Live
<1>3. Honest'
  <2>1. Honest
    BY DEF TrafficInv
  <2>2. \A o \in Live' :
           /\ Whole(apis'[o]) /\ apis'[o].hash = apis[o].hash
           /\ apis'[o].edited \/ (~ apis[o].edited /\ apis'[o].request = apis[o].request)
           /\ apis'[o].status \in {"idle", "queued", "applied"}
    BY <1>2, <2>1 DEF Honest
  <2>. QED
    BY <1>1, <1>2, <2>1, <2>2, HonestChange
<1>4. \A c \in Callers : Outside(c)'
  BY <1>1, SameOutside DEF proxyVars
<1>5. flow' \in [Callers -> Phases] /\ blocked' \subseteq Callers
  BY DEF TrafficInv, proxyVars
<1>. QED
  BY <1>1, <1>2, <1>3, <1>4, <1>5, StillStep

LEMMA AnalyseStep ==
  TrafficInv /\ (\E id \in queue : Analyse(id)) /\ UNCHANGED proxyVars => TrafficInv'
<1> SUFFICES ASSUME TrafficInv, NEW id \in queue, Analyse(id), UNCHANGED proxyVars
             PROVE  TrafficInv'
  OBVIOUS
<1>1. UNCHANGED <<plan, caller, diffs, ever, sent>>
  BY DEF Analyse, Only, history
<1>2. /\ Live' = Live
      /\ \A o \in Live' :
           /\ Whole(apis'[o]) /\ apis'[o].hash = apis[o].hash
           /\ apis'[o].edited \/ (~ apis[o].edited /\ apis'[o].request = apis[o].request)
           /\ apis'[o].status = apis[o].status \/ apis'[o].status = "applied"
  <2>1. CASE apis' = apis
    BY <2>1 DEF Live, TrafficInv, Honest
  <2>2. CASE /\ id \in Live
             /\ apis' = [apis EXCEPT ![id].status = "applied",
                                     ![id].doc = Fields[apis[id].request]]
    <3>1. PICK x : x = Fields[apis[id].request]
      OBVIOUS
    <3>2. apis' = [apis EXCEPT ![id] = [apis[id] EXCEPT !.status = "applied", !.doc = x]]
      BY <2>2, <3>1 DEF Live
    <3>3. PICK a, b : a = apis[id] /\ b = [a EXCEPT !.status = "applied", !.doc = x]
      OBVIOUS
    <3>4. \A o \in Live : Whole(apis[o])
      BY DEF TrafficInv, Honest
    <3>5. Whole(a)
      BY <2>2, <3>3, <3>4
    <3>6. Whole(b) /\ b.hash = a.hash /\ b.edited = a.edited /\ b.request = a.request
          /\ b.status = "applied"
      BY <3>3, <3>5 DEF Whole
    <3>7. Live' = Live /\ apis'[id] = b /\ \A o \in Live \ {id} : apis'[o] = apis[o]
      BY <2>2, <3>2, <3>3 DEF Live
    <3>. QED
      BY <2>2, <3>3, <3>4, <3>6, <3>7
  <2>. QED
    BY <2>1, <2>2 DEF Analyse
<1>3. Honest
  BY DEF TrafficInv
<1>4. \A o \in Live' : apis'[o].status \in {"idle", "queued", "applied"}
  BY <1>2, <1>3 DEF Honest
<1>5. Honest'
  BY <1>1, <1>2, <1>3, <1>4, HonestChange
<1>6. \A c \in Callers : Outside(c)'
  BY <1>1, SameOutside DEF proxyVars
<1>7. flow' \in [Callers -> Phases] /\ blocked' \subseteq Callers
  BY DEF TrafficInv, proxyVars
<1>8. \A o \in Live' : apis'[o].status = "queued" => apis[o].status = "queued"
  BY <1>2
<1>. QED
  BY <1>1, <1>2, <1>5, <1>6, <1>7, <1>8, StillStep

(* Everything but the flows themselves and the two sets that mark them. *)
LEMMA OnlyTraffic ==
  ASSUME TrafficInv, UNCHANGED <<plan, caller, apis, diffs, ever, sent>>,
         flow' \in [Callers -> Phases], blocked' \subseteq Callers,
         \A c \in Callers : Outside(c)'
  PROVE  TrafficInv'
<1>1. Honest' /\ Live' = Live
  BY HonestStays DEF TrafficInv, Live
<1>. QED
  BY <1>1, StillStep

LEMMA ChangeStep ==
  ASSUME TrafficInv,
         \/ Toggle /\ UNCHANGED proxyVars
         \/ \E r \in Rules : ChangeRule(r)
         \/ ToggleCapture \/ ChangeSource \/ DropRules
         \/ \E c \in Callers : Link(c)
  PROVE  TrafficInv'
<1>1. /\ UNCHANGED <<plan, caller, apis, diffs, ever, sent, flow, skips, blocked>>
      /\ DOMAIN records' = DOMAIN records
  <2>1. CASE Toggle /\ UNCHANGED proxyVars
    BY <2>1 DEF Toggle, proxyVars, stores, history
  <2>2. CASE \E r \in Rules : ChangeRule(r)
    BY <2>2 DEF ChangeRule, stores, history
  <2>3. CASE ToggleCapture
    BY <2>3 DEF ToggleCapture, stores, history
  <2>4. CASE ChangeSource
    BY <2>4 DEF ChangeSource, stores, history
  <2>5. CASE DropRules
    BY <2>5 DEF DropRules, catalogVars, stores, history
  <2>6. CASE \E c \in Callers : Link(c)
    BY <2>6 DEF Link, Only, stores, history
  <2>. QED
    BY <2>1, <2>2, <2>3, <2>4, <2>5, <2>6
<1>2. \A c \in Callers : Outside(c)'
  BY <1>1, SameOutside
<1>3. flow' \in [Callers -> Phases] /\ blocked' \subseteq Callers
  BY <1>1 DEF TrafficInv
<1>. QED
  BY <1>1, <1>2, <1>3, OnlyTraffic
------------------------------------------------------------------------------
(* The proxy. *)

LEMMA RequestStep == TrafficInv /\ (\E c \in Callers : Request(c)) => TrafficInv'
<1> SUFFICES ASSUME TrafficInv, NEW c \in Callers, Request(c) PROVE TrafficInv'
  OBVIOUS
<1>1. /\ IsFlow(c) /\ flow[c] = "request" /\ flow' = [flow EXCEPT ![c] = "response"]
      /\ UNCHANGED <<plan, caller, apis, diffs, ever, sent, records>>
      /\ \/ skips' = skips \cup {c} /\ blocked' = blocked \cup {c}
         \/ skips' = skips /\ blocked' = blocked
  BY DEF Request, catalogVars, stores, history
<1>2. flow' \in [Callers -> Phases] /\ blocked' \subseteq Callers
  BY <1>1 DEF TrafficInv, Phases
<1>3. ASSUME NEW d \in Callers PROVE Outside(d)'
  <2>1. Outside(d) /\ From(d)' = From(d)
    BY <1>1, Frame DEF TrafficInv
  <2>2. IsFlow(d)' = IsFlow(d)
    BY <1>1, <2>1 DEF IsFlow, At
  <2>3. flow'[d] = IF d = c THEN "response" ELSE flow[d]
    BY <1>1 DEF TrafficInv
  <2>. QED
    BY <1>1, <2>1, <2>2, <2>3 DEF Outside
<1>. QED
  BY <1>1, <1>2, <1>3, OnlyTraffic

LEMMA ResponseStep == TrafficInv /\ (\E c \in Callers : Response(c)) => TrafficInv'
<1> SUFFICES ASSUME TrafficInv, NEW c \in Callers, Response(c) PROVE TrafficInv'
  OBVIOUS
<1>1. /\ IsFlow(c) /\ flow[c] = "response"
      /\ UNCHANGED <<plan, caller, apis, diffs, ever, sent, records, blocked>>
  BY DEF Response, catalogVars, stores, history
<1>2. \/ flow' = [flow EXCEPT ![c] = "over"] /\ skips' \in {skips, skips \ {c}}
      \/ flow' = [flow EXCEPT ![c] = "post"] /\ skips' = skips /\ c \notin skips
  BY DEF Response, Passes, Skipped
<1>3. flow' \in [Callers -> Phases] /\ blocked' \subseteq Callers
  BY <1>1, <1>2 DEF TrafficInv, Phases
<1>4. ASSUME NEW d \in Callers PROVE Outside(d)'
  <2>1. Outside(d) /\ From(d)' = From(d)
    BY <1>1, Frame DEF TrafficInv
  <2>2. IsFlow(d)' = IsFlow(d)
    BY <1>1, <2>1 DEF IsFlow, At
  <2>3. CASE d # c
    <3>1. flow'[d] = flow[d] /\ (d \in skips' <=> d \in skips)
      BY <1>2, <2>3 DEF TrafficInv
    <3>. QED
      BY <1>1, <2>1, <2>2, <3>1 DEF Outside
  <2>4. CASE d = c
    <3>1. flow'[c] = "over" \/ c \notin skips
      BY <1>2 DEF TrafficInv
    <3>. QED
      BY <1>1, <2>1, <2>2, <2>4, <3>1 DEF Outside
  <2>. QED
    BY <2>3, <2>4
<1>. QED
  BY <1>1, <1>3, <1>4, OnlyTraffic

LEMMA LoseStep == TrafficInv /\ (\E c \in Callers : Lose(c)) => TrafficInv'
<1> SUFFICES ASSUME TrafficInv, NEW c \in Callers, Lose(c) PROVE TrafficInv'
  OBVIOUS
<1>1. /\ flow' = [flow EXCEPT ![c] = "over"]
      /\ UNCHANGED <<plan, caller, apis, diffs, ever, sent, records, skips, blocked>>
  BY DEF Lose, Passes, stores, history
<1>2. flow' \in [Callers -> Phases] /\ blocked' \subseteq Callers
  BY <1>1 DEF TrafficInv, Phases
<1>3. ASSUME NEW d \in Callers PROVE Outside(d)'
  <2>1. Outside(d) /\ From(d)' = From(d)
    BY <1>1, Frame DEF TrafficInv
  <2>2. IsFlow(d)' = IsFlow(d)
    BY <1>1, <2>1 DEF IsFlow, At
  <2>3. flow'[d] = IF d = c THEN "over" ELSE flow[d]
    BY <1>1 DEF TrafficInv
  <2>. QED
    BY <1>1, <2>1, <2>2, <2>3 DEF Outside
<1>. QED
  BY <1>1, <1>2, <1>3, OnlyTraffic
------------------------------------------------------------------------------
(* Steps that move one caller and store nothing. *)

LEMMA Standing ==
  ASSUME TrafficInv, NEW c \in Callers
  PROVE  /\ caller[c] \in Entry /\ Form(From(c), c, caller[c])
         /\ Owe(From(c), caller[c], Owes(c)) /\ Await(caller[c], Waits(c))
         /\ Rep(From(c), c, caller[c], By(c)) /\ Told(c, caller[c], ever, sent)
         /\ Waits(c) \subseteq Owes(c)
BY DEF TrafficInv, Fine, Waits

(* Nothing is owed before anything is stored or once all is sent. *)
Free == Single \cup {"dedup", "write"} \cup Comparison
LEMMA Clear ==
  ASSUME NEW s, NEW q, NEW U, Owe(s, q, U), q.pc \in Free \ {"over"}
  PROVE  U = {}
BY DEF Owe, Free, Single, Comparison, Telling

LEMMA StillClear ==
  ASSUME NEW s, NEW c, NEW q, NEW r, NEW E, NEW S, Told(c, q, E, S), r.guessed = q.guessed,
         r.pc \notin Telling
  PROVE  Owe(s, r, {}) /\ Await(r, {}) /\ Told(c, r, E, S)
<1>1. Owe(s, r, {}) /\ Await(r, {})
  BY DEF Owe, Await
<1>2. Told(c, r, E, S)
  BY DEF Told
<1>. QED
  BY <1>1, <1>2

LEMMA Alone ==
  ASSUME NEW s, NEW c, NEW q, NEW r, NEW D, Rep(s, c, q, D), r.pc \in Single,
         q.read \in Nat, r.read \in Nat, q.read <= r.read,
         \/ r.pc = "over"
         \/ s = "stream" /\ r.pc = "start"
         \/ s \notin {"stream", "edit"} /\ q.pc \notin Comparison \cup {"over"}
  PROVE  Form(s, c, r) /\ Rep(s, c, r, D)
<1>1. r.pc \notin Storing \cup Telling \cup Comparison /\ r.pc \notin {"queued", "push", "record", "report"}
  BY DEF Single, Storing, Telling, Comparison
<1>2. Pending(r) = {}
  BY <1>1 DEF Pending
<1>3. Form(s, c, r)
  BY <1>1, <1>2 DEF Form, Telling
<1>4. s = "stream" => \A d \in D : d.new[2] <= r.read
  <2> SUFFICES ASSUME s = "stream", NEW d \in D PROVE d.new[2] <= r.read
    OBVIOUS
  <2>1. d.new \in Ids /\ d.new[2] <= q.read
    BY DEF Rep
  <2>2. d.new[2] \in Nat
    BY <2>1 DEF Ids
  <2>. QED
    BY <2>1, <2>2
<1>5. Rep(s, c, r, D)
  BY <1>1, <1>2, <1>4 DEF Rep
<1>. QED
  BY <1>3, <1>5

LEMMA EndStep ==
  ASSUME TrafficInv, NEW c \in Callers, NEW how \in Ways, Quiet,
         DOMAIN records' \subseteq DOMAIN records, Unblocked(c), Ends(c, how),
         Owes(c) = {} \/ how = "fault"
  PROVE  TrafficInv'
<1>1. PICK q, r : q = caller[c] /\ r = [q EXCEPT !.pc = "over", !.end = how]
  OBVIOUS
<1>2. caller' = [caller EXCEPT ![c] = r]
  BY <1>1 DEF Ends
<1>3. q \in Entry
  BY <1>1, Standing
<1>4. /\ r \in Entry /\ r.pc = "over" /\ r.end = how /\ r.read = q.read /\ r.guessed = q.guessed
      /\ q.read \in Nat
  BY <1>1, <1>3 DEF Entry, Pcs, Single
<1>5. Form(From(c), c, r) /\ Rep(From(c), c, r, By(c))
  <2>1. Rep(From(c), c, q, By(c)) /\ r.pc \in Single
    BY <1>1, <1>4, Standing DEF Single
  <2>. QED
    BY ONLY <1>4, <2>1, Alone
<1>6. Owe(From(c), r, Owes(c)) /\ Await(r, Waits(c)) /\ Told(c, r, ever, sent)
  <2>1. r.pc \notin Telling /\ Told(c, q, ever, sent)
    BY <1>1, <1>4, Standing DEF Telling
  <2>2. CASE Owes(c) = {}
    <3>1. Waits(c) = {}
      BY <2>2 DEF Waits
    <3>. QED
      BY <1>4, <2>1, <2>2, <3>1, StillClear
  <2>3. CASE how = "fault"
    <3>1. Owe(From(c), r, Owes(c)) /\ Await(r, Waits(c))
      BY <1>4, <2>3 DEF Owe, Await, Telling
    <3>. QED
      BY <1>4, <2>1, <3>1, StillClear
  <2>. QED
    BY <2>2, <2>3
<1>. QED
  BY <1>2, <1>4, <1>5, <1>6, QuietStep

LEMMA MoveStep ==
  ASSUME TrafficInv, NEW c \in Callers, NEW p \in Single \ {"over"}, Quiet,
         DOMAIN records' \subseteq DOMAIN records \cup {c}, Unblocked(c), Moves(c, p),
         caller[c].pc \in Free \ {"over"},
         \/ From(c) = "stream" /\ p = "start"
         \/ From(c) \notin {"stream", "edit"} /\ p # "start" /\ ~ Comparing(c)
  PROVE  TrafficInv'
<1>1. PICK q, r : q = caller[c] /\ r = [q EXCEPT !.pc = p]
  OBVIOUS
<1>2. caller' = [caller EXCEPT ![c] = r]
  BY <1>1 DEF Moves
<1>3. q \in Entry
  BY <1>1, Standing
<1>4. /\ r \in Entry /\ r.pc = p /\ r.read = q.read /\ r.guessed = q.guessed
      /\ q.read \in Nat
  BY <1>1, <1>3 DEF Entry, Pcs
<1>5. Form(From(c), c, r) /\ Rep(From(c), c, r, By(c))
  <2>1. Rep(From(c), c, q, By(c))
    BY <1>1, Standing
  <2>2. \/ From(c) = "stream" /\ r.pc = "start"
        \/ From(c) \notin {"stream", "edit"} /\ q.pc \notin Comparison \cup {"over"}
    BY <1>1, <1>4 DEF Comparing, Comparison
  <2>. QED
    BY ONLY <1>4, <2>1, <2>2, p \in Single \ {"over"}, Alone
<1>6. Owe(From(c), r, Owes(c)) /\ Await(r, Waits(c)) /\ Told(c, r, ever, sent)
  <2>1. r.pc \notin Telling /\ Told(c, q, ever, sent)
    BY <1>1, <1>4, Standing DEF Telling, Single
  <2>2. Owes(c) = {} /\ Waits(c) = {}
    BY <1>1, Standing, Clear DEF Waits
  <2>. QED
    BY <1>4, <2>1, <2>2, StillClear
<1>7. r.pc = "start" => From(c) # "flow"
  BY <1>4
<1>. QED
  BY <1>2, <1>4, <1>5, <1>6, <1>7, QuietStep

LEMMA RunsOn ==
  ASSUME TrafficInv, NEW c \in Callers
  PROVE  /\ ~ At(c, "start") => Unblocked(c)
         /\ From(c) # "flow" => Unblocked(c)
         /\ flow[c] = "post" => Unblocked(c)
BY DEF TrafficInv, Outside, Unblocked, IsFlow, At

LEMMA SubmitStep ==
  ASSUME TrafficInv, NEW c \in Callers, Submit(c) \/ Ingest(c) \/ Again(c) \/ Admit(c) \/ Keep(c),
         UNCHANGED proxyVars \/ Admit(c) \/ Keep(c)
  PROVE  TrafficInv'
<1>1. Quiet /\ DOMAIN records' \subseteq DOMAIN records \cup {c}
  <2>1. CASE Submit(c) /\ UNCHANGED proxyVars
    BY <2>1 DEF Submit, Quiet, Only, stores, history, proxyVars
  <2>2. CASE Ingest(c) /\ UNCHANGED proxyVars
    BY <2>2 DEF Ingest, Quiet, Only, stores, history, proxyVars
  <2>3. CASE Again(c) /\ UNCHANGED proxyVars
    BY <2>3 DEF Again, Quiet, Only, stores, history, proxyVars
  <2>4. CASE Admit(c)
    BY <2>4 DEF Admit, Quiet, Only, stores, history, proxyVars
  <2>5. CASE Keep(c)
    <3>1. Quiet /\ records' = [x \in DOMAIN records \cup {c} |-> IF x = c THEN Unlinked ELSE records[x]]
      BY <2>5 DEF Keep, Quiet, Only, stores, history
    <3>. QED
      BY <3>1
  <2>. QED
    BY <2>1, <2>2, <2>3, <2>4, <2>5
<1>2. Keep(c) \/ DOMAIN records' \subseteq DOMAIN records
  BY DEF Admit, proxyVars
<1>3. /\ caller[c].pc \in {"start", "again", "keep"}
      /\ From(c) \in {"form", "curl", "capture"} \cup Recorders \/ ~ At(c, "start")
      /\ Unblocked(c)
  BY RunsOn DEF Submit, Ingest, Again, Admit, Keep, Posted, At, Recorders, IsFlow, Unblocked
<1>4. From(c) \notin {"stream", "edit"}
  <2>1. Form(From(c), c, caller[c])
    BY Standing
  <2>2. From(c) = "stream" => caller[c].pc \notin {"again", "keep"}
    BY <2>1 DEF Form, Storing, Comparison
  <2>3. From(c) = "edit" => caller[c].pc \notin {"again", "keep"}
    BY <2>1 DEF Form, Comparison
  <2>. QED
    BY <1>3, <2>2, <2>3 DEF At, Recorders
<1>5. caller[c].pc \in Free \ {"over"} /\ ~ Comparing(c)
  BY <1>3 DEF Free, Single, Comparing
<1>6. Owes(c) = {}
  BY <1>5, Standing, Clear
<1>7. \/ \E p \in {"insert", "keep", "lookup"} : Moves(c, p)
      \/ (\E how \in {"refused", "duplicate", "failed"} : Ends(c, how)) /\ ~ Keep(c)
  BY DEF Submit, Ingest, Again, Admit, Keep, At
<1>8. CASE \E p \in {"insert", "keep", "lookup"} : Moves(c, p)
  <2>1. PICK p \in Single \ {"over"} : Moves(c, p) /\ p # "start"
    BY <1>8 DEF Single
  <2>. QED
    BY ONLY TrafficInv, c \in Callers, <1>1, <1>3, <1>4, <1>5, <2>1, MoveStep
<1>9. CASE (\E how \in {"refused", "duplicate", "failed"} : Ends(c, how)) /\ ~ Keep(c)
  <2>1. PICK how \in Ways : Ends(c, how)
    BY <1>9 DEF Ways
  <2>. QED
    BY ONLY TrafficInv, c \in Callers, <1>1, <1>2, <1>3, <1>6, <1>9, <2>1, EndStep
<1>. QED
  BY <1>7, <1>8, <1>9

LEMMA LookupStep ==
  ASSUME TrafficInv, NEW c \in Callers, Lookup(c), UNCHANGED proxyVars
  PROVE  TrafficInv'
<1>1. Quiet /\ DOMAIN records' \subseteq DOMAIN records /\ At(c, "lookup") /\ Unblocked(c)
  BY RunsOn DEF Lookup, Quiet, Only, stores, history, proxyVars, At
<1>2. Owes(c) = {} /\ caller[c].pc \in Free \ {"over"} /\ ~ Comparing(c)
  BY <1>1, Standing, Clear DEF At, Free, Single, Comparing
<1>3. From(c) \notin {"stream", "edit"}
  BY <1>1, Standing DEF At, Form, Storing, Comparison
<1>4. CASE Moves(c, "insert")
  BY <1>1, <1>2, <1>3, <1>4, MoveStep DEF Single
<1>5. CASE \E id \in Holders(Hash(Own(c))) :
             caller' = [caller EXCEPT ![c].pc = "over", ![c].end = "duplicate", ![c].ids = <<id>>]
  <2>1. PICK id \in Live : caller' = [caller EXCEPT ![c].pc = "over", ![c].end = "duplicate",
                                                    ![c].ids = <<id>>]
    BY <1>5 DEF Holders
  <2>2. PICK q, r, i : /\ q = caller[c] /\ i = <<id>>
                       /\ r = [q EXCEPT !.pc = "over", !.end = "duplicate", !.ids = i]
    OBVIOUS
  <2>3. caller' = [caller EXCEPT ![c] = r]
    BY <2>1, <2>2
  <2>4. i \in Seq(Ids) /\ q \in Entry
    BY <2>2, Standing DEF TrafficInv, Honest
  <2>5. /\ r \in Entry /\ r.pc = "over" /\ r.read = q.read /\ r.guessed = q.guessed /\ q.read \in Nat
    BY <2>2, <2>4 DEF Entry, Pcs, Single, Ways
  <2>6. Form(From(c), c, r) /\ Rep(From(c), c, r, By(c))
    <3>1. Rep(From(c), c, q, By(c)) /\ r.pc \in Single
      BY <2>2, <2>5, Standing DEF Single
    <3>. QED
      BY ONLY <2>5, <3>1, Alone
  <2>7. Owe(From(c), r, Owes(c)) /\ Await(r, Waits(c)) /\ Told(c, r, ever, sent)
    <3>1. r.pc \notin Telling /\ Told(c, q, ever, sent) /\ Waits(c) = {}
      BY <1>2, <2>2, <2>5, Standing DEF Telling, Waits
    <3>. QED
      BY <1>2, <2>5, <3>1, StillClear
  <2>. QED
    BY <1>1, <2>3, <2>5, <2>6, <2>7, QuietStep
<1>. QED
  BY <1>4, <1>5 DEF Lookup
------------------------------------------------------------------------------
(* Files. *)

LEMMA ParsedIs ==
  ASSUME TrafficInv, NEW c \in Callers, NEW first \in Nat \ {0}, NEW last \in Nat
  PROVE  /\ Parsed(c, first, last) \in Seq(Ids) /\ OwnList(c, Parsed(c, first, last))
         /\ \A id \in ToSet(Parsed(c, first, last)) : id[2] \in first .. last
<1>1. PICK K : K = {k \in first .. last : Usable(c, k)}
  OBVIOUS
<1>2. K \in SUBSET Nat /\ IsFiniteSet(K) /\ K \subseteq first .. last
  <2>1. IsFiniteSet(first .. last) /\ K \subseteq first .. last /\ first .. last \subseteq Nat
    BY <1>1, FS_Interval
  <2>. QED
    BY <2>1, FS_Subset
<1>3. PICK N, at : N = Cardinality(K) /\ at = InOrder(K)
  OBVIOUS
<1>4. /\ N \in Nat /\ \A n \in 1 .. N : at[n] \in K
      /\ \A n, m \in 1 .. N : at[n] = at[m] => n = m
      /\ DOMAIN at = 1 .. N
  BY <1>2, <1>3, InOrderIs DEF InOrder
<1>5. PICK b : b = Parsed(c, first, last)
  OBVIOUS
<1>6. b = [n \in 1 .. N |-> <<c, at[n]>>]
  BY <1>1, <1>3, <1>4, <1>5 DEF Parsed
<1>7. \A n \in 1 .. N : b[n] = <<c, at[n]>> /\ b[n] \in Ids /\ b[n][1] = c /\ b[n][2] \in first .. last
  BY <1>2, <1>4, <1>6 DEF Ids
<1>8. DOMAIN b = 1 .. N /\ b \in Seq(Ids)
  <2>1. b \in [1 .. N -> Ids]
    BY <1>6, <1>7
  <2>. QED
    BY <1>4, <2>1
<1>9. Distinct(b)
  <2> SUFFICES ASSUME NEW n \in 1 .. N, NEW m \in 1 .. N, b[n] = b[m] PROVE n = m
    BY <1>8 DEF Distinct
  <2>1. at[n] = at[m]
    BY <1>7
  <2>. QED
    BY <1>4, <2>1
<1>10. \A id \in ToSet(b) : id[1] = c /\ id[2] \in first .. last
  BY <1>7, <1>8 DEF ToSet
<1>. QED
  BY <1>5, <1>8, <1>9, <1>10 DEF OwnList

LEMMA TakesStep ==
  ASSUME TrafficInv, NEW c \in Callers, Quiet, DOMAIN records' \subseteq DOMAIN records,
         At(c, "start"), From(c) \notin {"flow", "edit"},
         NEW first \in Nat \ {0}, NEW last \in Nat, Takes(c, last, Parsed(c, first, last)),
         From(c) = "stream" => first = caller[c].read + 1 /\ caller[c].read <= last,
         From(c) # "stream" => Parsed(c, first, last) # <<>>
  PROVE  TrafficInv'
<1>1. PICK q, b : q = caller[c] /\ b = Parsed(c, first, last)
  OBVIOUS
<1>2. PICK r : r = [q EXCEPT !.pc = IF b = <<>> THEN "start" ELSE "dedup", !.read = last, !.batch = b]
  OBVIOUS
<1>3. caller' = [caller EXCEPT ![c] = r]
  BY <1>1, <1>2 DEF Takes
<1>4. b \in Seq(Ids) /\ OwnList(c, b) /\ \A id \in ToSet(b) : id[2] \in first .. last
  BY <1>1, ParsedIs
<1>5. q \in Entry /\ q.pc = "start" /\ Rep(From(c), c, q, By(c)) /\ Told(c, q, ever, sent)
  BY <1>1, Standing DEF At
<1>6. /\ r \in Entry /\ r.pc = (IF b = <<>> THEN "start" ELSE "dedup") /\ r.read = last
      /\ r.batch = b /\ r.guessed = q.guessed /\ q.read \in Nat
      /\ From(c) = "stream" => q.read <= last
  BY <1>1, <1>2, <1>4, <1>5 DEF Entry, Pcs, Single, Storing
<1>7. Owe(From(c), r, Owes(c)) /\ Await(r, Waits(c)) /\ Told(c, r, ever, sent)
  <2>1. r.pc \notin Telling /\ Owes(c) = {} /\ Waits(c) = {}
    BY <1>1, <1>5, <1>6, Standing, Clear DEF Telling, Free, Single, Waits
  <2>. QED
    BY <1>5, <1>6, <2>1, StillClear
<1>8. Form(From(c), c, r) /\ Rep(From(c), c, r, By(c))
  <2>1. CASE b = <<>>
    <3>1. From(c) = "stream" /\ r.pc = "start" /\ r.pc \in Single
      BY <1>1, <1>6, <2>1 DEF Single
    <3>2. q.read <= r.read /\ r.read \in Nat
      BY <1>6, <3>1
    <3>. QED
      BY ONLY <1>5, <1>6, <3>1, <3>2, Alone
  <2>2. CASE b # <<>>
    <3>1. r.pc = "dedup" /\ Pending(r) = ToSet(b)
      BY <1>6, <2>2 DEF Pending, Storing
    <3>2. Form(From(c), c, r)
      <4>1. From(c) = "stream" => \A id \in ToSet(b) : id[2] <= last
        BY <1>4
      <4>. QED
        BY <1>4, <1>6, <3>1, <4>1 DEF Form, Storing, Telling, Comparison
    <3>3. From(c) # "stream" => By(c) = {}
      BY <1>5 DEF Rep, Comparison
    <3>4. From(c) = "stream" => \A d \in By(c) : d.new[2] <= last /\ d.new \notin ToSet(b)
      <4> SUFFICES ASSUME From(c) = "stream", NEW d \in By(c)
                   PROVE  d.new[2] <= last /\ d.new \notin ToSet(b)
        OBVIOUS
      <4>1. d.new \in Ids /\ d.new[2] <= q.read
        BY <1>5 DEF Rep
      <4>2. d.new[2] \in Nat
        BY <4>1 DEF Ids
      <4>3. \A id \in ToSet(b) : id[2] \in q.read + 1 .. last
        BY <1>1, <1>4
      <4>. QED
        BY <1>6, <4>1, <4>2, <4>3
    <3>5. Rep(From(c), c, r, By(c))
      BY <1>5, <1>6, <3>1, <3>3, <3>4 DEF Rep, Comparison
    <3>. QED
      BY <3>2, <3>5
  <2>. QED
    BY <2>1, <2>2
<1>9. DOMAIN records' \subseteq DOMAIN records \cup {c} /\ Unblocked(c)
  BY RunsOn
<1>. QED
  BY <1>3, <1>6, <1>7, <1>8, <1>9, QuietStep

LEMMA QuarantineStep ==
  ASSUME TrafficInv, NEW c \in Callers, At(c, "start"), From(c) # "flow", Quarantines(c),
         UNCHANGED proxyVars
  PROVE  TrafficInv'
<1>1. /\ Quiet /\ DOMAIN records' \subseteq DOMAIN records /\ Ends(c, "failed")
      /\ "failed" \in Ways /\ Unblocked(c)
  BY RunsOn DEF Quarantines, Quiet, Only, history, proxyVars, Ways
<1>2. Owes(c) = {}
  BY Standing, Clear DEF At, Free, Single
<1>. QED
  BY <1>1, <1>2, EndStep

LEMMA AfterBatchStep ==
  ASSUME TrafficInv, NEW c \in Callers, Quiet, DOMAIN records' \subseteq DOMAIN records,
         Unblocked(c), Owes(c) = {}, AfterBatch(c), caller[c].pc \in Free \ {"over"} \/ From(c) = "openapi"
  PROVE  TrafficInv'
<1>1. CASE From(c) = "stream"
  <2>1. Moves(c, "start") /\ "start" \in Single \ {"over"} /\ caller[c].pc \in Free \ {"over"}
    BY <1>1 DEF AfterBatch, Single
  <2>2. DOMAIN records' \subseteq DOMAIN records \cup {c}
    OBVIOUS
  <2>. QED
    BY <1>1, <2>1, <2>2, MoveStep
<1>2. CASE From(c) # "stream"
  <2>1. PICK how \in Ways : Ends(c, how)
    BY <1>2 DEF AfterBatch, Ways
  <2>. QED
    BY <2>1, EndStep
<1>. QED
  BY <1>1, <1>2

LEMMA FinishStep ==
  ASSUME TrafficInv, NEW c \in Callers, Quiet, DOMAIN records' \subseteq DOMAIN records,
         caller[c].pc \in Comparison, Finish(c)
  PROVE  TrafficInv'
<1>1. Owes(c) = {} /\ caller[c].pc \in Free \ {"over"} /\ Unblocked(c)
  BY Standing, Clear, RunsOn DEF Free, Comparison, At
<1>2. CASE From(c) \in {"har", "stream"}
  BY <1>1, <1>2, AfterBatchStep DEF Finish
<1>3. CASE From(c) \notin {"har", "stream"}
  BY <1>1, <1>3, EndStep DEF Finish, Ways
<1>. QED
  BY <1>2, <1>3

LEMMA Brought ==
  ASSUME TrafficInv, NEW c \in Callers
  PROVE  Items(c) \in Seq(Requests \cup {"static"}) /\ Len(Items(c)) \in Nat
<1>1. Items(c) \in Seq(Requests \cup {"static"})
  BY CatalogAssumption DEF TrafficInv, Items
<1>. QED
  BY <1>1

LEMMA ReadFileStep ==
  ASSUME TrafficInv, NEW c \in Callers, ReadFile(c), UNCHANGED proxyVars
  PROVE  TrafficInv'
<1>1. From(c) \in {"har", "openapi"} /\ At(c, "start")
  BY DEF ReadFile
<1>2. CASE Quarantines(c)
  BY <1>1, <1>2, QuarantineStep
<1>3. CASE ~ Quarantines(c)
  <2>1. PICK last : last = Len(Items(c))
    OBVIOUS
  <2>2. /\ Takes(c, last, Parsed(c, 1, last)) /\ Parsed(c, 1, last) # <<>>
        /\ Only(<<stores, history>>)
    BY <1>3, <2>1 DEF ReadFile
  <2>3. Quiet /\ DOMAIN records' \subseteq DOMAIN records
    BY <2>2 DEF Only, Quiet, stores, history, proxyVars
  <2>4. last \in Nat /\ 1 \in Nat \ {0}
    BY <2>1, Brought
  <2>. QED
    BY <1>1, <2>2, <2>3, <2>4, TakesStep
<1>. QED
  BY <1>2, <1>3

LEMMA ReadBatchStep ==
  ASSUME TrafficInv, NEW c \in Callers, ReadBatch(c), UNCHANGED proxyVars
  PROVE  TrafficInv'
<1>1. From(c) = "stream" /\ At(c, "start")
  BY DEF ReadBatch
<1>2. caller[c].read \in Nat /\ Len(Items(c)) \in Nat /\ BatchSize \in Nat
  BY Standing, Brought, CatalogAssumption DEF Entry
<1>3. CASE Quarantines(c)
  BY <1>1, <1>3, QuarantineStep
<1>4. CASE \E last \in Nat : /\ caller[c].read <= last
                             /\ Takes(c, last, Parsed(c, caller[c].read + 1, last))
                             /\ Only(<<stores, history>>)
  <2>1. PICK last \in Nat : /\ caller[c].read <= last
                            /\ Takes(c, last, Parsed(c, caller[c].read + 1, last))
                            /\ Only(<<stores, history>>)
    BY <1>4
  <2>2. Quiet /\ DOMAIN records' \subseteq DOMAIN records
    BY <2>1 DEF Only, Quiet, stores, history, proxyVars
  <2>3. PICK first : first = caller[c].read + 1
    OBVIOUS
  <2>4. first \in Nat \ {0}
    BY <1>2, <2>3
  <2>5. /\ Takes(c, last, Parsed(c, first, last)) /\ From(c) \notin {"flow", "edit"}
        /\ From(c) = "stream" => first = caller[c].read + 1 /\ caller[c].read <= last
        /\ From(c) # "stream" => Parsed(c, first, last) # <<>>
    BY <1>1, <2>1, <2>3
  <2>. QED
    BY ONLY TrafficInv, c \in Callers, <1>1, <2>1, <2>2, <2>4, <2>5, TakesStep
<1>5. CASE Ends(c, "ok") /\ Only(<<stores, history>>)
  <2>1. Quiet /\ DOMAIN records' \subseteq DOMAIN records /\ "ok" \in Ways
    BY <1>5 DEF Only, Quiet, stores, history, proxyVars, Ways
  <2>2. Owes(c) = {} /\ Unblocked(c)
    BY <1>1, Standing, Clear, RunsOn DEF At, Free, Single
  <2>. QED
    BY <1>5, <2>1, <2>2, EndStep
<1>6. \/ Quarantines(c)
      \/ Ends(c, "ok") /\ Only(<<stores, history>>)
      \/ \E last \in Nat : /\ caller[c].read <= last
                           /\ Takes(c, last, Parsed(c, caller[c].read + 1, last))
                           /\ Only(<<stores, history>>)
  <2>1. CASE NextBatch(c) # {}
    <3>1. /\ Takes(c, caller[c].read + BatchSize,
                   Parsed(c, caller[c].read + 1, caller[c].read + BatchSize))
          /\ Only(<<stores, history>>)
      BY <2>1 DEF ReadBatch
    <3>2. caller[c].read + BatchSize \in Nat /\ caller[c].read <= caller[c].read + BatchSize
      BY <1>2
    <3>. QED
      BY <3>1, <3>2
  <2>2. CASE NextBatch(c) = {} /\ plan[c].whole /\ caller[c].read < Len(Items(c))
    <3>1. /\ Takes(c, Len(Items(c)), Parsed(c, caller[c].read + 1, Len(Items(c))))
          /\ Only(<<stores, history>>)
      <4>1. PICK read, last : read = caller[c].read /\ last = Len(Items(c))
        OBVIOUS
      <4>2. plan[c].whole /\ read < last /\ NextBatch(c) = {} /\ ~ (NextBatch(c) # {})
        BY <2>2, <4>1
      <4>3. Takes(c, last, Parsed(c, read + 1, last)) /\ Only(<<stores, history>>)
        BY <1>2, <4>1, <4>2 DEF ReadBatch
      <4>. QED
        BY <4>1, <4>3
    <3>. QED
      BY <1>2, <2>2, <3>1
  <2>3. CASE NextBatch(c) = {} /\ ~ (plan[c].whole /\ caller[c].read < Len(Items(c)))
    BY <2>3 DEF ReadBatch
  <2>. QED
    BY <2>1, <2>2, <2>3
<1>. QED
  BY <1>3, <1>4, <1>5, <1>6

LEMMA DedupStep ==
  ASSUME TrafficInv, NEW c \in Callers, Dedup(c), UNCHANGED proxyVars
  PROVE  TrafficInv'
<1>1. /\ At(c, "dedup") /\ Unblocked(c) /\ Quiet /\ DOMAIN records' \subseteq DOMAIN records
      /\ Owes(c) = {} /\ Waits(c) = {} /\ caller[c].pc \in Free \ {"over"}
  <2>1. At(c, "dedup") /\ Quiet /\ DOMAIN records' \subseteq DOMAIN records
    BY DEF Dedup, Only, Quiet, stores, history, proxyVars
  <2>2. Unblocked(c) /\ Owes(c) = {} /\ caller[c].pc \in Free \ {"over"}
    BY <2>1, RunsOn, Standing, Clear DEF At, Free
  <2>. QED
    BY <2>1, <2>2 DEF Waits
<1>2. PICK q, K, new : /\ q = caller[c] /\ K = {k \in DOMAIN q.batch : ~ Known(Hash(q.batch[k]))}
                       /\ new = Of(q.batch, K)
  OBVIOUS
<1>3. CASE new = <<>>
  <2>1. AfterBatch(c)
    BY <1>2, <1>3 DEF Dedup
  <2>. QED
    BY <1>1, <2>1, AfterBatchStep
<1>4. CASE new # <<>>
  <2>1. PICK r : r = [q EXCEPT !.pc = "write", !.batch = new]
    OBVIOUS
  <2>2. caller' = [caller EXCEPT ![c] = r]
    BY <1>2, <1>4, <2>1 DEF Dedup
  <2>3. /\ q \in Entry /\ q.pc = "dedup" /\ Form(From(c), c, q) /\ Rep(From(c), c, q, By(c))
        /\ Told(c, q, ever, sent)
    BY <1>1, <1>2, Standing DEF At
  <2>4. q.batch \in Seq(Ids) /\ OwnList(c, q.batch)
    BY <2>3 DEF Entry, Form, Storing
  <2>5. new \in Seq(Ids) /\ OwnList(c, new) /\ ToSet(new) \subseteq ToSet(q.batch)
    <3>1. K \in SUBSET DOMAIN q.batch
      BY <1>2
    <3>2. new \in Seq(Ids) /\ ToSet(new) = {q.batch[k] : k \in K} /\ Distinct(new)
      BY <1>2, <2>4, <3>1, ChosenOf DEF OwnList
    <3>3. ToSet(new) \subseteq ToSet(q.batch)
      BY <3>1, <3>2 DEF ToSet
    <3>. QED
      BY <2>4, <3>2, <3>3 DEF OwnList
  <2>6. /\ r \in Entry /\ r.pc = "write" /\ r.batch = new /\ r.read = q.read /\ r.guessed = q.guessed
    BY <2>1, <2>3, <2>5 DEF Entry, Pcs, Storing
  <2>7. Pending(r) = ToSet(new) /\ Pending(q) = ToSet(q.batch)
    BY <2>3, <2>6 DEF Pending, Storing
  <2>8. Form(From(c), c, r)
    <3>1. From(c) = "stream" => \A id \in ToSet(new) : id[2] <= q.read
      BY <2>3, <2>5, <2>7 DEF Form
    <3>2. From(c) # "edit"
      BY <2>3 DEF Form, Comparison
    <3>. QED
      BY <2>5, <2>6, <2>7, <3>1, <3>2 DEF Form, Storing, Telling, Comparison
  <2>9. Rep(From(c), c, r, By(c))
    BY <2>3, <2>5, <2>6, <2>7 DEF Rep, Comparison
  <2>10. Owe(From(c), r, Owes(c)) /\ Await(r, Waits(c)) /\ Told(c, r, ever, sent)
    <3>1. r.pc \notin Telling
      BY <2>6 DEF Telling
    <3>. QED
      BY <1>1, <2>3, <2>6, <3>1, StillClear
  <2>11. DOMAIN records' \subseteq DOMAIN records \cup {c} /\ r.pc # "start"
    BY <1>1, <2>6
  <2>. QED
    BY <1>1, <2>2, <2>6, <2>8, <2>9, <2>10, <2>11, QuietStep
<1>. QED
  BY <1>3, <1>4

LEMMA RecoverStep ==
  ASSUME TrafficInv, NEW c \in Callers, Recover(c), UNCHANGED proxyVars
  PROVE  TrafficInv'
<1>1. At(c, "recover") /\ Quiet /\ DOMAIN records' \subseteq DOMAIN records \cup {c} /\ Unblocked(c)
  BY RunsOn DEF Recover, Only, Quiet, stores, history, proxyVars, At
<1>2. PICK q, K, ids : /\ q = caller[c] /\ K = {k \in DOMAIN q.batch : Known(Hash(q.batch[k]))}
                       /\ ids = Of(q.batch, K)
  OBVIOUS
<1>3. PICK r : r = [q EXCEPT !.pc = "note", !.ids = ids, !.left = ids, !.guessed = TRUE]
  OBVIOUS
<1>4. caller' = [caller EXCEPT ![c] = r]
  BY <1>2, <1>3 DEF Recover, Recovered
<1>5. /\ q \in Entry /\ q.pc = "recover" /\ Form(From(c), c, q) /\ Rep(From(c), c, q, By(c))
      /\ Owe(From(c), q, Owes(c)) /\ Await(q, Waits(c))
  BY <1>1, <1>2, Standing DEF At
<1>6. q.batch \in Seq(Ids) /\ OwnList(c, q.batch)
  BY <1>5 DEF Entry, Form, Storing
<1>7. K \in SUBSET DOMAIN q.batch
  BY <1>2
<1>8. ids \in Seq(Ids) /\ ToSet(ids) = {q.batch[k] : k \in K} /\ Distinct(ids)
  BY <1>2, <1>6, <1>7, ChosenOf DEF OwnList
<1>9. ToSet(ids) \subseteq ToSet(q.batch) /\ OwnList(c, ids)
  BY <1>6, <1>7, <1>8 DEF OwnList, ToSet
<1>10. /\ r \in Entry /\ r.pc = "note" /\ r.ids = ids /\ r.left = ids /\ r.read = q.read
       /\ r.guessed = TRUE
  BY <1>3, <1>5, <1>8 DEF Entry, Pcs, Telling
<1>11. Pending(r) = ToSet(ids) /\ Pending(q) = ToSet(q.batch)
  BY <1>5, <1>10 DEF Pending, Storing, Telling
<1>12. From(c) # "edit"
  BY <1>5 DEF Form, Comparison
<1>13. Form(From(c), c, r)
  <2>1. From(c) = "stream" => \A id \in ToSet(ids) : id[2] <= q.read
    BY <1>5, <1>9, <1>11 DEF Form
  <2>. QED
    BY <1>9, <1>10, <1>11, <1>12, <2>1 DEF Form, Storing, Telling, Comparison
<1>14. Rep(From(c), c, r, By(c))
  BY <1>5, <1>9, <1>10, <1>11 DEF Rep, Comparison
<1>15. Owes(c) \subseteq ToSet(ids)
  <2> SUFFICES ASSUME NEW id \in Owes(c) PROVE id \in ToSet(ids)
    OBVIOUS
  <2>1. id \in Live /\ id \in ToSet(q.batch)
    BY <1>5 DEF Owes, Owe
  <2>2. Known(Hash(id))
    BY <2>1 DEF TrafficInv, Honest, Known
  <2>3. PICK k \in DOMAIN q.batch : id = q.batch[k]
    BY <2>1 DEF ToSet
  <2>. QED
    BY <1>2, <1>8, <2>2, <2>3
<1>16. Owe(From(c), r, Owes(c)) /\ Await(r, Waits(c)) /\ Told(c, r, ever, sent)
  <2>1. Waits(c) = {}
    BY <1>5 DEF Await
  <2>. QED
    BY <1>10, <1>15, <2>1 DEF Owe, Await, Told, Telling
<1>. QED
  BY <1>1, <1>4, <1>10, <1>13, <1>14, <1>16, QuietStep
------------------------------------------------------------------------------
(* Telling and comparing. *)

(* Nothing but pc and left changes; what is left is of ids. *)
LEMMA TellsOn ==
  ASSUME TrafficInv, NEW c \in Callers, Quiet, DOMAIN records' \subseteq DOMAIN records,
         NEW q, q = caller[c], q.pc \in Telling, NEW r \in Entry,
         caller' = [caller EXCEPT ![c] = r],
         r.ids = q.ids, r.read = q.read, r.guessed = q.guessed,
         r.pc \in Telling \cup Comparison,
         OwnList(c, r.left), ToSet(r.left) \subseteq ToSet(q.ids),
         r.pc \in {"queued", "push", "record", "report"} => r.left # <<>>,
         From(c) \in Recorders \cup {"capture"} =>
           r.pc \notin {"mark", "queued"} /\ (r.pc \in {"push", "record"} => r.left = <<Own(c)>>),
         From(c) \in Recorders => r.pc # "record",
         From(c) = "stream" => r.pc \in {"note", "send", "detect"},
         r.pc \in {"note", "send"} => Owes(c) \subseteq ToSet(q.ids),
         r.pc \in {"mark", "queued", "push"} => Owes(c) \subseteq ToSet(r.left),
         r.pc = "record" => Owes(c) \subseteq ToSet(Tail(r.left)),
         r.pc \in Comparison => Owes(c) = {},
         Waits(c) = {}
  PROVE  TrafficInv'
<1>1. r.pc # "start" /\ q.pc # "start"
  BY DEF Telling, Comparison
<1>2. Form(From(c), c, q) /\ Rep(From(c), c, q, By(c)) /\ Told(c, q, ever, sent)
  BY Standing
<1>3. Pending(q) = ToSet(q.ids) /\ Pending(r) \subseteq ToSet(q.ids)
  BY DEF Pending, Storing, Telling, Comparison
<1>4. OwnList(c, q.ids) /\ From(c) # "edit"
  BY <1>2 DEF Form, Telling, Comparison
<1>5. Form(From(c), c, r)
  <2>1. From(c) = "stream" => \A id \in Pending(r) : id[2] <= q.read
    BY <1>2, <1>3 DEF Form
  <2>2. r.pc \notin Storing
    BY DEF Storing, Telling, Comparison
  <2>3. From(c) = "stream" => r.pc \in {"start", "note", "send", "over"} \cup Storing \cup Comparison
    BY DEF Comparison
  <2>. QED
    BY <1>4, <2>1, <2>2, <2>3 DEF Form
<1>6. Rep(From(c), c, r, By(c))
  <2>1. From(c) # "stream" => By(c) = {}
    BY <1>2, <1>4 DEF Rep, Telling, Comparison
  <2>. QED
    BY <1>2, <1>3, <2>1 DEF Rep
<1>7. Owe(From(c), r, Owes(c))
  BY DEF Owe, Telling, Comparison
<1>8. Await(r, Waits(c)) /\ Told(c, r, ever, sent)
  BY <1>2 DEF Await, Told
<1>9. Unblocked(c) /\ DOMAIN records' \subseteq DOMAIN records \cup {c}
  BY <1>1, RunsOn DEF At
<1>. QED
  BY <1>1, <1>5, <1>6, <1>7, <1>8, <1>9, QuietStep

LEMMA TellingIs ==
  ASSUME TrafficInv, NEW c \in Callers, NEW q, q = caller[c], q.pc \in Telling
  PROVE  /\ q \in Entry /\ q.ids \in Seq(Ids) /\ q.left \in Seq(Ids)
         /\ OwnList(c, q.ids) /\ OwnList(c, q.left) /\ ToSet(q.left) \subseteq ToSet(q.ids)
         /\ q.pc \in {"queued", "push", "record"} => q.left # <<>>
         /\ From(c) = "stream" => q.pc \in {"note", "send"}
         /\ From(c) \in Recorders \cup {"capture"} =>
              q.pc \notin {"mark", "queued"} /\ (q.pc \in {"push", "record"} => q.left = <<Own(c)>>)
         /\ From(c) \in Recorders => q.pc # "record"
         /\ q.pc \in {"note", "send"} => Owes(c) \subseteq ToSet(q.ids)
         /\ q.pc \in {"mark", "queued", "push"} => Owes(c) \subseteq ToSet(q.left)
         /\ q.pc = "record" => Owes(c) \subseteq ToSet(Tail(q.left))
         /\ q.pc # "push" => Waits(c) = {}
         /\ Unblocked(c)
<1>1. q \in Entry /\ Form(From(c), c, q) /\ Owe(From(c), q, Owes(c)) /\ Await(q, Waits(c))
  BY Standing
<1>2. q.ids \in Seq(Ids) /\ q.left \in Seq(Ids)
  BY <1>1 DEF Entry
<1>3. q.pc # "over" /\ q.pc # "start" /\ q.pc \notin Storing \cup Comparison
  BY DEF Telling, Storing, Comparison
<1>4. Waits(c) = {} \/ q.pc = "push"
  BY <1>1, <1>3 DEF Await
<1>5. Unblocked(c)
  BY <1>3, RunsOn DEF At
<1>6. From(c) = "stream" => q.pc \in {"note", "send"}
  BY <1>1, <1>3 DEF Form
<1>. QED
  BY <1>1, <1>2, <1>4, <1>5, <1>6 DEF Form, Owe

LEMMA NoteStep ==
  ASSUME TrafficInv, NEW c \in Callers, Quiet, DOMAIN records' \subseteq DOMAIN records,
         At(c, "note"), Moves(c, "send")
  PROVE  TrafficInv'
<1>1. PICK q, r : q = caller[c] /\ r = [q EXCEPT !.pc = "send"]
  OBVIOUS
<1>2. q.pc = "note" /\ q.pc \in Telling
  BY <1>1 DEF At, Telling
<1>3. q \in Entry /\ OwnList(c, q.left) /\ ToSet(q.left) \subseteq ToSet(q.ids)
      /\ Owes(c) \subseteq ToSet(q.ids) /\ Waits(c) = {}
  BY <1>1, <1>2, TellingIs
<1>4. /\ r \in Entry /\ r.pc = "send" /\ r.left = q.left /\ r.ids = q.ids /\ r.read = q.read
      /\ r.guessed = q.guessed
  BY <1>1, <1>3 DEF Entry, Pcs, Telling
<1>5. caller' = [caller EXCEPT ![c] = r]
  BY <1>1 DEF Moves
<1>6. r.pc \in Telling \cup Comparison /\ r.pc \notin Comparison
      /\ r.pc \notin {"queued", "push", "record", "report"}
  BY <1>4 DEF Telling, Comparison
<1>. QED
  BY <1>1, <1>2, <1>3, <1>4, <1>5, <1>6, TellsOn

LEMMA RecordStep ==
  ASSUME TrafficInv, NEW c \in Callers, Quiet, DOMAIN records' \subseteq DOMAIN records,
         At(c, "record"), AfterRecord(c)
  PROVE  TrafficInv'
<1>1. PICK q : q = caller[c]
  OBVIOUS
<1>2. q.pc = "record" /\ q.pc \in Telling
  BY <1>1 DEF At, Telling
<1>3. /\ q \in Entry /\ q.left \in Seq(Ids) /\ OwnList(c, q.left) /\ ToSet(q.left) \subseteq ToSet(q.ids)
      /\ Owes(c) \subseteq ToSet(Tail(q.left)) /\ Waits(c) = {} /\ q.left # <<>>
      /\ From(c) # "stream" /\ From(c) \notin Recorders
      /\ From(c) = "capture" => q.left = <<Own(c)>>
  BY <1>1, <1>2, TellingIs
<1>4. CASE From(c) = "capture"
  <2>1. PICK r : r = [q EXCEPT !.pc = "detect"]
    OBVIOUS
  <2>2. /\ r \in Entry /\ r.pc = "detect" /\ r.left = q.left /\ r.ids = q.ids /\ r.read = q.read
        /\ r.guessed = q.guessed
    BY <1>3, <2>1 DEF Entry, Pcs, Comparison
  <2>3. caller' = [caller EXCEPT ![c] = r]
    BY <1>1, <1>4, <2>1 DEF AfterRecord, Moves
  <2>4. Owes(c) = {}
    <3>1. q.left = <<Own(c)>>
      BY <1>3, <1>4
    <3>2. Tail(q.left) = <<>>
      BY ONLY <3>1
    <3>3. ToSet(<<>>) = {}
      BY DEF ToSet
    <3>. QED
      BY <1>3, <3>2, <3>3
  <2>5. r.pc \in Telling \cup Comparison /\ r.pc \notin Telling
        /\ r.pc \notin {"queued", "push", "record", "report"}
    BY <2>2 DEF Telling, Comparison
  <2>. QED
    BY <1>1, <1>2, <1>3, <2>2, <2>3, <2>4, <2>5, TellsOn
<1>5. CASE From(c) # "capture"
  <2>1. PICK l, r : l = Tail(q.left) /\ r = [q EXCEPT !.pc = "mark", !.left = l]
    OBVIOUS
  <2>2. /\ l \in Seq(Ids) /\ OwnList(c, l) /\ ToSet(l) \subseteq ToSet(q.left)
    BY <1>3, <2>1, TailOf DEF OwnList
  <2>3. /\ r \in Entry /\ r.pc = "mark" /\ r.left = l /\ r.ids = q.ids /\ r.read = q.read
        /\ r.guessed = q.guessed
    BY <1>3, <2>1, <2>2 DEF Entry, Pcs, Telling
  <2>4. caller' = [caller EXCEPT ![c] = r]
    BY <1>1, <1>5, <2>1 DEF AfterRecord
  <2>5. r.pc \in Telling \cup Comparison /\ r.pc \notin Comparison
        /\ r.pc \notin {"queued", "push", "record", "report"}
    BY <2>3 DEF Telling, Comparison
  <2>6. /\ ToSet(l) \subseteq ToSet(q.ids) /\ Owes(c) \subseteq ToSet(l)
        /\ From(c) \notin Recorders \cup {"capture"}
    BY <1>3, <1>5, <2>1, <2>2
  <2>. QED
    BY <1>1, <1>2, <1>3, <2>2, <2>3, <2>4, <2>5, <2>6, TellsOn
<1>. QED
  BY <1>4, <1>5

LEMMA MarkStep ==
  ASSUME TrafficInv, NEW c \in Callers, Mark(c), UNCHANGED proxyVars
  PROVE  TrafficInv'
<1>1. At(c, "mark") /\ Quiet /\ DOMAIN records' \subseteq DOMAIN records
  BY DEF Mark, Only, Quiet, stores, history, proxyVars
<1>2. PICK q : q = caller[c]
  OBVIOUS
<1>3. q.pc = "mark" /\ q.pc \in Telling
  BY <1>1, <1>2 DEF At, Telling
<1>4. /\ q \in Entry /\ q.left \in Seq(Ids) /\ q.ids \in Seq(Ids)
      /\ OwnList(c, q.left) /\ OwnList(c, q.ids) /\ ToSet(q.left) \subseteq ToSet(q.ids)
      /\ Owes(c) \subseteq ToSet(q.left) /\ Waits(c) = {} /\ From(c) # "stream" /\ Unblocked(c)
      /\ From(c) \notin Recorders \cup {"capture"}
  BY <1>2, <1>3, TellingIs
<1>5. CASE q.left = <<>>
  <2>1. ToSet(<<>>) = {}
    BY DEF ToSet
  <2>2. Owes(c) = {} /\ Marked(c)
    BY <1>2, <1>4, <1>5, <2>1 DEF Mark
  <2>3. CASE From(c) = "openapi"
    BY <1>1, <1>4, <2>2, <2>3, AfterBatchStep DEF Marked
  <2>4. CASE From(c) # "openapi"
    <3>1. PICK r : r = [q EXCEPT !.pc = "detect", !.left = q.ids]
      OBVIOUS
    <3>2. /\ r \in Entry /\ r.pc = "detect" /\ r.left = q.ids /\ r.ids = q.ids /\ r.read = q.read
          /\ r.guessed = q.guessed
      BY <1>4, <3>1 DEF Entry, Pcs, Comparison
    <3>3. caller' = [caller EXCEPT ![c] = r]
      BY <1>2, <2>2, <2>4, <3>1 DEF Marked
    <3>4. r.pc \in Telling \cup Comparison /\ r.pc \notin Telling
          /\ r.pc \notin {"queued", "push", "record", "report"}
      BY <3>2 DEF Telling, Comparison
    <3>. QED
      BY <1>1, <1>2, <1>3, <1>4, <2>2, <3>2, <3>3, <3>4, TellsOn
  <2>. QED
    BY <2>3, <2>4
<1>6. CASE q.left # <<>> /\ Head(q.left) \in Live /\ apis[Head(q.left)].status \notin {"queued", "running"}
  <2>1. PICK r : r = [q EXCEPT !.pc = "queued"]
    OBVIOUS
  <2>2. /\ r \in Entry /\ r.pc = "queued" /\ r.left = q.left /\ r.ids = q.ids /\ r.read = q.read
        /\ r.guessed = q.guessed
    BY <1>4, <2>1 DEF Entry, Pcs, Telling
  <2>3. caller' = [caller EXCEPT ![c] = r]
    BY <1>2, <1>6, <2>1 DEF Mark, Moves
  <2>4. r.pc \in Telling \cup Comparison /\ r.pc \notin Comparison
    BY <2>2 DEF Telling, Comparison
  <2>. QED
    BY <1>1, <1>2, <1>3, <1>4, <1>6, <2>2, <2>3, <2>4, TellsOn
<1>7. CASE q.left # <<>> /\ ~ (Head(q.left) \in Live /\ apis[Head(q.left)].status \notin {"queued", "running"})
  <2>1. PICK l, r : l = Tail(q.left) /\ r = [q EXCEPT !.left = l]
    OBVIOUS
  <2>2. /\ l \in Seq(Ids) /\ OwnList(c, l) /\ ToSet(l) \subseteq ToSet(q.left)
        /\ \A x : x \in ToSet(q.left) <=> x = Head(q.left) \/ x \in ToSet(l)
    BY <1>4, <1>7, <2>1, TailOf DEF OwnList
  <2>3. /\ r \in Entry /\ r.pc = "mark" /\ r.left = l /\ r.ids = q.ids /\ r.read = q.read
        /\ r.guessed = q.guessed
    BY <1>3, <1>4, <2>1, <2>2 DEF Entry
  <2>4. caller' = [caller EXCEPT ![c] = r]
    BY <1>2, <1>7, <2>1 DEF Mark
  <2>5. Head(q.left) \notin Owes(c)
    <3> SUFFICES ASSUME Head(q.left) \in Owes(c) PROVE FALSE
      OBVIOUS
    <3>1. Head(q.left) \in Live /\ apis[Head(q.left)].status \in {"queued", "running"}
      BY <1>7 DEF Owes
    <3>2. apis[Head(q.left)].status = "queued"
      BY <3>1 DEF TrafficInv, Honest
    <3>. QED
      BY <1>4, <3>2 DEF Waits
  <2>6. Owes(c) \subseteq ToSet(l)
    BY <1>4, <2>2, <2>5
  <2>7. r.pc \in Telling \cup Comparison /\ r.pc \notin Comparison
        /\ r.pc \notin {"queued", "push", "record", "report"}
    BY <2>3 DEF Telling, Comparison
  <2>. QED
    BY <1>1, <1>2, <1>3, <1>4, <2>2, <2>3, <2>4, <2>6, <2>7, TellsOn
<1>. QED
  BY <1>5, <1>6, <1>7

LEMMA ComparingIs ==
  ASSUME TrafficInv, NEW c \in Callers, NEW q, q = caller[c], q.pc \in Comparison
  PROVE  /\ q \in Entry /\ q.left \in Seq(Ids) /\ q.read \in Nat /\ q.pc \in Free \ {"over"}
         /\ From(c) # "edit" => OwnList(c, q.left) /\ Rep(From(c), c, q, By(c))
         /\ From(c) = "stream" => \A id \in ToSet(q.left) : id[2] <= q.read
         /\ Pending(q) = ToSet(q.left)
         /\ q.pc = "report" => q.left # <<>>
         /\ Owes(c) = {} /\ Waits(c) = {} /\ Unblocked(c) /\ Told(c, q, ever, sent)
<1>1. q \in Entry /\ Form(From(c), c, q) /\ Rep(From(c), c, q, By(c)) /\ Told(c, q, ever, sent)
  BY Standing
<1>2. q.left \in Seq(Ids) /\ q.read \in Nat
  BY <1>1 DEF Entry
<1>3. q.pc \in Free \ {"over"} /\ q.pc # "start"
  BY DEF Free, Comparison
<1>4. Owes(c) = {} /\ Unblocked(c)
  BY <1>3, Standing, Clear, RunsOn DEF At
<1>5. Pending(q) = ToSet(q.left)
  BY DEF Pending, Comparison, Storing, Telling
<1>6. q.pc = "report" => q.left # <<>>
  BY <1>1 DEF Form
<1>. QED
  BY <1>1, <1>2, <1>3, <1>4, <1>5, <1>6 DEF Form, Waits

(* What remains to be compared is the same or one less; D has grown by the *)
(* differences of the one compared at most.                                *)
LEMMA ComparesOn ==
  ASSUME NEW s, NEW c, NEW q, NEW r, NEW D, q.pc \in Comparison, r.pc \in Comparison,
         q.read \in Nat, r.read = q.read, r.guessed = q.guessed,
         NEW E, NEW S, Told(c, q, E, S), q.left \in Seq(Ids),
         s # "edit" => OwnList(c, q.left) /\ Rep(s, c, q, D),
         s = "stream" => \A id \in ToSet(q.left) : id[2] <= q.read,
         r.left \in Seq(Ids), s # "edit" => OwnList(c, r.left),
         ToSet(r.left) \subseteq ToSet(q.left), r.pc = "report" => r.left # <<>>
  PROVE  Form(s, c, r) /\ Rep(s, c, r, D) /\ Owe(s, r, {}) /\ Await(r, {}) /\ Told(c, r, E, S)
<1>1. Pending(q) = ToSet(q.left) /\ Pending(r) = ToSet(r.left)
  BY DEF Pending, Comparison, Storing, Telling
<1>2. Form(s, c, r)
  BY <1>1 DEF Form, Comparison, Storing, Telling
<1>3. Rep(s, c, r, D)
  BY <1>1 DEF Rep
<1>4. r.pc \notin Telling
  BY DEF Comparison, Telling
<1>. QED
  BY <1>2, <1>3, <1>4, StillClear

(* Going on with the next newcomer, compared or not. *)
LEMMA PassedStep ==
  ASSUME TrafficInv, NEW c \in Callers, Quiet, DOMAIN records' \subseteq DOMAIN records,
         caller[c].pc \in Comparison, caller[c].left # <<>>, Passed(c)
  PROVE  TrafficInv'
<1>1. PICK q : q = caller[c]
  OBVIOUS
<1>2. /\ q \in Entry /\ q.left \in Seq(Ids) /\ q.read \in Nat /\ q.pc \in Comparison
      /\ From(c) # "edit" => OwnList(c, q.left) /\ Rep(From(c), c, q, By(c))
      /\ From(c) = "stream" => \A id \in ToSet(q.left) : id[2] <= q.read
      /\ Owes(c) = {} /\ Waits(c) = {} /\ Unblocked(c) /\ Told(c, q, ever, sent)
  BY <1>1, ComparingIs
<1>3. PICK l, r : l = Tail(q.left) /\ r = [q EXCEPT !.pc = "detect", !.left = l]
  OBVIOUS
<1>4. /\ l \in Seq(Ids) /\ ToSet(l) \subseteq ToSet(q.left)
      /\ From(c) # "edit" => OwnList(c, l)
  BY <1>1, <1>2, <1>3, TailOf DEF OwnList
<1>5. /\ r \in Entry /\ r.pc = "detect" /\ r.left = l /\ r.read = q.read /\ r.guessed = q.guessed
  BY <1>2, <1>3, <1>4 DEF Entry, Pcs, Comparison
<1>6. r.pc \in Comparison /\ r.pc # "report" /\ r.pc # "start"
  BY <1>5 DEF Comparison
<1>7. /\ Form(From(c), c, r) /\ Rep(From(c), c, r, By(c)) /\ Owe(From(c), r, {})
      /\ Await(r, {}) /\ Told(c, r, ever, sent)
  BY <1>2, <1>4, <1>5, <1>6, ComparesOn
<1>8. caller' = [caller EXCEPT ![c] = r] /\ DOMAIN records' \subseteq DOMAIN records \cup {c}
  BY <1>1, <1>3 DEF Passed
<1>. QED
  BY <1>2, <1>5, <1>6, <1>7, <1>8, QuietStep

LEMMA DetectStep ==
  ASSUME TrafficInv, NEW c \in Callers, Detect(c), UNCHANGED proxyVars
  PROVE  TrafficInv'
<1>1. At(c, "detect") /\ Quiet /\ DOMAIN records' \subseteq DOMAIN records
  BY DEF Detect, Only, Quiet, stores, history, proxyVars
<1>2. PICK q : q = caller[c]
  OBVIOUS
<1>3. q.pc = "detect" /\ q.pc \in Comparison
  BY <1>1, <1>2 DEF At, Comparison
<1>4. CASE q.left = <<>>
  BY <1>1, <1>2, <1>3, <1>4, FinishStep DEF Detect
<1>5. CASE q.left # <<>>
  <2>1. /\ q \in Entry /\ q.left \in Seq(Ids) /\ q.read \in Nat
        /\ From(c) # "edit" => OwnList(c, q.left) /\ Rep(From(c), c, q, By(c))
        /\ From(c) = "stream" => \A id \in ToSet(q.left) : id[2] <= q.read
        /\ Owes(c) = {} /\ Waits(c) = {} /\ Unblocked(c) /\ Told(c, q, ever, sent)
    BY <1>2, <1>3, ComparingIs
  <2>2. CASE Passed(c)
    BY <1>1, <1>2, <1>3, <1>5, <2>2, PassedStep
  <2>3. CASE \E o \in Live : caller' = [caller EXCEPT ![c].pc = "report", ![c].old = o]
    <3>1. PICK o \in Live : caller' = [caller EXCEPT ![c].pc = "report", ![c].old = o]
      BY <2>3
    <3>2. PICK r : r = [q EXCEPT !.pc = "report", !.old = o]
      OBVIOUS
    <3>3. o \in Ids
      BY DEF TrafficInv, Honest
    <3>4. /\ r \in Entry /\ r.pc = "report" /\ r.left = q.left /\ r.read = q.read /\ r.guessed = q.guessed
      BY <2>1, <3>2, <3>3 DEF Entry, Pcs, Comparison
    <3>5. r.pc \in Comparison /\ r.pc # "start"
      BY <3>4 DEF Comparison
    <3>6. /\ Form(From(c), c, r) /\ Rep(From(c), c, r, By(c)) /\ Owe(From(c), r, {})
          /\ Await(r, {}) /\ Told(c, r, ever, sent)
      BY <1>3, <1>5, <2>1, <3>4, <3>5, ComparesOn
    <3>7. caller' = [caller EXCEPT ![c] = r] /\ DOMAIN records' \subseteq DOMAIN records \cup {c}
      BY <1>1, <1>2, <3>1, <3>2
    <3>. QED
      BY <1>1, <2>1, <3>4, <3>5, <3>6, <3>7, QuietStep
  <2>. QED
    BY <1>2, <1>5, <2>2, <2>3 DEF Detect, Candidates
<1>. QED
  BY <1>4, <1>5

LEMMA ReportStep ==
  ASSUME TrafficInv, NEW c \in Callers, Report(c), UNCHANGED proxyVars
  PROVE  TrafficInv'
<1>1. PICK q, x : /\ q = caller[c]
                  /\ x = [old |-> q.old, new |-> Head(q.left), by |-> <<c, q.read>>]
  OBVIOUS
<1>2. /\ q.pc = "report" /\ q.pc \in Comparison /\ diffs' = diffs \cup {x} /\ Passed(c)
      /\ UNCHANGED <<plan, apis, ever, sent, flow, skips, records, blocked>>
  BY <1>1 DEF Report, At, Comparison, Only, history, proxyVars
<1>3. /\ q \in Entry /\ q.left \in Seq(Ids) /\ q.read \in Nat /\ q.left # <<>>
      /\ From(c) # "edit" => OwnList(c, q.left) /\ Rep(From(c), c, q, By(c))
      /\ From(c) = "stream" => \A id \in ToSet(q.left) : id[2] <= q.read
      /\ Owes(c) = {} /\ Waits(c) = {} /\ Unblocked(c) /\ Told(c, q, ever, sent)
      /\ Pending(q) = ToSet(q.left)
  BY <1>1, <1>2, ComparingIs
<1>4. PICK l, r : l = Tail(q.left) /\ r = [q EXCEPT !.pc = "detect", !.left = l]
  OBVIOUS
<1>5. /\ l \in Seq(Ids) /\ ToSet(l) \subseteq ToSet(q.left) /\ x.new \in Ids /\ x.new \in ToSet(q.left)
      /\ From(c) # "edit" => OwnList(c, l) /\ x.new \notin ToSet(l) /\ x.new[1] = c
  BY <1>1, <1>3, <1>4, TailOf DEF OwnList
<1>6. /\ r \in Entry /\ r.pc = "detect" /\ r.left = l /\ r.read = q.read /\ r.guessed = q.guessed
  BY <1>3, <1>4, <1>5 DEF Entry, Pcs, Comparison
<1>7. r.pc \in Comparison /\ r.pc # "report" /\ r.pc # "start"
  BY <1>6 DEF Comparison
<1>8. /\ Form(From(c), c, r) /\ Rep(From(c), c, r, By(c)) /\ Owe(From(c), r, {})
      /\ Await(r, {}) /\ Told(c, r, ever, sent)
  BY <1>2, <1>3, <1>5, <1>6, <1>7, ComparesOn
<1>9. caller' = [caller EXCEPT ![c] = r]
  BY <1>1, <1>2, <1>4 DEF Passed
<1>10. Owes(c)' = {} /\ Waits(c)' = {} /\ Live' = Live
  BY <1>2, <1>3 DEF Owes, Waits, Live
<1>11. x.by[1] = c /\ By(c)' = By(c) \cup {x}
  BY <1>1, <1>2 DEF By
<1>12. Rep(From(c), c, r, By(c)')
  <2> SUFFICES ASSUME From(c) # "edit" PROVE Rep(From(c), c, r, By(c)')
    BY DEF Rep
  <2>1. Pending(r) = ToSet(l)
    BY <1>6, <1>7 DEF Pending, Comparison, Storing, Telling
  <2>2. \A d \in By(c) : d.new \in Ids /\ d.new[1] = c /\ d.new \notin ToSet(q.left)
    BY <1>3 DEF Rep
  <2>3. \A d \in By(c)' : d.new \in Ids /\ d.new[1] = c /\ d.new \notin Pending(r)
    BY <1>5, <1>11, <2>1, <2>2
  <2>4. From(c) = "stream" => \A d \in By(c)' : d.new[2] <= r.read
    BY <1>3, <1>5, <1>6, <1>11 DEF Rep
  <2>5. \A d, e \in By(c)' : d.new = e.new => d = e
    <3>1. \A d \in By(c) : d.new # x.new
      BY <1>5, <2>2
    <3>2. \A d, e \in By(c) : d.new = e.new => d = e
      BY <1>3 DEF Rep
    <3>. QED
      BY <1>11, <3>1, <3>2
  <2>. QED
    BY <1>7, <2>3, <2>4, <2>5 DEF Rep
<1>13. Honest'
  BY <1>2, HonestStays DEF TrafficInv
<1>14. \A id \in Live' : id[1] # c =>
         id \in Live /\ (apis'[id].status = "queued" => apis[id].status = "queued")
  BY <1>2, <1>10
<1>15. Owe(From(c), r, Owes(c)') /\ Await(r, Waits(c)') /\ Told(c, r, ever', sent')
  BY <1>2, <1>8, <1>10
<1>. QED
  BY <1>2, <1>3, <1>6, <1>7, <1>8, <1>9, <1>11, <1>12, <1>13, <1>14, <1>15, LoudStep
------------------------------------------------------------------------------
(* Storing. *)

LEMMA StoredIs ==
  ASSUME TrafficInv, NEW in \in SUBSET Ids, apis' = With(in), plan' = plan,
         \A id \in in : ~ Known(Hash(id)), \A a, b \in in : Hash(a) = Hash(b) => a = b
  PROVE  /\ Honest' /\ Live' = Live \cup in /\ \A id \in Live : apis'[id] = apis[id]
         /\ \A id \in in : id \notin Live /\ apis'[id].status = "idle"
<1>1. /\ Live' = Live \cup in /\ \A id \in Live : apis'[id] = apis[id]
      /\ \A id \in in \ Live : apis'[id] = Stored(id)
  BY DEF With, Live
<1>2. \A id \in in : id \notin Live /\ \A o \in Live : Hash(o) # Hash(id)
  BY DEF Known, TrafficInv, Honest
<1>3. \A id : /\ Whole(Stored(id)) /\ Stored(id).hash = Hash(id) /\ Stored(id).request = Item(id)
              /\ Stored(id).status = "idle"
  BY DEF Stored, Whole
<1>4. \A id : Hash(id)' = Hash(id) /\ Item(id)' = Item(id)
  BY Frame
<1>5. ASSUME NEW id \in Live'
      PROVE  /\ id \in Ids /\ Whole(apis'[id]) /\ apis'[id].hash = Hash(id)
             /\ apis'[id].edited \/ apis'[id].request = Item(id)
             /\ apis'[id].status \in {"idle", "queued", "applied"}
  <2>1. CASE id \in Live
    BY <1>1, <2>1 DEF TrafficInv, Honest
  <2>2. CASE id \in in \ Live
    BY <1>1, <1>3, <2>2
  <2>. QED
    BY <1>1, <2>1, <2>2
<1>6. \A a, b \in Live' : Hash(a) = Hash(b) => a = b
  <2>1. \A a, b \in Live : Hash(a) = Hash(b) => a = b
    BY DEF TrafficInv, Honest
  <2>. QED
    BY <1>1, <1>2, <2>1
<1>7. Honest'
  BY <1>4, <1>5, <1>6 DEF Honest, Whole
<1>. QED
  BY <1>1, <1>2, <1>3, <1>7

LEMMA AcceptedIs ==
  ASSUME NEW batch \in Seq(Ids)
  PROVE  /\ Accepted(batch) \subseteq ToSet(batch)
         /\ \A id \in Accepted(batch) : ~ Known(Hash(id))
         /\ \A a, b \in Accepted(batch) : Hash(a) = Hash(b) => a = b
<1>1. Accepted(batch) \subseteq ToSet(batch)
  BY DEF Accepted, ToSet
<1>2. \A id \in Accepted(batch) : ~ Known(Hash(id))
  BY DEF Accepted, Refused
<1>3. ASSUME NEW a \in Accepted(batch), NEW b \in Accepted(batch), Hash(a) = Hash(b) PROVE a = b
  <2>1. PICK k, l \in DOMAIN batch :
          /\ a = batch[k] /\ \A j \in 1 .. k - 1 : Hash(batch[j]) # Hash(batch[k])
          /\ b = batch[l] /\ \A j \in 1 .. l - 1 : Hash(batch[j]) # Hash(batch[l])
    BY DEF Accepted
  <2>2. k \in Nat \ {0} /\ l \in Nat \ {0}
    BY <2>1
  <2>3. ~ (k < l) /\ ~ (l < k)
    BY <1>3, <2>1, <2>2
  <2>. QED
    BY <2>1, <2>2, <2>3
<1>. QED
  BY <1>1, <1>2, <1>3

LEMMA StoresOn ==
  ASSUME TrafficInv, NEW c \in Callers, NEW in \in SUBSET Ids, \A id \in in : id[1] = c,
         \A id \in in : ~ Known(Hash(id)), \A a, b \in in : Hash(a) = Hash(b) => a = b,
         apis' = With(in), ever' = ever \cup in,
         UNCHANGED <<plan, diffs, sent, flow, skips, records, blocked>>,
         caller[c].pc \in {"write", "insert"},
         NEW r \in Entry, caller' = [caller EXCEPT ![c] = r], r.guessed = caller[c].guessed,
         r.pc # "start", Form(From(c), c, r), Rep(From(c), c, r, By(c)), Owe(From(c), r, in),
         r.pc \in Telling => ToSet(r.ids) \subseteq in
  PROVE  TrafficInv'
<1>1. /\ Honest' /\ Live' = Live \cup in /\ \A id \in Live : apis'[id] = apis[id]
      /\ \A id \in in : id \notin Live /\ apis'[id].status = "idle"
  BY StoredIs
<1>2. Owes(c) = {} /\ Told(c, caller[c], ever, sent) /\ Unblocked(c)
  BY Standing, Clear, RunsOn DEF Free, Single, At
<1>3. Owes(c)' \subseteq in /\ Waits(c)' = {}
  BY <1>1, <1>2 DEF Owes, Waits
<1>4. Owe(From(c), r, Owes(c)') /\ Await(r, Waits(c)')
  BY <1>3, Fewer DEF Await
<1>5. Told(c, r, ever', sent')
  BY <1>2 DEF Told
<1>6. Rep(From(c), c, r, By(c)')
  <2>1. By(c)' = By(c)
    BY DEF By
  <2>. QED
    BY <2>1
<1>7. \A id \in Live' : id[1] # c =>
        id \in Live /\ (apis'[id].status = "queued" => apis[id].status = "queued")
  BY <1>1
<1>. QED
  BY <1>1, <1>2, <1>4, <1>5, <1>6, <1>7, LoudStep

LEMMA WriteAllStep ==
  ASSUME TrafficInv, NEW c \in Callers, WriteAll(c), UNCHANGED proxyVars
  PROVE  TrafficInv'
<1>1. PICK q, in : q = caller[c] /\ in = Accepted(q.batch)
  OBVIOUS
<1>2. /\ q.pc = "write" /\ apis' = With(in) /\ ever' = ever \cup in
      /\ UNCHANGED <<plan, diffs, sent, flow, skips, records, blocked>>
  BY <1>1 DEF WriteAll, At, Only, proxyVars
<1>3. \/ in = ToSet(q.batch) /\ Then(c, q.batch)
      \/ From(c) = "openapi" /\ Ends(c, "failed")
      \/ From(c) # "openapi" /\ Moves(c, "recover")
  BY <1>1 DEF WriteAll
<1>4. q \in Entry /\ Form(From(c), c, q) /\ Rep(From(c), c, q, By(c))
  BY <1>1, Standing
<1>5. q.batch \in Seq(Ids) /\ OwnList(c, q.batch) /\ q.read \in Nat /\ From(c) # "edit"
  BY <1>2, <1>4 DEF Entry, Form, Storing, Comparison
<1>6. /\ in \subseteq ToSet(q.batch) /\ \A id \in in : ~ Known(Hash(id))
      /\ \A a, b \in in : Hash(a) = Hash(b) => a = b
  BY <1>1, <1>5, AcceptedIs
<1>7. in \in SUBSET Ids /\ \A id \in in : id[1] = c
  BY <1>5, <1>6 DEF OwnList, ToSet
<1>8. Pending(q) = ToSet(q.batch)
  BY <1>2 DEF Pending, Storing
<1>9. From(c) # "stream" => By(c) = {}
  BY <1>2, <1>4, <1>5 DEF Rep, Comparison
<1>10. caller[c].pc \in {"write", "insert"} /\ q.guessed = caller[c].guessed
  BY <1>1, <1>2
<1>11. CASE in = ToSet(q.batch) /\ Then(c, q.batch)
  <2>1. PICK p, r : /\ p = IF From(c) = "openapi" THEN "mark" ELSE "note"
                    /\ r = [q EXCEPT !.pc = p, !.ids = q.batch, !.left = q.batch]
    OBVIOUS
  <2>2. caller' = [caller EXCEPT ![c] = r]
    BY <1>1, <1>11, <2>1 DEF Then
  <2>3. /\ r \in Entry /\ r.pc = p /\ r.ids = q.batch /\ r.left = q.batch /\ r.read = q.read
        /\ r.guessed = q.guessed
    BY <1>4, <1>5, <2>1 DEF Entry, Pcs, Telling
  <2>4. /\ p \in {"mark", "note"} /\ p \in Telling
        /\ From(c) = "stream" => p = "note"
        /\ From(c) \in Recorders \cup {"capture"} => p = "note"
    BY <2>1 DEF Telling, Recorders
  <2>5. Pending(r) = ToSet(q.batch)
    BY <2>3, <2>4 DEF Pending, Storing, Telling
  <2>6. Form(From(c), c, r)
    <3>1. From(c) = "stream" => \A id \in Pending(r) : id[2] <= r.read
      BY <1>4, <1>8, <2>3, <2>5 DEF Form
    <3>. QED
      BY <1>5, <2>3, <2>4, <3>1 DEF Form, Storing, Telling, Comparison
  <2>7. Rep(From(c), c, r, By(c))
    BY <1>4, <1>8, <1>9, <2>3, <2>5 DEF Rep
  <2>8. Owe(From(c), r, in) /\ ToSet(r.ids) \subseteq in /\ r.pc # "start"
    BY <1>11, <2>3, <2>4 DEF Owe, Telling
  <2>. QED
    BY <1>2, <1>6, <1>7, <1>10, <2>2, <2>3, <2>6, <2>7, <2>8, StoresOn
<1>12. CASE From(c) = "openapi" /\ Ends(c, "failed")
  <2>1. PICK r : r = [q EXCEPT !.pc = "over", !.end = "failed"]
    OBVIOUS
  <2>2. caller' = [caller EXCEPT ![c] = r]
    BY <1>1, <1>12, <2>1 DEF Ends
  <2>3. /\ r \in Entry /\ r.pc = "over" /\ r.end = "failed" /\ r.read = q.read
        /\ r.guessed = q.guessed
    BY <1>4, <2>1 DEF Entry, Pcs, Single, Ways
  <2>4. r.pc \in Single /\ r.pc \notin Telling /\ q.read <= r.read
    BY <1>5, <2>3 DEF Single, Telling
  <2>5. Form(From(c), c, r) /\ Rep(From(c), c, r, By(c))
    BY ONLY <1>4, <1>5, <2>3, <2>4, Alone
  <2>6. Owe(From(c), r, in)
    BY <1>12, <2>3 DEF Owe, Telling
  <2>. QED
    BY <1>2, <1>6, <1>7, <1>10, <2>2, <2>3, <2>4, <2>5, <2>6, StoresOn
<1>13. CASE From(c) # "openapi" /\ Moves(c, "recover")
  <2>1. PICK r : r = [q EXCEPT !.pc = "recover"]
    OBVIOUS
  <2>2. caller' = [caller EXCEPT ![c] = r]
    BY <1>1, <1>13, <2>1 DEF Moves
  <2>3. /\ r \in Entry /\ r.pc = "recover" /\ r.batch = q.batch /\ r.read = q.read
        /\ r.guessed = q.guessed
    BY <1>4, <2>1 DEF Entry, Pcs, Storing
  <2>4. Pending(r) = ToSet(q.batch)
    BY <2>3 DEF Pending, Storing
  <2>5. Form(From(c), c, r)
    <3>1. From(c) = "stream" => \A id \in Pending(r) : id[2] <= r.read
      BY <1>4, <1>8, <2>3, <2>4 DEF Form
    <3>. QED
      BY <1>5, <2>3, <3>1 DEF Form, Storing, Telling, Comparison
  <2>6. Rep(From(c), c, r, By(c))
    BY <1>4, <1>8, <1>9, <2>3, <2>4 DEF Rep
  <2>7. Owe(From(c), r, in) /\ r.pc \notin Telling
    BY <1>6, <2>3 DEF Owe, Telling
  <2>. QED
    BY <1>2, <1>6, <1>7, <1>10, <2>2, <2>3, <2>5, <2>6, <2>7, StoresOn
<1>. QED
  BY <1>3, <1>11, <1>12, <1>13

LEMMA InsertStep ==
  ASSUME TrafficInv, NEW c \in Callers, Insert(c), UNCHANGED proxyVars
  PROVE  TrafficInv'
<1>1. PICK q : q = caller[c]
  OBVIOUS
<1>2. /\ q.pc = "insert" /\ UNCHANGED <<plan, diffs, sent, flow, skips, records, blocked>>
      /\ At(c, "insert") /\ Unblocked(c)
  BY <1>1, RunsOn DEF Insert, At, Only, proxyVars
<1>3. q \in Entry /\ Form(From(c), c, q) /\ Rep(From(c), c, q, By(c)) /\ Owes(c) = {}
  BY <1>1, <1>2, Standing, Clear DEF Free, Single
<1>4. From(c) \notin {"edit", "stream"} /\ By(c) = {}
  BY <1>2, <1>3 DEF Form, Rep, Storing, Comparison
<1>5. CASE Refused(Hash(Own(c)))
  <2>1. Quiet /\ DOMAIN records' \subseteq DOMAIN records /\ OnRefusal(c)
    BY <1>2, <1>5 DEF Insert, Quiet
  <2>2. CASE From(c) = "capture"
    <3>1. Moves(c, "again") /\ "again" \in Single \ {"over"}
      BY <2>1, <2>2 DEF OnRefusal, Single
    <3>2. caller[c].pc \in Free \ {"over"} /\ ~ Comparing(c) /\ DOMAIN records' \subseteq DOMAIN records \cup {c}
      BY <1>1, <1>2, <2>1 DEF Free, Single, Comparing
    <3>. QED
      BY <1>2, <1>4, <2>1, <3>1, <3>2, MoveStep
  <2>3. CASE From(c) # "capture"
    <3>1. Ends(c, "failed") /\ "failed" \in Ways
      BY <2>1, <2>3 DEF OnRefusal, Ways
    <3>. QED
      BY <1>2, <1>3, <2>1, <3>1, EndStep
  <2>. QED
    BY <2>2, <2>3
<1>6. CASE ~ Refused(Hash(Own(c)))
  <2>1. PICK o, l, in, p, r : /\ o = Own(c) /\ l = <<o>> /\ in = {o} /\ p = AfterInsert(c)
                              /\ r = [q EXCEPT !.pc = p, !.ids = l, !.left = l]
    OBVIOUS
  <2>2. apis' = With(in) /\ ever' = ever \cup in /\ caller' = [caller EXCEPT ![c] = r]
    BY <1>1, <1>6, <2>1 DEF Insert
  <2>3. o \in Ids /\ o[1] = c /\ ~ Known(Hash(o))
    BY <1>6, <2>1 DEF Own, Ids, Refused
  <2>4. l \in Seq(Ids) /\ ToSet(l) = {o} /\ OwnList(c, l) /\ l # <<>>
    <3>1. l \in Seq(Ids) /\ l # <<>> /\ DOMAIN l = {1} /\ l[1] = o
      BY <2>1, <2>3
    <3>2. ToSet(l) = {o}
      BY <3>1 DEF ToSet
    <3>. QED
      BY <2>3, <3>1, <3>2 DEF OwnList, Distinct
  <2>5. /\ p \in {"mark", "push"} /\ p \in Telling
        /\ From(c) \in Recorders \cup {"capture"} => p = "push"
    BY <2>1 DEF AfterInsert, Telling, Recorders
  <2>6. r \in Entry /\ r.pc = p /\ r.ids = l /\ r.left = l /\ r.guessed = q.guessed
    BY <1>3, <2>1, <2>4, <2>5 DEF Entry, Pcs
  <2>7. Form(From(c), c, r)
    BY <1>4, <2>1, <2>4, <2>5, <2>6 DEF Form, Storing, Telling, Comparison
  <2>8. Rep(From(c), c, r, By(c))
    BY <1>4 DEF Rep
  <2>9. Owe(From(c), r, in)
    BY <2>1, <2>4, <2>5, <2>6 DEF Owe, Telling
  <2>10. in \in SUBSET Ids /\ (\A id \in in : id[1] = c /\ ~ Known(Hash(id)))
         /\ \A a, b \in in : Hash(a) = Hash(b) => a = b
    BY <2>1, <2>3
  <2>11. /\ caller[c].pc \in {"write", "insert"} /\ r.guessed = caller[c].guessed /\ r.pc # "start"
         /\ ToSet(r.ids) \subseteq in
    BY <1>1, <1>2, <2>1, <2>4, <2>5, <2>6
  <2>. QED
    BY <1>2, <2>2, <2>6, <2>7, <2>8, <2>9, <2>10, <2>11, StoresOn
<1>. QED
  BY <1>5, <1>6
------------------------------------------------------------------------------
(* Sending. *)

(* X is sent; what was owed and is not of X, r still has to send. *)
LEMMA SendsOn ==
  ASSUME TrafficInv, NEW c \in Callers, NEW q, q = caller[c], q.pc \in Telling,
         NEW X, X \subseteq ToSet(q.ids), sent' = sent \cup X,
         UNCHANGED <<plan, apis, diffs, ever, flow, skips, records, blocked>>,
         NEW r \in Entry, caller' = [caller EXCEPT ![c] = r],
         r.ids = q.ids, r.left = q.left, r.read = q.read, r.guessed = q.guessed,
         r.pc \in {"record", "detect"}, Waits(c) \subseteq X,
         r.pc = "record" => From(c) # "stream" /\ q.left # <<>> /\ Owes(c) \ X \subseteq ToSet(Tail(q.left)),
         r.pc = "record" => From(c) \notin Recorders /\ (From(c) = "capture" => q.left = <<Own(c)>>),
         r.pc = "detect" => Owes(c) \subseteq X
  PROVE  TrafficInv'
<1>1. /\ q.ids \in Seq(Ids) /\ OwnList(c, q.ids) /\ OwnList(c, q.left)
      /\ ToSet(q.left) \subseteq ToSet(q.ids) /\ Unblocked(c)
      /\ Form(From(c), c, q) /\ Rep(From(c), c, q, By(c)) /\ Told(c, q, ever, sent)
  BY TellingIs, Standing
<1>2. Pending(q) = ToSet(q.ids) /\ Pending(r) \subseteq ToSet(q.ids)
  BY <1>1 DEF Pending, Storing, Telling, Comparison
<1>3. From(c) # "edit" /\ r.pc # "start"
  BY <1>1 DEF Form, Telling, Comparison
<1>4. Form(From(c), c, r)
  <2>1. From(c) = "stream" => \A id \in Pending(r) : id[2] <= q.read
    BY <1>1, <1>2 DEF Form
  <2>. QED
    BY <1>1, <1>3, <2>1 DEF Form, Storing, Telling, Comparison
<1>5. Rep(From(c), c, r, By(c)')
  <2>1. By(c)' = By(c)
    BY DEF By
  <2>2. From(c) # "stream" => By(c) = {}
    BY <1>1, <1>3 DEF Rep, Telling, Comparison
  <2>3. Rep(From(c), c, r, By(c))
    BY <1>1, <1>2, <2>2 DEF Rep
  <2>. QED
    BY <2>1, <2>3
<1>6. Live' = Live /\ Owes(c)' = Owes(c) \ X /\ Waits(c)' = {}
  BY DEF Owes, Waits, Live
<1>7. Owe(From(c), r, Owes(c)') /\ Await(r, Waits(c)')
  BY <1>6 DEF Owe, Await, Telling
<1>8. \A id \in X : id \in Ids /\ id[1] = c
  BY <1>1 DEF OwnList, ToSet
<1>9. Told(c, r, ever', sent')
  <2>1. ~ q.guessed => ToSet(q.ids) \subseteq ever
    BY <1>1 DEF Told
  <2>. QED
    BY <1>1, <2>1 DEF Told
<1>10. Honest'
  BY HonestStays DEF TrafficInv
<1>11. \A id \in Live' : id[1] # c =>
         id \in Live /\ (apis'[id].status = "queued" => apis[id].status = "queued")
  BY <1>6
<1>. QED
  BY <1>1, <1>3, <1>4, <1>5, <1>7, <1>8, <1>9, <1>10, <1>11, LoudStep

LEMMA SendStep ==
  ASSUME TrafficInv, NEW c \in Callers, Send(c), UNCHANGED proxyVars
  PROVE  TrafficInv'
<1>1. PICK q, r, X : q = caller[c] /\ r = [q EXCEPT !.pc = "detect"] /\ X = ToSet(q.ids)
  OBVIOUS
<1>2. /\ q.pc = "send" /\ q.pc \in Telling /\ sent' = sent \cup X
      /\ UNCHANGED <<plan, apis, diffs, ever, flow, skips, records, blocked>>
      /\ caller' = [caller EXCEPT ![c] = r]
  BY <1>1 DEF Send, Sends, Moves, At, Only, proxyVars, Telling
<1>3. q \in Entry /\ Owes(c) \subseteq X /\ Waits(c) = {}
  BY <1>1, <1>2, TellingIs
<1>4. /\ r \in Entry /\ r.pc = "detect" /\ r.ids = q.ids /\ r.left = q.left /\ r.read = q.read
      /\ r.guessed = q.guessed
  BY <1>1, <1>3 DEF Entry, Pcs, Comparison
<1>. QED
  BY <1>1, <1>2, <1>3, <1>4, SendsOn

LEMMA PushStep ==
  ASSUME TrafficInv, NEW c \in Callers, Push(c), UNCHANGED proxyVars
  PROVE  TrafficInv'
<1>1. PICK q, p, r, X : /\ q = caller[c] /\ p = (IF From(c) \in Recorders THEN "detect" ELSE "record")
                        /\ r = [q EXCEPT !.pc = p] /\ X = {Head(q.left)}
  OBVIOUS
<1>2. /\ q.pc = "push" /\ q.pc \in Telling /\ sent' = sent \cup X
      /\ UNCHANGED <<plan, apis, diffs, ever, flow, skips, records, blocked>>
      /\ caller' = [caller EXCEPT ![c] = r]
  BY <1>1 DEF Push, Sends, AfterPush, Moves, At, Only, proxyVars, Telling
<1>3. /\ q \in Entry /\ q.left \in Seq(Ids) /\ ToSet(q.left) \subseteq ToSet(q.ids) /\ q.left # <<>>
      /\ Owes(c) \subseteq ToSet(q.left) /\ From(c) # "stream"
      /\ From(c) \in Recorders \cup {"capture"} => q.left = <<Own(c)>>
  BY <1>1, <1>2, TellingIs
<1>4. Waits(c) \subseteq X
  <2>1. Await(q, Waits(c))
    BY <1>1, Standing
  <2>. QED
    BY <1>1, <1>2, <2>1 DEF Await
<1>5. Head(q.left) \in ToSet(q.left) /\ \A x \in ToSet(q.left) : x = Head(q.left) \/ x \in ToSet(Tail(q.left))
  BY <1>3, TailOf
<1>6. /\ r \in Entry /\ r.pc = p /\ r.ids = q.ids /\ r.left = q.left /\ r.read = q.read
      /\ r.guessed = q.guessed /\ p \in {"detect", "record"}
  BY <1>1, <1>3 DEF Entry, Pcs, Comparison, Telling
<1>7. p = "detect" => Owes(c) \subseteq X
  <2> SUFFICES ASSUME From(c) \in Recorders PROVE Owes(c) \subseteq X
    BY <1>1
  <2>1. q.left = <<Own(c)>>
    BY <1>3
  <2>2. Tail(q.left) = <<>>
    BY ONLY <2>1
  <2>3. ToSet(<<>>) = {}
    BY DEF ToSet
  <2>. QED
    BY <1>1, <1>3, <1>5, <2>2, <2>3
<1>8. Owes(c) \ X \subseteq ToSet(Tail(q.left)) /\ X \subseteq ToSet(q.ids)
  BY <1>1, <1>3, <1>5
<1>. QED
  BY <1>1, <1>2, <1>3, <1>4, <1>6, <1>7, <1>8, SendsOn

LEMMA MarkQueuedStep ==
  ASSUME TrafficInv, NEW c \in Callers, MarkQueued(c), UNCHANGED proxyVars
  PROVE  TrafficInv'
<1>1. PICK q, r, h : q = caller[c] /\ r = [q EXCEPT !.pc = "push"] /\ h = Head(q.left)
  OBVIOUS
<1>2. /\ q.pc = "queued" /\ q.pc \in Telling
      /\ UNCHANGED <<plan, diffs, ever, sent, flow, skips, records, blocked>>
      /\ caller' = [caller EXCEPT ![c] = r]
      /\ apis' = [id \in Live |-> IF id # h THEN apis[id]
                                  ELSE [apis[id] EXCEPT !.status = "queued"]]
  BY <1>1 DEF MarkQueued, Moves, At, Only, history, proxyVars, Telling
<1>3. /\ q \in Entry /\ q.left \in Seq(Ids) /\ q.left # <<>> /\ OwnList(c, q.left)
      /\ OwnList(c, q.ids) /\ ToSet(q.left) \subseteq ToSet(q.ids)
      /\ Owes(c) \subseteq ToSet(q.left) /\ Waits(c) = {} /\ From(c) # "stream" /\ Unblocked(c)
      /\ From(c) \notin Recorders \cup {"capture"}
      /\ Form(From(c), c, q) /\ Rep(From(c), c, q, By(c)) /\ Told(c, q, ever, sent)
  BY <1>1, <1>2, TellingIs, Standing
<1>4. h \in ToSet(q.left) /\ h[1] = c
  BY <1>1, <1>3, TailOf DEF OwnList
<1>5. /\ r \in Entry /\ r.pc = "push" /\ r.ids = q.ids /\ r.left = q.left /\ r.read = q.read
      /\ r.guessed = q.guessed /\ r.pc # "start"
  BY <1>1, <1>3 DEF Entry, Pcs, Telling
<1>6. /\ Live' = Live
      /\ \A o \in Live : o # h => apis'[o] = apis[o]
      /\ \A o \in Live : /\ Whole(apis'[o]) /\ apis'[o].hash = apis[o].hash
                         /\ apis'[o].request = apis[o].request /\ apis'[o].edited = apis[o].edited
                         /\ apis'[o].status \in {apis[o].status, "queued"}
  <2>1. Live' = Live /\ \A o \in Live : o # h => apis'[o] = apis[o]
    BY <1>2 DEF Live
  <2>2. \A o \in Live : Whole(apis[o])
    BY DEF TrafficInv, Honest
  <2>3. ASSUME h \in Live
        PROVE  /\ Whole(apis'[h]) /\ apis'[h].hash = apis[h].hash
               /\ apis'[h].request = apis[h].request /\ apis'[h].edited = apis[h].edited
               /\ apis'[h].status = "queued"
    <3>1. PICK a, b : a = apis[h] /\ b = [a EXCEPT !.status = "queued"]
      OBVIOUS
    <3>2. apis'[h] = b
      BY <1>2, <2>3, <3>1
    <3>3. Whole(a)
      BY <2>2, <2>3, <3>1
    <3>4. Whole(b) /\ b.hash = a.hash /\ b.request = a.request /\ b.edited = a.edited /\ b.status = "queued"
      BY <3>1, <3>3 DEF Whole
    <3>. QED
      BY <3>1, <3>2, <3>4
  <2>. QED
    BY <2>1, <2>2, <2>3
<1>7. Honest'
  <2>1. Honest
    BY DEF TrafficInv
  <2>2. \A id \in Live' :
          /\ Whole(apis'[id]) /\ apis'[id].hash = apis[id].hash
          /\ apis'[id].edited \/ (~ apis[id].edited /\ apis'[id].request = apis[id].request)
          /\ apis'[id].status \in {"idle", "queued", "applied"}
    BY <1>6, <2>1 DEF Honest
  <2>. QED
    BY <1>2, <1>6, <2>1, <2>2, HonestChange
<1>8. Owes(c)' = Owes(c) /\ Waits(c)' \subseteq {h} /\ By(c)' = By(c)
  BY <1>2, <1>3, <1>6 DEF Owes, Waits, By
<1>9. Form(From(c), c, r)
  <2>1. From(c) # "edit"
    BY <1>2, <1>3 DEF Form, Comparison
  <2>. QED
    BY <1>3, <1>5, <2>1 DEF Form, Storing, Telling, Comparison
<1>10. Rep(From(c), c, r, By(c)')
  <2>1. Pending(q) = ToSet(q.ids) /\ Pending(r) = ToSet(q.ids)
    BY <1>2, <1>5 DEF Pending, Storing, Telling
  <2>. QED
    BY <1>2, <1>3, <1>5, <1>8, <2>1 DEF Rep, Comparison
<1>11. Owe(From(c), r, Owes(c)') /\ Await(r, Waits(c)')
  BY <1>1, <1>3, <1>5, <1>8 DEF Owe, Await, Telling
<1>12. Told(c, r, ever', sent')
  BY <1>2, <1>3, <1>5 DEF Told
<1>13. \A id \in Live' : id[1] # c =>
         id \in Live /\ (apis'[id].status = "queued" => apis[id].status = "queued")
  BY <1>4, <1>6
<1>. QED
  BY <1>2, <1>3, <1>5, <1>7, <1>9, <1>10, <1>11, <1>12, <1>13, LoudStep

LEMMA EditStep ==
  ASSUME TrafficInv, NEW c \in Callers, Edit(c), UNCHANGED proxyVars
  PROVE  TrafficInv'
<1>1. PICK q, x : q = caller[c] /\ x = Items(c)[1]
  OBVIOUS
<1>2. PICK id \in Live :
        /\ apis' = [apis EXCEPT ![id].request = x, ![id].edited = TRUE, ![id].parsed = TRUE]
        /\ caller' = [caller EXCEPT ![c].pc = "detect", ![c].ids = <<id>>, ![c].left = <<id>>]
  BY <1>1 DEF Edit
<1>3. /\ From(c) = "edit" /\ q.pc = "start"
      /\ UNCHANGED <<plan, diffs, ever, sent, flow, skips, records, blocked>>
  BY <1>1 DEF Edit, At, Only, history, proxyVars
<1>4. /\ q \in Entry /\ Owes(c) = {} /\ Waits(c) = {} /\ Unblocked(c) /\ Told(c, q, ever, sent)
      /\ q.pc \in Free \ {"over"}
  BY <1>1, <1>3, Standing, Clear, RunsOn DEF Free, Single, Waits
<1>5. PICK l, r : l = <<id>> /\ r = [q EXCEPT !.pc = "detect", !.ids = l, !.left = l]
  OBVIOUS
<1>6. id \in Ids /\ l \in Seq(Ids)
  BY <1>5 DEF TrafficInv, Honest
<1>7. r \in Entry /\ r.pc = "detect" /\ r.guessed = q.guessed
  BY <1>4, <1>5, <1>6 DEF Entry, Pcs, Comparison
<1>8. caller' = [caller EXCEPT ![c] = r]
  BY <1>1, <1>2, <1>5
<1>9. /\ Live' = Live
      /\ \A o \in Live : /\ Whole(apis'[o]) /\ apis'[o].hash = apis[o].hash
                         /\ apis'[o].edited \/ apis'[o] = apis[o]
                         /\ apis'[o].status = apis[o].status
  <2>1. \A o \in Live : Whole(apis[o])
    BY DEF TrafficInv, Honest
  <2>2. PICK a, b : a = apis[id] /\ b = [a EXCEPT !.request = x, !.edited = TRUE, !.parsed = TRUE]
    OBVIOUS
  <2>3. apis' = [apis EXCEPT ![id] = b]
    BY <1>2, <2>2 DEF Live
  <2>4. Live' = Live /\ apis'[id] = b /\ \A o \in Live \ {id} : apis'[o] = apis[o]
    BY <1>2, <2>3 DEF Live
  <2>5. Whole(a)
    BY <2>1, <2>2
  <2>6. Whole(b) /\ b.hash = a.hash /\ b.edited = TRUE /\ b.status = a.status
    BY <2>2, <2>5 DEF Whole
  <2>. QED
    BY <2>1, <2>2, <2>4, <2>6
<1>10. Honest'
  <2>1. Honest
    BY DEF TrafficInv
  <2>2. \A o \in Live' :
          /\ Whole(apis'[o]) /\ apis'[o].hash = apis[o].hash
          /\ apis'[o].edited \/ (~ apis[o].edited /\ apis'[o].request = apis[o].request)
          /\ apis'[o].status \in {"idle", "queued", "applied"}
    BY <1>9, <2>1 DEF Honest
  <2>. QED
    BY <1>3, <1>9, <2>1, <2>2, HonestChange
<1>11. Owes(c)' = {} /\ Waits(c)' = {}
  BY <1>3, <1>4, <1>9 DEF Owes, Waits
<1>12. Form(From(c), c, r)
  BY <1>3, <1>7 DEF Form, Storing, Telling, Comparison, Recorders
<1>13. Rep(From(c), c, r, By(c)')
  BY <1>3 DEF Rep
<1>14. Owe(From(c), r, Owes(c)') /\ Await(r, Waits(c)') /\ Told(c, r, ever', sent')
  <2>1. r.pc \notin Telling
    BY <1>7 DEF Telling
  <2>. QED
    BY <1>3, <1>4, <1>7, <1>11, <2>1, StillClear
<1>15. \A o \in Live' : o[1] # c =>
         o \in Live /\ (apis'[o].status = "queued" => apis[o].status = "queued")
  BY <1>9
<1>. QED
  BY <1>3, <1>4, <1>7, <1>8, <1>10, <1>12, <1>13, <1>14, <1>15, LoudStep
------------------------------------------------------------------------------
(* A call that fails. *)

LEMMA RefusedStep ==
  ASSUME TrafficInv, NEW c \in Callers, Quiet, DOMAIN records' \subseteq DOMAIN records,
         At(c, "write"), From(c) # "openapi", Moves(c, "recover")
  PROVE  TrafficInv'
<1>1. PICK q, r : q = caller[c] /\ r = [q EXCEPT !.pc = "recover"]
  OBVIOUS
<1>2. q.pc = "write" /\ caller' = [caller EXCEPT ![c] = r] /\ Unblocked(c)
  BY <1>1, RunsOn DEF At, Moves
<1>3. /\ q \in Entry /\ Form(From(c), c, q) /\ Rep(From(c), c, q, By(c)) /\ Told(c, q, ever, sent)
      /\ Owes(c) = {} /\ Waits(c) = {}
  BY <1>1, <1>2, Standing, Clear DEF Free, Waits
<1>4. r \in Entry /\ r.pc = "recover" /\ r.batch = q.batch /\ r.read = q.read /\ r.guessed = q.guessed
  BY <1>1, <1>3 DEF Entry, Pcs, Storing
<1>5. Pending(r) = ToSet(q.batch) /\ Pending(q) = ToSet(q.batch)
  BY <1>2, <1>4 DEF Pending, Storing
<1>6. Form(From(c), c, r)
  BY <1>2, <1>3, <1>4, <1>5 DEF Form, Storing, Telling, Comparison
<1>7. Rep(From(c), c, r, By(c))
  BY <1>2, <1>3, <1>4, <1>5 DEF Rep, Comparison
<1>8. Owe(From(c), r, Owes(c)) /\ Await(r, Waits(c)) /\ Told(c, r, ever, sent)
  <2>1. r.pc \notin Telling
    BY <1>4 DEF Telling
  <2>. QED
    BY <1>3, <1>4, <2>1, StillClear
<1>9. DOMAIN records' \subseteq DOMAIN records \cup {c} /\ r.pc # "start"
  BY <1>4
<1>. QED
  BY <1>2, <1>4, <1>6, <1>7, <1>8, <1>9, QuietStep

LEMMA FaultStep ==
  ASSUME TrafficInv, NEW c \in Callers, Fault(c), UNCHANGED proxyVars
  PROVE  TrafficInv'
<1>1. /\ Quiet /\ DOMAIN records' \subseteq DOMAIN records /\ Unblocked(c)
      /\ caller[c].pc \notin {"start", "over"}
  BY RunsOn DEF Fault, Quiet, history, proxyVars, At
<1>2. CASE Comparing(c)
  <2>1. ComparisonFails(c) /\ caller[c].pc \in Comparison
    BY <1>2 DEF Fault, Comparing, Recording, Caught, Fatal, At, Comparison
  <2>2. Finish(c) \/ (caller[c].left # <<>> /\ Passed(c))
    BY <2>1 DEF ComparisonFails
  <2>. QED
    BY <1>1, <2>1, <2>2, FinishStep, PassedStep
<1>3. CASE At(c, "note")
  <2>1. Moves(c, "send")
    BY <1>3 DEF Fault, Comparing, Recording, Caught, Fatal, At
  <2>. QED
    BY <1>1, <1>3, <2>1, NoteStep
<1>4. CASE At(c, "record")
  <2>1. AfterRecord(c)
    BY <1>4 DEF Fault, Comparing, Recording, Caught, Fatal, At
  <2>. QED
    BY <1>1, <1>4, <2>1, RecordStep
<1>5. CASE At(c, "write") /\ From(c) # "openapi"
  <2>1. Moves(c, "recover")
    BY <1>5 DEF Fault, Comparing, Recording, Caught, Fatal, At
  <2>. QED
    BY <1>1, <1>5, <2>1, RefusedStep
<1>6. CASE At(c, "insert") /\ From(c) = "capture"
  <2>1. Moves(c, "again") /\ "again" \in Single \ {"over"}
    BY <1>6 DEF Fault, Comparing, Recording, Caught, Fatal, At, Single
  <2>2. /\ caller[c].pc \in Free \ {"over"} /\ ~ Comparing(c) /\ From(c) \notin {"stream", "edit"}
        /\ DOMAIN records' \subseteq DOMAIN records \cup {c}
    BY <1>1, <1>6 DEF At, Free, Single, Comparing
  <2>. QED
    BY <1>1, <2>1, <2>2, MoveStep
<1>7. CASE Fatal(c)
  <2>1. Ends(c, "fault") /\ "fault" \in Ways
    BY <1>7 DEF Fault, Fatal, Ways
  <2>. QED
    BY <1>1, <2>1, EndStep
<1>. QED
  BY <1>2, <1>3, <1>4, <1>5, <1>6, <1>7 DEF Fatal, Recording, Caught, At
------------------------------------------------------------------------------
LEMMA NoteOf ==
  ASSUME TrafficInv, NEW c \in Callers, Note(c) \/ Recover(c) \/ RecordJob(c), UNCHANGED proxyVars
  PROVE  TrafficInv'
<1>1. CASE Note(c)
  <2>1. Quiet /\ DOMAIN records' \subseteq DOMAIN records /\ At(c, "note") /\ Moves(c, "send")
    BY <1>1 DEF Note, Quiet, Only, history, proxyVars
  <2>. QED
    BY <2>1, NoteStep
<1>2. CASE Recover(c)
  BY <1>2, RecoverStep
<1>3. CASE RecordJob(c)
  <2>1. Quiet /\ DOMAIN records' \subseteq DOMAIN records /\ At(c, "record") /\ AfterRecord(c)
    BY <1>3 DEF RecordJob, Quiet, Only, history, proxyVars
  <2>. QED
    BY <2>1, RecordStep
<1>. QED
  BY <1>1, <1>2, <1>3

LEMMA NextInv == TrafficInv /\ [Next]_vars => TrafficInv'
<1> SUFFICES ASSUME TrafficInv, [Next]_vars PROVE TrafficInv'
  OBVIOUS
<1>1. CASE \E c \in Callers : AtProxy(c) \/ AtBackend(c)
  <2> SUFFICES ASSUME NEW c \in Callers, AtProxy(c) \/ AtBackend(c) PROVE TrafficInv'
    BY <1>1
  <2>1. Request(c) \/ Response(c) \/ Lose(c) \/ Link(c) \/ Admit(c) \/ Keep(c)
    BY DEF AtProxy, AtBackend
  <2>. QED
    BY <2>1, RequestStep, ResponseStep, LoseStep, ChangeStep, SubmitStep
<1>2. CASE \E c \in Callers : Store(c) /\ UNCHANGED proxyVars
  <2> SUFFICES ASSUME NEW c \in Callers, Store(c), UNCHANGED proxyVars PROVE TrafficInv'
    BY <1>2
  <2>. QED
    BY ReadFileStep, ReadBatchStep, DedupStep, WriteAllStep, NoteOf, SubmitStep, LookupStep,
       InsertStep, EditStep DEF Store
<1>3. CASE \E c \in Callers : Tell(c) /\ UNCHANGED proxyVars
  <2> SUFFICES ASSUME NEW c \in Callers, Tell(c), UNCHANGED proxyVars PROVE TrafficInv'
    BY <1>3
  <2>. QED
    BY NoteOf, SendStep, MarkStep, MarkQueuedStep, PushStep DEF Tell
<1>4. CASE \E c \in Callers : Compare(c) /\ UNCHANGED proxyVars
  <2> SUFFICES ASSUME NEW c \in Callers, Compare(c), UNCHANGED proxyVars PROVE TrafficInv'
    BY <1>4
  <2>. QED
    BY DetectStep, ReportStep DEF Compare
<1>5. CASE \E c \in Callers : Fault(c) /\ UNCHANGED proxyVars
  BY <1>5, FaultStep
<1>6. CASE \E id \in ever : Forget(id) /\ UNCHANGED proxyVars
  BY <1>6, ForgetStep
<1>7. CASE \E id \in queue : Analyse(id) /\ UNCHANGED proxyVars
  BY <1>7, AnalyseStep
<1>8. CASE \/ Toggle /\ UNCHANGED proxyVars
           \/ \E r \in Rules : ChangeRule(r)
           \/ ToggleCapture \/ ChangeSource \/ DropRules
  BY <1>8, ChangeStep
<1>9. CASE UNCHANGED vars
  <2>1. /\ UNCHANGED <<plan, caller, apis, diffs, ever, sent, flow, skips, records, blocked>>
        /\ flow' \in [Callers -> Phases] /\ blocked' \subseteq Callers
    BY <1>9 DEF vars, catalogVars, stores, history, proxyVars, TrafficInv
  <2>2. \A c \in Callers : Outside(c)'
    BY <2>1, SameOutside
  <2>. QED
    BY <2>1, <2>2, OnlyTraffic
<1>. QED
  BY <1>1, <1>2, <1>3, <1>4, <1>5, <1>6, <1>7, <1>8, <1>9 DEF Next
------------------------------------------------------------------------------
(* TrafficInv holds for any number of requests at once, any files, specs,  *)
(* captures, posts and flows they bring, any rules, batch size, failures   *)
(* and changes: the inductive invariant of the catalogue and the proxy.    *)
THEOREM TrafficInvariant == Spec => []TrafficInv
<1>. QED
  BY InitInv, NextInv, PTL DEF Spec

(* What the proxy dropped, or mocked by a rule that records nothing, leaves*)
(* no record and no API, however rules, source, addon and backend change   *)
(* between the request, the response and the post of the flow.             *)
THEOREM BlockedOut == Spec => []BlockedStaysOut
<1>1. TrafficInv => BlockedStaysOut
  <2> SUFFICES ASSUME TrafficInv, NEW c \in blocked
               PROVE  c \notin DOMAIN records /\ Own(c) \notin ever
    BY DEF BlockedStaysOut
  <2>1. c \notin DOMAIN records /\ \A id \in ever : id[1] # c
    BY DEF TrafficInv, Outside
  <2>2. Own(c)[1] = c
    BY DEF Own
  <2>. QED
    BY <2>1, <2>2
<1>. QED
  BY <1>1, TrafficInvariant, PTL

(* Two stored APIs nobody edited stand for two requests, whatever sources  *)
(* looked for duplicates and inserted between each other's look and insert,*)
(* unless one came from a recorder, a spec, or as the text of a command.   *)
THEOREM OncePerRequest == Spec => []SameRequestOnce
<1>1. TrafficInv => SameRequestOnce
  <2> SUFFICES ASSUME TrafficInv, NEW a \in Live, NEW b \in Live, ~ Apart(a), ~ Apart(b),
                      apis[a].request = apis[b].request, ~ apis[a].edited, ~ apis[b].edited
               PROVE  a = b
    BY DEF SameRequestOnce
  <2>1. Item(a) = Item(b)
    BY DEF TrafficInv, Honest
  <2>2. Hash(a) = <<"request", Item(a)>> /\ Hash(b) = <<"request", Item(b)>>
    BY DEF Hash, Fingerprint, Apart
  <2>. QED
    BY <2>1, <2>2 DEF TrafficInv, Honest
<1>. QED
  BY <1>1, TrafficInvariant, PTL

(* Once a request has been answered, what it stored and nobody deleted has *)
(* been sent to the analysis, unless a call failed or the index refused    *)
(* one operation of a spec.                                                *)
THEOREM AllSent == Spec => []StoredIsSent
<1>1. TrafficInv => StoredIsSent
  <2> SUFFICES ASSUME TrafficInv, NEW id \in Live, At(id[1], "over"), caller[id[1]].end # "fault",
                      ~ (From(id[1]) = "openapi" /\ caller[id[1]].end = "failed")
               PROVE  id \in sent
    BY DEF StoredIsSent
  <2>1. PICK c \in Callers : c = id[1]
    BY DEF TrafficInv, Honest, Ids
  <2>2. Owe(From(c), caller[c], Owes(c)) /\ caller[c].pc = "over"
    BY <2>1, Standing DEF At
  <2>3. Owes(c) = {}
    BY <2>1, <2>2 DEF Owe, Telling
  <2>. QED
    BY <2>1, <2>3 DEF Owes
<1>. QED
  BY <1>1, TrafficInvariant, PTL

(* A message names an API its sender stored, or the ids were guessed from  *)
(* the hashes after a refused bulk insert.                                 *)
THEOREM NoStraySend == Spec => []SentIsStored
<1>1. TrafficInv => SentIsStored
  <2> SUFFICES ASSUME TrafficInv, NEW id \in sent PROVE id \in ever \/ caller[id[1]].guessed
    BY DEF SentIsStored
  <2>1. id[1] \in Callers
    BY DEF TrafficInv, Ids
  <2>2. Told(id[1], caller[id[1]], ever, sent)
    BY <2>1, Standing
  <2>. QED
    BY <2>2 DEF Told
<1>. QED
  BY <1>1, TrafficInvariant, PTL

(* An import reports each of its APIs at most once: batches of a streamed  *)
(* file, refused inserts and failed comparisons included.                  *)
THEOREM OneReport == Spec => []ReportedOnce
<1>1. TrafficInv => ReportedOnce
  <2> SUFFICES ASSUME TrafficInv, NEW d \in diffs, NEW e \in diffs, d.new = e.new,
                      From(d.by[1]) # "edit", From(e.by[1]) # "edit"
               PROVE  d = e
    BY DEF ReportedOnce
  <2>1. d.by[1] \in Callers /\ e.by[1] \in Callers
    BY DEF TrafficInv
  <2>2. /\ Rep(From(d.by[1]), d.by[1], caller[d.by[1]], By(d.by[1]))
        /\ Rep(From(e.by[1]), e.by[1], caller[e.by[1]], By(e.by[1]))
    BY <2>1, Standing
  <2>3. d \in By(d.by[1]) /\ e \in By(e.by[1])
    BY DEF By
  <2>4. d.new[1] = d.by[1] /\ e.new[1] = e.by[1]
    BY <2>2, <2>3 DEF Rep
  <2>. QED
    BY <2>2, <2>3, <2>4 DEF Rep
<1>. QED
  BY <1>1, TrafficInvariant, PTL
==============================================================================
