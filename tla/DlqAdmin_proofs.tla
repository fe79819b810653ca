---------------------------- MODULE DlqAdmin_proofs ----------------------------
(* The dead letters and the requests that take them out again, for any     *)
(* jobs, administrators, requests and crashes: that a job is in one place, *)
(* that a request acts on what its user saw, that a retry goes back where  *)
(* it came from, and that the page of jobs leaves none out.                *)
EXTENDS DlqAdmin, FiniteSetTheorems, TLAPS

(* InOrder numbers the members of a finite set of numbers, each once.      *)
LEMMA InOrderIs ==
  ASSUME NEW K \in SUBSET Nat, IsFiniteSet(K)
  PROVE  /\ Cardinality(K) \in Nat
         /\ \A n \in 1 .. Cardinality(K) : InOrder(K)[n] \in K
         /\ \A n, m \in 1 .. Cardinality(K) : InOrder(K)[n] = InOrder(K)[m] => n = m
         /\ \A k \in K : \E n \in 1 .. Cardinality(K) : InOrder(K)[n] = k
         /\ \A n \in 1 .. Cardinality(K) : Cardinality({j \in K : j < InOrder(K)[n]}) = n - 1
         /\ \A k \in K : \A n \in 1 .. Cardinality(K) :
              Cardinality({j \in K : j < k}) = n - 1 => InOrder(K)[n] = k
<1> DEFINE N == Cardinality(K)
           below == [k \in K |-> Cardinality({j \in K : j < k})]
<1>1. N \in Nat
  BY FS_CardinalityType
<1>2. \A k \in K : below[k] = Cardinality({j \in K : j < k}) /\ IsFiniteSet({j \in K : j < k})
  <2>1. \A k \in K : {j \in K : j < k} \in SUBSET K
    OBVIOUS
  <2>2. \A k \in K : IsFiniteSet({j \in K : j < k})
    BY ONLY IsFiniteSet(K), <2>1, FS_Subset
  <2>. QED
    BY <2>2
<1>3. \A n \in 1 .. N : InOrder(K)[n] = CHOOSE k \in K : Cardinality({j \in K : j < k}) = n - 1
  BY DEF InOrder
<1> HIDE DEF below, N
<1>4. below \in [K -> 0 .. N - 1]
  <2> SUFFICES ASSUME NEW k \in K PROVE below[k] \in 0 .. N - 1
    BY DEF below
  <2>1. PICK U : U = {j \in K : j < k}
    OBVIOUS
  <2>2. U \in SUBSET K /\ U # K /\ IsFiniteSet(U)
    BY <1>2, <2>1
  <2>3. Cardinality(U) \in Nat /\ Cardinality(U) <= N /\ Cardinality(U) # N
    BY <2>2, FS_Subset, FS_CardinalityType DEF N
  <2>4. below[k] = Cardinality(U)
    BY <1>2, <2>1
  <2>. QED
    BY <1>1, <2>3, <2>4
<1>5. ASSUME NEW k \in K, NEW l \in K, k < l PROVE below[k] < below[l]
  <2>1. PICK U, V : U = {j \in K : j < k} /\ V = {j \in K : j < l}
    OBVIOUS
  <2>2. U \in SUBSET V /\ U # V /\ IsFiniteSet(V) /\ IsFiniteSet(U)
    <3>1. k \in V /\ k \notin U
      BY <1>5, <2>1
    <3>2. ASSUME NEW j \in U PROVE j \in V
      <4>1. j \in K /\ j < k
        BY <2>1
      <4>2. j \in Int /\ k \in Int /\ l \in Int
        BY <4>1
      <4>. QED
        BY <1>5, <2>1, <4>1, <4>2
    <3>3. IsFiniteSet(V) /\ IsFiniteSet(U)
      BY <1>2, <2>1
    <3>. QED
      BY <3>1, <3>2, <3>3
  <2>3. Cardinality(U) \in Nat /\ Cardinality(V) \in Nat /\ Cardinality(U) <= Cardinality(V)
        /\ Cardinality(U) # Cardinality(V)
    BY <2>2, FS_Subset, FS_CardinalityType
  <2>4. below[k] = Cardinality(U) /\ below[l] = Cardinality(V)
    BY <1>2, <2>1
  <2>. QED
    BY <2>3, <2>4
<1>6. \A k, l \in K : below[k] = below[l] => k = l
  BY <1>4, <1>5
<1> DEFINE rank == [k \in K |-> below[k] + 1]
<1>7. rank \in [K -> 1 .. N] /\ \A k \in K : rank[k] = below[k] + 1
  BY <1>1, <1>4
<1> HIDE DEF rank
<1>8. rank \in Injection(K, 1 .. N)
  <2>1. \A k, l \in K : rank[k] = rank[l] => k = l
    BY <1>4, <1>6, <1>7
  <2>. QED
    BY <1>7, <2>1 DEF Injection, IsInjective
<1>9. rank \in Surjection(K, 1 .. N)
  <2>1. IsFiniteSet(1 .. N) /\ Cardinality(1 .. N) = Cardinality(K)
    BY <1>1, FS_Interval DEF N
  <2>. QED
    BY <1>8, <2>1, FS_Injection
<1>10. \A n \in 1 .. N : \E k \in K : rank[k] = n
  BY <1>9 DEF Surjection
<1>11. ASSUME NEW n \in 1 .. N PROVE InOrder(K)[n] \in K /\ below[InOrder(K)[n]] = n - 1
  <2>1. PICK k \in K : rank[k] = n
    BY <1>10
  <2>2. Cardinality({j \in K : j < k}) = n - 1
    BY <1>1, <1>2, <1>4, <1>7, <2>1
  <2>3. InOrder(K)[n] \in K /\ Cardinality({j \in K : j < InOrder(K)[n]}) = n - 1
    BY <1>3, <2>2
  <2>. QED
    BY <1>2, <2>3
<1>12. ASSUME NEW n \in 1 .. N, NEW m \in 1 .. N, InOrder(K)[n] = InOrder(K)[m] PROVE n = m
  BY <1>1, <1>11, <1>12
<1>13. ASSUME NEW k \in K PROVE \E n \in 1 .. N : InOrder(K)[n] = k
  <2>1. PICK n : n = rank[k]
    OBVIOUS
  <2>2. n \in 1 .. N /\ n - 1 = below[k]
    BY <1>1, <1>4, <1>7, <2>1
  <2>3. InOrder(K)[n] \in K /\ below[InOrder(K)[n]] = below[k]
    BY <1>11, <2>2
  <2>. QED
    BY <1>6, <2>2, <2>3
<1>14. \A n \in 1 .. N : Cardinality({j \in K : j < InOrder(K)[n]}) = n - 1
  BY <1>2, <1>11
<1>15. ASSUME NEW k \in K, NEW n \in 1 .. N, Cardinality({j \in K : j < k}) = n - 1
       PROVE  InOrder(K)[n] = k
  BY <1>2, <1>6, <1>11, <1>15
<1>. QED
  BY <1>1, <1>11, <1>12, <1>13, <1>14, <1>15 DEF N

(* A greater member comes last and leaves the others their numbers.        *)
LEMMA InOrderGrows ==
  ASSUME NEW K \in SUBSET Nat, IsFiniteSet(K), NEW m \in Nat, \A k \in K : k < m
  PROVE  /\ \A n \in 1 .. Cardinality(K) : InOrder(K \cup {m})[n] = InOrder(K)[n]
         /\ Cardinality(K \cup {m}) = Cardinality(K) + 1
<1>1. PICK L : L = K \cup {m}
  OBVIOUS
<1>2. L \in SUBSET Nat /\ IsFiniteSet(L) /\ m \notin K
  BY <1>1, FS_AddElement
<1>3. Cardinality(K) \in Nat /\ Cardinality(L) = Cardinality(K) + 1
  BY <1>1, <1>2, FS_AddElement, FS_CardinalityType
<1>4. ASSUME NEW n \in 1 .. Cardinality(K) PROVE InOrder(L)[n] = InOrder(K)[n]
  <2>1. PICK k : k = InOrder(K)[n]
    OBVIOUS
  <2>2. k \in K /\ Cardinality({j \in K : j < k}) = n - 1
    BY <2>1, InOrderIs
  <2>3. {j \in L : j < k} = {j \in K : j < k}
    BY <1>1, <2>2
  <2>4. n \in 1 .. Cardinality(L) /\ k \in L
    BY <1>1, <1>3, <2>2
  <2>5. InOrder(L)[n] = k
    BY <1>2, <2>2, <2>3, <2>4, InOrderIs
  <2>. QED
    BY <2>1, <2>5
<1>. QED
  BY <1>1, <1>3, <1>4


(* A set of natural numbers that is not empty has a least one.             *)
LEMMA Least ==
  ASSUME NEW K \in SUBSET Nat, K # {}
  PROVE  \E k \in K : \A m \in K : k <= m
<1>1. PICK x \in K : TRUE
  OBVIOUS
<1>2. PICK J : J = {k \in K : k <= x}
  OBVIOUS
<1>3. J \in SUBSET (0 .. x) /\ x \in J /\ J \in SUBSET Nat
  <2>1. x \in Nat /\ x \in J
    BY <1>2
  <2>2. \A k \in J : k \in Nat /\ k <= x
    BY <1>2
  <2>3. \A k \in J : k \in 0 .. x
    BY ONLY <2>1, <2>2
  <2>. QED
    BY ONLY <2>1, <2>2, <2>3
<1>4. IsFiniteSet(J)
  <2>1. IsFiniteSet(0 .. x)
    BY FS_Interval
  <2>. QED
    BY <1>3, <2>1, FS_Subset
<1>5. Cardinality(J) \in Nat \ {0}
  BY <1>3, <1>4, FS_EmptySet, FS_CardinalityType
<1>6. PICK f : f = InOrder(J)[1]
  OBVIOUS
<1>7. f \in J /\ Cardinality({k \in J : k < f}) = 0
  BY <1>3, <1>4, <1>5, <1>6, InOrderIs
<1>8. {k \in J : k < f} = {}
  <2>1. PICK L : L = {k \in J : k < f}
    OBVIOUS
  <2>2. L \in SUBSET J
    BY ONLY <2>1
  <2>3. IsFiniteSet(L)
    BY ONLY <1>4, <2>2, FS_Subset
  <2>4. Cardinality(L) = 0
    BY ONLY <1>7, <2>1
  <2>. QED
    BY ONLY <2>1, <2>3, <2>4, FS_EmptySet
<1>9. \A m \in K : f <= m
  <2> SUFFICES ASSUME NEW m \in K PROVE f <= m
    OBVIOUS
  <2>1. m \in Nat /\ x \in Nat /\ f \in Nat /\ f <= x
    BY <1>2, <1>7
  <2>2. m \in J => ~ (m < f)
    BY <1>8
  <2>3. ~ (m \in J) => m > x
    BY <1>2, <2>1
  <2>. QED
    BY ONLY <2>1, <2>2, <2>3
<1>. QED
  BY <1>2, <1>7, <1>9

(* A sequence with one item more at its end.                               *)
LEMMA AppendIs ==
  ASSUME NEW S, NEW s \in Seq(S), NEW x \in S, NEW t, t = Append(s, x)
  PROVE  /\ t \in Seq(S) /\ Len(t) = Len(s) + 1 /\ Len(s) \in Nat
         /\ DOMAIN s = 1 .. Len(s) /\ DOMAIN t = 1 .. Len(s) + 1
         /\ t[Len(s) + 1] = x /\ \A i \in 1 .. Len(s) : t[i] = s[i]
OBVIOUS

(* A sequence without its first item.                                      *)
LEMMA TailIs ==
  ASSUME NEW S, NEW s \in Seq(S), s # <<>>, NEW t, t = Tail(s)
  PROVE  /\ t \in Seq(S) /\ Len(t) = Len(s) - 1 /\ Len(s) \in Nat \ {0}
         /\ DOMAIN s = 1 .. Len(s) /\ DOMAIN t = 1 .. Len(s) - 1
         /\ Head(s) = s[1] /\ Head(s) \in S /\ \A i \in 1 .. Len(s) - 1 : t[i] = s[i + 1]
OBVIOUS

(* What follows item k of a sequence.                                      *)
LEMMA RestIs ==
  ASSUME NEW S, NEW s \in Seq(S), NEW k \in 1 .. Len(s), NEW v, v = SubSeq(s, k + 1, Len(s))
  PROVE  v \in Seq(S) /\ Len(v) = Len(s) - k /\ \A i \in 1 .. Len(s) - k : v[i] = s[i + k]
<1>1. PICK n : n = Len(s) /\ n \in Nat
  OBVIOUS
<1>2. \A i \in k + 1 .. n : s[i] \in S
  BY <1>1
<1>3. v \in Seq(S)
  BY <1>1, <1>2
<1>4. Len(v) = n - k
  BY <1>1
<1>5. ASSUME NEW i \in 1 .. n - k PROVE v[i] = s[i + k]
  <2>1. v[i] = s[k + 1 + i - 1]
    BY <1>1
  <2>2. k + 1 + i - 1 = i + k
    BY <1>1
  <2>. QED
    BY <2>1, <2>2
<1>. QED
  BY <1>1, <1>3, <1>4, <1>5

(* A sequence without its item k.                                            *)
LEMMA RemovedIs ==
  ASSUME NEW S, NEW s \in Seq(S), NEW k \in DOMAIN s, NEW t, t = RemoveAt(s, k)
  PROVE  /\ t \in Seq(S) /\ Len(t) = Len(s) - 1 /\ Len(s) \in Nat \ {0}
         /\ DOMAIN s = 1 .. Len(s) /\ DOMAIN t = 1 .. Len(s) - 1
         /\ \A i \in 1 .. Len(s) - 1 : t[i] = IF i < k THEN s[i] ELSE s[i + 1]
<1>1. k \in 1 .. Len(s) /\ Len(s) \in Nat \ {0} /\ DOMAIN s = 1 .. Len(s)
  OBVIOUS
<1>2. PICK u, v : u = SubSeq(s, 1, k - 1) /\ v = SubSeq(s, k + 1, Len(s))
  OBVIOUS
<1>3. u \in Seq(S) /\ Len(u) = k - 1 /\ \A i \in 1 .. k - 1 : u[i] = s[i]
  BY <1>1, <1>2
<1>4. v \in Seq(S) /\ Len(v) = Len(s) - k /\ \A i \in 1 .. Len(s) - k : v[i] = s[i + k]
  BY ONLY <1>1, <1>2, RestIs, s \in Seq(S)
<1>5. t = u \o v
  BY <1>2 DEF RemoveAt
<1>6. t \in Seq(S) /\ Len(t) = Len(s) - 1
  <2>1. Len(u) + Len(v) = Len(s) - 1
    BY <1>1, <1>3, <1>4
  <2>2. u \in Seq(S) /\ v \in Seq(S)
    BY <1>3, <1>4
  <2>3. u \o v \in Seq(S) /\ Len(u \o v) = Len(u) + Len(v)
    BY ONLY <2>2
  <2>. QED
    BY <1>5, <2>1, <2>3
<1>7. \A i \in 1 .. Len(s) - 1 : t[i] = IF i < k THEN s[i] ELSE s[i + 1]
  <2> SUFFICES ASSUME NEW i \in 1 .. Len(s) - 1 PROVE t[i] = IF i < k THEN s[i] ELSE s[i + 1]
    OBVIOUS
  <2>1. CASE i < k
    BY <1>1, <1>3, <1>4, <1>5, <2>1
  <2>2. CASE ~ i < k
    <3>1. t[i] = v[i - (k - 1)]
      <4>1. u \in Seq(S) /\ v \in Seq(S) /\ Len(u) = k - 1 /\ Len(u) + Len(v) = Len(s) - 1
        BY <1>1, <1>3, <1>4
      <4>2. i \in Len(u) + 1 .. Len(u) + Len(v)
        BY <1>1, <2>2, <4>1
      <4>3. (u \o v)[i] = v[i - Len(u)]
        BY ONLY <4>1, <4>2, SMTT(30)
      <4>. QED
        BY <1>5, <4>1, <4>3
    <3>2. i - (k - 1) \in 1 .. Len(s) - k /\ (i - (k - 1)) + k = i + 1
      BY <1>1, <2>2
    <3>3. v[i - (k - 1)] = s[(i - (k - 1)) + k]
      BY <1>4, <3>2
    <3>. QED
      BY <2>2, <3>1, <3>2, <3>3
  <2>. QED
    BY <2>1, <2>2
<1>. QED
  BY <1>1, <1>6, <1>7

(* SetToSeq lists the members of a finite set, each once.                  *)
LEMMA ListedSet ==
  ASSUME NEW S, IsFiniteSet(S), NEW f, f = SetToSeq(S)
  PROVE  /\ Cardinality(S) \in Nat /\ f \in Seq(S) /\ DOMAIN f = 1 .. Cardinality(S)
         /\ \A i, k \in DOMAIN f : f[i] = f[k] => i = k
         /\ \A x \in S : \E i \in DOMAIN f : f[i] = x
<1>1. Cardinality(S) \in Nat
  BY FS_CardinalityType
<1>2. PICK N : N = Cardinality(S)
  OBVIOUS
<1>3. \E g \in [1 .. N -> S] : IsInjective(g)
  <2>1. PICK g : g \in Bijection(1 .. N, S)
    BY <1>2, FS_CardinalityType DEF ExistsBijection
  <2>. QED
    BY <2>1 DEF Bijection, Injection
<1>4. f \in [1 .. N -> S] /\ IsInjective(f)
  BY <1>2, <1>3 DEF SetToSeq
<1>5. f \in Injection(1 .. N, S)
  BY <1>4 DEF Injection
<1>6. IsFiniteSet(1 .. N) /\ Cardinality(1 .. N) = N
  BY <1>1, <1>2, FS_Interval
<1>7. f \in Surjection(1 .. N, S)
  BY <1>2, <1>5, <1>6, FS_Injection
<1>8. f \in Seq(S) /\ DOMAIN f = 1 .. N
  BY <1>1, <1>2, <1>4
<1>. QED
  BY <1>1, <1>2, <1>4, <1>7, <1>8 DEF IsInjective, Surjection
-------------------------------------------------------------------------------
(* What the variables hold. *)
Names == Entries \cup {"none"}
Tags == Queues \cup {"none"}
Letters == [job : Entries, tag : Tags]
Statuses == {"none", "queued", "running", "pending_review", "dlq", "retry"}
RowType == [job : Entries]
Pcs == {"idle", "look", "list", "read", "mark", "drop", "push", "note", "queues", "letters", "answer"}
Ops == {"none", "retry", "remove", "retry_job", "jobs", "job"}
Entry == [pc : Pcs, op : Ops, seen : Names, queue : Tags, index : Nat, left : Seq(Queues),
          payload : [job : Names, tag : Tags], rows : Seq(RowType)]
Removing == {"list", "read", "mark", "drop", "push", "note"}
(* What the place a request stands at says of its fields. *)
Shape(r) ==
  /\ r.pc \in Removing => r.queue \in Queues /\ r.op \in {"retry", "remove", "retry_job"}
  /\ r.pc \in {"read", "mark"} => r.index \in Nat \ {0}
  /\ r.pc \in {"mark", "drop", "push", "note"} => r.payload \in Letters
  /\ r.pc \in {"look", "note"} => r.op = "retry_job"
  /\ r.pc = "push" => r.op # "remove"
  /\ r.op = "retry_job" => r.seen \in Jobs
  /\ r.pc \in {"queues", "letters"} => r.left # <<>> /\ r.op \in {"jobs", "job"}
  /\ r.pc = "answer" => r.op \in {"jobs", "job"}
  /\ r.op = "job" => r.seen \in Jobs
(* What a coroutine has in hand. *)
HandPcs == {"idle", "waiting", "running", "retrying", "burying"}
HandEntry == [pc : HandPcs, job : Names, queue : Tags]
Firm(h) ==
  /\ h.pc # "idle" => h.job \in Entries /\ h.queue \in Queues
  /\ h.pc \in {"running", "retrying", "burying"} => h.job \in Jobs
Typed ==
  /\ dlq \in Seq(Letters) /\ queues \in [Queues -> Seq(Entries)]
  /\ hand \in [Coroutines -> HandEntry] /\ \A w \in Coroutines : Firm(hand[w])
  /\ request \in [Admins -> Entry] /\ \A a \in Admins : Shape(request[a])
  /\ jobStatus \in [Jobs -> Statuses] /\ over \in [Jobs -> SUBSET {"done", "removed", "lost"}]
  /\ silent \subseteq Entries
  /\ asked \in 0..MaxRequests /\ crashes \in 0..MaxCrashes /\ crossed \in BOOLEAN

(* A letter is of the queue its tag names, or has none and is of the       *)
(* oldest queue; those without stand before those with one.                *)
Rightful(l) ==
  l.job \in Jobs => IF l.tag = "none" THEN HomeOf[l.job] = "ai_analyze" ELSE l.tag = HomeOf[l.job]
OldFirst ==
  \A i, k \in DOMAIN dlq :
    i < k /\ dlq[i].tag # "none" => dlq[k].job \notin Jobs \/ dlq[k].tag # "none"
Bound(r) ==
  /\ r.pc \in {"read", "mark"} /\ r.queue # "ai_analyze" =>
       \A k \in DOMAIN dlq : k >= r.index => dlq[k].job \notin Jobs \/ dlq[k].tag # "none"
  /\ r.pc \in {"mark", "drop", "push"} =>
       /\ Rightful(r.payload)
       /\ r.payload.job \in Jobs /\ r.payload.tag = "none" => r.queue = "ai_analyze"
Homely(h) == h.pc # "idle" /\ h.job \in Jobs => HomeOf[h.job] = h.queue
HomeInv ==
  /\ \A i \in DOMAIN dlq : Rightful(dlq[i])
  /\ OldFirst /\ BackToItsQueue /\ \A a \in Admins : Bound(request[a])
  /\ \A w \in Coroutines : Homely(hand[w])

(* Who is shown as a dead letter is one, or in the hands of the retry that *)
(* was asked for it.                                                       *)
Retrying(r, j) ==
  r.pc \in {"drop", "push", "note"} /\ r.op = "retry_job" /\ r.payload.job = j /\ r.seen = j
InDlq(j) == \E i \in DOMAIN dlq : dlq[i].job = j
DeadInv ==
  \A j \in Jobs : jobStatus[j] = "dlq" =>
    j \in silent \/ InDlq(j) \/ \E a \in Admins : Retrying(request[a], j)

(* While requests do not cross there is one at most, and what it points at *)
(* is what its user saw.                                                   *)
Alone == \A a, b \in Admins : request[a].pc # "idle" /\ request[b].pc # "idle" => a = b
Aim(r) ==
  /\ r.pc = "list" => r.index \in DOMAIN Listed(r.queue) /\ dlq[Listed(r.queue)[r.index]].job = r.seen
  /\ r.pc \in {"read", "mark"} => r.index \in DOMAIN dlq /\ dlq[r.index].job = r.seen
  /\ r.pc = "mark" => r.payload = dlq[r.index]
  /\ r.pc \in {"drop", "push", "note"} => r.payload.job = r.seen
AimInv == ~ crossed => Alone /\ \A a \in Admins : Aim(request[a])

(* Where a job is. *)
InQueue(j, q) == \E i \in DOMAIN queues[q] : queues[q][i] = j
Holds(r, j) == r.pc \in {"drop", "push"} /\ r.op # "remove" /\ r.payload.job = j
Held(j) == \E a \in Admins : Holds(request[a], j)
Works(h, j) == h.pc \in {"waiting", "running"} /\ h.job = j
Worked(j) == \E w \in Coroutines : Works(hand[w], j)
OneByOne ==
  /\ \A i, k \in DOMAIN dlq : dlq[i].job \in Jobs /\ dlq[i].job = dlq[k].job => i = k
  /\ \A q \in Queues : \A i, k \in DOMAIN queues[q] :
       queues[q][i] \in Jobs /\ queues[q][i] = queues[q][k] => i = k
  /\ \A v, w \in Coroutines : \A j \in Jobs : Works(hand[v], j) /\ Works(hand[w], j) => v = w
Somewhere(j) ==
  InDlq(j) \/ (\E q \in Queues : InQueue(j, q)) \/ Held(j) \/ Worked(j) \/ over[j] # {}
OnlyThere(j) ==
  /\ InDlq(j) => (\A q \in Queues : ~ InQueue(j, q)) /\ ~ Held(j) /\ ~ Worked(j) /\ over[j] = {}
  /\ \A q \in Queues : InQueue(j, q) =>
       ~ Held(j) /\ ~ Worked(j) /\ over[j] = {} /\ \A p \in Queues : InQueue(j, p) => p = q
  /\ Held(j) => ~ Worked(j) /\ over[j] = {}
  /\ Worked(j) => over[j] = {}
  /\ over[j] = {} \/ \E x \in {"done", "removed", "lost"} : over[j] = {x}
PlaceInv == ~ crossed => OneByOne /\ \A j \in Jobs : Somewhere(j) /\ OnlyThere(j)

(* What a page has yet to come to. *)
Named(r, j) == \E k \in DOMAIN r.rows : r.rows[k].job = j
Ahead(r, j) ==
  \/ r.pc = "queues" /\ (InDlq(j) \/ \E q \in ToSet(r.left) : InQueue(j, q))
  \/ r.pc = "letters" /\ \E q \in ToSet(r.left) : \E i \in DOMAIN dlq : dlq[i].job = j /\ Matches(dlq[i], q)
Distinct(rows) == \A i, k \in DOMAIN rows : rows[i].job \in Jobs /\ rows[i].job = rows[k].job => i = k
Waits(j) == \E w \in Coroutines : hand[w].pc = "waiting" /\ hand[w].job = j
Shows(r) ==
  r.pc \in {"queues", "letters", "answer"} =>
    /\ Distinct(r.rows)
    /\ ~ crossed => \A j \in Jobs :
         (r.pc = "answer" /\ r.op = "job" => j = r.seen) =>
           Named(r, j) \/ Ahead(r, j) \/ over[j] # {} \/ jobStatus[j] # "none" \/ Waits(j)
PageInv == \A a \in Admins : Shows(request[a])
(* A job that runs has a record.                                           *)
Recorded(h) == h.pc = "running" => jobStatus[h.job] # "none"
RecordInv == \A w \in Coroutines : Recorded(hand[w])
DlqInv == Typed /\ HomeInv /\ DeadInv /\ AimInv /\ PlaceInv /\ RecordInv /\ PageInv
-------------------------------------------------------------------------------
(* The lists of the model. *)

(* What _list_dlq_page lists for a queue: its letters in their order.      *)
LEMMA ListedIs ==
  ASSUME NEW S, dlq \in Seq(S), NEW q
  PROVE  /\ DOMAIN Listed(q) \in SUBSET (Nat \ {0})
         /\ \A n \in DOMAIN Listed(q) : Listed(q)[n] \in DOMAIN dlq /\ Matches(dlq[Listed(q)[n]], q)
         /\ \A i \in DOMAIN dlq : Matches(dlq[i], q) => \E n \in DOMAIN Listed(q) : Listed(q)[n] = i
<1>1. PICK K : K = {i \in DOMAIN dlq : Matches(dlq[i], q)}
  OBVIOUS
<1>2. DOMAIN dlq = 1 .. Len(dlq) /\ Len(dlq) \in Nat
  OBVIOUS
<1>3. K \in SUBSET (1 .. Len(dlq)) /\ IsFiniteSet(K)
  <2>1. IsFiniteSet(1 .. Len(dlq))
    BY <1>2, FS_Interval
  <2>2. K \in SUBSET (1 .. Len(dlq))
    BY <1>1, <1>2
  <2>. QED
    BY <2>1, <2>2, FS_Subset
<1>4. Listed(q) = InOrder(K) /\ DOMAIN Listed(q) = 1 .. Cardinality(K) /\ Cardinality(K) \in Nat
  BY <1>1, <1>3, FS_CardinalityType DEF Listed, InOrder
<1>5. /\ \A n \in 1 .. Cardinality(K) : InOrder(K)[n] \in K
      /\ \A k \in K : \E n \in 1 .. Cardinality(K) : InOrder(K)[n] = k
  BY <1>3, InOrderIs
<1>6. PICK o, N : o = Listed(q) /\ N = Cardinality(K)
  OBVIOUS
<1>7. /\ N \in Nat /\ DOMAIN o = 1 .. N /\ \A n \in 1 .. N : o[n] \in K
      /\ \A k \in K : \E n \in 1 .. N : o[n] = k
  BY ONLY <1>4, <1>5, <1>6
<1>8. DOMAIN o \in SUBSET (Nat \ {0})
  BY ONLY <1>7
<1>9. \A i : i \in K <=> i \in DOMAIN dlq /\ Matches(dlq[i], q)
  BY ONLY <1>1
<1>. QED
  BY ONLY <1>6, <1>7, <1>8, <1>9

(* A letter that is appended leaves the listing what it was, up to its end.*)
LEMMA ListedGrows ==
  ASSUME NEW S, dlq \in Seq(S), NEW x \in S, dlq' = Append(dlq, x), NEW q
  PROVE  \A n \in DOMAIN Listed(q) : n \in DOMAIN Listed(q)' /\ Listed(q)'[n] = Listed(q)[n]
<1>1. PICK K, L : /\ K = {i \in DOMAIN dlq : Matches(dlq[i], q)}
                  /\ L = {i \in DOMAIN dlq' : Matches(dlq'[i], q)}
  OBVIOUS
<1>2. PICK N : N = Len(dlq)
  OBVIOUS
<1>3. /\ N \in Nat /\ DOMAIN dlq = 1 .. N /\ DOMAIN dlq' = 1 .. N + 1
      /\ dlq'[N + 1] = x /\ \A i \in 1 .. N : dlq'[i] = dlq[i]
  BY <1>2, AppendIs
<1>4. K \in SUBSET (1 .. N) /\ IsFiniteSet(K)
  <2>1. IsFiniteSet(1 .. N)
    BY <1>3, FS_Interval
  <2>2. K \in SUBSET (1 .. N)
    BY <1>1, <1>3
  <2>. QED
    BY <2>1, <2>2, FS_Subset
<1>5. L = K \/ L = K \cup {N + 1}
  <2>1. \A i \in 1 .. N : i \in L <=> i \in K
    BY <1>1, <1>3
  <2>2. L \in SUBSET (1 .. N + 1) /\ \A i \in 1 .. N + 1 : i \in 1 .. N \/ i = N + 1
    BY <1>1, <1>3
  <2>. QED
    BY <1>4, <2>1, <2>2
<1>6. Listed(q) = InOrder(K) /\ DOMAIN Listed(q) = 1 .. Cardinality(K)
  BY <1>1 DEF Listed, InOrder
<1>7. Listed(q)' = InOrder(L) /\ DOMAIN Listed(q)' = 1 .. Cardinality(L)
  <2>1. Listed(q)' = InOrder(L)
    BY <1>1 DEF Listed, Matches
  <2>. QED
    BY <2>1 DEF InOrder
<1>8. Cardinality(K) \in Nat
  BY <1>4, FS_CardinalityType
<1>9. CASE L = K
  BY <1>6, <1>7, <1>9
<1>10. CASE L = K \cup {N + 1}
  <2>1. N + 1 \in Nat /\ K \in SUBSET Nat /\ \A k \in K : k < N + 1
    BY <1>3, <1>4
  <2>2. /\ \A n \in 1 .. Cardinality(K) : InOrder(L)[n] = InOrder(K)[n]
        /\ Cardinality(L) = Cardinality(K) + 1
    BY <1>4, <1>10, <2>1, InOrderGrows
  <2>. QED
    BY <1>6, <1>7, <1>8, <2>2
<1>. QED
  BY <1>5, <1>9, <1>10

(* Merging the rows of a page names no job twice and leaves none out.      *)
LEMMA MergedIs ==
  ASSUME NEW rows \in Seq(RowType), NEW new \in Seq(RowType), NEW m, m = Merged(rows, new)
  PROVE  /\ m \in Seq(RowType)
         /\ Distinct(rows) => Distinct(m)
         /\ \A j \in Jobs : (\E i \in DOMAIN rows : rows[i].job = j) \/ (\E i \in DOMAIN new : new[i].job = j)
                            => \E i \in DOMAIN m : m[i].job = j
<1> DEFINE seen(k) == \/ \E i \in DOMAIN rows : rows[i].job = new[k].job
                      \/ \E i \in 1 .. k - 1 : new[i].job = new[k].job
<1>1. PICK K : K = {k \in DOMAIN new : new[k].job \in Jobs => ~ seen(k)}
  OBVIOUS
<1>20. PICK M : M = Len(rows)
  OBVIOUS
<1>21. PICK N : N = Len(new)
  OBVIOUS
<1>2. /\ M = Len(rows) /\ N = Len(new) /\ M \in Nat /\ N \in Nat
      /\ DOMAIN rows = 1 .. M /\ DOMAIN new = 1 .. N
  BY <1>20, <1>21
<1>3. K \in SUBSET (1 .. N) /\ IsFiniteSet(K) /\ IsFiniteSet(1 .. N)
  <2>1. IsFiniteSet(1 .. N)
    BY <1>2, FS_Interval
  <2>2. K \in SUBSET (1 .. N)
    BY <1>1, <1>2
  <2>. QED
    BY <2>1, <2>2, FS_Subset
<1>4. PICK at, C : at = InOrder(K) /\ C = Cardinality(K)
  OBVIOUS
<1>5. /\ C \in Nat /\ DOMAIN at = 1 .. C
      /\ \A n \in 1 .. C : at[n] \in K
      /\ \A n, l \in 1 .. C : at[n] = at[l] => n = l
      /\ \A k \in K : \E n \in 1 .. C : at[n] = k
  <2>1. K \in SUBSET Nat
    BY <1>3
  <2>2. DOMAIN at = 1 .. C
    BY <1>4 DEF InOrder
  <2>. QED
    BY <1>3, <1>4, <2>1, <2>2, InOrderIs
<1>6. PICK new1 : new1 = [n \in 1 .. C |-> new[at[n]]]
  OBVIOUS
<1>7. m = rows \o new1
  BY <1>1, <1>4, <1>5, <1>6 DEF Merged
<1>8. \A k \in K : new[k] \in RowType
  BY <1>2, <1>3
<1>9. /\ new1 \in Seq(RowType) /\ Len(new1) = C /\ DOMAIN new1 = 1 .. C
      /\ \A n \in 1 .. C : new1[n] = new[at[n]]
  BY <1>5, <1>6, <1>8
<1>10. m \in Seq(RowType) /\ Len(m) = M + C
  <2>1. rows \in Seq(RowType) /\ new1 \in Seq(RowType)
    BY <1>9
  <2>2. rows \o new1 \in Seq(RowType) /\ Len(rows \o new1) = Len(rows) + Len(new1)
    BY ONLY <2>1
  <2>. QED
    BY <1>2, <1>7, <1>9, <2>2
<1>11. /\ DOMAIN m = 1 .. M + C
       /\ \A i \in 1 .. M : m[i] = rows[i]
       /\ \A n \in 1 .. C : m[M + n] = new1[n]
  BY ONLY <1>2, <1>5, <1>7, <1>9, <1>10, rows \in Seq(RowType)
<1>12. ASSUME Distinct(rows) PROVE Distinct(m)
  <2> SUFFICES ASSUME NEW i \in 1 .. M + C, NEW k \in 1 .. M + C, m[i].job \in Jobs, m[i].job = m[k].job, i < k
               PROVE  FALSE
    BY <1>2, <1>5, <1>11 DEF Distinct
  <2>1. \A x \in 1 .. M + C : x \in 1 .. M \/ \E n \in 1 .. C : x = M + n
    <3> SUFFICES ASSUME NEW x \in 1 .. M + C, x \notin 1 .. M PROVE \E n \in 1 .. C : x = M + n
      OBVIOUS
    <3>1. x - M \in 1 .. C /\ x = M + (x - M)
      BY <1>2, <1>5
    <3>. QED
      BY <3>1
  <2>2. CASE k \in 1 .. M
    <3>1. i \in 1 .. M
      BY <1>2, <1>5, <2>2
    <3>2. m[i] = rows[i] /\ m[k] = rows[k]
      BY <1>11, <2>2, <3>1
    <3>3. i = k
      BY <1>2, <1>12, <2>2, <3>1, <3>2 DEF Distinct
    <3>. QED
      BY <1>2, <2>2, <3>3
  <2>3. ASSUME NEW n \in 1 .. C, k = M + n PROVE FALSE
    <3>1. m[k] = new[at[n]] /\ at[n] \in K
      BY <1>5, <1>9, <1>11, <2>3
    <3>2. ~ seen(at[n]) /\ at[n] \in 1 .. N
      BY <1>1, <1>2, <3>1
    <3>3. CASE i \in 1 .. M
      BY <1>2, <1>11, <3>1, <3>2, <3>3
    <3>4. ASSUME NEW l \in 1 .. C, i = M + l PROVE FALSE
      <4>1. m[i] = new[at[l]] /\ at[l] \in K /\ ~ seen(at[l]) /\ at[l] \in 1 .. N
        BY <1>1, <1>2, <1>5, <1>9, <1>11, <3>4
      <4>2. at[l] # at[n]
        BY <1>2, <1>5, <2>3, <3>4
      <4>3. at[l] \in 1 .. at[n] - 1 \/ at[n] \in 1 .. at[l] - 1
        BY <1>2, <3>2, <4>1, <4>2
      <4>. QED
        BY <3>1, <3>2, <4>1, <4>3
    <3>. QED
      BY <2>1, <3>3, <3>4
  <2>. QED
    BY <2>1, <2>2, <2>3
<1>13. ASSUME NEW j \in Jobs, NEW i \in DOMAIN rows, rows[i].job = j PROVE \E k \in DOMAIN m : m[k].job = j
  <2>1. i \in 1 .. M + C /\ m[i] = rows[i]
    BY <1>2, <1>5, <1>11
  <2>. QED
    BY <1>11, <1>13, <2>1
<1>14. ASSUME NEW j \in Jobs, NEW i \in DOMAIN new, new[i].job = j, ~ \E k \in DOMAIN rows : rows[k].job = j
       PROVE  \E k \in DOMAIN m : m[k].job = j
  <2>1. PICK J : J = {k \in 1 .. N : new[k].job = j}
    OBVIOUS
  <2>2. J \in SUBSET Nat /\ IsFiniteSet(J) /\ i \in J
    BY <1>2, <1>3, <1>14, <2>1, FS_Subset
  <2>3. Cardinality(J) \in Nat \ {0}
    BY <2>2, FS_EmptySet, FS_CardinalityType
  <2>4. PICK f : f = InOrder(J)[1]
    OBVIOUS
  <2>5. f \in J /\ Cardinality({k \in J : k < f}) = 0
    BY <2>2, <2>3, <2>4, InOrderIs
  <2>6. {k \in J : k < f} = {}
    BY <2>2, <2>5, FS_Subset, FS_EmptySet
  <2>7. f \in 1 .. N /\ new[f].job = j /\ \A k \in 1 .. f - 1 : new[k].job # j
    BY <1>2, <2>1, <2>5, <2>6
  <2>8. f \in K
    BY <1>1, <1>2, <1>14, <2>7
  <2>9. PICK n \in 1 .. C : at[n] = f
    BY <1>5, <2>8
  <2>10. M + n \in 1 .. M + C /\ m[M + n] = new[f]
    BY <1>2, <1>5, <1>9, <1>11, <2>9
  <2>. QED
    BY <1>11, <2>7, <2>10
<1>. QED
  BY <1>10, <1>12, <1>13, <1>14

(* The rows of the records: one for each of the jobs that has a record.    *)
LEMMA RecordsAre ==
  ASSUME jobStatus \in [Jobs -> Statuses], NEW jobs \in SUBSET Jobs, NEW m, m = Records(jobs)
  PROVE  /\ m \in Seq(RowType) /\ Distinct(m)
         /\ \A j \in jobs : jobStatus[j] # "none" => \E i \in DOMAIN m : m[i].job = j
<1>1. PICK J, S : /\ J = {x \in jobs : jobStatus[x] # "none"}
                  /\ S = {Row(j) : j \in J}
  OBVIOUS
<1>2. IsFiniteSet(S)
  <2>1. IsFiniteSet(J)
    BY <1>1, AdminAssumption, FS_Subset
  <2>2. PICK f : f = [j \in J |-> Row(j)]
    OBVIOUS
  <2>3. f \in Surjection(J, S)
    BY <1>1, <2>2 DEF Surjection
  <2>. QED
    BY <2>1, <2>3, FS_Surjection
<1>3. m = SetToSeq(S)
  BY <1>1 DEF Records
<1>4. /\ m \in Seq(S) /\ \A i, k \in DOMAIN m : m[i] = m[k] => i = k
      /\ \A x \in S : \E i \in DOMAIN m : m[i] = x
  BY <1>2, <1>3, ListedSet
<1>5. \A x \in S : x.job \in jobs /\ x = Row(x.job) /\ x \in RowType
  BY <1>1 DEF Row, RowType, Entries, Statuses
<1>6. m \in Seq(RowType) /\ \A i \in DOMAIN m : m[i] \in S
  <2>1. S \in SUBSET RowType
    BY <1>5
  <2>. QED
    BY <1>4, <2>1
<1>7. Distinct(m)
  BY <1>4, <1>5, <1>6 DEF Distinct
<1>8. \A j \in J : \E i \in DOMAIN m : m[i].job = j
  <2> SUFFICES ASSUME NEW j \in J PROVE \E i \in DOMAIN m : m[i].job = j
    OBVIOUS
  <2>1. Row(j) \in S
    BY <1>1
  <2>2. Row(j).job = j
    BY DEF Row
  <2>. QED
    BY <1>4, <2>1, <2>2
<1>. QED
  BY <1>1, <1>6, <1>7, <1>8

-------------------------------------------------------------------------------
(* What each step does to the request it belongs to. *)
Moved(a, s) ==
  /\ s \in Entry /\ Shape(s) /\ request' = [request EXCEPT ![a] = s]
  /\ request' \in [Admins -> Entry] /\ request'[a] = s
  /\ \A b \in Admins : b # a => request'[b] = request[b]
  /\ \A b \in Admins : Shape(request'[b])
Same(s, r) == s.op = r.op /\ s.seen = r.seen /\ s.queue = r.queue /\ s.payload = r.payload
Begins(a) == request[a].pc = "idle" /\ Asks(a)
Stays == UNCHANGED <<dlq, queues, hand, jobStatus, over, silent>>
Count == UNCHANGED <<asked, crashes, crossed>>

(* What the assumption says of the constants.                              *)
LEMMA Constants ==
  /\ IsFiniteSet(Jobs) /\ HomeOf \in [Jobs -> Queues] /\ Jobs \cap Admins = {}
  /\ "stale" \notin Jobs \cup Admins /\ "none" \notin Jobs \cup Admins
  /\ Legacy \subseteq Jobs /\ \A j \in Legacy : HomeOf[j] = "ai_analyze"
  /\ Queues = {"ai_analyze", "ai_analyze_doc", "ai_analyze_asserts"}
  /\ QueueDefs \in Seq(Queues) /\ QueueDefs # <<>> /\ ToSet(QueueDefs) = Queues
  /\ MaxRequests \in Nat /\ MaxCrashes \in Nat /\ IsFiniteSet(Coroutines) /\ Slots \in Nat
<1>1. Queues = {"ai_analyze", "ai_analyze_doc", "ai_analyze_asserts"}
  <2>1. DOMAIN QueueDefs = {1, 2, 3}
    BY DEF QueueDefs
  <2>. QED
    BY <2>1 DEF Queues, ToSet, QueueDefs
<1>2. QueueDefs \in Seq(Queues) /\ QueueDefs # <<>>
  BY <1>1 DEF QueueDefs
<1>. QED
  BY <1>1, <1>2, AdminAssumption DEF Queues

(* The dead letters are a sequence of letters.                             *)
LEMMA LettersAre ==
  ASSUME Typed
  PROVE  /\ dlq \in Seq(Letters) /\ Len(dlq) \in Nat /\ DOMAIN dlq = 1 .. Len(dlq)
         /\ \A i \in DOMAIN dlq : dlq[i] \in Letters /\ dlq[i].job \in Entries /\ dlq[i].tag \in Tags
<1>1. dlq \in Seq(Letters)
  BY DEF Typed
<1>2. \A i \in DOMAIN dlq : dlq[i] \in Letters
  BY <1>1
<1>. QED
  BY <1>1, <1>2 DEF Letters

(* A step that gives a request a well formed entry has moved it.           *)
LEMMA MovedIs ==
  ASSUME Typed, NEW a \in Admins, NEW s \in Entry, Shape(s), request' = [request EXCEPT ![a] = s]
  PROVE  Moved(a, s)
<1>1. request \in [Admins -> Entry] /\ \A b \in Admins : Shape(request[b])
  BY DEF Typed
<1>2. request' \in [Admins -> Entry] /\ request'[a] = s /\ \A b \in Admins : b # a => request'[b] = request[b]
  BY <1>1
<1>3. \A b \in Admins : Shape(request'[b])
  BY <1>1, <1>2
<1>. QED
  BY <1>2, <1>3 DEF Moved

(* The entry of an admin who asks for nothing.                             *)
LEMMA NoRequestIs ==
  /\ NoRequest \in Entry /\ Shape(NoRequest) /\ NoRequest.pc = "idle" /\ NoRequest.rows = <<>>
  /\ Letter("none", "none") \in [job : Names, tag : Tags]
  /\ NoRequest.op = "none" /\ NoRequest.seen = "none" /\ NoRequest.queue = "none" /\ NoRequest.index = 0
  /\ NoRequest.left = <<>> /\ NoRequest.payload = Letter("none", "none")
  /\ DOMAIN NoRequest = {"pc", "op", "seen", "queue", "index", "left", "payload", "rows"}
<1>1. Letter("none", "none") \in [job : Names, tag : Tags]
  BY DEF Letter, Names, Tags
<1>2. <<>> \in Seq(Queues) /\ <<>> \in Seq(RowType)
  OBVIOUS
<1>3. NoRequest \in Entry
  BY <1>1, <1>2 DEF NoRequest, Entry, Pcs, Ops, Names, Tags
<1>4. Shape(NoRequest)
  BY DEF NoRequest, Shape, Removing
<1>. QED
  BY <1>1, <1>3, <1>4 DEF NoRequest

(* An answered request is no more.                                         *)
LEMMA FinishIs ==
  ASSUME Typed, NEW a \in Admins, Finish(a)
  PROVE  Moved(a, NoRequest)
BY NoRequestIs, MovedIs DEF Finish, Move

(* The admin picks a letter the page shows him.                            *)
LEMMA SeeIs ==
  ASSUME Typed, NEW a \in Admins, NEW q \in Queues, NEW op \in {"retry", "remove"}, See(a, op, q)
  PROVE  /\ Begins(a) /\ Stays /\ UNCHANGED crashes
         /\ \E s : /\ Moved(a, s) /\ s.pc = "list" /\ s.queue = q /\ s.index \in DOMAIN Listed(q)
                   /\ s.seen = dlq[Listed(q)[s.index]].job
<1>1. PICK n \in DOMAIN Listed(q) :
        request' = [request EXCEPT ![a] =
          [NoRequest EXCEPT !.pc = "list", !.op = op, !.queue = q, !.index = n,
                            !.seen = dlq[Listed(q)[n]].job]]
  BY DEF See, Move
<1>2. PICK i, e : i = Listed(q)[n] /\ e = dlq[i].job
  OBVIOUS
<1>3. i \in DOMAIN dlq /\ n \in Nat /\ dlq \in Seq(Letters)
  <2>1. dlq \in Seq(Letters)
    BY DEF Typed
  <2>. QED
    BY <1>2, <2>1, ListedIs
<1>4. e \in Entries
  BY <1>2, <1>3, LettersAre
<1>5. PICK s : s = [NoRequest EXCEPT !.pc = "list", !.op = op, !.queue = q, !.index = n, !.seen = e]
  OBVIOUS
<1>6. s \in Entry /\ s.pc = "list" /\ s.op = op /\ s.queue = q /\ s.index = n /\ s.seen = e
  BY <1>3, <1>4, <1>5, NoRequestIs DEF Entry, Pcs, Ops, Names, Tags
<1>7. Shape(s)
  BY <1>6 DEF Shape, Removing
<1>8. Moved(a, s)
  BY <1>1, <1>2, <1>5, <1>6, <1>7, MovedIs
<1>9. Begins(a) /\ Stays /\ UNCHANGED crashes
  BY DEF See, Begins, At, Stays
<1>. QED
  BY <1>2, <1>6, <1>8, <1>9

(* The admin names a job.                                                  *)
LEMMA NameIs ==
  ASSUME Typed, NEW a \in Admins, NEW j \in Jobs, Name(a, j)
  PROVE  /\ Begins(a) /\ Stays /\ UNCHANGED crashes
         /\ \E s : Moved(a, s) /\ s.pc = "look"
<1>1. PICK s : s = [NoRequest EXCEPT !.pc = "look", !.op = "retry_job", !.seen = j, !.left = QueueDefs]
  OBVIOUS
<1>2. s \in Entry /\ s.pc = "look" /\ s.op = "retry_job" /\ s.seen = j
  <2>1. QueueDefs \in Seq(Queues) /\ j \in Names /\ j \in Jobs
    BY Constants DEF Names, Entries
  <2>2. "look" \in Pcs /\ "retry_job" \in Ops
    BY DEF Pcs, Ops
  <2>. QED
    BY <1>1, <2>1, <2>2, NoRequestIs DEF Entry
<1>3. Shape(s)
  BY <1>2 DEF Shape, Removing
<1>4. Moved(a, s)
  BY <1>1, <1>2, <1>3, MovedIs DEF Name, Move
<1>5. Begins(a) /\ Stays /\ UNCHANGED crashes
  BY DEF Name, Begins, At, Stays
<1>. QED
  BY <1>2, <1>4, <1>5

(* The next queue's letters are searched for the named job.                *)
LEMMA LookIs ==
  ASSUME Typed, NEW a \in Admins, Look(a)
  PROVE  /\ request[a].pc = "look" /\ Stays /\ Count
         /\ \/ Moved(a, NoRequest)
            \/ \E s : Moved(a, s) /\ s.pc = "look"
            \/ \E s : /\ Moved(a, s) /\ s.pc = "list" /\ s.index \in DOMAIN Listed(s.queue)
                      /\ dlq[Listed(s.queue)[s.index]].job = s.seen
<1>1. request[a].pc = "look" /\ Stays /\ Count
  BY DEF Look, At, Stays, Count
<1>2. PICK r : r = request[a]
  OBVIOUS
<1>3. r \in Entry /\ Shape(r)
  BY <1>2 DEF Typed
<1>4. r.op = "retry_job" /\ r.seen \in Jobs
  BY <1>1, <1>2, <1>3 DEF Shape
<1> DEFINE q == Head(r.left)
           found == {n \in DOMAIN Listed(q) : dlq[Listed(q)[n]].job = r.seen}
<1>5. CASE r.left = <<>>
  BY <1>1, <1>2, <1>5, FinishIs DEF Look
<1>6. ASSUME r.left # <<>>
      PROVE  /\ q \in Queues /\ Tail(r.left) \in Seq(Queues)
             /\ r.left \in Seq(Queues)
  <2>1. r.left \in Seq(Queues)
    BY <1>3 DEF Entry
  <2>. QED
    BY <1>6, <2>1, TailIs
<1>7. CASE r.left # <<>> /\ found = {}
  <2>1. PICK s : s = [r EXCEPT !.left = Tail(r.left)]
    OBVIOUS
  <2>2. s \in Entry /\ s.pc = "look" /\ s.op = "retry_job" /\ s.seen = r.seen
    BY <1>1, <1>2, <1>3, <1>4, <1>6, <1>7, <2>1 DEF Entry
  <2>3. Shape(s)
    BY <1>4, <2>2 DEF Shape, Removing
  <2>4. request' = [request EXCEPT ![a] = s]
    BY <1>2, <1>7, <2>1 DEF Look, Move
  <2>. QED
    BY <1>1, <2>2, <2>3, <2>4, MovedIs
<1>8. CASE r.left # <<>> /\ found # {}
  <2>1. PICK n : n = CHOOSE x \in found : \A m \in found : x <= m
    OBVIOUS
  <2>2. n \in found
    <3>1. DOMAIN Listed(q) \in SUBSET Nat
      BY LettersAre, ListedIs
    <3>2. found \in SUBSET Nat /\ found # {}
      BY <1>8, <3>1
    <3>3. \E x \in found : \A m \in found : x <= m
      BY ONLY <3>2, Least
    <3>. QED
      BY ONLY <2>1, <3>3
  <2>3. n \in DOMAIN Listed(q) /\ dlq[Listed(q)[n]].job = r.seen /\ n \in Nat
    BY <2>2, LettersAre, ListedIs
  <2>4. PICK s : s = [r EXCEPT !.pc = "list", !.queue = q, !.left = <<>>, !.index = n]
    OBVIOUS
  <2>5. /\ s \in Entry /\ s.pc = "list" /\ s.op = "retry_job" /\ s.seen = r.seen /\ s.queue = q
        /\ s.index = n
    <3>1. <<>> \in Seq(Queues) /\ q \in Queues /\ q \in Tags /\ "list" \in Pcs
      BY <1>6, <1>8 DEF Tags, Pcs
    <3>. QED
      BY <1>3, <1>4, <2>3, <2>4, <3>1 DEF Entry
  <2>6. Shape(s)
    BY <1>4, <1>6, <1>8, <2>5 DEF Shape, Removing
  <2>7. request' = [request EXCEPT ![a] = s]
    BY <1>2, <1>8, <2>1, <2>4 DEF Look, Move
  <2>8. Moved(a, s)
    BY <2>5, <2>6, <2>7, MovedIs
  <2>. QED
    BY <1>1, <2>3, <2>5, <2>8
<1>. QED
  BY <1>5, <1>7, <1>8

(* The index is looked up again before the letter is read.                 *)
LEMMA ListIs ==
  ASSUME Typed, NEW a \in Admins, List(a)
  PROVE  /\ request[a].pc = "list" /\ Stays /\ Count
         /\ \/ Moved(a, NoRequest) /\ request[a].index \notin DOMAIN Listed(request[a].queue)
            \/ \E s : /\ Moved(a, s) /\ s.pc = "read" /\ Same(s, request[a])
                      /\ request[a].index \in DOMAIN Listed(request[a].queue)
                      /\ s.index = Listed(request[a].queue)[request[a].index]
                      /\ s.index \in DOMAIN dlq /\ Matches(dlq[s.index], s.queue)
<1>1. request[a].pc = "list" /\ Stays /\ Count
  BY DEF List, At, Stays, Count
<1>2. PICK r : r = request[a]
  OBVIOUS
<1>3. r \in Entry /\ Shape(r)
  BY <1>2 DEF Typed
<1>4. CASE r.index \notin DOMAIN Listed(r.queue)
  BY <1>1, <1>2, <1>4, FinishIs DEF List
<1>5. CASE r.index \in DOMAIN Listed(r.queue)
  <2>1. PICK i : i = Listed(r.queue)[r.index]
    OBVIOUS
  <2>2. i \in DOMAIN dlq /\ Matches(dlq[i], r.queue) /\ i \in Nat \ {0}
    BY <1>5, <2>1, LettersAre, ListedIs
  <2>3. PICK s : s = [r EXCEPT !.pc = "read", !.index = i]
    OBVIOUS
  <2>4. s \in Entry /\ s.pc = "read" /\ Same(s, r) /\ s.index = i
    <3>1. "read" \in Pcs
      BY DEF Pcs
    <3>. QED
      BY <1>3, <2>2, <2>3, <3>1 DEF Entry, Same
  <2>5. Shape(s)
    BY <1>1, <1>2, <1>3, <2>2, <2>4 DEF Shape, Removing, Same
  <2>6. request' = [request EXCEPT ![a] = s]
    BY <1>2, <1>5, <2>1, <2>3 DEF List, Move, Raw
  <2>7. Moved(a, s)
    BY <2>4, <2>5, <2>6, MovedIs
  <2>8. s.queue = r.queue
    BY <2>4 DEF Same
  <2>. QED
    BY <1>1, <1>2, <1>5, <2>1, <2>2, <2>4, <2>7, <2>8
<1>. QED
  BY <1>4, <1>5

(* The letter is read and its payload kept.                                *)
LEMMA ReadIs ==
  ASSUME Typed, NEW a \in Admins, Read(a)
  PROVE  /\ request[a].pc = "read" /\ Stays /\ Count
         /\ \/ Moved(a, NoRequest)
            \/ \E s : /\ Moved(a, s) /\ s.pc = "mark" /\ s.op = request[a].op /\ s.seen = request[a].seen
                      /\ s.queue = request[a].queue /\ s.index = request[a].index
                      /\ s.index \in DOMAIN dlq /\ s.payload = dlq[s.index]
<1>1. request[a].pc = "read" /\ Stays /\ Count
  BY DEF Read, At, Stays, Count
<1>2. PICK r : r = request[a]
  OBVIOUS
<1>3. r \in Entry /\ Shape(r)
  BY <1>2 DEF Typed
<1>4. CASE r.index > Len(dlq)
  BY <1>1, <1>2, <1>4, FinishIs DEF Read
<1>5. CASE ~ (r.index > Len(dlq))
  <2>1. r.index \in DOMAIN dlq
    BY <1>1, <1>2, <1>3, <1>5, LettersAre DEF Shape
  <2>2. PICK l : l = dlq[r.index]
    OBVIOUS
  <2>3. l \in Letters /\ l \in [job : Names, tag : Tags]
    BY <2>1, <2>2, LettersAre DEF Letters, Names
  <2>4. PICK s : s = [r EXCEPT !.pc = "mark", !.payload = l]
    OBVIOUS
  <2>5. /\ s \in Entry /\ s.pc = "mark" /\ s.op = r.op /\ s.seen = r.seen
        /\ s.queue = r.queue /\ s.index = r.index /\ s.payload = l
    <3>1. "mark" \in Pcs
      BY DEF Pcs
    <3>. QED
      BY <1>3, <2>3, <2>4, <3>1 DEF Entry
  <2>6. Shape(s)
    BY <1>1, <1>2, <1>3, <2>3, <2>5 DEF Shape, Removing
  <2>7. request' = [request EXCEPT ![a] = s]
    BY <1>2, <1>5, <2>2, <2>4 DEF Read, Move
  <2>8. Moved(a, s)
    BY <2>5, <2>6, <2>7, MovedIs
  <2>. QED
    BY <1>1, <1>2, <2>1, <2>2, <2>5, <2>8
<1>. QED
  BY <1>4, <1>5

(* LSET puts the placeholder where the index points, or fails.             *)
LEMMA MarkIs ==
  ASSUME Typed, NEW a \in Admins, Mark(a), NEW r, r = request[a]
  PROVE  /\ r.pc = "mark" /\ Count /\ UNCHANGED <<queues, hand, jobStatus>>
         /\ \/ Moved(a, NoRequest) /\ UNCHANGED <<dlq, over, silent>>
            \/ \E s : /\ Moved(a, s) /\ s.pc = "drop" /\ Same(s, r)
                      /\ r.index \in DOMAIN dlq /\ dlq' \in Seq(Letters) /\ DOMAIN dlq' = DOMAIN dlq
                      /\ dlq'[r.index] = Placeholder(a)
                      /\ \A i \in DOMAIN dlq : i # r.index => dlq'[i] = dlq[i]
                      /\ r.payload \in Letters
                      /\ over' = IF r.op = "remove" /\ r.payload.job \in Jobs
                                 THEN [over EXCEPT ![r.payload.job] = @ \cup {"removed"}] ELSE over
                      /\ silent' = silent \cup
                           {j \in {r.payload.job, dlq[r.index].job} :
                              j # r.payload.job \/ r.op # "retry_job" \/ r.payload.job # r.seen}
<1>1. r.pc = "mark" /\ Count /\ UNCHANGED <<queues, hand, jobStatus>>
  BY DEF Mark, At, Count
<1>2. r \in Entry /\ Shape(r)
  BY DEF Typed
<1>3. CASE r.index > Len(dlq)
  <2>1. Finish(a) /\ UNCHANGED <<dlq, over, silent>>
    BY <1>3 DEF Mark
  <2>. QED
    BY <1>1, <2>1, FinishIs
<1>4. CASE ~ (r.index > Len(dlq))
  <2>1. r.index \in DOMAIN dlq /\ r.payload \in Letters
    BY <1>1, <1>2, <1>4, LettersAre DEF Shape
  <2>2. dlq' = [dlq EXCEPT ![r.index] = Placeholder(a)]
    BY <1>4 DEF Mark
  <2>3. Placeholder(a) \in Letters
    BY DEF Placeholder, Letter, Letters, Entries, Tags
  <2>4. /\ dlq' \in Seq(Letters) /\ DOMAIN dlq' = DOMAIN dlq
        /\ dlq'[r.index] = Placeholder(a)
        /\ \A i \in DOMAIN dlq : i # r.index => dlq'[i] = dlq[i]
    BY <2>1, <2>2, <2>3, LettersAre
  <2>5. PICK s : s = [r EXCEPT !.pc = "drop"]
    OBVIOUS
  <2>6. s \in Entry /\ s.pc = "drop" /\ Same(s, r)
    <3>1. "drop" \in Pcs
      BY DEF Pcs
    <3>. QED
      BY <1>2, <2>5, <3>1 DEF Entry, Same
  <2>7. Shape(s)
    BY <1>1, <1>2, <2>6 DEF Shape, Removing, Same
  <2>8. Moved(a, s)
    BY <1>4, <2>5, <2>6, <2>7, MovedIs DEF Mark, Move
  <2>9. /\ over' = IF r.op = "remove" /\ r.payload.job \in Jobs
                   THEN [over EXCEPT ![r.payload.job] = @ \cup {"removed"}] ELSE over
        /\ silent' = silent \cup
             {j \in {r.payload.job, dlq[r.index].job} :
                j # r.payload.job \/ r.op # "retry_job" \/ r.payload.job # r.seen}
    BY <1>4 DEF Mark, Removal, Unsaid
  <2>. QED
    BY <1>1, <2>1, <2>4, <2>6, <2>8, <2>9
<1>. QED
  BY <1>3, <1>4

(* s is what t was before an element that is no job went out of it.        *)
Shrunk(s, t) ==
  \E k \in DOMAIN s :
    /\ s[k].job \notin Jobs /\ DOMAIN s = 1 .. Len(s) /\ DOMAIN t = 1 .. Len(s) - 1 /\ Len(s) \in Nat
    /\ \A i \in 1 .. Len(s) - 1 : t[i] = IF i < k THEN s[i] ELSE s[i + 1]

(* LREM takes the placeholder out.                                         *)
LEMMA DropIs ==
  ASSUME Typed, NEW a \in Admins, Drop(a), NEW r, r = request[a]
  PROVE  /\ r.pc = "drop" /\ Count /\ UNCHANGED <<queues, hand, jobStatus, over, silent>>
         /\ dlq' \in Seq(Letters) /\ (dlq' = dlq \/ Shrunk(dlq, dlq'))
         /\ \/ Moved(a, NoRequest) /\ r.op = "remove"
            \/ \E s : Moved(a, s) /\ s.pc = "push" /\ Same(s, r) /\ r.op # "remove"
<1>1. r.pc = "drop" /\ Count /\ UNCHANGED <<queues, hand, jobStatus, over, silent>>
  BY DEF Drop, At, Count
<1>2. r \in Entry /\ Shape(r)
  BY DEF Typed
<1>3. dlq' \in Seq(Letters) /\ (dlq' = dlq \/ Shrunk(dlq, dlq'))
  <2>1. PICK at : at = {i \in DOMAIN dlq : dlq[i] = Placeholder(a)}
    OBVIOUS
  <2>2. CASE at = {}
    BY <2>1, <2>2, LettersAre DEF Drop
  <2>3. CASE at # {}
    <3>1. PICK k : k = CHOOSE i \in at : \A n \in at : i <= n
      OBVIOUS
    <3>2. at \in SUBSET Nat
      BY <2>1, LettersAre
    <3>3. k \in at
      BY ONLY <2>3, <3>1, <3>2, Least
    <3>4. dlq' = RemoveAt(dlq, k)
      BY <2>1, <2>3, <3>1 DEF Drop
    <3>5. k \in DOMAIN dlq /\ dlq[k].job = a
      BY <2>1, <3>3 DEF Placeholder, Letter
    <3>6. dlq[k].job \notin Jobs
      BY <3>5, Constants
    <3>7. dlq \in Seq(Letters)
      BY LettersAre
    <3>8. /\ dlq' \in Seq(Letters) /\ Len(dlq) \in Nat
          /\ DOMAIN dlq = 1 .. Len(dlq) /\ DOMAIN dlq' = 1 .. Len(dlq) - 1
          /\ \A i \in 1 .. Len(dlq) - 1 : dlq'[i] = IF i < k THEN dlq[i] ELSE dlq[i + 1]
      BY <3>4, <3>5, <3>7, RemovedIs
    <3>. QED
      BY <3>5, <3>6, <3>8 DEF Shrunk
  <2>. QED
    BY <2>2, <2>3
<1>4. CASE r.op = "remove"
  <2>1. Finish(a)
    BY <1>4 DEF Drop, Removal, Finish
  <2>. QED
    BY <1>1, <1>3, <1>4, <2>1, FinishIs
<1>5. CASE r.op # "remove"
  <2>1. PICK s : s = [r EXCEPT !.pc = "push"]
    OBVIOUS
  <2>2. s \in Entry /\ s.pc = "push" /\ Same(s, r)
    <3>1. "push" \in Pcs
      BY DEF Pcs
    <3>. QED
      BY <1>2, <2>1, <3>1 DEF Entry, Same
  <2>3. Shape(s)
    BY <1>1, <1>2, <1>5, <2>2 DEF Shape, Removing, Same
  <2>4. Moved(a, s)
    BY <1>5, <2>1, <2>2, <2>3, MovedIs DEF Drop, Removal, Move
  <2>. QED
    BY <1>1, <1>3, <1>5, <2>2, <2>4
<1>. QED
  BY <1>4, <1>5

(* The payload goes to the queue its tag names.                            *)
LEMMA PushIs ==
  ASSUME Typed, NEW a \in Admins, Push(a), NEW r, r = request[a],
         NEW d, d = IF r.payload.tag = "none" THEN r.queue ELSE r.payload.tag
  PROVE  /\ r.pc = "push" /\ Count /\ UNCHANGED <<dlq, hand, jobStatus, over, silent>>
         /\ d \in Queues /\ r.payload \in Letters
         /\ queues' \in [Queues -> Seq(Entries)] /\ queues'[d] = Append(queues[d], r.payload.job)
         /\ \A p \in Queues : p # d => queues'[p] = queues[p]
         /\ \/ Moved(a, NoRequest) /\ r.op # "retry_job"
            \/ \E s : Moved(a, s) /\ s.pc = "note" /\ Same(s, r) /\ r.op = "retry_job"
<1>1. r.pc = "push" /\ Count /\ UNCHANGED <<dlq, hand, jobStatus, over, silent>>
  BY DEF Push, At, Count
<1>2. r \in Entry /\ Shape(r)
  BY DEF Typed
<1>3. r.payload \in Letters /\ r.queue \in Queues
  BY <1>1, <1>2 DEF Shape, Removing
<1>4. d \in Queues /\ r.payload.job \in Entries
  BY <1>3 DEF Letters, Tags
<1>5. queues' = [queues EXCEPT ![d] = Append(queues[d], r.payload.job)]
  BY DEF Push, Destination
<1>6. queues \in [Queues -> Seq(Entries)] /\ Append(queues[d], r.payload.job) \in Seq(Entries)
  <2>1. queues \in [Queues -> Seq(Entries)]
    BY DEF Typed
  <2>2. queues[d] \in Seq(Entries)
    BY <1>4, <2>1
  <2>. QED
    BY <1>4, <2>1, <2>2
<1>7. /\ queues' \in [Queues -> Seq(Entries)] /\ queues'[d] = Append(queues[d], r.payload.job)
      /\ \A p \in Queues : p # d => queues'[p] = queues[p]
  BY <1>4, <1>5, <1>6
<1>8. CASE r.op # "retry_job"
  <2>1. Finish(a)
    BY <1>8 DEF Push
  <2>. QED
    BY <1>1, <1>3, <1>4, <1>7, <1>8, <2>1, FinishIs
<1>9. CASE r.op = "retry_job"
  <2>1. PICK s : s = [r EXCEPT !.pc = "note"]
    OBVIOUS
  <2>2. s \in Entry /\ s.pc = "note" /\ Same(s, r)
    <3>1. "note" \in Pcs
      BY DEF Pcs
    <3>. QED
      BY <1>2, <2>1, <3>1 DEF Entry, Same
  <2>3. Shape(s)
    BY <1>1, <1>2, <1>9, <2>2 DEF Shape, Removing, Same
  <2>4. Moved(a, s)
    BY <1>9, <2>1, <2>2, <2>3, MovedIs DEF Push, Move
  <2>. QED
    BY <1>1, <1>3, <1>4, <1>7, <1>9, <2>2, <2>4
<1>. QED
  BY <1>8, <1>9

(* The status of a retried job is noted.                                   *)
LEMMA NoteIs ==
  ASSUME Typed, NEW a \in Admins, NoteRetry(a), NEW r, r = request[a]
  PROVE  /\ r.pc = "note" /\ Count /\ UNCHANGED <<dlq, queues, hand, over, silent>>
         /\ Moved(a, NoRequest) /\ r.op = "retry_job" /\ r.seen \in Jobs
         /\ jobStatus' = [jobStatus EXCEPT ![r.seen] = "retry"]
<1>1. r.pc = "note" /\ Count /\ UNCHANGED <<dlq, queues, hand, over, silent>>
  BY DEF NoteRetry, At, Count
<1>2. r.op = "retry_job" /\ r.seen \in Jobs
  BY <1>1 DEF Typed, Shape
<1>3. Moved(a, NoRequest)
  BY FinishIs DEF NoteRetry
<1>. QED
  BY <1>1, <1>2, <1>3 DEF NoteRetry

Popped(q) ==
  LET n == Len(queues[q])
  IN /\ queues' \in [Queues -> Seq(Entries)] /\ queues[q][1] \in Entries
     /\ n \in Nat \ {0} /\ DOMAIN queues[q] = 1 .. n /\ DOMAIN queues'[q] = 1 .. n - 1
     /\ \A i \in 1 .. n - 1 : queues'[q][i] = queues[q][i + 1]
     /\ \A p \in Queues : p # q => queues'[p] = queues[p]

(* A queue has lost its head.                                              *)
LEMMA PoppedIs ==
  ASSUME Typed, NEW q \in Queues, queues[q] # <<>>, queues' = [queues EXCEPT ![q] = Tail(@)]
  PROVE  Popped(q) /\ Head(queues[q]) = queues[q][1]
<1>1. queues \in [Queues -> Seq(Entries)]
  BY DEF Typed
<1>2. PICK s, t : s = queues[q] /\ t = Tail(s)
  OBVIOUS
<1>3. s \in Seq(Entries) /\ s # <<>>
  BY <1>1, <1>2
<1>4. /\ t \in Seq(Entries) /\ Len(s) \in Nat \ {0}
      /\ DOMAIN s = 1 .. Len(s) /\ DOMAIN t = 1 .. Len(s) - 1
      /\ Head(s) = s[1] /\ Head(s) \in Entries /\ \A i \in 1 .. Len(s) - 1 : t[i] = s[i + 1]
  BY <1>2, <1>3, TailIs
<1>5. queues' = [queues EXCEPT ![q] = t]
  BY <1>2
<1>6. /\ queues' \in [Queues -> Seq(Entries)] /\ queues'[q] = t
      /\ \A p \in Queues : p # q => queues'[p] = queues[p]
  BY <1>1, <1>4, <1>5
<1>. QED
  BY <1>2, <1>4, <1>6 DEF Popped

(* What a step of a coroutine does to it. *)
Taken(w, h) ==
  /\ h \in HandEntry /\ Firm(h)
  /\ hand' \in [Coroutines -> HandEntry] /\ hand'[w] = h
  /\ \A v \in Coroutines : v # w => hand'[v] = hand[v]
  /\ \A v \in Coroutines : Firm(hand'[v])
(* Empty, or with the job it had. *)
Kept(h, g) ==
  /\ h.pc = "idle" \/ (h.job = g.job /\ h.queue = g.queue)
  /\ \A j \in Jobs : Works(h, j) <=> Works(g, j)

(* A coroutine that gets a well formed entry has taken it.                 *)
LEMMA TakenIs ==
  ASSUME Typed, NEW w \in Coroutines, NEW h \in HandEntry, Firm(h), hand' = [hand EXCEPT ![w] = h]
  PROVE  Taken(w, h)
<1>1. hand \in [Coroutines -> HandEntry] /\ \A v \in Coroutines : Firm(hand[v])
  BY DEF Typed
<1>2. hand' \in [Coroutines -> HandEntry] /\ hand'[w] = h /\ \A v \in Coroutines : v # w => hand'[v] = hand[v]
  BY <1>1
<1>3. \A v \in Coroutines : Firm(hand'[v])
  BY <1>1, <1>2
<1>. QED
  BY <1>2, <1>3 DEF Taken

(* A coroutine with nothing in hand.                                       *)
LEMMA FreeIs ==
  Free \in HandEntry /\ Firm(Free) /\ Free.pc = "idle" /\ \A j : ~ Works(Free, j)
<1>1. Free \in HandEntry /\ Free.pc = "idle"
  BY DEF Free, HandEntry, HandPcs, Names, Tags
<1>. QED
  BY <1>1 DEF Firm, Works

(* A coroutine that goes on keeps what it has in hand.                     *)
LEMMA GoesIs ==
  ASSUME Typed, NEW w \in Coroutines, NEW pc \in HandPcs \ {"idle"}, Goes(w, pc), hand[w].pc # "idle",
         pc = "waiting" \/ hand[w].job \in Jobs
  PROVE  \E h : Taken(w, h) /\ h.pc = pc /\ h.job = hand[w].job /\ h.queue = hand[w].queue
<1>1. hand \in [Coroutines -> HandEntry] /\ Firm(hand[w])
  BY DEF Typed
<1>2. PICK h : h = [hand[w] EXCEPT !.pc = pc]
  OBVIOUS
<1>3. h \in HandEntry /\ h.pc = pc /\ h.job = hand[w].job /\ h.queue = hand[w].queue
  BY <1>1, <1>2 DEF HandEntry
<1>4. Firm(h)
  BY <1>1, <1>3 DEF Firm, HandPcs
<1>5. hand' = [hand EXCEPT ![w] = h]
  BY <1>1, <1>2 DEF Goes
<1>6. Taken(w, h)
  BY <1>3, <1>4, <1>5, TakenIs
<1>. QED
  BY <1>3, <1>6

(* A coroutine is made for the head of a queue.                            *)
LEMMA PopIs ==
  ASSUME Typed, NEW w \in Coroutines, NEW q \in Queues, Pop(w, q), NEW j, j = queues[q][1]
  PROVE  /\ Popped(q) /\ UNCHANGED <<dlq, request, jobStatus, over, silent>> /\ Count
         /\ hand[w].pc = "idle" /\ j \in Entries
         /\ \E h : Taken(w, h) /\ h.pc = "waiting" /\ h.job = j /\ h.queue = q
<1>1. Popped(q) /\ Head(queues[q]) = j
  BY PoppedIs DEF Pop
<1>2. j \in Entries
  BY <1>1 DEF Popped
<1>3. PICK h : h = [pc |-> "waiting", job |-> j, queue |-> q]
  OBVIOUS
<1>4. h \in HandEntry /\ Firm(h) /\ h.pc = "waiting" /\ h.job = j /\ h.queue = q
  BY <1>2, <1>3 DEF HandEntry, HandPcs, Names, Tags, Firm
<1>5. hand' = [hand EXCEPT ![w] = h]
  BY <1>1, <1>3 DEF Pop
<1>6. Taken(w, h)
  BY <1>4, <1>5, TakenIs
<1>. QED
  BY <1>1, <1>2, <1>4, <1>6 DEF Pop, Is, Count

(* The steps that note a status and push nothing. *)
NoteStep(w) == Begin(w) \/ Save(w) \/ NoteRequeued(w) \/ NoteBuried(w)
(* A status that is noted is no excuse for showing a job dead. *)
Noted(k) ==
  /\ jobStatus[k] # "none" => jobStatus'[k] # "none"
  /\ jobStatus'[k] = "dlq" =>
       \/ jobStatus[k] = "dlq" /\ (k \in silent => k \in silent')
       \/ k \in silent' \/ InDlq(k) \/ \E a \in Admins : Retrying(request[a], k)

(* A slot is free: what was popped runs, or is dropped if it is no job.    *)
LEMMA BeginIs ==
  ASSUME Typed, NEW w \in Coroutines, Begin(w)
  PROVE  /\ UNCHANGED <<dlq, queues, request, over>> /\ Count /\ hand[w].pc = "waiting"
         /\ jobStatus' \in [Jobs -> Statuses] /\ silent' \subseteq Entries /\ \A k \in Jobs : Noted(k)
         /\ hand[w].job \in Jobs => jobStatus'[hand[w].job] # "none"
         /\ \E h : /\ Taken(w, h) /\ Kept(h, hand[w])
                   /\ h.pc = "running" => jobStatus'[h.job] # "none"
<1>1. UNCHANGED <<dlq, queues, request, over>> /\ Count /\ hand[w].pc = "waiting"
  BY DEF Begin, Count, Is
<1>2. jobStatus \in [Jobs -> Statuses] /\ silent \subseteq Entries /\ hand[w].job \in Entries
  BY <1>1 DEF Typed, Firm
<1>3. CASE hand[w].job \in Jobs
  <2>1. PICK j : j = hand[w].job
    OBVIOUS
  <2>2. jobStatus' = [jobStatus EXCEPT ![j] = "running"] /\ silent' = silent \ {j} /\ Goes(w, "running")
    BY <1>3, <2>1 DEF Begin, Shown
  <2>3. "running" \in Statuses /\ "running" \in HandPcs
    BY DEF Statuses, HandPcs
  <2>4. jobStatus' \in [Jobs -> Statuses] /\ jobStatus'[j] = "running"
        /\ \A k \in Jobs : k # j => jobStatus'[k] = jobStatus[k]
    BY <1>2, <1>3, <2>1, <2>2, <2>3
  <2>6. PICK g : Taken(w, g) /\ g.pc = "running" /\ g.job = j /\ g.queue = hand[w].queue
    BY <1>1, <1>3, <2>1, <2>2, <2>3, GoesIs
  <2>7. Kept(g, hand[w])
    BY <1>1, <2>1, <2>6 DEF Kept, Works
  <2>8. \A k \in Jobs : Noted(k)
    BY <2>2, <2>4 DEF Noted
  <2>9. silent' \subseteq Entries
    BY <1>2, <2>2
  <2>. QED
    BY <1>1, <2>1, <2>4, <2>6, <2>7, <2>8, <2>9
<1>4. CASE hand[w].job \notin Jobs
  <2>1. UNCHANGED <<jobStatus, silent>> /\ hand' = [hand EXCEPT ![w] = Free]
    BY <1>4 DEF Begin, Frees
  <2>2. Taken(w, Free)
    BY <2>1, FreeIs, TakenIs
  <2>3. Kept(Free, hand[w])
    BY <1>4, FreeIs DEF Kept, Works
  <2>4. \A k \in Jobs : Noted(k)
    BY <2>1 DEF Noted
  <2>. QED
    BY <1>1, <1>2, <1>4, <2>1, <2>2, <2>3, <2>4, FreeIs
<1>. QED
  BY <1>3, <1>4

(* A step that notes a status takes no job anywhere.                       *)
LEMMA NotesIs ==
  ASSUME Typed, NEW w \in Coroutines, NoteStep(w)
  PROVE  /\ UNCHANGED <<dlq, queues, request, over>> /\ Count
         /\ jobStatus' \in [Jobs -> Statuses] /\ silent' \subseteq Entries /\ \A k \in Jobs : Noted(k)
         /\ hand[w].pc = "waiting" /\ hand[w].job \in Jobs => jobStatus'[hand[w].job] # "none"
         /\ \E h : /\ Taken(w, h) /\ Kept(h, hand[w])
                   /\ h.pc = "running" => jobStatus'[h.job] # "none"
<1>1. jobStatus \in [Jobs -> Statuses] /\ silent \subseteq Entries /\ Firm(hand[w])
      /\ hand \in [Coroutines -> HandEntry]
  BY DEF Typed
<1>2. PICK j : j = hand[w].job
  OBVIOUS
<1>3. CASE Begin(w)
  BY <1>3, BeginIs
<1>4. ASSUME NEW x \in Statuses \ {"none"}, j \in Jobs, Shown(j, x)
      PROVE  /\ jobStatus' \in [Jobs -> Statuses] /\ jobStatus'[j] = x
             /\ \A k \in Jobs : k # j => jobStatus'[k] = jobStatus[k]
  <2>1. jobStatus' = [jobStatus EXCEPT ![j] = x]
    BY <1>4 DEF Shown
  <2>. QED
    BY <1>1, <1>4, <2>1
<1>5. CASE Save(w)
  <2>1. /\ UNCHANGED <<dlq, queues, request, hand, over, silent>> /\ Count
        /\ hand[w].pc = "running" /\ Shown(j, "pending_review") /\ j \in Jobs
    BY <1>1, <1>2, <1>5 DEF Save, Count, Is, Firm
  <2>2. "pending_review" \in Statuses \ {"none"} /\ "pending_review" # "dlq"
    BY DEF Statuses
  <2>3. /\ jobStatus' \in [Jobs -> Statuses] /\ jobStatus'[j] = "pending_review"
        /\ \A k \in Jobs : k # j => jobStatus'[k] = jobStatus[k]
    BY <1>4, <2>1, <2>2
  <2>4. Taken(w, hand[w])
    <3>1. hand' = [hand EXCEPT ![w] = hand[w]] /\ hand[w] \in HandEntry
      BY <1>1, <2>1
    <3>. QED
      BY <1>1, <3>1, TakenIs
  <2>5. Kept(hand[w], hand[w])
    BY DEF Kept
  <2>6. \A k \in Jobs : Noted(k)
    BY <2>1, <2>3 DEF Noted
  <2>7. jobStatus'[hand[w].job] # "none"
    BY <1>2, <2>3
  <2>. QED
    BY <1>1, <2>1, <2>3, <2>4, <2>5, <2>6, <2>7
<1>6. CASE NoteRequeued(w)
  <2>1. /\ UNCHANGED <<dlq, queues, request, over, silent>> /\ Count
        /\ hand[w].pc = "retrying" /\ Shown(j, "retry") /\ j \in Jobs
        /\ hand' = [hand EXCEPT ![w] = Free]
    BY <1>1, <1>2, <1>6 DEF NoteRequeued, Count, Is, Firm, Frees
  <2>2. "retry" \in Statuses \ {"none"} /\ "retry" # "dlq"
    BY DEF Statuses
  <2>3. /\ jobStatus' \in [Jobs -> Statuses] /\ jobStatus'[j] = "retry"
        /\ \A k \in Jobs : k # j => jobStatus'[k] = jobStatus[k]
    BY <1>4, <2>1, <2>2
  <2>4. Taken(w, Free)
    BY <2>1, FreeIs, TakenIs
  <2>5. Kept(Free, hand[w])
    BY <2>1, FreeIs DEF Kept, Works
  <2>6. \A k \in Jobs : Noted(k)
    BY <2>1, <2>3 DEF Noted
  <2>. QED
    BY <1>1, <2>1, <2>3, <2>4, <2>5, <2>6, FreeIs
<1>7. CASE NoteBuried(w)
  <2>1. /\ UNCHANGED <<dlq, queues, request, over>> /\ Count
        /\ hand[w].pc = "burying" /\ Shown(j, "dlq") /\ j \in Jobs
        /\ hand' = [hand EXCEPT ![w] = Free]
        /\ silent' = silent \cup {i \in {j} : (\A n \in DOMAIN dlq : dlq[n].job # i)
                                              /\ \A a \in Admins : ~ Returns(a, i)}
    BY <1>1, <1>2, <1>7 DEF NoteBuried, Count, Is, Firm, Frees
  <2>2. "dlq" \in Statuses \ {"none"}
    BY DEF Statuses
  <2>3. /\ jobStatus' \in [Jobs -> Statuses] /\ jobStatus'[j] = "dlq"
        /\ \A k \in Jobs : k # j => jobStatus'[k] = jobStatus[k]
    BY <1>4, <2>1, <2>2
  <2>4. Taken(w, Free)
    BY <2>1, FreeIs, TakenIs
  <2>5. Kept(Free, hand[w])
    BY <2>1, FreeIs DEF Kept, Works
  <2>6. j \in silent' \/ InDlq(j) \/ \E a \in Admins : Retrying(request[a], j)
    BY <2>1 DEF InDlq, Returns, Acting, Retrying
  <2>7. \A k \in Jobs : Noted(k)
    BY <2>1, <2>3, <2>6 DEF Noted
  <2>8. silent' \subseteq Entries
    BY <1>1, <2>1 DEF Entries
  <2>. QED
    BY <1>1, <2>1, <2>3, <2>4, <2>5, <2>7, <2>8, FreeIs
<1>. QED
  BY <1>3, <1>5, <1>6, <1>7 DEF NoteStep

(* A coroutine is done with its job.                                       *)
LEMMA ConcludeIs ==
  ASSUME Typed, NEW w \in Coroutines, Conclude(w), NEW j, j = hand[w].job
  PROVE  /\ UNCHANGED <<dlq, queues, request, jobStatus, silent>> /\ Count
         /\ j \in Jobs /\ Works(hand[w], j) /\ hand[w].pc = "running" /\ Taken(w, Free)
         /\ over' = [over EXCEPT ![j] = @ \cup {"done"}]
<1>1. /\ UNCHANGED <<dlq, queues, request, jobStatus, silent>> /\ Count /\ hand[w].pc = "running"
      /\ hand' = [hand EXCEPT ![w] = Free] /\ over' = [over EXCEPT ![j] = @ \cup {"done"}]
  BY DEF Conclude, Count, Is, Frees
<1>2. j \in Jobs
  BY <1>1 DEF Typed, Firm
<1>3. Taken(w, Free)
  BY <1>1, FreeIs, TakenIs
<1>. QED
  BY <1>1, <1>2, <1>3 DEF Works

(* A coroutine pushes its job once more.                                   *)
LEMMA RequeueIs ==
  ASSUME Typed, NEW w \in Coroutines, Requeue(w), NEW j, j = hand[w].job, NEW d, d = hand[w].queue
  PROVE  /\ UNCHANGED <<dlq, request, jobStatus, over, silent>> /\ Count
         /\ j \in Jobs /\ d \in Queues /\ Works(hand[w], j) /\ hand[w].pc = "running"
         /\ queues' \in [Queues -> Seq(Entries)] /\ queues'[d] = Append(queues[d], j)
         /\ \A p \in Queues : p # d => queues'[p] = queues[p]
         /\ \E h : Taken(w, h) /\ h.pc = "retrying" /\ h.job = j /\ h.queue = d
<1>1. /\ UNCHANGED <<dlq, request, jobStatus, over, silent>> /\ Count /\ hand[w].pc = "running"
      /\ Goes(w, "retrying") /\ queues' = [queues EXCEPT ![d] = Append(queues[d], j)]
  BY DEF Requeue, Count, Is
<1>2. j \in Jobs /\ d \in Queues /\ Works(hand[w], j)
  BY <1>1 DEF Typed, Firm, Works
<1>3. /\ queues' \in [Queues -> Seq(Entries)] /\ queues'[d] = Append(queues[d], j)
      /\ \A p \in Queues : p # d => queues'[p] = queues[p]
  <2>1. queues \in [Queues -> Seq(Entries)] /\ j \in Entries
    BY <1>2 DEF Typed, Entries
  <2>2. Append(queues[d], j) \in Seq(Entries)
    BY <1>2, <2>1
  <2>. QED
    BY <1>1, <1>2, <2>1, <2>2
<1>4. \E h : Taken(w, h) /\ h.pc = "retrying" /\ h.job = j /\ h.queue = d
  <2>1. "retrying" \in HandPcs \ {"idle"}
    BY DEF HandPcs
  <2>. QED
    BY <1>1, <1>2, <2>1, GoesIs
<1>. QED
  BY <1>1, <1>2, <1>3, <1>4

(* A coroutine gives its job up.                                           *)
LEMMA BuryIs ==
  ASSUME Typed, NEW w \in Coroutines, Bury(w), NEW j, j = hand[w].job, NEW q, q = hand[w].queue
  PROVE  /\ UNCHANGED <<queues, request, jobStatus, over, silent>> /\ Count
         /\ j \in Jobs /\ q \in Queues /\ Works(hand[w], j) /\ hand[w].pc = "running"
         /\ Letter(j, q) \in Letters /\ dlq' = Append(dlq, Letter(j, q))
         /\ dlq' \in Seq(Letters) /\ Len(dlq) \in Nat
         /\ DOMAIN dlq = 1 .. Len(dlq) /\ DOMAIN dlq' = 1 .. Len(dlq) + 1
         /\ dlq'[Len(dlq) + 1] = Letter(j, q) /\ \A i \in 1 .. Len(dlq) : dlq'[i] = dlq[i]
         /\ \E h : Taken(w, h) /\ h.pc = "burying" /\ h.job = j /\ h.queue = q
<1>1. /\ UNCHANGED <<queues, request, jobStatus, over, silent>> /\ Count /\ hand[w].pc = "running"
      /\ Goes(w, "burying") /\ dlq' = Append(dlq, Letter(j, q))
  BY DEF Bury, Count, Is
<1>2. j \in Jobs /\ q \in Queues /\ Works(hand[w], j)
  BY <1>1 DEF Typed, Firm, Works
<1>3. Letter(j, q) \in Letters /\ dlq \in Seq(Letters)
  BY <1>2, LettersAre DEF Letter, Letters, Entries, Tags
<1>4. /\ dlq' \in Seq(Letters) /\ Len(dlq) \in Nat
      /\ DOMAIN dlq = 1 .. Len(dlq) /\ DOMAIN dlq' = 1 .. Len(dlq) + 1
      /\ dlq'[Len(dlq) + 1] = Letter(j, q) /\ \A i \in 1 .. Len(dlq) : dlq'[i] = dlq[i]
  BY <1>1, <1>3, AppendIs
<1>5. \E h : Taken(w, h) /\ h.pc = "burying" /\ h.job = j /\ h.queue = q
  <2>1. "burying" \in HandPcs \ {"idle"}
    BY DEF HandPcs
  <2>. QED
    BY <1>1, <1>2, <2>1, GoesIs
<1>. QED
  BY <1>1, <1>2, <1>3, <1>4, <1>5

(* Every request is gone, and what it left in the list is stale.           *)
LEMMA CrashIs ==
  ASSUME Typed, Crash
  PROVE  /\ UNCHANGED <<queues, jobStatus, asked, crossed>> /\ crashes' \in 0 .. MaxCrashes
         /\ request' \in [Admins -> Entry] /\ hand' \in [Coroutines -> HandEntry]
         /\ \A w \in Coroutines : hand'[w] = Free
         /\ \A a \in Admins : request'[a] = NoRequest
         /\ dlq' \in Seq(Letters) /\ DOMAIN dlq' = DOMAIN dlq
         /\ \A i \in DOMAIN dlq :
              dlq'[i] = IF dlq[i].job \in Admins THEN Letter("stale", "none") ELSE dlq[i]
         /\ \A j \in Jobs :
              over'[j] = IF Held(j) \/ Worked(j) THEN over[j] \cup {"lost"} ELSE over[j]
         /\ over' \in [Jobs -> SUBSET {"done", "removed", "lost"}]
         /\ \A x \in silent : x \in silent'
         /\ \A a \in Admins :
              Holds(request[a], request[a].payload.job) \/ request[a].pc = "note"
                => request[a].payload.job \in silent'
         /\ silent' \subseteq Entries
<1>1. UNCHANGED <<queues, jobStatus, asked, crossed>> /\ crashes' \in 0 .. MaxCrashes
  BY Constants DEF Crash, Typed
<1>2. /\ request' \in [Admins -> Entry] /\ \A a \in Admins : request'[a] = NoRequest
      /\ hand' \in [Coroutines -> HandEntry] /\ \A w \in Coroutines : hand'[w] = Free
  BY NoRequestIs, FreeIs DEF Crash
<1>3. Letter("stale", "none") \in Letters
  BY DEF Letter, Letters, Entries, Tags
<1>4. \A i \in DOMAIN dlq :
        (IF dlq[i].job \in Admins THEN Letter("stale", "none") ELSE dlq[i]) \in Letters
  BY <1>3, LettersAre
<1>5. dlq' = [i \in 1 .. Len(dlq) |-> IF dlq[i].job \in Admins THEN Letter("stale", "none") ELSE dlq[i]]
  BY LettersAre DEF Crash
<1>6. /\ dlq' \in Seq(Letters) /\ DOMAIN dlq' = DOMAIN dlq
      /\ \A i \in DOMAIN dlq :
           dlq'[i] = IF dlq[i].job \in Admins THEN Letter("stale", "none") ELSE dlq[i]
  BY <1>4, <1>5, LettersAre
<1>7. \A a \in Admins : \A j : InHand(a) /\ request[a].payload.job = j <=> Holds(request[a], j)
  BY DEF InHand, Removal, Holds
<1>8. over' = [j \in Jobs |-> IF Held(j) \/ Worked(j) THEN over[j] \cup {"lost"} ELSE over[j]]
  <2>1. \A j : Held(j) <=> \E a \in Admins : InHand(a) /\ request[a].payload.job = j
    BY <1>7 DEF Held
  <2>2. \A j : Worked(j) <=> \E w \in Coroutines : AtWork(w) /\ hand[w].job = j
    BY DEF Worked, Works, AtWork
  <2>. QED
    BY <2>1, <2>2 DEF Crash
<1>9. \A j \in Jobs : over[j] \in SUBSET {"done", "removed", "lost"}
  BY DEF Typed
<1>10. silent' = silent \cup {request[a].payload.job : a \in {b \in Admins : InHand(b) \/ request[b].pc = "note"}}
  BY DEF Crash, At
<1>11. \A a \in Admins : Holds(request[a], request[a].payload.job) <=> InHand(a)
  BY DEF InHand, Removal, Holds
<1>12. \A a \in Admins : InHand(a) \/ request[a].pc = "note" => request[a].payload.job \in Entries
  <2> SUFFICES ASSUME NEW a \in Admins, InHand(a) \/ request[a].pc = "note"
               PROVE  request[a].payload.job \in Entries
    OBVIOUS
  <2>1. request[a].payload \in Letters
    BY DEF Typed, Shape, InHand
  <2>. QED
    BY <2>1 DEF Letters
<1>13. silent' \subseteq Entries
  BY <1>10, <1>12 DEF Typed
<1>14. \A a \in Admins : Holds(request[a], request[a].payload.job) \/ request[a].pc = "note"
                           => request[a].payload.job \in silent'
  BY <1>10, <1>11
<1>15. /\ \A j \in Jobs : over'[j] = IF Held(j) \/ Worked(j) THEN over[j] \cup {"lost"} ELSE over[j]
       /\ over' \in [Jobs -> SUBSET {"done", "removed", "lost"}]
  BY <1>8, <1>9
<1>16. \A x \in silent : x \in silent'
  BY <1>10
<1>. QED
  BY <1>1, <1>2, <1>6, <1>13, <1>14, <1>15, <1>16

(* A page of all jobs begins with the records.                             *)
LEMMA ListJobsIs ==
  ASSUME Typed, NEW a \in Admins, ListJobs(a)
  PROVE  /\ Begins(a) /\ Stays /\ UNCHANGED crashes
         /\ \E s : /\ Moved(a, s) /\ s.pc = "queues" /\ s.left = QueueDefs /\ s.rows = Records(Jobs)
                   /\ s.op = "jobs"
<1>1. PICK s : s = [NoRequest EXCEPT !.pc = "queues", !.op = "jobs", !.left = QueueDefs,
                                     !.rows = Records(Jobs)]
  OBVIOUS
<1>2. Records(Jobs) \in Seq(RowType) /\ QueueDefs \in Seq(Queues) /\ QueueDefs # <<>>
  <2>1. jobStatus \in [Jobs -> Statuses]
    BY DEF Typed
  <2>. QED
    BY <2>1, RecordsAre, Constants
<1>3. /\ s \in Entry /\ s.pc = "queues" /\ s.left = QueueDefs /\ s.rows = Records(Jobs)
      /\ s.op = "jobs"
  <2>1. "queues" \in Pcs /\ "jobs" \in Ops
    BY DEF Pcs, Ops
  <2>. QED
    BY <1>1, <1>2, <2>1, NoRequestIs DEF Entry
<1>4. Shape(s)
  BY <1>2, <1>3 DEF Shape, Removing
<1>5. Moved(a, s)
  BY <1>1, <1>3, <1>4, MovedIs DEF ListJobs, Move
<1>6. Begins(a) /\ Stays /\ UNCHANGED crashes
  BY DEF ListJobs, Begins, At, Stays
<1>. QED
  BY <1>3, <1>5, <1>6

(* A single job is its record, or looked for as a page is.                 *)
LEMMA FindJobIs ==
  ASSUME Typed, NEW a \in Admins, NEW j \in Jobs, FindJob(a, j)
  PROVE  /\ Begins(a) /\ Stays /\ UNCHANGED crashes
         /\ \E s : /\ Moved(a, s) /\ s.op = "job" /\ s.seen = j
                   /\ \/ s.pc = "answer" /\ jobStatus[j] # "none" /\ s.rows = Records({j})
                      \/ s.pc = "queues" /\ s.left = QueueDefs /\ s.rows = Records(Jobs)
<1>1. jobStatus \in [Jobs -> Statuses] /\ {j} \in SUBSET Jobs
  BY DEF Typed
<1>2. /\ Records(Jobs) \in Seq(RowType) /\ Records({j}) \in Seq(RowType)
      /\ QueueDefs \in Seq(Queues) /\ QueueDefs # <<>>
  BY <1>1, RecordsAre, Constants
<1>3. "queues" \in Pcs /\ "answer" \in Pcs /\ "job" \in Ops /\ j \in Names
  BY DEF Pcs, Ops, Names, Entries
<1>4. Begins(a) /\ Stays /\ UNCHANGED crashes
  BY DEF FindJob, Begins, At, Stays
<1>5. CASE jobStatus[j] # "none"
  <2>1. PICK s : s = [NoRequest EXCEPT !.pc = "answer", !.op = "job", !.seen = j, !.rows = Records({j})]
    OBVIOUS
  <2>2. s \in Entry /\ s.pc = "answer" /\ s.op = "job" /\ s.seen = j /\ s.rows = Records({j})
    BY <1>2, <1>3, <2>1, NoRequestIs DEF Entry
  <2>3. Shape(s)
    BY <2>2 DEF Shape, Removing
  <2>4. Moved(a, s)
    BY <1>5, <2>1, <2>2, <2>3, MovedIs DEF FindJob, Move
  <2>. QED
    BY <1>4, <1>5, <2>2, <2>4
<1>6. CASE ~ (jobStatus[j] # "none")
  <2>1. PICK s : s = [NoRequest EXCEPT !.pc = "queues", !.op = "job", !.seen = j, !.left = QueueDefs,
                                       !.rows = Records(Jobs)]
    OBVIOUS
  <2>2. /\ s \in Entry /\ s.pc = "queues" /\ s.op = "job" /\ s.seen = j /\ s.left = QueueDefs
        /\ s.rows = Records(Jobs)
    BY <1>2, <1>3, <2>1, NoRequestIs DEF Entry
  <2>3. Shape(s)
    BY <1>2, <2>2 DEF Shape, Removing
  <2>4. Moved(a, s)
    BY <1>6, <2>1, <2>2, <2>3, MovedIs DEF FindJob, Move
  <2>. QED
    BY <1>4, <2>2, <2>4
<1>. QED
  BY <1>5, <1>6

(* The request with the rows of one more reading. *)
ReadOn(a, r, new, next, s) ==
  /\ Moved(a, s) /\ s.op = r.op /\ s.seen = r.seen
  /\ s.rows = Merged(r.rows, new) /\ s.rows \in Seq(RowType)
  /\ \/ /\ ToSet(Tail(r.left)) = {} /\ s.pc = next
        /\ next = "letters" => s.left = QueueDefs
     \/ s.pc = r.pc /\ s.left = Tail(r.left)

(* One reading of a page adds its rows and goes on to the next.            *)
LEMMA ReadsIs ==
  ASSUME Typed, NEW a \in Admins, NEW r, r = request[a], r.pc \in {"queues", "letters"},
         NEW new \in Seq(RowType), NEW next \in {"letters", "answer"}, Reads(a, new, next)
  PROVE  /\ r.rows \in Seq(RowType) /\ r.left \in Seq(Queues) /\ Head(r.left) \in Queues
         /\ \A x : x \in ToSet(r.left) <=> x = Head(r.left) \/ x \in ToSet(Tail(r.left))
         /\ \E s : ReadOn(a, r, new, next, s)
<1>1. r \in Entry /\ Shape(r)
  BY DEF Typed
<1>2. r.left \in Seq(Queues) /\ r.left # <<>> /\ r.rows \in Seq(RowType) /\ r.op \in {"jobs", "job"}
  BY <1>1 DEF Entry, Shape
<1>3. PICK t, h : t = Tail(r.left) /\ h = Head(r.left)
  OBVIOUS
<1>4. /\ t \in Seq(Queues) /\ h \in Queues /\ Len(r.left) \in Nat \ {0} /\ h = r.left[1]
      /\ DOMAIN r.left = 1 .. Len(r.left) /\ DOMAIN t = 1 .. Len(r.left) - 1
      /\ \A i \in 1 .. Len(r.left) - 1 : t[i] = r.left[i + 1]
  BY <1>2, <1>3, TailIs
<1>5. \A x : x \in ToSet(r.left) <=> x = h \/ x \in ToSet(t)
  <2>1. PICK l, n : l = r.left /\ n = Len(l)
    OBVIOUS
  <2>2. /\ n \in Nat \ {0} /\ h = l[1] /\ DOMAIN l = 1 .. n /\ DOMAIN t = 1 .. n - 1
        /\ \A i \in 1 .. n - 1 : t[i] = l[i + 1]
    BY <1>4, <2>1
  <2>3. ToSet(l) = {l[i] : i \in 1 .. n} /\ ToSet(t) = {t[i] : i \in 1 .. n - 1}
    BY ONLY <2>2 DEF ToSet
  <2>4. ASSUME NEW i \in 1 .. n, i # 1 PROVE l[i] \in ToSet(t)
    <3>1. i - 1 \in 1 .. n - 1 /\ (i - 1) + 1 = i
      BY <2>2, <2>4
    <3>2. t[i - 1] = l[i]
      BY <2>2, <3>1
    <3>. QED
      BY <2>3, <3>1, <3>2
  <2>5. ASSUME NEW i \in 1 .. n - 1 PROVE t[i] \in ToSet(l)
    <3>1. i + 1 \in 1 .. n /\ t[i] = l[i + 1]
      BY <2>2
    <3>. QED
      BY <2>3, <3>1
  <2>6. h \in ToSet(l)
    BY <2>2, <2>3
  <2>7. \A i \in 1 .. n : l[i] = h \/ l[i] \in ToSet(t)
    BY ONLY <2>2, <2>4
  <2>8. \A x : x \in ToSet(l) => x = h \/ x \in ToSet(t)
    BY ONLY <2>3, <2>7
  <2>9. \A x : x \in ToSet(t) => x \in ToSet(l)
    BY ONLY <2>3, <2>5
  <2>. QED
    BY ONLY <2>1, <2>6, <2>8, <2>9
<1>6. PICK m : m = Merged(r.rows, new)
  OBVIOUS
<1>7. m \in Seq(RowType)
  BY <1>2, <1>6, MergedIs
<1>8. PICK p : p = IF t = <<>> THEN next ELSE r.pc
  OBVIOUS
<1>9. PICK l : l = IF t = <<>> /\ next = "letters" THEN QueueDefs ELSE t
  OBVIOUS
<1>10. PICK s : s = [r EXCEPT !.rows = m, !.pc = p, !.left = l]
  OBVIOUS
<1>11. s \in Entry /\ s.op = r.op /\ s.seen = r.seen /\ s.rows = m /\ s.pc = p /\ s.left = l
  <2>1. p \in Pcs /\ l \in Seq(Queues)
    BY <1>4, <1>8, <1>9, Constants DEF Pcs
  <2>. QED
    BY <1>1, <1>7, <1>10, <2>1 DEF Entry
<1>12. p \in {"queues", "letters", "answer"}
  BY <1>8
<1>13. p \in {"queues", "letters"} => l # <<>>
  BY <1>8, <1>9, Constants
<1>14. Shape(s)
  BY <1>1, <1>2, <1>11, <1>12, <1>13 DEF Shape, Removing
<1>15. request' = [request EXCEPT ![a] = s]
  BY <1>3, <1>6, <1>8, <1>9, <1>10 DEF Reads, Move
<1>16. Moved(a, s)
  BY <1>11, <1>14, <1>15, MovedIs
<1>17. t = <<>> => ToSet(t) = {}
  BY DEF ToSet
<1>18. ReadOn(a, r, new, next, s)
  BY <1>3, <1>6, <1>7, <1>8, <1>9, <1>11, <1>16, <1>17 DEF ReadOn
<1>. QED
  BY <1>2, <1>3, <1>4, <1>5, <1>18

(* A page reads a queue.                                                   *)
LEMMA ReadQueueIs ==
  ASSUME Typed, NEW a \in Admins, ReadQueue(a), NEW r, r = request[a], NEW q, q = Head(r.left)
  PROVE  /\ r.pc = "queues" /\ Stays /\ Count /\ q \in Queues
         /\ Queued(q) \in Seq(RowType) /\ Reads(a, Queued(q), "letters")
         /\ \A j : InQueue(j, q) => \E i \in DOMAIN Queued(q) : Queued(q)[i].job = j
<1>1. r.pc = "queues" /\ Stays /\ Count /\ Reads(a, Queued(q), "letters")
  BY DEF ReadQueue, At, Stays, Count
<1>2. r \in Entry /\ Shape(r)
  BY DEF Typed
<1>3. q \in Queues
  <2>1. r.left \in Seq(Queues) /\ r.left # <<>>
    BY <1>1, <1>2 DEF Entry, Shape
  <2>. QED
    BY <2>1
<1>4. PICK l : l = queues[q]
  OBVIOUS
<1>5. l \in Seq(Entries) /\ DOMAIN l = 1 .. Len(l) /\ Len(l) \in Nat
  BY <1>3, <1>4 DEF Typed
<1>6. Queued(q) = [i \in 1 .. Len(l) |-> Row(l[i])]
  BY <1>4, <1>5 DEF Queued
<1>7. \A i \in 1 .. Len(l) : Row(l[i]) \in RowType /\ Row(l[i]).job = l[i]
  BY <1>5 DEF Row, RowType
<1>8. Queued(q) \in Seq(RowType) /\ DOMAIN Queued(q) = 1 .. Len(l)
  BY <1>5, <1>6, <1>7
<1>9. \A i \in 1 .. Len(l) : Queued(q)[i].job = l[i]
  BY <1>6, <1>7
<1>. QED
  BY <1>1, <1>3, <1>4, <1>5, <1>8, <1>9 DEF InQueue

(* A page reads the dead letters of a queue.                               *)
LEMMA ReadLettersIs ==
  ASSUME Typed, NEW a \in Admins, ReadLetters(a), NEW r, r = request[a], NEW q, q = Head(r.left)
  PROVE  /\ r.pc = "letters" /\ Stays /\ Count /\ q \in Queues
         /\ Dead(q) \in Seq(RowType) /\ Reads(a, Dead(q), "answer")
         /\ \A i \in DOMAIN dlq : Matches(dlq[i], q) =>
              \E n \in DOMAIN Dead(q) : Dead(q)[n].job = dlq[i].job
<1>1. r.pc = "letters" /\ Stays /\ Count /\ Reads(a, Dead(q), "answer")
  BY DEF ReadLetters, At, Stays, Count
<1>2. r \in Entry /\ Shape(r)
  BY DEF Typed
<1>3. q \in Queues
  <2>1. r.left \in Seq(Queues) /\ r.left # <<>>
    BY <1>1, <1>2 DEF Entry, Shape
  <2>. QED
    BY <2>1
<1>4. PICK o : o = Listed(q)
  OBVIOUS
<1>5. /\ \A n \in DOMAIN o : o[n] \in DOMAIN dlq
      /\ \A i \in DOMAIN dlq : Matches(dlq[i], q) => \E n \in DOMAIN o : o[n] = i
  BY <1>4, LettersAre, ListedIs
<1>6. PICK N \in Nat : DOMAIN o = 1 .. N
  <2>1. PICK K : K = {i \in DOMAIN dlq : Matches(dlq[i], q)}
    OBVIOUS
  <2>2. K \in SUBSET (1 .. Len(dlq)) /\ IsFiniteSet(1 .. Len(dlq))
    BY <2>1, LettersAre, FS_Interval
  <2>3. Cardinality(K) \in Nat
    <3>1. IsFiniteSet(K)
      BY ONLY <2>2, FS_Subset
    <3>. QED
      BY ONLY <3>1, FS_CardinalityType
  <2>4. DOMAIN o = 1 .. Cardinality(K)
    BY <1>4, <2>1 DEF Listed, InOrder
  <2>. QED
    BY <2>3, <2>4
<1>7. Dead(q) = [n \in 1 .. N |-> Row(dlq[o[n]].job)]
  BY <1>4, <1>6 DEF Dead
<1>8. \A n \in 1 .. N : Row(dlq[o[n]].job) \in RowType /\ Row(dlq[o[n]].job).job = dlq[o[n]].job
  <2> SUFFICES ASSUME NEW n \in 1 .. N
               PROVE  Row(dlq[o[n]].job) \in RowType /\ Row(dlq[o[n]].job).job = dlq[o[n]].job
    OBVIOUS
  <2>1. PICK x : x = dlq[o[n]].job
    OBVIOUS
  <2>2. x \in Entries
    BY <1>5, <1>6, <2>1, LettersAre
  <2>3. Row(x) \in RowType /\ Row(x).job = x
    BY ONLY <2>2 DEF Row, RowType
  <2>. QED
    BY <2>1, <2>3
<1>9. Dead(q) \in Seq(RowType) /\ DOMAIN Dead(q) = 1 .. N
  BY <1>6, <1>7, <1>8
<1>10. \A n \in 1 .. N : Dead(q)[n].job = dlq[o[n]].job
  BY <1>7, <1>8
<1>. QED
  BY <1>1, <1>3, <1>5, <1>6, <1>9, <1>10

(* The page is sent.                                                       *)
LEMMA AnswerIs ==
  ASSUME Typed, NEW a \in Admins, Answer(a)
  PROVE  request[a].pc = "answer" /\ Stays /\ Count /\ Moved(a, NoRequest)
BY FinishIs DEF Answer, At, Stays, Count
-------------------------------------------------------------------------------
(* Types. *)

(* A request that begins keeps the counts in their bounds.                 *)
LEMMA BeginsCount ==
  ASSUME Typed, NEW a \in Admins, Begins(a), UNCHANGED crashes
  PROVE  asked' \in 0 .. MaxRequests /\ crashes' \in 0 .. MaxCrashes /\ crossed' \in BOOLEAN
<1>1. asked' \in 0 .. MaxRequests
  BY Constants DEF Typed, Begins, Asks
<1>2. crossed' \in BOOLEAN
  BY DEF Typed, Begins, Asks
<1>. QED
  BY <1>1, <1>2 DEF Typed

(* A step that moves one request alone keeps the types.                    *)
LEMMA MovedTypes ==
  ASSUME Typed, NEW a \in Admins, NEW s, Moved(a, s), Stays,
         asked' \in 0 .. MaxRequests, crashes' \in 0 .. MaxCrashes, crossed' \in BOOLEAN
  PROVE  Typed'
BY DEF Typed, Moved, Stays

(* A step that begins nothing keeps the counts in their bounds.            *)
LEMMA CountTypes ==
  ASSUME Typed, Count
  PROVE  asked' \in 0 .. MaxRequests /\ crashes' \in 0 .. MaxCrashes /\ crossed' \in BOOLEAN
BY DEF Typed, Count

(* Every step keeps the types.                                             *)
LEMMA TypedNext ==
  ASSUME Typed, [Next]_vars
  PROVE  Typed'
<1>1. CASE UNCHANGED vars
  BY <1>1 DEF Typed, vars
<1>2. ASSUME NEW w \in Coroutines, Conclude(w) \/ Requeue(w) \/ Bury(w) PROVE Typed'
  <2>1. CASE Conclude(w)
    <3>1. PICK j \in Jobs :
            /\ UNCHANGED <<dlq, queues, request, jobStatus, silent>> /\ Count
            /\ over' = [over EXCEPT ![j] = @ \cup {"done"}] /\ Taken(w, Free)
      BY <2>1, ConcludeIs
    <3>2. over' \in [Jobs -> SUBSET {"done", "removed", "lost"}]
      <4>1. over \in [Jobs -> SUBSET {"done", "removed", "lost"}]
        BY DEF Typed
      <4>. QED
        BY <3>1, <4>1
    <3>. QED
      BY <3>1, <3>2, CountTypes DEF Typed, Taken
  <2>2. CASE Requeue(w)
    <3>1. PICK j, d : j = hand[w].job /\ d = hand[w].queue
      OBVIOUS
    <3>2. /\ UNCHANGED <<dlq, request, jobStatus, over, silent>> /\ Count
          /\ queues' \in [Queues -> Seq(Entries)] /\ \E h : Taken(w, h)
      BY ONLY Typed, w \in Coroutines, <2>2, <3>1, RequeueIs, ZenonT(40)
    <3>. QED
      BY <3>2, CountTypes DEF Typed, Taken
  <2>3. CASE Bury(w)
    <3>1. PICK j, q : j = hand[w].job /\ q = hand[w].queue
      OBVIOUS
    <3>2. /\ UNCHANGED <<queues, request, jobStatus, over, silent>> /\ Count
          /\ dlq' \in Seq(Letters) /\ \E h : Taken(w, h)
      BY ONLY Typed, w \in Coroutines, <2>3, <3>1, BuryIs, ZenonT(40)
    <3>. QED
      BY <3>2, CountTypes DEF Typed, Taken
  <2>. QED
    BY <1>2, <2>1, <2>2, <2>3
<1>3. ASSUME NEW w \in Coroutines, NoteStep(w) \/ \E q \in Queues : Pop(w, q) PROVE Typed'
  <2>1. CASE NoteStep(w)
    BY <2>1, NotesIs, CountTypes DEF Typed, Taken
  <2>2. ASSUME NEW q \in Queues, Pop(w, q) PROVE Typed'
    <3>1. /\ Popped(q) /\ UNCHANGED <<dlq, request, jobStatus, over, silent>> /\ Count
          /\ \E h : Taken(w, h)
      BY <2>2, PopIs
    <3>. QED
      BY <3>1, CountTypes DEF Typed, Taken, Popped
  <2>. QED
    BY <1>3, <2>1, <2>2
<1>4. ASSUME NEW a \in Admins, NEW q \in Queues, NEW op \in {"retry", "remove"}, See(a, op, q) PROVE Typed'
  BY <1>4, SeeIs, BeginsCount, MovedTypes
<1>5. ASSUME NEW a \in Admins, NEW j \in Jobs, Name(a, j) PROVE Typed'
  BY <1>5, NameIs, BeginsCount, MovedTypes
<1>6. ASSUME NEW a \in Admins, NEW j \in Jobs, FindJob(a, j) PROVE Typed'
  BY <1>6, FindJobIs, BeginsCount, MovedTypes
<1>7. ASSUME NEW a \in Admins, ListJobs(a) PROVE Typed'
  BY <1>7, ListJobsIs, BeginsCount, MovedTypes
<1>8. ASSUME NEW a \in Admins, Look(a) PROVE Typed'
  BY <1>8, LookIs, CountTypes, MovedTypes
<1>9. ASSUME NEW a \in Admins, List(a) PROVE Typed'
  BY <1>9, ListIs, CountTypes, MovedTypes
<1>10. ASSUME NEW a \in Admins, Read(a) PROVE Typed'
  BY <1>10, ReadIs, CountTypes, MovedTypes
<1>11. ASSUME NEW a \in Admins, Mark(a) PROVE Typed'
  <2>1. PICK r : r = request[a]
    OBVIOUS
  <2>2. CASE Moved(a, NoRequest) /\ UNCHANGED <<dlq, over, silent>>
    <3>1. Stays /\ Count
      BY <1>11, <2>1, <2>2, MarkIs DEF Stays
    <3>. QED
      BY <2>2, <3>1, CountTypes, MovedTypes
  <2>3. CASE ~ (Moved(a, NoRequest) /\ UNCHANGED <<dlq, over, silent>>)
    <3>1. PICK s :
            /\ Moved(a, s) /\ r.index \in DOMAIN dlq /\ dlq' \in Seq(Letters) /\ r.payload \in Letters
            /\ over' = IF r.op = "remove" /\ r.payload.job \in Jobs
                       THEN [over EXCEPT ![r.payload.job] = @ \cup {"removed"}] ELSE over
            /\ silent' = silent \cup
                 {j \in {r.payload.job, dlq[r.index].job} :
                    j # r.payload.job \/ r.op # "retry_job" \/ r.payload.job # r.seen}
      BY <1>11, <2>1, <2>3, MarkIs
    <3>2. Count /\ UNCHANGED <<queues, hand, jobStatus>>
      BY <1>11, <2>1, MarkIs
    <3>3. over' \in [Jobs -> SUBSET {"done", "removed", "lost"}]
      <4>1. over \in [Jobs -> SUBSET {"done", "removed", "lost"}]
        BY DEF Typed
      <4>. QED
        BY <3>1, <4>1
    <3>4. silent' \subseteq Entries
      <4>1. r.payload.job \in Entries
        BY <3>1 DEF Letters
      <4>2. dlq[r.index].job \in Entries
        BY <3>1, LettersAre
      <4>3. silent \subseteq Entries
        BY DEF Typed
      <4>. QED
        BY <3>1, <4>1, <4>2, <4>3
    <3>. QED
      BY <3>1, <3>2, <3>3, <3>4, CountTypes DEF Typed, Moved
  <2>. QED
    BY <2>2, <2>3
<1>12. ASSUME NEW a \in Admins, Drop(a) PROVE Typed'
  <2>1. /\ Count /\ UNCHANGED <<queues, hand, jobStatus, over, silent>> /\ dlq' \in Seq(Letters)
        /\ \E s : Moved(a, s)
    BY <1>12, DropIs
  <2>. QED
    BY <2>1, CountTypes DEF Typed, Moved
<1>13. ASSUME NEW a \in Admins, Push(a) PROVE Typed'
  <2>1. /\ Count /\ UNCHANGED <<dlq, hand, jobStatus, over, silent>> /\ queues' \in [Queues -> Seq(Entries)]
        /\ \E s : Moved(a, s)
    BY <1>13, PushIs
  <2>. QED
    BY <2>1, CountTypes DEF Typed, Moved
<1>14. ASSUME NEW a \in Admins, NoteRetry(a) PROVE Typed'
  <2>1. PICK j \in Jobs : /\ Count /\ UNCHANGED <<dlq, queues, hand, over, silent>> /\ Moved(a, NoRequest)
                          /\ jobStatus' = [jobStatus EXCEPT ![j] = "retry"]
    BY <1>14, NoteIs
  <2>2. jobStatus' \in [Jobs -> Statuses]
    <3>1. jobStatus \in [Jobs -> Statuses] /\ "retry" \in Statuses
      BY DEF Typed, Statuses
    <3>. QED
      BY <2>1, <3>1
  <2>. QED
    BY <2>1, <2>2, CountTypes DEF Typed, Moved
<1>15. ASSUME NEW a \in Admins, ReadQueue(a) PROVE Typed'
  <2>1. PICK r : r = request[a]
    OBVIOUS
  <2>2. r.pc = "queues" /\ Stays /\ Count /\ \E new \in Seq(RowType) : Reads(a, new, "letters")
    BY <1>15, <2>1, ReadQueueIs
  <2>3. \E s : Moved(a, s)
    BY <2>1, <2>2, ReadsIs DEF ReadOn
  <2>. QED
    BY <2>2, <2>3, CountTypes, MovedTypes
<1>16. ASSUME NEW a \in Admins, ReadLetters(a) PROVE Typed'
  <2>1. PICK r : r = request[a]
    OBVIOUS
  <2>2. r.pc = "letters" /\ Stays /\ Count /\ \E new \in Seq(RowType) : Reads(a, new, "answer")
    BY <1>16, <2>1, ReadLettersIs
  <2>3. \E s : Moved(a, s)
    BY <2>1, <2>2, ReadsIs DEF ReadOn
  <2>. QED
    BY <2>2, <2>3, CountTypes, MovedTypes
<1>17. ASSUME NEW a \in Admins, Answer(a) PROVE Typed'
  BY <1>17, AnswerIs, CountTypes, MovedTypes
<1>18. CASE Crash
  <2>1. /\ UNCHANGED <<queues, jobStatus, asked, crossed>> /\ crashes' \in 0 .. MaxCrashes
        /\ request' \in [Admins -> Entry] /\ \A a \in Admins : request'[a] = NoRequest
        /\ hand' \in [Coroutines -> HandEntry] /\ \A w \in Coroutines : hand'[w] = Free
        /\ dlq' \in Seq(Letters) /\ over' \in [Jobs -> SUBSET {"done", "removed", "lost"}]
        /\ silent' \subseteq Entries
    BY <1>18, CrashIs
  <2>2. (\A a \in Admins : Shape(request'[a])) /\ \A w \in Coroutines : Firm(hand'[w])
    BY <2>1, NoRequestIs, FreeIs
  <2>. QED
    BY <2>1, <2>2 DEF Typed
<1>. QED
  BY <1>1, <1>2, <1>3, <1>4, <1>5, <1>6, <1>7, <1>8, <1>9, <1>10, <1>11, <1>12, <1>13, <1>14,
     <1>15, <1>16, <1>17, <1>18 DEF Next, Work, Serve, NoteStep

(* At first the dead letters are the old ones, each once.                  *)
LEMMA InitTyped ==
  ASSUME Init
  PROVE  /\ Typed
         /\ \A i \in DOMAIN dlq : \E j \in Legacy : dlq[i] = Letter(j, "none")
         /\ \A i, k \in DOMAIN dlq : dlq[i] = dlq[k] => i = k
         /\ \A j \in Legacy : \E i \in DOMAIN dlq : dlq[i] = Letter(j, "none")
         /\ \A q \in Queues : \A i \in DOMAIN queues[q] : queues[q][i] \in Jobs \ Legacy /\ HomeOf[queues[q][i]] = q
         /\ \A q \in Queues : \A i, k \in DOMAIN queues[q] : queues[q][i] = queues[q][k] => i = k
         /\ \A j \in Jobs \ Legacy : \E i \in DOMAIN queues[HomeOf[j]] : queues[HomeOf[j]][i] = j
<1>1. PICK S : S = {Letter(j, "none") : j \in Legacy}
  OBVIOUS
<1>2. IsFiniteSet(S)
  <2>1. IsFiniteSet(Legacy)
    BY Constants, FS_Subset
  <2>2. PICK f : f = [j \in Legacy |-> Letter(j, "none")]
    OBVIOUS
  <2>3. f \in Surjection(Legacy, S)
    BY <1>1, <2>2 DEF Surjection
  <2>. QED
    BY <2>1, <2>3, FS_Surjection
<1>3. /\ dlq \in Seq(S) /\ \A i, k \in DOMAIN dlq : dlq[i] = dlq[k] => i = k
      /\ \A x \in S : \E i \in DOMAIN dlq : dlq[i] = x
  <2>1. dlq = SetToSeq(S)
    BY <1>1 DEF Init
  <2>. QED
    BY <1>2, <2>1, ListedSet
<1>4. \A i \in DOMAIN dlq : dlq[i] \in S
  BY <1>3
<1>5. S \in SUBSET Letters
  BY <1>1, Constants DEF Letter, Letters, Entries, Tags
<1>6. dlq \in Seq(Letters)
  BY <1>3, <1>5
<1>7. ASSUME NEW q \in Queues
      PROVE  /\ queues[q] \in Seq(Jobs \ Legacy)
             /\ \A i \in DOMAIN queues[q] : queues[q][i] \in Jobs \ Legacy /\ HomeOf[queues[q][i]] = q
             /\ \A i, k \in DOMAIN queues[q] : queues[q][i] = queues[q][k] => i = k
             /\ \A j \in Jobs \ Legacy : HomeOf[j] = q => \E i \in DOMAIN queues[q] : queues[q][i] = j
  <2>1. PICK T, l : T = {j \in Jobs \ Legacy : HomeOf[j] = q} /\ l = SetToSeq(T)
    OBVIOUS
  <2>2. queues[q] = l
    BY <2>1 DEF Init
  <2>3. IsFiniteSet(T)
    <3>1. T \in SUBSET Jobs /\ IsFiniteSet(Jobs)
      BY <2>1, Constants
    <3>. QED
      BY ONLY <3>1, FS_Subset
  <2>4. /\ l \in Seq(T) /\ \A i, k \in DOMAIN l : l[i] = l[k] => i = k
        /\ \A x \in T : \E i \in DOMAIN l : l[i] = x
    <3>1. l = SetToSeq(T)
      BY <2>1
    <3>. QED
      BY ONLY <2>3, <3>1, ListedSet
  <2>5. \A i \in DOMAIN l : l[i] \in T
    BY <2>4
  <2>6. T \in SUBSET (Jobs \ Legacy)
    BY <2>1
  <2>7. l \in Seq(Jobs \ Legacy)
    BY <2>4, <2>6
  <2>. QED
    BY <2>1, <2>2, <2>4, <2>5, <2>7
<1>8. queues \in [Queues -> Seq(Entries)]
  <2>1. queues = [q \in Queues |-> SetToSeq({j \in Jobs \ Legacy : HomeOf[j] = q})]
    BY DEF Init
  <2>2. \A q \in Queues : queues[q] \in Seq(Entries)
    <3> SUFFICES ASSUME NEW q \in Queues PROVE queues[q] \in Seq(Entries)
      OBVIOUS
    <3>1. queues[q] \in Seq(Jobs \ Legacy) /\ Jobs \ Legacy \in SUBSET Entries
      BY <1>7 DEF Entries
    <3>. QED
      BY <3>1
  <2>. QED
    BY <2>1, <2>2
<1>9. request = [a \in Admins |-> NoRequest]
  BY DEF Init
<1>10. request \in [Admins -> Entry] /\ \A a \in Admins : Shape(request[a])
  BY <1>9, NoRequestIs
<1>11. jobStatus \in [Jobs -> Statuses] /\ over \in [Jobs -> SUBSET {"done", "removed", "lost"}]
  <2>1. \A j \in Jobs : (IF j \in Legacy THEN "none" ELSE "queued") \in Statuses
    BY DEF Statuses
  <2>2. jobStatus = [j \in Jobs |-> IF j \in Legacy THEN "none" ELSE "queued"] /\ over = [j \in Jobs |-> {}]
    BY DEF Init
  <2>. QED
    BY <2>1, <2>2
<1>12. /\ silent \subseteq Entries
       /\ asked \in 0..MaxRequests /\ crashes \in 0..MaxCrashes /\ crossed \in BOOLEAN
  <2>1. silent = {} /\ asked = 0 /\ crashes = 0
    BY DEF Init
  <2>2. MaxRequests \in Nat /\ MaxCrashes \in Nat
    BY Constants
  <2>3. asked \in 0..MaxRequests /\ crashes \in 0..MaxCrashes
    BY ONLY <2>1, <2>2
  <2>4. crossed \in BOOLEAN
    BY DEF Init
  <2>. QED
    BY <2>1, <2>3, <2>4
<1>18. hand \in [Coroutines -> HandEntry] /\ \A w \in Coroutines : Firm(hand[w])
  <2>1. hand = [w \in Coroutines |-> Free]
    BY DEF Init
  <2>. QED
    BY <2>1, FreeIs
<1>13. Typed
  BY <1>6, <1>8, <1>10, <1>11, <1>12, <1>18 DEF Typed
<1>14. \A j \in Jobs : HomeOf[j] \in Queues
  BY Constants
<1>15. \A i \in DOMAIN dlq : \E j \in Legacy : dlq[i] = Letter(j, "none")
  BY ONLY <1>1, <1>4
<1>16. \A j \in Legacy : \E i \in DOMAIN dlq : dlq[i] = Letter(j, "none")
  BY ONLY <1>1, <1>3
<1>17. ASSUME NEW j \in Jobs \ Legacy PROVE \E i \in DOMAIN queues[HomeOf[j]] : queues[HomeOf[j]][i] = j
  BY <1>7, <1>14
<1>. QED
  BY <1>3, <1>7, <1>13, <1>15, <1>16, <1>17

(* What is left of a list keeps its order, and has all the jobs it had.    *)
LEMMA ShrunkIs ==
  ASSUME NEW s, NEW t, Shrunk(s, t)
  PROVE  \E at \in [DOMAIN t -> DOMAIN s] :
           /\ DOMAIN t \in SUBSET Nat /\ DOMAIN s \in SUBSET Nat
           /\ \A i \in DOMAIN t : t[i] = s[at[i]] /\ i <= at[i]
           /\ \A i, k \in DOMAIN t : i < k <=> at[i] < at[k]
           /\ \A i, k \in DOMAIN t : at[i] = at[k] => i = k
           /\ \A i \in DOMAIN s : s[i].job \in Jobs => \E k \in DOMAIN t : at[k] = i
<1>1. PICK k \in DOMAIN s, n \in Nat :
        /\ n = Len(s) /\ n \in Nat
        /\ s[k].job \notin Jobs /\ DOMAIN s = 1 .. n /\ DOMAIN t = 1 .. n - 1
        /\ \A i \in 1 .. n - 1 : t[i] = IF i < k THEN s[i] ELSE s[i + 1]
  BY DEF Shrunk
<1>2. PICK at : at = [i \in 1 .. n - 1 |-> IF i < k THEN i ELSE i + 1]
  OBVIOUS
<1>3. k \in 1 .. n
  BY <1>1
<1>4. /\ at \in [1 .. n - 1 -> 1 .. n]
      /\ \A i \in 1 .. n - 1 : at[i] = IF i < k THEN i ELSE i + 1
  BY <1>1, <1>2, <1>3
<1>5. \A i \in 1 .. n - 1 : t[i] = s[at[i]] /\ i <= at[i]
  BY <1>1, <1>3, <1>4
<1>6. \A i, j \in 1 .. n - 1 : i < j <=> at[i] < at[j]
  BY <1>1, <1>3, <1>4
<1>7. \A i, j \in 1 .. n - 1 : at[i] = at[j] => i = j
  BY <1>1, <1>3, <1>4
<1>8. ASSUME NEW i \in 1 .. n, s[i].job \in Jobs PROVE \E j \in 1 .. n - 1 : at[j] = i
  <2>1. i # k
    BY <1>1, <1>8
  <2>2. CASE i < k
    <3>1. i \in 1 .. n - 1 /\ at[i] = i
      BY <1>1, <1>3, <1>4, <2>2
    <3>. QED
      BY <3>1
  <2>3. CASE i > k
    <3>1. i - 1 \in 1 .. n - 1 /\ ~ (i - 1 < k) /\ (i - 1) + 1 = i
      BY <1>1, <1>3, <2>3
    <3>2. at[i - 1] = i
      BY <1>4, <3>1
    <3>. QED
      BY <3>1, <3>2
  <2>. QED
    BY <1>1, <1>3, <2>1, <2>2, <2>3
<1>9. DOMAIN s = 1 .. n /\ DOMAIN t = 1 .. n - 1 /\ 1 .. n \in SUBSET Nat /\ 1 .. n - 1 \in SUBSET Nat
  BY <1>1
<1>10. /\ at \in [1 .. n - 1 -> 1 .. n]
       /\ \A i \in 1 .. n : s[i].job \in Jobs => \E j \in 1 .. n - 1 : at[j] = i
  BY ONLY <1>4, <1>8
<1>11. PICK D, E : D = DOMAIN t /\ E = DOMAIN s
  OBVIOUS
<1>12. D = 1 .. n - 1 /\ E = 1 .. n
  BY ONLY <1>9, <1>11
<1>13. /\ at \in [D -> E] /\ D \in SUBSET Nat /\ E \in SUBSET Nat
       /\ \A i \in D : t[i] = s[at[i]] /\ i <= at[i]
       /\ \A i, j \in D : i < j <=> at[i] < at[j]
       /\ \A i, j \in D : at[i] = at[j] => i = j
       /\ \A i \in E : s[i].job \in Jobs => \E j \in D : at[j] = i
  BY ONLY <1>5, <1>6, <1>7, <1>9, <1>10, <1>12
<1>14. \E a \in [D -> E] :
         /\ D \in SUBSET Nat /\ E \in SUBSET Nat
         /\ \A i \in D : t[i] = s[a[i]] /\ i <= a[i]
         /\ \A i, j \in D : i < j <=> a[i] < a[j]
         /\ \A i, j \in D : a[i] = a[j] => i = j
         /\ \A i \in E : s[i].job \in Jobs => \E j \in D : a[j] = i
  BY ONLY <1>13, Zenon
<1>. QED
  BY ONLY <1>11, <1>14

(* Only what is no job goes out of the list with a placeholder.            *)
LEMMA DropKeepsJobs ==
  ASSUME dlq' = dlq \/ Shrunk(dlq, dlq'), NEW j \in Jobs
  PROVE  InDlq(j) <=> InDlq(j)'
<1>1. CASE dlq' = dlq
  BY <1>1 DEF InDlq
<1>2. CASE Shrunk(dlq, dlq')
  <2>1. PICK s, t : s = dlq /\ t = dlq'
    OBVIOUS
  <2>2. PICK at \in [DOMAIN t -> DOMAIN s] :
          /\ \A i \in DOMAIN t : t[i] = s[at[i]]
          /\ \A i \in DOMAIN s : s[i].job \in Jobs => \E k \in DOMAIN t : at[k] = i
    BY <1>2, <2>1, ShrunkIs
  <2>3. (\E i \in DOMAIN s : s[i].job = j) <=> (\E i \in DOMAIN t : t[i].job = j)
    BY ONLY <2>2, j \in Jobs
  <2>. QED
    BY <2>1, <2>3 DEF InDlq
<1>. QED
  BY <1>1, <1>2
-------------------------------------------------------------------------------
(* Who is shown as a dead letter. *)

(* A request that is not taking a letter out hides no dead letter.         *)
LEMMA DeadMoved ==
  ASSUME Typed, DeadInv, NEW a \in Admins, NEW s, Moved(a, s), Stays,
         request[a].pc \notin {"drop", "push", "note"}
  PROVE  DeadInv'
<1> SUFFICES ASSUME NEW j \in Jobs, jobStatus'[j] = "dlq"
             PROVE  j \in silent' \/ InDlq(j)' \/ \E b \in Admins : Retrying(request'[b], j)
  BY DEF DeadInv
<1>1. j \in silent \/ InDlq(j) \/ \E b \in Admins : Retrying(request[b], j)
  BY DEF DeadInv, Stays
<1>2. ASSUME NEW b \in Admins, Retrying(request[b], j) PROVE Retrying(request'[b], j)
  <2>1. b # a
    BY <1>2 DEF Retrying
  <2>. QED
    BY <1>2, <2>1 DEF Moved
<1>3. InDlq(j) => InDlq(j)'
  BY DEF InDlq, Stays
<1>. QED
  BY <1>1, <1>2, <1>3 DEF Stays

(* Every step keeps who is shown dead dead, in hand or silent.             *)
LEMMA DeadNext ==
  ASSUME Typed, DeadInv, [Next]_vars
  PROVE  DeadInv'
<1>1. CASE UNCHANGED vars
  BY <1>1 DEF DeadInv, InDlq, vars
<1>2. ASSUME NEW w \in Coroutines, Conclude(w) \/ Requeue(w) \/ Bury(w) PROVE DeadInv'
  <2>1. UNCHANGED <<request, jobStatus, silent>>
    BY <1>2, ConcludeIs, RequeueIs, BuryIs
  <2>2. ASSUME NEW j \in Jobs, InDlq(j) PROVE InDlq(j)'
    <3>1. CASE Conclude(w) \/ Requeue(w)
      BY <2>2, <3>1, ConcludeIs, RequeueIs DEF InDlq
    <3>2. CASE Bury(w)
      BY <2>2, <3>2, BuryIs DEF InDlq
    <3>. QED
      BY <1>2, <3>1, <3>2
  <2>. QED
    BY <2>1, <2>2 DEF DeadInv
<1>3. ASSUME NEW w \in Coroutines, NoteStep(w) \/ \E q \in Queues : Pop(w, q) PROVE DeadInv'
  <2>1. CASE NoteStep(w)
    <3>1. UNCHANGED <<dlq, request>> /\ \A k \in Jobs : Noted(k)
      BY <2>1, NotesIs
    <3>. QED
      BY <3>1 DEF DeadInv, Noted, InDlq
  <2>2. ASSUME NEW q \in Queues, Pop(w, q) PROVE DeadInv'
    BY <2>2, PopIs DEF DeadInv, InDlq
  <2>. QED
    BY <1>3, <2>1, <2>2
<1>4. ASSUME NEW a \in Admins, NEW q \in Queues, NEW op \in {"retry", "remove"}, See(a, op, q) PROVE DeadInv'
  BY <1>4, SeeIs, DeadMoved DEF Begins
<1>5. ASSUME NEW a \in Admins, NEW j \in Jobs, Name(a, j) PROVE DeadInv'
  BY <1>5, NameIs, DeadMoved DEF Begins
<1>6. ASSUME NEW a \in Admins, NEW j \in Jobs, FindJob(a, j) PROVE DeadInv'
  BY <1>6, FindJobIs, DeadMoved DEF Begins
<1>7. ASSUME NEW a \in Admins, ListJobs(a) PROVE DeadInv'
  BY <1>7, ListJobsIs, DeadMoved DEF Begins
<1>8. ASSUME NEW a \in Admins, Look(a) PROVE DeadInv'
  BY <1>8, LookIs, DeadMoved
<1>9. ASSUME NEW a \in Admins, List(a) PROVE DeadInv'
  BY <1>9, ListIs, DeadMoved
<1>10. ASSUME NEW a \in Admins, Read(a) PROVE DeadInv'
  BY <1>10, ReadIs, DeadMoved
<1>11. ASSUME NEW a \in Admins, Mark(a) PROVE DeadInv'
  <2>1. PICK r : r = request[a]
    OBVIOUS
  <2>2. r.pc = "mark" /\ UNCHANGED <<queues, hand, jobStatus>>
    BY <1>11, <2>1, MarkIs
  <2>3. CASE Moved(a, NoRequest) /\ UNCHANGED <<dlq, over, silent>>
    BY <2>1, <2>2, <2>3, DeadMoved DEF Stays
  <2>4. CASE ~ (Moved(a, NoRequest) /\ UNCHANGED <<dlq, over, silent>>)
    <3>1. PICK s :
            /\ Moved(a, s) /\ s.pc = "drop" /\ Same(s, r)
            /\ r.index \in DOMAIN dlq /\ DOMAIN dlq' = DOMAIN dlq
            /\ \A i \in DOMAIN dlq : i # r.index => dlq'[i] = dlq[i]
            /\ silent' = silent \cup
                 {j \in {r.payload.job, dlq[r.index].job} :
                    j # r.payload.job \/ r.op # "retry_job" \/ r.payload.job # r.seen}
      BY <1>11, <2>1, <2>4, MarkIs
    <3> SUFFICES ASSUME NEW j \in Jobs, jobStatus[j] = "dlq"
                 PROVE  j \in silent' \/ InDlq(j)' \/ \E b \in Admins : Retrying(request'[b], j)
      BY <2>2 DEF DeadInv
    <3>2. CASE j \in silent
      BY <3>1, <3>2
    <3>3. ASSUME NEW i \in DOMAIN dlq, dlq[i].job = j, i # r.index PROVE InDlq(j)'
      BY <3>1, <3>3 DEF InDlq
    <3>4. CASE dlq[r.index].job = j
      <4>1. CASE j # r.payload.job \/ r.op # "retry_job" \/ r.payload.job # r.seen
        BY <3>1, <3>4, <4>1
      <4>2. CASE j = r.payload.job /\ r.op = "retry_job" /\ r.payload.job = r.seen
        BY <3>1, <4>2 DEF Retrying, Moved, Same
      <4>. QED
        BY <4>1, <4>2
    <3>5. ASSUME NEW b \in Admins, Retrying(request[b], j) PROVE Retrying(request'[b], j)
      <4>1. b # a
        BY <2>1, <2>2, <3>5 DEF Retrying
      <4>. QED
        BY <3>1, <3>5, <4>1 DEF Moved
    <3>. QED
      BY <3>2, <3>3, <3>4, <3>5 DEF DeadInv, InDlq
  <2>. QED
    BY <2>3, <2>4
<1>12. ASSUME NEW a \in Admins, Drop(a) PROVE DeadInv'
  <2>1. PICK r : r = request[a]
    OBVIOUS
  <2>2. PICK s : /\ Moved(a, s) /\ UNCHANGED <<jobStatus, silent>>
                 /\ dlq' = dlq \/ Shrunk(dlq, dlq')
                 /\ r.op = "remove" \/ (s.pc = "push" /\ Same(s, r))
    BY <1>12, <2>1, DropIs
  <2>3. ASSUME NEW j \in Jobs, NEW b \in Admins, Retrying(request[b], j) PROVE Retrying(request'[b], j)
    <3>1. CASE b # a
      BY <2>2, <2>3, <3>1 DEF Moved
    <3>2. CASE b = a
      BY <2>1, <2>2, <2>3, <3>2 DEF Moved, Retrying, Same
    <3>. QED
      BY <3>1, <3>2
  <2>4. \A j \in Jobs : InDlq(j) => InDlq(j)'
    BY <2>2, DropKeepsJobs
  <2>. QED
    BY <2>2, <2>3, <2>4 DEF DeadInv
<1>13. ASSUME NEW a \in Admins, Push(a) PROVE DeadInv'
  <2>1. PICK r : r = request[a]
    OBVIOUS
  <2>2. PICK s : /\ Moved(a, s) /\ UNCHANGED <<dlq, jobStatus, silent>>
                 /\ r.op # "retry_job" \/ (s.pc = "note" /\ Same(s, r))
    BY <1>13, <2>1, PushIs
  <2>3. ASSUME NEW j \in Jobs, NEW b \in Admins, Retrying(request[b], j) PROVE Retrying(request'[b], j)
    <3>1. CASE b # a
      BY <2>2, <2>3, <3>1 DEF Moved
    <3>2. CASE b = a
      BY <2>1, <2>2, <2>3, <3>2 DEF Moved, Retrying, Same
    <3>. QED
      BY <3>1, <3>2
  <2>. QED
    BY <2>2, <2>3 DEF DeadInv, InDlq
<1>14. ASSUME NEW a \in Admins, NoteRetry(a) PROVE DeadInv'
  <2>1. PICK r : r = request[a]
    OBVIOUS
  <2>2. /\ Moved(a, NoRequest) /\ UNCHANGED <<dlq, silent>> /\ r.pc = "note" /\ r.seen \in Jobs
        /\ jobStatus' = [jobStatus EXCEPT ![r.seen] = "retry"]
    BY <1>14, <2>1, NoteIs
  <2>3. jobStatus \in [Jobs -> Statuses]
    BY DEF Typed
  <2>4. \A j \in Jobs : jobStatus'[j] = "dlq" => jobStatus[j] = "dlq" /\ j # r.seen
    BY <2>2, <2>3
  <2>5. ASSUME NEW j \in Jobs, j # r.seen, NEW b \in Admins, Retrying(request[b], j)
        PROVE  Retrying(request'[b], j)
    <3>1. b # a
      BY <2>1, <2>5 DEF Retrying
    <3>. QED
      BY <2>2, <2>5, <3>1 DEF Moved
  <2>. QED
    BY <2>2, <2>4, <2>5 DEF DeadInv, InDlq
<1>15. ASSUME NEW a \in Admins, ReadQueue(a) PROVE DeadInv'
  <2>1. PICK r : r = request[a]
    OBVIOUS
  <2>2. r.pc = "queues" /\ Stays /\ Count /\ \E new \in Seq(RowType) : Reads(a, new, "letters")
    BY <1>15, <2>1, ReadQueueIs
  <2>3. \E s : Moved(a, s)
    BY <2>1, <2>2, ReadsIs DEF ReadOn
  <2>. QED
    BY <2>1, <2>2, <2>3, DeadMoved
<1>16. ASSUME NEW a \in Admins, ReadLetters(a) PROVE DeadInv'
  <2>1. PICK r : r = request[a]
    OBVIOUS
  <2>2. r.pc = "letters" /\ Stays /\ Count /\ \E new \in Seq(RowType) : Reads(a, new, "answer")
    BY <1>16, <2>1, ReadLettersIs
  <2>3. \E s : Moved(a, s)
    BY <2>1, <2>2, ReadsIs DEF ReadOn
  <2>. QED
    BY <2>1, <2>2, <2>3, DeadMoved
<1>17. ASSUME NEW a \in Admins, Answer(a) PROVE DeadInv'
  BY <1>17, AnswerIs, DeadMoved
<1>18. CASE Crash
  <2>1. /\ UNCHANGED jobStatus /\ DOMAIN dlq' = DOMAIN dlq
        /\ \A i \in DOMAIN dlq :
             dlq'[i] = IF dlq[i].job \in Admins THEN Letter("stale", "none") ELSE dlq[i]
        /\ \A x \in silent : x \in silent'
        /\ \A a \in Admins :
             Holds(request[a], request[a].payload.job) \/ request[a].pc = "note"
               => request[a].payload.job \in silent'
    BY <1>18, CrashIs
  <2>2. ASSUME NEW j \in Jobs, InDlq(j) PROVE InDlq(j)'
    <3>1. j \notin Admins
      BY Constants
    <3>. QED
      BY <2>1, <2>2, <3>1 DEF InDlq
  <2>3. ASSUME NEW j \in Jobs, NEW a \in Admins, Retrying(request[a], j) PROVE j \in silent'
    BY <2>1, <2>3 DEF Retrying, Holds
  <2>. QED
    BY <2>1, <2>2, <2>3 DEF DeadInv
<1>. QED
  BY <1>1, <1>2, <1>3, <1>4, <1>5, <1>6, <1>7, <1>8, <1>9, <1>10, <1>11, <1>12, <1>13, <1>14,
     <1>15, <1>16, <1>17, <1>18 DEF Next, Work, Serve, NoteStep

-------------------------------------------------------------------------------
(* Back to the queue it came from. *)

(* A list that lost elements, or got some that are no job, instead. *)
LEMMA HomeLetters ==
  ASSUME Typed, HomeInv, NEW t, NEW at \in [DOMAIN t -> DOMAIN dlq], DOMAIN t \in SUBSET Nat,
         \A i, k \in DOMAIN t : i < k => at[i] < at[k],
         \A i \in DOMAIN t : i <= at[i] /\ (t[i] = dlq[at[i]] \/ (t[i].job \notin Jobs /\ t[i].tag = "none")),
         dlq' = t
  PROVE  /\ \A i \in DOMAIN dlq' : Rightful(dlq'[i])
         /\ OldFirst' /\ \A r \in Entry : Bound(r) => Bound(r)'
<1>1. \A i \in DOMAIN dlq : Rightful(dlq[i])
  BY DEF HomeInv
<1>2. \A i, k \in DOMAIN dlq : i < k /\ dlq[i].tag # "none" => dlq[k].job \notin Jobs \/ dlq[k].tag # "none"
  BY DEF HomeInv, OldFirst
<1>3. \A i \in DOMAIN t : Rightful(t[i])
  BY <1>1 DEF Rightful
<1>4. ASSUME NEW i \in DOMAIN t, NEW k \in DOMAIN t, i < k, t[i].tag # "none"
      PROVE  t[k].job \notin Jobs \/ t[k].tag # "none"
  <2>1. t[i] = dlq[at[i]] /\ at[i] < at[k] /\ at[i] \in DOMAIN dlq /\ at[k] \in DOMAIN dlq
    BY <1>4
  <2>2. dlq[at[k]].job \notin Jobs \/ dlq[at[k]].tag # "none"
    BY ONLY <1>2, <1>4, <2>1
  <2>. QED
    BY <2>2
<1>5. ASSUME NEW r \in Entry, Bound(r) PROVE Bound(r)'
  <2>1. r.index \in Nat
    BY DEF Entry
  <2>2. DOMAIN dlq \in SUBSET Nat
    BY LettersAre
  <2>3. ASSUME r.pc \in {"read", "mark"}, r.queue # "ai_analyze", NEW k \in DOMAIN t, k >= r.index
        PROVE  t[k].job \notin Jobs \/ t[k].tag # "none"
    <3>1. at[k] \in DOMAIN dlq /\ k \in Nat /\ at[k] \in Nat /\ k <= at[k]
      BY <2>2
    <3>2. at[k] >= r.index
      BY <2>1, <2>3, <3>1
    <3>3. dlq[at[k]].job \notin Jobs \/ dlq[at[k]].tag # "none"
      BY <1>5, <2>3, <3>1, <3>2 DEF Bound
    <3>. QED
      BY <3>3
  <2>. QED
    BY <1>5, <2>3 DEF Bound
<1>. QED
  BY <1>3, <1>4, <1>5 DEF OldFirst

(* A step that moves one request alone sends no letter elsewhere.          *)
LEMMA HomeMoved ==
  ASSUME Typed, HomeInv, NEW a \in Admins, NEW s, Moved(a, s), UNCHANGED <<dlq, queues, hand>>, Bound(s)
  PROVE  HomeInv'
<1>1. \A b \in Admins : Bound(request'[b])
  BY DEF HomeInv, Moved
<1>2. \A b \in Admins : Bound(request[b])'
  BY <1>1 DEF Bound
<1>. QED
  BY <1>2 DEF HomeInv, OldFirst, BackToItsQueue, Homely

(* A request that holds no letter is bound nowhere.                        *)
LEMMA BoundTrivial ==
  ASSUME NEW s, s.pc \notin {"read", "mark", "drop", "push"}
  PROVE  Bound(s)
BY DEF Bound

(* Looking the index up binds the request to the queue it listed.          *)
LEMMA HomeList ==
  ASSUME Typed, HomeInv, NEW a \in Admins, List(a)
  PROVE  HomeInv'
<1>1. PICK r : r = request[a]
  OBVIOUS
<1>2. r.pc = "list" /\ Stays
  BY <1>1, ListIs
<1>3. CASE Moved(a, NoRequest)
  BY <1>2, <1>3, BoundTrivial, NoRequestIs, HomeMoved DEF Stays
<1>4. CASE ~ Moved(a, NoRequest)
  <2>1. PICK s : /\ Moved(a, s) /\ s.pc = "read" /\ s.index \in DOMAIN dlq /\ Matches(dlq[s.index], s.queue)
    BY <1>4, ListIs
  <2>2. s.queue \in Queues
    BY <2>1 DEF Moved, Shape, Removing
  <2>3. ASSUME s.queue # "ai_analyze", NEW k \in DOMAIN dlq, k >= s.index
        PROVE  dlq[k].job \notin Jobs \/ dlq[k].tag # "none"
    <3>1. dlq[s.index].tag # "none"
      BY <2>1, <2>2, <2>3, Constants DEF Matches
    <3>2. CASE k = s.index
      BY <3>1, <3>2
    <3>3. CASE k # s.index
      <4>1. s.index < k
        BY <2>1, <2>3, <3>3, LettersAre
      <4>. QED
        BY <2>1, <3>1, <4>1 DEF HomeInv, OldFirst
    <3>. QED
      BY <3>2, <3>3
  <2>4. Bound(s)
    BY <2>1, <2>3 DEF Bound
  <2>. QED
    BY <1>2, <2>1, <2>4, HomeMoved DEF Stays
<1>. QED
  BY <1>3, <1>4

(* A letter that was read is of the queue that was listed.                 *)
LEMMA HomeRead ==
  ASSUME Typed, HomeInv, NEW a \in Admins, Read(a)
  PROVE  HomeInv'
<1>1. PICK r : r = request[a]
  OBVIOUS
<1>2. r.pc = "read" /\ Stays /\ Bound(r)
  BY <1>1, ReadIs DEF HomeInv
<1>3. CASE Moved(a, NoRequest)
  BY <1>2, <1>3, BoundTrivial, NoRequestIs, HomeMoved DEF Stays
<1>4. CASE ~ Moved(a, NoRequest)
  <2>1. PICK s : /\ Moved(a, s) /\ s.pc = "mark" /\ s.queue = r.queue /\ s.index = r.index
                 /\ s.index \in DOMAIN dlq /\ s.payload = dlq[s.index]
    BY <1>1, <1>4, ReadIs
  <2>2. Rightful(s.payload)
    BY <2>1 DEF HomeInv
  <2>3. s.queue # "ai_analyze" => s.payload.job \notin Jobs \/ s.payload.tag # "none"
    <3>1. s.index >= s.index
      BY <2>1, LettersAre
    <3>. QED
      BY <1>2, <2>1, <3>1 DEF Bound
  <2>4. Bound(s)
    BY <1>2, <2>1, <2>2, <2>3 DEF Bound
  <2>. QED
    BY <1>2, <2>1, <2>4, HomeMoved DEF Stays
<1>. QED
  BY <1>3, <1>4

(* The placeholder has no tag: nothing goes elsewhere for it.              *)
LEMMA HomeMark ==
  ASSUME Typed, HomeInv, NEW a \in Admins, Mark(a)
  PROVE  HomeInv'
<1>1. PICK r : r = request[a]
  OBVIOUS
<1>2. r.pc = "mark" /\ UNCHANGED <<queues, hand>> /\ Bound(r)
  BY <1>1, MarkIs DEF HomeInv
<1>3. CASE Moved(a, NoRequest) /\ UNCHANGED dlq
  BY <1>2, <1>3, BoundTrivial, NoRequestIs, HomeMoved
<1>4. CASE ~ (Moved(a, NoRequest) /\ UNCHANGED dlq)
  <2>1. PICK s : /\ Moved(a, s) /\ s.pc = "drop" /\ Same(s, r)
                 /\ r.index \in DOMAIN dlq /\ DOMAIN dlq' = DOMAIN dlq
                 /\ dlq'[r.index] = Placeholder(a)
                 /\ \A i \in DOMAIN dlq : i # r.index => dlq'[i] = dlq[i]
    BY <1>1, <1>4, MarkIs
  <2>2. PICK t, at : t = dlq' /\ at = [i \in DOMAIN dlq |-> i]
    OBVIOUS
  <2>3. Placeholder(a).job \notin Jobs /\ Placeholder(a).tag = "none"
    BY Constants DEF Placeholder, Letter
  <2>4. DOMAIN t \in SUBSET Nat
    BY <2>1, <2>2, LettersAre
  <2>5. /\ at \in [DOMAIN t -> DOMAIN dlq] /\ \A i, k \in DOMAIN t : i < k => at[i] < at[k]
        /\ \A i \in DOMAIN t : i <= at[i] /\ (t[i] = dlq[at[i]] \/ (t[i].job \notin Jobs /\ t[i].tag = "none"))
    BY <2>1, <2>2, <2>3, <2>4
  <2>6. /\ \A i \in DOMAIN dlq' : Rightful(dlq'[i])
        /\ OldFirst' /\ \A x \in Entry : Bound(x) => Bound(x)'
    BY <2>2, <2>4, <2>5, HomeLetters
  <2>7. Bound(s)
    BY <1>2, <2>1 DEF Bound, Same
  <2>8. \A b \in Admins : Bound(request'[b]) /\ request'[b] \in Entry
    BY <2>1, <2>7 DEF HomeInv, Moved
  <2>9. \A b \in Admins : Bound(request[b])'
    BY <2>6, <2>8 DEF Bound
  <2>. QED
    BY <1>2, <2>6, <2>9 DEF HomeInv, BackToItsQueue, Homely
<1>. QED
  BY <1>3, <1>4

(* The letters left stay rightful.                                         *)
LEMMA HomeDrop ==
  ASSUME Typed, HomeInv, NEW a \in Admins, Drop(a)
  PROVE  HomeInv'
<1>1. PICK r : r = request[a]
  OBVIOUS
<1>2. /\ r.pc = "drop" /\ UNCHANGED <<queues, hand>> /\ Bound(r) /\ (dlq' = dlq \/ Shrunk(dlq, dlq'))
      /\ dlq' \in Seq(Letters)
  BY <1>1, DropIs DEF HomeInv
<1>3. PICK s : Moved(a, s) /\ Bound(s)
  <2>1. CASE Moved(a, NoRequest)
    BY <2>1, BoundTrivial, NoRequestIs
  <2>2. CASE ~ Moved(a, NoRequest)
    <3>1. PICK s : Moved(a, s) /\ s.pc = "push" /\ Same(s, r)
      BY <1>1, <2>2, DropIs
    <3>2. Bound(s)
      BY <1>2, <3>1 DEF Bound, Same
    <3>. QED
      BY <3>1, <3>2
  <2>. QED
    BY <2>1, <2>2
<1>4. /\ \A i \in DOMAIN dlq' : Rightful(dlq'[i])
      /\ OldFirst' /\ \A x \in Entry : Bound(x) => Bound(x)'
  <2>1. CASE dlq' = dlq
    BY <2>1 DEF HomeInv, OldFirst, Bound
  <2>2. CASE Shrunk(dlq, dlq')
    <3>1. PICK t : t = dlq'
      OBVIOUS
    <3>2. Shrunk(dlq, t)
      BY <2>2, <3>1
    <3>3. PICK at \in [DOMAIN t -> DOMAIN dlq] :
            /\ DOMAIN t \in SUBSET Nat
            /\ \A i \in DOMAIN t : t[i] = dlq[at[i]] /\ i <= at[i]
            /\ \A i, k \in DOMAIN t : i < k <=> at[i] < at[k]
      BY <3>2, ShrunkIs
    <3>. QED
      BY <3>1, <3>3, HomeLetters
  <2>. QED
    BY <1>2, <2>1, <2>2
<1>5. \A b \in Admins : Bound(request'[b]) /\ request'[b] \in Entry
  BY <1>3 DEF HomeInv, Moved
<1>6. \A b \in Admins : Bound(request[b])'
  BY <1>4, <1>5 DEF Bound
<1>. QED
  BY <1>2, <1>4, <1>6 DEF HomeInv, BackToItsQueue, Homely

(* A job that is pushed to its own queue is in its own.                    *)
LEMMA HomeAppended ==
  ASSUME Typed, HomeInv, NEW d \in Queues, NEW x \in Entries, x \in Jobs => HomeOf[x] = d,
         queues'[d] = Append(queues[d], x), \A p \in Queues : p # d => queues'[p] = queues[p]
  PROVE  BackToItsQueue'
<1> SUFFICES ASSUME NEW q \in Queues, NEW i \in DOMAIN queues'[q], queues'[q][i] \in Jobs
             PROVE  HomeOf[queues'[q][i]] = q
  BY DEF BackToItsQueue
<1>1. CASE q # d
  BY <1>1 DEF HomeInv, BackToItsQueue
<1>2. CASE q = d
  <2>1. PICK S : S = Entries
    OBVIOUS
  <2>2. queues[d] \in Seq(S) /\ x \in S
    BY <2>1 DEF Typed
  <2>3. PICK u, v : u = queues[d] /\ v = queues'[d]
    OBVIOUS
  <2>4. /\ Len(u) \in Nat /\ DOMAIN u = 1 .. Len(u) /\ DOMAIN v = 1 .. Len(u) + 1
        /\ v[Len(u) + 1] = x /\ \A k \in 1 .. Len(u) : v[k] = u[k]
    BY <2>2, <2>3, AppendIs
  <2>5. i \in 1 .. Len(u) \/ i = Len(u) + 1
    BY <1>2, <2>3, <2>4
  <2>6. CASE i \in 1 .. Len(u)
    BY <1>2, <2>3, <2>4, <2>6 DEF HomeInv, BackToItsQueue
  <2>7. CASE i = Len(u) + 1
    BY <1>2, <2>3, <2>4, <2>7
  <2>. QED
    BY <2>5, <2>6, <2>7
<1>. QED
  BY <1>1, <1>2

(* The job goes to the queue that gave it up.                              *)
LEMMA HomePush ==
  ASSUME Typed, HomeInv, NEW a \in Admins, Push(a)
  PROVE  HomeInv'
<1>1. PICK r, d : r = request[a] /\ d = IF r.payload.tag = "none" THEN r.queue ELSE r.payload.tag
  OBVIOUS
<1>2. /\ r.pc = "push" /\ UNCHANGED <<dlq, hand>> /\ d \in Queues /\ r.payload \in Letters
      /\ queues'[d] = Append(queues[d], r.payload.job) /\ \A p \in Queues : p # d => queues'[p] = queues[p]
  BY ONLY Typed, a \in Admins, Push(a), <1>1, PushIs, SMTT(30)
<1>3. PICK s : Moved(a, s) /\ s.pc \notin {"read", "mark", "drop", "push"}
  BY <1>1, PushIs, NoRequestIs
<1>4. Bound(r)
  BY <1>1 DEF HomeInv
<1>5. r.payload.job \in Entries /\ (r.payload.job \in Jobs => HomeOf[r.payload.job] = d)
  BY <1>1, <1>2, <1>4 DEF Bound, Rightful, Letters
<1>6. BackToItsQueue'
  <2>1. PICK x : x = r.payload.job
    OBVIOUS
  <2>. QED
    BY <1>2, <1>5, <2>1, HomeAppended
<1>7. \A b \in Admins : Bound(request'[b])
  BY <1>3, BoundTrivial DEF HomeInv, Moved
<1>8. \A b \in Admins : Bound(request[b])'
  BY <1>2, <1>7 DEF Bound
<1>. QED
  BY <1>2, <1>6, <1>8 DEF HomeInv, OldFirst, Homely

(* The jobs left in a queue are in their own.                              *)
LEMMA HomePopped ==
  ASSUME Typed, HomeInv, NEW q \in Queues, Popped(q)
  PROVE  BackToItsQueue'
<1> SUFFICES ASSUME NEW p \in Queues, NEW i \in DOMAIN queues'[p], queues'[p][i] \in Jobs
             PROVE  HomeOf[queues'[p][i]] = p
  BY DEF BackToItsQueue
<1>1. CASE p # q
  BY <1>1 DEF HomeInv, BackToItsQueue, Popped
<1>2. CASE p = q
  <2>1. i + 1 \in DOMAIN queues[q] /\ queues'[q][i] = queues[q][i + 1]
    BY <1>2 DEF Popped
  <2>. QED
    BY <1>2, <2>1 DEF HomeInv, BackToItsQueue
<1>. QED
  BY <1>1, <1>2

(* A coroutine that takes a job of the queue it is for is at home.         *)
LEMMA HomelyTaken ==
  ASSUME HomeInv, NEW w \in Coroutines, NEW h, Taken(w, h), Homely(h)
  PROVE  \A v \in Coroutines : Homely(hand'[v])
BY DEF HomeInv, Taken

(* What a coroutine takes from a queue is of that queue.                   *)
LEMMA HomePop ==
  ASSUME Typed, HomeInv, NEW w \in Coroutines, NEW q \in Queues, Pop(w, q)
  PROVE  HomeInv'
<1>1. PICK j : j = queues[q][1]
  OBVIOUS
<1>2. UNCHANGED <<dlq, request>> /\ Popped(q)
  BY <1>1, PopIs
<1>3. PICK h : Taken(w, h) /\ h.job = j /\ h.queue = q
  BY <1>1, PopIs
<1>4. j \in Jobs => HomeOf[j] = q
  <2>1. 1 \in DOMAIN queues[q]
    BY <1>2 DEF Popped
  <2>. QED
    BY <1>1, <2>1 DEF HomeInv, BackToItsQueue
<1>5. \A v \in Coroutines : Homely(hand'[v])
  BY <1>3, <1>4, HomelyTaken DEF Homely
<1>6. BackToItsQueue'
  BY <1>2, HomePopped
<1>. QED
  BY <1>2, <1>5, <1>6 DEF HomeInv, OldFirst, Bound

(* A coroutine that notes, or ends, sends nothing elsewhere.               *)
LEMMA HomeNotes ==
  ASSUME Typed, HomeInv, NEW w \in Coroutines, NEW h, Taken(w, h), UNCHANGED <<dlq, queues, request>>,
         h.pc = "idle" \/ (h.job = hand[w].job /\ h.queue = hand[w].queue /\ hand[w].pc # "idle")
  PROVE  HomeInv'
<1>1. Homely(h)
  BY DEF HomeInv, Homely
<1>2. \A v \in Coroutines : Homely(hand'[v])
  BY <1>1, HomelyTaken
<1>. QED
  BY <1>2 DEF HomeInv, OldFirst, BackToItsQueue, Bound

(* A job that is tried once more goes to the queue it was popped from.     *)
LEMMA HomeRequeue ==
  ASSUME Typed, HomeInv, NEW w \in Coroutines, Requeue(w)
  PROVE  HomeInv'
<1>1. PICK j, d : j = hand[w].job /\ d = hand[w].queue
  OBVIOUS
<1>2. /\ UNCHANGED <<dlq, request>> /\ j \in Jobs /\ d \in Queues /\ hand[w].pc = "running"
      /\ queues'[d] = Append(queues[d], j) /\ \A p \in Queues : p # d => queues'[p] = queues[p]
  BY <1>1, RequeueIs
<1>3. PICK h : Taken(w, h) /\ h.job = j /\ h.queue = d
  BY <1>1, RequeueIs
<1>4. HomeOf[j] = d /\ j \in Entries
  BY <1>1, <1>2 DEF HomeInv, Homely, Entries
<1>5. BackToItsQueue'
  BY <1>2, <1>4, HomeAppended
<1>6. \A v \in Coroutines : Homely(hand'[v])
  BY <1>3, <1>4, HomelyTaken DEF Homely
<1>. QED
  BY <1>2, <1>5, <1>6 DEF HomeInv, OldFirst, Bound

(* A job is buried with the tag of its own queue.                          *)
LEMMA HomeBury ==
  ASSUME Typed, HomeInv, NEW w \in Coroutines, Bury(w)
  PROVE  HomeInv'
<1>1. PICK h, q, N : h = hand[w].job /\ q = hand[w].queue /\ N = Len(dlq)
  OBVIOUS
<1>2. /\ UNCHANGED <<queues, request>> /\ h \in Jobs /\ q \in Queues /\ N \in Nat
      /\ DOMAIN dlq = 1 .. N /\ DOMAIN dlq' = 1 .. N + 1
      /\ dlq'[N + 1] = Letter(h, q) /\ \A i \in 1 .. N : dlq'[i] = dlq[i] /\ hand[w].pc = "running"
  BY <1>1, BuryIs
<1>3. HomeOf[h] = q
  <2>1. hand[w].pc # "idle"
    BY <1>1, BuryIs
  <2>. QED
    BY <1>1, <1>2, <2>1 DEF HomeInv, Homely
<1>4. Letter(h, q).tag = q /\ Letter(h, q).job = h /\ q # "none"
  BY <1>2, Constants DEF Letter
<1>5. \A i \in DOMAIN dlq' : i \in DOMAIN dlq \/ i = N + 1
  BY <1>2
<1>6. \A i \in DOMAIN dlq' : Rightful(dlq'[i])
  BY <1>2, <1>3, <1>4, <1>5 DEF HomeInv, Rightful
<1>7. OldFirst'
  <2> SUFFICES ASSUME NEW i \in DOMAIN dlq', NEW k \in DOMAIN dlq', i < k, dlq'[i].tag # "none"
               PROVE  dlq'[k].job \notin Jobs \/ dlq'[k].tag # "none"
    BY DEF OldFirst
  <2>1. CASE k = N + 1
    BY <1>2, <1>4, <2>1
  <2>2. CASE k # N + 1
    <3>1. k \in DOMAIN dlq /\ i \in DOMAIN dlq
      BY <1>2, <2>2
    <3>. QED
      BY <1>2, <3>1 DEF HomeInv, OldFirst
  <2>. QED
    BY <2>1, <2>2
<1>8. ASSUME NEW r \in Entry, Bound(r) PROVE Bound(r)'
  <2>1. ASSUME r.pc \in {"read", "mark"}, r.queue # "ai_analyze", NEW k \in DOMAIN dlq', k >= r.index
        PROVE  dlq'[k].job \notin Jobs \/ dlq'[k].tag # "none"
    <3>1. CASE k = N + 1
      BY <1>2, <1>4, <3>1
    <3>2. CASE k # N + 1
      BY <1>2, <1>5, <1>8, <2>1, <3>2 DEF Bound
    <3>. QED
      BY <3>1, <3>2
  <2>. QED
    BY <1>8, <2>1 DEF Bound
<1>9. \A b \in Admins : Bound(request[b])'
  <2>1. \A b \in Admins : Bound(request[b]) /\ request[b] \in Entry /\ request'[b] = request[b]
    BY <1>2 DEF HomeInv, Typed
  <2>. QED
    BY <1>8, <2>1 DEF Bound
<1>10. \A v \in Coroutines : Homely(hand'[v])
  <2>1. PICK g : Taken(w, g) /\ g.job = h /\ g.queue = q
    BY <1>1, BuryIs
  <2>. QED
    BY <1>3, <2>1, HomelyTaken DEF Homely
<1>. QED
  BY <1>2, <1>6, <1>7, <1>9, <1>10 DEF HomeInv, BackToItsQueue

(* Every step keeps the letters and the queues rightful.                   *)
LEMMA HomeNext ==
  ASSUME Typed, HomeInv, [Next]_vars
  PROVE  HomeInv'
<1>1. CASE UNCHANGED vars
  BY <1>1 DEF HomeInv, OldFirst, BackToItsQueue, Bound, Homely, vars
<1>2. ASSUME NEW w \in Coroutines, Conclude(w) PROVE HomeInv'
  BY <1>2, ConcludeIs, FreeIs, HomeNotes
<1>3. ASSUME NEW w \in Coroutines, NoteStep(w) PROVE HomeInv'
  <2>1. UNCHANGED <<dlq, queues, request>> /\ hand[w].pc # "idle"
    <3>1. hand[w].pc # "idle"
      BY <1>3 DEF NoteStep, Begin, Save, NoteRequeued, NoteBuried, Is
    <3>. QED
      BY <1>3, <3>1, NotesIs
  <2>2. PICK h : Taken(w, h) /\ Kept(h, hand[w])
    BY <1>3, NotesIs
  <2>. QED
    BY <2>1, <2>2, HomeNotes DEF Kept
<1>4. ASSUME NEW a \in Admins, NEW q \in Queues, NEW op \in {"retry", "remove"}, See(a, op, q) PROVE HomeInv'
  BY <1>4, SeeIs, BoundTrivial, HomeMoved DEF Stays
<1>5. ASSUME NEW a \in Admins, NEW j \in Jobs, Name(a, j) PROVE HomeInv'
  BY <1>5, NameIs, BoundTrivial, HomeMoved DEF Stays
<1>6. ASSUME NEW a \in Admins, NEW j \in Jobs, FindJob(a, j) PROVE HomeInv'
  BY <1>6, FindJobIs, BoundTrivial, HomeMoved DEF Stays
<1>7. ASSUME NEW a \in Admins, ListJobs(a) PROVE HomeInv'
  BY <1>7, ListJobsIs, BoundTrivial, HomeMoved DEF Stays
<1>8. ASSUME NEW a \in Admins, Look(a) PROVE HomeInv'
  BY <1>8, LookIs, NoRequestIs, BoundTrivial, HomeMoved DEF Stays
<1>9. ASSUME NEW a \in Admins, NoteRetry(a) PROVE HomeInv'
  BY <1>9, NoteIs, NoRequestIs, BoundTrivial, HomeMoved
<1>10. ASSUME NEW a \in Admins, ReadQueue(a) PROVE HomeInv'
  <2>1. Stays /\ \E s : Moved(a, s) /\ s.pc \notin {"read", "mark", "drop", "push"}
    <3>1. PICK r : r = request[a]
      OBVIOUS
    <3>2. r.pc = "queues" /\ Stays /\ \E new \in Seq(RowType) : Reads(a, new, "letters")
      BY <1>10, <3>1, ReadQueueIs
    <3>3. \E s : Moved(a, s) /\ s.pc \in {"queues", "letters"}
      BY <3>1, <3>2, ReadsIs DEF ReadOn
    <3>. QED
      BY <3>2, <3>3
  <2>. QED
    BY <2>1, BoundTrivial, HomeMoved DEF Stays
<1>11. ASSUME NEW a \in Admins, ReadLetters(a) PROVE HomeInv'
  <2>1. Stays /\ \E s : Moved(a, s) /\ s.pc \notin {"read", "mark", "drop", "push"}
    <3>1. PICK r : r = request[a]
      OBVIOUS
    <3>2. r.pc = "letters" /\ Stays /\ \E new \in Seq(RowType) : Reads(a, new, "answer")
      BY <1>11, <3>1, ReadLettersIs
    <3>3. \E s : Moved(a, s) /\ s.pc \in {"letters", "answer"}
      BY <3>1, <3>2, ReadsIs DEF ReadOn
    <3>. QED
      BY <3>2, <3>3
  <2>. QED
    BY <2>1, BoundTrivial, HomeMoved DEF Stays
<1>12. ASSUME NEW a \in Admins, Answer(a) PROVE HomeInv'
  BY <1>12, AnswerIs, NoRequestIs, BoundTrivial, HomeMoved DEF Stays
<1>13. CASE Crash
  <2>1. /\ UNCHANGED queues /\ \A a \in Admins : request'[a] = NoRequest
        /\ DOMAIN dlq' = DOMAIN dlq /\ \A w \in Coroutines : hand'[w] = Free
        /\ \A i \in DOMAIN dlq :
             dlq'[i] = IF dlq[i].job \in Admins THEN Letter("stale", "none") ELSE dlq[i]
    BY <1>13, CrashIs
  <2>2. PICK t, at : t = dlq' /\ at = [i \in DOMAIN dlq |-> i]
    OBVIOUS
  <2>3. Letter("stale", "none").job \notin Jobs /\ Letter("stale", "none").tag = "none"
    BY Constants DEF Letter
  <2>4. DOMAIN t \in SUBSET Nat
    BY <2>1, <2>2, LettersAre
  <2>5. /\ at \in [DOMAIN t -> DOMAIN dlq] /\ \A i, k \in DOMAIN t : i < k => at[i] < at[k]
        /\ \A i \in DOMAIN t : i <= at[i] /\ (t[i] = dlq[at[i]] \/ (t[i].job \notin Jobs /\ t[i].tag = "none"))
    BY <2>1, <2>2, <2>3, <2>4
  <2>6. (\A i \in DOMAIN dlq' : Rightful(dlq'[i])) /\ OldFirst'
    BY <2>2, <2>4, <2>5, HomeLetters
  <2>7. \A b \in Admins : Bound(request[b])'
    BY <2>1, NoRequestIs DEF Bound
  <2>8. \A w \in Coroutines : Homely(hand'[w])
    BY <2>1, FreeIs DEF Homely
  <2>. QED
    BY <2>1, <2>6, <2>7, <2>8 DEF HomeInv, BackToItsQueue
<1>. QED
  BY <1>1, <1>2, <1>3, <1>4, <1>5, <1>6, <1>7, <1>8, <1>9, <1>10, <1>11, <1>12, <1>13,
     HomeList, HomeRead, HomeMark, HomeDrop, HomePush, HomePop, HomeRequeue, HomeBury
     DEF Next, Work, Serve, NoteStep
-------------------------------------------------------------------------------
(* A request acts on what its user saw, while requests do not cross. *)

(* The same letters make the same listing.                                 *)
LEMMA ListedStays ==
  ASSUME UNCHANGED dlq
  PROVE  \A q : Listed(q)' = Listed(q)
BY Zenon DEF Listed

(* While requests do not cross, nobody but the one that steps asks.        *)
LEMMA OthersIdle ==
  ASSUME Typed, AimInv, NEW a \in Admins, (request[a].pc # "idle" /\ Count) \/ Begins(a), ~ crossed'
  PROVE  ~ crossed /\ \A b \in Admins : b # a => request[b].pc = "idle"
<1>1. CASE request[a].pc # "idle" /\ Count
  BY <1>1 DEF AimInv, Alone, Count
<1>2. CASE Begins(a)
  <2>1. crossed' = (crossed \/ \E b \in Admins \ {a} : ~ (request[b].pc = "idle"))
    BY <1>2 DEF Begins, Asks, At
  <2>2. crossed \in BOOLEAN
    BY DEF Typed
  <2>. QED
    BY <2>1, <2>2, Zenon
<1>. QED
  BY <1>1, <1>2

(* A step that moves one request alone, and aims it, keeps the aims.       *)
LEMMA AimMoved ==
  ASSUME Typed, AimInv, NEW a \in Admins, NEW s, Moved(a, s),
         (request[a].pc # "idle" /\ Count) \/ Begins(a), ~ crossed /\ ~ crossed' => Aim(s)'
  PROVE  AimInv'
<1> SUFFICES ASSUME ~ crossed' PROVE Alone' /\ \A b \in Admins : Aim(request[b])'
  BY DEF AimInv
<1>1. ~ crossed /\ \A b \in Admins : b # a => request[b].pc = "idle"
  BY OthersIdle
<1>2. \A b \in Admins : b # a => request'[b].pc = "idle"
  BY <1>1 DEF Moved
<1>3. \A b \in Admins : request'[b].pc # "idle" => b = a
  BY <1>2
<1>4. Alone'
  BY <1>3 DEF Alone
<1>5. \A b \in Admins : b # a => Aim(request[b])'
  BY <1>2 DEF Aim
<1>6. Aim(request[a])'
  BY <1>1 DEF Moved
<1>. QED
  BY <1>4, <1>5, <1>6

(* A request that points at nothing cannot miss.                           *)
LEMMA AimTrivial ==
  ASSUME NEW s, s.pc \notin {"list", "read", "mark", "drop", "push", "note"}
  PROVE  Aim(s)'
BY DEF Aim

(* A letter that is added moves nothing a request points at.               *)
LEMMA AimBury ==
  ASSUME Typed, AimInv, NEW w \in Coroutines, Bury(w)
  PROVE  AimInv'
<1>1. PICK h, q, N : h = hand[w].job /\ q = hand[w].queue /\ N = Len(dlq)
  OBVIOUS
<1>2. /\ UNCHANGED <<request, crossed>> /\ N \in Nat
      /\ Letter(h, q) \in Letters /\ dlq' = Append(dlq, Letter(h, q))
      /\ DOMAIN dlq = 1 .. N /\ DOMAIN dlq' = 1 .. N + 1 /\ \A i \in 1 .. N : dlq'[i] = dlq[i]
  BY <1>1, BuryIs DEF Count
<1>3. \A p : \A n \in DOMAIN Listed(p) :
        n \in DOMAIN Listed(p)' /\ Listed(p)'[n] = Listed(p)[n] /\ Listed(p)[n] \in DOMAIN dlq
  <2>1. PICK S : S = Letters
    OBVIOUS
  <2>2. dlq \in Seq(S) /\ Letter(h, q) \in S
    BY <1>2, <2>1 DEF Typed
  <2>. QED
    BY <1>2, <2>2, ListedGrows, ListedIs
<1>4. \A i \in DOMAIN dlq : i \in DOMAIN dlq' /\ dlq'[i] = dlq[i]
  BY <1>2
<1>5. ASSUME NEW r, Aim(r) PROVE Aim(r)'
  BY <1>3, <1>4, <1>5 DEF Aim
<1>. QED
  BY <1>2, <1>5 DEF AimInv, Alone

(* Every step keeps the requests pointing at what was seen.                *)
LEMMA AimNext ==
  ASSUME Typed, AimInv, [Next]_vars
  PROVE  AimInv'
<1>1. CASE UNCHANGED vars
  <2>1. UNCHANGED <<dlq, request, crossed>>
    BY <1>1 DEF vars
  <2>. QED
    BY <2>1, ListedStays DEF AimInv, Alone, Aim
<1>2. ASSUME NEW w \in Coroutines,
             NoteStep(w) \/ Conclude(w) \/ Requeue(w) \/ \E q \in Queues : Pop(w, q)
      PROVE  AimInv'
  <2>1. UNCHANGED <<dlq, request, crossed>>
    BY <1>2, NotesIs, ConcludeIs, RequeueIs, PopIs DEF Count
  <2>. QED
    BY <2>1, ListedStays DEF AimInv, Alone, Aim
<1>3. ASSUME NEW w \in Coroutines, Bury(w) PROVE AimInv'
  BY <1>3, AimBury
<1>4. ASSUME NEW a \in Admins, NEW q \in Queues, NEW op \in {"retry", "remove"}, See(a, op, q) PROVE AimInv'
  <2>1. PICK s : /\ Moved(a, s) /\ s.pc = "list" /\ s.queue = q /\ s.index \in DOMAIN Listed(q)
                 /\ s.seen = dlq[Listed(q)[s.index]].job
    BY <1>4, SeeIs
  <2>2. Begins(a) /\ UNCHANGED dlq
    BY <1>4, SeeIs DEF Stays
  <2>3. Aim(s)'
    BY <2>1, <2>2, ListedStays DEF Aim
  <2>. QED
    BY <2>1, <2>2, <2>3, AimMoved
<1>5. ASSUME NEW a \in Admins, NEW j \in Jobs, Name(a, j) PROVE AimInv'
  BY <1>5, NameIs, AimTrivial, AimMoved
<1>6. ASSUME NEW a \in Admins, NEW j \in Jobs, FindJob(a, j) PROVE AimInv'
  BY <1>6, FindJobIs, AimTrivial, AimMoved
<1>7. ASSUME NEW a \in Admins, ListJobs(a) PROVE AimInv'
  BY <1>7, ListJobsIs, AimTrivial, AimMoved
<1>8. ASSUME NEW a \in Admins, Look(a) PROVE AimInv'
  <2>1. request[a].pc # "idle" /\ Count /\ UNCHANGED dlq
    BY <1>8, LookIs DEF Stays
  <2>2. PICK s : /\ Moved(a, s)
                 /\ \/ s.pc \notin {"list", "read", "mark", "drop", "push", "note"}
                    \/ /\ s.pc = "list" /\ s.index \in DOMAIN Listed(s.queue)
                       /\ dlq[Listed(s.queue)[s.index]].job = s.seen
    BY <1>8, LookIs, NoRequestIs
  <2>3. Aim(s)'
    BY <2>1, <2>2, ListedStays DEF Aim
  <2>. QED
    BY <2>1, <2>2, <2>3, AimMoved
<1>9. ASSUME NEW a \in Admins, List(a) PROVE AimInv'
  <2>1. PICK r : r = request[a]
    OBVIOUS
  <2>2. r.pc = "list" /\ Count /\ UNCHANGED dlq
    BY <1>9, <2>1, ListIs DEF Stays
  <2>3. PICK s : /\ Moved(a, s)
                 /\ \/ s.pc = "idle"
                    \/ /\ s.pc = "read" /\ Same(s, r) /\ s.index = Listed(r.queue)[r.index]
                       /\ s.index \in DOMAIN dlq
    BY <1>9, <2>1, ListIs, NoRequestIs
  <2>4. ~ crossed => Aim(r)
    BY <2>1 DEF AimInv
  <2>5. ~ crossed => Aim(s)'
    BY <2>2, <2>3, <2>4 DEF Aim, Same
  <2>. QED
    BY <2>1, <2>2, <2>3, <2>5, AimMoved
<1>10. ASSUME NEW a \in Admins, Read(a) PROVE AimInv'
  <2>1. PICK r : r = request[a]
    OBVIOUS
  <2>2. r.pc = "read" /\ Count /\ UNCHANGED dlq
    BY <1>10, <2>1, ReadIs DEF Stays
  <2>3. PICK s : /\ Moved(a, s)
                 /\ \/ s.pc = "idle"
                    \/ /\ s.pc = "mark" /\ s.seen = r.seen /\ s.index = r.index
                       /\ s.index \in DOMAIN dlq /\ s.payload = dlq[s.index]
    BY <1>10, <2>1, ReadIs, NoRequestIs
  <2>4. ~ crossed => Aim(r)
    BY <2>1 DEF AimInv
  <2>5. ~ crossed => Aim(s)'
    BY <2>2, <2>3, <2>4 DEF Aim
  <2>. QED
    BY <2>1, <2>2, <2>3, <2>5, AimMoved
<1>11. ASSUME NEW a \in Admins, Mark(a) PROVE AimInv'
  <2>1. PICK r : r = request[a]
    OBVIOUS
  <2>2. r.pc = "mark" /\ Count
    BY <1>11, <2>1, MarkIs
  <2>3. PICK s : Moved(a, s) /\ (s.pc = "idle" \/ (s.pc = "drop" /\ Same(s, r)))
    BY <1>11, <2>1, MarkIs, NoRequestIs
  <2>4. ~ crossed => Aim(r)
    BY <2>1 DEF AimInv
  <2>5. ~ crossed => Aim(s)'
    BY <2>2, <2>3, <2>4 DEF Aim, Same
  <2>. QED
    BY <2>1, <2>2, <2>3, <2>5, AimMoved
<1>12. ASSUME NEW a \in Admins, Drop(a) PROVE AimInv'
  <2>1. PICK r : r = request[a]
    OBVIOUS
  <2>2. r.pc = "drop" /\ Count
    BY <1>12, <2>1, DropIs
  <2>3. PICK s : Moved(a, s) /\ (s.pc = "idle" \/ (s.pc = "push" /\ Same(s, r)))
    BY <1>12, <2>1, DropIs, NoRequestIs
  <2>4. ~ crossed => Aim(r)
    BY <2>1 DEF AimInv
  <2>5. ~ crossed => Aim(s)'
    BY <2>2, <2>3, <2>4 DEF Aim, Same
  <2>. QED
    BY <2>1, <2>2, <2>3, <2>5, AimMoved
<1>13. ASSUME NEW a \in Admins, Push(a) PROVE AimInv'
  <2>1. PICK r : r = request[a]
    OBVIOUS
  <2>2. r.pc = "push" /\ Count
    BY <1>13, <2>1, PushIs
  <2>3. PICK s : Moved(a, s) /\ (s.pc = "idle" \/ (s.pc = "note" /\ Same(s, r)))
    BY <1>13, <2>1, PushIs, NoRequestIs
  <2>4. ~ crossed => Aim(r)
    BY <2>1 DEF AimInv
  <2>5. ~ crossed => Aim(s)'
    BY <2>2, <2>3, <2>4 DEF Aim, Same
  <2>. QED
    BY <2>1, <2>2, <2>3, <2>5, AimMoved
<1>14. ASSUME NEW a \in Admins, NoteRetry(a) PROVE AimInv'
  BY <1>14, NoteIs, NoRequestIs, AimTrivial, AimMoved
<1>15. ASSUME NEW a \in Admins, ReadQueue(a) PROVE AimInv'
  <2>1. PICK r : r = request[a]
    OBVIOUS
  <2>2. r.pc = "queues" /\ Count /\ \E new \in Seq(RowType) : Reads(a, new, "letters")
    BY <1>15, <2>1, ReadQueueIs
  <2>3. \E s : Moved(a, s) /\ s.pc \in {"queues", "letters"}
    BY <2>1, <2>2, ReadsIs DEF ReadOn
  <2>. QED
    BY <2>1, <2>2, <2>3, AimTrivial, AimMoved
<1>16. ASSUME NEW a \in Admins, ReadLetters(a) PROVE AimInv'
  <2>1. PICK r : r = request[a]
    OBVIOUS
  <2>2. r.pc = "letters" /\ Count /\ \E new \in Seq(RowType) : Reads(a, new, "answer")
    BY <1>16, <2>1, ReadLettersIs
  <2>3. \E s : Moved(a, s) /\ s.pc \in {"letters", "answer"}
    BY <2>1, <2>2, ReadsIs DEF ReadOn
  <2>. QED
    BY <2>1, <2>2, <2>3, AimTrivial, AimMoved
<1>17. ASSUME NEW a \in Admins, Answer(a) PROVE AimInv'
  BY <1>17, AnswerIs, NoRequestIs, AimTrivial, AimMoved
<1>18. CASE Crash
  <2>1. \A a \in Admins : request'[a].pc = "idle"
    BY <1>18, CrashIs, NoRequestIs
  <2>. QED
    BY <2>1 DEF AimInv, Alone, Aim
<1>. QED
  BY <1>1, <1>2, <1>3, <1>4, <1>5, <1>6, <1>7, <1>8, <1>9, <1>10, <1>11, <1>12, <1>13, <1>14,
     <1>15, <1>16, <1>17, <1>18 DEF Next, Work, Serve, NoteStep
-------------------------------------------------------------------------------
(* A job is in one place, while requests do not cross. *)

(* Where a job that a step leaves alone is. *)
Put(j) ==
  /\ InDlq(j)' <=> InDlq(j)
  /\ \A q \in Queues : InQueue(j, q)' <=> InQueue(j, q)
  /\ Held(j)' <=> Held(j)
  /\ Worked(j)' <=> Worked(j)
  /\ over'[j] = over[j]

(* A job that is put down is there and nowhere else.                       *)
LEMMA PutIs ==
  ASSUME NEW j \in Jobs, Somewhere(j), OnlyThere(j), Put(j)
  PROVE  Somewhere(j)' /\ OnlyThere(j)'
BY DEF Somewhere, OnlyThere, Put

(* A coroutine that has what it had leaves the hands as they were.         *)
LEMMA WorkedTaken ==
  ASSUME NEW w \in Coroutines, NEW h, Taken(w, h), NEW j, Works(h, j) <=> Works(hand[w], j)
  PROVE  Worked(j)' <=> Worked(j)
<1>1. \A v \in Coroutines : Works(hand'[v], j) <=> Works(hand[v], j)
  BY DEF Taken
<1>2. Worked(j)' <=> \E v \in Coroutines : Works(hand'[v], j)
  BY DEF Worked, Works
<1>. QED
  BY <1>1, <1>2 DEF Worked

(* One that takes nothing has no job in common with another.               *)
LEMMA HandsTaken ==
  ASSUME OneByOne, NEW w \in Coroutines, NEW h, Taken(w, h),
         \A j \in Jobs : Works(h, j) => Works(hand[w], j)
  PROVE  \A u, v \in Coroutines : \A j \in Jobs : Works(hand'[u], j) /\ Works(hand'[v], j) => u = v
<1>1. \A v \in Coroutines : \A j \in Jobs : Works(hand'[v], j) => Works(hand[v], j)
  BY DEF Taken
<1>. QED
  BY <1>1 DEF OneByOne

(* What a coroutine lets go of is in no hands.                             *)
LEMMA WorkedLess ==
  ASSUME OneByOne, NEW w \in Coroutines, NEW h, Taken(w, h), NEW j \in Jobs,
         Works(hand[w], j), ~ Works(h, j)
  PROVE  ~ Worked(j)'
<1>1. \A v \in Coroutines : Works(hand[v], j) => v = w
  BY DEF OneByOne
<1>2. \A v \in Coroutines : ~ Works(hand'[v], j)
  BY <1>1 DEF Taken
<1>. QED
  BY <1>2 DEF Worked, Works

(* A request that holds what it held changes no holding.                   *)
LEMMA HeldMoved ==
  ASSUME NEW a \in Admins, NEW s, Moved(a, s), NEW j, Holds(s, j) <=> Holds(request[a], j)
  PROVE  Held(j)' <=> Held(j)
<1>1. \A b \in Admins : Holds(request'[b], j) <=> Holds(request[b], j)
  BY DEF Moved
<1>2. Held(j)' <=> \E b \in Admins : Holds(request'[b], j)
  BY DEF Held, Holds
<1>. QED
  BY <1>1, <1>2 DEF Held

(* A step that moves no letter keeps each job where it is.                 *)
LEMMA PlaceMoved ==
  ASSUME Typed, PlaceInv, NEW a \in Admins, NEW s, Moved(a, s), UNCHANGED <<dlq, queues, hand, over>>,
         ~ crossed' => ~ crossed, \A j \in Jobs : Holds(s, j) <=> Holds(request[a], j)
  PROVE  PlaceInv'
<1> SUFFICES ASSUME ~ crossed' PROVE OneByOne' /\ \A j \in Jobs : Somewhere(j)' /\ OnlyThere(j)'
  BY DEF PlaceInv
<1>1. OneByOne'
  BY DEF PlaceInv, OneByOne
<1>2. ASSUME NEW j \in Jobs PROVE Put(j)
  BY HeldMoved DEF Put, InDlq, InQueue, Worked
<1>. QED
  BY <1>1, <1>2, PutIs DEF PlaceInv

(* Requests that have crossed have crossed for good.                       *)
LEMMA BeginsUncrossed ==
  ASSUME Typed, NEW a \in Admins, Begins(a)
  PROVE  ~ crossed' => ~ crossed
<1>1. crossed' = (crossed \/ \E b \in Admins \ {a} : ~ (request[b].pc = "idle"))
  BY DEF Begins, Asks, At
<1>2. crossed \in BOOLEAN
  BY DEF Typed
<1>. QED
  BY <1>1, <1>2, Zenon

(* A request that is not between LREM and RPUSH holds no job.              *)
LEMMA HoldsNothing ==
  ASSUME NEW s, s.pc \notin {"drop", "push"}
  PROVE  \A j \in Jobs : ~ Holds(s, j)
BY DEF Holds

(* A request that begins moves no job.                                     *)
LEMMA PlaceBegins ==
  ASSUME Typed, PlaceInv, NEW a \in Admins, NEW s, Moved(a, s), s.pc \notin {"drop", "push"}, Stays,
         Begins(a)
  PROVE  PlaceInv'
<1>1. request[a].pc \notin {"drop", "push"}
  BY DEF Begins
<1>2. ~ crossed' => ~ crossed
  BY BeginsUncrossed
<1>3. \A j \in Jobs : Holds(s, j) <=> Holds(request[a], j)
  BY <1>1, HoldsNothing
<1>. QED
  BY <1>2, <1>3, PlaceMoved DEF Stays

(* Nor does one that reads.                                                *)
LEMMA PlaceGoesOn ==
  ASSUME Typed, PlaceInv, NEW a \in Admins, NEW s, Moved(a, s), s.pc \notin {"drop", "push"},
         UNCHANGED <<dlq, queues, hand, over>>, Count, request[a].pc \notin {"drop", "push"}
  PROVE  PlaceInv'
<1>1. \A j \in Jobs : Holds(s, j) <=> Holds(request[a], j)
  BY HoldsNothing
<1>. QED
  BY <1>1, PlaceMoved DEF Count

(* The head of a queue leaves it: a job is there no longer.                *)
LEMMA PlacePopped ==
  ASSUME Typed, OneByOne, NEW q \in Queues, Popped(q), NEW h, h = queues[q][1]
  PROVE  /\ InQueue(h, q) /\ (h \in Jobs => ~ InQueue(h, q)')
         /\ \A j : j # h => \A p \in Queues : InQueue(j, p)' <=> InQueue(j, p)
         /\ \A p \in Queues : p # q => \A j : InQueue(j, p)' <=> InQueue(j, p)
         /\ \A p \in Queues : \A i, k \in DOMAIN queues'[p] :
              queues'[p][i] \in Jobs /\ queues'[p][i] = queues'[p][k] => i = k
<1>1. PICK n, s, t : n = Len(queues[q]) /\ s = queues[q] /\ t = queues'[q]
  OBVIOUS
<1>2. /\ n \in Nat \ {0} /\ DOMAIN s = 1 .. n /\ DOMAIN t = 1 .. n - 1
      /\ \A i \in 1 .. n - 1 : t[i] = s[i + 1]
      /\ \A p \in Queues : p # q => queues'[p] = queues[p]
      /\ s[1] = h
  BY <1>1 DEF Popped
<1>3. \A i, k \in 1 .. n : s[i] \in Jobs /\ s[i] = s[k] => i = k
  BY <1>1, <1>2 DEF OneByOne
<1>4. 1 \in 1 .. n /\ \A i \in 1 .. n - 1 : i + 1 \in 1 .. n /\ i + 1 # 1
  BY <1>2
<1>5. \A i, k \in 1 .. n - 1 : t[i] \in Jobs /\ t[i] = t[k] => i = k
  <2> SUFFICES ASSUME NEW i \in 1 .. n - 1, NEW k \in 1 .. n - 1, t[i] \in Jobs, t[i] = t[k] PROVE i = k
    OBVIOUS
  <2>1. i + 1 = k + 1
    BY <1>2, <1>3, <1>4
  <2>. QED
    BY <1>2, <2>1
<1>6. InQueue(h, q)
  BY <1>1, <1>2, <1>4 DEF InQueue
<1>7. h \in Jobs => \A i \in 1 .. n - 1 : t[i] # h
  BY <1>2, <1>3, <1>4
<1>8. ASSUME NEW j, j # h PROVE (\E i \in 1 .. n : s[i] = j) <=> (\E i \in 1 .. n - 1 : t[i] = j)
  <2>1. ASSUME NEW i \in 1 .. n, s[i] = j PROVE \E k \in 1 .. n - 1 : t[k] = j
    <3>1. i # 1
      BY <1>2, <1>8, <2>1
    <3>2. i - 1 \in 1 .. n - 1 /\ (i - 1) + 1 = i
      BY <1>2, <3>1
    <3>. QED
      BY <1>2, <2>1, <3>2
  <2>2. ASSUME NEW k \in 1 .. n - 1, t[k] = j PROVE \E i \in 1 .. n : s[i] = j
    BY <1>2, <1>4, <2>2
  <2>. QED
    BY <2>1, <2>2
<1>9. \A p \in Queues : p # q => \A j : InQueue(j, p)' <=> InQueue(j, p)
  BY <1>2 DEF InQueue
<1>10. \A j : j # h => (InQueue(j, q)' <=> InQueue(j, q))
  BY <1>1, <1>2, <1>8 DEF InQueue
<1>11. h \in Jobs => ~ InQueue(h, q)'
  BY <1>1, <1>2, <1>7 DEF InQueue
<1>12. ASSUME NEW p \in Queues, NEW i \in DOMAIN queues'[p], NEW k \in DOMAIN queues'[p],
              queues'[p][i] \in Jobs, queues'[p][i] = queues'[p][k]
       PROVE  i = k
  <2>1. CASE p = q
    BY <1>1, <1>2, <1>5, <1>12, <2>1
  <2>2. CASE p # q
    BY <1>2, <1>12, <2>2 DEF OneByOne
  <2>. QED
    BY <2>1, <2>2
<1>. QED
  BY <1>6, <1>9, <1>10, <1>11, <1>12

(* What is pushed is in that queue, and nothing else has moved.            *)
LEMMA PlaceAppended ==
  ASSUME Typed, OneByOne, NEW d \in Queues, NEW h \in Entries, queues'[d] = Append(queues[d], h),
         \A p \in Queues : p # d => queues'[p] = queues[p],
         h \in Jobs => \A q \in Queues : ~ InQueue(h, q)
  PROVE  /\ InQueue(h, d)'
         /\ \A j : j # h => \A q \in Queues : InQueue(j, q)' <=> InQueue(j, q)
         /\ \A q \in Queues : q # d => \A j : InQueue(j, q)' <=> InQueue(j, q)
         /\ \A p \in Queues : \A i, k \in DOMAIN queues'[p] :
              queues'[p][i] \in Jobs /\ queues'[p][i] = queues'[p][k] => i = k
<1>1. PICK u, v : u = queues[d] /\ v = queues'[d]
  OBVIOUS
<1>2. /\ Len(u) \in Nat /\ DOMAIN u = 1 .. Len(u) /\ DOMAIN v = 1 .. Len(u) + 1
      /\ v[Len(u) + 1] = h /\ \A k \in 1 .. Len(u) : v[k] = u[k]
  <2>1. PICK S : S = Entries
    OBVIOUS
  <2>2. u \in Seq(S) /\ h \in S
    BY <1>1, <2>1 DEF Typed
  <2>3. v = Append(u, h)
    BY <1>1
  <2>. QED
    BY ONLY <2>2, <2>3, AppendIs
<1>3. \A i \in DOMAIN v : i \in DOMAIN u \/ i = Len(u) + 1
  BY <1>2
<1>4. ASSUME NEW p \in Queues, NEW i \in DOMAIN queues'[p], NEW k \in DOMAIN queues'[p],
             queues'[p][i] \in Jobs, queues'[p][i] = queues'[p][k]
      PROVE  i = k
  <2>1. \A x, y \in DOMAIN u : u[x] \in Jobs /\ u[x] = u[y] => x = y
    BY <1>1 DEF OneByOne
  <2>2. h \in Jobs => \A x \in DOMAIN u : u[x] # h
    BY <1>1 DEF InQueue
  <2>3. \A x, y \in DOMAIN v : v[x] \in Jobs /\ v[x] = v[y] => x = y
    BY ONLY <1>2, <1>3, <2>1, <2>2
  <2>4. CASE p = d
    BY <1>1, <2>3, <1>4, <2>4
  <2>5. CASE p # d
    BY <1>4, <2>5 DEF OneByOne
  <2>. QED
    BY <2>4, <2>5
<1>5. InQueue(h, d)' /\ \A j : j # h => (InQueue(j, d)' <=> InQueue(j, d))
  <2>1. (\E i \in DOMAIN v : v[i] = h)
        /\ \A j : j # h => ((\E i \in DOMAIN v : v[i] = j) <=> (\E i \in DOMAIN u : u[i] = j))
    <3>1. Len(u) + 1 \in DOMAIN v /\ \A i \in DOMAIN u : i \in DOMAIN v /\ v[i] = u[i]
      BY <1>2
    <3>. QED
      BY ONLY <1>2, <1>3, <3>1
  <2>. QED
    BY <1>1, <2>1 DEF InQueue
<1>6. \A q \in Queues : q # d => \A j : InQueue(j, q)' <=> InQueue(j, q)
  BY DEF InQueue
<1>. QED
  BY <1>4, <1>5, <1>6

(* What is popped goes from its queue to the hands of a coroutine.         *)
LEMMA PlacePop ==
  ASSUME Typed, PlaceInv, NEW w \in Coroutines, NEW q \in Queues, Pop(w, q)
  PROVE  PlaceInv'
<1> SUFFICES ASSUME ~ crossed' PROVE OneByOne' /\ \A j \in Jobs : Somewhere(j)' /\ OnlyThere(j)'
  BY DEF PlaceInv
<1>1. PICK h : h = queues[q][1]
  OBVIOUS
<1>2. Popped(q) /\ UNCHANGED <<dlq, request, over>> /\ Count /\ hand[w].pc = "idle"
  BY <1>1, PopIs
<1>3. PICK g : Taken(w, g) /\ g.pc = "waiting" /\ g.job = h /\ g.queue = q
  BY <1>1, PopIs
<1>4. OneByOne /\ \A j \in Jobs : Somewhere(j) /\ OnlyThere(j)
  BY <1>2 DEF PlaceInv, Count
<1>5. /\ InQueue(h, q) /\ (h \in Jobs => ~ InQueue(h, q)')
      /\ \A j : j # h => \A p \in Queues : InQueue(j, p)' <=> InQueue(j, p)
      /\ \A p \in Queues : p # q => \A j : InQueue(j, p)' <=> InQueue(j, p)
      /\ \A p \in Queues : \A i, k \in DOMAIN queues'[p] :
           queues'[p][i] \in Jobs /\ queues'[p][i] = queues'[p][k] => i = k
  BY <1>1, <1>2, <1>4, PlacePopped
<1>6. \A j : (Works(g, j) <=> j = h) /\ ~ Works(hand[w], j)
  BY <1>2, <1>3 DEF Works
<1>7. h \in Jobs => /\ over[h] = {} /\ ~ Held(h) /\ ~ InDlq(h) /\ ~ Worked(h)
                    /\ \A p \in Queues : InQueue(h, p) => p = q
  BY <1>4, <1>5 DEF OnlyThere
<1>8. OneByOne'
  <2>1. ASSUME NEW u \in Coroutines, NEW v \in Coroutines, NEW j \in Jobs,
               Works(hand'[u], j), Works(hand'[v], j)
        PROVE  u = v
    <3>1. CASE j = h
      <4>1. \A x \in Coroutines : ~ Works(hand[x], h)
        BY <1>7, <2>1, <3>1 DEF Worked
      <4>2. \A x \in Coroutines : x # w => ~ Works(hand'[x], h)
        BY <1>3, <4>1 DEF Taken
      <4>. QED
        BY <2>1, <3>1, <4>2
    <3>2. CASE j # h
      <4>1. \A x \in Coroutines : Works(hand'[x], j) => Works(hand[x], j)
        BY <1>3, <1>6, <3>2 DEF Taken
      <4>. QED
        BY <1>4, <2>1, <4>1 DEF OneByOne
    <3>. QED
      BY <3>1, <3>2
  <2>. QED
    BY <1>2, <1>4, <1>5, <2>1 DEF OneByOne
<1>9. \A j \in Jobs : (InDlq(j)' <=> InDlq(j)) /\ (Held(j)' <=> Held(j)) /\ over'[j] = over[j]
  BY <1>2 DEF InDlq, Held, Holds
<1>10. ASSUME NEW j \in Jobs, j # h PROVE Somewhere(j)' /\ OnlyThere(j)'
  <2>1. Worked(j)' <=> Worked(j)
    BY <1>3, <1>6, <1>10, WorkedTaken
  <2>2. Put(j)
    BY <1>5, <1>9, <1>10, <2>1 DEF Put
  <2>. QED
    BY <1>4, <2>2, PutIs
<1>11. ASSUME h \in Jobs PROVE Somewhere(h)' /\ OnlyThere(h)'
  <2>1. Worked(h)'
    <3>1. Works(hand'[w], h)
      BY <1>3, <1>6 DEF Taken
    <3>. QED
      BY <3>1 DEF Worked, Works
  <2>2. ~ InDlq(h)' /\ ~ Held(h)' /\ over'[h] = {} /\ \A p \in Queues : ~ InQueue(h, p)'
    BY <1>5, <1>7, <1>9, <1>11
  <2>. QED
    BY <2>1, <2>2 DEF Somewhere, OnlyThere
<1>. QED
  BY <1>8, <1>10, <1>11

(* What a coroutine notes moves no job.                                    *)
LEMMA PlaceNotes ==
  ASSUME Typed, PlaceInv, NEW w \in Coroutines, NoteStep(w)
  PROVE  PlaceInv'
<1> SUFFICES ASSUME ~ crossed' PROVE OneByOne' /\ \A j \in Jobs : Somewhere(j)' /\ OnlyThere(j)'
  BY DEF PlaceInv
<1>1. UNCHANGED <<dlq, queues, request, over>> /\ Count
  BY NotesIs
<1>2. PICK h : Taken(w, h) /\ Kept(h, hand[w])
  BY NotesIs
<1>3. OneByOne /\ \A j \in Jobs : Somewhere(j) /\ OnlyThere(j)
  BY <1>1 DEF PlaceInv, Count
<1>4. \A u, v \in Coroutines : \A j \in Jobs : Works(hand'[u], j) /\ Works(hand'[v], j) => u = v
  BY <1>2, <1>3, HandsTaken DEF Kept
<1>5. OneByOne'
  BY <1>1, <1>3, <1>4 DEF OneByOne
<1>6. ASSUME NEW j \in Jobs PROVE Put(j)
  <2>1. Worked(j)' <=> Worked(j)
    BY <1>2, WorkedTaken DEF Kept
  <2>. QED
    BY <1>1, <2>1 DEF Put, InDlq, InQueue, Held, Holds
<1>. QED
  BY <1>3, <1>5, <1>6, PutIs

(* A job that is done with is over, and in no hands any longer.            *)
LEMMA PlaceConclude ==
  ASSUME Typed, PlaceInv, NEW w \in Coroutines, Conclude(w)
  PROVE  PlaceInv'
<1> SUFFICES ASSUME ~ crossed' PROVE OneByOne' /\ \A j \in Jobs : Somewhere(j)' /\ OnlyThere(j)'
  BY DEF PlaceInv
<1>1. PICK h : h = hand[w].job
  OBVIOUS
<1>2. /\ UNCHANGED <<dlq, queues, request>> /\ Count /\ h \in Jobs /\ Works(hand[w], h)
      /\ Taken(w, Free) /\ over' = [over EXCEPT ![h] = @ \cup {"done"}]
  BY <1>1, ConcludeIs
<1>3. OneByOne /\ \A j \in Jobs : Somewhere(j) /\ OnlyThere(j)
  BY <1>2 DEF PlaceInv, Count
<1>4. OneByOne'
  <2>1. \A u, v \in Coroutines : \A j \in Jobs : Works(hand'[u], j) /\ Works(hand'[v], j) => u = v
    BY <1>2, <1>3, FreeIs, HandsTaken
  <2>. QED
    BY <1>2, <1>3, <2>1 DEF OneByOne
<1>5. over \in [Jobs -> SUBSET {"done", "removed", "lost"}]
  BY DEF Typed
<1>6. \A j \in Jobs : /\ InDlq(j)' <=> InDlq(j)
                      /\ Held(j)' <=> Held(j)
                      /\ \A q \in Queues : InQueue(j, q)' <=> InQueue(j, q)
  BY <1>2 DEF InDlq, Held, Holds, InQueue
<1>7. ASSUME NEW j \in Jobs, j # h PROVE Somewhere(j)' /\ OnlyThere(j)'
  <2>1. over'[j] = over[j]
    BY <1>2, <1>5, <1>7
  <2>2. ~ Works(hand[w], j)
    BY <1>1, <1>7 DEF Works
  <2>3. Worked(j)' <=> Worked(j)
    BY <1>2, <2>2, FreeIs, WorkedTaken
  <2>4. Put(j)
    BY <1>6, <2>1, <2>3 DEF Put
  <2>. QED
    BY <1>3, <2>4, PutIs
<1>8. Somewhere(h)' /\ OnlyThere(h)'
  <2>1. Worked(h)
    BY <1>2 DEF Worked
  <2>2. over[h] = {} /\ ~ Held(h) /\ ~ InDlq(h) /\ \A q \in Queues : ~ InQueue(h, q)
    BY <1>2, <1>3, <2>1 DEF OnlyThere
  <2>3. over'[h] = {"done"}
    BY <1>2, <1>5, <2>2
  <2>4. ~ Worked(h)'
    BY <1>2, <1>3, FreeIs, WorkedLess
  <2>. QED
    BY <1>2, <1>6, <2>2, <2>3, <2>4 DEF Somewhere, OnlyThere
<1>. QED
  BY <1>4, <1>7, <1>8

(* A job that is to be tried again goes from the coroutine to its queue.   *)
LEMMA PlaceRequeue ==
  ASSUME Typed, PlaceInv, NEW w \in Coroutines, Requeue(w)
  PROVE  PlaceInv'
<1> SUFFICES ASSUME ~ crossed' PROVE OneByOne' /\ \A j \in Jobs : Somewhere(j)' /\ OnlyThere(j)'
  BY DEF PlaceInv
<1>1. PICK h, d : h = hand[w].job /\ d = hand[w].queue
  OBVIOUS
<1>2. /\ UNCHANGED <<dlq, request, over>> /\ Count /\ h \in Jobs /\ d \in Queues /\ Works(hand[w], h)
      /\ queues'[d] = Append(queues[d], h) /\ \A p \in Queues : p # d => queues'[p] = queues[p]
  BY <1>1, RequeueIs DEF Count
<1>3. PICK g : Taken(w, g) /\ g.pc = "retrying" /\ g.job = h /\ g.queue = d
  BY <1>1, RequeueIs
<1>4. OneByOne /\ \A j \in Jobs : Somewhere(j) /\ OnlyThere(j)
  BY <1>2 DEF PlaceInv, Count
<1>5. over[h] = {} /\ ~ Held(h) /\ ~ InDlq(h) /\ \A q \in Queues : ~ InQueue(h, q)
  <2>1. Worked(h)
    BY <1>2 DEF Worked
  <2>. QED
    BY <1>2, <1>4, <2>1 DEF OnlyThere
<1>6. /\ InQueue(h, d)'
      /\ \A j : j # h => \A q \in Queues : InQueue(j, q)' <=> InQueue(j, q)
      /\ \A q \in Queues : q # d => \A j : InQueue(j, q)' <=> InQueue(j, q)
      /\ \A p \in Queues : \A i, k \in DOMAIN queues'[p] :
           queues'[p][i] \in Jobs /\ queues'[p][i] = queues'[p][k] => i = k
  <2>1. h \in Entries
    BY <1>2 DEF Entries
  <2>. QED
    BY ONLY Typed, <1>2, <1>4, <1>5, <2>1, PlaceAppended, ZenonT(40)
<1>7. \A j : ~ Works(g, j)
  BY <1>3 DEF Works
<1>8. OneByOne'
  <2>1. \A u, v \in Coroutines : \A j \in Jobs : Works(hand'[u], j) /\ Works(hand'[v], j) => u = v
    BY <1>3, <1>4, <1>7, HandsTaken
  <2>. QED
    BY <1>2, <1>4, <1>6, <2>1 DEF OneByOne
<1>9. \A j \in Jobs : (InDlq(j)' <=> InDlq(j)) /\ (Held(j)' <=> Held(j)) /\ over'[j] = over[j]
  BY <1>2 DEF InDlq, Held, Holds
<1>10. ASSUME NEW j \in Jobs, j # h PROVE Somewhere(j)' /\ OnlyThere(j)'
  <2>1. ~ Works(hand[w], j)
    BY <1>1, <1>10 DEF Works
  <2>2. Worked(j)' <=> Worked(j)
    BY <1>3, <1>7, <2>1, WorkedTaken
  <2>3. Put(j)
    BY <1>6, <1>9, <1>10, <2>2 DEF Put
  <2>. QED
    BY <1>4, <2>3, PutIs
<1>11. Somewhere(h)' /\ OnlyThere(h)'
  <2>1. ~ Worked(h)'
    BY <1>2, <1>3, <1>4, <1>7, WorkedLess
  <2>2. over'[h] = {} /\ ~ InDlq(h)' /\ ~ Held(h)'
    BY <1>2, <1>5, <1>9
  <2>3. InQueue(h, d)' /\ \A p \in Queues : InQueue(h, p)' => p = d
    BY <1>5, <1>6
  <2>. QED
    BY <1>2, <2>1, <2>2, <2>3 DEF Somewhere, OnlyThere
<1>. QED
  BY <1>8, <1>10, <1>11

(* A job that is given up goes from the coroutine to the dead letters.     *)
LEMMA PlaceBury ==
  ASSUME Typed, PlaceInv, NEW w \in Coroutines, Bury(w)
  PROVE  PlaceInv'
<1> SUFFICES ASSUME ~ crossed' PROVE OneByOne' /\ \A j \in Jobs : Somewhere(j)' /\ OnlyThere(j)'
  BY DEF PlaceInv
<1>1. PICK h, q, N : h = hand[w].job /\ q = hand[w].queue /\ N = Len(dlq)
  OBVIOUS
<1>2. /\ UNCHANGED <<queues, request, over>> /\ Count /\ h \in Jobs /\ N \in Nat /\ Works(hand[w], h)
      /\ DOMAIN dlq = 1 .. N /\ DOMAIN dlq' = 1 .. N + 1
      /\ dlq'[N + 1] = Letter(h, q) /\ \A i \in 1 .. N : dlq'[i] = dlq[i]
  BY <1>1, BuryIs DEF Count
<1>3. PICK g : Taken(w, g) /\ g.pc = "burying" /\ g.job = h /\ g.queue = q
  BY <1>1, BuryIs
<1>4. OneByOne /\ \A j \in Jobs : Somewhere(j) /\ OnlyThere(j)
  BY <1>2 DEF PlaceInv, Count
<1>5. over[h] = {} /\ ~ Held(h) /\ ~ InDlq(h) /\ \A p \in Queues : ~ InQueue(h, p)
  <2>1. Worked(h)
    BY <1>2 DEF Worked
  <2>. QED
    BY <1>2, <1>4, <2>1 DEF OnlyThere
<1>6. Letter(h, q).job = h
  BY DEF Letter
<1>7. \A i \in DOMAIN dlq' : i \in DOMAIN dlq \/ i = N + 1
  BY <1>2
<1>8. \A i \in DOMAIN dlq : dlq[i].job # h
  BY <1>5 DEF InDlq
<1>9. \A j : ~ Works(g, j)
  BY <1>3 DEF Works
<1>10. OneByOne'
  <2>1. \A i, k \in DOMAIN dlq' : dlq'[i].job \in Jobs /\ dlq'[i].job = dlq'[k].job => i = k
    BY <1>2, <1>4, <1>6, <1>7, <1>8 DEF OneByOne
  <2>2. \A u, v \in Coroutines : \A j \in Jobs : Works(hand'[u], j) /\ Works(hand'[v], j) => u = v
    BY <1>3, <1>4, <1>9, HandsTaken
  <2>. QED
    BY <1>2, <1>4, <2>1, <2>2 DEF OneByOne
<1>11. \A j \in Jobs : /\ Held(j)' <=> Held(j)
                       /\ over'[j] = over[j]
                       /\ \A p \in Queues : InQueue(j, p)' <=> InQueue(j, p)
  BY <1>2 DEF Held, Holds, InQueue
<1>12. InDlq(h)'
  <2>1. N + 1 \in DOMAIN dlq'
    BY <1>2
  <2>. QED
    BY <1>2, <1>6, <2>1 DEF InDlq
<1>13. \A j \in Jobs : j # h => (InDlq(j)' <=> InDlq(j))
  BY <1>2, <1>6, <1>7 DEF InDlq
<1>14. ASSUME NEW j \in Jobs, j # h PROVE Somewhere(j)' /\ OnlyThere(j)'
  <2>1. ~ Works(hand[w], j)
    BY <1>1, <1>14 DEF Works
  <2>2. Worked(j)' <=> Worked(j)
    BY <1>3, <1>9, <2>1, WorkedTaken
  <2>3. Put(j)
    BY <1>11, <1>13, <1>14, <2>2 DEF Put
  <2>. QED
    BY <1>4, <2>3, PutIs
<1>15. Somewhere(h)' /\ OnlyThere(h)'
  <2>1. ~ Worked(h)'
    BY <1>2, <1>3, <1>4, <1>9, WorkedLess
  <2>2. ~ Held(h)' /\ over'[h] = {} /\ \A p \in Queues : ~ InQueue(h, p)'
    BY <1>2, <1>5, <1>11
  <2>. QED
    BY <1>12, <2>1, <2>2 DEF Somewhere, OnlyThere
<1>. QED
  BY <1>10, <1>14, <1>15

(* A job whose letter is marked is over if removed, in hand if retried.    *)
LEMMA PlaceMark ==
  ASSUME Typed, AimInv, PlaceInv, NEW a \in Admins, Mark(a)
  PROVE  PlaceInv'
<1> SUFFICES ASSUME ~ crossed' PROVE OneByOne' /\ \A j \in Jobs : Somewhere(j)' /\ OnlyThere(j)'
  BY DEF PlaceInv
<1>1. PICK r : r = request[a]
  OBVIOUS
<1>2. r.pc = "mark" /\ Count /\ UNCHANGED <<queues, hand>>
  BY <1>1, MarkIs
<1>3. ~ crossed /\ OneByOne /\ \A j \in Jobs : Somewhere(j) /\ OnlyThere(j)
  BY <1>2 DEF PlaceInv, Count
<1>4. CASE Moved(a, NoRequest) /\ UNCHANGED <<dlq, over>>
  <2>1. PlaceInv'
    BY <1>1, <1>2, <1>4, NoRequestIs, PlaceGoesOn
  <2>. QED
    BY <2>1 DEF PlaceInv
<1>5. CASE ~ (Moved(a, NoRequest) /\ UNCHANGED <<dlq, over>>)
  <2>1. PICK s : /\ Moved(a, s) /\ s.pc = "drop" /\ Same(s, r)
                 /\ r.index \in DOMAIN dlq /\ DOMAIN dlq' = DOMAIN dlq
                 /\ dlq'[r.index] = Placeholder(a)
                 /\ \A i \in DOMAIN dlq : i # r.index => dlq'[i] = dlq[i]
                 /\ over' = IF r.op = "remove" /\ r.payload.job \in Jobs
                            THEN [over EXCEPT ![r.payload.job] = @ \cup {"removed"}] ELSE over
    BY ONLY Typed, a \in Admins, Mark(a), <1>1, <1>5, MarkIs
  <2>2. PICK h : h = r.payload.job
    OBVIOUS
  <2>3. dlq[r.index].job = h
    BY <1>1, <1>2, <1>3, <2>2 DEF AimInv, Aim
  <2>4. Placeholder(a).job \notin Jobs
    BY Constants DEF Placeholder, Letter
  <2>5. OneByOne'
    <3>1. \A i, k \in DOMAIN dlq' : dlq'[i].job \in Jobs /\ dlq'[i].job = dlq'[k].job => i = k
      BY <1>3, <2>1, <2>4 DEF OneByOne
    <3>. QED
      BY <1>2, <1>3, <3>1 DEF OneByOne
  <2>6. over \in [Jobs -> SUBSET {"done", "removed", "lost"}]
    BY DEF Typed
  <2>7. \A j \in Jobs : /\ \A q \in Queues : InQueue(j, q)' <=> InQueue(j, q)
                        /\ Worked(j)' <=> Worked(j)
    BY <1>2 DEF InQueue, Worked
  <2>8. \A j : Holds(s, j) <=> r.op # "remove" /\ j = h
    BY <2>1, <2>2 DEF Holds, Same
  <2>9. \A j : ~ Holds(r, j)
    BY <1>2 DEF Holds
  <2>10. ASSUME NEW j \in Jobs, j # h PROVE Somewhere(j)' /\ OnlyThere(j)'
    <3>1. InDlq(j)' <=> InDlq(j)
      BY <2>1, <2>3, <2>4, <2>10 DEF InDlq
    <3>2. Held(j)' <=> Held(j)
      BY <1>1, <2>1, <2>8, <2>9, <2>10, HeldMoved
    <3>3. over'[j] = over[j]
      BY <2>1, <2>2, <2>6, <2>10
    <3>4. Put(j)
      BY <2>7, <3>1, <3>2, <3>3 DEF Put
    <3>. QED
      BY <1>3, <3>4, PutIs
  <2>11. ASSUME h \in Jobs PROVE Somewhere(h)' /\ OnlyThere(h)'
    <3>1. InDlq(h)
      BY <2>1, <2>3 DEF InDlq
    <3>2. over[h] = {} /\ ~ Held(h) /\ ~ Worked(h) /\ \A q \in Queues : ~ InQueue(h, q)
      BY <1>3, <2>11, <3>1 DEF OnlyThere
    <3>3. ~ InDlq(h)' /\ ~ Worked(h)' /\ \A q \in Queues : ~ InQueue(h, q)'
      <4>1. \A i \in DOMAIN dlq : dlq[i].job = h => i = r.index
        BY <1>3, <2>1, <2>3, <2>11 DEF OneByOne
      <4>. QED
        BY <2>1, <2>4, <2>7, <2>11, <3>2, <4>1 DEF InDlq
    <3>4. CASE r.op = "remove"
      <4>1. over'[h] = {"removed"}
        BY <2>1, <2>2, <2>6, <2>11, <3>2, <3>4
      <4>2. ~ Held(h)'
        BY <1>1, <2>1, <2>8, <2>9, <3>2, <3>4, HeldMoved
      <4>. QED
        BY <3>3, <4>1, <4>2 DEF Somewhere, OnlyThere
    <3>5. CASE r.op # "remove"
      <4>1. over'[h] = {}
        BY <2>1, <3>2, <3>5
      <4>2. Held(h)'
        <5>1. Holds(request'[a], h)
          BY <2>1, <2>8, <3>5 DEF Moved
        <5>. QED
          BY <5>1 DEF Held, Holds
      <4>. QED
        BY <3>3, <4>1, <4>2 DEF Somewhere, OnlyThere
    <3>. QED
      BY <3>4, <3>5
  <2>. QED
    BY <2>5, <2>10, <2>11
<1>. QED
  BY <1>4, <1>5

(* Taking the placeholder out moves no job.                                *)
LEMMA PlaceDrop ==
  ASSUME Typed, PlaceInv, NEW a \in Admins, Drop(a)
  PROVE  PlaceInv'
<1> SUFFICES ASSUME ~ crossed' PROVE OneByOne' /\ \A j \in Jobs : Somewhere(j)' /\ OnlyThere(j)'
  BY DEF PlaceInv
<1>1. PICK r : r = request[a]
  OBVIOUS
<1>2. /\ r.pc = "drop" /\ Count /\ UNCHANGED <<queues, hand, over>> /\ (dlq' = dlq \/ Shrunk(dlq, dlq'))
  BY <1>1, DropIs
<1>3. OneByOne /\ \A j \in Jobs : Somewhere(j) /\ OnlyThere(j)
  BY <1>2 DEF PlaceInv, Count
<1>4. PICK s : Moved(a, s) /\ \A j : Holds(s, j) <=> Holds(r, j)
  <2>1. CASE Moved(a, NoRequest) /\ r.op = "remove"
    BY <2>1, NoRequestIs DEF Holds
  <2>2. CASE ~ (Moved(a, NoRequest) /\ r.op = "remove")
    <3>1. PICK s : Moved(a, s) /\ s.pc = "push" /\ Same(s, r)
      BY <1>1, <2>2, DropIs
    <3>2. \A j : Holds(s, j) <=> Holds(r, j)
      BY <1>2, <3>1 DEF Holds, Same
    <3>. QED
      BY <3>1, <3>2
  <2>. QED
    BY <2>1, <2>2
<1>5. OneByOne'
  <2>1. \A i, k \in DOMAIN dlq' : dlq'[i].job \in Jobs /\ dlq'[i].job = dlq'[k].job => i = k
    <3>1. CASE dlq' = dlq
      BY <1>3, <3>1 DEF OneByOne
    <3>2. CASE Shrunk(dlq, dlq')
      <4>1. PICK s1, t : s1 = dlq /\ t = dlq'
        OBVIOUS
      <4>2. Shrunk(s1, t)
        BY <3>2, <4>1
      <4>3. PICK at \in [DOMAIN t -> DOMAIN s1] :
              /\ \A i \in DOMAIN t : t[i] = s1[at[i]]
              /\ \A i, k \in DOMAIN t : at[i] = at[k] => i = k
        BY <4>2, ShrunkIs
      <4>4. \A i, k \in DOMAIN s1 : s1[i].job \in Jobs /\ s1[i].job = s1[k].job => i = k
        BY <1>3, <4>1 DEF OneByOne
      <4>5. \A i, k \in DOMAIN t : t[i].job \in Jobs /\ t[i].job = t[k].job => i = k
        BY ONLY <4>3, <4>4
      <4>. QED
        BY <4>1, <4>5
    <3>. QED
      BY <1>2, <3>1, <3>2
  <2>. QED
    BY <1>2, <1>3, <2>1 DEF OneByOne
<1>6. ASSUME NEW j \in Jobs PROVE Put(j)
  <2>1. InDlq(j)' <=> InDlq(j)
    BY <1>2, DropKeepsJobs
  <2>2. Held(j)' <=> Held(j)
    BY <1>1, <1>4, HeldMoved
  <2>3. (Worked(j)' <=> Worked(j)) /\ \A q \in Queues : InQueue(j, q)' <=> InQueue(j, q)
    BY <1>2 DEF InQueue, Worked
  <2>. QED
    BY <1>2, <2>1, <2>2, <2>3 DEF Put
<1>. QED
  BY <1>3, <1>5, <1>6, PutIs

(* A job that is pushed goes from the request's hands to its queue.        *)
LEMMA PlacePush ==
  ASSUME Typed, AimInv, PlaceInv, NEW a \in Admins, Push(a)
  PROVE  PlaceInv'
<1> SUFFICES ASSUME ~ crossed' PROVE OneByOne' /\ \A j \in Jobs : Somewhere(j)' /\ OnlyThere(j)'
  BY DEF PlaceInv
<1>1. PICK r, d, h : /\ r = request[a] /\ h = r.payload.job
                     /\ d = IF r.payload.tag = "none" THEN r.queue ELSE r.payload.tag
  OBVIOUS
<1>2. /\ r.pc = "push" /\ Count /\ UNCHANGED <<dlq, hand, over>> /\ d \in Queues /\ r.payload \in Letters
      /\ queues'[d] = Append(queues[d], h) /\ \A p \in Queues : p # d => queues'[p] = queues[p]
  BY ONLY Typed, a \in Admins, Push(a), <1>1, PushIs, SMTT(30)
<1>3. OneByOne /\ (\A j \in Jobs : Somewhere(j) /\ OnlyThere(j)) /\ Alone
  BY <1>2 DEF PlaceInv, AimInv, Count
<1>4. PICK s : Moved(a, s) /\ s.pc \notin {"drop", "push"}
  BY <1>1, PushIs, NoRequestIs
<1>5. Held(h) /\ r.op # "remove"
  <2>1. r.op # "remove"
    BY <1>1, <1>2 DEF Typed, Shape
  <2>. QED
    BY <1>1, <1>2, <2>1 DEF Held, Holds
<1>6. h \in Jobs => over[h] = {} /\ ~ InDlq(h) /\ ~ Worked(h) /\ \A q \in Queues : ~ InQueue(h, q)
  BY <1>3, <1>5 DEF OnlyThere
<1>7. /\ InQueue(h, d)'
      /\ \A j : j # h => \A q \in Queues : InQueue(j, q)' <=> InQueue(j, q)
      /\ \A q \in Queues : q # d => \A j : InQueue(j, q)' <=> InQueue(j, q)
      /\ \A p \in Queues : \A i, k \in DOMAIN queues'[p] :
           queues'[p][i] \in Jobs /\ queues'[p][i] = queues'[p][k] => i = k
  <2>1. h \in Entries
    BY <1>1, <1>2 DEF Letters
  <2>. QED
    BY ONLY Typed, <1>2, <1>3, <1>6, <2>1, PlaceAppended, ZenonT(40)
<1>8. OneByOne'
  BY <1>2, <1>3, <1>7 DEF OneByOne
<1>9. \A j : (InDlq(j)' <=> InDlq(j)) /\ (Worked(j)' <=> Worked(j))
  BY <1>2 DEF InDlq, Worked
<1>10. \A j : ~ Held(j)' /\ (Held(j) => j = h)
  <2>1. \A b \in Admins : b # a => request[b].pc = "idle"
    BY <1>1, <1>2, <1>3 DEF Alone
  <2>2. \A b \in Admins : request'[b].pc \notin {"drop", "push"}
    BY <1>4, <2>1 DEF Moved
  <2>3. \A j : \A b \in Admins : Holds(request[b], j) => b = a /\ j = h
    BY <1>1, <2>1 DEF Holds
  <2>. QED
    BY <2>2, <2>3 DEF Held, Holds
<1>11. ASSUME NEW j \in Jobs, j # h PROVE Somewhere(j)' /\ OnlyThere(j)'
  <2>1. Put(j)
    BY <1>2, <1>7, <1>9, <1>10, <1>11 DEF Put
  <2>. QED
    BY <1>3, <2>1, PutIs
<1>12. ASSUME h \in Jobs PROVE Somewhere(h)' /\ OnlyThere(h)'
  <2>1. over'[h] = {} /\ ~ InDlq(h)' /\ ~ Held(h)' /\ ~ Worked(h)'
    BY <1>2, <1>6, <1>9, <1>10, <1>12
  <2>2. InQueue(h, d)' /\ \A p \in Queues : InQueue(h, p)' => p = d
    BY <1>6, <1>7, <1>12
  <2>. QED
    BY <1>2, <2>1, <2>2 DEF Somewhere, OnlyThere
<1>. QED
  BY <1>8, <1>11, <1>12

(* A crash loses the jobs in hand, which is noted, and no other.           *)
LEMMA PlaceCrash ==
  ASSUME Typed, PlaceInv, Crash
  PROVE  PlaceInv'
<1> SUFFICES ASSUME ~ crossed' PROVE OneByOne' /\ \A j \in Jobs : Somewhere(j)' /\ OnlyThere(j)'
  BY DEF PlaceInv
<1>1. /\ UNCHANGED <<queues, crossed>> /\ \A b \in Admins : request'[b] = NoRequest
      /\ DOMAIN dlq' = DOMAIN dlq
      /\ \A i \in DOMAIN dlq :
           dlq'[i] = IF dlq[i].job \in Admins THEN Letter("stale", "none") ELSE dlq[i]
      /\ \A j \in Jobs : over'[j] = IF Held(j) \/ Worked(j) THEN over[j] \cup {"lost"} ELSE over[j]
      /\ \A w \in Coroutines : hand'[w] = Free
  BY CrashIs
<1>2. OneByOne /\ \A j \in Jobs : Somewhere(j) /\ OnlyThere(j)
  BY <1>1 DEF PlaceInv
<1>3. Letter("stale", "none").job \notin Jobs /\ Jobs \cap Admins = {}
  BY Constants DEF Letter
<1>4. \A i \in DOMAIN dlq : \A j \in Jobs : dlq'[i].job = j <=> dlq[i].job = j
  BY <1>1, <1>3
<1>5. OneByOne'
  <2>1. \A i, k \in DOMAIN dlq' : dlq'[i].job \in Jobs /\ dlq'[i].job = dlq'[k].job => i = k
    BY <1>1, <1>2, <1>4 DEF OneByOne
  <2>2. \A w \in Coroutines : \A j : ~ Works(hand'[w], j)
    BY <1>1, FreeIs
  <2>. QED
    BY <1>1, <1>2, <2>1, <2>2 DEF OneByOne
<1>6. \A j : ~ Held(j)' /\ ~ Worked(j)'
  BY <1>1, NoRequestIs, FreeIs DEF Held, Holds, Worked, Works
<1>7. \A j \in Jobs : (InDlq(j)' <=> InDlq(j)) /\ \A q \in Queues : InQueue(j, q)' <=> InQueue(j, q)
  BY <1>1, <1>4 DEF InDlq, InQueue
<1>8. ASSUME NEW j \in Jobs PROVE Somewhere(j)' /\ OnlyThere(j)'
  <2>1. CASE ~ (Held(j) \/ Worked(j))
    <3>1. Put(j)
      BY <1>1, <1>6, <1>7, <2>1 DEF Put
    <3>. QED
      BY <1>2, <3>1, PutIs
  <2>2. CASE Held(j) \/ Worked(j)
    <3>1. over[j] = {} /\ ~ InDlq(j) /\ \A q \in Queues : ~ InQueue(j, q)
      BY <1>2, <2>2 DEF OnlyThere
    <3>2. over'[j] = {"lost"}
      BY <1>1, <2>2, <3>1
    <3>. QED
      BY <1>6, <1>7, <3>1, <3>2 DEF Somewhere, OnlyThere
  <2>. QED
    BY <2>1, <2>2
<1>. QED
  BY <1>5, <1>8

(* Every step keeps each job in one place.                                 *)
LEMMA PlaceNext ==
  ASSUME Typed, AimInv, PlaceInv, [Next]_vars
  PROVE  PlaceInv'
<1>1. CASE UNCHANGED vars
  BY <1>1 DEF PlaceInv, OneByOne, Somewhere, OnlyThere, InDlq, InQueue, Held, Holds, Worked, Works, vars
<1>2. ASSUME NEW w \in Coroutines, NEW q \in Queues, Pop(w, q) PROVE PlaceInv'
  BY <1>2, PlacePop
<1>3. ASSUME NEW w \in Coroutines, Work(w) PROVE PlaceInv'
  BY <1>3, PlaceNotes, PlaceConclude, PlaceRequeue, PlaceBury DEF Work, NoteStep
<1>4. ASSUME NEW a \in Admins, NEW q \in Queues, NEW op \in {"retry", "remove"}, See(a, op, q) PROVE PlaceInv'
  BY <1>4, SeeIs, PlaceBegins
<1>5. ASSUME NEW a \in Admins, NEW j \in Jobs, Name(a, j) PROVE PlaceInv'
  BY <1>5, NameIs, PlaceBegins
<1>6. ASSUME NEW a \in Admins, NEW j \in Jobs, FindJob(a, j) PROVE PlaceInv'
  BY <1>6, FindJobIs, PlaceBegins
<1>7. ASSUME NEW a \in Admins, ListJobs(a) PROVE PlaceInv'
  BY <1>7, ListJobsIs, PlaceBegins
<1>8. ASSUME NEW a \in Admins, Look(a) PROVE PlaceInv'
  BY <1>8, LookIs, NoRequestIs, PlaceGoesOn DEF Stays
<1>9. ASSUME NEW a \in Admins, List(a) PROVE PlaceInv'
  BY <1>9, ListIs, NoRequestIs, PlaceGoesOn DEF Stays
<1>10. ASSUME NEW a \in Admins, Read(a) PROVE PlaceInv'
  BY <1>10, ReadIs, NoRequestIs, PlaceGoesOn DEF Stays
<1>11. ASSUME NEW a \in Admins, NoteRetry(a) PROVE PlaceInv'
  BY <1>11, NoteIs, NoRequestIs, PlaceGoesOn
<1>12. ASSUME NEW a \in Admins, ReadQueue(a) PROVE PlaceInv'
  <2>1. PICK r : r = request[a]
    OBVIOUS
  <2>2. r.pc = "queues" /\ Stays /\ Count /\ \E new \in Seq(RowType) : Reads(a, new, "letters")
    BY <1>12, <2>1, ReadQueueIs
  <2>3. \E s : Moved(a, s) /\ s.pc \in {"queues", "letters"}
    BY <2>1, <2>2, ReadsIs DEF ReadOn
  <2>. QED
    BY <2>1, <2>2, <2>3, PlaceGoesOn DEF Stays
<1>13. ASSUME NEW a \in Admins, ReadLetters(a) PROVE PlaceInv'
  <2>1. PICK r : r = request[a]
    OBVIOUS
  <2>2. r.pc = "letters" /\ Stays /\ Count /\ \E new \in Seq(RowType) : Reads(a, new, "answer")
    BY <1>13, <2>1, ReadLettersIs
  <2>3. \E s : Moved(a, s) /\ s.pc \in {"letters", "answer"}
    BY <2>1, <2>2, ReadsIs DEF ReadOn
  <2>. QED
    BY <2>1, <2>2, <2>3, PlaceGoesOn DEF Stays
<1>14. ASSUME NEW a \in Admins, Answer(a) PROVE PlaceInv'
  BY <1>14, AnswerIs, NoRequestIs, PlaceGoesOn DEF Stays
<1>. QED
  BY <1>1, <1>2, <1>3, <1>4, <1>5, <1>6, <1>7, <1>8, <1>9, <1>10, <1>11, <1>12, <1>13, <1>14,
     PlaceMark, PlaceDrop, PlacePush, PlaceCrash DEF Next, Serve
-------------------------------------------------------------------------------
(* A job that runs keeps its record, whatever others note of it.           *)
LEMMA RecordNext ==
  ASSUME Typed, RecordInv, [Next]_vars
  PROVE  RecordInv'
<1>1. ASSUME UNCHANGED <<hand, jobStatus>> PROVE RecordInv'
  BY <1>1 DEF RecordInv, Recorded
<1>2. CASE UNCHANGED vars
  BY <1>1, <1>2 DEF vars
<1>3. ASSUME NEW w \in Coroutines, NEW h, Taken(w, h), h.pc = "running" => jobStatus'[h.job] # "none",
             \A j \in Jobs : jobStatus[j] # "none" => jobStatus'[j] # "none"
      PROVE  RecordInv'
  <2>1. ASSUME NEW v \in Coroutines, hand'[v].pc = "running" PROVE jobStatus'[hand'[v].job] # "none"
    <3>1. CASE v = w
      BY <1>3, <2>1, <3>1 DEF Taken
    <3>2. CASE v # w
      <4>1. hand'[v] = hand[v] /\ hand[v].job \in Jobs
        BY <1>3, <2>1, <3>2 DEF Taken, Typed, Firm
      <4>. QED
        BY <1>3, <2>1, <4>1 DEF RecordInv, Recorded
    <3>. QED
      BY <3>1, <3>2
  <2>. QED
    BY <2>1 DEF RecordInv, Recorded
<1>4. ASSUME NEW w \in Coroutines, NEW q \in Queues, Pop(w, q) PROVE RecordInv'
  <2>1. PICK j : j = queues[q][1]
    OBVIOUS
  <2>2. UNCHANGED jobStatus /\ \E h : Taken(w, h) /\ h.pc = "waiting"
    BY <1>4, <2>1, PopIs
  <2>. QED
    BY <1>3, <2>2
<1>5. ASSUME NEW w \in Coroutines, NoteStep(w) PROVE RecordInv'
  <2>1. \A k \in Jobs : Noted(k)
    BY <1>5, NotesIs
  <2>2. PICK h : Taken(w, h) /\ (h.pc = "running" => jobStatus'[h.job] # "none")
    BY <1>5, NotesIs
  <2>. QED
    BY <1>3, <2>1, <2>2 DEF Noted
<1>6. ASSUME NEW w \in Coroutines, Conclude(w) \/ Requeue(w) \/ Bury(w) PROVE RecordInv'
  <2>1. PICK j, d : j = hand[w].job /\ d = hand[w].queue
    OBVIOUS
  <2>2. UNCHANGED jobStatus /\ \E h : Taken(w, h) /\ h.pc # "running"
    <3>1. CASE Conclude(w)
      BY <2>1, <3>1, ConcludeIs, FreeIs
    <3>2. CASE Requeue(w)
      <4>1. UNCHANGED jobStatus /\ \E h : Taken(w, h) /\ h.pc = "retrying"
        BY <2>1, <3>2, RequeueIs
      <4>. QED
        BY <4>1
    <3>3. CASE Bury(w)
      <4>1. UNCHANGED jobStatus /\ \E h : Taken(w, h) /\ h.pc = "burying"
        BY <2>1, <3>3, BuryIs
      <4>. QED
        BY <4>1
    <3>. QED
      BY <1>6, <3>1, <3>2, <3>3
  <2>. QED
    BY <1>3, <2>2
<1>7. ASSUME NEW a \in Admins, NoteRetry(a) PROVE RecordInv'
  <2>1. UNCHANGED hand /\ jobStatus' = [jobStatus EXCEPT ![request[a].seen] = "retry"]
    BY <1>7 DEF NoteRetry
  <2>2. \A j \in Jobs : jobStatus[j] # "none" => jobStatus'[j] # "none"
    BY <2>1 DEF Typed
  <2>3. \A v \in Coroutines : hand[v].pc = "running" => hand[v].job \in Jobs
    BY DEF Typed, Firm
  <2>. QED
    BY <2>1, <2>2, <2>3 DEF RecordInv, Recorded
<1>8. CASE Crash
  <2>1. \A v \in Coroutines : hand'[v].pc = "idle"
    BY <1>8, CrashIs, FreeIs
  <2>. QED
    BY <2>1 DEF RecordInv, Recorded
<1>9. ASSUME NEW a \in Admins, Look(a) \/ List(a) \/ Read(a) \/ Mark(a) \/ Drop(a) \/ Push(a)
                               \/ ReadQueue(a) \/ ReadLetters(a) \/ Answer(a)
      PROVE  RecordInv'
  BY <1>1, <1>9 DEF Look, List, Read, Mark, Drop, Push, ReadQueue, ReadLetters, Answer
<1>10. ASSUME NEW a \in Admins, (\E q \in Queues, op \in {"retry", "remove"} : See(a, op, q))
                                \/ (\E j \in Jobs : Name(a, j) \/ FindJob(a, j)) \/ ListJobs(a)
       PROVE  RecordInv'
  BY <1>1, <1>10 DEF See, Name, FindJob, ListJobs
<1>. QED
  BY <1>2, <1>4, <1>5, <1>6, <1>7, <1>8, <1>9, <1>10 DEF Next, Work, Serve, NoteStep
-------------------------------------------------------------------------------
(* What a page names and has yet to come to. *)

(* A step of one request leaves the pages of the others whole.             *)
LEMMA PageMoved ==
  ASSUME Typed, AimInv, PageInv, NEW a \in Admins, NEW s, Moved(a, s),
         (request[a].pc # "idle" /\ Count) \/ Begins(a), Shows(s)'
  PROVE  PageInv'
<1>1. Shows(request[a])'
  BY DEF Moved
<1>2. ASSUME NEW b \in Admins, b # a PROVE Shows(request[b])'
  <2>1. request'[b] = request[b]
    BY <1>2 DEF Moved
  <2>2. request[b].pc \in {"queues", "letters", "answer"} => Distinct(request[b].rows)
    BY DEF PageInv, Shows
  <2>3. ~ crossed' => request[b].pc = "idle"
    BY <1>2, OthersIdle
  <2>. QED
    BY <2>1, <2>2, <2>3 DEF Shows, Distinct
<1>. QED
  BY <1>1, <1>2 DEF PageInv

(* A request that shows nothing has nothing to come to.                    *)
LEMMA ShowsNothing ==
  ASSUME NEW s, s.pc \notin {"queues", "letters", "answer"}
  PROVE  Shows(s)'
BY DEF Shows

(* A page that begins with the records has yet to come to all other jobs.  *)
LEMMA ShowsRecords ==
  ASSUME Typed, AimInv, PlaceInv, RecordInv, NEW a \in Admins, Begins(a), Stays, NEW s,
         s.pc = "queues", s.left = QueueDefs, s.rows = Records(Jobs)
  PROVE  Shows(s)'
<1>1. PICK rows : rows = Records(Jobs)
  OBVIOUS
<1>2. Distinct(rows) /\ \A j \in Jobs : jobStatus[j] # "none" => \E i \in DOMAIN rows : rows[i].job = j
  <2>1. jobStatus \in [Jobs -> Statuses] /\ Jobs \in SUBSET Jobs
    BY DEF Typed
  <2>. QED
    BY ONLY <1>1, <2>1, RecordsAre
<1>3. ASSUME ~ crossed', NEW j \in Jobs
      PROVE  Named(s, j) \/ Ahead(s, j) \/ over[j] # {} \/ Waits(j)
  <2>1. ~ crossed /\ \A b \in Admins : b # a => request[b].pc = "idle"
    BY <1>3, OthersIdle
  <2>2. ~ Held(j)
    BY <2>1 DEF Held, Holds, Begins
  <2>3. InDlq(j) \/ (\E q \in Queues : InQueue(j, q)) \/ Worked(j) \/ over[j] # {}
    BY <2>1, <2>2 DEF PlaceInv, Somewhere
  <2>4. ToSet(s.left) = Queues
    BY Constants
  <2>5. Worked(j) => Waits(j) \/ jobStatus[j] # "none"
    BY DEF Worked, Works, Waits, RecordInv, Recorded
  <2>6. jobStatus[j] # "none" => Named(s, j)
    BY <1>1, <1>2 DEF Named
  <2>. QED
    BY <2>3, <2>4, <2>5, <2>6 DEF Ahead
<1>4. ASSUME ~ crossed', NEW j \in Jobs
      PROVE  Named(s, j) \/ Ahead(s, j)' \/ over'[j] # {} \/ Waits(j)'
  BY <1>3, <1>4 DEF Ahead, InDlq, InQueue, Waits, Stays
<1>. QED
  BY <1>1, <1>2, <1>4 DEF Shows, Named, Distinct

(* A page for one job begins whole.                                        *)
LEMMA PageFind ==
  ASSUME Typed, AimInv, PlaceInv, RecordInv, PageInv, NEW a \in Admins, NEW j \in Jobs, FindJob(a, j)
  PROVE  PageInv'
<1>1. PICK s : /\ Moved(a, s) /\ s.op = "job" /\ s.seen = j
               /\ \/ s.pc = "answer" /\ jobStatus[j] # "none" /\ s.rows = Records({j})
                  \/ s.pc = "queues" /\ s.left = QueueDefs /\ s.rows = Records(Jobs)
  BY FindJobIs
<1>2. Begins(a) /\ Stays
  BY FindJobIs
<1>3. CASE s.pc = "queues"
  BY <1>1, <1>2, <1>3, ShowsRecords, PageMoved
<1>4. CASE s.pc = "answer"
  <2>1. PICK one, rows : one = {j} /\ rows = Records(one)
    OBVIOUS
  <2>2. Distinct(rows) /\ \E i \in DOMAIN rows : rows[i].job = j
    <3>1. jobStatus \in [Jobs -> Statuses] /\ one \in SUBSET Jobs /\ j \in one
      BY <2>1 DEF Typed
    <3>2. jobStatus[j] # "none"
      BY <1>1, <1>4
    <3>. QED
      BY ONLY <2>1, <3>1, <3>2, RecordsAre
  <2>3. s.rows = rows
    BY <1>1, <1>4, <2>1
  <2>4. Shows(s)'
    BY <1>1, <1>4, <2>2, <2>3 DEF Shows, Named, Distinct
  <2>. QED
    BY <1>1, <1>2, <2>4, PageMoved
<1>. QED
  BY <1>1, <1>3, <1>4

(* A page that has read a queue names all that waits there.                *)
LEMMA PageQueue ==
  ASSUME Typed, AimInv, PageInv, NEW a \in Admins, ReadQueue(a)
  PROVE  PageInv'
<1>1. PICK r, q, new : r = request[a] /\ q = Head(r.left) /\ new = Queued(q)
  OBVIOUS
<1>2. /\ r.pc = "queues" /\ Stays /\ Count /\ q \in Queues
      /\ new \in Seq(RowType) /\ Reads(a, new, "letters")
      /\ \A j : InQueue(j, q) => \E i \in DOMAIN new : new[i].job = j
  BY <1>1, ReadQueueIs
<1>3. /\ r.rows \in Seq(RowType)
      /\ \A x : x \in ToSet(r.left) <=> x = q \/ x \in ToSet(Tail(r.left))
      /\ \E s : /\ Moved(a, s) /\ s.rows = Merged(r.rows, new)
                /\ \/ ToSet(Tail(r.left)) = {} /\ s.pc = "letters" /\ s.left = QueueDefs
                   \/ s.pc = "queues" /\ s.left = Tail(r.left)
  <2>1. PICK next : next = "letters"
    OBVIOUS
  <2>2. r = request[a] /\ r.pc \in {"queues", "letters"} /\ next \in {"letters", "answer"} /\ Reads(a, new, next)
    BY <1>1, <1>2, <2>1
  <2>3. /\ r.rows \in Seq(RowType)
        /\ \A x : x \in ToSet(r.left) <=> x = Head(r.left) \/ x \in ToSet(Tail(r.left))
        /\ \E s : /\ Moved(a, s) /\ s.rows = Merged(r.rows, new)
                  /\ \/ /\ ToSet(Tail(r.left)) = {} /\ s.pc = next
                        /\ next = "letters" => s.left = QueueDefs
                     \/ s.pc = r.pc /\ s.left = Tail(r.left)
    <3>1. new \in Seq(RowType)
      BY <1>2
    <3>2. /\ r.rows \in Seq(RowType)
          /\ \A x : x \in ToSet(r.left) <=> x = Head(r.left) \/ x \in ToSet(Tail(r.left))
          /\ \E s : ReadOn(a, r, new, next, s)
      BY ONLY Typed, a \in Admins, <2>2, <3>1, ReadsIs
    <3>. QED
      BY <3>2 DEF ReadOn
  <2>. QED
    BY <1>1, <1>2, <2>1, <2>3
<1>4. PICK s : /\ Moved(a, s) /\ s.rows = Merged(r.rows, new)
               /\ \/ ToSet(Tail(r.left)) = {} /\ s.pc = "letters" /\ s.left = QueueDefs
                  \/ s.pc = "queues" /\ s.left = Tail(r.left)
  BY <1>3
<1>5. PICK old, m : old = r.rows /\ m = s.rows
  OBVIOUS
<1>6. /\ Distinct(old) => Distinct(m)
      /\ \A j \in Jobs : (\E i \in DOMAIN old : old[i].job = j) \/ (\E i \in DOMAIN new : new[i].job = j)
                         => \E i \in DOMAIN m : m[i].job = j
  <2>1. old \in Seq(RowType) /\ new \in Seq(RowType) /\ m = Merged(old, new)
    BY <1>2, <1>3, <1>4, <1>5
  <2>. QED
    BY ONLY <2>1, MergedIs
<1>7. Shows(r)
  BY <1>1 DEF PageInv
<1>8. ASSUME ~ crossed, NEW j \in Jobs
      PROVE  Named(s, j) \/ Ahead(s, j) \/ over[j] # {} \/ jobStatus[j] # "none" \/ Waits(j)
  <2>1. Named(r, j) \/ Ahead(r, j) \/ over[j] # {} \/ jobStatus[j] # "none" \/ Waits(j)
    BY <1>2, <1>7, <1>8 DEF Shows
  <2>2. Named(r, j) => Named(s, j)
    BY <1>5, <1>6 DEF Named
  <2>3. InQueue(j, q) => Named(s, j)
    BY <1>2, <1>5, <1>6 DEF Named
  <2>4. ASSUME NEW p \in ToSet(r.left), InQueue(j, p) PROVE Named(s, j) \/ Ahead(s, j)
    <3>1. CASE p = q
      BY <2>3, <2>4, <3>1
    <3>2. CASE p # q
      <4>1. p \in ToSet(s.left) /\ s.pc = "queues"
        BY <1>3, <1>4, <2>4, <3>2
      <4>. QED
        BY <2>4, <4>1 DEF Ahead
    <3>. QED
      BY <3>1, <3>2
  <2>5. ASSUME InDlq(j) PROVE Ahead(s, j)
    <3>1. CASE s.pc = "queues"
      BY <2>5, <3>1 DEF Ahead
    <3>2. CASE s.pc = "letters"
      <4>1. PICK i \in DOMAIN dlq : dlq[i].job = j
        BY <2>5 DEF InDlq
      <4>2. dlq[i].tag \in Queues \cup {"none"} /\ "ai_analyze" \in Queues
        BY LettersAre, Constants DEF Tags
      <4>3. \E p \in Queues : Matches(dlq[i], p)
        BY <4>2 DEF Matches
      <4>4. ToSet(s.left) = Queues
        BY <1>4, <3>2, Constants
      <4>. QED
        BY <3>2, <4>1, <4>3, <4>4 DEF Ahead
    <3>. QED
      BY <1>4, <3>1, <3>2
  <2>6. Ahead(r, j) => InDlq(j) \/ \E p \in ToSet(r.left) : InQueue(j, p)
    BY <1>2 DEF Ahead
  <2>. QED
    BY <2>1, <2>2, <2>4, <2>5, <2>6
<1>9. ASSUME ~ crossed, NEW j \in Jobs
      PROVE  Named(s, j) \/ Ahead(s, j)' \/ over'[j] # {} \/ jobStatus'[j] # "none" \/ Waits(j)'
  BY <1>2, <1>8, <1>9 DEF Ahead, InDlq, InQueue, Waits, Stays
<1>10. Shows(s)'
  <2>1. Distinct(s.rows)
    BY <1>2, <1>5, <1>6, <1>7 DEF Shows
  <2>. QED
    BY <1>2, <1>9, <2>1 DEF Shows, Named, Distinct, Count
<1>. QED
  BY <1>1, <1>2, <1>4, <1>10, PageMoved

(* A page that has read the letters of a queue names them all.             *)
LEMMA PageLetters ==
  ASSUME Typed, AimInv, PageInv, NEW a \in Admins, ReadLetters(a)
  PROVE  PageInv'
<1>1. PICK r, q, new : r = request[a] /\ q = Head(r.left) /\ new = Dead(q)
  OBVIOUS
<1>2. /\ r.pc = "letters" /\ Stays /\ Count /\ q \in Queues
      /\ new \in Seq(RowType) /\ Reads(a, new, "answer")
      /\ \A i \in DOMAIN dlq : Matches(dlq[i], q) => \E n \in DOMAIN new : new[n].job = dlq[i].job
  BY <1>1, ReadLettersIs
<1>3. /\ r.rows \in Seq(RowType)
      /\ \A x : x \in ToSet(r.left) <=> x = q \/ x \in ToSet(Tail(r.left))
      /\ \E s : /\ Moved(a, s) /\ s.rows = Merged(r.rows, new)
                /\ \/ ToSet(Tail(r.left)) = {} /\ s.pc = "answer"
                   \/ s.pc = "letters" /\ s.left = Tail(r.left)
  <2>1. PICK next : next = "answer"
    OBVIOUS
  <2>2. r = request[a] /\ r.pc \in {"queues", "letters"} /\ next \in {"letters", "answer"} /\ Reads(a, new, next)
    BY <1>1, <1>2, <2>1
  <2>3. /\ r.rows \in Seq(RowType)
        /\ \A x : x \in ToSet(r.left) <=> x = Head(r.left) \/ x \in ToSet(Tail(r.left))
        /\ \E s : /\ Moved(a, s) /\ s.rows = Merged(r.rows, new)
                  /\ \/ /\ ToSet(Tail(r.left)) = {} /\ s.pc = next
                        /\ next = "letters" => s.left = QueueDefs
                     \/ s.pc = r.pc /\ s.left = Tail(r.left)
    <3>1. new \in Seq(RowType)
      BY <1>2
    <3>2. /\ r.rows \in Seq(RowType)
          /\ \A x : x \in ToSet(r.left) <=> x = Head(r.left) \/ x \in ToSet(Tail(r.left))
          /\ \E s : ReadOn(a, r, new, next, s)
      BY ONLY Typed, a \in Admins, <2>2, <3>1, ReadsIs
    <3>. QED
      BY <3>2 DEF ReadOn
  <2>. QED
    BY <1>1, <1>2, <2>1, <2>3
<1>4. PICK s : /\ Moved(a, s) /\ s.rows = Merged(r.rows, new)
               /\ \/ ToSet(Tail(r.left)) = {} /\ s.pc = "answer"
                  \/ s.pc = "letters" /\ s.left = Tail(r.left)
  BY <1>3
<1>5. PICK old, m : old = r.rows /\ m = s.rows
  OBVIOUS
<1>6. /\ Distinct(old) => Distinct(m)
      /\ \A j \in Jobs : (\E i \in DOMAIN old : old[i].job = j) \/ (\E i \in DOMAIN new : new[i].job = j)
                         => \E i \in DOMAIN m : m[i].job = j
  <2>1. old \in Seq(RowType) /\ new \in Seq(RowType) /\ m = Merged(old, new)
    BY <1>2, <1>3, <1>4, <1>5
  <2>. QED
    BY ONLY <2>1, MergedIs
<1>7. Shows(r)
  BY <1>1 DEF PageInv
<1>8. ASSUME ~ crossed, NEW j \in Jobs
      PROVE  Named(s, j) \/ Ahead(s, j) \/ over[j] # {} \/ jobStatus[j] # "none" \/ Waits(j)
  <2>1. Named(r, j) \/ Ahead(r, j) \/ over[j] # {} \/ jobStatus[j] # "none" \/ Waits(j)
    BY <1>2, <1>7, <1>8 DEF Shows
  <2>2. Named(r, j) => Named(s, j)
    BY <1>5, <1>6 DEF Named
  <2>3. ASSUME NEW p \in ToSet(r.left), NEW i \in DOMAIN dlq, dlq[i].job = j, Matches(dlq[i], p)
        PROVE  Named(s, j) \/ Ahead(s, j)
    <3>1. CASE p = q
      <4>1. \E n \in DOMAIN new : new[n].job = j
        BY <1>2, <2>3, <3>1
      <4>. QED
        BY <1>5, <1>6, <4>1 DEF Named
    <3>2. CASE p # q
      <4>1. p \in ToSet(s.left) /\ s.pc = "letters"
        BY <1>3, <1>4, <2>3, <3>2
      <4>. QED
        BY <2>3, <4>1 DEF Ahead
    <3>. QED
      BY <3>1, <3>2
  <2>4. Ahead(r, j) => \E p \in ToSet(r.left) : \E i \in DOMAIN dlq : dlq[i].job = j /\ Matches(dlq[i], p)
    BY <1>2 DEF Ahead
  <2>. QED
    BY <2>1, <2>2, <2>3, <2>4
<1>9. ASSUME ~ crossed, NEW j \in Jobs
      PROVE  Named(s, j) \/ Ahead(s, j)' \/ over'[j] # {} \/ jobStatus'[j] # "none" \/ Waits(j)'
  BY <1>2, <1>8, <1>9 DEF Ahead, InDlq, InQueue, Waits, Stays
<1>10. Shows(s)'
  <2>1. Distinct(s.rows)
    BY <1>2, <1>5, <1>6, <1>7 DEF Shows
  <2>. QED
    BY <1>2, <1>9, <2>1 DEF Shows, Named, Distinct, Count
<1>. QED
  BY <1>1, <1>2, <1>4, <1>10, PageMoved

(* The workers go on beside a page: what it has yet to come to stays ahead *)
(* of it, has a record from now on, or waits in the hands of one of them.  *)
LEMMA PageOn ==
  ASSUME Typed, PageInv, UNCHANGED <<request, crossed>>,
         \A j \in Jobs : jobStatus[j] # "none" => jobStatus'[j] # "none",
         \A j \in Jobs : over[j] # {} => over'[j] # {},
         \A j \in Jobs : Waits(j) => Waits(j)' \/ jobStatus'[j] # "none",
         ~ crossed => \A j \in Jobs : \A q \in Queues : InQueue(j, q) => InQueue(j, q)' \/ Waits(j)',
         \A i \in DOMAIN dlq : i \in DOMAIN dlq' /\ dlq'[i] = dlq[i]
  PROVE  PageInv'
<1>1. ASSUME NEW r \in Entry, Shows(r), r.pc \in {"queues", "letters", "answer"}
      PROVE  Shows(r)'
  <2>1. Distinct(r.rows)
    BY <1>1 DEF Shows
  <2>2. ASSUME ~ crossed, NEW j \in Jobs, r.pc = "answer" /\ r.op = "job" => j = r.seen
        PROVE  Named(r, j) \/ Ahead(r, j)' \/ over'[j] # {} \/ jobStatus'[j] # "none" \/ Waits(j)'
    <3>1. Named(r, j) \/ Ahead(r, j) \/ over[j] # {} \/ jobStatus[j] # "none" \/ Waits(j)
      BY <1>1, <2>2 DEF Shows
    <3>2. \A p \in Queues : InQueue(j, p) => InQueue(j, p)' \/ Waits(j)'
      BY <2>2
    <3>3. InDlq(j) => InDlq(j)'
      BY DEF InDlq
    <3>4. ASSUME r.pc = "queues", Ahead(r, j) PROVE Ahead(r, j)' \/ Waits(j)'
      <4>1. InDlq(j) \/ \E p \in ToSet(r.left) : InQueue(j, p)
        BY <3>4 DEF Ahead
      <4>2. ASSUME NEW p \in ToSet(r.left), InQueue(j, p) PROVE InQueue(j, p)' \/ Waits(j)'
        <5>1. r.left \in Seq(Queues)
          BY DEF Entry
        <5>2. p \in Queues
          BY <5>1 DEF ToSet
        <5>. QED
          BY <3>2, <4>2, <5>2
      <4>. QED
        BY <3>3, <3>4, <4>1, <4>2 DEF Ahead
    <3>5. ASSUME r.pc = "letters", Ahead(r, j) PROVE Ahead(r, j)'
      BY <3>5 DEF Ahead
    <3>6. Ahead(r, j) => r.pc = "queues" \/ r.pc = "letters"
      BY DEF Ahead
    <3>. QED
      BY <2>2, <3>1, <3>4, <3>5, <3>6
  <2>. QED
    BY <1>1, <2>1, <2>2 DEF Shows, Named, Distinct
<1>2. \A r \in Entry : Shows(r) => Shows(r)'
  BY <1>1 DEF Shows
<1>3. \A a \in Admins : request[a] \in Entry /\ Shows(request[a]) /\ request'[a] = request[a]
  BY DEF PageInv, Typed
<1>4. \A a \in Admins : Shows(request[a])'
  BY <1>2, <1>3
<1>. QED
  BY <1>4 DEF PageInv

(* What a coroutine that takes nothing does to those that wait.            *)
LEMMA WaitsTaken ==
  ASSUME NEW w \in Coroutines, NEW h, Taken(w, h), NEW j, Waits(j)
  PROVE  Waits(j)' \/ (hand[w].pc = "waiting" /\ hand[w].job = j)
<1>1. PICK v \in Coroutines : hand[v].pc = "waiting" /\ hand[v].job = j
  BY DEF Waits
<1>2. v # w => hand'[v].pc = "waiting" /\ hand'[v].job = j
  BY <1>1 DEF Taken
<1>. QED
  BY <1>1, <1>2 DEF Waits

(* A page beside a worker that pops.                                       *)
LEMMA PagePop ==
  ASSUME Typed, PlaceInv, PageInv, NEW w \in Coroutines, NEW q \in Queues, Pop(w, q)
  PROVE  PageInv'
<1>1. PICK h : h = queues[q][1]
  OBVIOUS
<1>2. Popped(q) /\ UNCHANGED <<dlq, request, jobStatus, over, silent>> /\ Count /\ hand[w].pc = "idle"
  BY <1>1, PopIs
<1>3. PICK g : Taken(w, g) /\ g.pc = "waiting" /\ g.job = h /\ g.queue = q
  BY <1>1, PopIs
<1>4. \A j \in Jobs : Waits(j) => Waits(j)'
  BY <1>2, <1>3, WaitsTaken
<1>5. Waits(h)'
  <2>1. hand'[w].pc = "waiting" /\ hand'[w].job = h
    BY <1>3 DEF Taken
  <2>. QED
    BY <2>1 DEF Waits
<1>6. ~ crossed => \A j \in Jobs : \A p \in Queues : InQueue(j, p) => InQueue(j, p)' \/ Waits(j)'
  <2>1. ASSUME ~ crossed, NEW j \in Jobs, NEW p \in Queues, InQueue(j, p) PROVE InQueue(j, p)' \/ Waits(j)'
    <3>1. OneByOne
      BY <2>1 DEF PlaceInv
    <3>2. \A k : k # h => (InQueue(k, p)' <=> InQueue(k, p))
      BY <1>1, <1>2, <3>1, PlacePopped
    <3>. QED
      BY <1>5, <2>1, <3>2
  <2>. QED
    BY <2>1
<1>. QED
  BY <1>2, <1>4, <1>6, PageOn DEF Count

(* A page beside one that notes a status.                                  *)
LEMMA PageNotes ==
  ASSUME Typed, PageInv, NEW w \in Coroutines, NoteStep(w)
  PROVE  PageInv'
<1>1. /\ UNCHANGED <<dlq, queues, request, over>> /\ Count /\ \A k \in Jobs : Noted(k)
      /\ hand[w].pc = "waiting" /\ hand[w].job \in Jobs => jobStatus'[hand[w].job] # "none"
  BY NotesIs
<1>2. PICK h : Taken(w, h)
  BY NotesIs
<1>3. \A j \in Jobs : jobStatus[j] # "none" => jobStatus'[j] # "none"
  BY <1>1 DEF Noted
<1>4. \A j \in Jobs : Waits(j) => Waits(j)' \/ jobStatus'[j] # "none"
  BY <1>1, <1>2, WaitsTaken
<1>5. \A j \in Jobs : \A q \in Queues : InQueue(j, q) => InQueue(j, q)'
  BY <1>1 DEF InQueue
<1>. QED
  BY <1>1, <1>3, <1>4, <1>5, PageOn DEF Count

(* A page beside one that concludes.                                       *)
LEMMA PageConclude ==
  ASSUME Typed, PageInv, NEW w \in Coroutines, Conclude(w)
  PROVE  PageInv'
<1>1. PICK j : j = hand[w].job
  OBVIOUS
<1>2. /\ UNCHANGED <<dlq, queues, request, jobStatus, silent>> /\ Count
      /\ j \in Jobs /\ hand[w].pc = "running" /\ Taken(w, Free)
      /\ over' = [over EXCEPT ![j] = @ \cup {"done"}]
  BY <1>1, ConcludeIs
<1>3. \A k \in Jobs : over[k] # {} => over'[k] # {}
  <2>1. over \in [Jobs -> SUBSET {"done", "removed", "lost"}]
    BY DEF Typed
  <2>. QED
    BY <1>2, <2>1
<1>4. \A k \in Jobs : Waits(k) => Waits(k)'
  BY <1>2, WaitsTaken
<1>5. \A k \in Jobs : \A q \in Queues : InQueue(k, q) => InQueue(k, q)'
  BY <1>2 DEF InQueue
<1>. QED
  BY <1>2, <1>3, <1>4, <1>5, PageOn DEF Count

(* A page beside one that pushes its job once more.                        *)
LEMMA PageRequeue ==
  ASSUME Typed, PageInv, NEW w \in Coroutines, Requeue(w)
  PROVE  PageInv'
<1>1. PICK j, d : j = hand[w].job /\ d = hand[w].queue
  OBVIOUS
<1>2. /\ UNCHANGED <<dlq, request, jobStatus, over, silent>> /\ Count /\ j \in Jobs /\ d \in Queues
      /\ hand[w].pc = "running" /\ queues'[d] = Append(queues[d], j)
      /\ \A p \in Queues : p # d => queues'[p] = queues[p]
  BY <1>1, RequeueIs
<1>3. PICK g : Taken(w, g)
  BY <1>1, RequeueIs
<1>4. \A k \in Jobs : Waits(k) => Waits(k)'
  BY <1>2, <1>3, WaitsTaken
<1>5. ASSUME NEW k \in Jobs, NEW q \in Queues, InQueue(k, q) PROVE InQueue(k, q)'
  <2>1. CASE q # d
    BY <1>2, <1>5, <2>1 DEF InQueue
  <2>2. CASE q = d
    <3>1. PICK S, u, v : S = Entries /\ u = queues[d] /\ v = queues'[d]
      OBVIOUS
    <3>2. u \in Seq(S) /\ j \in S
      BY <1>2, <3>1 DEF Typed, Entries
    <3>3. v = Append(u, j)
      BY <1>2, <3>1
    <3>4. /\ Len(u) \in Nat /\ DOMAIN u = 1 .. Len(u) /\ DOMAIN v = 1 .. Len(u) + 1
          /\ \A i \in 1 .. Len(u) : v[i] = u[i]
      BY ONLY <3>2, <3>3, AppendIs
    <3>5. \A i \in DOMAIN u : i \in DOMAIN v /\ v[i] = u[i]
      BY <3>4
    <3>. QED
      BY <1>5, <2>2, <3>1, <3>5 DEF InQueue
  <2>. QED
    BY <2>1, <2>2
<1>. QED
  BY <1>2, <1>4, <1>5, PageOn DEF Count

(* A page beside one that gives its job up.                                *)
LEMMA PageBury ==
  ASSUME Typed, PageInv, NEW w \in Coroutines, Bury(w)
  PROVE  PageInv'
<1>1. PICK j, q : j = hand[w].job /\ q = hand[w].queue
  OBVIOUS
<1>2. /\ UNCHANGED <<queues, request, jobStatus, over, silent>> /\ Count /\ j \in Jobs
      /\ hand[w].pc = "running" /\ Len(dlq) \in Nat
      /\ DOMAIN dlq = 1 .. Len(dlq) /\ DOMAIN dlq' = 1 .. Len(dlq) + 1
      /\ \A i \in 1 .. Len(dlq) : dlq'[i] = dlq[i]
  BY <1>1, BuryIs
<1>3. PICK g : Taken(w, g)
  BY <1>1, BuryIs
<1>4. \A k \in Jobs : Waits(k) => Waits(k)'
  BY <1>2, <1>3, WaitsTaken
<1>5. \A k \in Jobs : \A p \in Queues : InQueue(k, p) => InQueue(k, p)'
  BY <1>2 DEF InQueue
<1>6. \A i \in DOMAIN dlq : i \in DOMAIN dlq' /\ dlq'[i] = dlq[i]
  BY <1>2
<1>. QED
  BY <1>2, <1>4, <1>5, <1>6, PageOn DEF Count

(* Every step keeps the pages whole.                                       *)
LEMMA PageNext ==
  ASSUME Typed, AimInv, PlaceInv, RecordInv, PageInv, [Next]_vars
  PROVE  PageInv'
<1>1. CASE UNCHANGED vars
  BY <1>1 DEF PageInv, Shows, Distinct, Named, Ahead, InDlq, InQueue, Waits, vars
<1>2. ASSUME NEW w \in Coroutines, NEW q \in Queues, Pop(w, q) PROVE PageInv'
  BY <1>2, PagePop
<1>3. ASSUME NEW w \in Coroutines, Work(w) PROVE PageInv'
  BY <1>3, PageNotes, PageConclude, PageRequeue, PageBury DEF Work, NoteStep
<1>4. ASSUME NEW a \in Admins, NEW q \in Queues, NEW op \in {"retry", "remove"}, See(a, op, q) PROVE PageInv'
  BY <1>4, SeeIs, ShowsNothing, PageMoved
<1>5. ASSUME NEW a \in Admins, NEW j \in Jobs, Name(a, j) PROVE PageInv'
  BY <1>5, NameIs, ShowsNothing, PageMoved
<1>6. ASSUME NEW a \in Admins, NEW j \in Jobs, FindJob(a, j) PROVE PageInv'
  BY <1>6, PageFind
<1>7. ASSUME NEW a \in Admins, ListJobs(a) PROVE PageInv'
  BY <1>7, ListJobsIs, ShowsRecords, PageMoved
<1>8. ASSUME NEW a \in Admins, Look(a) PROVE PageInv'
  BY <1>8, LookIs, NoRequestIs, ShowsNothing, PageMoved
<1>9. ASSUME NEW a \in Admins, List(a) PROVE PageInv'
  BY <1>9, ListIs, NoRequestIs, ShowsNothing, PageMoved
<1>10. ASSUME NEW a \in Admins, Read(a) PROVE PageInv'
  BY <1>10, ReadIs, NoRequestIs, ShowsNothing, PageMoved
<1>11. ASSUME NEW a \in Admins, NEW s, Moved(a, s), s.pc \notin {"queues", "letters", "answer"},
              request[a].pc # "idle", Count
       PROVE PageInv'
  BY <1>11, ShowsNothing, PageMoved
<1>12. ASSUME NEW a \in Admins, Mark(a) PROVE PageInv'
  BY <1>11, <1>12, MarkIs, NoRequestIs
<1>13. ASSUME NEW a \in Admins, Drop(a) PROVE PageInv'
  BY <1>11, <1>13, DropIs, NoRequestIs
<1>14. ASSUME NEW a \in Admins, Push(a) PROVE PageInv'
  BY <1>11, <1>14, PushIs, NoRequestIs
<1>15. ASSUME NEW a \in Admins, NoteRetry(a) PROVE PageInv'
  BY <1>11, <1>15, NoteIs, NoRequestIs
<1>16. ASSUME NEW a \in Admins, Answer(a) PROVE PageInv'
  BY <1>11, <1>16, AnswerIs, NoRequestIs
<1>17. CASE Crash
  <2>1. \A a \in Admins : request'[a].pc = "idle"
    BY <1>17, CrashIs, NoRequestIs
  <2>. QED
    BY <2>1 DEF PageInv, Shows
<1>. QED
  BY <1>1, <1>2, <1>3, <1>4, <1>5, <1>6, <1>7, <1>8, <1>9, <1>10, <1>12, <1>13, <1>14, <1>15,
     <1>16, <1>17, PageQueue, PageLetters DEF Next, Serve
-------------------------------------------------------------------------------
(* The beginning. *)

(* The invariant holds at first.                                           *)
LEMMA InitDlq ==
  ASSUME Init
  PROVE  DlqInv
<1>1. /\ Typed
      /\ \A i \in DOMAIN dlq : \E j \in Legacy : dlq[i] = Letter(j, "none")
      /\ \A i, k \in DOMAIN dlq : dlq[i] = dlq[k] => i = k
      /\ \A j \in Legacy : \E i \in DOMAIN dlq : dlq[i] = Letter(j, "none")
      /\ \A q \in Queues : \A i \in DOMAIN queues[q] : queues[q][i] \in Jobs \ Legacy /\ HomeOf[queues[q][i]] = q
      /\ \A q \in Queues : \A i, k \in DOMAIN queues[q] : queues[q][i] = queues[q][k] => i = k
      /\ \A j \in Jobs \ Legacy : \E i \in DOMAIN queues[HomeOf[j]] : queues[HomeOf[j]][i] = j
  BY InitTyped
<1>2. \A a \in Admins : request[a] = NoRequest
  BY DEF Init
<1>3. \A a \in Admins : request[a].pc = "idle"
  BY <1>2, NoRequestIs
<1>4. /\ \A j : Letter(j, "none").job = j /\ Letter(j, "none").tag = "none"
      /\ \A w \in Coroutines : hand[w].pc = "idle"
  BY FreeIs DEF Letter, Init
<1>5. \A i \in DOMAIN dlq : dlq[i].tag = "none" /\ dlq[i].job \in Legacy /\ dlq[i] = Letter(dlq[i].job, "none")
  BY <1>1, <1>4
<1>6. HomeInv
  <2>1. \A i \in DOMAIN dlq : Rightful(dlq[i])
    BY <1>5, Constants DEF Rightful
  <2>2. OldFirst
    BY <1>5 DEF OldFirst
  <2>3. BackToItsQueue
    BY <1>1 DEF BackToItsQueue
  <2>4. \A a \in Admins : Bound(request[a])
    BY <1>3 DEF Bound
  <2>5. \A w \in Coroutines : Homely(hand[w])
    BY <1>4 DEF Homely
  <2>. QED
    BY <2>1, <2>2, <2>3, <2>4, <2>5 DEF HomeInv
<1>7. DeadInv
  <2>1. \A j \in Jobs : jobStatus[j] # "dlq"
    BY DEF Init
  <2>. QED
    BY <2>1 DEF DeadInv
<1>8. AimInv
  BY <1>3 DEF AimInv, Alone, Aim
<1>9. PlaceInv
  <2>1. OneByOne
    <3>1. \A i, k \in DOMAIN dlq : dlq[i].job \in Jobs /\ dlq[i].job = dlq[k].job => i = k
      BY <1>1, <1>5
    <3>2. \A w \in Coroutines : \A j : ~ Works(hand[w], j)
      BY <1>4 DEF Works
    <3>. QED
      BY <1>1, <3>1, <3>2 DEF OneByOne
  <2>2. \A j \in Jobs : over[j] = {} /\ ~ Held(j) /\ ~ Worked(j)
    BY <1>3, <1>4 DEF Init, Held, Holds, Worked, Works
  <2>3. \A j \in Jobs : InDlq(j) <=> j \in Legacy
    BY <1>1, <1>4, <1>5 DEF InDlq
  <2>4. \A j \in Jobs : \A q \in Queues : InQueue(j, q) => j \notin Legacy /\ HomeOf[j] = q
    BY <1>1 DEF InQueue
  <2>5. \A j \in Jobs \ Legacy : \E q \in Queues : InQueue(j, q)
    <3>1. \A j \in Jobs : HomeOf[j] \in Queues
      BY Constants
    <3>. QED
      BY <1>1, <3>1 DEF InQueue
  <2>6. ASSUME NEW j \in Jobs PROVE Somewhere(j)
    BY <2>3, <2>5 DEF Somewhere
  <2>7. ASSUME NEW j \in Jobs PROVE OnlyThere(j)
    BY <2>2, <2>3, <2>4 DEF OnlyThere
  <2>. QED
    BY <2>1, <2>6, <2>7 DEF PlaceInv
<1>10. PageInv
  BY <1>3 DEF PageInv, Shows
<1>11. RecordInv
  BY <1>4 DEF RecordInv, Recorded
<1>. QED
  BY <1>1, <1>6, <1>7, <1>8, <1>9, <1>10, <1>11 DEF DlqInv

(* And every step keeps it.                                                *)
LEMMA DlqStep ==
  ASSUME DlqInv, [Next]_vars
  PROVE  DlqInv'
BY TypedNext, HomeNext, DeadNext, AimNext, PlaceNext, RecordNext, PageNext DEF DlqInv
-------------------------------------------------------------------------------
(* What the invariant says of the cardinalities. *)

(* A set of which any two members are the same has one or none.            *)
LEMMA AtMostOne ==
  ASSUME NEW S, \A x, y \in S : x = y
  PROVE  Cardinality(S) = IF S = {} THEN 0 ELSE 1
<1>1. CASE S = {}
  BY <1>1, FS_EmptySet
<1>2. CASE S # {}
  <2>1. PICK x \in S : TRUE
    BY <1>2
  <2>2. S = {x}
    BY <2>1
  <2>. QED
    BY <1>2, <2>2, FS_Singleton
<1>. QED
  BY <1>1, <1>2

(* Jobs in one place, as the cardinalities of OnePlace count them.         *)
LEMMA OnePlaceIs ==
  ASSUME Typed, AimInv, PlaceInv
  PROVE  OnePlace
<1> SUFFICES ASSUME ~ crossed, NEW j \in Jobs PROVE Places(j) = 1
  BY DEF OnePlace
<1>1. PICK A, B, C, D, O :
        /\ A = {i \in DOMAIN dlq : dlq[i].job = j}
        /\ B = UNION {{<<q, i>> : i \in {k \in DOMAIN queues[q] : queues[q][k] = j}} : q \in Queues}
        /\ C = {a \in Admins : InHand(a) /\ request[a].payload.job = j}
        /\ D = {w \in Coroutines : AtWork(w) /\ hand[w].job = j}
        /\ O = over[j]
  OBVIOUS
<1>2. OneByOne /\ Alone /\ Somewhere(j) /\ OnlyThere(j)
  BY DEF PlaceInv, AimInv
<1>3. (\A x, y \in A : x = y) /\ (A # {} <=> InDlq(j))
  BY <1>1, <1>2 DEF OneByOne, InDlq
<1>4. (\A x, y \in B : x = y) /\ (B # {} <=> \E q \in Queues : InQueue(j, q))
  <2>1. \A x \in B : \E q \in Queues : \E i \in DOMAIN queues[q] : x = <<q, i>> /\ queues[q][i] = j
    BY <1>1
  <2>2. \A q \in Queues : \A i \in DOMAIN queues[q] : queues[q][i] = j => <<q, i>> \in B
    BY <1>1
  <2>3. \A p, q \in Queues : InQueue(j, p) /\ InQueue(j, q) => p = q
    BY <1>2 DEF OnlyThere
  <2>4. \A q \in Queues : \A i, k \in DOMAIN queues[q] : queues[q][i] = j /\ queues[q][k] = j => i = k
    BY <1>2 DEF OneByOne
  <2>5. ASSUME NEW x \in B, NEW y \in B PROVE x = y
    <3>1. PICK p \in Queues : \E i \in DOMAIN queues[p] : x = <<p, i>> /\ queues[p][i] = j
      BY <2>1
    <3>2. PICK q \in Queues : \E k \in DOMAIN queues[q] : y = <<q, k>> /\ queues[q][k] = j
      BY <2>1
    <3>3. PICK i \in DOMAIN queues[p], k \in DOMAIN queues[q] :
            x = <<p, i>> /\ queues[p][i] = j /\ y = <<q, k>> /\ queues[q][k] = j
      BY <3>1, <3>2
    <3>4. p = q
      BY <2>3, <3>3 DEF InQueue
    <3>. QED
      BY <2>4, <3>3, <3>4
  <2>6. B # {} <=> \E q \in Queues : InQueue(j, q)
    BY <2>1, <2>2 DEF InQueue
  <2>. QED
    BY <2>5, <2>6
<1>5. (\A x, y \in C : x = y) /\ (C # {} <=> Held(j))
  <2>1. \A a \in Admins : InHand(a) /\ request[a].payload.job = j <=> Holds(request[a], j)
    BY DEF InHand, Holds, Removal
  <2>2. \A a \in C : a \in Admins /\ request[a].pc # "idle"
    BY <1>1 DEF InHand
  <2>. QED
    BY <1>1, <1>2, <2>1, <2>2 DEF Held, Alone
<1>6. (\A x, y \in D : x = y) /\ (D # {} <=> Worked(j))
  <2>1. \A w \in Coroutines : AtWork(w) /\ hand[w].job = j <=> Works(hand[w], j)
    BY DEF AtWork, Works
  <2>. QED
    BY <1>1, <1>2, <2>1 DEF Worked, OneByOne
<1>7. \A x, y \in O : x = y
  BY <1>1, <1>2 DEF OnlyThere
<1>8. /\ Cardinality(A) = IF InDlq(j) THEN 1 ELSE 0
      /\ Cardinality(B) = IF \E q \in Queues : InQueue(j, q) THEN 1 ELSE 0
      /\ Cardinality(C) = IF Held(j) THEN 1 ELSE 0
      /\ Cardinality(D) = IF Worked(j) THEN 1 ELSE 0
      /\ Cardinality(O) = IF over[j] # {} THEN 1 ELSE 0
  <2>1. Cardinality(A) = IF InDlq(j) THEN 1 ELSE 0
    BY <1>3, AtMostOne
  <2>2. Cardinality(B) = IF \E q \in Queues : InQueue(j, q) THEN 1 ELSE 0
    BY <1>4, AtMostOne
  <2>3. Cardinality(C) = IF Held(j) THEN 1 ELSE 0
    BY <1>5, AtMostOne
  <2>4. Cardinality(O) = IF over[j] # {} THEN 1 ELSE 0
    BY <1>1, <1>7, AtMostOne
  <2>5. Cardinality(D) = IF Worked(j) THEN 1 ELSE 0
    BY <1>6, AtMostOne
  <2>. QED
    BY <2>1, <2>2, <2>3, <2>4, <2>5
<1>9. Places(j) = Cardinality(A) + Cardinality(B) + Cardinality(C) + Cardinality(D) + Cardinality(O)
  BY <1>1 DEF Places
<1>10. CASE InDlq(j)
  BY <1>2, <1>8, <1>9, <1>10 DEF OnlyThere
<1>11. CASE \E q \in Queues : InQueue(j, q)
  BY <1>2, <1>8, <1>9, <1>11 DEF OnlyThere
<1>12. CASE Held(j)
  BY <1>2, <1>8, <1>9, <1>12 DEF OnlyThere
<1>13. CASE over[j] # {}
  BY <1>2, <1>8, <1>9, <1>13 DEF OnlyThere
<1>14. CASE Worked(j)
  BY <1>2, <1>8, <1>9, <1>14 DEF OnlyThere
<1>. QED
  BY <1>2, <1>10, <1>11, <1>12, <1>13, <1>14 DEF Somewhere

(* Pages that are whole, as PageNamesEachOnce counts the rows.             *)
LEMMA PageIs ==
  ASSUME Typed, PageInv
  PROVE  PageNamesEachOnce
<1> SUFFICES ASSUME NEW a \in Admins, At(a, "answer"),
                    NEW j \in IF request[a].op = "jobs" THEN Jobs ELSE {request[a].seen}
             PROVE  LET named == {k \in DOMAIN request[a].rows : request[a].rows[k].job = j}
                    IN /\ Cardinality(named) <= 1
                       /\ named = {} => crossed \/ over[j] # {} \/ jobStatus[j] # "none"
                                         \/ \E w \in Coroutines : Is(w, "waiting") /\ hand[w].job = j
  BY DEF PageNamesEachOnce
<1>1. PICK r, named : r = request[a] /\ named = {k \in DOMAIN r.rows : r.rows[k].job = j}
  OBVIOUS
<1>2. r.pc = "answer" /\ Shape(r) /\ Shows(r)
  BY <1>1 DEF At, Typed, PageInv
<1>3. j \in Jobs /\ (r.op = "job" => j = r.seen)
  BY <1>1, <1>2 DEF Shape
<1>4. \A x, y \in named : x = y
  BY <1>1, <1>2, <1>3 DEF Shows, Distinct
<1>5. Cardinality(named) = IF named = {} THEN 0 ELSE 1
  BY ONLY <1>4, AtMostOne
<1>6. Cardinality(named) <= 1
  BY ONLY <1>5
<1>7. named = {} => crossed \/ over[j] # {} \/ jobStatus[j] # "none" \/ Waits(j)
  <2>1. ASSUME named = {}, ~ crossed PROVE over[j] # {} \/ jobStatus[j] # "none" \/ Waits(j)
    <3>1. ~ Named(r, j)
      BY <1>1, <2>1 DEF Named
    <3>2. ~ Ahead(r, j)
      BY <1>2 DEF Ahead
    <3>. QED
      BY <1>2, <1>3, <2>1, <3>1, <3>2 DEF Shows
  <2>. QED
    BY <2>1
<1>8. Waits(j) <=> \E w \in Coroutines : Is(w, "waiting") /\ hand[w].job = j
  BY DEF Waits, Is
<1>. QED
  BY <1>1, <1>6, <1>7, <1>8
-------------------------------------------------------------------------------
(* The parts of the invariant hold in every state that can be reached: a   *)
(* letter goes back where it came from, who is shown dead is dead, in hand *)
(* or excused, a job that runs has a record, and, until two requests cross, *)
(* a request points at what its user saw, a job is in one place, the hands *)
(* of the workers included, and a page has named it or will unless it has  *)
(* no record and waits for a slot.                                         *)
THEOREM DlqInvariant == Spec => []DlqInv
<1>1. Init => DlqInv
  BY InitDlq
<1>2. DlqInv /\ [Next]_vars => DlqInv'
  BY DlqStep
<1>. QED
  BY <1>1, <1>2, PTL DEF Spec

(* Every variable keeps to its type: what is in the dead letters and the   *)
(* queues is a job, a placeholder or one that went stale, a request that   *)
(* is taking a letter out has read one, and what has a slot is a job.      *)
THEOREM TypeCorrect == Spec => []TypeOK
<1>1. Typed => TypeOK
  <2> SUFFICES ASSUME Typed PROVE TypeOK
    OBVIOUS
  <2>1. ASSUME NEW a \in Admins
        PROVE  /\ request[a].pc \in Pcs
               /\ \A k \in DOMAIN request[a].rows : request[a].rows[k].job \in Entries
               /\ request[a].payload.job \in Entries \cup {"none"}
               /\ request[a].pc \in {"mark", "drop", "push", "note"} => request[a].payload.job \in Entries
    <3>1. PICK r : r = request[a]
      OBVIOUS
    <3>2. /\ r.pc \in Pcs /\ r.rows \in Seq(RowType) /\ r.payload \in [job : Names, tag : Tags]
          /\ Shape(r)
      BY <3>1 DEF Typed, Entry
    <3>3. \A k \in DOMAIN r.rows : r.rows[k] \in RowType
      BY <3>2
    <3>4. \A k \in DOMAIN r.rows : r.rows[k].job \in Entries
      BY <3>3 DEF RowType
    <3>5. r.pc \in {"mark", "drop", "push", "note"} => r.payload.job \in Entries
      BY <3>2 DEF Shape, Letters
    <3>6. r.payload.job \in Entries \cup {"none"}
      BY <3>2 DEF Names
    <3>. QED
      BY <3>1, <3>2, <3>4, <3>5, <3>6
  <2>2. ASSUME NEW w \in Coroutines
        PROVE  /\ hand[w].pc \in {"idle", "waiting", "running", "retrying", "burying"}
               /\ Is(w, "waiting") => hand[w].job \in Entries
               /\ HasSlot(w) => hand[w].job \in Jobs
               /\ hand[w].queue \in Queues \cup {"none"}
    <3>1. hand[w] \in HandEntry /\ Firm(hand[w])
      BY DEF Typed
    <3>. QED
      BY <3>1 DEF HandEntry, HandPcs, Tags, Firm, Is, HasSlot
  <2>. QED
    BY <2>1, <2>2 DEF TypeOK, Typed, Letters, Tags, Statuses, Pcs
<1>2. Spec => []Typed
  BY DlqInvariant, PTL DEF DlqInv
<1>. QED
  BY <1>1, <1>2, PTL

(* A retry returns a job to the queue whose worker gave it up, with any    *)
(* number of requests that move the list under one another.                *)
THEOREM BackHome == Spec => []BackToItsQueue
<1>1. DlqInv => BackToItsQueue
  BY DEF DlqInv, HomeInv
<1>. QED
  BY <1>1, DlqInvariant, PTL

(* A job ai_jobs shows as a dead letter is one, or is in the hands of a    *)
(* retry, although push and note are two steps of a worker and workers pop *)
(* and run meanwhile.  Excused is what silent holds: what went by index,   *)
(* in place of another or in a crash, and a job noted as dead after its    *)
(* retry had gone by between push and note, until a worker runs it again.  *)
THEOREM DeadIsDead == Spec => []ShownDeadIsDead
<1>1. DlqInv => ShownDeadIsDead
  BY DEF DlqInv, DeadInv, ShownDeadIsDead, InDlq, Retrying, Acting
<1>. QED
  BY <1>1, DlqInvariant, PTL

(* While requests do not cross, the letter that is taken out is the one    *)
(* the admin saw or named, whatever the workers bury between the readings. *)
THEOREM TheOneSeen == Spec => []ActsOnTheOneSeen
<1>1. DlqInv => ActsOnTheOneSeen
  BY DEF DlqInv, AimInv, Aim, ActsOnTheOneSeen, Acting
<1>. QED
  BY <1>1, DlqInvariant, PTL

(* While requests do not cross, the places a job is in number one, the     *)
(* hands of the workers among them: the removal by placeholder, with a     *)
(* crash in the midst of it or not, neither loses a job unnoted nor        *)
(* doubles it.                                                             *)
THEOREM InOnePlace == Spec => []OnePlace
<1>1. DlqInv => OnePlace
  BY OnePlaceIs DEF DlqInv
<1>. QED
  BY <1>1, DlqInvariant, PTL

(* The page of jobs names none twice, whatever the workers pop, push and   *)
(* bury while it is put together; and unless another request was under way *)
(* it passes over no job but one that is over, one that has a record since *)
(* and one that has none and waits, popped, for a slot.                    *)
THEOREM PageIsWhole == Spec => []PageNamesEachOnce
<1>1. DlqInv => PageNamesEachOnce
  BY PageIs DEF DlqInv
<1>. QED
  BY <1>1, DlqInvariant, PTL
==============================================================================
