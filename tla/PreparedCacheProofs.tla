------------------------- MODULE PreparedCacheProofs -------------------------
(***************************************************************************)
(* Proofs about PreparedCache for any number of callers and shapes and any *)
(* sizes: the use counters and the trim loop implement the recency list of *)
(* LruCache, and a late insertion or demotion never replaces the handle    *)
(* another caller was first with.                                          *)
(***************************************************************************)
EXTENDS PreparedCache, SequenceTheorems, FiniteSetTheorems, TLAPS

\* What a list holds and what the map holds.
Verdicts == [q : Shapes, outcome : Outcomes]
Entries  == [outcome : Outcomes, last_used : Nat]

\* A map from shapes to entries.
Map(e) == DOMAIN e \subseteq Shapes /\ e \in [DOMAIN e -> Entries]

Used(e, q) == e[q].last_used

\* t has the verdicts of the map e, each once, in the order of their use.
Lists(t, e) ==
    /\ Map(e) /\ t \in Seq(Verdicts)
    /\ \A i \in 1..Len(t) : t[i].q \in DOMAIN e /\ t[i].outcome = e[t[i].q].outcome
    /\ \A q \in DOMAIN e : \E i \in 1..Len(t) : t[i].q = q
    /\ \A i, j \in 1..Len(t) : i < j => Used(e, t[i].q) < Used(e, t[j].q)

\* The shapes at the places of t after m, up to n.
Between(t, m, n) == { t[i].q : i \in (m + 1)..n }

-----------------------------------------------------------------------------
(* The list of a map.                                                       *)

\* The order of the list is the order of use.
LEMMA ListOrder ==
    ASSUME NEW t, NEW e, Lists(t, e)
    PROVE  /\ Len(t) \in Nat
           /\ \A q \in DOMAIN e : Used(e, q) \in Nat
           /\ \A i, j \in 1..Len(t) :
                /\ i <= j <=> Used(e, t[i].q) <= Used(e, t[j].q)
                /\ t[i].q = t[j].q => i = j
<1>1. Len(t) \in Nat
  BY DEF Lists
<1>2. \A q \in DOMAIN e : Used(e, q) \in Nat
  BY DEF Lists, Map, Used, Entries
<1>3. ASSUME NEW i \in 1..Len(t), NEW j \in 1..Len(t)
      PROVE  /\ i <= j <=> Used(e, t[i].q) <= Used(e, t[j].q)
             /\ t[i].q = t[j].q => i = j
  <2>1. Used(e, t[i].q) \in Nat /\ Used(e, t[j].q) \in Nat
    BY <1>2 DEF Lists
  <2>2. i < j => Used(e, t[i].q) < Used(e, t[j].q)
    BY DEF Lists
  <2>3. j < i => Used(e, t[j].q) < Used(e, t[i].q)
    BY DEF Lists
  <2>. QED  BY <1>1, <2>1, <2>2, <2>3
<1>. QED  BY <1>1, <1>2, <1>3

\* The shapes between two places of a list are as many as the places.
LEMMA ListCount ==
    ASSUME NEW t, NEW e, Lists(t, e), NEW m \in Nat, NEW n \in Nat, m <= n, n <= Len(t)
    PROVE  Cardinality(Between(t, m, n)) = n - m
<1>. DEFINE S == { t[i].q : i \in (m + 1)..n }
            f == [k \in 1..(n - m) |-> t[m + k].q]
<1>1. \A i, j \in 1..Len(t) : t[i].q = t[j].q => i = j
  BY ListOrder
<1>2. \A k \in 1..(n - m) : m + k \in (m + 1)..n /\ m + k \in 1..Len(t)
  BY ListOrder
<1>3. f \in [1..(n - m) -> S]
  BY <1>2
<1>4. \A j, k \in 1..(n - m) : f[j] = f[k] => j = k
  BY <1>1, <1>2
<1>5. \A q \in S : \E k \in 1..(n - m) : f[k] = q
  <2>. TAKE q \in S
  <2>1. PICK i \in (m + 1)..n : q = t[i].q
    OBVIOUS
  <2>2. i - m \in 1..(n - m) /\ m + (i - m) = i
    OBVIOUS
  <2>. QED  BY <2>1, <2>2
<1>. HIDE DEF f, S
<1>6. f \in Bijection(1..(n - m), S)
  BY <1>3, <1>4, <1>5 DEF Bijection, Injection, Surjection, IsInjective
<1>7. ExistsBijection(1..(n - m), S)
  BY <1>6 DEF ExistsBijection
<1>8. n - m \in Nat
  OBVIOUS
<1>. QED  BY <1>7, <1>8, FS_CountingElements DEF S, Between

\* The place of a shape in the list is its rank, and as many have been used
\* after it as stand after it.
LEMMA ListRank ==
    ASSUME NEW t, NEW e, Lists(t, e)
    PROVE  /\ Cardinality(DOMAIN e) = Len(t)
           /\ \A i \in 1..Len(t) :
                /\ Rank(e, t[i].q) = i
                /\ Cardinality({ r \in DOMAIN e : e[r].last_used > e[t[i].q].last_used })
                     = Len(t) - i
<1>1. /\ Len(t) \in Nat
      /\ \A i, j \in 1..Len(t) : i <= j <=> Used(e, t[i].q) <= Used(e, t[j].q)
      /\ \A q \in DOMAIN e : Used(e, q) \in Nat
  BY ListOrder
<1>2. /\ \A i \in 1..Len(t) : t[i].q \in DOMAIN e
      /\ \A q \in DOMAIN e : \E i \in 1..Len(t) : t[i].q = q
  BY DEF Lists
<1>3. Cardinality(DOMAIN e) = Len(t)
  <2>1. DOMAIN e = Between(t, 0, Len(t))
    BY <1>2 DEF Between
  <2>2. Cardinality(Between(t, 0, Len(t))) = Len(t) - 0
    BY <1>1, ListCount
  <2>. QED  BY <1>1, <2>1, <2>2
<1>4. ASSUME NEW i \in 1..Len(t)
      PROVE  /\ Rank(e, t[i].q) = i
             /\ Cardinality({ r \in DOMAIN e : e[r].last_used > e[t[i].q].last_used })
                  = Len(t) - i
  <2>. DEFINE before == { r \in DOMAIN e : e[r].last_used <= e[t[i].q].last_used }
              after == { r \in DOMAIN e : e[r].last_used > e[t[i].q].last_used }
  <2>1. before = Between(t, 0, i)
    <3>1. ASSUME NEW r \in before  PROVE r \in Between(t, 0, i)
      <4>1. PICK j \in 1..Len(t) : t[j].q = r
        BY <1>2
      <4>2. j \in 1..i
        BY <1>1, <4>1 DEF Used
      <4>. QED  BY <4>1, <4>2 DEF Between
    <3>2. ASSUME NEW r \in Between(t, 0, i)  PROVE r \in before
      <4>1. PICK j \in 1..i : t[j].q = r
        BY DEF Between
      <4>2. j \in 1..Len(t) /\ j <= i
        BY <1>1
      <4>. QED  BY <1>1, <1>2, <4>1, <4>2 DEF Used
    <3>. QED  BY <3>1, <3>2
  <2>2. Rank(e, t[i].q) = i
    <3>1. Cardinality(Between(t, 0, i)) = i - 0
      BY <1>1, ListCount
    <3>2. Rank(e, t[i].q) = Cardinality(before)
      BY DEF Rank
    <3>. HIDE DEF before
    <3>. QED  BY <2>1, <3>1, <3>2
  <2>3. \A j \in 1..Len(t) : j \in (i + 1)..Len(t) <=> Used(e, t[j].q) > Used(e, t[i].q)
    <3>. TAKE j \in 1..Len(t)
    <3>1. j <= i <=> Used(e, t[j].q) <= Used(e, t[i].q)
      BY <1>1
    <3>2. Used(e, t[j].q) \in Nat /\ Used(e, t[i].q) \in Nat
      BY <1>1, <1>2
    <3>. QED  BY <1>1, <3>1, <3>2
  <2>4. after = Between(t, i, Len(t))
    <3>1. ASSUME NEW r \in after  PROVE r \in Between(t, i, Len(t))
      <4>1. PICK j \in 1..Len(t) : t[j].q = r
        BY <1>2
      <4>. QED  BY <2>3, <4>1 DEF Between, Used
    <3>2. ASSUME NEW r \in Between(t, i, Len(t))  PROVE r \in after
      <4>1. PICK j \in (i + 1)..Len(t) : t[j].q = r
        BY DEF Between
      <4>2. j \in 1..Len(t)
        BY <1>1
      <4>. QED  BY <1>2, <2>3, <4>1, <4>2 DEF Used
    <3>. QED  BY <3>1, <3>2
  <2>5. Cardinality(Between(t, i, Len(t))) = Len(t) - i
    BY <1>1, ListCount
  <2>. QED  BY <2>2, <2>4, <2>5, Zenon
<1>. QED  BY <1>3, <1>4

\* A list of the map is the table by recency.
LEMMA ListIsRecency ==
    ASSUME NEW t, NEW e, Lists(t, e)
    PROVE  t = Recency(e)
<1>. DEFINE at(i) == CHOOSE q \in DOMAIN e : Rank(e, q) = i
<1>1. Len(t) \in Nat /\ Cardinality(DOMAIN e) = Len(t)
  BY ListOrder, ListRank
<1>2. ASSUME NEW i \in 1..Len(t)
      PROVE  at(i) = t[i].q
  <2>1. t[i].q \in DOMAIN e /\ Rank(e, t[i].q) = i
    BY ListRank, Zenon DEF Lists
  <2>2. ASSUME NEW q \in DOMAIN e, Rank(e, q) = i  PROVE q = t[i].q
    <3>1. PICK j \in 1..Len(t) : t[j].q = q
      BY DEF Lists
    <3>2. Rank(e, q) = j
      BY <3>1, ListRank, Zenon
    <3>. QED  BY <2>2, <3>1, <3>2
  <2>. QED  BY <2>1, <2>2
<1>3. ASSUME NEW i \in 1..Len(t)
      PROVE  t[i] = [q |-> t[i].q, outcome |-> e[t[i].q].outcome]
  <2>1. t[i] \in Verdicts
    BY ElementOfSeq DEF Lists
  <2>2. t[i] = [q |-> t[i].q, outcome |-> t[i].outcome]
    BY <2>1 DEF Verdicts
  <2>. QED  BY <2>2 DEF Lists
<1>. HIDE DEF at
<1>4. Recency(e) = [i \in 1..Len(t) |-> [q |-> at(i), outcome |-> e[at(i)].outcome]]
  BY <1>1 DEF Recency, at
<1>5. t = [i \in 1..Len(t) |-> t[i]]
  BY DEF Lists
<1>. QED  BY <1>2, <1>3, <1>4, <1>5

-----------------------------------------------------------------------------
(* What the operations of LruCache do to the list of a map.                 *)

\* Without, With and trim keep a map a map.
LEMMA MapKept ==
    ASSUME NEW e, Map(e), NEW q \in Shapes, NEW x \in Entries, NEW n
    PROVE  Map(Without(e, q)) /\ Map(With(e, q, x)) /\ Map(trim(e, n))
<1>1. Map(Without(e, q))
  BY DEF Map, Without
<1>2. Map(With(e, q, x))
  BY DEF Map, With
<1>3. Map(trim(e, n))
  BY DEF Map, trim
<1>. QED  BY <1>1, <1>2, <1>3

\* Removing a shape from the map forgets it in the list.
LEMMA ForgetList ==
    ASSUME NEW t, NEW e, NEW q \in Shapes, Lists(t, e)
    PROVE  /\ Lists(Lru!Forget(t, q), Without(e, q))
           /\ Len(Lru!Forget(t, q)) = IF q \in DOMAIN e THEN Len(t) - 1 ELSE Len(t)
           /\ q \in DOMAIN e <=> Lru!Holds(t, q)
<1>. DEFINE n == Len(t)
            f == Lru!Forget(t, q)
            d == Without(e, q)
<1>1. t \in Seq(Verdicts) /\ DOMAIN t = 1..n /\ n \in Nat /\ Map(e)
  BY DEF Lists
<1>2. q \in DOMAIN e <=> Lru!Holds(t, q)
  BY <1>1 DEF Lists, Lru!Holds
<1>3. Map(d) /\ DOMAIN d = DOMAIN e \ {q} /\ \A r \in DOMAIN e \ {q} : d[r] = e[r]
  BY <1>1 DEF Without, Map
<1>4. CASE q \notin DOMAIN e
  <2>1. f = t
    BY <1>2, <1>4 DEF Lru!Forget
  <2>2. d = e
    BY <1>1, <1>4, Zenon DEF Without, Map
  <2>. QED  BY <1>2, <1>4, <2>1, <2>2
<1>5. CASE q \in DOMAIN e
  <2>. DEFINE p == Lru!Place(t, q)
              a == SubSeq(t, 1, p - 1)
              b == SubSeq(t, p + 1, n)
  <2>1. p \in 1..n /\ t[p].q = q
    BY <1>1, <1>2, <1>5 DEF Lru!Holds, Lru!Place
  <2>2. f = a \o b
    BY <1>2, <1>5, Zenon DEF Lru!Forget
  <2>. HIDE DEF p, n, f
  <2>3. /\ a \in Seq(Verdicts) /\ Len(a) = p - 1
        /\ \A i \in 1..(p - 1) : a[i] = t[i]
    <3>1. \A i \in 1..(p - 1) : t[i] \in Verdicts
      BY <1>1, <2>1, ElementOfSeq DEF n
    <3>2. /\ a \in Seq(Verdicts)
          /\ Len(a) = IF 1 <= p - 1 THEN (p - 1) - 1 + 1 ELSE 0
          /\ \A i \in 1..((p - 1) - 1 + 1) : a[i] = t[1 + i - 1]
      BY <2>1, <3>1, SubSeqProperties
    <3>. HIDE DEF a
    <3>. QED  BY <2>1, <3>2
  <2>4. /\ b \in Seq(Verdicts) /\ Len(b) = n - p
        /\ \A i \in 1..(n - p) : b[i] = t[p + i]
    <3>1. \A i \in (p + 1)..n : t[i] \in Verdicts
      BY <1>1, <2>1, ElementOfSeq DEF n
    <3>2. /\ b \in Seq(Verdicts)
          /\ Len(b) = IF p + 1 <= n THEN n - (p + 1) + 1 ELSE 0
          /\ \A i \in 1..(n - (p + 1) + 1) : b[i] = t[p + 1 + i - 1]
      BY <1>1, <2>1, <3>1, SubSeqProperties DEF n
    <3>. HIDE DEF b
    <3>3. n \in Nat /\ p \in Nat /\ p <= n
      BY <1>1, <2>1
    <3>4. Len(b) = n - p
      BY <3>2, <3>3
    <3>5. \A i \in 1..(n - p) : b[i] = t[p + i]
      BY <3>2, <3>3
    <3>. QED  BY <3>2, <3>4, <3>5
  <2>. HIDE DEF a, b
  <2>5. /\ f \in Seq(Verdicts) /\ Len(f) = n - 1
        /\ \A i \in 1..(n - 1) : f[i] = IF i < p THEN a[i] ELSE b[i - p + 1]
    <3>1. /\ f \in Seq(Verdicts) /\ Len(f) = Len(a) + Len(b)
          /\ \A i \in 1..(Len(a) + Len(b)) : f[i] = IF i <= Len(a) THEN a[i] ELSE b[i - Len(a)]
      BY <2>2, <2>3, <2>4, ConcatProperties, Zenon
    <3>. QED  BY <1>1, <2>1, <2>3, <2>4, <3>1
  <2>. DEFINE g(i) == IF i < p THEN i ELSE i + 1
  <2>6. \A i \in 1..(n - 1) : f[i] = t[g(i)]
    <3>. TAKE i \in 1..(n - 1)
    <3>1. CASE i < p
      BY <3>1, <1>1, <2>1, <2>3, <2>5
    <3>2. CASE ~(i < p)
      <4>1. i - p + 1 \in 1..(n - p) /\ p + (i - p + 1) = i + 1
        BY <3>2, <1>1, <2>1
      <4>. QED  BY <3>2, <4>1, <1>1, <2>1, <2>4, <2>5
    <3>. QED  BY <3>1, <3>2
  <2>7. \A i \in 1..(n - 1) : g(i) \in 1..n /\ g(i) # p
    BY <1>1, <2>1
  <2>8. \A i, j \in 1..(n - 1) : i < j => g(i) < g(j)
    BY <1>1, <2>1
  <2>9. \A k \in 1..n : k # p => \E i \in 1..(n - 1) : g(i) = k
    <3>. TAKE k \in 1..n
    <3>. HAVE k # p
    <3>1. CASE k < p
      <4>1. k \in 1..(n - 1) /\ g(k) = k
        BY <3>1, <1>1, <2>1
      <4>. QED  BY <4>1
    <3>2. CASE k > p
      <4>1. k - 1 \in 1..(n - 1) /\ g(k - 1) = k
        BY <3>2, <1>1, <2>1
      <4>. QED  BY <4>1
    <3>. QED  BY <1>1, <2>1, <3>1, <3>2
  <2>. HIDE DEF g
  <2>10. /\ \A i \in 1..n : t[i].q \in DOMAIN e /\ t[i].outcome = e[t[i].q].outcome
         /\ \A r \in DOMAIN e : \E i \in 1..n : t[i].q = r
         /\ \A i, j \in 1..n : i < j => Used(e, t[i].q) < Used(e, t[j].q)
         /\ \A i, j \in 1..n : t[i].q = t[j].q => i = j
    BY ListOrder, Zenon DEF Lists, n
  <2>. HIDE DEF d
  <2>11. \A i \in 1..(n - 1) : f[i].q \in DOMAIN d /\ f[i].outcome = d[f[i].q].outcome
    BY <1>3, <2>1, <2>6, <2>7, <2>10
  <2>12. ASSUME NEW r \in DOMAIN d  PROVE \E i \in 1..(n - 1) : f[i].q = r
    <3>1. PICK k \in 1..n : t[k].q = r
      BY <1>3, <2>10
    <3>2. k # p
      BY <1>3, <2>1, <3>1
    <3>. QED  BY <2>6, <2>9, <3>1, <3>2
  <2>13. ASSUME NEW i \in 1..(n - 1), NEW j \in 1..(n - 1), i < j
         PROVE  Used(d, f[i].q) < Used(d, f[j].q)
    <3>1. d[f[i].q] = e[t[g(i)].q] /\ d[f[j].q] = e[t[g(j)].q]
      BY <1>3, <2>6, <2>11
    <3>2. Used(e, t[g(i)].q) < Used(e, t[g(j)].q)
      BY <2>7, <2>8, <2>10, <2>13
    <3>. QED  BY <3>1, <3>2 DEF Used
  <2>14. Lists(f, d)
    BY <1>3, <2>5, <2>11, <2>12, <2>13 DEF Lists
  <2>. QED  BY <1>2, <1>5, <2>5, <2>14 DEF f, d, n
<1>. QED  BY <1>4, <1>5

\* A verdict stored with the latest use stands last in the list.
LEMMA AppendList ==
    ASSUME NEW t, NEW e, Lists(t, e), NEW q \in Shapes, q \notin DOMAIN e,
           NEW o \in Outcomes, NEW u \in Nat, \A r \in DOMAIN e : Used(e, r) < u
    PROVE  /\ Lists(Append(t, Lru!Pair(q, o)), With(e, q, [outcome |-> o, last_used |-> u]))
           /\ Len(Append(t, Lru!Pair(q, o))) = Len(t) + 1
<1>. DEFINE n == Len(t)
            x == [outcome |-> o, last_used |-> u]
            v == Lru!Pair(q, o)
            a == Append(t, v)
            d == With(e, q, x)
<1>1. t \in Seq(Verdicts) /\ n \in Nat /\ Map(e)
  BY DEF Lists
<1>2. x \in Entries /\ x.outcome = o /\ x.last_used = u
  BY DEF Entries
<1>3. v \in Verdicts /\ v.q = q /\ v.outcome = o
  BY DEF Verdicts, Lru!Pair
<1>. HIDE DEF v, x
<1>4. Map(d)
  BY <1>1, <1>2, MapKept
<1>5. /\ DOMAIN d = DOMAIN e \cup {q} /\ d[q] = x
      /\ \A r \in DOMAIN e : d[r] = e[r]
  BY DEF With
<1>. HIDE DEF d
<1>6. /\ a \in Seq(Verdicts) /\ Len(a) = n + 1
      /\ \A i \in 1..n : a[i] = t[i]
      /\ a[n + 1] = v
  BY <1>1, <1>3, AppendProperties
<1>. HIDE DEF a, n
<1>7. /\ \A i \in 1..n : t[i].q \in DOMAIN e /\ t[i].outcome = e[t[i].q].outcome
      /\ \A r \in DOMAIN e : \E i \in 1..n : t[i].q = r
      /\ \A i, j \in 1..n : i < j => Used(e, t[i].q) < Used(e, t[j].q)
  BY DEF Lists, n
<1>8. \A i \in 1..(n + 1) : i \in 1..n \/ i = n + 1
  BY <1>1
<1>9. ASSUME NEW i \in 1..(n + 1)
      PROVE  a[i].q \in DOMAIN d /\ a[i].outcome = d[a[i].q].outcome
  <2>1. CASE i \in 1..n
    <3>1. a[i] = t[i] /\ t[i].q \in DOMAIN e /\ t[i].outcome = e[t[i].q].outcome
      BY <2>1, <1>6, <1>7
    <3>2. t[i].q \in DOMAIN d /\ d[t[i].q] = e[t[i].q]
      BY <1>5, <3>1
    <3>. QED  BY <3>1, <3>2
  <2>2. CASE i = n + 1
    BY <2>2, <1>2, <1>3, <1>5, <1>6
  <2>. QED  BY <1>8, <2>1, <2>2
<1>10. ASSUME NEW r \in DOMAIN d  PROVE \E i \in 1..(n + 1) : a[i].q = r
  <2>1. CASE r \in DOMAIN e
    <3>1. PICK i \in 1..n : t[i].q = r
      BY <2>1, <1>7
    <3>2. i \in 1..(n + 1)
      BY <1>1
    <3>. QED  BY <3>1, <3>2, <1>6
  <2>2. CASE r = q
    <3>1. n + 1 \in 1..(n + 1)
      BY <1>1
    <3>. QED  BY <2>2, <3>1, <1>3, <1>6
  <2>. QED  BY <1>5, <2>1, <2>2
<1>11. ASSUME NEW i \in 1..(n + 1), NEW j \in 1..(n + 1), i < j
       PROVE  Used(d, a[i].q) < Used(d, a[j].q)
  <2>1. i \in 1..n /\ a[i] = t[i] /\ d[t[i].q] = e[t[i].q] /\ t[i].q \in DOMAIN e
    <3>1. i \in 1..n
      BY <1>1, <1>11
    <3>. QED  BY <3>1, <1>5, <1>6, <1>7
  <2>2. CASE j \in 1..n
    <3>1. a[j] = t[j] /\ d[t[j].q] = e[t[j].q]
      BY <2>2, <1>5, <1>6, <1>7
    <3>. QED  BY <2>1, <2>2, <3>1, <1>7, <1>11 DEF Used
  <2>3. CASE j = n + 1
    <3>1. d[a[j].q].last_used = u
      BY <2>3, <1>2, <1>3, <1>5, <1>6
    <3>. QED  BY <2>1, <3>1 DEF Used
  <2>. QED  BY <1>8, <2>2, <2>3
<1>12. Lists(a, d)
  BY <1>1, <1>4, <1>6, <1>9, <1>10, <1>11 DEF Lists
<1>. QED  BY <1>6, <1>12 DEF a, d, x, v, n

\* trim keeps the newest n: fewer than n shapes were used after each of them.
LEMMA NewestList ==
    ASSUME NEW t, NEW e, Lists(t, e), NEW n \in Nat
    PROVE  /\ Lists(Lru!Newest(t, n), trim(e, n))
           /\ Len(Lru!Newest(t, n)) <= n
           /\ Len(t) <= n => trim(e, n) = e
<1>. DEFINE m == Len(t)
            d == trim(e, n)
            k == IF m <= n THEN 0 ELSE m - n
            s == Lru!Newest(t, n)
<1>1. t \in Seq(Verdicts) /\ DOMAIN t = 1..m /\ m \in Nat /\ Map(e)
  BY DEF Lists
<1>2. k \in Nat /\ k <= m /\ m - k <= n /\ (m <= n => k = 0) /\ (~(m <= n) => k = m - n)
  <2>. HIDE DEF m
  <2>1. CASE m <= n
    BY <1>1, <2>1
  <2>2. CASE ~(m <= n)
    BY <1>1, <2>2
  <2>. QED  BY <2>1, <2>2
<1>3. /\ \A i \in 1..m : t[i].q \in DOMAIN e /\ t[i].outcome = e[t[i].q].outcome
      /\ \A r \in DOMAIN e : \E i \in 1..m : t[i].q = r
      /\ \A i, j \in 1..m : i < j => Used(e, t[i].q) < Used(e, t[j].q)
      /\ \A i, j \in 1..m : t[i].q = t[j].q => i = j
  BY ListOrder, ZenonT(30) DEF Lists
<1>4. Map(d) /\ DOMAIN d \subseteq DOMAIN e /\ \A r \in DOMAIN d : d[r] = e[r]
  BY <1>1 DEF trim, Map
<1>. HIDE DEF k
<1>5. \A i \in 1..m : t[i].q \in DOMAIN d <=> i > k
  <2>. TAKE i \in 1..m
  <2>. DEFINE later == Cardinality({ r \in DOMAIN e : e[r].last_used > e[t[i].q].last_used })
  <2>1. later = m - i
    BY ListRank
  <2>2. t[i].q \in DOMAIN d <=> later < n
    BY <1>3, Zenon DEF trim
  <2>. HIDE DEF later, m
  <2>. QED  BY <1>1, <1>2, <2>1, <2>2
<1>6. /\ s \in Seq(Verdicts) /\ Len(s) = m - k
      /\ \A i \in 1..(m - k) : s[i] = t[k + i]
  <2>1. CASE m <= n
    <3>1. s = t
      BY <2>1 DEF Lru!Newest
    <3>2. Len(s) = m
      BY <3>1
    <3>. HIDE DEF s, m
    <3>3. m - k = m /\ \A i \in 1..m : k + i = i
      BY <1>1, <1>2, <2>1
    <3>. QED  BY <1>1, <3>1, <3>2, <3>3
  <2>2. CASE ~(m <= n)
    <3>1. s = SubSeq(t, m - n + 1, m)
      BY <2>2 DEF Lru!Newest
    <3>. HIDE DEF s
    <3>2. \A i \in (m - n + 1)..m : t[i] \in Verdicts
      BY <1>1, <2>2, ElementOfSeq
    <3>3. /\ s \in Seq(Verdicts)
          /\ Len(s) = IF m - n + 1 <= m THEN m - (m - n + 1) + 1 ELSE 0
          /\ \A i \in 1..(m - (m - n + 1) + 1) : s[i] = t[m - n + 1 + i - 1]
      BY <1>1, <3>1, <3>2, SubSeqProperties
    <3>. HIDE DEF m
    <3>4. Len(s) = n /\ m - k = n
      BY <1>1, <1>2, <2>2, <3>3
    <3>5. \A i \in 1..n : s[i] = t[m - n + i]
      BY <1>1, <2>2, <3>3
    <3>. QED  BY <1>2, <2>2, <3>3, <3>4, <3>5
  <2>. QED  BY <2>1, <2>2
<1>. HIDE DEF m, s, d
<1>7. \A i \in 1..(m - k) : k + i \in 1..m /\ k + i > k
  BY <1>1, <1>2
<1>8. \A i \in 1..(m - k) : s[i].q \in DOMAIN d /\ s[i].outcome = d[s[i].q].outcome
  BY <1>3, <1>4, <1>5, <1>6, <1>7
<1>9. ASSUME NEW r \in DOMAIN d  PROVE \E i \in 1..(m - k) : s[i].q = r
  <2>1. PICK j \in 1..m : t[j].q = r
    BY <1>3, <1>4
  <2>2. j > k
    BY <1>5, <2>1
  <2>3. j - k \in 1..(m - k) /\ k + (j - k) = j
    BY <1>1, <1>2, <2>2
  <2>. QED  BY <1>6, <2>1, <2>3
<1>10. ASSUME NEW i \in 1..(m - k), NEW j \in 1..(m - k), i < j
       PROVE  Used(d, s[i].q) < Used(d, s[j].q)
  <2>1. d[s[i].q] = e[t[k + i].q] /\ d[s[j].q] = e[t[k + j].q]
    BY <1>4, <1>6, <1>8
  <2>2. k + i < k + j
    BY <1>2, <1>10
  <2>3. Used(e, t[k + i].q) < Used(e, t[k + j].q)
    BY <1>3, <1>7, <2>2
  <2>. QED  BY <2>1, <2>3 DEF Used
<1>11. Lists(s, d)
  BY <1>4, <1>6, <1>8, <1>9, <1>10 DEF Lists
<1>12. m <= n => d = e
  <2>. SUFFICES ASSUME m <= n PROVE d = e
    OBVIOUS
  <2>1. k = 0
    BY <1>2
  <2>2. DOMAIN e \subseteq DOMAIN d
    <3>1. \A i \in 1..m : i > k
      BY <1>1, <2>1
    <3>. QED  BY <1>3, <1>5, <3>1
  <2>3. d = [r \in DOMAIN d |-> d[r]] /\ e = [r \in DOMAIN e |-> e[r]]
    BY <1>1, <1>4 DEF Map
  <2>. QED  BY <1>4, <2>2, <2>3
<1>. QED  BY <1>2, <1>6, <1>11, <1>12 DEF m, s, d

\* insert, or a new use: the verdict replaces the one of its shape at the end.
LEMMA StoreList ==
    ASSUME NEW t, NEW e, Lists(t, e), NEW q \in Shapes, NEW o \in Outcomes,
           NEW u \in Nat, \A r \in DOMAIN e : Used(e, r) < u
    PROVE  LET s == Append(Lru!Forget(t, q), Lru!Pair(q, o))
           IN  /\ Lists(s, With(e, q, [outcome |-> o, last_used |-> u]))
               /\ q \in DOMAIN e => Len(s) = Len(t)
<1>. DEFINE f == Lru!Forget(t, q)
            d == Without(e, q)
            x == [outcome |-> o, last_used |-> u]
<1>1. /\ Lists(f, d) /\ Len(t) \in Nat
      /\ Len(f) = IF q \in DOMAIN e THEN Len(t) - 1 ELSE Len(t)
  BY ForgetList, ListOrder
<1>2. q \notin DOMAIN d /\ \A r \in DOMAIN d : d[r] = e[r] /\ r \in DOMAIN e
  BY DEF Without
<1>3. \A r \in DOMAIN d : Used(d, r) < u
  BY <1>2 DEF Used
<1>. HIDE DEF f
<1>4. With(d, q, x) = With(e, q, x)
  BY DEF With, Without
<1>. HIDE DEF d
<1>5. /\ Lists(Append(f, Lru!Pair(q, o)), With(d, q, x))
      /\ Len(Append(f, Lru!Pair(q, o))) = Len(f) + 1
  BY <1>1, <1>2, <1>3, AppendList
<1>. QED  BY <1>1, <1>4, <1>5 DEF f

\* The stored verdict and trim are Remember; a shape that was there takes no
\* room, so nothing else is dropped.
LEMMA RememberList ==
    ASSUME NEW t, NEW e, Lists(t, e), NEW q \in Shapes, NEW o \in Outcomes,
           NEW u \in Nat, \A r \in DOMAIN e : Used(e, r) < u, NEW n \in Nat
    PROVE  LET w == With(e, q, [outcome |-> o, last_used |-> u])
               s == Lru!Remember(t, q, o, n)
           IN  /\ Lists(s, trim(w, n))
               /\ Len(s) <= n
               /\ q \in DOMAIN e /\ Len(t) <= n => trim(w, n) = w
<1>. DEFINE w == With(e, q, [outcome |-> o, last_used |-> u])
            a == Append(Lru!Forget(t, q), Lru!Pair(q, o))
<1>1. Lists(a, w) /\ (q \in DOMAIN e => Len(a) = Len(t))
  BY StoreList
<1>2. Lru!Remember(t, q, o, n) = Lru!Newest(a, n)
  BY DEF Lru!Remember
<1>. HIDE DEF a, w
<1>3. /\ Lists(Lru!Newest(a, n), trim(w, n)) /\ Len(Lru!Newest(a, n)) <= n
      /\ Len(a) <= n => trim(w, n) = w
  BY <1>1, NewestList
<1>. QED  BY <1>1, <1>2, <1>3 DEF w

\* The verdict of a listed shape.
LEMMA VerdictList ==
    ASSUME NEW t, NEW e, Lists(t, e), NEW q \in DOMAIN e
    PROVE  Lru!Holds(t, q) /\ Lru!Verdict(t, q) = e[q].outcome
<1>1. DOMAIN t = 1..Len(t) /\ \E i \in 1..Len(t) : t[i].q = q
  BY DEF Lists
<1>2. Lru!Place(t, q) \in 1..Len(t) /\ t[Lru!Place(t, q)].q = q
  BY <1>1 DEF Lru!Place
<1>. QED  BY <1>1, <1>2 DEF Lists, Lru!Holds, Lru!Verdict

-----------------------------------------------------------------------------
(* The inductive invariant.                                                 *)

\* What the counters bound: no use is later than the counter, a deferred count
\* is no larger, a handle was given out.
Bounded(x, m, k) ==
    /\ x.last_used \in 1..m
    /\ x.outcome.kind = "prepared" => x.outcome.n \in 1..k
    /\ x.outcome.kind = "deferred" =>
        x.outcome.n <= m /\ Threshold # 1 /\ (Threshold = 0 \/ x.outcome.n < Threshold)

\* The table: use_counter and ids bound what the entries hold.
TableInv ==
    /\ Map(entries) /\ use_counter \in 0..MaxUse /\ ids \in 0..MaxIds /\ capacity \in Capacities
    /\ \A q \in DOMAIN entries : Bounded(entries[q], use_counter, ids)

\* The callers: a shape under PREPARE, an entry with a handle given out.
CallerInv ==
    /\ preparing \in [Callers -> Shapes \cup {NoShape}]
    /\ slot \in [Callers -> [q : Shapes, id : 1..ids] \cup {NoEntry}]

\* No two entries have the same use, so the list names the whole map, and it
\* fits the capacity.
ListInv == Lists(ByRecency, entries) /\ Len(ByRecency) <= capacity

IInv == TableInv /\ CallerInv /\ ListInv

\* Every entry of the next table is an entry of this one or the verdict o on q,
\* used at u.
Change(q, o, u) ==
    \A r \in DOMAIN entries' :
        \/ r \in DOMAIN entries /\ entries'[r] = entries[r]
        \/ r = q /\ entries'[r] = [outcome |-> o, last_used |-> u]

\* Nothing is added.
Fewer == \A r \in DOMAIN entries' : r \in DOMAIN entries /\ entries'[r] = entries[r]

\* A step of LruCache or a step it does not see.
LruStep == [Lru!Next]_<<ByRecency, capacity, used>>

\* What FirstHandleStays says of a step.
HandleStep ==
    \A q \in DOMAIN entries \cap DOMAIN entries' :
      Outcome(q).kind = "prepared" =>
        \/ entries'[q].outcome = Outcome(q)
        \/ /\ entries'[q].outcome = Literal
           /\ \E c \in Callers : slot[c] = [q |-> q, id |-> Outcome(q).n] /\ slot'[c] = NoEntry

\* What is shown of every action.
Good == IInv' /\ LruStep /\ HandleStep

-----------------------------------------------------------------------------
(* What a step of the cache does to the list.                               *)

\* The bounds on the counters, as numbers.
LEMMA Counters ==
    ASSUME TableInv
    PROVE  /\ MaxUse \in Nat /\ MaxIds \in Nat /\ Threshold \in Nat
           /\ use_counter \in Nat /\ ids \in Nat /\ capacity \in Nat /\ capacity \in Capacities
           /\ use_counter <= MaxUse /\ ids <= MaxIds
           /\ \A q \in DOMAIN entries : q \in Shapes /\ Outcome(q) \in Outcomes
                                        /\ Used(entries, q) \in 1..use_counter
<1>1. \A q \in DOMAIN entries : q \in Shapes /\ Outcome(q) \in Outcomes
  BY DEF TableInv, Map, Entries, Outcome
<1>2. \A q \in DOMAIN entries : Used(entries, q) \in 1..use_counter
  BY DEF TableInv, Bounded, Used
<1>3. Capacities \subseteq Nat
  BY CacheAssumption
<1>. QED  BY <1>1, <1>2, <1>3, CacheAssumption DEF TableInv

\* A verdict is stored with a use later than all others.
LEMMA PutStep ==
    ASSUME IInv, NEW q \in Shapes, NEW o \in Outcomes, NEW u \in Nat, u > use_counter,
           \/ entries' = Stored(q, o, u)
           \/ /\ q \in DOMAIN entries
              /\ entries' = With(entries, q, [outcome |-> o, last_used |-> u]),
           capacity' = capacity
    PROVE  /\ ListInv' /\ Change(q, o, u)
           /\ ByRecency' = Lru!Remember(ByRecency, q, o, capacity)
<1>. DEFINE w == With(entries, q, [outcome |-> o, last_used |-> u])
            s == Lru!Remember(ByRecency, q, o, capacity)
<1>1. Lists(ByRecency, entries) /\ Len(ByRecency) <= capacity /\ capacity \in Nat
  BY Counters DEF IInv, ListInv
<1>2. \A r \in DOMAIN entries : Used(entries, r) < u
  BY Counters DEF IInv
<1>3. /\ Lists(s, trim(w, capacity)) /\ Len(s) <= capacity
      /\ q \in DOMAIN entries /\ Len(ByRecency) <= capacity => trim(w, capacity) = w
  BY <1>1, <1>2, RememberList
<1>4. entries' = trim(w, capacity)
  BY <1>1, <1>3 DEF Stored
<1>5. DOMAIN w = DOMAIN entries \cup {q}
      /\ \A r \in DOMAIN w :
            w[r] = IF r = q THEN [outcome |-> o, last_used |-> u] ELSE entries[r]
  BY DEF With
<1>. HIDE DEF w, s
<1>6. DOMAIN trim(w, capacity) \subseteq DOMAIN w
      /\ \A r \in DOMAIN trim(w, capacity) : trim(w, capacity)[r] = w[r]
  BY DEF trim
<1>7. Change(q, o, u)
  BY <1>4, <1>5, <1>6 DEF Change
<1>8. s = ByRecency'
  BY <1>3, <1>4, ListIsRecency DEF ByRecency
<1>. QED  BY <1>3, <1>4, <1>7, <1>8 DEF ListInv, s

\* A lookup of a listed shape.
LEMMA TouchStep ==
    ASSUME IInv, NEW q \in Shapes, entries' = Touched(q, use_counter + 1),
           capacity' = capacity, used' = q
    PROVE  /\ ListInv' /\ Lru!Use(q)
           /\ q \in DOMAIN entries => Change(q, Outcome(q), use_counter + 1)
           /\ q \notin DOMAIN entries => entries' = entries
<1>1. Lists(ByRecency, entries) /\ Map(entries)
  BY DEF IInv, ListInv, TableInv
<1>2. CASE q \in DOMAIN entries
  <2>. DEFINE x == entries[q]
  <2>1. x \in Entries /\ Outcome(q) = x.outcome /\ Outcome(q) \in Outcomes
    BY <1>1, <1>2 DEF Map, Outcome, Entries
  <2>2. [x EXCEPT !.last_used = use_counter + 1]
          = [outcome |-> Outcome(q), last_used |-> use_counter + 1]
    BY <2>1 DEF Entries
  <2>3. entries' = [entries EXCEPT ![q] = [x EXCEPT !.last_used = use_counter + 1]]
    BY <1>2 DEF Touched, Cached
  <2>4. entries' = With(entries, q, [outcome |-> Outcome(q), last_used |-> use_counter + 1])
    <3>1. DOMAIN entries \cup {q} = DOMAIN entries
      BY <1>2
    <3>. QED  BY <2>2, <2>3, <3>1 DEF With
  <2>5. use_counter + 1 \in Nat /\ use_counter + 1 > use_counter
    BY Counters DEF IInv
  <2>6. /\ ListInv' /\ Change(q, Outcome(q), use_counter + 1)
        /\ ByRecency' = Lru!Remember(ByRecency, q, Outcome(q), capacity)
    BY <1>2, <2>1, <2>4, <2>5, PutStep
  <2>7. Lru!Holds(ByRecency, q) /\ Lru!Verdict(ByRecency, q) = Outcome(q)
    BY <1>1, <1>2, VerdictList DEF Outcome
  <2>. QED  BY <1>2, <2>6, <2>7 DEF Lru!Use
<1>3. CASE q \notin DOMAIN entries
  <2>1. entries' = entries /\ ByRecency' = ByRecency
    BY <1>3 DEF Touched, Cached, ByRecency
  <2>2. ~Lru!Holds(ByRecency, q)
    BY <1>1, <1>3, ForgetList, Zenon
  <2>. QED  BY <1>3, <2>1, <2>2 DEF Lru!Use, ListInv, IInv
<1>. QED  BY <1>2, <1>3

\* A shape leaves the table.
LEMMA DropStep ==
    ASSUME IInv, NEW q \in Shapes, entries' = Without(entries, q), capacity' = capacity
    PROVE  ListInv' /\ Fewer /\ ByRecency' = Lru!Forget(ByRecency, q)
<1>1. Lists(ByRecency, entries) /\ Len(ByRecency) <= capacity
  BY DEF IInv, ListInv
<1>2. /\ Lists(Lru!Forget(ByRecency, q), entries') /\ Len(ByRecency) \in Nat
      /\ Len(Lru!Forget(ByRecency, q)) = IF q \in DOMAIN entries THEN Len(ByRecency) - 1
                                                                 ELSE Len(ByRecency)
  BY <1>1, ForgetList, ListOrder
<1>3. ByRecency' = Lru!Forget(ByRecency, q)
  BY <1>2, ListIsRecency DEF ByRecency
<1>4. capacity \in Nat
  BY Counters DEF IInv
<1>5. Len(Lru!Forget(ByRecency, q)) <= capacity
  BY <1>1, <1>2, <1>4
<1>6. Fewer
  BY DEF Fewer, Without
<1>. QED  BY <1>2, <1>3, <1>5, <1>6 DEF ListInv

-----------------------------------------------------------------------------
(* What a step of the cache does to the entries and the callers.            *)

\* Entries that stay keep their bounds when the counters grow.
LEMMA TableKept ==
    ASSUME TableInv, Map(entries)',
           use_counter' \in 0..MaxUse, use_counter <= use_counter',
           ids' \in 0..MaxIds, ids <= ids', capacity' \in Capacities,
           \A r \in DOMAIN entries' :
             \/ r \in DOMAIN entries /\ entries'[r] = entries[r]
             \/ Bounded(entries'[r], use_counter', ids')
    PROVE  TableInv'
<1>1. /\ use_counter \in Nat /\ ids \in Nat /\ use_counter' \in Nat /\ ids' \in Nat
      /\ Threshold \in Nat
  BY Counters, CacheAssumption
<1>2. ASSUME NEW r \in DOMAIN entries', r \in DOMAIN entries, entries'[r] = entries[r]
      PROVE  Bounded(entries'[r], use_counter', ids')
  <2>1. Bounded(entries[r], use_counter, ids)
    BY <1>2 DEF TableInv
  <2>2. entries[r].outcome \in Outcomes
    BY <1>2 DEF TableInv, Map, Entries
  <2>3. entries[r].outcome.kind = "deferred" => entries[r].outcome.n \in Nat
    BY <2>2, CacheAssumption DEF Outcomes, Literal
  <2>. QED  BY <1>1, <1>2, <2>1, <2>3 DEF Bounded
<1>3. \A r \in DOMAIN entries' : Bounded(entries'[r], use_counter', ids')
  BY <1>2
<1>. QED  BY <1>3 DEF TableInv

\* The statement holds a handle of the table, or none.
LEMMA HoldStep ==
    ASSUME TableInv, CallerInv, TableInv', ids <= ids', NEW c \in Callers, NEW q \in Shapes,
           Hold(c, q) \/ slot' = slot \/ slot' = [slot EXCEPT ![c] = NoEntry]
    PROVE  slot' \in [Callers -> [q : Shapes, id : 1..ids'] \cup {NoEntry}]
<1>. DEFINE Held == [q : Shapes, id : 1..ids'] \cup {NoEntry}
            x == IF q \in DOMAIN entries' /\ entries'[q].outcome.kind = "prepared"
                   THEN [q |-> q, id |-> entries'[q].outcome.n] ELSE NoEntry
<1>1. ids \in Nat /\ ids' \in Nat
  BY Counters, CacheAssumption DEF TableInv
<1>2. [q : Shapes, id : 1..ids] \cup {NoEntry} \subseteq Held
  <2>1. 1..ids \subseteq 1..ids'
    BY <1>1
  <2>. QED  BY <2>1
<1>3. x \in Held
  BY DEF TableInv, Bounded
<1>4. slot' = slot \/ slot' = [slot EXCEPT ![c] = NoEntry] \/ slot' = [slot EXCEPT ![c] = x]
  BY DEF Hold
<1>5. NoEntry \in Held
  OBVIOUS
<1>. HIDE DEF Held, x
<1>6. slot \in [Callers -> Held]
  BY <1>2 DEF CallerInv
<1>7. slot' \in [Callers -> Held]
  BY <1>3, <1>4, <1>5, <1>6
<1>. QED  BY <1>7 DEF Held

-----------------------------------------------------------------------------
(* The kinds of step the methods are made of.                               *)

\* What a step owes apart from the callers.
TableGood == TableInv' /\ ListInv' /\ LruStep /\ HandleStep

\* A verdict is stored: the counter is its use.  If the shape was prepared, the
\* new verdict is allowed by FirstHandleStays.
LEMMA PutGood ==
    ASSUME IInv, NEW q \in Shapes, NEW o \in Outcomes, NEW u \in Nat, u > use_counter,
           \/ entries' = Stored(q, o, u)
           \/ /\ q \in DOMAIN entries
              /\ entries' = With(entries, q, [outcome |-> o, last_used |-> u]),
           capacity' = capacity, used' = q, use_counter' = u, u <= MaxUse,
           ids' \in 0..MaxIds, ids <= ids',
           o.kind = "prepared" => o.n \in 1..ids',
           o.kind = "deferred" => o.n <= u /\ Threshold # 1 /\ (Threshold = 0 \/ o.n < Threshold),
           Is(q, {"prepared"}) =>
             /\ o = Literal
             /\ \E c \in Callers : slot[c] = [q |-> q, id |-> Outcome(q).n] /\ slot'[c] = NoEntry
    PROVE  TableGood
<1>. DEFINE x == [outcome |-> o, last_used |-> u]
<1>1. /\ ListInv' /\ Change(q, o, u)
      /\ ByRecency' = Lru!Remember(ByRecency, q, o, capacity)
  BY PutStep
<1>2. use_counter \in Nat /\ capacity \in Capacities /\ MaxUse \in Nat
  BY Counters DEF IInv
<1>3. Bounded(x, u, ids')
  <2>1. u \in 1..u
    BY <1>2
  <2>. QED  BY <2>1 DEF Bounded
<1>4. TableInv'
  <2>1. Map(entries)'
    BY <1>1 DEF ListInv, Lists
  <2>2. u \in 0..MaxUse /\ use_counter <= u
    BY <1>2
  <2>. HIDE DEF x
  <2>3. \A r \in DOMAIN entries' :
          \/ r \in DOMAIN entries /\ entries'[r] = entries[r]
          \/ Bounded(entries'[r], use_counter', ids')
    BY <1>1, <1>3 DEF Change, x
  <2>. QED  BY <1>2, <2>1, <2>2, <2>3, TableKept DEF IInv
<1>5. LruStep
  BY <1>1 DEF LruStep, Lru!Next, Lru!Put
<1>6. HandleStep
  <2>. SUFFICES ASSUME NEW r \in DOMAIN entries \cap DOMAIN entries',
                       Outcome(r).kind = "prepared"
                PROVE  \/ entries'[r].outcome = Outcome(r)
                       \/ /\ entries'[r].outcome = Literal
                          /\ \E c \in Callers : /\ slot[c] = [q |-> r, id |-> Outcome(r).n]
                                                /\ slot'[c] = NoEntry
    BY DEF HandleStep
  <2>1. CASE entries'[r] = entries[r]
    BY <2>1 DEF Outcome
  <2>2. CASE r = q /\ entries'[r] = x
    <3>1. Is(q, {"prepared"}) /\ entries'[r].outcome = o
      BY <2>2 DEF Is, Cached
    <3>. QED  BY <2>2, <3>1
  <2>. QED  BY <1>1, <2>1, <2>2 DEF Change
<1>. QED  BY <1>1, <1>4, <1>5, <1>6 DEF TableGood

\* A lookup.
LEMMA TouchGood ==
    ASSUME IInv, NEW q \in Shapes, entries' = Touched(q, use_counter + 1),
           capacity' = capacity, used' = q, next_use(1), ids' \in 0..MaxIds, ids <= ids'
    PROVE  TableGood
<1>. DEFINE u == use_counter + 1
            x == [outcome |-> Outcome(q), last_used |-> u]
<1>1. /\ ListInv' /\ Lru!Use(q)
      /\ q \in DOMAIN entries => Change(q, Outcome(q), u)
      /\ q \notin DOMAIN entries => entries' = entries
  BY TouchStep
<1>2. /\ use_counter \in Nat /\ capacity \in Capacities /\ MaxUse \in Nat /\ ids \in Nat
      /\ ids' \in Nat /\ u \in Nat /\ u <= MaxUse /\ use_counter' = u
  BY Counters, CacheAssumption DEF IInv, next_use
<1>. HIDE DEF u
<1>3. \A r \in DOMAIN entries' : /\ r \in DOMAIN entries
                                 /\ entries'[r] = entries[r] \/ (r = q /\ entries'[r] = x)
  BY <1>1 DEF Change
<1>4. TableInv'
  <2>1. Map(entries)'
    BY <1>1 DEF ListInv, Lists
  <2>2. u \in 0..MaxUse /\ use_counter <= u /\ u \in 1..u
    BY <1>2 DEF u
  <2>3. ASSUME q \in DOMAIN entries  PROVE Bounded(x, u, ids')
    <3>1. Bounded(entries[q], use_counter, ids) /\ Outcome(q) \in Outcomes
      BY <2>3, Counters DEF IInv, TableInv
    <3>2. Outcome(q).kind = "deferred" => Outcome(q).n \in Nat
      BY <3>1, CacheAssumption DEF Outcomes, Literal
    <3>. QED  BY <1>2, <2>2, <3>1, <3>2 DEF Bounded, Outcome
  <2>. HIDE DEF x
  <2>4. \A r \in DOMAIN entries' :
          \/ r \in DOMAIN entries /\ entries'[r] = entries[r]
          \/ Bounded(entries'[r], use_counter', ids')
    BY <1>2, <1>3, <2>3
  <2>. QED  BY <1>2, <2>1, <2>2, <2>4, TableKept DEF IInv
<1>5. LruStep
  BY <1>1 DEF LruStep, Lru!Next
<1>6. HandleStep
  <2>1. \A r \in DOMAIN entries' : entries'[r].outcome = Outcome(r)
    BY <1>3 DEF Outcome
  <2>. QED  BY <2>1 DEF HandleStep
<1>. QED  BY <1>1, <1>4, <1>5, <1>6 DEF TableGood

\* Entries are only dropped, and the counters stay or grow.
LEMMA FewerGood ==
    ASSUME IInv, ListInv', Fewer, use_counter' \in 0..MaxUse, use_counter <= use_counter',
           ids' \in 0..MaxIds, ids <= ids', capacity' \in Capacities, LruStep
    PROVE  TableGood
<1>1. Map(entries)'
  BY DEF ListInv, Lists
<1>2. TableInv'
  BY <1>1, TableKept DEF IInv, Fewer
<1>3. HandleStep
  BY DEF HandleStep, Fewer, Outcome
<1>. QED  BY <1>2, <1>3 DEF TableGood

\* A shape is dropped on purpose.
LEMMA DropGood ==
    ASSUME IInv, NEW q \in Shapes, entries' = Without(entries, q), capacity' = capacity,
           used' = used, use_counter' \in 0..MaxUse, use_counter <= use_counter', ids' = ids
    PROVE  TableGood
<1>1. ListInv' /\ Fewer /\ ByRecency' = Lru!Forget(ByRecency, q)
  BY DropStep
<1>2. LruStep
  BY <1>1 DEF LruStep, Lru!Next, Lru!Drop
<1>3. ids \in 0..MaxIds /\ ids <= ids /\ capacity \in Capacities
  BY Counters, CacheAssumption DEF IInv
<1>. QED  BY <1>1, <1>2, <1>3, FewerGood

\* The table is left alone.
LEMMA SameGood ==
    ASSUME IInv, UNCHANGED <<entries, use_counter, capacity, used, ids>>
    PROVE  TableGood
<1>1. ByRecency' = ByRecency
  BY DEF ByRecency
<1>2. ListInv' /\ LruStep /\ Fewer
  BY <1>1 DEF IInv, ListInv, LruStep, Fewer
<1>3. use_counter <= use_counter /\ ids <= ids
  BY Counters DEF IInv
<1>. QED  BY <1>2, <1>3, FewerGood DEF IInv, TableInv

\* The callers, when c takes or returns a shape or holds what it was given.
LEMMA CallerKept ==
    ASSUME IInv, TableInv', ids <= ids', NEW c \in Callers, NEW q \in Shapes,
           \/ preparing' = preparing \/ preparing' = [preparing EXCEPT ![c] = q]
           \/ preparing' = [preparing EXCEPT ![c] = NoShape],
           Hold(c, q) \/ slot' = slot \/ slot' = [slot EXCEPT ![c] = NoEntry]
    PROVE  CallerInv'
<1>1. slot' \in [Callers -> [q : Shapes, id : 1..ids'] \cup {NoEntry}]
  BY HoldStep DEF IInv
<1>2. preparing' \in [Callers -> Shapes \cup {NoShape}]
  BY DEF IInv, CallerInv
<1>. QED  BY <1>1, <1>2 DEF CallerInv

-----------------------------------------------------------------------------
(* One lemma per action.                                                    *)

\* prepare_decision: the early return, the count, the removal, the new entry.
LEMMA DecisionStep ==
    ASSUME IInv, NEW c \in Callers, NEW q \in Shapes, NEW r \in {"declare", "execute", "force"},
           prepare_decision(c, q, r)
    PROVE  Good
<1>. DEFINE u == use_counter + 1
<1>1. /\ use_counter \in Nat /\ ids \in Nat /\ MaxUse \in Nat /\ MaxIds \in Nat
      /\ Threshold \in Nat /\ ids <= MaxIds
      /\ use_counter' = u /\ u <= MaxUse /\ capacity' = capacity /\ ids' = ids
  BY Counters DEF IInv, prepare_decision, next_use
<1>2. /\ u \in Nat /\ u > use_counter /\ u \in 0..MaxUse /\ use_counter <= u
      /\ ids \in 0..MaxIds /\ ids <= ids
  BY <1>1
<1>3. CASE DecideCached(c, q)
  <2>1. TableGood
    <3>1. next_use(1) /\ entries' = Touched(q, use_counter + 1) /\ used' = q
      BY <1>3 DEF prepare_decision, DecideCached
    <3>. QED  BY <1>1, <1>2, <3>1, TouchGood
  <2>2. CallerInv'
    BY <1>1, <1>2, <1>3, <2>1, CallerKept DEF TableGood, DecideCached
  <2>. QED  BY <2>1, <2>2 DEF Good, IInv, TableGood
<1>4. CASE DecideDeferred(c, q, r)
  <2>. DEFINE n == Outcome(q).n + (IF r = "execute" THEN 1 ELSE 0)
  <2>1. /\ q \in DOMAIN entries /\ Outcome(q).kind = "deferred"
        /\ r = "declare" \/ (r = "execute" /\ Defers(n))
        /\ entries' = [entries EXCEPT ![q] = [outcome |-> Deferred(n), last_used |-> u]]
        /\ used' = q /\ Hold(c, q) /\ preparing' = preparing
    BY <1>4 DEF DecideDeferred, Is, Cached
  <2>2. /\ Outcome(q).n \in Nat /\ Outcome(q).n <= use_counter
        /\ Threshold # 1 /\ (Threshold = 0 \/ Outcome(q).n < Threshold)
    <3>1. Outcome(q) \in Outcomes /\ Bounded(entries[q], use_counter, ids)
      BY <2>1, Counters DEF IInv, TableInv
    <3>2. Outcome(q).n \in Nat
      BY <2>1, <3>1, CacheAssumption DEF Outcomes, Literal
    <3>. QED  BY <2>1, <3>1, <3>2 DEF Bounded, Outcome
  <2>3. n \in 0..MaxUse /\ n <= u /\ (Threshold = 0 \/ n < Threshold)
    <3>1. CASE r = "declare"
      BY <1>1, <2>2, <3>1
    <3>2. CASE r = "execute" /\ Defers(n)
      BY <1>1, <2>2, <3>2 DEF Defers
    <3>. QED  BY <2>1, <3>1, <3>2
  <2>. HIDE DEF n
  <2>4. /\ Deferred(n) \in Outcomes /\ Deferred(n).kind = "deferred" /\ Deferred(n).n = n
    BY <2>3 DEF Outcomes, Deferred
  <2>5. entries' = With(entries, q, [outcome |-> Deferred(n), last_used |-> u])
    <3>1. entries = [s \in DOMAIN entries |-> entries[s]]
      BY DEF IInv, TableInv, Map
    <3>2. DOMAIN entries \cup {q} = DOMAIN entries
      BY <2>1
    <3>. QED  BY <2>1, <3>1, <3>2, Zenon DEF With
  <2>6. ~Is(q, {"prepared"})
    BY <2>1 DEF Is
  <2>7. TableGood
    <3>. HIDE DEF u
    <3>. QED  BY <1>1, <1>2, <2>1, <2>2, <2>3, <2>4, <2>5, <2>6, PutGood, Zenon
  <2>8. CallerInv'
    BY <1>1, <1>2, <2>1, <2>7, CallerKept DEF TableGood
  <2>. QED  BY <2>7, <2>8 DEF Good, IInv, TableGood
<1>5. CASE DecideDue(c, q, r)
  <2>1. /\ entries' = Without(entries, q) /\ used' = used /\ slot' = slot
        /\ preparing' = [preparing EXCEPT ![c] = q]
    BY <1>5 DEF DecideDue
  <2>2. TableGood
    BY <1>1, <1>2, <2>1, DropGood
  <2>3. CallerInv'
    BY <1>1, <1>2, <2>1, <2>2, CallerKept, Zenon DEF TableGood
  <2>. QED  BY <2>2, <2>3 DEF Good, IInv, TableGood
<1>6. CASE DecideUnknown(c, q, r)
  <2>1. q \notin DOMAIN entries /\ used' = q
    BY <1>6 DEF DecideUnknown, Cached
  <2>2. CASE r # "force" /\ Threshold # 1
    <3>. DEFINE n == IF r = "execute" THEN 1 ELSE 0
    <3>1. entries' = Stored(q, Deferred(n), u) /\ Hold(c, q) /\ preparing' = preparing
      BY <1>6, <2>2 DEF DecideUnknown
    <3>2. n \in 0..MaxUse /\ n <= u /\ (Threshold = 0 \/ n < Threshold)
      BY <1>1, <2>2
    <3>. HIDE DEF n
    <3>3. /\ Deferred(n) \in Outcomes /\ Deferred(n).kind = "deferred" /\ Deferred(n).n = n
      BY <3>2 DEF Outcomes, Deferred
    <3>4. ~Is(q, {"prepared"})
      BY <2>1 DEF Is, Cached
    <3>5. TableGood
      <4>. HIDE DEF u
      <4>. QED  BY <1>1, <1>2, <2>1, <2>2, <3>1, <3>2, <3>3, <3>4, PutGood, Zenon
    <3>6. CallerInv'
      BY <1>1, <1>2, <3>1, <3>5, CallerKept DEF TableGood
    <3>. QED  BY <3>5, <3>6 DEF Good, IInv, TableGood
  <2>3. CASE ~(r # "force" /\ Threshold # 1)
    <3>1. preparing' = [preparing EXCEPT ![c] = q] /\ entries' = entries /\ slot' = slot
      BY <1>6, <2>3 DEF DecideUnknown
    <3>2. entries' = Touched(q, use_counter + 1) /\ next_use(1)
      BY <2>1, <3>1 DEF Touched, Cached, prepare_decision
    <3>3. TableGood
      BY <1>1, <1>2, <2>1, <3>2, TouchGood
    <3>4. CallerInv'
      BY <1>1, <1>2, <3>1, <3>3, CallerKept, Zenon DEF TableGood
    <3>. QED  BY <3>3, <3>4 DEF Good, IInv, TableGood
  <2>. QED  BY <2>2, <2>3
<1>. QED  BY <1>3, <1>4, <1>5, <1>6 DEF prepare_decision

\* insert: the first handle wins.
LEMMA InsertStep ==
    ASSUME IInv, NEW c \in Callers, insert(c)
    PROVE  Good
<1>. DEFINE q == preparing[c]
            k == ids + 1
<1>1. /\ q # NoShape /\ ids < MaxIds /\ ids' = k /\ used' = q /\ Hold(c, q)
      /\ preparing' = [preparing EXCEPT ![c] = NoShape] /\ capacity' = capacity
  BY DEF insert
<1>2. q \in Shapes
  BY <1>1 DEF IInv, CallerInv
<1>3. /\ ids \in Nat /\ MaxIds \in Nat /\ use_counter \in Nat /\ MaxUse \in Nat
  BY Counters DEF IInv
<1>4. ids' \in 0..MaxIds /\ ids <= ids' /\ k \in 1..ids' /\ k \in 1..MaxIds
  BY <1>1, <1>3
<1>5. TableGood
  <2>1. CASE Winner(q)
    <3>1. entries' = Touched(q, use_counter + 1) /\ next_use(1)
      BY <2>1 DEF insert
    <3>. QED  BY <1>1, <1>2, <1>4, <3>1, TouchGood
  <2>2. CASE ~Winner(q)
    <3>. DEFINE u == use_counter + 2
    <3>1. entries' = Stored(q, Prepared(k), u) /\ use_counter' = u /\ u <= MaxUse
      BY <2>2 DEF insert, next_use
    <3>2. u \in Nat /\ u > use_counter
      BY <1>3
    <3>. HIDE DEF k, u
    <3>3. /\ Prepared(k) \in Outcomes /\ Prepared(k).kind = "prepared" /\ Prepared(k).n = k
      BY <1>4 DEF Outcomes, Prepared
    <3>. HIDE DEF q
    <3>. QED  BY <1>1, <1>2, <1>4, <2>2, <3>1, <3>2, <3>3, PutGood, Zenon DEF Winner
  <2>. QED  BY <2>1, <2>2
<1>6. CallerInv'
  BY <1>1, <1>2, <1>4, <1>5, CallerKept, Zenon DEF TableGood
<1>. QED  BY <1>5, <1>6 DEF Good, IInv, TableGood

\* insert_literal: a verdict of another caller stays.
LEMMA InsertLiteralStep ==
    ASSUME IInv, NEW c \in Callers, insert_literal(c)
    PROVE  Good
<1>. DEFINE q == preparing[c]
<1>1. /\ q # NoShape /\ ids' = ids /\ used' = q /\ Hold(c, q)
      /\ preparing' = [preparing EXCEPT ![c] = NoShape] /\ capacity' = capacity
  BY DEF insert_literal
<1>2. q \in Shapes
  BY <1>1 DEF IInv, CallerInv
<1>3. /\ ids \in Nat /\ MaxIds \in Nat /\ use_counter \in Nat /\ MaxUse \in Nat /\ ids <= MaxIds
  BY Counters DEF IInv
<1>4. ids' \in 0..MaxIds /\ ids <= ids'
  BY <1>1, <1>3
<1>5. TableGood
  <2>1. CASE Is(q, {"prepared", "literal"})
    <3>1. entries' = Touched(q, use_counter + 1) /\ next_use(1)
      BY <2>1 DEF insert_literal
    <3>. QED  BY <1>1, <1>2, <1>4, <3>1, TouchGood
  <2>2. CASE ~Is(q, {"prepared", "literal"})
    <3>. DEFINE u == use_counter + 2
    <3>1. entries' = Stored(q, Literal, u) /\ use_counter' = u /\ u <= MaxUse
      BY <2>2 DEF insert_literal, next_use
    <3>2. u \in Nat /\ u > use_counter
      BY <1>3
    <3>3. Literal \in Outcomes /\ Literal.kind = "literal"
      BY DEF Outcomes, Literal
    <3>4. ~Is(q, {"prepared"})
      BY <2>2 DEF Is
    <3>. HIDE DEF q, u
    <3>. QED  BY <1>1, <1>2, <1>4, <3>1, <3>2, <3>3, <3>4, PutGood, Zenon
  <2>. QED  BY <2>1, <2>2
<1>6. CallerInv'
  BY <1>1, <1>2, <1>4, <1>5, CallerKept, Zenon DEF TableGood
<1>. QED  BY <1>5, <1>6 DEF Good, IInv, TableGood

\* The PREPARE fails and leaves the table alone.
LEMMA FailsStep ==
    ASSUME IInv, NEW c \in Callers, PrepareFails(c)
    PROVE  Good
<1>. DEFINE q == preparing[c]
<1>1. /\ q # NoShape /\ preparing' = [preparing EXCEPT ![c] = NoShape] /\ slot' = slot
      /\ UNCHANGED <<entries, use_counter, capacity, used, ids>>
  BY DEF PrepareFails
<1>2. q \in Shapes /\ ids <= ids'
  BY <1>1, Counters DEF IInv, CallerInv
<1>3. TableGood
  BY <1>1, SameGood
<1>4. CallerInv'
  BY <1>1, <1>2, <1>3, CallerKept, Zenon DEF TableGood
<1>. QED  BY <1>3, <1>4 DEF Good, IInv, TableGood

\* prepare_cached: a lookup.
LEMMA CachedStep ==
    ASSUME IInv, NEW c \in Callers, NEW q \in Shapes, prepare_cached(c, q)
    PROVE  Good
<1>1. /\ entries' = Touched(q, use_counter + 1) /\ next_use(1) /\ used' = q
      /\ capacity' = capacity /\ ids' = ids
      /\ Hold(c, q) \/ slot' = slot
      /\ preparing' = preparing \/ preparing' = [preparing EXCEPT ![c] = q]
  BY DEF prepare_cached
<1>2. ids' \in 0..MaxIds /\ ids <= ids'
  BY <1>1, Counters, CacheAssumption DEF IInv
<1>3. TableGood
  BY <1>1, <1>2, TouchGood
<1>4. CallerInv'
  BY <1>1, <1>2, <1>3, CallerKept DEF TableGood
<1>. QED  BY <1>3, <1>4 DEF Good, IInv, TableGood

\* remove_if_id: the holder of the very handle drops it.
LEMMA RemoveStep ==
    ASSUME IInv, NEW c \in Callers, remove_if_id(c)
    PROVE  Good
<1>. DEFINE s == slot[c]
<1>1. /\ s # NoEntry /\ UNCHANGED <<use_counter, capacity, preparing, slot, ids, used>>
      /\ entries' = Without(entries, s.q) \/ entries' = entries
  BY DEF remove_if_id
<1>2. s.q \in Shapes
  BY <1>1 DEF IInv, CallerInv
<1>3. use_counter \in 0..MaxUse /\ use_counter <= use_counter /\ ids <= ids
  BY Counters, CacheAssumption DEF IInv
<1>4. TableGood
  <2>1. CASE entries' = entries
    BY <1>1, <2>1, SameGood
  <2>2. CASE entries' = Without(entries, s.q)
    BY <1>1, <1>2, <1>3, <2>2, DropGood
  <2>. QED  BY <1>1, <2>1, <2>2
<1>5. CallerInv'
  BY <1>1, <1>2, <1>3, <1>4, CallerKept DEF TableGood
<1>. QED  BY <1>4, <1>5 DEF Good, IInv, TableGood

\* replace_prepared_with_literal: only the holder of the very handle demotes it.
LEMMA ReplaceStep ==
    ASSUME IInv, NEW c \in Callers, replace_prepared_with_literal(c)
    PROVE  Good
<1>. DEFINE s == slot[c]
            q == s.q
<1>1. /\ s # NoEntry /\ UNCHANGED <<capacity, preparing, ids>>
      /\ slot' = [slot EXCEPT ![c] = NoEntry]
  BY DEF replace_prepared_with_literal
<1>2. s \in [q : Shapes, id : 1..ids] /\ slot'[c] = NoEntry
  BY <1>1 DEF IInv, CallerInv
<1>3. q \in Shapes /\ s = [q |-> q, id |-> s.id]
  BY <1>2
<1>4. /\ ids \in Nat /\ MaxIds \in Nat /\ use_counter \in Nat /\ MaxUse \in Nat /\ ids <= MaxIds
  BY Counters DEF IInv
<1>5. ids' \in 0..MaxIds /\ ids <= ids'
  BY <1>1, <1>4
<1>6. TableGood
  <2>1. CASE Demotes(q, s.id)
    <3>. DEFINE u == use_counter + 1
    <3>1. /\ entries' = Stored(q, Literal, u) /\ use_counter' = u /\ u <= MaxUse /\ used' = q
      BY <2>1 DEF replace_prepared_with_literal, next_use
    <3>2. u \in Nat /\ u > use_counter
      BY <1>4
    <3>3. Literal \in Outcomes /\ Literal.kind = "literal"
      BY DEF Outcomes, Literal
    <3>4. Is(q, {"prepared"}) => slot[c] = [q |-> q, id |-> Outcome(q).n]
      BY <1>3, <2>1, Zenon DEF Demotes
    <3>. HIDE DEF q, u
    <3>. QED  BY <1>1, <1>2, <1>3, <1>5, <3>1, <3>2, <3>3, <3>4, PutGood, Zenon
  <2>2. CASE ~Demotes(q, s.id)
    BY <1>1, <2>2, SameGood DEF replace_prepared_with_literal
  <2>. QED  BY <2>1, <2>2
<1>7. CallerInv'
  BY <1>1, <1>3, <1>5, <1>6, CallerKept, Zenon DEF TableGood
<1>. QED  BY <1>6, <1>7 DEF Good, IInv, TableGood

\* The empty map has the empty list.
LEMMA EmptyList == Lists(<<>>, <<>>) /\ Recency(<<>>) = <<>>
<1>1. DOMAIN <<>> = {} /\ Len(<<>>) = 0 /\ <<>> \in Seq(Verdicts)
  OBVIOUS
<1>2. Map(<<>>)
  BY <1>1 DEF Map
<1>3. Lists(<<>>, <<>>)
  BY <1>1, <1>2 DEF Lists
<1>. QED  BY <1>3, ListIsRecency

\* clear: every entry goes.
LEMMA ClearStep ==
    ASSUME IInv, clear
    PROVE  Good
<1>1. entries' = <<>> /\ UNCHANGED <<use_counter, capacity, preparing, slot, ids, used>>
  BY DEF clear
<1>2. ByRecency' = <<>> /\ Lists(ByRecency', entries')
  BY <1>1, EmptyList DEF ByRecency
<1>3. capacity \in Nat /\ capacity \in Capacities /\ use_counter <= use_counter /\ ids <= ids
      /\ use_counter \in 0..MaxUse /\ ids \in 0..MaxIds
  BY Counters DEF IInv, TableInv
<1>4. ListInv' /\ Fewer
  BY <1>1, <1>2, <1>3 DEF ListInv, Fewer
<1>5. LruStep
  BY <1>1, <1>2 DEF LruStep, Lru!Next, Lru!Clear
<1>6. TableGood
  BY <1>1, <1>3, <1>4, <1>5, FewerGood
<1>7. CallerInv'
  BY <1>1 DEF IInv, CallerInv
<1>. QED  BY <1>6, <1>7 DEF Good, IInv, TableGood

\* set_capacity: the least recently used entries go.
LEMMA CapacityStep ==
    ASSUME IInv, NEW n \in Capacities, set_capacity(n)
    PROVE  Good
<1>1. /\ capacity' = n /\ entries' = trim(entries, n)
      /\ UNCHANGED <<use_counter, preparing, slot, ids, used>>
  BY DEF set_capacity
<1>2. n \in Nat /\ use_counter <= use_counter /\ ids <= ids
      /\ use_counter \in 0..MaxUse /\ ids \in 0..MaxIds
  BY Counters, CacheAssumption DEF IInv, TableInv
<1>3. Lists(Lru!Newest(ByRecency, n), entries') /\ Len(Lru!Newest(ByRecency, n)) <= n
  BY <1>1, <1>2, NewestList DEF IInv, ListInv
<1>4. ByRecency' = Lru!Newest(ByRecency, n)
  BY <1>3, ListIsRecency DEF ByRecency
<1>5. ListInv' /\ Fewer
  BY <1>1, <1>3, <1>4 DEF ListInv, Fewer, trim
<1>6. LruStep
  BY <1>1, <1>4 DEF LruStep, Lru!Next, Lru!Resize
<1>7. TableGood
  BY <1>1, <1>2, <1>5, <1>6, FewerGood
<1>8. CallerInv'
  BY <1>1 DEF IInv, CallerInv
<1>. QED  BY <1>7, <1>8 DEF Good, IInv, TableGood

\* A step that changes nothing.
LEMMA StutterStep ==
    ASSUME IInv, UNCHANGED vars
    PROVE  Good
<1>1. TableGood
  BY SameGood DEF vars
<1>2. CallerInv'
  BY DEF IInv, CallerInv, vars
<1>. QED  BY <1>1, <1>2 DEF Good, IInv, TableGood

-----------------------------------------------------------------------------
(* The theorems.                                                            *)

\* A new cache is empty.
LEMMA InitInv ==
    ASSUME Init
    PROVE  IInv /\ Lru!Init
<1>1. entries = <<>> /\ ByRecency = <<>> /\ Lists(ByRecency, entries)
  BY EmptyList DEF Init, ByRecency
<1>2. capacity \in Capacities /\ capacity \in Nat /\ used = "none"
  BY CacheAssumption DEF Init, NoShape
<1>3. 0 \in 0..MaxUse /\ 0 \in 0..MaxIds
  BY CacheAssumption
<1>4. TableInv
  BY <1>1, <1>2, <1>3 DEF TableInv, Init, Lists
<1>5. CallerInv
  BY DEF CallerInv, Init
<1>6. ListInv
  BY <1>1, <1>2 DEF ListInv
<1>. QED  BY <1>1, <1>2, <1>4, <1>5, <1>6 DEF IInv, Lru!Init

\* Every step.
LEMMA NextStep ==
    ASSUME IInv, [Next]_vars
    PROVE  Good
<1>1. ASSUME NEW c \in Callers, NEW q \in Shapes,
             NEW r \in {"declare", "execute", "force"}, prepare_decision(c, q, r)
      PROVE  Good
  BY <1>1, DecisionStep
<1>2. ASSUME NEW c \in Callers, NEW q \in Shapes, prepare_cached(c, q)  PROVE Good
  BY <1>2, CachedStep
<1>3. ASSUME NEW c \in Callers,
             \/ insert(c) \/ insert_literal(c) \/ PrepareFails(c)
             \/ remove_if_id(c) \/ replace_prepared_with_literal(c)
      PROVE  Good
  BY <1>3, InsertStep, InsertLiteralStep, FailsStep, RemoveStep, ReplaceStep
<1>4. CASE clear
  BY <1>4, ClearStep
<1>5. ASSUME NEW n \in Capacities, set_capacity(n)  PROVE Good
  BY <1>5, CapacityStep
<1>6. CASE UNCHANGED vars
  BY <1>6, StutterStep
<1>. QED  BY <1>1, <1>2, <1>3, <1>4, <1>5, <1>6 DEF Next

\* The inductive invariant: the uses of the entries are distinct numbers up to
\* use_counter, so that the map has one list by recency, no longer than capacity.
THEOREM CacheInvariance == Spec => []IInv
<1>1. Init => IInv
  BY InitInv
<1>2. IInv /\ [Next]_vars => IInv'
  BY NextStep DEF Good
<1>. QED  BY <1>1, <1>2, PTL DEF Spec

\* PreparedCache is well typed for any callers, shapes, sizes and threshold: the
\* uses of the entries are numbers use_counter has given out.
THEOREM CacheTypes == Spec => []TypeOK
<1>1. IInv => TypeOK
  <2>. SUFFICES ASSUME IInv PROVE TypeOK
    OBVIOUS
  <2>1. \A q \in DOMAIN entries :
          Outcome(q) \in Outcomes /\ entries[q].last_used \in 1..use_counter
    BY Counters DEF IInv, TableInv, Bounded, Outcome
  <2>2. DOMAIN entries \subseteq Shapes
    BY DEF IInv, TableInv, Map
  <2>3. preparing \in [Callers -> Shapes \cup {NoShape}]
        /\ \A c \in Callers : slot[c] = NoEntry \/ slot[c] \in [q : Shapes, id : 1..ids]
    BY DEF IInv, CallerInv
  <2>. QED  BY <2>1, <2>2, <2>3 DEF TypeOK
<1>. QED  BY <1>1, CacheInvariance, PTL

\* A shape that prepare_decision deferred has not reached prepare_threshold, for
\* any threshold and however the callers, evictions and clears interleave.
THEOREM DeferralsEnd == Spec => []DeferredBelowThreshold
<1>1. IInv => DeferredBelowThreshold
  BY Counters DEF IInv, TableInv, Bounded, Outcome, DeferredBelowThreshold
<1>. QED  BY <1>1, CacheInvariance, PTL

\* insert, insert_literal and replace_prepared_with_literal never replace a
\* prepared handle under another caller: it stays until its own holder demotes it
\* or it leaves the table.
THEOREM HandlesStay == Spec => FirstHandleStays
<1>1. IInv /\ [Next]_vars => [HandleStep]_vars
  BY NextStep DEF Good
<1>2. [HandleStep]_vars =>
        [\A q \in DOMAIN entries \cap DOMAIN entries' :
           Outcome(q).kind = "prepared" =>
              \/ entries'[q].outcome = Outcome(q)
              \/ /\ entries'[q].outcome = Literal
                 /\ \E c \in Callers : /\ slot[c] = [q |-> q, id |-> Outcome(q).n]
                                       /\ slot'[c] = NoEntry]_vars
  BY DEF HandleStep
<1>. QED  BY <1>1, <1>2, CacheInvariance, PTL DEF Spec, FirstHandleStays

\* The use counters and the trim loop of PreparedCache implement a table that
\* forgets the least recently used shape first and never exceeds its capacity.
THEOREM CacheIsLru == Spec => ImplementsLru
<1>1. Init => Lru!Init
  BY InitInv
<1>2. IInv /\ [Next]_vars => [Lru!Next]_<<ByRecency, capacity, used>>
  BY NextStep DEF Good, LruStep
<1>. QED  BY <1>1, <1>2, CacheInvariance, PTL DEF Spec, ImplementsLru, Lru!Spec
=============================================================================
