------------------------- MODULE PreparedPlansProofs -------------------------
(***************************************************************************)
(* Proofs about PreparedPlans for any number of callers, shapes, handles,  *)
(* schema changes and discards and any cache capacity: leased handles are  *)
(* never deallocated, unowned ones belong to an older generation, and the  *)
(* one retry is enough for a one-row execution that nothing disturbed.     *)
(***************************************************************************)
EXTENDS PreparedPlans, SequenceTheorems, TLAPS

\* What the cache stores: a shape and the handle prepared for it.
PairSet == [q : Shapes \cup {"none"}, outcome : Nat]

\* The pairs of a table.
Pairs(c) == { c[i] : i \in DOMAIN c }

\* A table is a sequence of pairs, at most one for each shape.
Table(c) ==
    /\ c \in Seq(PairSet)
    /\ \A i, j \in DOMAIN c : c[i].q = c[j].q => i = j

\* The types of the connection's state; no entry has a later generation than
\* the connection.
ConnectionType ==
    /\ generation \in Nat /\ explicit \in BOOLEAN /\ lock \in Threads \cup {Free}
    /\ gen \in [Ids -> Nat] /\ \A i \in Ids : gen[i] <= generation
    /\ disturbed \in [Threads -> BOOLEAN]

\* Statements are well formed, and handles are numbered from one.
StatementType == th \in [Threads -> Statements] /\ ids \in 0..MaxIds

\* The cache is a table within its capacity, of handles that were handed out.
CacheType == Table(cache) /\ Len(cache) <= Capacity /\ InCache(cache) \subseteq 1..ids

\* What TypeOK leaves open.
RangeInv == ConnectionType /\ StatementType /\ CacheType

\* Where a statement is between its lookup and the insertion of a new entry.
Preparing == {"get", "prepare", "wrap", "insert"}

\* A statement that is idle, declares its query or changes the schema holds no
\* lease and a ready one only its slot; one that sends, evicts or has finished
\* is in a call, and only a retry has retried.
Consistent(r) ==
    /\ r.pc \in {"idle", "bump", "clear", "ddl"} \/ (r.pc \in Preparing /\ r.why = "declare")
         => r.slot = None /\ r.first = None /\ r.second = None
    /\ r.pc \in {"bump", "clear", "ddl"} => r.why \in {"before", "after"}
    /\ r.pc \in Preparing => r.why \in {"declare", "refresh", "retry"}
    /\ r.pc \in {"send", "rows", "evict", "done"} => r.why \in {"refresh", "retry"}
    /\ r.retried <=> r.why = "retry"
    /\ r.pc = "rows" => r.batch
    /\ r.pc = "ready" => r.first = None /\ r.second = None

\* Every statement is in a state its code can leave it in.
StatementInv == \A t \in Threads : Consistent(th[t])

\* A thread has a handle that is not in the cache yet.
Carries(r) == r.pc \in {"wrap", "insert"}

\* A handle on its way into the cache belongs to one caller, is not given up,
\* and has no lease before its entry exists.
CarriedInv ==
    /\ \A t \in Threads : Carries(th[t]) =>
         th[t].cand # None /\ th[t].cand \notin released \cup pending
    /\ \A t \in Threads : th[t].pc = "wrap" => th[t].cand \notin Leases(cache, th)
    /\ \A t, u \in Threads :
         Carries(th[t]) /\ Carries(th[u]) /\ th[t].cand = th[u].cand => t = u

\* The statement is in an execution, not in a declaration or schema change.
InCall(r) == r.why \in {"refresh", "retry"}

\* The call has not looked its shape up yet.
Unread(r) == r.pc = "get" /\ ~r.retried

\* The call may still be about to find out that its handle is missing.
Probing(r) == ~r.retried /\ r.pc \notin Preparing

\* Every handle on its way into the cache is alive.
AllAlive == \A u \in Threads : Carries(th[u]) => th[u].cand \in live

\* The pairs of the cache whose handle the server no longer has.
Dead == { e \in Pairs(cache) : e.outcome \notin live }

\* After its first lookup a call finds no dead handle for its shape in the cache
\* but the one it sends, after the eviction none, and then it sends a live one.
Recovers(r) ==
    /\ AllAlive
    /\ ~Unread(r) => \A e \in Dead : e.q = r.q => Probing(r) /\ e.outcome = r.first
    /\ r.retried /\ r.pc = "send" => r.first \in live

\* A call that nothing disturbed is on its way to a live handle.
CallInv == \A t \in Threads : InCall(th[t]) /\ ~disturbed[t] => Recovers(th[t])

\* The inductive invariant.
IInv ==
    /\ TypeOK /\ RangeInv /\ StatementInv /\ LeasedHandlesStay /\ CarriedInv
    /\ OrphansAreOld /\ CallInv /\ RetryRecovers

-----------------------------------------------------------------------------
(* The table.                                                               *)

\* What a lookup returns is stored under the shape that was asked for.
LEMMA VerdictStored ==
  ASSUME NEW c, NEW q, Table(c), Lru!Holds(c, q)
  PROVE  /\ Lru!Place(c, q) \in 1..Len(c)
         /\ c[Lru!Place(c, q)].q = q
         /\ Lru!Pair(q, Lru!Verdict(c, q)) \in Pairs(c)
<1>. DEFINE p == Lru!Place(c, q)
<1>1. /\ c \in Seq(PairSet)
      /\ DOMAIN c = 1..Len(c)
  BY DEF Table
<1>2. p \in DOMAIN c /\ c[p].q = q
  BY DEF Lru!Holds, Lru!Place
<1>. HIDE DEF p
<1>3. c[p] \in PairSet
  BY <1>1, <1>2
<1>4. c[p] = [q |-> c[p].q, outcome |-> c[p].outcome]
  BY <1>3 DEF PairSet
<1>. QED  BY <1>1, <1>2, <1>4 DEF Lru!Pair, Lru!Verdict, Pairs, p

\* Removing a shape leaves a table without it that holds nothing new.
LEMMA ForgetTable ==
  ASSUME NEW c, NEW q, Table(c)
  PROVE  /\ Table(Lru!Forget(c, q))
         /\ Len(Lru!Forget(c, q)) <= Len(c)
         /\ \A e \in Pairs(Lru!Forget(c, q)) : e \in Pairs(c) /\ e.q # q
<1>. DEFINE p == Lru!Place(c, q)
            a == SubSeq(c, 1, p - 1)
            b == SubSeq(c, p + 1, Len(c))
            f == Lru!Forget(c, q)
            n == Len(c)
<1>1. c \in Seq(PairSet) /\ DOMAIN c = 1..n /\ n \in Nat
  BY DEF Table
<1>2. CASE ~Lru!Holds(c, q)
  BY <1>1, <1>2 DEF Lru!Forget, Lru!Holds, Pairs
<1>3. CASE Lru!Holds(c, q)
  <2>1. p \in 1..n /\ c[p].q = q
    BY <1>3, VerdictStored
  <2>. HIDE DEF p, n
  <2>2. /\ a \in Seq(PairSet) /\ Len(a) = p - 1
        /\ \A i \in 1..(p - 1) : a[i] = c[i]
    <3>1. \A i \in 1..(p - 1) : c[i] \in PairSet
      BY <1>1, <2>1, ElementOfSeq DEF n
    <3>2. /\ a \in Seq(PairSet)
          /\ Len(a) = IF 1 <= p - 1 THEN (p - 1) - 1 + 1 ELSE 0
          /\ \A i \in 1..((p - 1) - 1 + 1) : a[i] = c[1 + i - 1]
      BY <2>1, <3>1, SubSeqProperties
    <3>. HIDE DEF a
    <3>. QED  BY <2>1, <3>2
  <2>3. /\ b \in Seq(PairSet) /\ Len(b) = n - p
        /\ \A i \in 1..(n - p) : b[i] = c[p + i]
    <3>1. \A i \in (p + 1)..n : c[i] \in PairSet
      BY <1>1, <2>1, ElementOfSeq DEF n
    <3>2. /\ b \in Seq(PairSet)
          /\ Len(b) = IF p + 1 <= n THEN n - (p + 1) + 1 ELSE 0
          /\ \A i \in 1..(n - (p + 1) + 1) : b[i] = c[p + 1 + i - 1]
      BY <1>1, <2>1, <3>1, SubSeqProperties DEF n
    <3>. HIDE DEF b
    <3>. QED  BY <1>1, <2>1, <3>2
  <2>4. f = a \o b
    BY <1>3, Zenon DEF Lru!Forget, p, n
  <2>. HIDE DEF a, b, f
  <2>5. /\ f \in Seq(PairSet) /\ Len(f) = n - 1 /\ DOMAIN f = 1..(n - 1)
        /\ \A i \in 1..(n - 1) : f[i] = IF i < p THEN a[i] ELSE b[i - p + 1]
    <3>1. /\ f \in Seq(PairSet) /\ Len(f) = Len(a) + Len(b)
          /\ \A i \in 1..(Len(a) + Len(b)) : f[i] = IF i <= Len(a) THEN a[i] ELSE b[i - Len(a)]
      BY <2>2, <2>3, <2>4, ConcatProperties, Zenon
    <3>2. DOMAIN f = 1..Len(f)
      BY <3>1
    <3>. QED  BY <1>1, <2>1, <2>2, <2>3, <3>1, <3>2
  <2>6. \A i \in 1..(n - 1) : f[i] = c[IF i < p THEN i ELSE i + 1]
    <3>. TAKE i \in 1..(n - 1)
    <3>1. CASE i < p
      BY <3>1, <1>1, <2>1, <2>2, <2>5
    <3>2. CASE ~(i < p)
      <4>1. i - p + 1 \in 1..(n - p) /\ p + (i - p + 1) = i + 1
        BY <3>2, <1>1, <2>1
      <4>. QED  BY <3>2, <4>1, <1>1, <2>1, <2>3, <2>5, Zenon
    <3>. QED  BY <3>1, <3>2
  <2>. DEFINE g(i) == IF i < p THEN i ELSE i + 1
  <2>7. \A i \in 1..(n - 1) : g(i) \in 1..n /\ g(i) # p
    BY <1>1, <2>1
  <2>8. \A i, j \in 1..(n - 1) : g(i) = g(j) => i = j
    BY <1>1, <2>1
  <2>9. \A i \in 1..(n - 1) : f[i] = c[g(i)]
    BY <2>6
  <2>. HIDE DEF g
  <2>10. \A i, j \in 1..n : c[i].q = c[j].q => i = j
    BY <1>1 DEF Table
  <2>11. \A i \in 1..(n - 1) : f[i].q # q
    BY <2>1, <2>7, <2>9, <2>10
  <2>12. \A i, j \in 1..(n - 1) : f[i].q = f[j].q => i = j
    BY <2>7, <2>8, <2>9, <2>10
  <2>13. Table(f)
    BY <2>5, <2>12 DEF Table
  <2>14. \A e \in Pairs(f) : e \in Pairs(c) /\ e.q # q
    BY <1>1, <2>5, <2>7, <2>9, <2>11 DEF Pairs
  <2>15. Len(f) <= Len(c)
    BY <1>1, <2>5
  <2>. QED  BY <2>13, <2>14, <2>15 DEF f
<1>. QED  BY <1>2, <1>3

\* The trim keeps a table within the capacity and adds nothing to it.
LEMMA NewestTable ==
  ASSUME NEW c, NEW n \in Nat, Table(c)
  PROVE  /\ Table(Lru!Newest(c, n))
         /\ Len(Lru!Newest(c, n)) <= n
         /\ Pairs(Lru!Newest(c, n)) \subseteq Pairs(c)
<1>. DEFINE m == Len(c)
            d == Lru!Newest(c, n)
<1>1. c \in Seq(PairSet) /\ DOMAIN c = 1..m /\ m \in Nat
  BY DEF Table
<1>2. CASE m <= n
  BY <1>2 DEF Lru!Newest
<1>3. CASE ~(m <= n)
  <2>1. d = SubSeq(c, m - n + 1, m)
    BY <1>3 DEF Lru!Newest
  <2>. HIDE DEF d
  <2>2. /\ d \in Seq(PairSet) /\ Len(d) = n /\ DOMAIN d = 1..n
        /\ \A i \in 1..n : d[i] = c[m - n + i]
    <3>1. \A i \in (m - n + 1)..m : c[i] \in PairSet
      BY <1>1, <1>3, ElementOfSeq
    <3>2. /\ d \in Seq(PairSet)
          /\ Len(d) = IF m - n + 1 <= m THEN m - (m - n + 1) + 1 ELSE 0
          /\ \A i \in 1..(m - (m - n + 1) + 1) : d[i] = c[m - n + 1 + i - 1]
      BY <1>1, <2>1, <3>1, SubSeqProperties
    <3>3. DOMAIN d = 1..Len(d)
      BY <3>2
    <3>. HIDE DEF m
    <3>. QED  BY <1>1, <1>3, <3>2, <3>3
  <2>3. \A i \in 1..n : m - n + i \in 1..m
    BY <1>1, <1>3
  <2>4. \A i, j \in 1..n : m - n + i = m - n + j => i = j
    BY <1>1
  <2>5. \A i, j \in 1..m : c[i].q = c[j].q => i = j
    BY <1>1 DEF Table
  <2>. HIDE DEF m
  <2>6. Table(d)
    <3>1. \A i, j \in 1..n : d[i].q = d[j].q => m - n + i = m - n + j
      BY <2>2, <2>3, <2>5
    <3>. QED  BY <2>2, <2>4, <3>1 DEF Table
  <2>7. Pairs(d) \subseteq Pairs(c)
    BY <1>1, <2>2, <2>3 DEF Pairs
  <2>. QED  BY <2>2, <2>6, <2>7 DEF d
<1>. QED  BY <1>2, <1>3

\* Storing a verdict keeps the table within the capacity; it is the only pair
\* that may be new, and the only one of its shape.
LEMMA RememberTable ==
  ASSUME NEW c, NEW q \in Shapes \cup {"none"}, NEW o \in Nat, NEW n \in Nat, Table(c)
  PROVE  /\ Table(Lru!Remember(c, q, o, n))
         /\ Len(Lru!Remember(c, q, o, n)) <= n
         /\ \A e \in Pairs(Lru!Remember(c, q, o, n)) :
               e = Lru!Pair(q, o) \/ (e \in Pairs(c) /\ e.q # q)
<1>. DEFINE f == Lru!Forget(c, q)
            a == Append(f, Lru!Pair(q, o))
            m == Len(f)
<1>1. Table(f) /\ \A e \in Pairs(f) : e \in Pairs(c) /\ e.q # q
  BY ForgetTable
<1>2. /\ f \in Seq(PairSet) /\ DOMAIN f = 1..m /\ m \in Nat /\ Lru!Pair(q, o) \in PairSet
      /\ Lru!Pair(q, o).q = q
  BY <1>1 DEF Table, Lru!Pair, PairSet
<1>. HIDE DEF f
<1>3. /\ a \in Seq(PairSet) /\ DOMAIN a = 1..(m + 1)
      /\ \A i \in 1..m : a[i] = f[i]
      /\ a[m + 1] = Lru!Pair(q, o)
  BY <1>2
<1>. HIDE DEF a
<1>4. \A i \in 1..m : f[i] \in Pairs(f)
  BY <1>2 DEF Pairs
<1>5. \A i \in 1..(m + 1) : i \in 1..m \/ i = m + 1
  BY <1>2
<1>6. \A i, j \in 1..(m + 1) : a[i].q = a[j].q => i = j
  BY <1>1, <1>2, <1>3, <1>4, <1>5, Zenon DEF Table
<1>7. Table(a)
  BY <1>3, <1>6 DEF Table
<1>8. \A e \in Pairs(a) : e = Lru!Pair(q, o) \/ e \in Pairs(f)
  BY <1>3, <1>4, <1>5 DEF Pairs
<1>9. Lru!Remember(c, q, o, n) = Lru!Newest(a, n)
  BY DEF Lru!Remember, a, f
<1>. QED  BY <1>1, <1>7, <1>8, <1>9, NewestTable

\* Every pair is of a shape and a handle, and the cached handles are its handles.
LEMMA TablePairs ==
  ASSUME NEW c, Table(c)
  PROVE  /\ \A e \in Pairs(c) : e \in PairSet
         /\ \A x : x \in InCache(c) <=> \E e \in Pairs(c) : x = e.outcome
         /\ \A e, f \in Pairs(c) : e.q = f.q => e = f
<1>1. /\ c \in Seq(PairSet)
      /\ DOMAIN c = 1..Len(c)
      /\ \A i, j \in DOMAIN c : c[i].q = c[j].q => i = j
  BY DEF Table
<1>2. \A i \in DOMAIN c : c[i] \in PairSet
  BY <1>1, ElementOfSeq
<1>3. \A e \in Pairs(c) : e \in PairSet
  BY <1>2 DEF Pairs
<1>4. \A e, f \in Pairs(c) : e.q = f.q => e = f
  BY <1>1 DEF Pairs
<1>5. \A x : x \in InCache(c) <=> \E e \in Pairs(c) : x = e.outcome
  BY DEF Pairs, InCache
<1>. QED  BY <1>3, <1>4, <1>5

-----------------------------------------------------------------------------
(* Leases.                                                                  *)

\* The leases that a step ends.
GivenUp == Leases(cache, th) \ Leases(cache', th')

\* Thread t makes an entry of the handle x.
Wraps(t, x) == th[t].pc = "wrap" /\ th'[t].pc = "insert" /\ x = th[t].cand

\* What a step does to leases and handles: it takes no new lease but the one of
\* an entry it wraps; it gives up only handles that lose their last lease; a
\* handle dies when it was given up, or in a schema change that disturbs every
\* call; and a surviving handle whose last lease ends is queued or of an older
\* generation.
Settles ==
    /\ \A x \in Leases(cache', th') :
         x \in Leases(cache, th) \/ \E t \in Threads : Wraps(t, x)
    /\ \A x \in released' \cup pending' : x \in released \cup pending \cup GivenUp
    /\ \A x \in live \ live' : x \in pending \cup GivenUp \/ disturbed' = Calls
    /\ \A x \in live \cap live' : x \in pending => x \in pending'
    /\ \A x \in live \cap live' : x \in GivenUp => gen[x] # generation \/ x \in pending'

\* A handle has a lease if the cache or a statement refers to it.
LEMMA LeaseMembers ==
  ASSUME NEW c, NEW s, NEW x
  PROVE  x \in Leases(c, s) <=>
           x # None /\ (x \in InCache(c) \/ \E u \in Threads : x \in LeasesOf(s[u]))
  BY DEF Leases

\* Leases change only with the cache and the stepping thread's statement.
LEMMA LeaseFrame ==
  ASSUME NEW t \in Threads, NEW N,
         \A u \in Threads : u # t => th'[u] = th[u],
         \A x \in InCache(cache') : x # None => x \in Leases(cache, th) \cup N,
         \A x \in LeasesOf(th'[t]) : x # None => x \in Leases(cache, th) \cup N
  PROVE  Leases(cache', th') \subseteq Leases(cache, th) \cup N
<1>. SUFFICES ASSUME NEW x \in Leases(cache', th')
              PROVE  x \in Leases(cache, th) \cup N
  OBVIOUS
<1>1. x # None /\ (x \in InCache(cache') \/ \E u \in Threads : x \in LeasesOf(th'[u]))
  BY LeaseMembers
<1>2. CASE x \in InCache(cache')
  BY <1>1, <1>2
<1>3. CASE \E u \in Threads : x \in LeasesOf(th'[u])
  <2>1. PICK u \in Threads : x \in LeasesOf(th'[u])
    BY <1>3
  <2>2. CASE u = t
    BY <1>1, <2>1, <2>2
  <2>3. CASE u # t
    BY <1>1, <2>1, <2>3, LeaseMembers
  <2>. QED  BY <2>2, <2>3
<1>. QED  BY <1>1, <1>2, <1>3

\* Leases stay where the cache and the statement keep them.
LEMMA LeaseKept ==
  ASSUME NEW t \in Threads,
         \A u \in Threads : u # t => th'[u] = th[u],
         cache' = cache,
         \A x \in LeasesOf(th[t]) : x # None => x \in LeasesOf(th'[t])
  PROVE  Leases(cache, th) \subseteq Leases(cache', th')
<1>. SUFFICES ASSUME NEW x \in Leases(cache, th)
              PROVE  x \in Leases(cache', th')
  OBVIOUS
<1>1. x # None /\ (x \in InCache(cache) \/ \E u \in Threads : x \in LeasesOf(th[u]))
  BY LeaseMembers
<1>2. CASE x \in InCache(cache)
  BY <1>1, <1>2, LeaseMembers
<1>3. CASE \E u \in Threads : x \in LeasesOf(th[u])
  <2>1. PICK u \in Threads : x \in LeasesOf(th[u])
    BY <1>3
  <2>2. x \in LeasesOf(th'[u])
    BY <1>1, <2>1
  <2>. QED  BY <1>1, <2>2, LeaseMembers
<1>. QED  BY <1>1, <1>2, <1>3

\* Drop for PreparedEntry settles the leases that a step ends.
LEMMA DropsSettle ==
  ASSUME OnlyDrops, Leases(cache', th') \subseteq Leases(cache, th)
  PROVE  Settles
<1>. DEFINE due == { x \in GivenUp : gen[x] = generation }
<1>1. /\ lock = Free => live' = live \ due /\ released' = released \cup due /\ pending' = pending
      /\ lock # Free => live' = live /\ pending' = pending \cup due /\ released' = released
  BY DEF OnlyDrops, DropEntries, GivenUp
<1>2. due \subseteq GivenUp /\ \A x \in GivenUp : x \notin due => gen[x] # generation
  OBVIOUS
<1>. HIDE DEF due
<1>3. CASE lock = Free
  BY <1>1, <1>2, <1>3 DEF Settles
<1>4. CASE lock # Free
  BY <1>1, <1>2, <1>4 DEF Settles
<1>. QED  BY <1>3, <1>4

\* lock_connection deallocates what was queued, when no lease changes.
LEMMA LockSettles ==
  ASSUME LockConnection, Leases(cache', th') = Leases(cache, th)
  PROVE  Settles
  BY DEF Settles, LockConnection, GivenUp

\* A step that leaves the handles alone and ends no lease.
LEMMA QuietSettles ==
  ASSUME UNCHANGED <<live, pending, released>>,
         Leases(cache, th) \subseteq Leases(cache', th'),
         \A x \in Leases(cache', th') :
            x \in Leases(cache, th) \/ \E t \in Threads : Wraps(t, x)
  PROVE  Settles
  BY DEF Settles, GivenUp

\* What a step does to the handles on their way into the cache: one more comes
\* with PREPARE, alive and with a number of its own; the others stay or become
\* leases; and no handle comes to life otherwise.
Passes ==
    /\ \A u \in Threads : Carries(th'[u]) =>
         \/ /\ Carries(th[u]) /\ th'[u].cand = th[u].cand
            /\ th'[u].pc = "wrap" => th[u].pc = "wrap"
         \/ /\ th'[u].pc = "wrap" /\ th'[u].cand = ids + 1 /\ ids + 1 \in live'
            /\ \A v \in Threads : v # u => th'[v] = th[v]
    /\ \A u \in Threads : Carries(th[u]) =>
         th[u].pc = "insert" \/ (Carries(th'[u]) /\ th'[u].cand = th[u].cand)
    /\ \A x \in live' : x \in live \/ \E u \in Threads : th'[u].pc = "wrap" /\ x = th'[u].cand

\* What a lookup returns is in the cache.
LEMMA VerdictCached ==
  ASSUME NEW c, NEW q, Table(c), Lru!Holds(c, q)
  PROVE  Lru!Verdict(c, q) \in InCache(c)
<1>1. Lru!Pair(q, Lru!Verdict(c, q)) \in Pairs(c)
  BY VerdictStored
<1>2. Lru!Pair(q, Lru!Verdict(c, q)).outcome = Lru!Verdict(c, q)
  BY DEF Lru!Pair
<1>. QED  BY <1>1, <1>2, TablePairs

\* Storing a verdict brings at most its handle into the cache.
LEMMA Remembered ==
  ASSUME NEW c, NEW q \in Shapes \cup {"none"}, NEW e \in Nat, Table(c)
  PROVE  /\ Table(Lru!Remember(c, q, e, Capacity))
         /\ Len(Lru!Remember(c, q, e, Capacity)) <= Capacity
         /\ InCache(Lru!Remember(c, q, e, Capacity)) \subseteq InCache(c) \cup {e}
<1>. DEFINE d == Lru!Remember(c, q, e, Capacity)
<1>1. /\ Table(d) /\ Len(d) <= Capacity
      /\ \A p \in Pairs(d) : p = Lru!Pair(q, e) \/ p \in Pairs(c)
  BY PlansAssumption, RememberTable
<1>. HIDE DEF d
<1>2. InCache(d) \subseteq InCache(c) \cup {e}
  BY <1>1, TablePairs DEF Lru!Pair
<1>. QED  BY <1>1, <1>2 DEF d

\* remove_if_id adds nothing, and leaves no pair of the shape with that handle.
LEMMA EvictedTable ==
  ASSUME NEW r, Table(cache)
  PROVE  /\ Table(Evicted(r)) /\ Len(Evicted(r)) <= Len(cache)
         /\ Pairs(Evicted(r)) \subseteq Pairs(cache)
         /\ InCache(Evicted(r)) \subseteq InCache(cache)
         /\ \A e \in Pairs(Evicted(r)) : e.q = r.q => e.outcome # r.first
<1>. DEFINE d == Evicted(r)
<1>0. Len(cache) \in Nat
  BY DEF Table
<1>1. CASE Lru!Holds(cache, r.q) /\ Lru!Verdict(cache, r.q) = r.first
  <2>1. d = Lru!Forget(cache, r.q)
    BY <1>1 DEF Evicted
  <2>. HIDE DEF d
  <2>2. Table(d) /\ Len(d) <= Len(cache) /\ \A e \in Pairs(d) : e \in Pairs(cache) /\ e.q # r.q
    BY <2>1, ForgetTable
  <2>. QED  BY <2>2, TablePairs DEF d
<1>2. CASE ~(Lru!Holds(cache, r.q) /\ Lru!Verdict(cache, r.q) = r.first)
  <2>1. d = cache
    BY <1>2 DEF Evicted
  <2>. HIDE DEF d
  <2>2. \A e \in Pairs(cache) : e.q = r.q => Lru!Holds(cache, r.q)
    BY DEF Pairs, Lru!Holds
  <2>3. \A e \in Pairs(cache) : e.q = r.q => e.outcome # r.first
    <3>. SUFFICES ASSUME NEW e \in Pairs(cache), e.q = r.q PROVE e.outcome # r.first
      OBVIOUS
    <3>1. Lru!Holds(cache, r.q)
      BY <2>2
    <3>2. Lru!Pair(r.q, Lru!Verdict(cache, r.q)) \in Pairs(cache)
      BY <3>1, VerdictStored
    <3>3. e = Lru!Pair(r.q, Lru!Verdict(cache, r.q))
      BY <3>2, TablePairs DEF Lru!Pair
    <3>. QED  BY <1>2, <3>1, <3>3 DEF Lru!Pair
  <2>. QED  BY <1>0, <2>1, <2>3 DEF d
<1>. QED  BY <1>1, <1>2

\* PreparedCache::get finds the entry of the shape or the caller prepares.
LEMMA GetCases ==
  ASSUME NEW t \in Threads, Get(t)
  PROVE  /\ th[t].pc = "get" /\ OnlyDrops
         /\ UNCHANGED <<ids, discards, explicit, lock, generation, gen, ddls, disturbed>>
         /\ \/ /\ Lru!Holds(cache, th[t].q)
               /\ cache' = Lru!Remember(cache, th[t].q, Lru!Verdict(cache, th[t].q), Capacity)
               /\ Obtain(t, Lru!Verdict(cache, th[t].q))
            \/ /\ ~Lru!Holds(cache, th[t].q)
               /\ th' = [th EXCEPT ![t].pc = "prepare"] /\ cache' = cache
  BY DEF Get

\* EXECUTE of the first row succeeds, fails, or is to be retried.
LEMMA SendCases ==
  ASSUME NEW t \in Threads, Send(t)
  PROVE  /\ th[t].pc = "send" /\ LockConnection /\ cache' = cache
         /\ UNCHANGED <<ids, discards, explicit, generation, gen, ddls, disturbed>>
         /\ \/ th[t].batch /\ lock' = t /\ th' = [th EXCEPT ![t].pc = "rows"]
            \/ lock' = lock /\ th' = [th EXCEPT ![t].pc = "done", ![t].result = "ok"]
            \/ /\ lock' = lock /\ CanRetry(th[t]) /\ th' = [th EXCEPT ![t].pc = "evict"]
            \/ /\ lock' = lock /\ ~CanRetry(th[t]) /\ th[t].first \notin live'
               /\ th' = [th EXCEPT ![t].pc = "done", ![t].result = "missing"]
  BY Zenon DEF Send

\* Every step leaves each statement in a consistent phase.
LEMMA StatementInvStep ==
  ASSUME RangeInv, StatementInv, Next
  PROVE  StatementInv'
<1>0. th \in [Threads -> Statements] /\ ids \in Nat /\ ids \in 0..MaxIds
  BY DEF RangeInv, StatementType
<1>. USE <1>0
<1>1. ASSUME NEW t \in Threads, \E q \in Shapes : Declare(t, q) PROVE StatementInv'
  BY <1>1 DEF Declare, StatementInv, Consistent, Statements, Preparing, Idle, None, Obtain
<1>2. ASSUME NEW t \in Threads, ClearPrepared(t) PROVE StatementInv'
  BY <1>2 DEF ClearPrepared, StatementInv, Consistent, Statements, Preparing, Idle, None, Obtain
<1>3. ASSUME NEW t \in Threads, Get(t) PROVE StatementInv'
  <2>. DEFINE o == Lru!Verdict(cache, th[t].q)
  <2>0. th[t].pc = "get" /\ OnlyDrops
    BY <1>3, GetCases
  <2>1. CASE Obtain(t, o)
    <3>. HIDE DEF o
    <3>. QED  BY <2>0, <2>1 DEF StatementInv, Consistent, Statements, Preparing, Idle, None,
                 Obtain,
                 Obtain, Idle
  <2>2. CASE th' = [th EXCEPT ![t].pc = "prepare"]
    BY <2>0, <2>2 DEF StatementInv, Consistent, Statements, Preparing, Idle, None, Obtain
  <2>. QED  BY <1>3, <2>1, <2>2, GetCases
<1>4. ASSUME NEW t \in Threads, Prepare(t) PROVE StatementInv'
  BY <1>4 DEF Prepare, StatementInv, Consistent, Statements, Preparing, Idle, None, Obtain
<1>5. ASSUME NEW t \in Threads, PrepareFails(t) PROVE StatementInv'
  BY <1>5 DEF PrepareFails, StatementInv, Consistent, Statements, Preparing, Idle, None, Obtain
<1>6. ASSUME NEW t \in Threads, Wrap(t) PROVE StatementInv'
  BY <1>6 DEF Wrap, StatementInv, Consistent, Statements, Preparing, Idle, None, Obtain
<1>7. ASSUME NEW t \in Threads, Insert(t) PROVE StatementInv'
  BY <1>7 DEF Insert, StatementInv, Consistent, Statements, Preparing, Idle, None, Obtain
<1>8. ASSUME NEW t \in Threads, Call(t) PROVE StatementInv'
  BY <1>8 DEF Call, StatementInv, Consistent, Statements, Preparing, Idle, None, Obtain
<1>9. ASSUME NEW t \in Threads, Send(t) PROVE StatementInv'
  <2>0. th[t].pc = "send" /\ LockConnection
    BY <1>9, SendCases, Zenon
  <2>1. CASE th[t].batch /\ th' = [th EXCEPT ![t].pc = "rows"]
    BY <2>0, <2>1 DEF StatementInv, Consistent, Statements, Preparing, None
  <2>2. CASE th' = [th EXCEPT ![t].pc = "done", ![t].result = "ok"]
    BY <2>0, <2>2 DEF StatementInv, Consistent, Statements, Preparing, None
  <2>3. CASE CanRetry(th[t]) /\ th' = [th EXCEPT ![t].pc = "evict"]
    BY <2>0, <2>3 DEF StatementInv, Consistent, Statements, Preparing, None
  <2>4. CASE /\ ~CanRetry(th[t]) /\ th[t].first \notin live'
             /\ th' = [th EXCEPT ![t].pc = "done", ![t].result = "missing"]
    BY <2>0, <2>4 DEF StatementInv, Consistent, Statements, Preparing, None
  <2>. QED  BY <1>9, <2>1, <2>2, <2>3, <2>4, SendCases
<1>10. ASSUME NEW t \in Threads, Evict(t) PROVE StatementInv'
  BY <1>10 DEF Evict, StatementInv, Consistent, Statements, Preparing, Idle, None, Obtain
<1>11. ASSUME NEW t \in Threads, SendRows(t) PROVE StatementInv'
  BY <1>11 DEF SendRows, StatementInv, Consistent, Statements, Preparing, Idle, None, Obtain
<1>12. ASSUME NEW t \in Threads, Return(t) PROVE StatementInv'
  BY <1>12 DEF Return, StatementInv, Consistent, Statements, Preparing, Idle, None, Obtain
<1>13. ASSUME NEW t \in Threads, BeginDdl(t) PROVE StatementInv'
  BY <1>13 DEF BeginDdl, StatementInv, Consistent, Statements, Preparing, Idle, None, Obtain
<1>14. ASSUME NEW t \in Threads, Bump(t) PROVE StatementInv'
  BY <1>14 DEF Bump, StatementInv, Consistent, Statements, Preparing, Idle, None, Obtain
<1>15. ASSUME NEW t \in Threads, Clear(t) PROVE StatementInv'
  BY <1>15 DEF Clear, StatementInv, Consistent, Statements, Preparing, Idle, None, Obtain
<1>16. ASSUME NEW t \in Threads, Ddl(t) PROVE StatementInv'
  BY <1>16 DEF Ddl, StatementInv, Consistent, Statements, Preparing, Idle, None, Obtain
<1>17. ASSUME NEW t \in Threads, DdlFails(t) PROVE StatementInv'
  BY <1>17 DEF DdlFails, StatementInv, Consistent, Statements, Preparing, Idle, None, Obtain
<1>18. CASE ServerDiscards
  BY <1>18 DEF ServerDiscards, StatementInv
<1>. QED  BY <1>1, <1>2, <1>3, <1>4, <1>5, <1>6, <1>7, <1>8, <1>9, <1>10, <1>11, <1>12, <1>13,
             <1>14, <1>15, <1>16, <1>17, <1>18 DEF Next

\* Every step hands handles on as Passes says.
LEMMA PassesStep ==
  ASSUME RangeInv, Next
  PROVE  Passes
<1>0. th \in [Threads -> Statements] /\ ids \in Nat /\ ids \in 0..MaxIds
  BY DEF RangeInv, StatementType
<1>. USE <1>0
<1>1. ASSUME NEW t \in Threads, \E q \in Shapes : Declare(t, q) PROVE Passes
  BY <1>1 DEF Declare, Passes, Carries, Statements, server, Idle, Obtain
<1>2. ASSUME NEW t \in Threads, ClearPrepared(t) PROVE Passes
  BY <1>2 DEF ClearPrepared, Passes, Carries, Statements, server, Idle, Obtain, OnlyDrops,
     DropEntries
<1>3. ASSUME NEW t \in Threads, Get(t) PROVE Passes
  <2>. DEFINE o == Lru!Verdict(cache, th[t].q)
  <2>0. th[t].pc = "get" /\ OnlyDrops
    BY <1>3, GetCases
  <2>1. CASE Obtain(t, o)
    <3>. HIDE DEF o
    <3>. QED  BY <2>0, <2>1 DEF Passes, Carries, Statements, OnlyDrops, DropEntries, Obtain, Idle
  <2>2. CASE th' = [th EXCEPT ![t].pc = "prepare"]
    BY <2>0, <2>2 DEF Passes, Carries, Statements, OnlyDrops, DropEntries
  <2>. QED  BY <1>3, <2>1, <2>2, GetCases
<1>4. ASSUME NEW t \in Threads, Prepare(t) PROVE Passes
  BY <1>4 DEF Prepare, Passes, Carries, Statements, server, Idle, Obtain
<1>5. ASSUME NEW t \in Threads, PrepareFails(t) PROVE Passes
  BY <1>5 DEF PrepareFails, Passes, Carries, Statements, server, Idle, Obtain, LockConnection
<1>6. ASSUME NEW t \in Threads, Wrap(t) PROVE Passes
  BY <1>6 DEF Wrap, Passes, Carries, Statements, server, Idle, Obtain
<1>7. ASSUME NEW t \in Threads, Insert(t) PROVE Passes
  BY <1>7 DEF Insert, Passes, Carries, Statements, server, Idle, Obtain, OnlyDrops, DropEntries
<1>8. ASSUME NEW t \in Threads, Call(t) PROVE Passes
  BY <1>8 DEF Call, Passes, Carries, Statements, server, Idle, Obtain
<1>9. ASSUME NEW t \in Threads, Send(t) PROVE Passes
  <2>0. th[t].pc = "send" /\ LockConnection
    BY <1>9, SendCases, Zenon
  <2>1. CASE th[t].batch /\ th' = [th EXCEPT ![t].pc = "rows"]
    BY <2>0, <2>1 DEF Passes, Carries, Statements, LockConnection
  <2>2. CASE th' = [th EXCEPT ![t].pc = "done", ![t].result = "ok"]
    BY <2>0, <2>2 DEF Passes, Carries, Statements, LockConnection
  <2>3. CASE CanRetry(th[t]) /\ th' = [th EXCEPT ![t].pc = "evict"]
    BY <2>0, <2>3 DEF Passes, Carries, Statements, LockConnection
  <2>4. CASE /\ ~CanRetry(th[t]) /\ th[t].first \notin live'
             /\ th' = [th EXCEPT ![t].pc = "done", ![t].result = "missing"]
    BY <2>0, <2>4 DEF Passes, Carries, Statements, LockConnection
  <2>. QED  BY <1>9, <2>1, <2>2, <2>3, <2>4, SendCases
<1>10. ASSUME NEW t \in Threads, Evict(t) PROVE Passes
  BY <1>10 DEF Evict, Passes, Carries, Statements, server, Idle, Obtain, OnlyDrops, DropEntries
<1>11. ASSUME NEW t \in Threads, SendRows(t) PROVE Passes
  BY <1>11 DEF SendRows, Passes, Carries, Statements, server, Idle, Obtain, OnlyDrops, DropEntries
<1>12. ASSUME NEW t \in Threads, Return(t) PROVE Passes
  BY <1>12 DEF Return, Passes, Carries, Statements, server, Idle, Obtain, OnlyDrops, DropEntries
<1>13. ASSUME NEW t \in Threads, BeginDdl(t) PROVE Passes
  BY <1>13 DEF BeginDdl, Passes, Carries, Statements, server, Idle, Obtain
<1>14. ASSUME NEW t \in Threads, Bump(t) PROVE Passes
  BY <1>14 DEF Bump, Passes, Carries, Statements, server, Idle, Obtain
<1>15. ASSUME NEW t \in Threads, Clear(t) PROVE Passes
  BY <1>15 DEF Clear, Passes, Carries, Statements, server, Idle, Obtain, OnlyDrops, DropEntries
<1>16. ASSUME NEW t \in Threads, Ddl(t) PROVE Passes
  BY <1>16 DEF Ddl, Passes, Carries, Statements, server, Idle, Obtain
<1>17. ASSUME NEW t \in Threads, DdlFails(t) PROVE Passes
  BY <1>17 DEF DdlFails, Passes, Carries, Statements, server, Idle, Obtain, LockConnection
<1>18. CASE ServerDiscards
  BY <1>18 DEF ServerDiscards, Passes
<1>. QED  BY <1>1, <1>2, <1>3, <1>4, <1>5, <1>6, <1>7, <1>8, <1>9, <1>10, <1>11, <1>12, <1>13,
             <1>14, <1>15, <1>16, <1>17, <1>18 DEF Next

\* The sets the fields of a statement range over.
Phases  == {"idle", "get", "prepare", "wrap", "insert", "ready", "send", "rows", "evict",
            "done", "bump", "clear", "ddl"}
Texts   == Shapes \cup {"none"}
Handles == 0..ids
Reasons == {"none", "declare", "refresh", "retry", "before", "after"}
Results == {"none", "ok", "missing", "error"}

\* The type of a statement, field by field.
LEMMA StatementFields ==
  ASSUME ids \in Nat
  PROVE  /\ Statements = [pc : Phases, q : Texts, slot : Handles, first : Handles,
                          second : Handles, cand : Handles, why : Reasons, batch : BOOLEAN,
                          own : BOOLEAN, retried : BOOLEAN, result : Results]
         /\ \A q \in Shapes : q \in Texts
         /\ "none" \in Texts /\ "none" \in Reasons /\ "none" \in Results /\ None \in Handles
         /\ {"get", "prepare", "insert", "ready", "send", "rows", "evict"} \subseteq Phases
         /\ {"idle", "done", "bump", "clear", "ddl"} \subseteq Phases
         /\ {"declare", "refresh", "retry", "before", "after"} \subseteq Reasons
         /\ {"ok", "missing", "error"} \subseteq Results
  BY DEF Statements, Phases, Texts, Handles, Reasons, Results, None

\* A step that replaces one thread's statement keeps the statements' type.
LEMMA StatementUpdate ==
  ASSUME NEW t \in Threads, NEW r \in Statements, th \in [Threads -> Statements],
         ids \in 0..MaxIds, MaxIds \in Nat, ids' = ids, th' = [th EXCEPT ![t] = r]
  PROVE  StatementType' /\ ids <= ids'
<1>1. Statements' = Statements
  BY DEF Statements
<1>. QED  BY <1>1 DEF StatementType

\* The entry a call obtains is a handle given out.
LEMMA ObtainTypes ==
  ASSUME NEW t \in Threads, NEW e \in 0..ids, Obtain(t, e), th \in [Threads -> Statements],
         ids \in 0..MaxIds, MaxIds \in Nat, ids' = ids
  PROVE  StatementType' /\ ids <= ids'
<1>. DEFINE d == [Idle EXCEPT !.q = th[t].q, !.slot = e, !.pc = "ready"]
            c == [th[t] EXCEPT !.slot = e, !.first = e, !.cand = None, !.pc = "send"]
            r == IF th[t].why = "declare" THEN d ELSE c
<1>0. e \in Handles /\ ids \in Nat
  BY DEF Handles
<1>1. d \in Statements
  BY <1>0, StatementFields, Zenon DEF Idle
<1>2. c \in Statements
  BY <1>0, StatementFields, Zenon
<1>3. th' = [th EXCEPT ![t] = r]
  BY DEF Obtain
<1>. QED  BY <1>1, <1>2, <1>3, StatementUpdate, Zenon

\* Every step keeps the types of the statements and of the handles given out.
LEMMA StatementTypes ==
  ASSUME RangeInv, Next
  PROVE  StatementType' /\ ids <= ids'
<1>0. th \in [Threads -> Statements] /\ ids \in Nat /\ ids \in 0..MaxIds
  BY DEF RangeInv, StatementType
<1>a. MaxIds \in Nat
  BY PlansAssumption
<1>. USE <1>a
<1>. USE <1>0
<1>1. ASSUME NEW t \in Threads, \E q \in Shapes : Declare(t, q) PROVE StatementType' /\ ids <= ids'
  <2>1. PICK q \in Shapes : Declare(t, q)
    BY <1>1
  <2>. DEFINE r == [Idle EXCEPT !.pc = "get", !.why = "declare", !.q = q]
  <2>2. r \in Statements
    BY StatementFields, Zenon DEF Idle
  <2>3. ids' = ids /\ th' = [th EXCEPT ![t] = r]
    BY <2>1 DEF Declare, server
  <2>. QED  BY <2>2, <2>3, StatementUpdate, Zenon
<1>2. ASSUME NEW t \in Threads, ClearPrepared(t) PROVE StatementType' /\ ids <= ids'
  <2>. DEFINE r == Idle
  <2>1. r \in Statements
    BY StatementFields, Zenon DEF Idle
  <2>2. ids' = ids /\ th' = [th EXCEPT ![t] = r]
    BY <1>2 DEF ClearPrepared, server
  <2>. QED  BY <2>1, <2>2, StatementUpdate, Zenon
<1>3. ASSUME NEW t \in Threads, Get(t) PROVE StatementType' /\ ids <= ids'
  <2>1. CASE Lru!Holds(cache, th[t].q)
    <3>1. Lru!Verdict(cache, th[t].q) \in 0..ids
      BY <2>1, VerdictCached DEF RangeInv, CacheType
    <3>2. ids' = ids /\ Obtain(t, Lru!Verdict(cache, th[t].q))
      BY <1>3, <2>1, GetCases
    <3>. QED  BY <3>1, <3>2, ObtainTypes
  <2>2. CASE ~Lru!Holds(cache, th[t].q)
    <3>. DEFINE r == [th[t] EXCEPT !.pc = "prepare"]
    <3>1. r \in Statements
      BY DEF Statements
    <3>2. ids' = ids /\ th' = [th EXCEPT ![t] = r]
      BY <1>3, <2>2, GetCases
    <3>. QED  BY <3>1, <3>2, StatementUpdate, Zenon
  <2>. QED  BY <2>1, <2>2
<1>4. ASSUME NEW t \in Threads, Prepare(t) PROVE StatementType' /\ ids <= ids'
  BY <1>4 DEF Prepare, Statements, StatementType, server
<1>5. ASSUME NEW t \in Threads, PrepareFails(t) PROVE StatementType' /\ ids <= ids'
  <2>. DEFINE r == IF th[t].why = "declare" THEN Idle
                     ELSE [th[t] EXCEPT !.pc = "done", !.result = "error"]
  <2>1. r \in Statements
    BY StatementFields, ZenonT(30) DEF Idle
  <2>2. ids' = ids /\ th' = [th EXCEPT ![t] = r]
    BY <1>5 DEF PrepareFails, server
  <2>. QED  BY <2>1, <2>2, StatementUpdate, Zenon
<1>6. ASSUME NEW t \in Threads, Wrap(t) PROVE StatementType' /\ ids <= ids'
  <2>. DEFINE r == [th[t] EXCEPT !.pc = "insert"]
  <2>1. r \in Statements
    BY StatementFields, Zenon DEF Idle
  <2>2. ids' = ids /\ th' = [th EXCEPT ![t] = r]
    BY <1>6 DEF Wrap, server
  <2>. QED  BY <2>1, <2>2, StatementUpdate, Zenon
<1>7. ASSUME NEW t \in Threads, Insert(t) PROVE StatementType' /\ ids <= ids'
  <2>. DEFINE e == IF Lru!Holds(cache, th[t].q) THEN Lru!Verdict(cache, th[t].q) ELSE th[t].cand
  <2>1. e \in 0..ids
    BY VerdictCached DEF RangeInv, CacheType, Statements
  <2>2. ids' = ids /\ Obtain(t, e)
    BY <1>7 DEF Insert
  <2>. QED  BY <2>1, <2>2, ObtainTypes
<1>8. ASSUME NEW t \in Threads, Call(t) PROVE StatementType' /\ ids <= ids'
  <2>1. PICK batch \in BOOLEAN, own \in BOOLEAN :
           th' = [th EXCEPT ![t] =
               [@ EXCEPT !.pc = "get", !.why = "refresh", !.batch = batch, !.own = own,
                         !.first = th[t].slot, !.second = IF batch THEN th[t].slot ELSE None,
                         !.retried = FALSE, !.result = "none"]]
    BY <1>8, Zenon DEF Call
  <2>. DEFINE r == [th[t] EXCEPT !.pc = "get", !.why = "refresh", !.batch = batch, !.own = own,
                         !.first = th[t].slot, !.second = IF batch THEN th[t].slot ELSE None,
                         !.retried = FALSE, !.result = "none"]
  <2>2. r \in Statements
    BY StatementFields, Zenon
  <2>3. ids' = ids /\ th' = [th EXCEPT ![t] = r]
    BY <1>8, <2>1, Zenon DEF Call, server
  <2>. QED  BY <2>2, <2>3, StatementUpdate, Zenon
<1>9. ASSUME NEW t \in Threads, Send(t) PROVE StatementType' /\ ids <= ids'
  <2>0. ids' = ids
    BY <1>9, SendCases, Zenon
  <2>1. CASE th' = [th EXCEPT ![t].pc = "rows"]
    <3>. DEFINE r == [th[t] EXCEPT !.pc = "rows"]
    <3>1. r \in Statements
      BY StatementFields, Zenon
    <3>. QED  BY <2>0, <2>1, <3>1, StatementUpdate, Zenon
  <2>2. CASE th' = [th EXCEPT ![t].pc = "done", ![t].result = "ok"]
    <3>. DEFINE r == [th[t] EXCEPT !.pc = "done", !.result = "ok"]
    <3>1. r \in Statements
      BY StatementFields, Zenon
    <3>. QED  BY <2>0, <2>2, <3>1, StatementUpdate, Zenon
  <2>3. CASE th' = [th EXCEPT ![t].pc = "evict"]
    <3>. DEFINE r == [th[t] EXCEPT !.pc = "evict"]
    <3>1. r \in Statements
      BY StatementFields, Zenon
    <3>. QED  BY <2>0, <2>3, <3>1, StatementUpdate, Zenon
  <2>4. CASE th' = [th EXCEPT ![t].pc = "done", ![t].result = "missing"]
    <3>. DEFINE r == [th[t] EXCEPT !.pc = "done", !.result = "missing"]
    <3>1. r \in Statements
      BY StatementFields, Zenon
    <3>. QED  BY <2>0, <2>4, <3>1, StatementUpdate, Zenon
  <2>. QED  BY <1>9, <2>1, <2>2, <2>3, <2>4, SendCases
<1>10. ASSUME NEW t \in Threads, Evict(t) PROVE StatementType' /\ ids <= ids'
  <2>. DEFINE r == [th[t] EXCEPT !.pc = "get", !.why = "retry", !.retried = TRUE]
  <2>1. r \in Statements
    BY StatementFields, Zenon DEF Idle
  <2>2. ids' = ids /\ th' = [th EXCEPT ![t] = r]
    BY <1>10, Zenon DEF Evict, server
  <2>. QED  BY <2>1, <2>2, StatementUpdate, Zenon
<1>11. ASSUME NEW t \in Threads, SendRows(t) PROVE StatementType' /\ ids <= ids'
  <2>. DEFINE r == [th[t] EXCEPT !.pc = "done", !.second = None,
                            !.result = IF th[t].second \in live THEN "ok" ELSE "missing"]
  <2>1. r \in Statements
    BY StatementFields, Zenon DEF Idle
  <2>2. ids' = ids /\ th' = [th EXCEPT ![t] = r]
    BY <1>11, Zenon DEF SendRows, server
  <2>. QED  BY <2>1, <2>2, StatementUpdate, Zenon
<1>12. ASSUME NEW t \in Threads, Return(t) PROVE StatementType' /\ ids <= ids'
  <2>. DEFINE r == [Idle EXCEPT !.q = th[t].q, !.slot = th[t].slot, !.pc = "ready"]
  <2>1. r \in Statements
    BY StatementFields, ZenonT(30) DEF Idle
  <2>2. ids' = ids /\ th' = [th EXCEPT ![t] = r]
    BY <1>12 DEF Return, server
  <2>. QED  BY <2>1, <2>2, StatementUpdate, Zenon
<1>13. ASSUME NEW t \in Threads, BeginDdl(t) PROVE StatementType' /\ ids <= ids'
  <2>. DEFINE r == [th[t] EXCEPT !.pc = "bump", !.why = "before"]
  <2>1. r \in Statements
    BY StatementFields, Zenon DEF Idle
  <2>2. ids' = ids /\ th' = [th EXCEPT ![t] = r]
    BY <1>13, Zenon DEF BeginDdl, server
  <2>. QED  BY <2>1, <2>2, StatementUpdate, ZenonT(30)
<1>14. ASSUME NEW t \in Threads, Bump(t) PROVE StatementType' /\ ids <= ids'
  <2>. DEFINE r == [th[t] EXCEPT !.pc = "clear"]
  <2>1. r \in Statements
    BY StatementFields, Zenon DEF Idle
  <2>2. ids' = ids /\ th' = [th EXCEPT ![t] = r]
    BY <1>14 DEF Bump, server
  <2>. QED  BY <2>1, <2>2, StatementUpdate, Zenon
<1>15. ASSUME NEW t \in Threads, Clear(t) PROVE StatementType' /\ ids <= ids'
  <2>. DEFINE r == IF th[t].why = "before" THEN [th[t] EXCEPT !.pc = "ddl"] ELSE Idle
  <2>1. r \in Statements
    BY StatementFields, Zenon DEF Idle
  <2>2. ids' = ids /\ th' = [th EXCEPT ![t] = r]
    BY <1>15 DEF Clear, server
  <2>. QED  BY <2>1, <2>2, StatementUpdate, Zenon
<1>16. ASSUME NEW t \in Threads, Ddl(t) PROVE StatementType' /\ ids <= ids'
  <2>. DEFINE r == [th[t] EXCEPT !.pc = "bump", !.why = "after"]
  <2>1. r \in Statements
    BY StatementFields, ZenonT(30) DEF Idle
  <2>2. ids' = ids /\ th' = [th EXCEPT ![t] = r]
    BY <1>16, ZenonT(30) DEF Ddl, server
  <2>. QED  BY <2>1, <2>2, StatementUpdate, Zenon
<1>17. ASSUME NEW t \in Threads, DdlFails(t) PROVE StatementType' /\ ids <= ids'
  <2>. DEFINE r == Idle
  <2>1. r \in Statements
    BY StatementFields, Zenon DEF Idle
  <2>2. ids' = ids /\ th' = [th EXCEPT ![t] = r]
    BY <1>17 DEF DdlFails, server
  <2>. QED  BY <2>1, <2>2, StatementUpdate, Zenon
<1>18. CASE ServerDiscards
  BY <1>18 DEF ServerDiscards, Statements, StatementType
<1>. QED  BY <1>1, <1>2, <1>3, <1>4, <1>5, <1>6, <1>7, <1>8, <1>9, <1>10, <1>11, <1>12, <1>13,
             <1>14, <1>15, <1>16, <1>17, <1>18 DEF Next

\* Every step keeps the types of the connection, the generations and the flags;
\* no entry gets a later generation than the connection has.
LEMMA ConnectionTypes ==
  ASSUME RangeInv, CarriedInv, Next
  PROVE  ConnectionType'
<1>0. th \in [Threads -> Statements] /\ ids \in Nat /\ ids \in 0..MaxIds
  BY DEF RangeInv, StatementType
<1>a. /\ generation \in Nat /\ explicit \in BOOLEAN /\ lock \in Threads \cup {Free}
      /\ gen \in [Ids -> Nat]
      /\ (\A i \in Ids : gen[i] <= generation) /\ disturbed \in [Threads -> BOOLEAN]
  BY DEF RangeInv, ConnectionType
<1>. USE <1>a DEF ConnectionType
<1>. USE <1>0
<1>1. ASSUME NEW t \in Threads, \E q \in Shapes : Declare(t, q) PROVE ConnectionType'
  BY <1>1 DEF Declare, server, history, Calls, StaleCandidate
<1>2. ASSUME NEW t \in Threads, ClearPrepared(t) PROVE ConnectionType'
  BY <1>2 DEF ClearPrepared, server, history, Calls, StaleCandidate
<1>3. ASSUME NEW t \in Threads, Get(t) PROVE ConnectionType'
  BY <1>3 DEF Get, server, history, Calls, StaleCandidate
<1>4. ASSUME NEW t \in Threads, Prepare(t) PROVE ConnectionType'
  BY <1>4 DEF Prepare, server, history, Calls, StaleCandidate
<1>5. ASSUME NEW t \in Threads, PrepareFails(t) PROVE ConnectionType'
  BY <1>5 DEF PrepareFails, server, history, Calls, StaleCandidate
<1>6. ASSUME NEW t \in Threads, Wrap(t) PROVE ConnectionType'
  <2>0. th[t].cand # 0 /\ th[t].cand \in 0..ids /\ ids <= MaxIds
    BY <1>6 DEF Wrap, CarriedInv, Carries, Statements, None
  <2>1. th[t].cand \in Ids
    BY <2>0, PlansAssumption DEF Ids
  <2>2. /\ gen' = [gen EXCEPT ![th[t].cand] = generation]
        /\ UNCHANGED <<generation, explicit, lock, disturbed>>
    BY <1>6 DEF Wrap, server, history
  <2>. QED  BY <1>a, <2>1, <2>2
<1>7. ASSUME NEW t \in Threads, Insert(t) PROVE ConnectionType'
  BY <1>7, Zenon DEF Insert, server, history, Calls, StaleCandidate
<1>8. ASSUME NEW t \in Threads, Call(t) PROVE ConnectionType'
  BY <1>8 DEF Call, server, history, Calls, StaleCandidate
<1>9. ASSUME NEW t \in Threads, Send(t) PROVE ConnectionType'
  BY <1>9, SendCases, Zenon
<1>10. ASSUME NEW t \in Threads, Evict(t) PROVE ConnectionType'
  BY <1>10 DEF Evict, server, history, Calls, StaleCandidate
<1>11. ASSUME NEW t \in Threads, SendRows(t) PROVE ConnectionType'
  BY <1>11 DEF SendRows, server, history, Calls, StaleCandidate
<1>12. ASSUME NEW t \in Threads, Return(t) PROVE ConnectionType'
  BY <1>12 DEF Return, server, history, Calls, StaleCandidate
<1>13. ASSUME NEW t \in Threads, BeginDdl(t) PROVE ConnectionType'
  BY <1>13 DEF BeginDdl, server, history, Calls, StaleCandidate
<1>14. ASSUME NEW t \in Threads, Bump(t) PROVE ConnectionType'
  BY <1>14 DEF Bump, server, history, Calls, StaleCandidate
<1>15. ASSUME NEW t \in Threads, Clear(t) PROVE ConnectionType'
  BY <1>15 DEF Clear, server, history, Calls, StaleCandidate
<1>16. ASSUME NEW t \in Threads, Ddl(t) PROVE ConnectionType'
  BY <1>16 DEF Ddl, server, history, Calls, StaleCandidate
<1>17. ASSUME NEW t \in Threads, DdlFails(t) PROVE ConnectionType'
  BY <1>17 DEF DdlFails, server, history, Calls, StaleCandidate
<1>18. CASE ServerDiscards
  BY <1>18 DEF ServerDiscards, Calls
<1>. QED  BY <1>1, <1>2, <1>3, <1>4, <1>5, <1>6, <1>7, <1>8, <1>9, <1>10, <1>11, <1>12, <1>13,
             <1>14, <1>15, <1>16, <1>17, <1>18, Zenon DEF Next

\* Every step keeps the cache a table within its capacity, of handles given out.
LEMMA CacheTypes ==
  ASSUME RangeInv, CarriedInv, Next
  PROVE  CacheType'
<1>0. th \in [Threads -> Statements] /\ ids \in Nat /\ ids \in 0..MaxIds
  BY DEF RangeInv, StatementType
<1>a. Table(cache) /\ Len(cache) <= Capacity /\ InCache(cache) \subseteq 1..ids
  BY DEF RangeInv, CacheType
<1>. USE <1>a DEF CacheType
<1>. USE <1>0
<1>1. ASSUME NEW t \in Threads, \E q \in Shapes : Declare(t, q) PROVE CacheType'
  BY <1>1 DEF Declare, server
<1>2. ASSUME NEW t \in Threads, ClearPrepared(t) PROVE CacheType'
  BY <1>2 DEF ClearPrepared, server
<1>3. ASSUME NEW t \in Threads, Get(t) PROVE CacheType'
  <2>1. CASE Lru!Holds(cache, th[t].q)
    <3>1. Lru!Verdict(cache, th[t].q) \in 1..ids
      BY <1>a, <2>1, VerdictCached
    <3>2. th[t].q \in Shapes \cup {"none"}
      BY DEF Statements
    <3>3. ids' = ids /\ cache' = Lru!Remember(cache, th[t].q, Lru!Verdict(cache, th[t].q), Capacity)
      BY <1>3, <2>1, GetCases
    <3>. QED  BY <1>a, <3>1, <3>2, <3>3, Remembered
  <2>2. CASE ~Lru!Holds(cache, th[t].q)
    BY <1>3, <2>2, GetCases
  <2>. QED  BY <2>1, <2>2
<1>4. ASSUME NEW t \in Threads, Prepare(t) PROVE CacheType'
  <2>1. cache' = cache /\ ids' = ids + 1
    BY <1>4 DEF Prepare
  <2>. QED  BY <1>a, <2>1
<1>5. ASSUME NEW t \in Threads, PrepareFails(t) PROVE CacheType'
  BY <1>5 DEF PrepareFails, server
<1>6. ASSUME NEW t \in Threads, Wrap(t) PROVE CacheType'
  BY <1>6 DEF Wrap, server
<1>7. ASSUME NEW t \in Threads, Insert(t) PROVE CacheType'
  <2>. DEFINE e == IF Lru!Holds(cache, th[t].q) THEN Lru!Verdict(cache, th[t].q) ELSE th[t].cand
  <2>1. ids' = ids /\ cache' = Lru!Remember(cache, th[t].q, e, Capacity) /\ th[t].pc = "insert"
    BY <1>7 DEF Insert
  <2>2. e \in 1..ids
    BY <1>a, <2>1, VerdictCached DEF Statements, CarriedInv, Carries, None
  <2>3. th[t].q \in Shapes \cup {"none"}
    BY DEF Statements
  <2>4. e \in Nat
    BY <2>2
  <2>. HIDE DEF e
  <2>5. /\ Table(Lru!Remember(cache, th[t].q, e, Capacity))
        /\ Len(Lru!Remember(cache, th[t].q, e, Capacity)) <= Capacity
        /\ InCache(Lru!Remember(cache, th[t].q, e, Capacity)) \subseteq InCache(cache) \cup {e}
    BY <2>3, <2>4, Remembered, Zenon
  <2>. QED  BY <2>1, <2>2, <2>5
<1>8. ASSUME NEW t \in Threads, Call(t) PROVE CacheType'
  BY <1>8 DEF Call, server
<1>9. ASSUME NEW t \in Threads, Send(t) PROVE CacheType'
  BY <1>9, SendCases, Zenon
<1>10. ASSUME NEW t \in Threads, Evict(t) PROVE CacheType'
  BY <1>10, <1>a, EvictedTable, PlansAssumption DEF Evict
<1>11. ASSUME NEW t \in Threads, SendRows(t) PROVE CacheType'
  BY <1>11 DEF SendRows, server
<1>12. ASSUME NEW t \in Threads, Return(t) PROVE CacheType'
  BY <1>12 DEF Return, server
<1>13. ASSUME NEW t \in Threads, BeginDdl(t) PROVE CacheType'
  BY <1>13 DEF BeginDdl, server
<1>14. ASSUME NEW t \in Threads, Bump(t) PROVE CacheType'
  BY <1>14 DEF Bump, server
<1>15. ASSUME NEW t \in Threads, Clear(t) PROVE CacheType'
  <2>1. cache' = <<>> /\ ids' = ids
    BY <1>15 DEF Clear
  <2>. QED  BY <2>1, PlansAssumption DEF Table, InCache
<1>16. ASSUME NEW t \in Threads, Ddl(t) PROVE CacheType'
  BY <1>16 DEF Ddl, server
<1>17. ASSUME NEW t \in Threads, DdlFails(t) PROVE CacheType'
  BY <1>17 DEF DdlFails, server
<1>18. CASE ServerDiscards
  BY <1>18 DEF ServerDiscards
<1>. QED  BY <1>1, <1>2, <1>3, <1>4, <1>5, <1>6, <1>7, <1>8, <1>9, <1>10, <1>11, <1>12, <1>13,
             <1>14, <1>15, <1>16, <1>17, <1>18, Zenon DEF Next

\* Leases are the same when the cache is and the statement keeps its own.
LEMMA SameLeases ==
  ASSUME NEW t \in Threads,
         \A u \in Threads : u # t => th'[u] = th[u],
         cache' = cache,
         \A x \in LeasesOf(th'[t]) : x # None => x \in LeasesOf(th[t]),
         \A x \in LeasesOf(th[t]) : x # None => x \in LeasesOf(th'[t])
  PROVE  Leases(cache', th') = Leases(cache, th)
<1>1. Leases(cache, th) \subseteq Leases(cache', th')
  BY LeaseKept
<1>2. \A x \in InCache(cache') : x # None => x \in Leases(cache, th)
  BY LeaseMembers
<1>3. \A x \in LeasesOf(th'[t]) : x # None => x \in Leases(cache, th)
  BY LeaseMembers, ZenonT(30)
<1>4. Leases(cache', th') \subseteq Leases(cache, th) \cup {}
  BY <1>2, <1>3, LeaseFrame
<1>. QED  BY <1>1, <1>4, ZenonT(30)

\* Every step settles leases and handles as Settles says.
LEMMA SettlesStep ==
  ASSUME TypeOK, RangeInv, StatementInv, Next
  PROVE  Settles
<1>0. th \in [Threads -> Statements] /\ ids \in Nat /\ ids \in 0..MaxIds
  BY DEF RangeInv, StatementType
<1>. USE <1>0
<1>1. ASSUME NEW t \in Threads, \E q \in Shapes : Declare(t, q) PROVE Settles
  <2>1. cache' = cache /\ \A u \in Threads : u # t => th'[u] = th[u]
    BY <1>1 DEF Declare
  <2>2. \A x \in LeasesOf(th'[t]) : x # None => x \in LeasesOf(th[t])
    BY <1>1 DEF Declare, LeasesOf, Idle, Statements, None
  <2>3. \A x \in LeasesOf(th[t]) : x # None => x \in LeasesOf(th'[t])
    BY <1>1 DEF Declare, LeasesOf, Idle, Statements, StatementInv, Consistent, Preparing, None
  <2>4. Leases(cache', th') = Leases(cache, th)
    BY <2>1, <2>2, <2>3, SameLeases
  <2>5. UNCHANGED <<live, pending, released>>
    BY <1>1 DEF Declare, server, history
  <2>. QED  BY <2>4, <2>5, QuietSettles
<1>2. ASSUME NEW t \in Threads, ClearPrepared(t) PROVE Settles
  <2>1. OnlyDrops /\ \A u \in Threads : u # t => th'[u] = th[u]
    BY <1>2 DEF ClearPrepared
  <2>2. \A x \in InCache(cache') : x # None => x \in Leases(cache, th)
    BY <1>2, LeaseMembers DEF ClearPrepared
  <2>3. \A x \in LeasesOf(th'[t]) : x # None => x \in Leases(cache, th)
    BY <1>2, LeaseMembers DEF ClearPrepared, LeasesOf, Idle, Statements
  <2>. QED  BY <2>1, <2>2, <2>3, LeaseFrame, DropsSettle
<1>3. ASSUME NEW t \in Threads, Get(t) PROVE Settles
  <2>. DEFINE q == th[t].q
              e == Lru!Verdict(cache, q)
  <2>0. Table(cache) /\ q \in Shapes \cup {"none"} /\ InCache(cache) \subseteq Nat
    BY DEF RangeInv, CacheType, Statements
  <2>1. CASE /\ Lru!Holds(cache, q) /\ Obtain(t, e) /\ OnlyDrops
             /\ cache' = Lru!Remember(cache, q, e, Capacity)
    <3>1. e \in Leases(cache, th) \cup {None}
      BY <2>0, <2>1, VerdictCached, LeaseMembers
    <3>2. \A u \in Threads : u # t => th'[u] = th[u]
      BY <2>1 DEF Obtain
    <3>3. \A x \in LeasesOf(th'[t]) : x # None => x \in LeasesOf(th[t]) \cup {e}
      BY <2>1 DEF Obtain, LeasesOf, Idle, Statements
    <3>4. \A x \in InCache(cache') : x \in InCache(cache) \cup {e}
      BY <2>0, <2>1, VerdictCached, Remembered
    <3>5. Leases(cache', th') \subseteq Leases(cache, th) \cup {}
      BY <3>1, <3>2, <3>3, <3>4, LeaseMembers, LeaseFrame
    <3>. QED  BY <2>1, <3>5, DropsSettle
  <2>2. CASE /\ th' = [th EXCEPT ![t].pc = "prepare"] /\ cache' = cache /\ OnlyDrops
             /\ th[t].pc = "get"
    <3>1. \A x \in LeasesOf(th'[t]) : x # None => x \in LeasesOf(th[t])
      BY <2>2 DEF LeasesOf, Statements
    <3>2. \A x \in LeasesOf(th[t]) : x # None => x \in LeasesOf(th'[t])
      BY <2>2 DEF LeasesOf, Statements
    <3>3. \A u \in Threads : u # t => th'[u] = th[u]
      BY <2>2
    <3>. QED  BY <2>2, <3>1, <3>2, <3>3, SameLeases, DropsSettle, Zenon
  <2>. QED  BY <1>3, <2>1, <2>2, GetCases
<1>4. ASSUME NEW t \in Threads, Prepare(t) PROVE Settles
  <2>1. cache' = cache /\ \A u \in Threads : u # t => th'[u] = th[u]
    BY <1>4 DEF Prepare
  <2>2. \A x \in LeasesOf(th'[t]) : x # None => x \in LeasesOf(th[t])
    BY <1>4 DEF Prepare, LeasesOf, Idle, Statements, None
  <2>3. \A x \in LeasesOf(th[t]) : x # None => x \in LeasesOf(th'[t])
    BY <1>4 DEF Prepare, LeasesOf, Idle, Statements, StatementInv, Consistent, Preparing, None
  <2>4. Leases(cache', th') = Leases(cache, th)
    BY <2>1, <2>2, <2>3, SameLeases
  <2>5. /\ live' = (live \ pending) \cup {ids + 1} /\ live \subseteq 1..ids
        /\ released' = released \cup pending /\ pending' = {}
    BY <1>4 DEF Prepare, TypeOK
  <2>. QED  BY <2>4, <2>5 DEF Settles, GivenUp
<1>5. ASSUME NEW t \in Threads, PrepareFails(t) PROVE Settles
  <2>1. cache' = cache /\ \A u \in Threads : u # t => th'[u] = th[u]
    BY <1>5 DEF PrepareFails
  <2>2. \A x \in LeasesOf(th'[t]) : x # None => x \in LeasesOf(th[t])
    BY <1>5 DEF PrepareFails, LeasesOf, Idle, Statements, None
  <2>3. \A x \in LeasesOf(th[t]) : x # None => x \in LeasesOf(th'[t])
    BY <1>5 DEF PrepareFails, LeasesOf, Idle, Statements, StatementInv, Consistent, Preparing,
       None
  <2>4. Leases(cache', th') = Leases(cache, th)
    BY <2>1, <2>2, <2>3, SameLeases
  <2>. QED  BY <1>5, <2>4, LockSettles DEF PrepareFails
<1>6. ASSUME NEW t \in Threads, Wrap(t) PROVE Settles
  <2>1. UNCHANGED <<cache, live, pending, released>> /\ \A u \in Threads : u # t => th'[u] = th[u]
    BY <1>6 DEF Wrap, server, history
  <2>2. th[t].pc = "wrap" /\ th' = [th EXCEPT ![t].pc = "insert"]
    BY <1>6 DEF Wrap
  <2>3. \A x \in LeasesOf(th[t]) : x # None => x \in LeasesOf(th'[t])
    BY <2>2 DEF LeasesOf, Statements
  <2>4. \A x \in LeasesOf(th'[t]) : x \in LeasesOf(th[t]) \cup {th[t].cand}
    BY <2>2 DEF LeasesOf, Statements
  <2>5. Leases(cache, th) \subseteq Leases(cache', th')
    BY <2>1, <2>3, LeaseKept
  <2>6. Leases(cache', th') \subseteq Leases(cache, th) \cup {th[t].cand}
    BY <2>1, <2>4, LeaseMembers, LeaseFrame
  <2>7. th'[t].pc = "insert"
    BY <2>2 DEF Statements
  <2>. QED  BY <2>1, <2>2, <2>5, <2>6, <2>7, QuietSettles, Zenon DEF Wraps
<1>7. ASSUME NEW t \in Threads, Insert(t) PROVE Settles
  <2>. DEFINE q == th[t].q
              e == IF Lru!Holds(cache, q) THEN Lru!Verdict(cache, q) ELSE th[t].cand
  <2>0. /\ Table(cache) /\ q \in Shapes \cup {"none"} /\ InCache(cache) \subseteq Nat
        /\ th[t].cand \in Nat
    BY DEF RangeInv, CacheType, Statements
  <2>1. /\ th[t].pc = "insert" /\ Obtain(t, e) /\ OnlyDrops
        /\ cache' = Lru!Remember(cache, q, e, Capacity)
    BY <1>7 DEF Insert
  <2>3. e \in Leases(cache, th) \cup {None}
    BY <2>0, <2>1, VerdictCached, LeaseMembers DEF LeasesOf
  <2>4. \A u \in Threads : u # t => th'[u] = th[u]
    BY <2>1 DEF Obtain
  <2>5. \A x \in LeasesOf(th'[t]) : x # None => x \in LeasesOf(th[t]) \cup {e}
    BY <2>1 DEF Obtain, LeasesOf, Idle, Statements
  <2>6. \A x \in InCache(cache') : x \in InCache(cache) \cup {e}
    <3>1. e \in Nat
      BY <2>0, VerdictCached
    <3>. HIDE DEF e
    <3>. QED  BY <2>0, <2>1, <3>1, Remembered, ZenonT(30)
  <2>7. Leases(cache', th') \subseteq Leases(cache, th) \cup {}
    BY <2>3, <2>4, <2>5, <2>6, LeaseMembers, LeaseFrame
  <2>. QED  BY <2>1, <2>7, DropsSettle
<1>8. ASSUME NEW t \in Threads, Call(t) PROVE Settles
  <2>1. cache' = cache /\ \A u \in Threads : u # t => th'[u] = th[u]
    BY <1>8 DEF Call
  <2>2. \A x \in LeasesOf(th'[t]) : x # None => x \in LeasesOf(th[t])
    BY <1>8 DEF Call, LeasesOf, Idle, Statements, None
  <2>3. \A x \in LeasesOf(th[t]) : x # None => x \in LeasesOf(th'[t])
    BY <1>8 DEF Call, LeasesOf, Idle, Statements, StatementInv, Consistent, Preparing, None
  <2>4. Leases(cache', th') = Leases(cache, th)
    BY <2>1, <2>2, <2>3, SameLeases
  <2>5. UNCHANGED <<live, pending, released>>
    BY <1>8 DEF Call, server, history
  <2>. QED  BY <2>4, <2>5, QuietSettles
<1>9. ASSUME NEW t \in Threads, Send(t) PROVE Settles
  <2>0. LockConnection /\ cache' = cache /\ th[t].pc = "send" /\ th[t] \in Statements
    BY <1>9, SendCases, Zenon
  <2>1. /\ \A u \in Threads : u # t => th'[u] = th[u]
        /\ th'[t].slot = th[t].slot /\ th'[t].first = th[t].first /\ th'[t].second = th[t].second
        /\ th'[t].pc # "insert"
    <3>1. CASE th' = [th EXCEPT ![t].pc = "rows"] \/ th' = [th EXCEPT ![t].pc = "evict"]
      BY <2>0, <3>1 DEF Statements
    <3>2. CASE th' = [th EXCEPT ![t].pc = "done", ![t].result = "ok"]
      BY <2>0, <3>2 DEF Statements
    <3>3. CASE th' = [th EXCEPT ![t].pc = "done", ![t].result = "missing"]
      BY <2>0, <3>3 DEF Statements
    <3>. QED  BY <1>9, <3>1, <3>2, <3>3, SendCases
  <2>2. LeasesOf(th'[t]) = LeasesOf(th[t])
    BY <2>0, <2>1 DEF LeasesOf
  <2>. QED  BY <2>0, <2>1, <2>2, SameLeases, LockSettles
<1>10. ASSUME NEW t \in Threads, Evict(t) PROVE Settles
  <2>1. OnlyDrops /\ \A u \in Threads : u # t => th'[u] = th[u]
    BY <1>10 DEF Evict
  <2>2. \A x \in InCache(cache') : x # None => x \in Leases(cache, th)
    BY <1>10, EvictedTable, LeaseMembers DEF Evict, RangeInv, CacheType
  <2>3. \A x \in LeasesOf(th'[t]) : x # None => x \in Leases(cache, th)
    BY <1>10, LeaseMembers DEF Evict, LeasesOf, Idle, Statements
  <2>. QED  BY <2>1, <2>2, <2>3, LeaseFrame, DropsSettle
<1>11. ASSUME NEW t \in Threads, SendRows(t) PROVE Settles
  <2>1. OnlyDrops /\ \A u \in Threads : u # t => th'[u] = th[u]
    BY <1>11 DEF SendRows
  <2>2. \A x \in InCache(cache') : x # None => x \in Leases(cache, th)
    BY <1>11, LeaseMembers DEF SendRows
  <2>3. \A x \in LeasesOf(th'[t]) : x # None => x \in Leases(cache, th)
    BY <1>11, LeaseMembers DEF SendRows, LeasesOf, Idle, Statements
  <2>. QED  BY <2>1, <2>2, <2>3, LeaseFrame, DropsSettle
<1>12. ASSUME NEW t \in Threads, Return(t) PROVE Settles
  <2>1. OnlyDrops /\ \A u \in Threads : u # t => th'[u] = th[u]
    BY <1>12 DEF Return
  <2>2. \A x \in InCache(cache') : x # None => x \in Leases(cache, th)
    BY <1>12, LeaseMembers DEF Return
  <2>3. \A x \in LeasesOf(th'[t]) : x # None => x \in Leases(cache, th)
    BY <1>12, LeaseMembers DEF Return, LeasesOf, Idle, Statements
  <2>. QED  BY <2>1, <2>2, <2>3, LeaseFrame, DropsSettle
<1>13. ASSUME NEW t \in Threads, BeginDdl(t) PROVE Settles
  <2>1. cache' = cache /\ \A u \in Threads : u # t => th'[u] = th[u]
    BY <1>13 DEF BeginDdl
  <2>2. \A x \in LeasesOf(th'[t]) : x # None => x \in LeasesOf(th[t])
    BY <1>13 DEF BeginDdl, LeasesOf, Idle, Statements, None
  <2>3. \A x \in LeasesOf(th[t]) : x # None => x \in LeasesOf(th'[t])
    BY <1>13 DEF BeginDdl, LeasesOf, Idle, Statements, StatementInv, Consistent, Preparing, None
  <2>4. Leases(cache', th') = Leases(cache, th)
    BY <2>1, <2>2, <2>3, SameLeases
  <2>5. UNCHANGED <<live, pending, released>>
    BY <1>13 DEF BeginDdl, server, history
  <2>. QED  BY <2>4, <2>5, QuietSettles
<1>14. ASSUME NEW t \in Threads, Bump(t) PROVE Settles
  <2>1. cache' = cache /\ \A u \in Threads : u # t => th'[u] = th[u]
    BY <1>14 DEF Bump
  <2>2. \A x \in LeasesOf(th'[t]) : x # None => x \in LeasesOf(th[t])
    BY <1>14 DEF Bump, LeasesOf, Idle, Statements, None
  <2>3. \A x \in LeasesOf(th[t]) : x # None => x \in LeasesOf(th'[t])
    BY <1>14 DEF Bump, LeasesOf, Idle, Statements, StatementInv, Consistent, Preparing, None
  <2>4. Leases(cache', th') = Leases(cache, th)
    BY <2>1, <2>2, <2>3, SameLeases
  <2>5. UNCHANGED <<live, pending, released>>
    BY <1>14 DEF Bump, server, history
  <2>. QED  BY <2>4, <2>5, QuietSettles
<1>15. ASSUME NEW t \in Threads, Clear(t) PROVE Settles
  <2>1. OnlyDrops /\ \A u \in Threads : u # t => th'[u] = th[u]
    BY <1>15 DEF Clear
  <2>2. \A x \in InCache(cache') : x # None => x \in Leases(cache, th)
    BY <1>15, LeaseMembers DEF Clear, InCache
  <2>3. \A x \in LeasesOf(th'[t]) : x # None => x \in Leases(cache, th)
    BY <1>15, LeaseMembers DEF Clear, LeasesOf, Idle, Statements
  <2>. QED  BY <2>1, <2>2, <2>3, LeaseFrame, DropsSettle
<1>16. ASSUME NEW t \in Threads, Ddl(t) PROVE Settles
  <2>1. cache' = cache /\ \A u \in Threads : u # t => th'[u] = th[u]
    BY <1>16 DEF Ddl
  <2>2. \A x \in LeasesOf(th'[t]) : x # None => x \in LeasesOf(th[t])
    BY <1>16 DEF Ddl, LeasesOf, Idle, Statements, None
  <2>3. \A x \in LeasesOf(th[t]) : x # None => x \in LeasesOf(th'[t])
    BY <1>16 DEF Ddl, LeasesOf, Idle, Statements, StatementInv, Consistent, Preparing, None
  <2>4. Leases(cache', th') = Leases(cache, th)
    BY <2>1, <2>2, <2>3, SameLeases
  <2>5. /\ live' = {} /\ released' = released \cup pending /\ pending' = {} /\ disturbed' = Calls
    BY <1>16 DEF Ddl
  <2>. QED  BY <2>4, <2>5 DEF Settles, GivenUp
<1>17. ASSUME NEW t \in Threads, DdlFails(t) PROVE Settles
  <2>1. cache' = cache /\ \A u \in Threads : u # t => th'[u] = th[u]
    BY <1>17 DEF DdlFails
  <2>2. \A x \in LeasesOf(th'[t]) : x # None => x \in LeasesOf(th[t])
    BY <1>17 DEF DdlFails, LeasesOf, Idle, Statements, None
  <2>3. \A x \in LeasesOf(th[t]) : x # None => x \in LeasesOf(th'[t])
    BY <1>17 DEF DdlFails, LeasesOf, Idle, Statements, StatementInv, Consistent, Preparing, None
  <2>4. Leases(cache', th') = Leases(cache, th)
    BY <2>1, <2>2, <2>3, SameLeases
  <2>. QED  BY <1>17, <2>4, LockSettles DEF DdlFails
<1>18. CASE ServerDiscards
  <2>1. /\ UNCHANGED <<cache, th, pending, released>> /\ live' \subseteq live /\ disturbed' = Calls
    BY <1>18 DEF ServerDiscards
  <2>. QED  BY <2>1 DEF Settles, GivenUp
<1>. QED  BY <1>1, <1>2, <1>3, <1>4, <1>5, <1>6, <1>7, <1>8, <1>9, <1>10, <1>11, <1>12, <1>13,
             <1>14, <1>15, <1>16, <1>17, <1>18 DEF Next

\* What a step does to generations: only a handle on its way into the cache gets
\* one, and the connection's own grows by one at a time.
GenerationsKept ==
    /\ \A x \in Ids : gen'[x] = gen[x] \/ \E u \in Threads : Carries(th'[u]) /\ x = th'[u].cand
    /\ \/ generation' = generation
       \/ generation' = generation + 1 /\ gen' = gen

\* Every step treats generations as GenerationsKept says.
LEMMA GenerationsStep ==
  ASSUME RangeInv, Next
  PROVE  GenerationsKept
<1>0. th \in [Threads -> Statements] /\ ids \in Nat /\ ids \in 0..MaxIds
  BY DEF RangeInv, StatementType
<1>. USE <1>0
<1>1. ASSUME NEW t \in Threads, \E q \in Shapes : Declare(t, q) PROVE GenerationsKept
  BY <1>1 DEF Declare, GenerationsKept
<1>2. ASSUME NEW t \in Threads, ClearPrepared(t) PROVE GenerationsKept
  BY <1>2 DEF ClearPrepared, GenerationsKept
<1>3. ASSUME NEW t \in Threads, Get(t) PROVE GenerationsKept
  BY <1>3, GetCases DEF GenerationsKept
<1>4. ASSUME NEW t \in Threads, Prepare(t) PROVE GenerationsKept
  BY <1>4 DEF Prepare, GenerationsKept
<1>5. ASSUME NEW t \in Threads, PrepareFails(t) PROVE GenerationsKept
  BY <1>5 DEF PrepareFails, GenerationsKept
<1>6. ASSUME NEW t \in Threads, Wrap(t) PROVE GenerationsKept
  <2>1. /\ gen \in [Ids -> Nat] /\ gen' = [gen EXCEPT ![th[t].cand] = generation]
        /\ generation' = generation
    BY <1>6 DEF Wrap, RangeInv, ConnectionType
  <2>2. Carries(th'[t]) /\ th'[t].cand = th[t].cand
    BY <1>6 DEF Wrap, Carries, Statements
  <2>. QED  BY <2>1, <2>2 DEF GenerationsKept
<1>7. ASSUME NEW t \in Threads, Insert(t) PROVE GenerationsKept
  BY <1>7 DEF Insert, GenerationsKept
<1>8. ASSUME NEW t \in Threads, Call(t) PROVE GenerationsKept
  BY <1>8 DEF Call, GenerationsKept
<1>9. ASSUME NEW t \in Threads, Send(t) PROVE GenerationsKept
  BY <1>9, SendCases, Zenon DEF GenerationsKept
<1>10. ASSUME NEW t \in Threads, Evict(t) PROVE GenerationsKept
  BY <1>10 DEF Evict, GenerationsKept
<1>11. ASSUME NEW t \in Threads, SendRows(t) PROVE GenerationsKept
  BY <1>11 DEF SendRows, GenerationsKept
<1>12. ASSUME NEW t \in Threads, Return(t) PROVE GenerationsKept
  BY <1>12 DEF Return, GenerationsKept
<1>13. ASSUME NEW t \in Threads, BeginDdl(t) PROVE GenerationsKept
  BY <1>13 DEF BeginDdl, GenerationsKept
<1>14. ASSUME NEW t \in Threads, Bump(t) PROVE GenerationsKept
  BY <1>14 DEF Bump, GenerationsKept
<1>15. ASSUME NEW t \in Threads, Clear(t) PROVE GenerationsKept
  BY <1>15 DEF Clear, GenerationsKept
<1>16. ASSUME NEW t \in Threads, Ddl(t) PROVE GenerationsKept
  BY <1>16 DEF Ddl, GenerationsKept
<1>17. ASSUME NEW t \in Threads, DdlFails(t) PROVE GenerationsKept
  BY <1>17 DEF DdlFails, GenerationsKept
<1>18. CASE ServerDiscards
  BY <1>18 DEF ServerDiscards, GenerationsKept
<1>. QED  BY <1>1, <1>2, <1>3, <1>4, <1>5, <1>6, <1>7, <1>8, <1>9, <1>10, <1>11, <1>12, <1>13,
             <1>14, <1>15, <1>16, <1>17, <1>18 DEF Next

\* What a step stores in the cache was there or was on its way into it.
PairsKept ==
    \A e \in Pairs(cache') :
        e \in Pairs(cache) \/ \E u \in Threads : th[u].pc = "insert" /\ e.outcome = th[u].cand

\* Every step stores pairs as PairsKept says.
LEMMA PairsStep ==
  ASSUME RangeInv, Next
  PROVE  PairsKept
<1>0. th \in [Threads -> Statements] /\ ids \in Nat /\ ids \in 0..MaxIds
  BY DEF RangeInv, StatementType
<1>. USE <1>0
<1>1. ASSUME NEW t \in Threads, \E q \in Shapes : Declare(t, q) PROVE PairsKept
  BY <1>1 DEF Declare, PairsKept
<1>2. ASSUME NEW t \in Threads, ClearPrepared(t) PROVE PairsKept
  BY <1>2 DEF ClearPrepared, PairsKept
<1>3. ASSUME NEW t \in Threads, Get(t) PROVE PairsKept
  <2>. DEFINE q == th[t].q
              e == Lru!Verdict(cache, q)
  <2>0. /\ Table(cache) /\ q \in Shapes \cup {"none"} /\ InCache(cache) \subseteq Nat
        /\ Capacity \in Nat
    BY PlansAssumption DEF RangeInv, CacheType, Statements
  <2>1. CASE Lru!Holds(cache, q)
    <3>1. cache' = Lru!Remember(cache, q, e, Capacity)
      BY <1>3, <2>1, GetCases
    <3>2. e \in Nat /\ Lru!Pair(q, e) \in Pairs(cache)
      BY <2>0, <2>1, VerdictCached, VerdictStored
    <3>. HIDE DEF e
    <3>3. \A p \in Pairs(cache') : p = Lru!Pair(q, e) \/ p \in Pairs(cache)
      BY <2>0, <3>1, <3>2, RememberTable, Zenon
    <3>. QED  BY <3>2, <3>3 DEF PairsKept
  <2>2. CASE ~Lru!Holds(cache, q)
    BY <1>3, <2>2, GetCases DEF PairsKept
  <2>. QED  BY <2>1, <2>2
<1>4. ASSUME NEW t \in Threads, Prepare(t) PROVE PairsKept
  BY <1>4 DEF Prepare, PairsKept
<1>5. ASSUME NEW t \in Threads, PrepareFails(t) PROVE PairsKept
  BY <1>5 DEF PrepareFails, PairsKept
<1>6. ASSUME NEW t \in Threads, Wrap(t) PROVE PairsKept
  BY <1>6 DEF Wrap, PairsKept
<1>7. ASSUME NEW t \in Threads, Insert(t) PROVE PairsKept
  <2>. DEFINE q == th[t].q
              e == IF Lru!Holds(cache, q) THEN Lru!Verdict(cache, q) ELSE th[t].cand
  <2>0. /\ Table(cache) /\ q \in Shapes \cup {"none"} /\ InCache(cache) \subseteq Nat
        /\ Capacity \in Nat
        /\ th[t].cand \in Nat
    BY PlansAssumption DEF RangeInv, CacheType, Statements
  <2>1. cache' = Lru!Remember(cache, q, e, Capacity) /\ th[t].pc = "insert"
    BY <1>7 DEF Insert
  <2>2. e \in Nat /\ (Lru!Pair(q, e) \in Pairs(cache) \/ e = th[t].cand)
    BY <2>0, VerdictCached, VerdictStored
  <2>. HIDE DEF e
  <2>3. \A p \in Pairs(cache') : p = Lru!Pair(q, e) \/ p \in Pairs(cache)
    BY <2>0, <2>1, <2>2, RememberTable, Zenon
  <2>4. Lru!Pair(q, e).outcome = e
    BY DEF Lru!Pair
  <2>. QED  BY <2>1, <2>2, <2>3, <2>4 DEF PairsKept
<1>8. ASSUME NEW t \in Threads, Call(t) PROVE PairsKept
  BY <1>8 DEF Call, PairsKept
<1>9. ASSUME NEW t \in Threads, Send(t) PROVE PairsKept
  BY <1>9, SendCases, Zenon DEF PairsKept
<1>10. ASSUME NEW t \in Threads, Evict(t) PROVE PairsKept
  BY <1>10, EvictedTable DEF Evict, PairsKept, RangeInv, CacheType
<1>11. ASSUME NEW t \in Threads, SendRows(t) PROVE PairsKept
  BY <1>11 DEF SendRows, PairsKept
<1>12. ASSUME NEW t \in Threads, Return(t) PROVE PairsKept
  BY <1>12 DEF Return, PairsKept
<1>13. ASSUME NEW t \in Threads, BeginDdl(t) PROVE PairsKept
  BY <1>13 DEF BeginDdl, PairsKept
<1>14. ASSUME NEW t \in Threads, Bump(t) PROVE PairsKept
  BY <1>14 DEF Bump, PairsKept
<1>15. ASSUME NEW t \in Threads, Clear(t) PROVE PairsKept
  BY <1>15 DEF Clear, PairsKept, Pairs
<1>16. ASSUME NEW t \in Threads, Ddl(t) PROVE PairsKept
  BY <1>16 DEF Ddl, PairsKept
<1>17. ASSUME NEW t \in Threads, DdlFails(t) PROVE PairsKept
  BY <1>17 DEF DdlFails, PairsKept
<1>18. CASE ServerDiscards
  BY <1>18 DEF ServerDiscards, PairsKept
<1>. QED  BY <1>1, <1>2, <1>3, <1>4, <1>5, <1>6, <1>7, <1>8, <1>9, <1>10, <1>11, <1>12, <1>13,
             <1>14, <1>15, <1>16, <1>17, <1>18 DEF Next

-----------------------------------------------------------------------------
(* The invariants.                                                          *)

\* Every leased handle was given out.
LEMMA LeasesGiven ==
  ASSUME RangeInv
  PROVE  Leases(cache, th) \subseteq 1..ids
<1>. SUFFICES ASSUME NEW x \in Leases(cache, th) PROVE x \in 1..ids
  OBVIOUS
<1>1. th \in [Threads -> Statements] /\ ids \in Nat /\ InCache(cache) \subseteq 1..ids
  BY PlansAssumption DEF RangeInv, StatementType, CacheType
<1>2. x # None /\ (x \in InCache(cache) \/ \E u \in Threads : x \in LeasesOf(th[u]))
  BY LeaseMembers
<1>3. ASSUME NEW u \in Threads, x \in LeasesOf(th[u]) PROVE x \in 1..ids
  <2>1. x \in 0..ids
    BY <1>1, <1>3 DEF LeasesOf, Statements
  <2>. QED  BY <1>1, <1>2, <2>1 DEF None
<1>. QED  BY <1>1, <1>2, <1>3

\* The handles that live, wait or were deallocated were given out.
LEMMA TypeOKStep ==
  ASSUME TypeOK, RangeInv, RangeInv', CarriedInv, Settles, Passes, ids <= ids'
  PROVE  TypeOK'
<1>1. /\ ids \in Nat /\ ids' \in Nat /\ th' \in [Threads -> Statements']
      /\ \A x \in 1..ids : x \in 1..ids'
  BY PlansAssumption DEF RangeInv, StatementType
<1>2. released \cup pending \cup GivenUp \subseteq 1..ids
  BY LeasesGiven, Zenon DEF TypeOK, GivenUp
<1>3. released' \subseteq 1..ids' /\ pending' \subseteq 1..ids'
  BY <1>1, <1>2 DEF Settles
<1>4. ASSUME NEW x \in live' PROVE x \in 1..ids'
  <2>1. CASE x \in live
    BY <1>1, <2>1 DEF TypeOK
  <2>2. CASE x \notin live
    <3>1. PICK u \in Threads : th'[u].pc = "wrap" /\ x = th'[u].cand
      BY <2>2 DEF Passes
    <3>2. x # 0
      BY <1>1, <3>1 DEF Passes, Carries, CarriedInv, None
    <3>3. x \in 0..ids'
      BY <1>1, <3>1 DEF Statements
    <3>. QED  BY <1>1, <3>2, <3>3
  <2>. QED  BY <2>1, <2>2
<1>5. /\ lock' \in Threads \cup {Free} /\ th' \in [Threads -> Statements']
      /\ Len(cache') <= Capacity /\ InCache(cache') \subseteq 1..ids'
  BY DEF RangeInv, ConnectionType, StatementType, CacheType
<1>. QED  BY <1>3, <1>4, <1>5 DEF TypeOK

\* No lease is taken on a handle that was given up, and no leased handle is
\* given up.
LEMMA LeasedStep ==
  ASSUME LeasedHandlesStay, CarriedInv, Settles
  PROVE  LeasedHandlesStay'
<1>. SUFFICES ASSUME NEW x \in released' \cup pending', x \in Leases(cache', th')
              PROVE  FALSE
  BY DEF LeasedHandlesStay
<1>1. x \in released \cup pending
  BY DEF Settles, GivenUp
<1>2. x \notin Leases(cache, th)
  BY <1>1 DEF LeasedHandlesStay
<1>3. PICK t \in Threads : Wraps(t, x)
  BY <1>2 DEF Settles
<1>. QED  BY <1>1, <1>3 DEF Wraps, Carries, CarriedInv

\* A handle on its way into the cache stays its caller's own.
LEMMA CarriedStep ==
  ASSUME TypeOK, RangeInv, CarriedInv, Settles, Passes
  PROVE  CarriedInv'
<1>1. /\ ids \in Nat /\ th \in [Threads -> Statements]
      /\ released \cup pending \cup Leases(cache, th) \subseteq 1..ids
  <2>1. ids \in Nat /\ th \in [Threads -> Statements]
    BY PlansAssumption DEF RangeInv, StatementType
  <2>. QED  BY <2>1, LeasesGiven, ZenonT(30) DEF TypeOK
<1>2. ids + 1 \notin 1..ids /\ ids + 1 # 0
  BY <1>1
<1>3. \A u \in Threads : Carries(th[u]) => th[u].cand # ids + 1
  BY <1>1 DEF Statements
<1>4. ASSUME NEW u \in Threads, Carries(th'[u])
      PROVE  th'[u].cand # None /\ th'[u].cand \notin released' \cup pending'
  <2>1. CASE /\ Carries(th[u]) /\ th'[u].cand = th[u].cand
             /\ th'[u].pc = "wrap" => th[u].pc = "wrap"
    <3>1. th'[u].cand # None /\ th'[u].cand \notin released \cup pending
      BY <2>1 DEF CarriedInv
    <3>2. th'[u].cand \notin GivenUp
      <4>1. CASE th'[u].pc = "wrap"
        BY <2>1, <4>1 DEF CarriedInv, GivenUp
      <4>2. CASE th'[u].pc = "insert"
        <5>1. th'[u].cand \in LeasesOf(th'[u])
          BY <4>2 DEF LeasesOf
        <5>. QED  BY <3>1, <5>1, LeaseMembers DEF GivenUp
      <4>. QED  BY <1>4, <4>1, <4>2 DEF Carries
    <3>. QED  BY <3>1, <3>2 DEF Settles
  <2>2. CASE th'[u].cand = ids + 1
    BY <1>1, <1>2, <2>2 DEF Settles, GivenUp, None
  <2>. QED  BY <1>4, <2>1, <2>2 DEF Passes
<1>5. ASSUME NEW u \in Threads, th'[u].pc = "wrap", th'[u].cand \in Leases(cache', th')
      PROVE  FALSE
  <2>1. Carries(th'[u])
    BY <1>5 DEF Carries
  <2>2. CASE Carries(th[u]) /\ th'[u].cand = th[u].cand /\ th[u].pc = "wrap"
    <3>1. th[u].cand \notin Leases(cache, th)
      BY <2>2 DEF CarriedInv
    <3>2. PICK t \in Threads : Wraps(t, th[u].cand)
      BY <1>5, <2>2, <3>1 DEF Settles
    <3>3. u = t
      BY <2>2, <3>2 DEF CarriedInv, Wraps, Carries
    <3>. QED  BY <1>5, <3>2, <3>3 DEF Wraps
  <2>3. CASE th'[u].cand = ids + 1
    <3>1. PICK t \in Threads : Wraps(t, ids + 1)
      BY <1>1, <1>2, <1>5, <2>3 DEF Settles
    <3>. QED  BY <1>3, <3>1 DEF Wraps, Carries
  <2>. QED  BY <1>5, <2>1, <2>2, <2>3 DEF Passes
<1>6. ASSUME NEW t \in Threads, NEW u \in Threads, Carries(th'[t]), Carries(th'[u]),
             th'[t].cand = th'[u].cand
      PROVE  t = u
  <2>1. CASE /\ th'[t].cand = th[t].cand /\ Carries(th[t]) /\ th'[u].cand = th[u].cand
             /\ Carries(th[u])
    BY <1>6, <2>1, Zenon DEF CarriedInv
  <2>2. CASE th'[t].cand = ids + 1 /\ \A v \in Threads : v # t => th'[v] = th[v]
    BY <1>3, <1>6, <2>2, ZenonT(30)
  <2>3. CASE th'[u].cand = ids + 1 /\ \A v \in Threads : v # u => th'[v] = th[v]
    BY <1>3, <1>6, <2>3
  <2>. QED  BY <1>6, <2>1, <2>2, <2>3 DEF Passes
<1>. QED  BY <1>4, <1>5, <1>6 DEF CarriedInv

\* No live handle of the current generation loses its last owner.
LEMMA OrphansStep ==
  ASSUME TypeOK, RangeInv, RangeInv', OrphansAreOld, Settles, Passes, GenerationsKept
  PROVE  OrphansAreOld'
<1>. SUFFICES ASSUME NEW x \in live', x \notin Leases(cache', th'), x \notin pending',
                     x \notin InFlight'
              PROVE  gen'[x] # generation'
  BY DEF OrphansAreOld
<1>1. \A u \in Threads : Carries(th'[u]) => x # th'[u].cand
  BY DEF InFlight, Carries
<1>2. x \in live
  BY <1>1 DEF Passes, Carries
<1>3. x \in Ids /\ x # None /\ generation \in Nat /\ gen \in [Ids -> Nat] /\ gen[x] <= generation
  <2>1. x \in 1..ids /\ ids \in 0..MaxIds
    BY <1>2 DEF TypeOK, RangeInv, StatementType
  <2>2. x \in Ids /\ x # None
    BY <2>1, PlansAssumption DEF Ids, None
  <2>. QED  BY <2>2 DEF RangeInv, ConnectionType
<1>4. x \notin pending
  BY <1>2 DEF Settles
<1>5. gen[x] # generation
  <2>1. CASE x \in Leases(cache, th)
    BY <1>2, <2>1 DEF Settles, GivenUp
  <2>2. CASE x \notin Leases(cache, th)
    <3>1. x \notin InFlight
      <4>. SUFFICES ASSUME NEW u \in Threads, Carries(th[u]), x = th[u].cand PROVE FALSE
        BY DEF InFlight, Carries
      <4>1. th[u].pc = "insert"
        BY <1>1 DEF Passes
      <4>2. x \in LeasesOf(th[u])
        BY <4>1 DEF LeasesOf
      <4>. QED  BY <1>3, <2>2, <4>2, LeaseMembers
    <3>. QED  BY <1>2, <1>4, <2>2, <3>1 DEF OrphansAreOld
  <2>. QED  BY <2>1, <2>2
<1>6. CASE generation' = generation
  BY <1>1, <1>3, <1>5, <1>6 DEF GenerationsKept
<1>7. CASE generation' = generation + 1 /\ gen' = gen
  BY <1>3, <1>7
<1>. QED  BY <1>6, <1>7 DEF GenerationsKept

\* What the steps' effects on leases, handles and pairs come to.
Orderly ==
    /\ LeasedHandlesStay /\ CarriedInv /\ Settles /\ Passes /\ PairsKept
    /\ TypeOK /\ RangeInv /\ RangeInv'

\* A step that discards nothing leaves leased and carried handles alive, and
\* makes no pair of the cache dead.
LEMMA Undisturbed ==
  ASSUME Orderly, disturbed' # Calls, AllAlive
  PROVE  /\ \A x \in live : x \in Leases(cache', th') => x \in live'
         /\ AllAlive'
         /\ \A e \in Dead' : e \in Dead
<1>. USE DEF Orderly
<1>1. ASSUME NEW x \in live, x \in Leases(cache', th') PROVE x \in live'
  <2>. SUFFICES ASSUME x \notin live' PROVE FALSE
    OBVIOUS
  <2>1. x \in pending
    BY <1>1 DEF Settles, GivenUp
  <2>2. x \notin Leases(cache, th)
    BY <2>1 DEF LeasedHandlesStay
  <2>3. PICK t \in Threads : Wraps(t, x)
    BY <1>1, <2>2 DEF Settles
  <2>. QED  BY <2>1, <2>3 DEF Wraps, Carries, CarriedInv
<1>2. ASSUME NEW u \in Threads, Carries(th'[u]) PROVE th'[u].cand \in live'
  <2>1. CASE /\ Carries(th[u]) /\ th'[u].cand = th[u].cand
             /\ th'[u].pc = "wrap" => th[u].pc = "wrap"
    <3>1. th[u].cand \in live /\ th[u].cand # None /\ th[u].cand \notin pending
      BY <2>1 DEF AllAlive, CarriedInv
    <3>2. CASE th'[u].pc = "wrap"
      BY <2>1, <3>1, <3>2 DEF CarriedInv, Settles, GivenUp
    <3>3. CASE th'[u].pc = "insert"
      <4>1. th'[u].cand \in LeasesOf(th'[u])
        BY <3>3 DEF LeasesOf
      <4>. QED  BY <1>1, <2>1, <3>1, <4>1, LeaseMembers
    <3>. QED  BY <1>2, <3>2, <3>3 DEF Carries
  <2>2. CASE th'[u].cand = ids + 1 /\ ids + 1 \in live'
    BY <2>2
  <2>. QED  BY <1>2, <2>1, <2>2 DEF Passes
<1>3. ASSUME NEW e \in Pairs(cache'), e.outcome \notin live' PROVE e \in Dead
  <2>1. e.outcome \in Leases(cache', th')
    <3>1. e.outcome \in InCache(cache') /\ InCache(cache') \subseteq 1..ids'
      BY <1>3, TablePairs DEF RangeInv, CacheType
    <3>2. ids' \in Nat
      BY PlansAssumption DEF RangeInv, StatementType
    <3>3. e.outcome # None
      BY <3>1, <3>2 DEF None
    <3>. QED  BY <3>1, <3>3, LeaseMembers
  <2>2. e.outcome \notin live
    BY <1>1, <1>3, <2>1
  <2>3. e \in Pairs(cache)
    BY <2>2 DEF PairsKept, AllAlive, Carries
  <2>. QED  BY <2>2, <2>3 DEF Dead
<1>. QED  BY <1>1, <1>2, <1>3 DEF AllAlive, Dead

\* A call recovers after a step that only moves it on and disturbs nothing.
LEMMA CallContinues ==
  ASSUME Orderly, NEW u \in Threads, Recovers(th[u]), InCall(th[u]), ~disturbed'[u],
         th'[u].q = th[u].q, th'[u].first = th[u].first, th'[u].slot = th[u].slot,
         Unread(th[u]) => Unread(th'[u]),
         Probing(th[u]) => Probing(th'[u]),
         th'[u].retried /\ th'[u].pc = "send" => th[u].retried /\ th[u].pc = "send"
  PROVE  Recovers(th[u])'
<1>0. None \notin live
  BY DEF Orderly, TypeOK, RangeInv, StatementType, None
<1>1. disturbed' # Calls
  BY Zenon DEF Calls, InCall
<1>2. /\ \A x \in live : x \in Leases(cache', th') => x \in live'
      /\ AllAlive'
      /\ \A e \in Dead' : e \in Dead
  BY <1>1, Undisturbed DEF Recovers
<1>3. ASSUME ~Unread(th'[u]), NEW e \in Dead', e.q = th'[u].q
      PROVE  Probing(th'[u]) /\ e.outcome = th'[u].first
  BY <1>2, <1>3 DEF Recovers
<1>4. ASSUME th'[u].retried, th'[u].pc = "send" PROVE th'[u].first \in live'
  <2>1. th'[u].first \in live
    BY <1>4 DEF Recovers
  <2>2. th'[u].first \in LeasesOf(th'[u]) /\ th'[u].first # None
    BY <2>1, <1>0 DEF LeasesOf
  <2>. QED  BY <1>2, <2>1, <2>2, LeaseMembers
<1>. QED  BY <1>2, <1>3, <1>4 DEF Recovers

\* The calls of the threads that do not step recover.
LEMMA OtherCalls ==
  ASSUME Orderly, CallInv, NEW t \in Threads,
         \A u \in Threads : u # t => th'[u] = th[u],
         \A u \in Threads : u # t /\ ~disturbed'[u] => ~disturbed[u] \/ ~InCall(th[u]),
         InCall(th'[t]) /\ ~disturbed'[t] => Recovers(th[t])'
  PROVE  CallInv'
<1>. SUFFICES ASSUME NEW u \in Threads, u # t, InCall(th'[u]), ~disturbed'[u]
              PROVE  Recovers(th[u])'
  BY DEF CallInv
<1>1. th'[u] = th[u] /\ InCall(th[u]) /\ ~disturbed[u]
  OBVIOUS
<1>2. Recovers(th[u])
  BY <1>1 DEF CallInv
<1>. QED  BY <1>1, <1>2, CallContinues

\* Every step keeps the undisturbed calls on the way to a live handle.
LEMMA CallInvStep ==
  ASSUME Orderly, StatementInv, CallInv, Next
  PROVE  CallInv'
<1>0. th \in [Threads -> Statements] /\ ids \in Nat /\ ids \in 0..MaxIds
  BY DEF Orderly, RangeInv, StatementType
<1>. USE <1>0
<1>1. ASSUME NEW t \in Threads, \E q \in Shapes : Declare(t, q) PROVE CallInv'
  <2>1. /\ \A u \in Threads : u # t => th'[u] = th[u]
        /\ \A u \in Threads : u # t /\ ~disturbed'[u] => ~disturbed[u] \/ ~InCall(th[u])
    BY <1>1 DEF Declare, history
  <2>2. ~InCall(th'[t])
    BY <1>1 DEF Declare, InCall, Idle, Statements
  <2>. QED  BY <2>1, <2>2, OtherCalls
<1>2. ASSUME NEW t \in Threads, ClearPrepared(t) PROVE CallInv'
  <2>1. /\ \A u \in Threads : u # t => th'[u] = th[u]
        /\ \A u \in Threads : u # t /\ ~disturbed'[u] => ~disturbed[u] \/ ~InCall(th[u])
    BY <1>2 DEF ClearPrepared
  <2>2. ~InCall(th'[t])
    BY <1>2 DEF ClearPrepared, InCall, Idle, Statements
  <2>. QED  BY <2>1, <2>2, OtherCalls
<1>3. ASSUME NEW t \in Threads, Get(t) PROVE CallInv'
  <2>. DEFINE q == th[t].q
              o == Lru!Verdict(cache, q)
  <2>0. /\ th[t].pc = "get" /\ disturbed' = disturbed /\ Table(cache) /\ Capacity \in Nat
        /\ InCache(cache) \subseteq Nat /\ None \notin InCache(cache)
        /\ q \in Shapes \cup {"none"}
    BY <1>3, GetCases, PlansAssumption DEF Orderly, RangeInv, CacheType, StatementType,
       Statements,
       None
  <2>1. \A u \in Threads : u # t => th'[u] = th[u]
    BY <1>3, GetCases, Zenon DEF Obtain
  <2>2. ASSUME InCall(th'[t]), ~disturbed'[t], InCall(th[t])
        PROVE  Recovers(th[t])'
    <3>1. Recovers(th[t]) /\ disturbed' # Calls
      BY <2>0, <2>2, Zenon DEF CallInv, Calls, InCall
    <3>2. /\ \A x \in live : x \in Leases(cache', th') => x \in live'
          /\ AllAlive'
          /\ \A e \in Dead' : e \in Dead
      BY <3>1, Undisturbed DEF Recovers
    <3>3. CASE ~Lru!Holds(cache, q)
      <4>1. th' = [th EXCEPT ![t].pc = "prepare"]
        BY <1>3, <3>3, GetCases
      <4>2. th'[t].q = q /\ th'[t].pc = "prepare"
        BY <4>1 DEF Statements
      <4>3. \A e \in Dead : e.q # q
        BY <3>3 DEF Dead, Pairs, Lru!Holds
      <4>. QED  BY <3>2, <4>2, <4>3 DEF Recovers
    <3>4. CASE Lru!Holds(cache, q)
      <4>1. cache' = Lru!Remember(cache, q, o, Capacity) /\ Obtain(t, o)
        BY <1>3, <3>4, GetCases
      <4>2. o \in Nat /\ o # None /\ Lru!Pair(q, o) \in Pairs(cache) /\ Lru!Pair(q, o).q = q
            /\ Lru!Pair(q, o).outcome = o
        BY <2>0, <3>4, VerdictCached, VerdictStored DEF Lru!Pair
      <4>. HIDE DEF o
      <4>3. /\ th'[t].q = q /\ th'[t].pc = "send" /\ th'[t].first = o
            /\ th'[t].retried = th[t].retried
        BY <2>2, <4>1, Zenon DEF Obtain, InCall, Statements, Idle
      <4>4. \A e \in Pairs(cache') : e = Lru!Pair(q, o) \/ e.q # q
        <5>. HIDE DEF q
        <5>. QED  BY <2>0, <4>1, <4>2, RememberTable, Zenon
      <4>5. th[t].retried => o \in live
        BY <2>0, <3>1, <4>2 DEF Recovers, Unread, Probing, Dead
      <4>6. th[t].retried => o \in live'
        <5>1. o \in Leases(cache', th')
          BY <4>2, <4>3, LeaseMembers DEF LeasesOf
        <5>. QED  BY <3>2, <4>5, <5>1
      <4>7. \A e \in Dead' : e.q = q => ~th[t].retried /\ e.outcome = o
        BY <4>2, <4>4, <4>6 DEF Dead
      <4>. QED  BY <3>2, <4>3, <4>6, <4>7 DEF Recovers, Probing, Preparing
    <3>. QED  BY <3>3, <3>4
  <2>3. InCall(th'[t]) => InCall(th[t])
    <3>. HIDE DEF o
    <3>1. CASE Obtain(t, o)
      BY <3>1 DEF InCall, Obtain, Statements, Idle
    <3>2. CASE th' = [th EXCEPT ![t].pc = "prepare"]
      BY <3>2 DEF InCall, Statements
    <3>. QED  BY <1>3, <3>1, <3>2, GetCases DEF o
  <2>. QED  BY <2>0, <2>1, <2>2, <2>3, OtherCalls
<1>4. ASSUME NEW t \in Threads, Prepare(t) PROVE CallInv'
  <2>1. /\ \A u \in Threads : u # t => th'[u] = th[u]
        /\ \A u \in Threads : u # t /\ ~disturbed'[u] => ~disturbed[u] \/ ~InCall(th[u])
    BY <1>4 DEF Prepare
  <2>2. ASSUME InCall(th'[t]), ~disturbed'[t] PROVE Recovers(th[t])'
    <3>1. InCall(th[t]) /\ ~disturbed[t]
      BY <1>4, <2>2 DEF Prepare, InCall, Statements
    <3>2. Recovers(th[t])
      BY <3>1 DEF CallInv
    <3>3. th'[t].q = th[t].q /\ th'[t].first = th[t].first /\ th'[t].slot = th[t].slot
      BY <1>4, <2>2 DEF Prepare, Statements, InCall
    <3>4. /\ Unread(th[t]) => Unread(th'[t])
          /\ Probing(th[t]) => Probing(th'[t])
          /\ th'[t].retried /\ th'[t].pc = "send" => th[t].retried /\ th[t].pc = "send"
      BY <1>4, <2>2 DEF Prepare, Statements, Unread, Probing, Preparing, InCall
    <3>. QED  BY <2>2, <3>1, <3>2, <3>3, <3>4, CallContinues
  <2>. QED  BY <2>1, <2>2, OtherCalls
<1>5. ASSUME NEW t \in Threads, PrepareFails(t) PROVE CallInv'
  <2>1. /\ \A u \in Threads : u # t => th'[u] = th[u]
        /\ \A u \in Threads : u # t /\ ~disturbed'[u] => ~disturbed[u] \/ ~InCall(th[u])
    BY <1>5 DEF PrepareFails
  <2>2. ASSUME InCall(th'[t]), ~disturbed'[t] PROVE Recovers(th[t])'
    <3>1. InCall(th[t]) /\ ~disturbed[t]
      BY <1>5, <2>2 DEF PrepareFails, InCall, Statements, Idle
    <3>2. Recovers(th[t])
      BY <3>1 DEF CallInv
    <3>3. th'[t].q = th[t].q /\ th'[t].first = th[t].first /\ th'[t].slot = th[t].slot
      BY <1>5, <2>2 DEF PrepareFails, Statements, InCall, Idle
    <3>4. /\ Unread(th[t]) => Unread(th'[t])
          /\ Probing(th[t]) => Probing(th'[t])
          /\ th'[t].retried /\ th'[t].pc = "send" => th[t].retried /\ th[t].pc = "send"
      BY <1>5, <2>2 DEF PrepareFails, Statements, Unread, Probing, Preparing, InCall, Idle
    <3>. QED  BY <2>2, <3>1, <3>2, <3>3, <3>4, CallContinues
  <2>. QED  BY <2>1, <2>2, OtherCalls
<1>6. ASSUME NEW t \in Threads, Wrap(t) PROVE CallInv'
  <2>1. /\ \A u \in Threads : u # t => th'[u] = th[u]
        /\ \A u \in Threads : u # t /\ ~disturbed'[u] => ~disturbed[u] \/ ~InCall(th[u])
    BY <1>6 DEF Wrap, history
  <2>2. ASSUME InCall(th'[t]), ~disturbed'[t] PROVE Recovers(th[t])'
    <3>1. InCall(th[t]) /\ ~disturbed[t]
      BY <1>6, <2>2 DEF Wrap, InCall, Statements, history
    <3>2. Recovers(th[t])
      BY <3>1 DEF CallInv
    <3>3. th'[t].q = th[t].q /\ th'[t].first = th[t].first /\ th'[t].slot = th[t].slot
      BY <1>6, <2>2 DEF Wrap, Statements, InCall, history
    <3>4. /\ Unread(th[t]) => Unread(th'[t])
          /\ Probing(th[t]) => Probing(th'[t])
          /\ th'[t].retried /\ th'[t].pc = "send" => th[t].retried /\ th[t].pc = "send"
      BY <1>6, <2>2 DEF Wrap, Statements, Unread, Probing, Preparing, InCall, history
    <3>. QED  BY <2>2, <3>1, <3>2, <3>3, <3>4, CallContinues
  <2>. QED  BY <2>1, <2>2, OtherCalls
<1>7. ASSUME NEW t \in Threads, Insert(t) PROVE CallInv'
  <2>. DEFINE q == th[t].q
              e == IF Lru!Holds(cache, q) THEN Lru!Verdict(cache, q) ELSE th[t].cand
  <2>0. /\ th[t].pc = "insert" /\ disturbed' = disturbed /\ Table(cache) /\ Obtain(t, e)
        /\ None \notin InCache(cache) /\ th[t].cand # None
    BY <1>7, PlansAssumption DEF Insert, Orderly, RangeInv, CacheType, StatementType, None,
       CarriedInv, Carries
  <2>1. \A u \in Threads : u # t => th'[u] = th[u]
    BY <2>0 DEF Obtain
  <2>2. ASSUME InCall(th'[t]), ~disturbed'[t], InCall(th[t])
        PROVE  Recovers(th[t])'
    <3>1. Recovers(th[t]) /\ disturbed' # Calls
      BY <2>0, <2>2, ZenonT(30) DEF CallInv, Calls, InCall
    <3>2. /\ \A x \in live : x \in Leases(cache', th') => x \in live'
          /\ AllAlive'
          /\ \A p \in Dead' : p \in Dead
      BY <3>1, Undisturbed DEF Recovers
    <3>3. \A p \in Dead : p.q # q
      BY <2>0, <3>1 DEF Recovers, Unread, Probing, Preparing
    <3>4. e \in live /\ e # None
      <4>1. CASE Lru!Holds(cache, q)
        <5>1. Lru!Pair(q, e) \in Pairs(cache) /\ e \in InCache(cache)
          BY <2>0, <4>1, VerdictStored, VerdictCached
        <5>. QED  BY <2>0, <3>3, <5>1 DEF Dead, Lru!Pair
      <4>2. CASE ~Lru!Holds(cache, q)
        BY <2>0, <3>1, <4>2 DEF Recovers, AllAlive, Carries
      <4>. QED  BY <4>1, <4>2
    <3>. HIDE DEF e
    <3>5. th'[t].q = q /\ th'[t].pc = "send" /\ th'[t].first = e
      BY <2>0, <2>2 DEF Obtain, InCall, Statements, Idle
    <3>6. e \in Leases(cache', th')
      BY <3>4, <3>5, LeaseMembers DEF LeasesOf
    <3>. QED  BY <3>2, <3>3, <3>4, <3>5, <3>6 DEF Recovers
  <2>. HIDE DEF e
  <2>3. InCall(th'[t]) => InCall(th[t])
    BY <2>0 DEF InCall, Obtain, Statements, Idle
  <2>. QED  BY <2>0, <2>1, <2>2, <2>3, OtherCalls
<1>8. ASSUME NEW t \in Threads, Call(t) PROVE CallInv'
  <2>1. /\ \A u \in Threads : u # t => th'[u] = th[u]
        /\ \A u \in Threads : u # t /\ ~disturbed'[u] => ~disturbed[u] \/ ~InCall(th[u])
    BY <1>8 DEF Call
  <2>2. ASSUME InCall(th'[t]), ~disturbed'[t] PROVE Recovers(th[t])'
    <3>1. live' = live /\ th'[t].pc = "get" /\ ~th'[t].retried
      BY <1>8 DEF Call, server, Statements
    <3>2. ~StaleCandidate
      BY <1>8, <2>2 DEF Call, Orderly, RangeInv, ConnectionType
    <3>3. AllAlive'
      BY <2>1, <3>1, <3>2 DEF StaleCandidate, AllAlive, Carries
    <3>. QED  BY <3>1, <3>3 DEF Recovers, Unread
  <2>. QED  BY <2>1, <2>2, OtherCalls
<1>9. ASSUME NEW t \in Threads, Send(t) PROVE CallInv'
  <2>0. th[t].pc = "send" /\ disturbed' = disturbed /\ th[t] \in Statements
    BY <1>9, SendCases, Zenon
  <2>1. /\ \A u \in Threads : u # t => th'[u] = th[u]
        /\ th'[t].q = th[t].q /\ th'[t].first = th[t].first /\ th'[t].slot = th[t].slot
        /\ th'[t].why = th[t].why /\ th'[t].retried = th[t].retried
        /\ th'[t].pc \in {"rows", "done", "evict"}
    <3>1. CASE th' = [th EXCEPT ![t].pc = "rows"] \/ th' = [th EXCEPT ![t].pc = "evict"]
      BY <2>0, <3>1 DEF Statements
    <3>2. CASE th' = [th EXCEPT ![t].pc = "done", ![t].result = "ok"]
      BY <2>0, <3>2 DEF Statements
    <3>3. CASE th' = [th EXCEPT ![t].pc = "done", ![t].result = "missing"]
      BY <2>0, <3>3 DEF Statements
    <3>. QED  BY <1>9, <3>1, <3>2, <3>3, SendCases
  <2>2. ASSUME InCall(th'[t]), ~disturbed'[t] PROVE Recovers(th[t])'
    <3>1. InCall(th[t]) /\ ~disturbed[t]
      BY <2>0, <2>1, <2>2 DEF InCall
    <3>2. Recovers(th[t])
      BY <3>1 DEF CallInv
    <3>3. /\ ~Unread(th[t])
          /\ Probing(th[t]) => Probing(th'[t])
          /\ th'[t].pc # "send"
      BY <2>0, <2>1 DEF Unread, Probing, Preparing
    <3>. QED  BY <2>1, <2>2, <3>1, <3>2, <3>3, CallContinues
  <2>. QED  BY <2>0, <2>1, <2>2, OtherCalls
<1>10. ASSUME NEW t \in Threads, Evict(t) PROVE CallInv'
  <2>1. /\ \A u \in Threads : u # t => th'[u] = th[u]
        /\ \A u \in Threads : u # t /\ ~disturbed'[u] => ~disturbed[u] \/ ~InCall(th[u])
    BY <1>10 DEF Evict
  <2>2. ASSUME InCall(th'[t]), ~disturbed'[t] PROVE Recovers(th[t])'
    <3>1. /\ th[t].pc = "evict" /\ disturbed' = disturbed /\ cache' = Evicted(th[t])
          /\ th'[t].q = th[t].q /\ th'[t].pc = "get" /\ th'[t].retried
      BY <1>10 DEF Evict, Statements
    <3>2. InCall(th[t]) /\ ~disturbed[t]
      BY <2>2, <3>1 DEF StatementInv, Consistent, InCall
    <3>3. Recovers(th[t]) /\ disturbed' # Calls
      BY <2>2, <3>2, Zenon DEF CallInv, Calls, InCall
    <3>4. AllAlive' /\ \A e \in Dead' : e \in Dead
      BY <3>3, Undisturbed DEF Recovers
    <3>5. \A e \in Pairs(cache') : e.q = th[t].q => e.outcome # th[t].first
      BY <3>1, EvictedTable DEF Orderly, RangeInv, CacheType
    <3>6. \A e \in Dead' : e.q # th[t].q
      <4>. SUFFICES ASSUME NEW e \in Dead', e.q = th[t].q PROVE FALSE
        OBVIOUS
      <4>1. e.outcome = th[t].first
        BY <3>1, <3>3, <3>4 DEF Recovers, Unread
      <4>2. e \in Pairs(cache')
        BY DEF Dead
      <4>. QED  BY <3>5, <4>1, <4>2
    <3>. QED  BY <3>1, <3>4, <3>6 DEF Recovers
  <2>. QED  BY <2>1, <2>2, OtherCalls
<1>11. ASSUME NEW t \in Threads, SendRows(t) PROVE CallInv'
  <2>1. /\ \A u \in Threads : u # t => th'[u] = th[u]
        /\ \A u \in Threads : u # t /\ ~disturbed'[u] => ~disturbed[u] \/ ~InCall(th[u])
    BY <1>11 DEF SendRows
  <2>2. ASSUME InCall(th'[t]), ~disturbed'[t] PROVE Recovers(th[t])'
    <3>1. InCall(th[t]) /\ ~disturbed[t]
      BY <1>11, <2>2 DEF SendRows, InCall, Statements
    <3>2. Recovers(th[t])
      BY <3>1 DEF CallInv
    <3>3. th'[t].q = th[t].q /\ th'[t].first = th[t].first /\ th'[t].slot = th[t].slot
      BY <1>11, <2>2 DEF SendRows, Statements, InCall
    <3>4. /\ Unread(th[t]) => Unread(th'[t])
          /\ Probing(th[t]) => Probing(th'[t])
          /\ th'[t].retried /\ th'[t].pc = "send" => th[t].retried /\ th[t].pc = "send"
      BY <1>11, <2>2 DEF SendRows, Statements, Unread, Probing, Preparing, InCall
    <3>. QED  BY <2>2, <3>1, <3>2, <3>3, <3>4, CallContinues
  <2>. QED  BY <2>1, <2>2, OtherCalls
<1>12. ASSUME NEW t \in Threads, Return(t) PROVE CallInv'
  <2>1. /\ \A u \in Threads : u # t => th'[u] = th[u]
        /\ \A u \in Threads : u # t /\ ~disturbed'[u] => ~disturbed[u] \/ ~InCall(th[u])
    BY <1>12 DEF Return
  <2>2. ~InCall(th'[t])
    BY <1>12 DEF Return, InCall, Idle, Statements
  <2>. QED  BY <2>1, <2>2, OtherCalls
<1>13. ASSUME NEW t \in Threads, BeginDdl(t) PROVE CallInv'
  <2>1. /\ \A u \in Threads : u # t => th'[u] = th[u]
        /\ \A u \in Threads : u # t /\ ~disturbed'[u] => ~disturbed[u] \/ ~InCall(th[u])
    BY <1>13 DEF BeginDdl, history
  <2>2. ~InCall(th'[t])
    BY <1>13 DEF BeginDdl, InCall, Idle, Statements
  <2>. QED  BY <2>1, <2>2, OtherCalls
<1>14. ASSUME NEW t \in Threads, Bump(t) PROVE CallInv'
  <2>1. /\ \A u \in Threads : u # t => th'[u] = th[u]
        /\ \A u \in Threads : u # t /\ ~disturbed'[u] => ~disturbed[u] \/ ~InCall(th[u])
    BY <1>14 DEF Bump, history
  <2>2. ~InCall(th'[t])
    BY <1>14 DEF Bump, InCall, Idle, Statements, StatementInv, Consistent
  <2>. QED  BY <2>1, <2>2, OtherCalls
<1>15. ASSUME NEW t \in Threads, Clear(t) PROVE CallInv'
  <2>1. /\ \A u \in Threads : u # t => th'[u] = th[u]
        /\ \A u \in Threads : u # t /\ ~disturbed'[u] => ~disturbed[u] \/ ~InCall(th[u])
    BY <1>15 DEF Clear
  <2>2. ~InCall(th'[t])
    BY <1>15 DEF Clear, InCall, Idle, Statements, StatementInv, Consistent
  <2>. QED  BY <2>1, <2>2, OtherCalls
<1>16. ASSUME NEW t \in Threads, Ddl(t) PROVE CallInv'
  <2>1. /\ \A u \in Threads : u # t => th'[u] = th[u]
        /\ \A u \in Threads : u # t /\ ~disturbed'[u] => ~disturbed[u] \/ ~InCall(th[u])
    BY <1>16, Zenon DEF Ddl, Calls, InCall
  <2>2. ~InCall(th'[t])
    BY <1>16 DEF Ddl, InCall, Idle, Statements
  <2>. QED  BY <2>1, <2>2, OtherCalls
<1>17. ASSUME NEW t \in Threads, DdlFails(t) PROVE CallInv'
  <2>1. /\ \A u \in Threads : u # t => th'[u] = th[u]
        /\ \A u \in Threads : u # t /\ ~disturbed'[u] => ~disturbed[u] \/ ~InCall(th[u])
    BY <1>17 DEF DdlFails
  <2>2. ~InCall(th'[t])
    BY <1>17 DEF DdlFails, InCall, Idle, Statements, StatementInv, Consistent
  <2>. QED  BY <2>1, <2>2, OtherCalls
<1>18. CASE ServerDiscards
  <2>1. th' = th /\ disturbed' = Calls
    BY <1>18 DEF ServerDiscards
  <2>. QED  BY <2>1, Zenon DEF CallInv, Calls, InCall
<1>. QED  BY <1>1, <1>2, <1>3, <1>4, <1>5, <1>6, <1>7, <1>8, <1>9, <1>10, <1>11, <1>12, <1>13,
             <1>14, <1>15, <1>16, <1>17, <1>18 DEF Next

\* The call ended with a missing handle after one row.
Failed(r) == r.pc = "done" /\ r.result = "missing" /\ ~r.batch

\* The results of the threads that do not step stay explained.
LEMMA OtherResults ==
  ASSUME Orderly, StatementInv, RetryRecovers, NEW t \in Threads,
         \A u \in Threads : u # t => th'[u] = th[u],
         \A u \in Threads : u # t /\ ~disturbed'[u] => ~disturbed[u] \/ ~InCall(th[u]),
         explicit' = explicit,
         Failed(th'[t]) /\ ~explicit => disturbed'[t]
  PROVE  RetryRecovers'
<1>. SUFFICES ASSUME NEW u \in Threads, Failed(th'[u]), ~explicit PROVE disturbed'[u]
  BY DEF RetryRecovers, Failed
<1>1. CASE u # t
  <2>1. th[u].pc = "done" /\ disturbed[u] /\ InCall(th[u])
    BY <1>1 DEF RetryRecovers, Failed, StatementInv, Consistent, InCall
  <2>. QED  BY <1>1, <2>1 DEF Orderly, RangeInv, ConnectionType
<1>2. CASE u = t
  BY <1>2
<1>. QED  BY <1>1, <1>2

\* Every step keeps each missing handle of a one-row call explained.
LEMMA RetryRecoversStep ==
  ASSUME Orderly, StatementInv, CallInv, RetryRecovers, Next
  PROVE  RetryRecovers'
<1>0. th \in [Threads -> Statements] /\ ids \in Nat /\ ids \in 0..MaxIds
  BY DEF Orderly, RangeInv, StatementType
<1>. USE <1>0
<1>1. ASSUME NEW t \in Threads, \E q \in Shapes : Declare(t, q) PROVE RetryRecovers'
  <2>1. PICK q \in Shapes : Declare(t, q)
    BY <1>1
  <2>2. th' = [th EXCEPT ![t] = [Idle EXCEPT !.pc = "get", !.why = "declare", !.q = q]]
    BY <2>1 DEF Declare
  <2>3. explicit' = explicit /\ disturbed' = disturbed
    BY <2>1 DEF Declare, server, history
  <2>4. ~Failed(th'[t])
    BY <2>2 DEF Failed, Idle
  <2>. QED  BY <2>2, <2>3, <2>4, OtherResults
<1>2. ASSUME NEW t \in Threads, ClearPrepared(t) PROVE RetryRecovers'
  <2>1. /\ \A u \in Threads : u # t => th'[u] = th[u]
        /\ \A u \in Threads : u # t /\ ~disturbed'[u] => ~disturbed[u] \/ ~InCall(th[u])
        /\ explicit' = explicit
    BY <1>2 DEF ClearPrepared, server
  <2>2. ~Failed(th'[t])
    BY <1>2 DEF ClearPrepared, Failed, Idle, Statements
  <2>. QED  BY <2>1, <2>2, OtherResults, Zenon
<1>3. ASSUME NEW t \in Threads, Get(t) PROVE RetryRecovers'
  <2>. DEFINE o == Lru!Verdict(cache, th[t].q)
  <2>1. disturbed' = disturbed /\ explicit' = explicit
    BY <1>3, GetCases
  <2>. HIDE DEF o
  <2>2. (\A u \in Threads : u # t => th'[u] = th[u]) /\ ~Failed(th'[t])
    <3>1. CASE Obtain(t, o)
      BY <3>1 DEF Obtain, Failed, Statements, Idle
    <3>2. CASE th' = [th EXCEPT ![t].pc = "prepare"]
      BY <3>2 DEF Failed, Statements
    <3>. QED  BY <1>3, <3>1, <3>2, GetCases DEF o
  <2>. QED  BY <2>1, <2>2, OtherResults
<1>4. ASSUME NEW t \in Threads, Prepare(t) PROVE RetryRecovers'
  <2>1. /\ \A u \in Threads : u # t => th'[u] = th[u]
        /\ \A u \in Threads : u # t /\ ~disturbed'[u] => ~disturbed[u] \/ ~InCall(th[u])
        /\ explicit' = explicit
    BY <1>4 DEF Prepare, server
  <2>2. ~Failed(th'[t])
    BY <1>4 DEF Prepare, Failed, Idle, Statements
  <2>. QED  BY <2>1, <2>2, OtherResults
<1>5. ASSUME NEW t \in Threads, PrepareFails(t) PROVE RetryRecovers'
  <2>1. /\ \A u \in Threads : u # t => th'[u] = th[u]
        /\ \A u \in Threads : u # t /\ ~disturbed'[u] => ~disturbed[u] \/ ~InCall(th[u])
        /\ explicit' = explicit
    BY <1>5 DEF PrepareFails, server
  <2>2. ~Failed(th'[t])
    BY <1>5 DEF PrepareFails, Failed, Idle, Statements
  <2>. QED  BY <2>1, <2>2, OtherResults
<1>6. ASSUME NEW t \in Threads, Wrap(t) PROVE RetryRecovers'
  <2>1. /\ \A u \in Threads : u # t => th'[u] = th[u]
        /\ \A u \in Threads : u # t /\ ~disturbed'[u] => ~disturbed[u] \/ ~InCall(th[u])
        /\ explicit' = explicit
    BY <1>6 DEF Wrap, server, history
  <2>2. ~Failed(th'[t])
    BY <1>6 DEF Wrap, Failed, Idle, Statements
  <2>. QED  BY <2>1, <2>2, OtherResults
<1>7. ASSUME NEW t \in Threads, Insert(t) PROVE RetryRecovers'
  <2>1. /\ \A u \in Threads : u # t => th'[u] = th[u]
        /\ \A u \in Threads : u # t /\ ~disturbed'[u] => ~disturbed[u] \/ ~InCall(th[u])
        /\ explicit' = explicit
    BY <1>7 DEF Insert, server, Obtain
  <2>2. ~Failed(th'[t])
    BY <1>7 DEF Insert, Failed, Idle, Statements, Obtain
  <2>. QED  BY <2>1, <2>2, OtherResults
<1>8. ASSUME NEW t \in Threads, Call(t) PROVE RetryRecovers'
  <2>1. /\ \A u \in Threads : u # t => th'[u] = th[u]
        /\ \A u \in Threads : u # t /\ ~disturbed'[u] => ~disturbed[u] \/ ~InCall(th[u])
        /\ explicit' = explicit
    BY <1>8 DEF Call, server
  <2>2. ~Failed(th'[t])
    BY <1>8 DEF Call, Failed, Idle, Statements
  <2>. QED  BY <2>1, <2>2, OtherResults
<1>9. ASSUME NEW t \in Threads, Send(t) PROVE RetryRecovers'
  <2>0. /\ th[t].pc = "send" /\ disturbed' = disturbed /\ explicit' = explicit
        /\ LockConnection /\ th[t] \in Statements
    BY <1>9, SendCases, Zenon
  <2>1. CASE \/ th' = [th EXCEPT ![t].pc = "rows"] \/ th' = [th EXCEPT ![t].pc = "evict"]
             \/ th' = [th EXCEPT ![t].pc = "done", ![t].result = "ok"]
    <3>1. (\A u \in Threads : u # t => th'[u] = th[u]) /\ ~Failed(th'[t])
      <4>1. CASE th' = [th EXCEPT ![t].pc = "rows"] \/ th' = [th EXCEPT ![t].pc = "evict"]
        BY <2>0, <4>1 DEF Failed, Statements
      <4>2. CASE th' = [th EXCEPT ![t].pc = "done", ![t].result = "ok"]
        BY <2>0, <4>2 DEF Failed, Statements
      <4>. QED  BY <2>1, <4>1, <4>2
    <3>. QED  BY <2>0, <3>1, OtherResults
  <2>2. CASE /\ ~CanRetry(th[t]) /\ th[t].first \notin live'
             /\ th' = [th EXCEPT ![t].pc = "done", ![t].result = "missing"]
    <3>1. (\A u \in Threads : u # t => th'[u] = th[u]) /\ th'[t].batch = th[t].batch
      BY <2>0, <2>2 DEF Statements
    <3>2. ASSUME ~th[t].batch, ~explicit PROVE disturbed[t]
      <4>. SUFFICES ASSUME ~disturbed[t] PROVE FALSE
        BY DEF Orderly, RangeInv, ConnectionType
      <4>1. th[t].retried /\ InCall(th[t])
        BY <2>0, <2>2, <3>2 DEF CanRetry, Statements, StatementInv, Consistent, InCall
      <4>2. th[t].first \in live
        BY <2>0, <4>1 DEF CallInv, Recovers
      <4>3. th[t].first \in Leases(cache, th)
        <5>1. th[t].first # None
          BY <4>2 DEF Orderly, TypeOK, None
        <5>2. th[t].first \in LeasesOf(th[t])
          BY DEF LeasesOf
        <5>. QED  BY <5>1, <5>2, LeaseMembers
      <4>4. th[t].first \notin pending
        BY <4>3 DEF Orderly, LeasedHandlesStay
      <4>. QED  BY <2>0, <2>2, <4>2, <4>4 DEF LockConnection
    <3>. QED  BY <2>0, <3>1, <3>2, OtherResults DEF Failed
  <2>. QED  BY <1>9, <2>1, <2>2, SendCases
<1>10. ASSUME NEW t \in Threads, Evict(t) PROVE RetryRecovers'
  <2>1. /\ \A u \in Threads : u # t => th'[u] = th[u]
        /\ \A u \in Threads : u # t /\ ~disturbed'[u] => ~disturbed[u] \/ ~InCall(th[u])
        /\ explicit' = explicit
    BY <1>10 DEF Evict, server
  <2>2. ~Failed(th'[t])
    BY <1>10 DEF Evict, Failed, Idle, Statements
  <2>. QED  BY <2>1, <2>2, OtherResults
<1>11. ASSUME NEW t \in Threads, SendRows(t) PROVE RetryRecovers'
  <2>1. /\ \A u \in Threads : u # t => th'[u] = th[u]
        /\ \A u \in Threads : u # t /\ ~disturbed'[u] => ~disturbed[u] \/ ~InCall(th[u])
        /\ explicit' = explicit
    BY <1>11 DEF SendRows, server
  <2>2. ~Failed(th'[t])
    BY <1>11 DEF SendRows, Failed, Idle, Statements, StatementInv, Consistent
  <2>. QED  BY <2>1, <2>2, OtherResults
<1>12. ASSUME NEW t \in Threads, Return(t) PROVE RetryRecovers'
  <2>1. /\ \A u \in Threads : u # t => th'[u] = th[u]
        /\ \A u \in Threads : u # t /\ ~disturbed'[u] => ~disturbed[u] \/ ~InCall(th[u])
        /\ explicit' = explicit
    BY <1>12 DEF Return, server
  <2>2. ~Failed(th'[t])
    BY <1>12 DEF Return, Failed, Idle, Statements
  <2>. QED  BY <2>1, <2>2, OtherResults
<1>13. ASSUME NEW t \in Threads, BeginDdl(t) PROVE RetryRecovers'
  <2>1. /\ \A u \in Threads : u # t => th'[u] = th[u]
        /\ \A u \in Threads : u # t /\ ~disturbed'[u] => ~disturbed[u] \/ ~InCall(th[u])
        /\ explicit' = explicit
    BY <1>13 DEF BeginDdl, server, history
  <2>2. ~Failed(th'[t])
    BY <1>13 DEF BeginDdl, Failed, Idle, Statements
  <2>. QED  BY <2>1, <2>2, OtherResults
<1>14. ASSUME NEW t \in Threads, Bump(t) PROVE RetryRecovers'
  <2>1. /\ \A u \in Threads : u # t => th'[u] = th[u]
        /\ \A u \in Threads : u # t /\ ~disturbed'[u] => ~disturbed[u] \/ ~InCall(th[u])
        /\ explicit' = explicit
    BY <1>14 DEF Bump, server, history
  <2>2. ~Failed(th'[t])
    BY <1>14 DEF Bump, Failed, Idle, Statements
  <2>. QED  BY <2>1, <2>2, OtherResults
<1>15. ASSUME NEW t \in Threads, Clear(t) PROVE RetryRecovers'
  <2>1. /\ \A u \in Threads : u # t => th'[u] = th[u]
        /\ \A u \in Threads : u # t /\ ~disturbed'[u] => ~disturbed[u] \/ ~InCall(th[u])
        /\ explicit' = explicit
    BY <1>15 DEF Clear, server
  <2>2. ~Failed(th'[t])
    BY <1>15 DEF Clear, Failed, Idle, Statements
  <2>. QED  BY <2>1, <2>2, OtherResults
<1>16. ASSUME NEW t \in Threads, Ddl(t) PROVE RetryRecovers'
  <2>1. /\ \A u \in Threads : u # t => th'[u] = th[u]
        /\ \A u \in Threads : u # t /\ ~disturbed'[u] => ~disturbed[u] \/ ~InCall(th[u])
        /\ explicit' = explicit
    BY <1>16, Zenon DEF Ddl, server, Calls, InCall
  <2>2. ~Failed(th'[t])
    BY <1>16 DEF Ddl, Failed, Idle, Statements
  <2>. QED  BY <2>1, <2>2, OtherResults
<1>17. ASSUME NEW t \in Threads, DdlFails(t) PROVE RetryRecovers'
  <2>1. /\ \A u \in Threads : u # t => th'[u] = th[u]
        /\ \A u \in Threads : u # t /\ ~disturbed'[u] => ~disturbed[u] \/ ~InCall(th[u])
        /\ explicit' = explicit
    BY <1>17 DEF DdlFails, server
  <2>2. ~Failed(th'[t])
    BY <1>17 DEF DdlFails, Failed, Idle, Statements
  <2>. QED  BY <2>1, <2>2, OtherResults
<1>18. CASE ServerDiscards
  <2>1. th' = th /\ disturbed' = Calls /\ explicit' = explicit
    BY <1>18 DEF ServerDiscards
  <2>. QED  BY <2>1, Zenon DEF RetryRecovers, Calls, StatementInv, Consistent
<1>. QED  BY <1>1, <1>2, <1>3, <1>4, <1>5, <1>6, <1>7, <1>8, <1>9, <1>10, <1>11, <1>12, <1>13,
             <1>14, <1>15, <1>16, <1>17, <1>18 DEF Next

\* A new connection has no handle, no lease and no call.
LEMMA InitPlans == Init => IInv
<1>. SUFFICES ASSUME Init PROVE IInv
  OBVIOUS
<1>1. /\ live = {} /\ ids = 0 /\ explicit \in BOOLEAN /\ lock = Free /\ generation = 0
      /\ pending = {} /\ cache = <<>> /\ gen = [i \in Ids |-> 0] /\ released = {}
      /\ th = [t \in Threads |-> Idle] /\ disturbed = [t \in Threads |-> FALSE]
  BY DEF Init
<1>2. MaxIds \in Nat /\ Capacity \in Nat
  BY PlansAssumption
<1>3. Table(cache) /\ Len(cache) <= Capacity /\ InCache(cache) = {} /\ Pairs(cache) = {}
  BY <1>1, <1>2 DEF Table, InCache, Pairs
<1>4. Idle \in Statements
  BY <1>1, StatementFields, ZenonT(30) DEF Idle
<1>5. RangeInv
  BY <1>1, <1>2, <1>3, <1>4 DEF RangeInv, ConnectionType, StatementType, CacheType
<1>6. TypeOK
  BY <1>1, <1>3, <1>4 DEF TypeOK
<1>7. StatementInv
  BY <1>1 DEF StatementInv, Consistent, Idle, Preparing
<1>8. CarriedInv /\ CallInv /\ RetryRecovers
  BY <1>1 DEF CarriedInv, Carries, CallInv, InCall, RetryRecovers, Idle
<1>9. LeasedHandlesStay /\ OrphansAreOld
  BY <1>1 DEF LeasedHandlesStay, OrphansAreOld
<1>. QED  BY <1>5, <1>6, <1>7, <1>8, <1>9 DEF IInv

\* Every step keeps the invariants together.
LEMMA NextPlans == IInv /\ [Next]_vars => IInv'
<1>. SUFFICES ASSUME IInv, [Next]_vars PROVE IInv'
  OBVIOUS
<1>. USE DEF IInv
<1>1. CASE Next
  <2>1. /\ StatementInv' /\ Passes /\ Settles /\ GenerationsKept /\ PairsKept
        /\ StatementType' /\ ids <= ids' /\ ConnectionType' /\ CacheType'
    BY <1>1, StatementInvStep, PassesStep, SettlesStep, GenerationsStep, PairsStep,
       StatementTypes, ConnectionTypes, CacheTypes
  <2>2. RangeInv'
    BY <2>1 DEF RangeInv
  <2>3. TypeOK' /\ LeasedHandlesStay' /\ CarriedInv' /\ OrphansAreOld'
    BY <2>1, <2>2, TypeOKStep, LeasedStep, CarriedStep, OrphansStep
  <2>4. Orderly
    BY <2>1, <2>2 DEF Orderly
  <2>5. CallInv' /\ RetryRecovers'
    BY <1>1, <2>4, CallInvStep, RetryRecoversStep
  <2>. QED  BY <2>1, <2>2, <2>3, <2>5
<1>2. CASE UNCHANGED vars
  <2>1. UNCHANGED <<live, ids, explicit, lock, generation, pending, cache, gen, th, released,
        disturbed>>
    BY <1>2 DEF vars, server, history
  <2>2. TypeOK' /\ StatementType' /\ StatementInv' /\ RetryRecovers'
    BY <2>1 DEF TypeOK, RangeInv, StatementType, Statements, InCache, StatementInv, RetryRecovers
  <2>3. ConnectionType' /\ CacheType'
    BY <2>1 DEF RangeInv, ConnectionType, CacheType, Table, InCache
  <2>4. Leases(cache, th)' = Leases(cache, th) /\ InFlight' = InFlight
    BY <2>1 DEF Leases, InCache, InFlight
  <2>5. LeasedHandlesStay' /\ CarriedInv' /\ OrphansAreOld'
    BY <2>1, <2>4 DEF LeasedHandlesStay, CarriedInv, OrphansAreOld
  <2>6. AllAlive' = AllAlive /\ Dead' = Dead
    BY <2>1 DEF AllAlive, Dead, Pairs
  <2>7. CallInv'
    BY <2>1, <2>6 DEF CallInv, Recovers
  <2>. QED  BY <2>2, <2>3, <2>5, <2>7 DEF RangeInv
<1>. QED  BY <1>1, <1>2

\* The inductive invariant of the prepared plans holds in every reachable state:
\* types, phases, leases, handles on their way into the cache, generations and
\* calls on the way to a live handle need each other.
THEOREM PlansInvariance == Spec => []IInv
<1>1. Init => IInv
  BY InitPlans
<1>2. IInv /\ [Next]_vars => IInv'
  BY NextPlans
<1>. QED  BY <1>1, <1>2, PTL DEF Spec

\* No handle is used that the server never gave out, and the cache stays within
\* prepared_cache_capacity, whatever callers, drops and schema changes do.
THEOREM PlansTypeCorrect == Spec => []TypeOK
<1>1. IInv => TypeOK
  BY DEF IInv
<1>. QED  BY <1>1, PlansInvariance, PTL

\* Drop for PreparedEntry never deallocates, now or deferred, a handle that the
\* cache, a statement or a rendered row still refers to.
THEOREM LeasedNeverDeallocated == Spec => []LeasedHandlesStay
<1>1. IInv => LeasedHandlesStay
  BY DEF IInv
<1>. QED  BY <1>1, PlansInvariance, PTL

\* A live handle without an owner was given up by a generation change: eviction,
\* lost insertion races and busy connections always lead to a deallocation.
THEOREM OrphansAlwaysOld == Spec => []OrphansAreOld
<1>1. IInv => OrphansAreOld
  BY DEF IInv
<1>. QED  BY <1>1, PlansInvariance, PTL

\* In autocommit mode the one retry of a one-row execution recovers from every
\* handle lost before the call, however many callers evict and insert at once.
THEOREM RetryAlwaysRecovers == Spec => []RetryRecovers
<1>1. IInv => RetryRecovers
  BY DEF IInv
<1>. QED  BY <1>1, PlansInvariance, PTL

=============================================================================
