------------------------ MODULE IngestPipelineProofs ------------------------
(***************************************************************************)
(* Proofs about IngestPipeline, for any number of concurrent ingests, any  *)
(* memory limit and any budgets: the counter of reserved memory is the sum *)
(* of the reservations alive and never overcommits the limit, every window *)
(* in memory is covered by a reservation, and an ingest that reports       *)
(* success has copied its whole source.                                    *)
(***************************************************************************)
EXTENDS IngestPipeline, FiniteSetTheorems, WellFoundedInduction, TLAPS

Calls   == {"admit", "swap", "spawn", "receive", "upload", "join", "done"}
Threads == {"none", "build", "offer", "leave", "exited", "panicked"}
Results == {"none", "rejected", "failed", "ok"}
Windows == [kind : {"none", "rows", "end", "error"}, rows : Nat]
Views   == [current : Nat, reserved : Nat]
Streams == [rows : Nat, total : Nat, stuck : BOOLEAN, timed : BOOLEAN]

\* The values the variables range over, whatever the bounds.
RangeInv ==
    /\ limit \in Nat /\ reserved \in Nat /\ held \in [Ingests -> Nat]
    /\ call \in [Ingests -> Calls] /\ budget \in [Ingests -> Nat]
    /\ result \in [Ingests -> Results] /\ seen \in [Ingests -> Views]
    /\ upload \in [Ingests -> Windows] /\ copied \in [Ingests -> Nat]
    /\ thread \in [Ingests -> Threads] /\ source \in [Ingests -> Streams]
    /\ window \in [Ingests -> Windows] /\ receiver \in [Ingests -> BOOLEAN]

\* A call reserves once, on top of usage that includes the base: what it adds
\* to the counter is what its thread will give back.
AccountInv ==
    /\ reserved = Held
    /\ Held > 0 => Base + Held <= MaxUsize /\ Base + Held <= Allowed
    /\ \A i \in Ingests :
         /\ call[i] \in {"admit", "swap"} => held[i] = 0
         /\ call[i] = "swap" => seen[i].current >= Base

\* Where the thread of an ingest is, given where its call is; it holds the
\* reservation from the spawn until it leaves.
Covered(i) ==
    /\ limit # NoLimit /\ (call[i] = "spawn" \/ thread[i] \in {"build", "offer", "leave"})
       => held[i] = Bytes(i)
    /\ upload[i] # Nothing => call[i] = "upload"
    /\ call[i] \in {"admit", "swap", "spawn"} => thread[i] = "none"
    /\ call[i] \in {"receive", "upload"}
       => receiver[i] /\ thread[i] \in {"build", "offer", "panicked"}

CoverInv == \A i \in Ingests : Covered(i)

Rows(i) == copied[i] + upload[i].rows + window[i].rows + source[i].rows

\* No row is lost or made up between the source and the server: each one is
\* still in the source, in the window on offer, in the upload, or copied.
Conserved(i) ==
    /\ call[i] \notin {"join", "done"} => Rows(i) = source[i].total
    /\ call[i] = "join" => copied[i] = source[i].total
    /\ call[i] # "done" => result[i] = "none"
    /\ result[i] = "ok" => copied[i] = source[i].total
    /\ window[i].kind = "end" => source[i].rows = 0 /\ window[i].rows = 0
    /\ thread[i] # "offer" => window[i] = Nothing

RowsInv == \A i \in Ingests : Conserved(i)

IInv == RangeInv /\ AccountInv /\ CoverInv /\ RowsInv

-----------------------------------------------------------------------------
(* What Held computes.  The library defines the sum by recursion over the   *)
(* subsets of Ingests; each fact about it follows from a smallest set that  *)
(* would contradict it.                                                     *)

Pick(s) == CHOOSE x \in s : TRUE

\* One step of the sum of f over s, given the sums g over smaller sets.
Unfold(f, g, s) == IF s = {} THEN 0 ELSE f[Pick(s)] + g[s \ {Pick(s)}]

Sums(f) == CHOOSE g : g = [s \in SUBSET Ingests |-> Unfold(f, g, s)]

\* The memory all reservations hold together, as the sum of held, now and
\* after a step.
LEMMA HeldIsSum == Held = Sums(held)[Ingests] /\ Held' = Sums(held')[Ingests]
<1>1. Held = Sums(held)[Ingests]
  BY DEF Held, MapThenSumSet, MapThenFoldSet, Sums, Unfold, Pick
<1>2. Held' = Sums(held')[Ingests]
  BY DEF Held, MapThenSumSet, MapThenFoldSet, Sums, Unfold, Pick
<1>. QED  BY <1>1, <1>2

\* A set of numbers that is not empty has a least one.
LEMMA LeastNumber ==
    ASSUME NEW B \in SUBSET Nat, B # {}
    PROVE  \E n \in B : \A m \in B : n <= m
<1>1. PICK n \in B : \A m \in B : ~ (<<m, n>> \in OpToRel(<, Nat))
  BY WFMin, NatLessThanWellFounded
<1>2. ASSUME NEW m \in B  PROVE n <= m
  <2>. DEFINE p == <<m, n>>
  <2>1. p \in Nat \X Nat /\ p[1] = m /\ p[2] = n
    OBVIOUS
  <2>2. ~ (p[1] < p[2])
    <3>. HIDE DEF p
    <3>. QED  BY <1>1, <2>1, Zenon DEF OpToRel, p
  <2>. QED  BY <2>1, <2>2
<1>. QED  BY <1>2

\* A set of sets of ingests that is not empty has one that leaves it with the
\* removal of any element.
LEMMA SmallestSet ==
    ASSUME NEW B \in SUBSET SUBSET Ingests, B # {}
    PROVE  \E s \in B : \A x \in s : s \ {x} \notin B
<1>1. \A s \in B : IsFiniteSet(s) /\ Cardinality(s) \in Nat
  BY IngestAssumption, FS_Subset, FS_CardinalityType
<1>. DEFINE C == { Cardinality(s) : s \in B }
<1>2. C \in SUBSET Nat /\ C # {}
  BY <1>1
<1>3. PICK n \in C : \A m \in C : n <= m
  BY <1>2, LeastNumber, Zenon
<1>4. PICK s \in B : Cardinality(s) = n
  OBVIOUS
<1>5. ASSUME NEW x \in s, s \ {x} \in B  PROVE FALSE
  <2>1. Cardinality(s \ {x}) = n - 1
    BY <1>1, <1>4, FS_RemoveElement, Zenon
  <2>2. n <= n - 1
    BY <1>3, <1>5, <2>1
  <2>. QED  BY <1>1, <1>4, <2>2
<1>. QED  BY <1>5

\* There are sums that unfold over the sets of at most n ingests.
LEMMA SumsUpTo ==
    ASSUME NEW f \in [Ingests -> Nat], NEW n \in Nat
    PROVE  \E g \in [SUBSET Ingests -> Int] :
             \A s \in SUBSET Ingests : Cardinality(s) <= n => g[s] = Unfold(f, g, s)
<1>. DEFINE Good(g, k) == \A s \in SUBSET Ingests : Cardinality(s) <= k => g[s] = Unfold(f, g, s)
            B == { k \in Nat : ~ \E g \in [SUBSET Ingests -> Int] : Good(g, k) }
<1>. SUFFICES ASSUME B # {}  PROVE FALSE
  BY Zenon
<1>1. PICK k \in B : \A m \in B : k <= m
  BY LeastNumber, Zenon
<1>2. \A s \in SUBSET Ingests : Cardinality(s) \in Nat /\ (Cardinality(s) = 0 <=> s = {})
  BY IngestAssumption, FS_Subset, FS_CardinalityType, FS_EmptySet
<1>3. k # 0
  <2>. DEFINE z == [s \in SUBSET Ingests |-> 0]
  <2>1. z \in [SUBSET Ingests -> Int]
    OBVIOUS
  <2>2. Good(z, 0)
    BY <1>2 DEF Unfold
  <2>. QED  BY <2>1, <2>2, <1>1, Zenon
<1>4. PICK g \in [SUBSET Ingests -> Int] : Good(g, k - 1)
  <2>1. k \in Nat
    OBVIOUS
  <2>. HIDE DEF B
  <2>2. k - 1 \in Nat /\ k - 1 \notin B
    BY <1>1, <1>3, <2>1
  <2>. QED  BY <2>2, Zenon DEF B
<1>. DEFINE h == [s \in SUBSET Ingests |-> IF s = {} THEN 0 ELSE Unfold(f, g, s)]
<1>5. \A s \in SUBSET Ingests : s # {} => Pick(s) \in s /\ s \ {Pick(s)} \in SUBSET Ingests
  BY DEF Pick
<1>6. h \in [SUBSET Ingests -> Int]
  BY <1>5 DEF Unfold
<1>7. Good(h, k)
  <2>. SUFFICES ASSUME NEW s \in SUBSET Ingests, Cardinality(s) <= k, s # {}
                PROVE  h[s] = Unfold(f, h, s)
    BY Zenon DEF Unfold
  <2>. DEFINE r == s \ {Pick(s)}
  <2>1. r \in SUBSET Ingests /\ Cardinality(r) = Cardinality(s) - 1
    BY <1>5, IngestAssumption, FS_Subset, FS_RemoveElement, Zenon
  <2>2. g[r] = Unfold(f, g, r)
    BY <1>1, <1>2, <1>4, <2>1
  <2>3. h[r] = g[r]
    BY <2>1, <2>2 DEF Unfold
  <2>. QED  BY <2>3 DEF Unfold
<1>. QED  BY <1>1, <1>6, <1>7, Zenon

\* The sum of f over any set of ingests unfolds.
LEMMA SumsUnfold ==
    ASSUME NEW f \in [Ingests -> Nat]
    PROVE  \A s \in SUBSET Ingests : Sums(f)[s] = Unfold(f, Sums(f), s)
<1>1. Cardinality(Ingests) \in Nat
  BY IngestAssumption, FS_CardinalityType
<1>2. PICK g \in [SUBSET Ingests -> Int] :
          \A s \in SUBSET Ingests : Cardinality(s) <= Cardinality(Ingests) => g[s] = Unfold(f, g, s)
  BY <1>1, SumsUpTo, Zenon
<1>3. \A s \in SUBSET Ingests : Cardinality(s) <= Cardinality(Ingests)
  BY IngestAssumption, FS_Subset
<1>4. g = [s \in SUBSET Ingests |-> Unfold(f, g, s)]
  BY <1>2, <1>3
<1>5. Sums(f) = [s \in SUBSET Ingests |-> Unfold(f, Sums(f), s)]
  BY <1>4 DEF Sums
<1>. DEFINE t == Sums(f)
<1>. HIDE DEF t
<1>6. t = [s \in SUBSET Ingests |-> Unfold(f, t, s)]
  BY <1>5 DEF t
<1>7. \A s \in SUBSET Ingests : t[s] = Unfold(f, t, s)
  BY <1>6
<1>. QED  BY <1>7 DEF t

\* The sum over no ingest is zero; any other is what one of the ingests adds
\* to the sum over the rest.
LEMMA SumsStep ==
    ASSUME NEW f \in [Ingests -> Nat], NEW s \in SUBSET Ingests
    PROVE  /\ s = {} => Sums(f)[s] = 0
           /\ s # {} => /\ Pick(s) \in s
                        /\ s \ {Pick(s)} \in SUBSET Ingests
                        /\ Sums(f)[s] = f[Pick(s)] + Sums(f)[s \ {Pick(s)}]
BY SumsUnfold, Zenon DEF Unfold, Pick

\* A sum of reservations is a natural number.
LEMMA SumsType ==
    ASSUME NEW f \in [Ingests -> Nat]
    PROVE  \A s \in SUBSET Ingests : Sums(f)[s] \in Nat
<1>. DEFINE B == { s \in SUBSET Ingests : Sums(f)[s] \notin Nat }
<1>. SUFFICES ASSUME B # {}  PROVE FALSE
  OBVIOUS
<1>1. PICK s \in B : \A x \in s : s \ {x} \notin B
  BY SmallestSet, Zenon
<1>2. CASE s = {}
  BY <1>2, SumsStep
<1>3. CASE s # {}
  <2>. DEFINE r == s \ {Pick(s)}
  <2>1. Pick(s) \in s /\ r \in SUBSET Ingests /\ Sums(f)[s] = f[Pick(s)] + Sums(f)[r]
    BY <1>3, SumsStep
  <2>2. Sums(f)[r] \in Nat /\ f[Pick(s)] \in Nat
    BY <1>1, <2>1
  <2>. QED  BY <2>1, <2>2
<1>. QED  BY <1>2, <1>3

\* Nothing reserved sums to nothing.
LEMMA SumsZero ==
    \A s \in SUBSET Ingests : Sums([i \in Ingests |-> 0])[s] = 0
<1>. DEFINE z == [i \in Ingests |-> 0]
            B == { s \in SUBSET Ingests : Sums(z)[s] # 0 }
<1>. SUFFICES ASSUME B # {}  PROVE FALSE
  OBVIOUS
<1>1. PICK s \in B : \A x \in s : s \ {x} \notin B
  BY SmallestSet, Zenon
<1>2. z \in [Ingests -> Nat] /\ \A i \in Ingests : z[i] = 0
  OBVIOUS
<1>. HIDE DEF z
<1>3. CASE s = {}
  BY <1>2, <1>3, SumsStep, Zenon
<1>4. CASE s # {}
  <2>. DEFINE r == s \ {Pick(s)}
  <2>1. Pick(s) \in s /\ r \in SUBSET Ingests /\ Sums(z)[s] = z[Pick(s)] + Sums(z)[r]
    BY <1>2, <1>4, SumsStep, Zenon
  <2>2. Sums(z)[r] = 0 /\ z[Pick(s)] = 0
    BY <1>1, <1>2, <2>1
  <2>. QED  BY <2>1, <2>2
<1>. QED  BY <1>3, <1>4

\* Changing one reservation changes the sum by the difference.
LEMMA SumsExcept ==
    ASSUME NEW f \in [Ingests -> Nat], NEW h \in [Ingests -> Nat], NEW i \in Ingests,
           \A j \in Ingests \ {i} : h[j] = f[j]
    PROVE  \A s \in SUBSET Ingests :
             Sums(h)[s] = IF i \in s THEN Sums(f)[s] - f[i] + h[i] ELSE Sums(f)[s]
<1>. DEFINE Moved(s) == IF i \in s THEN Sums(f)[s] - f[i] + h[i] ELSE Sums(f)[s]
            B == { s \in SUBSET Ingests : Sums(h)[s] # Moved(s) }
<1>. SUFFICES ASSUME B # {}  PROVE FALSE
  OBVIOUS
<1>1. PICK s \in B : \A x \in s : s \ {x} \notin B
  BY SmallestSet, Zenon
<1>2. s # {}
  BY SumsStep, Zenon
<1>. DEFINE x == Pick(s)
            r == s \ {x}
<1>3. x \in s /\ r \in SUBSET Ingests
      /\ Sums(f)[s] = f[x] + Sums(f)[r] /\ Sums(h)[s] = h[x] + Sums(h)[r]
  BY <1>2, SumsStep, Zenon
<1>4. Sums(h)[r] = Moved(r)
  BY <1>1, <1>3
<1>5. Sums(f)[r] \in Nat /\ Sums(h)[r] \in Nat /\ f[x] \in Nat /\ h[x] \in Nat
      /\ f[i] \in Nat /\ h[i] \in Nat
  BY <1>3, SumsType
<1>6. Sums(h)[s] = Moved(s)
  <2>1. CASE x = i
    BY <2>1, <1>3, <1>4, <1>5
  <2>2. CASE x # i
    BY <2>2, <1>3, <1>4, <1>5
  <2>. QED  BY <2>1, <2>2
<1>. QED  BY <1>6

\* What the ingests hold together is a natural number that bounds what each
\* of them holds.
LEMMA HeldBounds ==
    ASSUME held \in [Ingests -> Nat]
    PROVE  Held \in Nat /\ \A i \in Ingests : held[i] <= Held
<1>1. Held = Sums(held)[Ingests] /\ Held \in Nat
  BY HeldIsSum, SumsType
<1>2. ASSUME NEW i \in Ingests  PROVE held[i] <= Held
  <2>. DEFINE h == [held EXCEPT ![i] = 0]
  <2>1. h \in [Ingests -> Nat] /\ h[i] = 0 /\ \A j \in Ingests \ {i} : h[j] = held[j]
    OBVIOUS
  <2>. HIDE DEF h
  <2>2. Sums(h)[Ingests] = Sums(held)[Ingests] - held[i] + 0 /\ Sums(h)[Ingests] \in Nat
    BY <2>1, SumsExcept, SumsType
  <2>. QED  BY <1>1, <2>2
<1>. QED  BY <1>1, <1>2

\* A step that changes what one ingest holds changes the sum by as much.
LEMMA HeldMoves ==
    ASSUME held \in [Ingests -> Nat], held' \in [Ingests -> Nat], NEW i \in Ingests,
           \A j \in Ingests \ {i} : held'[j] = held[j]
    PROVE  Held' = Held - held[i] + held'[i]
BY HeldIsSum, SumsExcept

\* A step that changes no reservation keeps the sum.
LEMMA HeldKept ==
    ASSUME held' = held
    PROVE  Held' = Held
BY HeldIsSum

\* A remainder by the word size leaves a word alone.
LEMMA WordKept ==
    ASSUME NEW m \in Nat, NEW n \in Nat, n <= m
    PROVE  n % (m + 1) = n
OBVIOUS

\* Reservation sizes are natural numbers.
LEMMA BytesType ==
    ASSUME NEW i \in Ingests, budget[i] \in Nat
    PROVE  Bytes(i) \in Nat
<1>1. \A n \in Nat : Saturate(n) \in Nat
  BY IngestAssumption DEF Saturate
<1>2. {Overhead, Headroom} \subseteq Nat
  BY IngestAssumption
<1>. QED  BY <1>1, <1>2 DEF Bytes, ingest_memory_reservation_bytes

\* Giving a reservation back never wraps the counter around: it takes off
\* what was added for this ingest.
LEMMA ReleaseAccounts ==
    ASSUME RangeInv, AccountInv, NEW i \in Ingests, Releases(i)
    PROVE  /\ limit' = limit /\ held' = [held EXCEPT ![i] = 0]
           /\ reserved' = reserved - held[i] /\ reserved' \in Nat
           /\ Held' = Held - held[i] /\ reserved' = Held'
<1>1. limit' = limit /\ held' = [held EXCEPT ![i] = 0]
      /\ reserved' = (reserved - held[i]) % (MaxUsize + 1)
  BY DEF Releases
<1>2. Held \in Nat /\ held[i] \in Nat /\ held[i] <= Held /\ reserved = Held
  BY HeldBounds DEF RangeInv, AccountInv
<1>3. reserved <= MaxUsize
  BY <1>2, IngestAssumption DEF AccountInv
<1>4. reserved' = reserved - held[i]
  <2>. DEFINE n == reserved - held[i]
  <2>1. n \in Nat /\ n <= MaxUsize /\ MaxUsize \in Nat
    BY <1>2, <1>3, IngestAssumption
  <2>2. reserved' = n % (MaxUsize + 1)
    BY <1>1
  <2>. HIDE DEF n
  <2>3. reserved' = n
    BY <2>1, <2>2, WordKept
  <2>. QED  BY <2>3 DEF n
<1>5. Held' = Held - held[i] + 0
  <2>1. held' \in [Ingests -> Nat] /\ held'[i] = 0 /\ \A j \in Ingests \ {i} : held'[j] = held[j]
    BY <1>1 DEF RangeInv
  <2>. QED  BY <2>1, HeldMoves DEF RangeInv
<1>. QED  BY <1>1, <1>2, <1>4, <1>5

\* AccountInv for a step that leaves the reservations and the limit alone.
LEMMA AccountKept ==
    ASSUME RangeInv, AccountInv, reserved' = reserved, held' = held, limit' = limit,
           \A i \in Ingests :
             /\ call'[i] \in {"admit", "swap"} => call[i] \in {"admit", "swap"}
             /\ call'[i] = "swap" => seen'[i].current >= Base
    PROVE  AccountInv'
BY HeldKept DEF AccountInv, Allowed

\* AccountInv for a step that gives a reservation back.
LEMMA AccountReleased ==
    ASSUME RangeInv, AccountInv, NEW i \in Ingests, Releases(i), seen' = seen,
           \A j \in Ingests : call'[j] \in {"admit", "swap"} => call'[j] = call[j]
    PROVE  AccountInv'
<1>1. limit' = limit /\ held' = [held EXCEPT ![i] = 0]
      /\ Held' = Held - held[i] /\ reserved' = Held'
  BY ReleaseAccounts
<1>2. Held \in Nat /\ held[i] \in Nat /\ Base \in Nat /\ Allowed' = Allowed
  BY <1>1, HeldBounds, IngestAssumption DEF RangeInv, Allowed
<1>3. Held' > 0 => Base + Held' <= MaxUsize /\ Base + Held' <= Allowed'
  <2>1. Allowed \in Int /\ MaxUsize \in Int
    BY IngestAssumption DEF Allowed, RangeInv
  <2>. QED  BY <1>1, <1>2, <2>1 DEF AccountInv
<1>4. ASSUME NEW j \in Ingests
      PROVE  /\ call'[j] \in {"admit", "swap"} => held'[j] = 0
             /\ call'[j] = "swap" => seen'[j].current >= Base
  BY <1>1 DEF AccountInv, RangeInv
<1>. QED  BY <1>1, <1>3, <1>4 DEF AccountInv

\* Without a limit a call goes on without a reservation.
LEMMA UnlimitedStep ==
    ASSUME IInv, NEW i \in Ingests, Unlimited(i)
    PROVE  IInv'
<1>. USE DEF memory, calls, threads, Unlimited
<1>0. RangeInv /\ AccountInv /\ CoverInv /\ RowsInv
  BY DEF IInv
<1>1. RangeInv'
  BY <1>0 DEF RangeInv, Calls
<1>2. AccountInv'
  BY <1>0, AccountKept DEF AccountInv
<1>3. CoverInv'
  <2>. SUFFICES ASSUME NEW j \in Ingests  PROVE Covered(j)'
    BY DEF CoverInv
  <2>1. Covered(j) /\ Conserved(j)
    BY <1>0 DEF CoverInv, RowsInv
  <2>. QED  BY <2>1 DEF Covered
<1>4. RowsInv'
  <2>. SUFFICES ASSUME NEW j \in Ingests  PROVE Conserved(j)'
    BY DEF RowsInv
  <2>1. Covered(j) /\ Conserved(j)
    BY <1>0 DEF CoverInv, RowsInv
  <2>. QED  BY <2>1 DEF Conserved, Rows
<1>. QED  BY <1>1, <1>2, <1>3, <1>4 DEF IInv

\* A call that reads the usage holds nothing yet.
LEMMA ReadsUsageStep ==
    ASSUME IInv, NEW i \in Ingests, ReadsUsage(i)
    PROVE  IInv'
<1>. USE DEF memory, calls, threads, ReadsUsage
<1>0. RangeInv /\ AccountInv /\ CoverInv /\ RowsInv
  BY DEF IInv
<1>r. PICK resident \in {0, Held}, b \in Budgets :
          /\ seen' = [seen EXCEPT ![i] = [current |-> Base + resident, reserved |-> reserved]]
          /\ budget' = [budget EXCEPT ![i] = b]
  BY Zenon
<1>u. Base + resident \in Nat /\ Base + resident >= Base /\ b \in Nat
  BY <1>0, HeldBounds, IngestAssumption DEF RangeInv
<1>1. RangeInv'
  <2>1. seen' \in [Ingests -> Views]
    BY <1>0, <1>r, <1>u DEF RangeInv, Views
  <2>. QED  BY <1>0, <1>r, <1>u, <2>1 DEF RangeInv, Calls
<1>2. AccountInv'
  <2>1. ASSUME NEW j \in Ingests
        PROVE  /\ call'[j] \in {"admit", "swap"} => call[j] \in {"admit", "swap"}
               /\ call'[j] = "swap" => seen'[j].current >= Base
    BY <1>0, <1>r, <1>u DEF AccountInv, RangeInv
  <2>. QED  BY <1>0, <2>1, AccountKept
<1>3. CoverInv'
  <2>. SUFFICES ASSUME NEW j \in Ingests  PROVE Covered(j)'
    BY DEF CoverInv
  <2>1. Covered(j) /\ Conserved(j)
    BY <1>0 DEF CoverInv, RowsInv
  <2>. QED  BY <2>1 DEF Covered, Bytes
<1>4. RowsInv'
  <2>. SUFFICES ASSUME NEW j \in Ingests  PROVE Conserved(j)'
    BY DEF RowsInv
  <2>1. Covered(j) /\ Conserved(j)
    BY <1>0 DEF CoverInv, RowsInv
  <2>. QED  BY <2>1 DEF Conserved, Rows
<1>. QED  BY <1>1, <1>2, <1>3, <1>4 DEF IInv

\* A call that does not fit ends without a reservation.
LEMMA RejectedStep ==
    ASSUME IInv, NEW i \in Ingests, Rejected(i)
    PROVE  IInv'
<1>. USE DEF memory, calls, threads, Rejected, Ends
<1>0. RangeInv /\ AccountInv /\ CoverInv /\ RowsInv
  BY DEF IInv
<1>1. RangeInv'
  BY <1>0 DEF RangeInv, Calls, Results, Views, Unread
<1>2. AccountInv'
  BY <1>0, AccountKept DEF AccountInv, RangeInv
<1>3. CoverInv'
  <2>. SUFFICES ASSUME NEW j \in Ingests  PROVE Covered(j)'
    BY DEF CoverInv
  <2>1. Covered(j) /\ Conserved(j)
    BY <1>0 DEF CoverInv, RowsInv
  <2>. QED  BY <2>1 DEF Covered, Bytes
<1>4. RowsInv'
  <2>. SUFFICES ASSUME NEW j \in Ingests  PROVE Conserved(j)'
    BY DEF RowsInv
  <2>1. Covered(j) /\ Conserved(j)
    BY <1>0 DEF CoverInv, RowsInv
  <2>. QED  BY <1>0, <2>1 DEF Conserved, Rows, RangeInv
<1>. QED  BY <1>1, <1>2, <1>3, <1>4 DEF IInv

\* The exchange succeeds on the counter the check was made with, so the
\* reservation that is added fits beside all others.
LEMMA SwapSucceedsStep ==
    ASSUME IInv, NEW i \in Ingests, SwapSucceeds(i)
    PROVE  IInv'
<1>. USE DEF memory, calls, threads, SwapSucceeds
<1>0. RangeInv /\ AccountInv /\ CoverInv /\ RowsInv
  BY DEF IInv
<1>r. Bytes(i) \in Nat
  BY <1>0, BytesType DEF RangeInv
<1>1. RangeInv'
  BY <1>0, <1>r DEF RangeInv, Calls, Views, Unread
<1>2. AccountInv'
  <2>1. Held \in Nat /\ held[i] = 0 /\ reserved = Held /\ Base \in Nat /\ MaxUsize \in Nat
    BY <1>0, IngestAssumption DEF RangeInv, AccountInv
  <2>2. reserved' = Held + Bytes(i) /\ held' = [held EXCEPT ![i] = Bytes(i)] /\ Allowed' = Allowed
    BY <2>1 DEF Swapped, Allowed
  <2>3. held' \in [Ingests -> Nat] /\ held'[i] = Bytes(i)
        /\ \A j \in Ingests \ {i} : held'[j] = held[j]
    BY <1>0, <1>r DEF RangeInv
  <2>4. Held' = Held + Bytes(i)
    <3>1. Held' = Held - held[i] + held'[i]
      BY <1>0, <2>3, HeldMoves DEF RangeInv
    <3>. QED  BY <2>1, <2>3, <3>1
  <2>5. Base + Held' <= MaxUsize /\ Base + Held' <= Allowed
    <3>1. Allowed \in Int
      BY <1>0 DEF RangeInv, Allowed
    <3>2. seen[i].current \in Nat /\ seen[i].current >= Base /\ seen[i].reserved = Held
      BY <1>0 DEF RangeInv, AccountInv, Views, Swapped
    <3>3. seen[i].current + Held + Bytes(i) <= MaxUsize
          /\ seen[i].current + Held + Bytes(i) <= Allowed
      BY <3>2 DEF Fits, ingest_memory_reservation_fits
    <3>. QED  BY <1>r, <2>1, <2>4, <3>1, <3>2, <3>3
  <2>6. ASSUME NEW j \in Ingests
        PROVE  /\ call'[j] \in {"admit", "swap"} => held'[j] = 0
               /\ call'[j] = "swap" => seen'[j].current >= Base
    BY <1>0 DEF AccountInv, RangeInv
  <2>. QED  BY <2>2, <2>4, <2>5, <2>6 DEF AccountInv
<1>3. CoverInv'
  <2>. SUFFICES ASSUME NEW j \in Ingests  PROVE Covered(j)'
    BY DEF CoverInv
  <2>1. Covered(j) /\ Conserved(j)
    BY <1>0 DEF CoverInv, RowsInv
  <2>. QED  BY <1>0, <2>1 DEF Covered, RangeInv, Bytes
<1>4. RowsInv'
  <2>. SUFFICES ASSUME NEW j \in Ingests  PROVE Conserved(j)'
    BY DEF RowsInv
  <2>1. Covered(j) /\ Conserved(j)
    BY <1>0 DEF CoverInv, RowsInv
  <2>. QED  BY <2>1 DEF Conserved, Rows
<1>. QED  BY <1>1, <1>2, <1>3, <1>4 DEF IInv

\* A failed exchange changes nothing but what the call has read.
LEMMA SwapFailsStep ==
    ASSUME IInv, NEW i \in Ingests, SwapFails(i)
    PROVE  IInv'
<1>. USE DEF memory, calls, threads, SwapFails
<1>0. RangeInv /\ AccountInv /\ CoverInv /\ RowsInv
  BY DEF IInv
<1>1. RangeInv'
  BY <1>0 DEF RangeInv, Views
<1>2. AccountInv'
  BY <1>0, AccountKept DEF AccountInv
<1>3. CoverInv'
  <2>. SUFFICES ASSUME NEW j \in Ingests  PROVE Covered(j)'
    BY DEF CoverInv
  <2>1. Covered(j) /\ Conserved(j)
    BY <1>0 DEF CoverInv, RowsInv
  <2>. QED  BY <2>1 DEF Covered, Bytes
<1>4. RowsInv'
  <2>. SUFFICES ASSUME NEW j \in Ingests  PROVE Conserved(j)'
    BY DEF RowsInv
  <2>1. Covered(j) /\ Conserved(j)
    BY <1>0 DEF CoverInv, RowsInv
  <2>. QED  BY <2>1 DEF Conserved, Rows
<1>. QED  BY <1>1, <1>2, <1>3, <1>4 DEF IInv

\* The thread takes over the reservation as it is.
LEMMA SpawnsStep ==
    ASSUME IInv, NEW i \in Ingests, Spawns(i)
    PROVE  IInv'
<1>. USE DEF memory, calls, threads, Spawns
<1>0. RangeInv /\ AccountInv /\ CoverInv /\ RowsInv
  BY DEF IInv
<1>1. RangeInv'
  BY <1>0 DEF RangeInv, Calls, Threads
<1>2. AccountInv'
  BY <1>0, AccountKept DEF AccountInv
<1>3. CoverInv'
  <2>. SUFFICES ASSUME NEW j \in Ingests  PROVE Covered(j)'
    BY DEF CoverInv
  <2>1. Covered(j) /\ Conserved(j)
    BY <1>0 DEF CoverInv, RowsInv
  <2>. QED  BY <1>0, <2>1 DEF Covered, RangeInv, Bytes
<1>4. RowsInv'
  <2>. SUFFICES ASSUME NEW j \in Ingests  PROVE Conserved(j)'
    BY DEF RowsInv
  <2>1. Covered(j) /\ Conserved(j)
    BY <1>0 DEF CoverInv, RowsInv
  <2>. QED  BY <2>1 DEF Covered, Conserved, Rows
<1>. QED  BY <1>1, <1>2, <1>3, <1>4 DEF IInv

\* A thread that cannot start gives the reservation back.
LEMMA SpawnFailsStep ==
    ASSUME IInv, NEW i \in Ingests, SpawnFails(i)
    PROVE  IInv'
<1>. USE DEF memory, calls, threads, SpawnFails, Ends
<1>0. RangeInv /\ AccountInv /\ CoverInv /\ RowsInv
  BY DEF IInv
<1>r. limit' = limit /\ held' = [held EXCEPT ![i] = 0] /\ reserved' \in Nat
  BY <1>0, ReleaseAccounts
<1>1. RangeInv'
  BY <1>0, <1>r DEF RangeInv, Calls, Results
<1>2. AccountInv'
  BY <1>0, AccountReleased
<1>3. CoverInv'
  <2>. SUFFICES ASSUME NEW j \in Ingests  PROVE Covered(j)'
    BY DEF CoverInv
  <2>1. Covered(j) /\ Conserved(j)
    BY <1>0 DEF CoverInv, RowsInv
  <2>. QED  BY <1>r, <1>0, <2>1 DEF Covered, RangeInv, Bytes
<1>4. RowsInv'
  <2>. SUFFICES ASSUME NEW j \in Ingests  PROVE Conserved(j)'
    BY DEF RowsInv
  <2>1. Covered(j) /\ Conserved(j)
    BY <1>0 DEF CoverInv, RowsInv
  <2>. QED  BY <1>0, <2>1 DEF Conserved, Rows, RangeInv
<1>. QED  BY <1>1, <1>2, <1>3, <1>4 DEF IInv

\* The thread moves rows from the source into the window it offers.
LEMMA BuildsStep ==
    ASSUME IInv, NEW i \in Ingests, Builds(i)
    PROVE  IInv'
<1>. USE DEF memory, calls, threads, Builds, Consumes
<1>0. RangeInv /\ AccountInv /\ CoverInv /\ RowsInv
  BY DEF IInv
<1>1. RangeInv'
  <2>1. window' \in [Ingests -> Windows] /\ source' \in [Ingests -> Streams]
    <3>1. CASE \E n \in 1..source[i].rows :
                 /\ window' = [window EXCEPT ![i] = [kind |-> "rows", rows |-> n]]
                 /\ Consumes(i, n)
      <4>1. PICK n \in 1..source[i].rows :
                /\ window' = [window EXCEPT ![i] = [kind |-> "rows", rows |-> n]]
                /\ source' = [source EXCEPT ![i].rows = @ - n]
        BY <3>1, Zenon
      <4>2. /\ source[i] \in Streams /\ source[i].rows \in Nat /\ n \in Nat
            /\ source[i].rows - n \in Nat
        BY <1>0 DEF RangeInv, Streams
      <4>3. [source[i] EXCEPT !.rows = @ - n] \in Streams
        BY <4>2 DEF Streams
      <4>4. source' \in [Ingests -> Streams]
        BY <1>0, <4>1, <4>3 DEF RangeInv
      <4>5. window' \in [Ingests -> Windows]
        BY <1>0, <4>2 DEF RangeInv, Windows
      <4>. QED  BY <4>4, <4>5
    <3>2. CASE source' = source
      BY <1>0, <3>2 DEF RangeInv, Windows
    <3>. QED  BY <3>1, <3>2
  <2>. QED  BY <1>0, <2>1 DEF RangeInv, Threads
<1>2. AccountInv'
  BY <1>0, AccountKept DEF AccountInv
<1>3. CoverInv'
  <2>. SUFFICES ASSUME NEW j \in Ingests  PROVE Covered(j)'
    BY DEF CoverInv
  <2>1. Covered(j) /\ Conserved(j)
    BY <1>0 DEF CoverInv, RowsInv
  <2>. QED  BY <2>1 DEF Covered, Bytes
<1>4. RowsInv'
  <2>. SUFFICES ASSUME NEW j \in Ingests  PROVE Conserved(j)'
    BY DEF RowsInv
  <2>1. Covered(j) /\ Conserved(j)
    BY <1>0 DEF CoverInv, RowsInv
  <2>. QED  BY <1>0, <2>1 DEF Conserved, Rows, RangeInv, Windows, Streams, Nothing
<1>. QED  BY <1>1, <1>2, <1>3, <1>4 DEF IInv

\* A thread that panics gives the reservation back and offers nothing.
LEMMA PanicsStep ==
    ASSUME IInv, NEW i \in Ingests, Panics(i)
    PROVE  IInv'
<1>. USE DEF memory, calls, threads, Panics, ExitsAs
<1>0. RangeInv /\ AccountInv /\ CoverInv /\ RowsInv
  BY DEF IInv
<1>r. limit' = limit /\ held' = [held EXCEPT ![i] = 0] /\ reserved' \in Nat
  BY <1>0, ReleaseAccounts
<1>1. RangeInv'
  BY <1>0, <1>r DEF RangeInv, Threads
<1>2. AccountInv'
  BY <1>0, AccountReleased
<1>3. CoverInv'
  <2>. SUFFICES ASSUME NEW j \in Ingests  PROVE Covered(j)'
    BY DEF CoverInv
  <2>1. Covered(j) /\ Conserved(j)
    BY <1>0 DEF CoverInv, RowsInv
  <2>. QED  BY <1>r, <1>0, <2>1 DEF Covered, RangeInv, Bytes
<1>4. RowsInv'
  <2>. SUFFICES ASSUME NEW j \in Ingests  PROVE Conserved(j)'
    BY DEF RowsInv
  <2>1. Covered(j) /\ Conserved(j)
    BY <1>0 DEF CoverInv, RowsInv
  <2>. QED  BY <2>1 DEF Conserved, Rows
<1>. QED  BY <1>1, <1>2, <1>3, <1>4 DEF IInv

\* A thread whose offer fails has lost its call.
LEMMA OfferFailsStep ==
    ASSUME IInv, NEW i \in Ingests, OfferFails(i)
    PROVE  IInv'
<1>. USE DEF memory, calls, threads, OfferFails
<1>0. RangeInv /\ AccountInv /\ CoverInv /\ RowsInv
  BY DEF IInv
<1>1. RangeInv'
  BY <1>0 DEF RangeInv, Threads, Windows, Nothing
<1>2. AccountInv'
  BY <1>0, AccountKept DEF AccountInv
<1>3. CoverInv'
  <2>. SUFFICES ASSUME NEW j \in Ingests  PROVE Covered(j)'
    BY DEF CoverInv
  <2>1. Covered(j) /\ Conserved(j)
    BY <1>0 DEF CoverInv, RowsInv
  <2>. QED  BY <2>1 DEF Covered, Bytes
<1>4. RowsInv'
  <2>. SUFFICES ASSUME NEW j \in Ingests  PROVE Conserved(j)'
    BY DEF RowsInv
  <2>1. Covered(j) /\ Conserved(j)
    BY <1>0 DEF CoverInv, RowsInv
  <2>. QED  BY <1>0, <2>1 DEF Covered, Conserved, Rows, RangeInv, Calls, Nothing
<1>. QED  BY <1>1, <1>2, <1>3, <1>4 DEF IInv

\* A thread that returns gives the reservation back.
LEMMA LeavesStep ==
    ASSUME IInv, NEW i \in Ingests, Leaves(i)
    PROVE  IInv'
<1>. USE DEF memory, calls, threads, Leaves, ExitsAs
<1>0. RangeInv /\ AccountInv /\ CoverInv /\ RowsInv
  BY DEF IInv
<1>r. limit' = limit /\ held' = [held EXCEPT ![i] = 0] /\ reserved' \in Nat
  BY <1>0, ReleaseAccounts
<1>1. RangeInv'
  BY <1>0, <1>r DEF RangeInv, Threads
<1>2. AccountInv'
  BY <1>0, AccountReleased
<1>3. CoverInv'
  <2>. SUFFICES ASSUME NEW j \in Ingests  PROVE Covered(j)'
    BY DEF CoverInv
  <2>1. Covered(j) /\ Conserved(j)
    BY <1>0 DEF CoverInv, RowsInv
  <2>. QED  BY <1>r, <1>0, <2>1 DEF Covered, RangeInv, Bytes
<1>4. RowsInv'
  <2>. SUFFICES ASSUME NEW j \in Ingests  PROVE Conserved(j)'
    BY DEF RowsInv
  <2>1. Covered(j) /\ Conserved(j)
    BY <1>0 DEF CoverInv, RowsInv
  <2>. QED  BY <2>1 DEF Conserved, Rows
<1>. QED  BY <1>1, <1>2, <1>3, <1>4 DEF IInv

\* The window on offer becomes the upload.
LEMMA ReceivesWindowStep ==
    ASSUME IInv, NEW i \in Ingests, ReceivesWindow(i)
    PROVE  IInv'
<1>. USE DEF memory, calls, threads, ReceivesWindow
<1>0. RangeInv /\ AccountInv /\ CoverInv /\ RowsInv
  BY DEF IInv
<1>1. RangeInv'
  BY <1>0 DEF RangeInv, Calls, Threads, Windows, Nothing
<1>2. AccountInv'
  BY <1>0, AccountKept DEF AccountInv
<1>3. CoverInv'
  <2>. SUFFICES ASSUME NEW j \in Ingests  PROVE Covered(j)'
    BY DEF CoverInv
  <2>1. Covered(j) /\ Conserved(j)
    BY <1>0 DEF CoverInv, RowsInv
  <2>. QED  BY <1>0, <2>1 DEF Covered, RangeInv, Bytes
<1>4. RowsInv'
  <2>. SUFFICES ASSUME NEW j \in Ingests  PROVE Conserved(j)'
    BY DEF RowsInv
  <2>1. Covered(j) /\ Conserved(j)
    BY <1>0 DEF CoverInv, RowsInv
  <2>. QED  BY <1>0, <2>1 DEF Covered, Conserved, Rows, RangeInv, Windows, Nothing
<1>. QED  BY <1>1, <1>2, <1>3, <1>4 DEF IInv

\* The end is received when nothing is left in the source or on offer.
LEMMA ReceivesEndStep ==
    ASSUME IInv, NEW i \in Ingests, ReceivesEnd(i)
    PROVE  IInv'
<1>. USE DEF memory, calls, threads, ReceivesEnd, EndOf
<1>0. RangeInv /\ AccountInv /\ CoverInv /\ RowsInv
  BY DEF IInv
<1>1. RangeInv'
  BY <1>0 DEF RangeInv, Calls, Threads, Windows, Nothing
<1>2. AccountInv'
  BY <1>0, AccountKept DEF AccountInv
<1>3. CoverInv'
  <2>. SUFFICES ASSUME NEW j \in Ingests  PROVE Covered(j)'
    BY DEF CoverInv
  <2>1. Covered(j) /\ Conserved(j)
    BY <1>0 DEF CoverInv, RowsInv
  <2>. QED  BY <1>0, <2>1 DEF Covered, RangeInv, Bytes
<1>4. RowsInv'
  <2>. SUFFICES ASSUME NEW j \in Ingests  PROVE Conserved(j)'
    BY DEF RowsInv
  <2>1. Covered(j) /\ Conserved(j)
    BY <1>0 DEF CoverInv, RowsInv
  <2>. QED  BY <1>0, <2>1 DEF Covered, Conserved, Rows, RangeInv, Nothing
<1>. QED  BY <1>1, <1>2, <1>3, <1>4 DEF IInv

\* A call that receives an error fails and detaches its thread.
LEMMA ReceivesErrorStep ==
    ASSUME IInv, NEW i \in Ingests, ReceivesError(i)
    PROVE  IInv'
<1>. USE DEF memory, calls, threads, ReceivesError, FailsAndDetaches, Ends
<1>0. RangeInv /\ AccountInv /\ CoverInv /\ RowsInv
  BY DEF IInv
<1>1. RangeInv'
  BY <1>0 DEF RangeInv, Calls, Threads, Results, Windows, Nothing
<1>2. AccountInv'
  BY <1>0, AccountKept DEF AccountInv
<1>3. CoverInv'
  <2>. SUFFICES ASSUME NEW j \in Ingests  PROVE Covered(j)'
    BY DEF CoverInv
  <2>1. Covered(j) /\ Conserved(j)
    BY <1>0 DEF CoverInv, RowsInv
  <2>. QED  BY <1>0, <2>1 DEF Covered, RangeInv, Bytes
<1>4. RowsInv'
  <2>. SUFFICES ASSUME NEW j \in Ingests  PROVE Conserved(j)'
    BY DEF RowsInv
  <2>1. Covered(j) /\ Conserved(j)
    BY <1>0 DEF CoverInv, RowsInv
  <2>. QED  BY <1>0, <2>1 DEF Conserved, Rows, RangeInv, Nothing
<1>. QED  BY <1>1, <1>2, <1>3, <1>4 DEF IInv

\* A call whose thread is gone fails.
LEMMA DisconnectedStep ==
    ASSUME IInv, NEW i \in Ingests, Disconnected(i)
    PROVE  IInv'
<1>. USE DEF memory, calls, threads, Disconnected, FailsAndDetaches, Ends
<1>0. RangeInv /\ AccountInv /\ CoverInv /\ RowsInv
  BY DEF IInv
<1>1. RangeInv'
  BY <1>0 DEF RangeInv, Calls, Results, Windows, Nothing
<1>2. AccountInv'
  BY <1>0, AccountKept DEF AccountInv
<1>3. CoverInv'
  <2>. SUFFICES ASSUME NEW j \in Ingests  PROVE Covered(j)'
    BY DEF CoverInv
  <2>1. Covered(j) /\ Conserved(j)
    BY <1>0 DEF CoverInv, RowsInv
  <2>. QED  BY <1>0, <2>1 DEF Covered, RangeInv, Bytes
<1>4. RowsInv'
  <2>. SUFFICES ASSUME NEW j \in Ingests  PROVE Conserved(j)'
    BY DEF RowsInv
  <2>1. Covered(j) /\ Conserved(j)
    BY <1>0 DEF CoverInv, RowsInv
  <2>. QED  BY <1>0, <2>1 DEF Conserved, Rows, RangeInv
<1>. QED  BY <1>1, <1>2, <1>3, <1>4 DEF IInv

\* A call that times out fails and leaves the thread its reservation.
LEMMA TimesOutStep ==
    ASSUME IInv, NEW i \in Ingests, TimesOut(i)
    PROVE  IInv'
<1>. USE DEF memory, calls, threads, TimesOut, FailsAndDetaches, Ends
<1>0. RangeInv /\ AccountInv /\ CoverInv /\ RowsInv
  BY DEF IInv
<1>1. RangeInv'
  BY <1>0 DEF RangeInv, Calls, Results, Windows, Nothing
<1>2. AccountInv'
  BY <1>0, AccountKept DEF AccountInv
<1>3. CoverInv'
  <2>. SUFFICES ASSUME NEW j \in Ingests  PROVE Covered(j)'
    BY DEF CoverInv
  <2>1. Covered(j) /\ Conserved(j)
    BY <1>0 DEF CoverInv, RowsInv
  <2>. QED  BY <1>0, <2>1 DEF Covered, RangeInv, Bytes
<1>4. RowsInv'
  <2>. SUFFICES ASSUME NEW j \in Ingests  PROVE Conserved(j)'
    BY DEF RowsInv
  <2>1. Covered(j) /\ Conserved(j)
    BY <1>0 DEF CoverInv, RowsInv
  <2>. QED  BY <1>0, <2>1 DEF Conserved, Rows, RangeInv
<1>. QED  BY <1>1, <1>2, <1>3, <1>4 DEF IInv

\* The rows uploaded are copied.
LEMMA UploadsStep ==
    ASSUME IInv, NEW i \in Ingests, Uploads(i)
    PROVE  IInv'
<1>. USE DEF memory, calls, threads, Uploads
<1>0. RangeInv /\ AccountInv /\ CoverInv /\ RowsInv
  BY DEF IInv
<1>1. RangeInv'
  BY <1>0 DEF RangeInv, Calls, Windows, Nothing
<1>2. AccountInv'
  BY <1>0, AccountKept DEF AccountInv
<1>3. CoverInv'
  <2>. SUFFICES ASSUME NEW j \in Ingests  PROVE Covered(j)'
    BY DEF CoverInv
  <2>1. Covered(j) /\ Conserved(j)
    BY <1>0 DEF CoverInv, RowsInv
  <2>. QED  BY <1>0, <2>1 DEF Covered, RangeInv, Bytes
<1>4. RowsInv'
  <2>. SUFFICES ASSUME NEW j \in Ingests  PROVE Conserved(j)'
    BY DEF RowsInv
  <2>1. Covered(j) /\ Conserved(j)
    BY <1>0 DEF CoverInv, RowsInv
  <2>. QED  BY <1>0, <2>1 DEF Conserved, Rows, RangeInv, Windows, Nothing
<1>. QED  BY <1>1, <1>2, <1>3, <1>4 DEF IInv

\* A call whose upload fails detaches its thread.
LEMMA UploadFailsStep ==
    ASSUME IInv, NEW i \in Ingests, UploadFails(i)
    PROVE  IInv'
<1>. USE DEF memory, calls, threads, UploadFails, FailsAndDetaches, Ends
<1>0. RangeInv /\ AccountInv /\ CoverInv /\ RowsInv
  BY DEF IInv
<1>1. RangeInv'
  BY <1>0 DEF RangeInv, Calls, Results, Windows, Nothing
<1>2. AccountInv'
  BY <1>0, AccountKept DEF AccountInv
<1>3. CoverInv'
  <2>. SUFFICES ASSUME NEW j \in Ingests  PROVE Covered(j)'
    BY DEF CoverInv
  <2>1. Covered(j) /\ Conserved(j)
    BY <1>0 DEF CoverInv, RowsInv
  <2>. QED  BY <1>0, <2>1 DEF Covered, RangeInv, Bytes
<1>4. RowsInv'
  <2>. SUFFICES ASSUME NEW j \in Ingests  PROVE Conserved(j)'
    BY DEF RowsInv
  <2>1. Covered(j) /\ Conserved(j)
    BY <1>0 DEF CoverInv, RowsInv
  <2>. QED  BY <1>0, <2>1 DEF Conserved, Rows, RangeInv
<1>. QED  BY <1>1, <1>2, <1>3, <1>4 DEF IInv

\* A call that joins its thread after the end has copied everything.
LEMMA JoinsStep ==
    ASSUME IInv, NEW i \in Ingests, Joins(i)
    PROVE  IInv'
<1>. USE DEF memory, calls, threads, Joins, Ends
<1>0. RangeInv /\ AccountInv /\ CoverInv /\ RowsInv
  BY DEF IInv
<1>1. RangeInv'
  BY <1>0 DEF RangeInv, Calls, Results
<1>2. AccountInv'
  BY <1>0, AccountKept DEF AccountInv
<1>3. CoverInv'
  <2>. SUFFICES ASSUME NEW j \in Ingests  PROVE Covered(j)'
    BY DEF CoverInv
  <2>1. Covered(j) /\ Conserved(j)
    BY <1>0 DEF CoverInv, RowsInv
  <2>. QED  BY <2>1 DEF Covered, Bytes
<1>4. RowsInv'
  <2>. SUFFICES ASSUME NEW j \in Ingests  PROVE Conserved(j)'
    BY DEF RowsInv
  <2>1. Covered(j) /\ Conserved(j)
    BY <1>0 DEF CoverInv, RowsInv
  <2>. QED  BY <1>0, <2>1 DEF Conserved, Rows, RangeInv
<1>. QED  BY <1>1, <1>2, <1>3, <1>4 DEF IInv

-----------------------------------------------------------------------------
(* The theorems.                                                            *)

\* Before any ingest is admitted nothing is reserved, built or copied.
LEMMA InitInv == Init => IInv
<1>. SUFFICES ASSUME Init  PROVE IInv
  OBVIOUS
<1>1. limit \in Nat /\ 0 \in Nat
  BY IngestAssumption DEF Init
<1>2. source \in [Ingests -> Streams] /\ \A i \in Ingests : source[i].rows = source[i].total
  <2>1. Sources \subseteq Streams
    BY DEF Sources, Streams
  <2>. QED  BY <2>1 DEF Init
<1>3. RangeInv
  BY <1>1, <1>2 DEF Init, RangeInv, Calls, Threads, Results, Windows, Views, Nothing, Unread
<1>4. Held = 0
  BY HeldIsSum, SumsZero DEF Init
<1>5. AccountInv
  BY <1>4 DEF Init, AccountInv
<1>6. CoverInv
  BY DEF Init, CoverInv, Covered
<1>7. RowsInv
  BY <1>2 DEF Init, RowsInv, Conserved, Rows, Streams, Nothing
<1>. QED  BY <1>3, <1>5, <1>6, <1>7 DEF IInv

\* Every step of a call or of its thread keeps the invariant.
LEMMA NextInv == IInv /\ [Next]_vars => IInv'
<1>1. ASSUME IInv, NEW i \in Ingests, Admission(i)  PROVE IInv'
  BY <1>1, UnlimitedStep, ReadsUsageStep, RejectedStep, SwapSucceedsStep, SwapFailsStep,
     SpawnsStep,
     SpawnFailsStep DEF Admission
<1>2. ASSUME IInv, NEW i \in Ingests, ThreadStep(i)  PROVE IInv'
  BY <1>2, BuildsStep, PanicsStep, OfferFailsStep, LeavesStep DEF ThreadStep
<1>3. ASSUME IInv, NEW i \in Ingests, CallStep(i)  PROVE IInv'
  BY <1>3, ReceivesWindowStep, ReceivesEndStep, ReceivesErrorStep, DisconnectedStep, TimesOutStep,
     UploadsStep, UploadFailsStep, JoinsStep DEF CallStep
<1>4. ASSUME IInv, UNCHANGED vars  PROVE IInv'
  <2>1. reserved' = reserved /\ held' = held /\ limit' = limit /\ call' = call
        /\ budget' = budget /\ result' = result /\ upload' = upload /\ copied' = copied
        /\ thread' = thread /\ source' = source /\ window' = window
        /\ receiver' = receiver /\ seen' = seen
    BY <1>4 DEF vars, memory, calls, threads
  <2>2. RangeInv'
    BY <1>4, <2>1 DEF IInv, RangeInv
  <2>3. AccountInv'
    BY <1>4, <2>1, AccountKept DEF IInv, AccountInv
  <2>4. CoverInv' /\ RowsInv'
    BY <1>4, <2>1 DEF IInv, CoverInv, Covered, Bytes, RowsInv, Conserved, Rows
  <2>. QED  BY <2>2, <2>3, <2>4 DEF IInv
<1>. QED  BY <1>1, <1>2, <1>3, <1>4 DEF Next

\* The inductive invariant of the pipeline: the counter is the sum of what
\* the threads hold, the sum stays within the limit, and rows are conserved.
THEOREM PipelineInvariance == Spec => []IInv
BY InitInv, NextInv, PTL DEF Spec

\* RESERVED_INGEST_MEMORY_BYTES is the sum of the reservations alive, however
\* many ingests admit themselves, fail to start, panic, time out or return.
THEOREM CounterAlwaysAccounts == Spec => []ReservationsAccounted
<1>1. IInv => ReservationsAccounted
  BY DEF IInv, AccountInv, ReservationsAccounted
<1>. QED  BY <1>1, PipelineInvariance, PTL

\* No order of the compare-and-swaps of reserve_ingest_memory, and no age of
\* the usage a call has read, takes the process beyond 90% of its limit.
THEOREM LimitNeverOvercommitted == Spec => []NeverOvercommitted
<1>1. IInv => NeverOvercommitted
  BY DEF IInv, AccountInv, NeverOvercommitted
<1>. QED  BY <1>1, PipelineInvariance, PTL

\* What a live thread builds and what its call uploads is covered by the
\* reservation the thread owns, also when the call has left.
THEOREM WindowsAlwaysCovered == Spec => []WindowsCovered
<1>1. IInv => WindowsCovered
  BY DEF IInv, CoverInv, Covered, WindowsCovered
<1>. QED  BY <1>1, PipelineInvariance, PTL

\* An ingest that reports success has copied every row of its source.
THEOREM SuccessCopiesWholeSource == Spec => []CopiesWholeSource
<1>1. IInv => CopiesWholeSource
  BY DEF IInv, RowsInv, Conserved, CopiesWholeSource
<1>. QED  BY <1>1, PipelineInvariance, PTL
=============================================================================
