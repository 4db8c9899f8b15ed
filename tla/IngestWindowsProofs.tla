------------------------ MODULE IngestWindowsProofs ------------------------
(***************************************************************************)
(* Proofs about the windows of a COPY ingest: whatever the batches of the  *)
(* source, the budgets, the row target and the schedule of the upload and  *)
(* its encoder, the rows reach the server once and in order, and each      *)
(* window is as full as its budget allows.  The rows and the budget do not *)
(* depend on how a window's columns are encoded, so the inductive          *)
(* invariant leaves the encoding out.                                      *)
(* The last part is about the encoding: its pieces, the byte shuffle, the  *)
(* arena and a push give back the bytes they were given.                   *)
(***************************************************************************)
EXTENDS IngestWindows, SequenceTheorems, WellFoundedInduction, TLAPS

-----------------------------------------------------------------------------
(* Sums and flattened sequences.                                           *)

\* A set of numbers that is not empty has a least one.
LEMMA LeastNumber ==
    ASSUME NEW B \in SUBSET Nat, B # {}
    PROVE  \E n \in B : \A m \in B : n <= m
<1>1. PICK n \in B : \A m \in B : ~ (<<m, n>> \in OpToRel(<, Nat))
  BY WFMin, NatLessThanWellFounded, Zenon
<1>2. ASSUME NEW m \in B  PROVE n <= m
  <2>. DEFINE p == <<m, n>>
  <2>1. p \in Nat \X Nat /\ p[1] = m /\ p[2] = n
    OBVIOUS
  <2>2. ~ (p[1] < p[2])
    <3>. HIDE DEF p
    <3>. QED  BY <1>1, <2>1, Zenon DEF OpToRel, p
  <2>. QED  BY <2>1, <2>2
<1>. QED  BY <1>2

\* A set of numbers that has the successor of each of its members below a
\* bound, and 0, has all up to the bound.
LEMMA UpTo ==
    ASSUME NEW n \in Nat, NEW G, 0 \in G, \A i \in 1..n : i - 1 \in G => i \in G
    PROVE  \A i \in 0..n : i \in G
<1>. DEFINE B == { i \in 0..n : i \notin G }
<1>. SUFFICES ASSUME B # {}  PROVE FALSE
  OBVIOUS
<1>1. PICK k \in B : \A m \in B : k <= m
  <2>1. B \in SUBSET Nat
    OBVIOUS
  <2>. HIDE DEF B
  <2>. QED  BY <2>1, LeastNumber
<1>2. k \in 1..n /\ k - 1 \notin B
  BY <1>1
<1>. QED  BY <1>2

\* The running totals of a sequence of numbers.
Running(ns, f) ==
    /\ f \in [0..Len(ns) -> Nat] /\ f[0] = 0
    /\ \A i \in 1..Len(ns) : f[i] = f[i - 1] + ns[i]

\* There are running sums of every sequence of numbers.
LEMMA RunningExists ==
    ASSUME NEW ns \in Seq(Nat)
    PROVE  \E f : Running(ns, f)
<1>. DEFINE P(n, f) == /\ f \in [0..n -> Nat] /\ f[0] = 0
                       /\ \A i \in 1..n : f[i] = f[i - 1] + ns[i]
            G == { n \in 0..Len(ns) : \E f : P(n, f) }
<1>1. 0 \in G
  <2>. DEFINE z == [i \in 0..0 |-> 0]
  <2>1. P(0, z)
    OBVIOUS
  <2>. HIDE DEF P, z
  <2>. QED  BY <2>1
<1>2. ASSUME NEW n \in 1..Len(ns), n - 1 \in G  PROVE n \in G
  <2>1. PICK f : P(n - 1, f)
    BY <1>2
  <2>. DEFINE g == [i \in 0..n |-> IF i = n THEN f[n - 1] + ns[n] ELSE f[i]]
  <2>2. P(n, g)
    <3>1. n \in Nat /\ n - 1 \in Nat /\ n - 1 \in 0..(n - 1) /\ ns[n] \in Nat
      OBVIOUS
    <3>2. g \in [0..n -> Nat] /\ g[0] = 0
      BY <2>1, <3>1
    <3>3. ASSUME NEW i \in 1..n  PROVE g[i] = g[i - 1] + ns[i]
      BY <2>1, <3>1
    <3>. QED  BY <3>2, <3>3, Zenon
  <2>. HIDE DEF P
  <2>. QED  BY <2>2
<1>3. Len(ns) \in G
  <2>. HIDE DEF G
  <2>1. Len(ns) \in Nat /\ Len(ns) \in 0..Len(ns)
    OBVIOUS
  <2>2. \A i \in 1..Len(ns) : i - 1 \in G => i \in G
    BY <1>2
  <2>3. \A i \in 0..Len(ns) : i \in G
    BY <1>1, <2>1, <2>2, UpTo, Zenon
  <2>. QED  BY <2>1, <2>3
<1>. QED  BY <1>3 DEF Running

\* Total is the last of the running sums.
LEMMA TotalIs ==
    ASSUME NEW ns \in Seq(Nat), NEW f, Running(ns, f)
    PROVE  Total(ns) = f[Len(ns)]
<1>. DEFINE R(g) == g = [i \in 0..Len(ns) |-> IF i = 0 THEN 0 ELSE g[i - 1] + ns[i]]
            h == CHOOSE g : R(g)
<1>1. R(f)
  BY DEF Running
<1>2. R(h)
  <2>. HIDE DEF R
  <2>. QED  BY <1>1
<1>. DEFINE G == { i \in 0..Len(ns) : h[i] = f[i] }
<1>. HIDE DEF h
<1>3. 0 \in G
  BY <1>2 DEF Running
<1>4. ASSUME NEW i \in 1..Len(ns), i - 1 \in G  PROVE i \in G
  BY <1>2, <1>4 DEF Running
<1>5. Len(ns) \in G
  <2>. HIDE DEF G
  <2>1. Len(ns) \in Nat /\ Len(ns) \in 0..Len(ns)
    OBVIOUS
  <2>2. \A i \in 1..Len(ns) : i - 1 \in G => i \in G
    BY <1>4
  <2>3. \A i \in 0..Len(ns) : i \in G
    BY <1>3, <2>1, <2>2, UpTo, Zenon
  <2>. QED  BY <2>1, <2>3
<1>. QED  BY <1>5 DEF Total, h

\* The total of a sequence, of one number, and of a concatenation.
LEMMA Totals ==
    /\ Total(<<>>) = 0
    /\ \A n \in Nat : Total(<<n>>) = n
    /\ \A s \in Seq(Nat) : Total(s) \in Nat
    /\ \A s, t \in Seq(Nat) : Total(s \o t) = Total(s) + Total(t)
<1>1. Total(<<>>) = 0
  <2>1. Running(<<>>, [i \in 0..0 |-> 0])
    BY DEF Running
  <2>. QED  BY <2>1, TotalIs
<1>2. ASSUME NEW n \in Nat  PROVE Total(<<n>>) = n
  <2>. DEFINE s == <<n>>
  <2>1. s \in Seq(Nat) /\ Len(s) = 1 /\ s[1] = n
    OBVIOUS
  <2>. HIDE DEF s
  <2>2. Running(s, [i \in 0..1 |-> IF i = 0 THEN 0 ELSE n])
    BY <2>1 DEF Running
  <2>3. Total(s) = [i \in 0..1 |-> IF i = 0 THEN 0 ELSE n][1]
    BY <2>1, <2>2, TotalIs
  <2>. QED  BY <2>3 DEF s
<1>3. ASSUME NEW s \in Seq(Nat)  PROVE Total(s) \in Nat
  BY RunningExists, TotalIs DEF Running
<1>4. ASSUME NEW s \in Seq(Nat), NEW t \in Seq(Nat)
      PROVE  Total(s \o t) = Total(s) + Total(t)
  <2>1. PICK f : Running(s, f)
    BY RunningExists
  <2>2. PICK g : Running(t, g)
    BY RunningExists
  <2>. DEFINE u == s \o t
              a == Len(s)
              b == Len(t)
              h == [i \in 0..(a + b) |-> IF i <= a THEN f[i] ELSE f[a] + g[i - a]]
  <2>3. u \in Seq(Nat) /\ Len(u) = a + b /\ a \in Nat /\ b \in Nat
        /\ (\A i \in 1..a : u[i] = s[i]) /\ (\A i \in 1..b : u[a + i] = t[i])
    BY ConcatProperties
  <2>f. /\ \A i \in 0..a : f[i] \in Nat
        /\ \A i \in 1..a : f[i] = f[i - 1] + s[i]
        /\ \A i \in 0..b : g[i] \in Nat
        /\ \A i \in 1..b : g[i] = g[i - 1] + t[i]
        /\ f[0] = 0 /\ g[0] = 0
    BY <2>1, <2>2, Zenon DEF Running
  <2>. HIDE DEF u, a, b
  <2>4. Running(u, h)
    <3>a. ASSUME NEW i \in 0..a  PROVE h[i] = f[i] /\ i \in 0..(a + b)
      BY <2>3
    <3>b. ASSUME NEW i \in 1..b  PROVE h[a + i] = f[a] + g[i] /\ a + i \in 0..(a + b)
      <4>1. a + i \in 0..(a + b) /\ ~ (a + i <= a) /\ (a + i) - a = i
        BY <2>3
      <4>. QED  BY <4>1
    <3>c. h[a + 0] = f[a] + g[0]
      BY <2>3, <2>f
    <3>1. /\ \A i \in 0..a : h[i] = f[i]
          /\ \A i \in 0..b : h[a + i] = f[a] + g[i]
          /\ DOMAIN h = 0..(a + b)
      <4>1. ASSUME NEW i \in 0..b  PROVE h[a + i] = f[a] + g[i]
        <5>1. i = 0 \/ i \in 1..b
          BY <2>3
        <5>. HIDE DEF h
        <5>. QED  BY <3>b, <3>c, <5>1
      <4>. HIDE DEF h
      <4>. QED  BY <3>a, <4>1, SMTT(30) DEF h
    <3>d. ASSUME NEW i \in 0..(a + b)  PROVE i \in 0..a \/ (i - a \in 1..b /\ i = a + (i - a))
      BY <2>3
    <3>e. ASSUME NEW i \in 0..(a + b)  PROVE h[i] \in Nat
      <4>1. a \in 0..a
        BY <2>3
      <4>. HIDE DEF h
      <4>2. CASE i \in 0..a
        BY <2>f, <3>1, <4>2
      <4>3. CASE i - a \in 1..b /\ i = a + (i - a)
        BY <2>f, <3>b, <4>1, <4>3, SMTT(30)
      <4>. QED  BY <3>d, <4>2, <4>3
    <3>3. h \in [0..(a + b) -> Nat]
      BY <3>e
    <3>. HIDE DEF h
    <3>4. ASSUME NEW i \in 1..a  PROVE h[i] = h[i - 1] + u[i]
      BY <2>3, <2>f, <3>1
    <3>5. ASSUME NEW i \in 1..b  PROVE h[a + i] = h[a + i - 1] + u[a + i]
      <4>1. i - 1 \in 0..b /\ a + i - 1 = a + (i - 1)
        BY <2>3
      <4>2. h[a + i] = f[a] + g[i] /\ h[a + (i - 1)] = f[a] + g[i - 1] /\ u[a + i] = t[i]
        BY <2>3, <3>1, <4>1
      <4>3. g[i] = g[i - 1] + t[i] /\ f[a] \in Nat /\ g[i - 1] \in Nat /\ t[i] \in Nat
        <5>1. a \in 0..a
          BY <2>3
        <5>2. t[i] \in Nat
          BY DEF b
        <5>. QED  BY <2>f, <4>1, <5>1, <5>2
      <4>. QED  BY <4>1, <4>2, <4>3
    <3>6. ASSUME NEW i \in 1..(a + b)  PROVE h[i] = h[i - 1] + u[i]
      <4>1. CASE i <= a
        BY <2>3, <3>4, <4>1
      <4>2. CASE i > a
        <5>1. i - a \in 1..b /\ i = a + (i - a)
          BY <2>3, <4>2
        <5>2. h[a + (i - a)] = h[a + (i - a) - 1] + u[a + (i - a)]
          BY <3>5, <5>1
        <5>3. a + (i - a) = i /\ a + (i - a) - 1 = i - 1
          BY <2>3
        <5>. QED  BY <5>2, <5>3
      <4>. QED  BY <2>3, <4>1, <4>2
    <3>. QED  BY <2>3, <2>f, <3>1, <3>3, <3>6 DEF Running
  <2>5. Total(u) = h[Len(u)]
    BY <2>3, <2>4, TotalIs, Zenon
  <2>6. Total(s) = f[Len(s)] /\ Total(t) = g[Len(t)]
    BY <2>1, <2>2, TotalIs
  <2>7. h[a + b] = f[a] + g[b]
    <3>1. a + b \in 0..(a + b) /\ (a + b) - a = b /\ (a + b <= a => b = 0 /\ a + b = a)
      BY <2>3
    <3>. QED  BY <2>3, <2>f, <3>1
  <2>. QED  BY <2>3, <2>5, <2>6, <2>7 DEF u, a, b
<1>. QED  BY <1>1, <1>2, <1>3, <1>4

\* The running concatenations of a sequence of sequences.
Joined(S, ss, f) ==
    /\ f \in [0..Len(ss) -> Seq(S)] /\ f[0] = <<>>
    /\ \A i \in 1..Len(ss) : f[i] = f[i - 1] \o ss[i]

\* There are running concatenations of every sequence of sequences.
LEMMA JoinedExists ==
    ASSUME NEW S, NEW ss \in Seq(Seq(S))
    PROVE  \E f : Joined(S, ss, f)
<1>. DEFINE P(n, f) == /\ f \in [0..n -> Seq(S)] /\ f[0] = <<>>
                       /\ \A i \in 1..n : f[i] = f[i - 1] \o ss[i]
            G == { n \in 0..Len(ss) : \E f : P(n, f) }
<1>0. <<>> \in Seq(S)
  OBVIOUS
<1>1. 0 \in G
  <2>. DEFINE z == [i \in 0..0 |-> <<>>]
  <2>1. z \in [0..0 -> Seq(S)] /\ z[0] = <<>>
    BY <1>0
  <2>2. P(0, z)
    BY <2>1
  <2>. HIDE DEF P, z
  <2>. QED  BY <2>2
<1>2. ASSUME NEW n \in 1..Len(ss), n - 1 \in G  PROVE n \in G
  <2>1. PICK f : P(n - 1, f)
    BY <1>2, Zenon
  <2>. DEFINE g == [i \in 0..n |-> IF i = n THEN f[n - 1] \o ss[n] ELSE f[i]]
  <2>2. P(n, g)
    <3>1. n \in Nat /\ n - 1 \in Nat /\ n - 1 \in 0..(n - 1) /\ ss[n] \in Seq(S)
      OBVIOUS
    <3>2. f[n - 1] \in Seq(S) /\ \A i \in 0..(n - 1) : f[i] \in Seq(S)
      BY <2>1, <3>1
    <3>3. f[n - 1] \o ss[n] \in Seq(S)
      BY <3>1, <3>2, ConcatProperties
    <3>4. g \in [0..n -> Seq(S)] /\ g[0] = <<>>
      BY <2>1, <3>1, <3>2, <3>3
    <3>5. ASSUME NEW i \in 1..n  PROVE g[i] = g[i - 1] \o ss[i]
      <4>1. i - 1 \in 0..n /\ i - 1 # n /\ i \in 0..n /\ (i # n => i \in 1..(n - 1))
        BY <3>1
      <4>2. g[i - 1] = f[i - 1]
        BY <4>1
      <4>3. CASE i = n
        BY <4>1, <4>2, <4>3, Zenon
      <4>4. CASE i # n
        BY <2>1, <4>1, <4>2, <4>4, Zenon
      <4>. QED  BY <4>3, <4>4, Zenon
    <3>. QED  BY <3>4, <3>5, Zenon
  <2>. HIDE DEF P
  <2>. QED  BY <2>2
<1>3. Len(ss) \in G
  <2>. HIDE DEF G
  <2>1. Len(ss) \in Nat /\ Len(ss) \in 0..Len(ss)
    OBVIOUS
  <2>2. \A i \in 1..Len(ss) : i - 1 \in G => i \in G
    BY <1>2
  <2>3. \A i \in 0..Len(ss) : i \in G
    BY <1>1, <2>1, <2>2, UpTo, Zenon
  <2>. QED  BY <2>1, <2>3
<1>. QED  BY <1>3, Zenon DEF Joined

\* FlattenSeq is the last of the running concatenations.
LEMMA FlattenIs ==
    ASSUME NEW S, NEW ss \in Seq(Seq(S)), NEW f, Joined(S, ss, f)
    PROVE  FlattenSeq(ss) = f[Len(ss)]
<1>. DEFINE n == Len(ss)
            R(g) == g = [i \in 0..n |-> IF i = 0 THEN <<>> ELSE g[i - 1] \o ss[i]]
            h == CHOOSE g : R(g)
<1>0. n \in Nat /\ n \in 0..n
  OBVIOUS
<1>1. R(f)
  <2>1. ASSUME NEW i \in 0..n  PROVE f[i] = IF i = 0 THEN <<>> ELSE f[i - 1] \o ss[i]
    <3>1. i # 0 => i \in 1..n
      BY <1>0
    <3>. QED  BY <3>1, Zenon DEF Joined
  <2>2. f = [i \in 0..n |-> f[i]]
    BY Zenon DEF Joined
  <2>. HIDE DEF n
  <2>. QED  BY <2>1, <2>2, Zenon
<1>2. R(h)
  <2>. HIDE DEF R
  <2>. QED  BY <1>1, Zenon
<1>. DEFINE G == { i \in 0..n : h[i] = f[i] }
<1>. HIDE DEF h, n
<1>3. ASSUME NEW i \in 0..n  PROVE h[i] = IF i = 0 THEN <<>> ELSE h[i - 1] \o ss[i]
  BY <1>2, Zenon
<1>4. ASSUME NEW i \in 0..n  PROVE f[i] = IF i = 0 THEN <<>> ELSE f[i - 1] \o ss[i]
  BY <1>1, Zenon
<1>. HIDE DEF R
<1>5. 0 \in G
  <2>1. 0 \in 0..n
    BY <1>0
  <2>. QED  BY <1>3, <1>4, <2>1, Zenon
<1>6. ASSUME NEW i \in 1..n, i - 1 \in G  PROVE i \in G
  <2>1. i \in 0..n /\ i # 0
    BY <1>0
  <2>2. h[i - 1] = f[i - 1]
    BY <1>6, Zenon
  <2>. QED  BY <1>3, <1>4, <2>1, <2>2, Zenon
<1>7. \A i \in 0..n : i \in G
  <2>. HIDE DEF G
  <2>. QED  BY <1>0, <1>5, <1>6, UpTo, Zenon
<1>8. h[n] = f[n]
  BY <1>0, <1>7, Zenon
<1>. QED  BY <1>8, Zenon DEF FlattenSeq, h, n, R

\* A flattened sequence, of one member, and of a concatenation.
LEMMA Flattened ==
    ASSUME NEW S
    PROVE  /\ FlattenSeq(<<>>) = <<>>
           /\ \A x \in Seq(S) : FlattenSeq(<<x>>) = x
           /\ \A s \in Seq(Seq(S)) : FlattenSeq(s) \in Seq(S)
           /\ \A s, t \in Seq(Seq(S)) : FlattenSeq(s \o t) = FlattenSeq(s) \o FlattenSeq(t)
<1>1. FlattenSeq(<<>>) = <<>>
  <2>. DEFINE s == <<>>
  <2>1. s \in Seq(Seq(S)) /\ Len(s) = 0
    OBVIOUS
  <2>. HIDE DEF s
  <2>2. PICK f : Joined(S, s, f)
    BY <2>1, JoinedExists, Zenon
  <2>3. f[Len(s)] = <<>>
    BY <2>1, <2>2, Zenon DEF Joined
  <2>4. FlattenSeq(s) = f[Len(s)]
    BY <2>1, <2>2, FlattenIs, Zenon
  <2>. QED  BY <2>3, <2>4, Zenon DEF s
<1>2. ASSUME NEW x \in Seq(S)  PROVE FlattenSeq(<<x>>) = x
  <2>. DEFINE s == <<x>>
              f == [i \in 0..1 |-> IF i = 0 THEN <<>> ELSE x]
  <2>1. s \in Seq(Seq(S)) /\ Len(s) = 1 /\ s[1] = x /\ <<>> \in Seq(S)
    OBVIOUS
  <2>2. <<>> \o x = x
    BY ConcatEmptySeq
  <2>. HIDE DEF s
  <2>3. f \in [0..1 -> Seq(S)] /\ f[0] = <<>> /\ f[1] = x
    BY <2>1
  <2>. HIDE DEF f
  <2>4. ASSUME NEW i \in 1..1  PROVE f[i] = f[i - 1] \o s[i]
    <3>1. i = 1 /\ i - 1 = 0
      OBVIOUS
    <3>. QED  BY <2>1, <2>2, <2>3, <3>1, Zenon
  <2>5. Joined(S, s, f)
    BY <2>1, <2>3, <2>4 DEF Joined
  <2>. QED  BY <2>1, <2>3, <2>5, FlattenIs DEF s
<1>3. ASSUME NEW s \in Seq(Seq(S))  PROVE FlattenSeq(s) \in Seq(S)
  <2>1. PICK f : Joined(S, s, f)
    BY JoinedExists
  <2>2. FlattenSeq(s) = f[Len(s)]
    BY <2>1, FlattenIs
  <2>. QED  BY <2>1, <2>2 DEF Joined
<1>4. ASSUME NEW s \in Seq(Seq(S)), NEW t \in Seq(Seq(S))
      PROVE  FlattenSeq(s \o t) = FlattenSeq(s) \o FlattenSeq(t)
  <2>1. PICK f : Joined(S, s, f)
    BY JoinedExists
  <2>2. PICK g : Joined(S, t, g)
    BY JoinedExists
  <2>. DEFINE u == s \o t
              a == Len(s)
              b == Len(t)
              h == [i \in 0..(a + b) |-> IF i <= a THEN f[i] ELSE f[a] \o g[i - a]]
  <2>3. u \in Seq(Seq(S)) /\ Len(u) = a + b /\ a \in Nat /\ b \in Nat
        /\ (\A i \in 1..a : u[i] = s[i]) /\ (\A i \in 1..b : u[a + i] = t[i])
        /\ a \in 0..a /\ b \in 0..b /\ (\A i \in 1..b : t[i] \in Seq(S))
    BY ConcatProperties
  <2>f. /\ \A i \in 0..a : f[i] \in Seq(S)
        /\ \A i \in 1..a : f[i] = f[i - 1] \o s[i]
        /\ \A i \in 0..b : g[i] \in Seq(S)
        /\ \A i \in 1..b : g[i] = g[i - 1] \o t[i]
        /\ f[0] = <<>> /\ g[0] = <<>>
    BY <2>1, <2>2, Zenon DEF Joined
  <2>. HIDE DEF u, a, b
  <2>e. f[a] \in Seq(S) /\ f[a] \o <<>> = f[a]
    BY <2>3, <2>f, ConcatEmptySeq
  <2>h. /\ \A i \in 0..a : h[i] = f[i]
        /\ \A i \in 0..b : h[a + i] = f[a] \o g[i]
        /\ DOMAIN h = 0..(a + b)
    <3>a. ASSUME NEW i \in 0..a  PROVE h[i] = f[i]
      BY <2>3
    <3>b. ASSUME NEW i \in 1..b  PROVE h[a + i] = f[a] \o g[i]
      <4>1. a + i \in 0..(a + b) /\ ~ (a + i <= a) /\ (a + i) - a = i
        BY <2>3
      <4>. QED  BY <4>1, Zenon
    <3>c. h[a + 0] = f[a] \o g[0]
      <4>1. a + 0 = a /\ a \in 0..(a + b)
        BY <2>3
      <4>2. h[a] = f[a]
        BY <4>1
      <4>. QED  BY <2>f, <2>e, <4>1, <4>2
    <3>d. ASSUME NEW i \in 0..b  PROVE h[a + i] = f[a] \o g[i]
      <4>1. i = 0 \/ i \in 1..b
        BY <2>3
      <4>. HIDE DEF h
      <4>. QED  BY <3>b, <3>c, <4>1, Zenon
    <3>. HIDE DEF h
    <3>. QED  BY <3>a, <3>d, Zenon DEF h
  <2>4. Joined(S, u, h)
    <3>. HIDE DEF h
    <3>d. ASSUME NEW i \in 0..(a + b)  PROVE i \in 0..a \/ (i - a \in 1..b /\ i = a + (i - a))
      BY <2>3
    <3>e. ASSUME NEW i \in 0..(a + b)  PROVE h[i] \in Seq(S)
      <4>2. CASE i \in 0..a
        BY <2>f, <2>h, <4>2, SMTT(30)
      <4>3. CASE i - a \in 1..b /\ i = a + (i - a)
        <5>1. i - a \in 0..b
          BY <2>3, <4>3
        <5>2. h[i] = f[a] \o g[i - a] /\ g[i - a] \in Seq(S)
          BY <2>f, <2>h, <4>3, <5>1, Zenon
        <5>. QED  BY <2>e, <5>2, ConcatProperties
      <4>. QED  BY <3>d, <4>2, <4>3
    <3>3. h \in [0..(a + b) -> Seq(S)]
      <4>. DEFINE hh == h
      <4>1. h = [i \in 0..(a + b) |-> h[i]]
        BY DEF h
      <4>. QED  BY <2>h, <3>e, <4>1
    <3>4. ASSUME NEW i \in 1..a  PROVE h[i] = h[i - 1] \o u[i]
      <4>1. i \in 0..a /\ i - 1 \in 0..a
        BY <2>3
      <4>. QED  BY <2>3, <2>f, <2>h, <4>1, Zenon
    <3>5. ASSUME NEW i \in 1..b  PROVE h[a + i] = h[a + i - 1] \o u[a + i]
      <4>1. i - 1 \in 0..b /\ a + i - 1 = a + (i - 1) /\ i \in 0..b
        BY <2>3
      <4>2. h[a + i] = f[a] \o g[i] /\ h[a + (i - 1)] = f[a] \o g[i - 1] /\ u[a + i] = t[i]
        BY <2>3, <2>h, <4>1, Zenon
      <4>3. g[i] = g[i - 1] \o t[i] /\ g[i - 1] \in Seq(S) /\ t[i] \in Seq(S)
        BY <2>3, <2>f, <4>1, Zenon
      <4>4. (f[a] \o g[i - 1]) \o t[i] = f[a] \o (g[i - 1] \o t[i])
        <5>. DEFINE x == f[a]
                    y == g[i - 1]
                    z == t[i]
        <5>1. x \in Seq(S) /\ y \in Seq(S) /\ z \in Seq(S)
          BY <2>e, <4>3, Zenon
        <5>. HIDE DEF x, y, z
        <5>2. (x \o y) \o z = x \o (y \o z)
          BY <5>1, ConcatAssociative, SMTT(30)
        <5>. QED  BY <5>2, Zenon DEF x, y, z
      <4>. QED  BY <4>1, <4>2, <4>3, <4>4
    <3>6. ASSUME NEW i \in 1..(a + b)  PROVE h[i] = h[i - 1] \o u[i]
      <4>1. CASE i <= a
        <5>1. i \in 1..a
          BY <2>3, <4>1
        <5>. QED  BY <3>4, <5>1, Zenon
      <4>2. CASE i > a
        <5>1. i - a \in 1..b /\ a + (i - a) = i /\ a + (i - a) - 1 = i - 1
          BY <2>3, <4>2
        <5>2. h[a + (i - a)] = h[a + (i - a) - 1] \o u[a + (i - a)]
          BY <3>5, <5>1, Zenon
        <5>. QED  BY <5>1, <5>2, Zenon
      <4>. QED  BY <2>3, <4>1, <4>2
    <3>7. h[0] = <<>>
      BY <2>3, <2>f, <2>h
    <3>. QED  BY <2>3, <3>3, <3>6, <3>7, Zenon DEF Joined
  <2>5. FlattenSeq(u) = h[a + b]
    <3>. HIDE DEF h
    <3>. QED  BY <2>3, <2>4, FlattenIs, Zenon
  <2>6. FlattenSeq(s) = f[a] /\ FlattenSeq(t) = g[b]
    BY <2>1, <2>2, FlattenIs DEF a, b
  <2>7. h[a + b] = f[a] \o g[b]
    <3>. HIDE DEF h
    <3>. QED  BY <2>3, <2>h, Zenon
  <2>. HIDE DEF h
  <2>. QED  BY <2>5, <2>6, <2>7 DEF u
<1>. QED  BY <1>1, <1>2, <1>3, <1>4

\* A function applied to the members of a sequence.
Map(f, s) == [i \in DOMAIN s |-> f[s[i]]]

\* f maps A to T.  (A name for it lets the provers match it.)
Maps(f, A, T) == f \in [A -> T]

\* A mapped sequence has the mapped values.
LEMMA MapType ==
    ASSUME NEW A, NEW T, NEW f, Maps(f, A, T), NEW s \in Seq(A)
    PROVE  Map(f, s) \in Seq(T) /\ Len(Map(f, s)) = Len(s)
           /\ \A i \in 1..Len(s) : Map(f, s)[i] = f[s[i]]
BY DEF Map, Maps

\* A mapped sequence of one.
LEMMA MapOne ==
    ASSUME NEW A, NEW T, NEW f, Maps(f, A, T), NEW x \in A
    PROVE  Map(f, <<x>>) = <<f[x]>>
BY DEF Map, Maps

\* Mapping goes over concatenation.
LEMMA MapConcat ==
    ASSUME NEW A, NEW T, NEW f, Maps(f, A, T), NEW s \in Seq(A), NEW t \in Seq(A)
    PROVE  Map(f, s \o t) = Map(f, s) \o Map(f, t)
<1>. DEFINE u == s \o t
            p == Map(f, s)
            q == Map(f, t)
            m == p \o q
<1>1. u \in Seq(A) /\ Len(u) = Len(s) + Len(t) /\ Len(s) \in Nat /\ Len(t) \in Nat
      /\ \A i \in 1..Len(s) + Len(t) : u[i] = IF i <= Len(s) THEN s[i] ELSE t[i - Len(s)]
  BY ConcatProperties
<1>a. p \in Seq(T) /\ Len(p) = Len(s) /\ \A i \in 1..Len(s) : p[i] = f[s[i]]
  BY MapType
<1>b. q \in Seq(T) /\ Len(q) = Len(t) /\ \A i \in 1..Len(t) : q[i] = f[t[i]]
  BY MapType
<1>. HIDE DEF p, q
<1>2. m \in Seq(T) /\ Len(m) = Len(s) + Len(t)
      /\ \A i \in 1..Len(s) + Len(t) : m[i] = IF i <= Len(s) THEN p[i] ELSE q[i - Len(s)]
  <2>1. p \in Seq(T) /\ q \in Seq(T)
    BY <1>a, <1>b
  <2>2. m \in Seq(T) /\ Len(m) = Len(p) + Len(q)
        /\ \A i \in 1..Len(p) + Len(q) : m[i] = IF i <= Len(p) THEN p[i] ELSE q[i - Len(p)]
    BY <2>1, ConcatProperties
  <2>3. Len(p) = Len(s) /\ Len(q) = Len(t)
    BY <1>a, <1>b
  <2>. HIDE DEF m
  <2>. QED  BY <2>2, <2>3
<1>3. Map(f, u) \in Seq(T) /\ Len(Map(f, u)) = Len(u)
      /\ \A i \in 1..Len(u) : Map(f, u)[i] = f[u[i]]
  <2>1. u \in Seq(A)
    BY <1>1
  <2>. HIDE DEF u
  <2>. QED  BY <2>1, MapType
<1>. HIDE DEF u, m
<1>4. ASSUME NEW i \in 1..Len(u)  PROVE Map(f, u)[i] = m[i]
  <2>1. CASE i <= Len(s)
    <3>1. i \in 1..Len(s) /\ i \in 1..Len(s) + Len(t)
      BY <1>1, <2>1
    <3>2. u[i] = s[i] /\ m[i] = p[i] /\ p[i] = f[s[i]]
      BY <1>1, <1>2, <1>a, <2>1, <3>1
    <3>. QED  BY <1>3, <3>2, Zenon
  <2>2. CASE ~ (i <= Len(s))
    <3>. DEFINE j == i - Len(s)
    <3>1. j \in 1..Len(t) /\ i \in 1..Len(s) + Len(t)
      BY <1>1, <2>2
    <3>2. u[i] = t[j] /\ m[i] = q[j]
      BY <1>1, <1>2, <2>2, <3>1
    <3>3. q[j] = f[t[j]]
      BY <1>b, <3>1, Zenon
    <3>. QED  BY <1>3, <3>2, <3>3, Zenon
  <2>. QED  BY <2>1, <2>2
<1>5. Map(f, u) = m
  BY <1>1, <1>2, <1>3, <1>4, SeqEqual
<1>. QED  BY <1>5 DEF u, m, p, q

\* Sums and concatenations over the members of a sequence.
LEMMA TotalMap ==
    ASSUME NEW A, NEW f, Maps(f, A, Nat), NEW s \in Seq(A), NEW t \in Seq(A)
    PROVE  /\ Total(Map(f, s)) \in Nat
           /\ Total(Map(f, s \o t)) = Total(Map(f, s)) + Total(Map(f, t))
<1>1. Map(f, s) \in Seq(Nat)
  BY MapType
<1>2. Map(f, t) \in Seq(Nat)
  BY MapType
<1>3. Map(f, s \o t) = Map(f, s) \o Map(f, t)
  BY MapConcat
<1>. QED  BY <1>1, <1>2, <1>3, Totals, Zenon

\* The concatenation of mapped sequences, over two sequences.
LEMMA FlatMap ==
    ASSUME NEW A, NEW S, NEW f, Maps(f, A, Seq(S)), NEW s \in Seq(A), NEW t \in Seq(A)
    PROVE  /\ FlattenSeq(Map(f, s)) \in Seq(S)
           /\ FlattenSeq(Map(f, s \o t)) = FlattenSeq(Map(f, s)) \o FlattenSeq(Map(f, t))
<1>1. Map(f, s) \in Seq(Seq(S))
  BY MapType
<1>2. Map(f, t) \in Seq(Seq(S))
  BY MapType
<1>3. Map(f, s \o t) = Map(f, s) \o Map(f, t)
  BY MapConcat
<1>4. FlattenSeq(Map(f, s)) \in Seq(S)
  BY <1>1, Flattened
<1>5. FlattenSeq(Map(f, s) \o Map(f, t)) = FlattenSeq(Map(f, s)) \o FlattenSeq(Map(f, t))
  BY <1>1, <1>2, Flattened
<1>. QED  BY <1>3, <1>4, <1>5

\* estimated_batch_size, over rows one after the other; every row has bytes.
LEMMA Estimates ==
    /\ \A r \in Rows : Weight(r) \in Nat \ {0} /\ estimated_batch_size(<<r>>) = Weight(r)
    /\ estimated_batch_size(<<>>) = 0
    /\ \A s \in Seq(Rows) : estimated_batch_size(s) \in Nat
    /\ \A s, t \in Seq(Rows) :
          estimated_batch_size(s \o t) = estimated_batch_size(s) + estimated_batch_size(t)
<1>1. ASSUME NEW r \in Rows  PROVE Weight(r) \in Nat \ {0}
  <2>. DEFINE b == r.bytes
              t == SubSeq(b, 2, Len(b))
  <2>1. b \in Seq(Nat \ {0}) /\ Len(b) = Len(FixedWidth) /\ Len(FixedWidth) \in Nat \ {0}
    BY QueueAssumption DEF Rows, Columns
  <2>. HIDE DEF b
  <2>2. b \in Seq(Nat) /\ b[1] \in Nat \ {0} /\ <<b[1]>> \in Seq(Nat)
    BY <2>1
  <2>3. t \in Seq(Nat) /\ b = <<b[1]>> \o t
    <3>1. \A i \in 2..Len(b) : b[i] \in Nat
      BY <2>2
    <3>2. t \in Seq(Nat)
      BY <2>1, <3>1, SubSeqProperties
    <3>3. SubSeq(b, 1, Len(b)) = <<b[1]>> \o SubSeq(b, 1 + 1, Len(b))
      BY <2>1, <2>2, SubSeqRecursiveFirst
    <3>4. SubSeq(b, 1, Len(b)) = b
      BY <2>2, SubSeqFull
    <3>. QED  BY <3>2, <3>3, <3>4
  <2>. HIDE DEF t
  <2>4. Total(b) = b[1] + Total(t) /\ Total(t) \in Nat
    BY <2>2, <2>3, Totals, ZenonT(30)
  <2>. QED  BY <2>2, <2>4 DEF Weight, b
<1>. DEFINE f == [r \in Rows |-> Weight(r)]
<1>2. Maps(f, Rows, Nat)
  BY <1>1 DEF Maps
<1>3. ASSUME NEW s \in Seq(Rows)  PROVE estimated_batch_size(s) = Total(Map(f, s))
  <2>1. Map(f, s) = [i \in DOMAIN s |-> Weight(s[i])]
    BY DEF Map
  <2>. QED  BY <2>1 DEF estimated_batch_size
<1>. HIDE DEF f
<1>4. ASSUME NEW r \in Rows  PROVE estimated_batch_size(<<r>>) = Weight(r)
  <2>1. <<r>> \in Seq(Rows) /\ Map(f, <<r>>) = <<f[r]>> /\ f[r] = Weight(r)
    <3>1. f[r] = Weight(r)
      BY DEF f
    <3>2. Map(f, <<r>>) = <<f[r]>>
      BY <1>2, MapOne
    <3>. QED  BY <3>1, <3>2
  <2>. QED  BY <1>1, <1>3, <2>1, Totals, Zenon
<1>5. estimated_batch_size(<<>>) = 0
  BY Totals DEF estimated_batch_size
<1>6. ASSUME NEW s \in Seq(Rows), NEW t \in Seq(Rows)
      PROVE  /\ estimated_batch_size(s) \in Nat
             /\ estimated_batch_size(s \o t) = estimated_batch_size(s) + estimated_batch_size(t)
  <2>1. s \o t \in Seq(Rows)
    BY ConcatProperties
  <2>2. Total(Map(f, s)) \in Nat
    BY <1>2, TotalMap
  <2>3. Total(Map(f, s \o t)) = Total(Map(f, s)) + Total(Map(f, t))
    BY <1>2, TotalMap
  <2>. QED  BY <1>3, <2>1, <2>2, <2>3, Zenon
<1>7. <<>> \in Seq(Rows)
  OBVIOUS
<1>. QED  BY <1>1, <1>4, <1>5, <1>6, <1>7

\* Batches with rows, as the source and the queue have them.
HasRows(B) == \A b \in B : b.rows \in Seq(Rows)

\* RowsOf, over batches one after the other.
LEMMA RowsOfConcat ==
    ASSUME NEW B, HasRows(B), NEW s \in Seq(B), NEW t \in Seq(B)
    PROVE  /\ RowsOf(s) \in Seq(Rows)
           /\ RowsOf(s \o t) = RowsOf(s) \o RowsOf(t)
<1>. DEFINE f == [b \in B |-> b.rows]
<1>1. Maps(f, B, Seq(Rows))
  BY DEF Maps, HasRows
<1>2. ASSUME NEW u \in Seq(B)  PROVE RowsOf(u) = FlattenSeq(Map(f, u))
  <2>1. Map(f, u) = [i \in DOMAIN u |-> u[i].rows]
    BY DEF Map
  <2>. QED  BY <2>1 DEF RowsOf
<1>. HIDE DEF f
<1>3. FlattenSeq(Map(f, s)) \in Seq(Rows)
  BY <1>1, FlatMap
<1>4. FlattenSeq(Map(f, s \o t)) = FlattenSeq(Map(f, s)) \o FlattenSeq(Map(f, t))
  BY <1>1, FlatMap
<1>5. s \o t \in Seq(B)
  BY ConcatProperties
<1>. QED  BY <1>2, <1>3, <1>4, <1>5, Zenon

\* The rows of one batch.
LEMMA RowsOfOne ==
    ASSUME NEW b, b.rows \in Seq(Rows)
    PROVE  RowsOf(<<b>>) = b.rows
<1>. DEFINE x == b.rows
<1>1. [i \in DOMAIN <<b>> |-> <<b>>[i].rows] = <<x>>
  OBVIOUS
<1>2. x \in Seq(Rows)
  OBVIOUS
<1>. HIDE DEF x
<1>3. FlattenSeq(<<x>>) = x
  BY <1>2, Flattened
<1>. QED  BY <1>1, <1>3 DEF RowsOf, x

\* No batch has no rows.
LEMMA RowsOfNone == RowsOf(<<>>) = <<>>
<1>1. [i \in DOMAIN <<>> |-> <<>>[i].rows] = <<>>
  OBVIOUS
<1>. QED  BY <1>1, Flattened DEF RowsOf

\* A sequence, cut after its first n members; cut after its first one.
LEMMA Cut ==
    ASSUME NEW S, NEW s \in Seq(S), NEW n \in 0..Len(s)
    PROVE  /\ SubSeq(s, 1, n) \in Seq(S) /\ Len(SubSeq(s, 1, n)) = n
           /\ SubSeq(s, n + 1, Len(s)) \in Seq(S) /\ Len(SubSeq(s, n + 1, Len(s))) = Len(s) - n
           /\ SubSeq(s, 1, n) \o SubSeq(s, n + 1, Len(s)) = s
<1>1. Len(s) \in Nat /\ n \in Nat /\ n <= Len(s)
  BY LenProperties
<1>2. \A i \in 1..n : s[i] \in S
  BY <1>1, ElementOfSeq
<1>3. \A i \in (n + 1)..Len(s) : s[i] \in S
  BY <1>1, ElementOfSeq
<1>4. SubSeq(s, 1, n) \in Seq(S) /\ Len(SubSeq(s, 1, n)) = IF 1 <= n THEN n - 1 + 1 ELSE 0
  BY <1>1, <1>2, SubSeqProperties
<1>5. /\ SubSeq(s, n + 1, Len(s)) \in Seq(S)
      /\ Len(SubSeq(s, n + 1, Len(s))) = IF n + 1 <= Len(s) THEN Len(s) - (n + 1) + 1 ELSE 0
  BY <1>1, <1>3, SubSeqProperties
<1>6. SubSeq(s, 1, n) \o SubSeq(s, n + 1, Len(s)) = SubSeq(s, 1, Len(s))
  <2>1. 1 \in 1..(Len(s) + 1) /\ n \in (1 - 1)..Len(s) /\ Len(s) \in n..Len(s)
    BY <1>1
  <2>. QED  BY <2>1, ConcatAdjacentSubSeq, Zenon
<1>7. SubSeq(s, 1, Len(s)) = s
  BY SubSeqFull
<1>. DEFINE p == SubSeq(s, 1, n)
            r == SubSeq(s, n + 1, Len(s))
<1>8. p \in Seq(S) /\ r \in Seq(S) /\ p \o r = s
  BY <1>4, <1>5, <1>6, <1>7, Zenon
<1>9. Len(p) = (IF 1 <= n THEN n - 1 + 1 ELSE 0)
      /\ Len(r) = (IF n + 1 <= Len(s) THEN Len(s) - (n + 1) + 1 ELSE 0)
  BY <1>4, <1>5, Zenon
<1>. HIDE DEF p, r
<1>10. Len(p) = n /\ Len(r) = Len(s) - n
  BY <1>1, <1>9
<1>. QED  BY <1>8, <1>10, Zenon DEF p, r

\* A sequence that is not empty is its first and the others.
LEMMA CutFirst ==
    ASSUME NEW S, NEW s \in Seq(S), s # <<>>
    PROVE  /\ Head(s) \in S /\ Tail(s) \in Seq(S) /\ Len(Tail(s)) = Len(s) - 1
           /\ <<Head(s)>> \o Tail(s) = s /\ <<Head(s)>> \in Seq(S) /\ Head(s) = s[1]
<1>1. Head(s) \in S /\ Tail(s) \in Seq(S) /\ Len(Tail(s)) = Len(s) - 1
  BY HeadTailProperties
<1>2. Len(s) \in Nat \ {0}
  BY EmptySeq
<1>3. SubSeq(s, 1, Len(s)) = <<s[1]>> \o SubSeq(s, 1 + 1, Len(s))
  BY <1>2, SubSeqRecursiveFirst
<1>4. Tail(s) = SubSeq(s, 2, Len(s))
  BY TailIsSubSeq
<1>5. SubSeq(s, 1, Len(s)) = s
  BY SubSeqFull
<1>6. Head(s) = s[1] /\ 1 + 1 = 2 /\ <<Head(s)>> \in Seq(S)
  BY <1>1
<1>. QED  BY <1>1, <1>3, <1>4, <1>5, <1>6, Zenon

-----------------------------------------------------------------------------
(* The queue.                                                              *)

\* A pending batch has rows, and knows their size.
Batches ==
    { b \in [rows : Seq(Rows), estimated : Nat, level : Nat] :
        b.rows # <<>> /\ b.estimated = estimated_batch_size(b.rows) }

\* RowsOf and BytesOf, over pending batches.
LEMMA BatchRows ==
    /\ HasRows(Batches)
    /\ \A s \in Seq(Batches) : RowsOf(s) \in Seq(Rows)
    /\ \A s, t \in Seq(Batches) : RowsOf(s \o t) = RowsOf(s) \o RowsOf(t)
    /\ \A b \in Batches : RowsOf(<<b>>) = b.rows
<1>1. HasRows(Batches)
  BY DEF HasRows, Batches
<1>2. ASSUME NEW s \in Seq(Batches), NEW t \in Seq(Batches)
      PROVE  RowsOf(s) \in Seq(Rows) /\ RowsOf(s \o t) = RowsOf(s) \o RowsOf(t)
  BY <1>1, RowsOfConcat
<1>3. ASSUME NEW b \in Batches  PROVE RowsOf(<<b>>) = b.rows
  BY RowsOfOne DEF Batches
<1>. QED  BY <1>1, <1>2, <1>3, Zenon

\* BytesOf, over batches one after the other.
LEMMA BatchBytes ==
    /\ BytesOf(<<>>) = 0
    /\ \A s \in Seq(Batches) : BytesOf(s) \in Nat
    /\ \A s, t \in Seq(Batches) : BytesOf(s \o t) = BytesOf(s) + BytesOf(t)
    /\ \A b \in Batches : BytesOf(<<b>>) = b.estimated
<1>. DEFINE f == [b \in Batches |-> b.estimated]
<1>1. Maps(f, Batches, Nat)
  BY DEF Maps, Batches
<1>2. ASSUME NEW u \in Seq(Batches)  PROVE BytesOf(u) = Total(Map(f, u))
  <2>1. Map(f, u) = [i \in DOMAIN u |-> u[i].estimated]
    BY DEF Map
  <2>. QED  BY <2>1 DEF BytesOf
<1>3. ASSUME NEW b \in Batches  PROVE f[b] = b.estimated /\ b.estimated \in Nat
  BY DEF Batches
<1>. HIDE DEF f
<1>4. ASSUME NEW s \in Seq(Batches), NEW t \in Seq(Batches)
      PROVE  BytesOf(s) \in Nat /\ BytesOf(s \o t) = BytesOf(s) + BytesOf(t)
  <2>1. s \o t \in Seq(Batches)
    BY ConcatProperties
  <2>2. Total(Map(f, s)) \in Nat
    BY <1>1, TotalMap
  <2>3. Total(Map(f, s \o t)) = Total(Map(f, s)) + Total(Map(f, t))
    BY <1>1, TotalMap
  <2>. QED  BY <1>2, <2>1, <2>2, <2>3, Zenon
<1>5. ASSUME NEW b \in Batches  PROVE BytesOf(<<b>>) = b.estimated
  <2>1. Map(f, <<b>>) = <<f[b]>>
    BY <1>1, MapOne
  <2>2. <<b>> \in Seq(Batches)
    OBVIOUS
  <2>. QED  BY <1>2, <1>3, <2>1, <2>2, Totals, Zenon
<1>6. BytesOf(<<>>) = 0
  BY Totals DEF BytesOf
<1>. QED  BY <1>4, <1>5, <1>6, Zenon

\* The first of some batches has the first rows.
LEMMA FirstBatch ==
    ASSUME NEW s \in Seq(Batches), s # <<>>
    PROVE  /\ Head(s) \in Batches /\ Tail(s) \in Seq(Batches) /\ Head(s).rows \in Seq(Rows)
           /\ RowsOf(Tail(s)) \in Seq(Rows) /\ RowsOf(s) = Head(s).rows \o RowsOf(Tail(s))
           /\ BytesOf(s) = Head(s).estimated + BytesOf(Tail(s))
<1>. DEFINE h == Head(s)
            t == Tail(s)
<1>1. h \in Batches /\ t \in Seq(Batches) /\ <<h>> \o t = s /\ <<h>> \in Seq(Batches)
  BY CutFirst
<1>. HIDE DEF h, t
<1>2. RowsOf(s) = RowsOf(<<h>>) \o RowsOf(t) /\ RowsOf(<<h>>) = h.rows /\ RowsOf(t) \in Seq(Rows)
  BY <1>1, BatchRows, Zenon
<1>3. BytesOf(s) = BytesOf(<<h>>) + BytesOf(t) /\ BytesOf(<<h>>) = h.estimated
  BY <1>1, BatchBytes, Zenon
<1>4. h.rows \in Seq(Rows)
  BY <1>1 DEF Batches
<1>. QED  BY <1>1, <1>2, <1>3, <1>4, Zenon DEF h, t

\* Batches have rows: no row means no batch.
LEMMA NoRows ==
    ASSUME NEW s \in Seq(Batches)
    PROVE  s # <<>> <=> RowsOf(s) # <<>>
<1>1. CASE s # <<>>
  <2>. DEFINE h == Head(s)
              r == RowsOf(Tail(s))
  <2>1. h.rows \in Seq(Rows) /\ h.rows # <<>> /\ r \in Seq(Rows) /\ RowsOf(s) = h.rows \o r
    BY <1>1, FirstBatch DEF Batches
  <2>. HIDE DEF h, r
  <2>2. h.rows \o r # <<>>
    BY <2>1, ConcatEqualIffEmpty
  <2>. QED  BY <1>1, <2>1, <2>2, Zenon
<1>2. CASE s = <<>>
  BY <1>2, RowsOfNone, Zenon
<1>. QED  BY <1>1, <1>2

\* The estimate of a batch compacted out of several is that of its rows.
LEMMA BytesOfRows ==
    ASSUME NEW s \in Seq(Batches)
    PROVE  BytesOf(s) = estimated_batch_size(RowsOf(s))
<1>. DEFINE p(n) == SubSeq(s, 1, n)
            G == { n \in 0..Len(s) : BytesOf(p(n)) = estimated_batch_size(RowsOf(p(n))) }
<1>1. Len(s) \in Nat /\ p(Len(s)) = s
  BY LenProperties, SubSeqFull
<1>2. 0 \in G
  <2>1. p(0) = <<>>
    BY SubSeqEmpty
  <2>2. 0 \in 0..Len(s)
    BY <1>1
  <2>. QED  BY <2>1, <2>2, BatchBytes, RowsOfNone, Estimates, Zenon
<1>3. ASSUME NEW i \in 1..Len(s), i - 1 \in G  PROVE i \in G
  <2>. DEFINE a == p(i - 1)
  <2>1. p(i) = a \o <<s[i]>>
    <3>1. 1 \in 1..Len(s) /\ i \in 1..Len(s)
      BY <1>1
    <3>. QED  BY <3>1, SubSeqRecursiveSecond
  <2>2. a \in Seq(Batches)
    <3>1. i - 1 \in 0..Len(s)
      BY <1>1
    <3>. QED  BY <3>1, Cut
  <2>3. s[i] \in Batches
    BY ElementOfSeq
  <2>4. BytesOf(a) = estimated_batch_size(RowsOf(a))
    BY <1>3
  <2>. DEFINE b == s[i]
              q == p(i)
  <2>5. i \in 0..Len(s)
    BY <1>1
  <2>6. q = a \o <<b>> /\ b \in Batches /\ <<b>> \in Seq(Batches)
    BY <2>1, <2>3
  <2>. HIDE DEF a, b, q
  <2>7. BytesOf(q) = BytesOf(a) + BytesOf(<<b>>) /\ BytesOf(<<b>>) = b.estimated
    BY <2>2, <2>6, BatchBytes, Zenon
  <2>8. /\ RowsOf(q) = RowsOf(a) \o RowsOf(<<b>>) /\ RowsOf(<<b>>) = b.rows
        /\ RowsOf(a) \in Seq(Rows)
    BY <2>2, <2>6, BatchRows, Zenon
  <2>9. b.rows \in Seq(Rows) /\ b.estimated = estimated_batch_size(b.rows)
    BY <2>6 DEF Batches
  <2>10. estimated_batch_size(RowsOf(q))
           = estimated_batch_size(RowsOf(a)) + estimated_batch_size(b.rows)
    BY <2>8, <2>9, Estimates, Zenon
  <2>11. BytesOf(q) = estimated_batch_size(RowsOf(q))
    BY <2>4, <2>7, <2>9, <2>10, Zenon
  <2>. QED  BY <2>5, <2>11 DEF q
<1>. HIDE DEF G
<1>4. Len(s) \in G
  <2>1. \A i \in 0..Len(s) : i \in G
    BY <1>1, <1>2, <1>3, UpTo, Zenon
  <2>. QED  BY <1>1, <2>1
<1>. QED  BY <1>1, <1>4, Zenon DEF G

\* The queue counts the rows and bytes of its batches.
QueueTypes == [pending : Seq(Batches), rows : Nat, bytes : Nat, exhausted : BOOLEAN, read : Nat]
QueueOK(q) ==
    /\ q \in QueueTypes
    /\ q.rows = Len(RowsOf(q.pending)) /\ q.bytes = BytesOf(q.pending)

\* What q becomes has these rows pending, and is as far into the source.
Becomes(q, p, rows) ==
    /\ QueueOK(p) /\ RowsOf(p.pending) = rows
    /\ p.exhausted = q.exhausted /\ p.read = q.read

\* A queue with other batches and counters.
Requeued(q, s, rows, bytes) == [q EXCEPT !.pending = s, !.rows = rows, !.bytes = bytes]

\* A queue whose counters are those of its new batches is one.
LEMMA RequeuedOK ==
    ASSUME NEW q \in QueueTypes, NEW s \in Seq(Batches), NEW rows \in Seq(Rows), RowsOf(s) = rows
    PROVE  Becomes(q, Requeued(q, s, Len(rows), BytesOf(s)), rows)
<1>. DEFINE n == Len(rows)
            m == BytesOf(s)
            p == Requeued(q, s, n, m)
<1>1. n \in Nat /\ m \in Nat
  BY BatchBytes, LenProperties
<1>2. n = Len(RowsOf(s)) /\ m = BytesOf(s)
  OBVIOUS
<1>. HIDE DEF n, m
<1>3. /\ p \in QueueTypes /\ p.pending = s /\ p.rows = n /\ p.bytes = m
      /\ p.exhausted = q.exhausted /\ p.read = q.read
  BY <1>1, Zenon DEF Requeued, QueueTypes
<1>. HIDE DEF p
<1>4. Becomes(q, p, rows)
  BY <1>2, <1>3, Zenon DEF Becomes, QueueOK
<1>. QED  BY <1>4, Zenon DEF p, n, m

\* push_pending_front and push_pending_back.
LEMMA Pushes ==
    ASSUME NEW q, QueueOK(q), NEW b \in Batches
    PROVE  /\ Becomes(q, push_front(q, b), b.rows \o RowsOf(q.pending))
           /\ Becomes(q, push_back(q, b), RowsOf(q.pending) \o b.rows)
<1>. DEFINE s == q.pending
<1>1. /\ s \in Seq(Batches) /\ <<b>> \in Seq(Batches)
      /\ b.rows \in Seq(Rows) /\ b.estimated \in Nat
  BY DEF QueueOK, QueueTypes, Batches
<1>. DEFINE f == <<b>> \o s
            l == s \o <<b>>
<1>2. Append(s, b) = l
  BY <1>1, AppendIsConcat, Zenon
<1>3. f \in Seq(Batches)
  BY <1>1, ConcatProperties
<1>4. l \in Seq(Batches)
  BY <1>1, ConcatProperties
<1>5. /\ push_front(q, b) = [q EXCEPT !.pending = f, !.rows = @ + Len(b.rows), !.bytes = @ + b.estimated]
      /\ push_back(q, b) = [q EXCEPT !.pending = l, !.rows = @ + Len(b.rows), !.bytes = @ + b.estimated]
  BY <1>2 DEF push_front, push_back
<1>6. RowsOf(f) = b.rows \o RowsOf(s) /\ RowsOf(l) = RowsOf(s) \o b.rows /\ RowsOf(s) \in Seq(Rows)
  <2>1. RowsOf(<<b>>) = b.rows
    BY BatchRows
  <2>. HIDE DEF s
  <2>2. RowsOf(f) = RowsOf(<<b>>) \o RowsOf(s) /\ RowsOf(l) = RowsOf(s) \o RowsOf(<<b>>)
    BY <1>1, BatchRows, Zenon
  <2>. QED  BY <1>1, <2>1, <2>2, BatchRows, Zenon
<1>7. BytesOf(f) = b.estimated + BytesOf(s) /\ BytesOf(l) = BytesOf(s) + b.estimated
  <2>1. BytesOf(<<b>>) = b.estimated
    BY BatchBytes
  <2>. HIDE DEF s
  <2>2. BytesOf(f) = BytesOf(<<b>>) + BytesOf(s) /\ BytesOf(l) = BytesOf(s) + BytesOf(<<b>>)
    BY <1>1, BatchBytes, Zenon
  <2>. QED  BY <2>1, <2>2, Zenon
<1>8. /\ Len(RowsOf(f)) = Len(b.rows) + Len(RowsOf(s))
      /\ Len(RowsOf(l)) = Len(b.rows) + Len(RowsOf(s))
      /\ Len(b.rows) \in Nat /\ Len(RowsOf(s)) \in Nat
  <2>. DEFINE r == RowsOf(s)
              x == b.rows
  <2>1. r \in Seq(Rows) /\ x \in Seq(Rows)
    BY <1>1, <1>6
  <2>. HIDE DEF r, x
  <2>2. Len(x \o r) = Len(x) + Len(r)
    BY <2>1, ConcatProperties
  <2>3. Len(r \o x) = Len(r) + Len(x)
    BY <2>1, ConcatProperties
  <2>4. Len(x) \in Nat /\ Len(r) \in Nat
    BY <2>1, LenProperties
  <2>5. RowsOf(f) = x \o r /\ RowsOf(l) = r \o x
    BY <1>6, Zenon DEF x, r
  <2>6. Len(r) + Len(x) = Len(x) + Len(r)
    BY <2>4
  <2>. QED  BY <2>2, <2>3, <2>4, <2>5, <2>6, Zenon DEF x, r
<1>9. BytesOf(s) \in Nat
  BY <1>1, BatchBytes
<1>10. /\ q \in QueueTypes /\ q.rows = Len(RowsOf(s)) /\ q.bytes = BytesOf(s)
  BY DEF QueueOK
<1>. HIDE DEF f, l, s
<1>a. q.rows + Len(b.rows) = Len(RowsOf(f)) /\ q.rows + Len(b.rows) = Len(RowsOf(l))
  BY <1>8, <1>10
<1>b. q.bytes + b.estimated = BytesOf(f) /\ q.bytes + b.estimated = BytesOf(l)
  BY <1>1, <1>7, <1>9, <1>10
<1>11. push_front(q, b) = Requeued(q, f, Len(RowsOf(f)), BytesOf(f))
  BY <1>5, <1>a, <1>b, Zenon DEF Requeued
<1>12. push_back(q, b) = Requeued(q, l, Len(RowsOf(l)), BytesOf(l))
  BY <1>5, <1>a, <1>b, Zenon DEF Requeued
<1>13. RowsOf(f) \in Seq(Rows) /\ RowsOf(l) \in Seq(Rows)
  BY <1>3, <1>4, BatchRows, Zenon
<1>14. Becomes(q, push_front(q, b), RowsOf(f))
  BY <1>3, <1>10, <1>11, <1>13, RequeuedOK, Zenon
<1>15. Becomes(q, push_back(q, b), RowsOf(l))
  BY <1>4, <1>10, <1>12, <1>13, RequeuedOK, Zenon
<1>. QED  BY <1>6, <1>14, <1>15, Zenon DEF s

\* pop_pending_front.
LEMMA Pops ==
    ASSUME NEW q, QueueOK(q), q.pending # <<>>
    PROVE  Becomes(q, pop_front(q), RowsOf(Tail(q.pending)))
<1>. DEFINE s == q.pending
            h == Head(s)
            t == Tail(s)
<1>1. q \in QueueTypes /\ q.rows = Len(RowsOf(s)) /\ q.bytes = BytesOf(s)
  BY DEF QueueOK
<1>2. s \in Seq(Batches) /\ s # <<>>
  BY <1>1 DEF QueueTypes
<1>. HIDE DEF s
<1>3. /\ h \in Batches /\ t \in Seq(Batches) /\ h.rows \in Seq(Rows) /\ RowsOf(t) \in Seq(Rows)
      /\ RowsOf(s) = h.rows \o RowsOf(t) /\ BytesOf(s) = h.estimated + BytesOf(t)
  BY <1>2, FirstBatch, Zenon
<1>4. h.estimated \in Nat
  BY <1>3 DEF Batches
<1>5. BytesOf(t) \in Nat
  BY <1>3, BatchBytes, Zenon
<1>. HIDE DEF h, t
<1>6. Len(RowsOf(s)) = Len(h.rows) + Len(RowsOf(t)) /\ Len(h.rows) \in Nat /\ Len(RowsOf(t)) \in Nat
  <2>. DEFINE x == h.rows
              r == RowsOf(t)
  <2>1. x \in Seq(Rows) /\ r \in Seq(Rows) /\ RowsOf(s) = x \o r
    BY <1>3
  <2>. HIDE DEF x, r
  <2>2. Len(x \o r) = Len(x) + Len(r)
    BY <2>1, ConcatProperties
  <2>3. Len(x) \in Nat /\ Len(r) \in Nat
    BY <2>1, LenProperties
  <2>. QED  BY <2>1, <2>2, <2>3, Zenon DEF x, r
<1>7. q.rows - Len(h.rows) = Len(RowsOf(t))
  BY <1>1, <1>6
<1>8. q.bytes - h.estimated = BytesOf(t)
  BY <1>1, <1>3, <1>4, <1>5
<1>9. pop_front(q) = [q EXCEPT !.pending = t, !.rows = @ - Len(h.rows), !.bytes = @ - h.estimated]
  BY Zenon DEF pop_front, t, h, s
<1>10. pop_front(q) = Requeued(q, t, Len(RowsOf(t)), BytesOf(t))
  BY <1>7, <1>8, <1>9, Zenon DEF Requeued
<1>11. Becomes(q, pop_front(q), RowsOf(t))
  BY <1>1, <1>3, <1>10, RequeuedOK, Zenon
<1>. QED  BY <1>11, Zenon DEF t, s

\* A part of a batch, with its estimate.
LEMMA Resized ==
    ASSUME NEW h \in [rows : Seq(Rows), estimated : Nat, level : Nat],
           NEW rows \in Seq(Rows), rows # <<>>
    PROVE  /\ [h EXCEPT !.rows = rows, !.estimated = estimated_batch_size(rows)] \in Batches
           /\ [h EXCEPT !.rows = rows, !.estimated = estimated_batch_size(rows)].rows = rows
           /\ [h EXCEPT !.rows = rows, !.estimated = estimated_batch_size(rows)].estimated
                = estimated_batch_size(rows)
<1>. DEFINE e == estimated_batch_size(rows)
            g == [h EXCEPT !.rows = rows, !.estimated = e]
<1>1. e \in Nat
  BY Estimates
<1>2. e = estimated_batch_size(rows)
  OBVIOUS
<1>. HIDE DEF e
<1>3. g \in [rows : Seq(Rows), estimated : Nat, level : Nat] /\ g.rows = rows /\ g.estimated = e
  BY <1>1, ZenonT(30)
<1>. HIDE DEF g
<1>4. g \in Batches
  BY <1>2, <1>3, Zenon DEF Batches
<1>. QED  BY <1>3, <1>4, Zenon DEF g, e

\* take_staging and split_pending: the first rows of the oldest batch are taken
\* out of the queue, and the others stay.
THEOREM Splits ==
    ASSUME NEW q, QueueOK(q), q.pending # <<>>, NEW n \in 1..Len(Head(q.pending).rows)
    PROVE  /\ Selected(Head(q.pending), n) \in Batches
           /\ Len(Selected(Head(q.pending), n).rows) = n
           /\ Selected(Head(q.pending), n).rows = SubSeq(Head(q.pending).rows, 1, n)
           /\ \E rest \in Seq(Rows) :
                /\ RowsOf(q.pending) = Selected(Head(q.pending), n).rows \o rest
                /\ Becomes(q, split_pending(pop_front(q), Head(q.pending), n), rest)
<1>. DEFINE h == Head(q.pending)
            r == RowsOf(Tail(q.pending))
            x == h.rows
            p == pop_front(q)
<1>1. q.pending \in Seq(Batches)
  BY DEF QueueOK, QueueTypes
<1>2. h \in Batches /\ x \in Seq(Rows) /\ r \in Seq(Rows) /\ RowsOf(q.pending) = x \o r
  BY <1>1, FirstBatch, Zenon
<1>3. Becomes(q, p, r)
  BY Pops
<1>. HIDE DEF h, r, p
<1>4. n \in 1..Len(x) /\ Len(x) \in Nat
  BY <1>2, LenProperties, Zenon DEF h
<1>5. CASE n = Len(x)
  <2>1. Selected(h, n) = h /\ split_pending(p, h, n) = p
    BY <1>5 DEF Selected, split_pending
  <2>2. SubSeq(x, 1, n) = x
    BY <1>2, <1>5, SubSeqFull
  <2>. QED  BY <1>2, <1>3, <1>5, <2>1, <2>2, Zenon DEF h, p
<1>6. CASE n # Len(x)
  <2>. DEFINE a == SubSeq(x, 1, n)
              b == SubSeq(x, n + 1, Len(x))
              m == Remainder(h, n)
              e == estimated_batch_size(a)
  <2>1. a \in Seq(Rows) /\ b \in Seq(Rows) /\ Len(a) = n /\ Len(b) = Len(x) - n /\ a \o b = x
    <3>1. n \in 0..Len(x)
      BY <1>4
    <3>. QED  BY <1>2, <3>1, Cut
  <2>2. /\ h \in [rows : Seq(Rows), estimated : Nat, level : Nat]
        /\ h.estimated = estimated_batch_size(x) /\ h.rows = x /\ h.level \in Nat
    BY <1>2 DEF Batches
  <2>. HIDE DEF x
  <2>a. Selected(h, n) = Prefix(h, n) /\ split_pending(p, h, n) = push_front(p, m)
    BY <1>6, <2>2 DEF Selected, split_pending
  <2>b. Prefix(h, n) = [h EXCEPT !.rows = a, !.estimated = e]
    BY <2>2, Zenon DEF Prefix
  <2>c. m = [h EXCEPT !.rows = b, !.estimated = @ - Prefix(h, n).estimated]
    BY <2>2, Zenon DEF Remainder
  <2>. HIDE DEF a, b, m
  <2>4. estimated_batch_size(x) = e + estimated_batch_size(b)
    BY <2>1, Estimates, Zenon
  <2>5. e \in Nat /\ estimated_batch_size(b) \in Nat
    BY <2>1, Estimates, Zenon
  <2>. HIDE DEF e
  <2>6. estimated_batch_size(x) - e = estimated_batch_size(b)
    BY <2>4, <2>5
  <2>7. a # <<>> /\ b # <<>>
    BY <1>4, <1>6, <2>1
  <2>8. Selected(h, n) \in Batches /\ Selected(h, n).rows = a /\ Prefix(h, n).estimated = e
    <3>1. /\ [h EXCEPT !.rows = a, !.estimated = e] \in Batches
          /\ [h EXCEPT !.rows = a, !.estimated = e].rows = a
          /\ [h EXCEPT !.rows = a, !.estimated = e].estimated = e
      BY <2>1, <2>2, <2>7, Resized, Zenon DEF e
    <3>. QED  BY <2>a, <2>b, <3>1, Zenon
  <2>9. m \in Batches /\ m.rows = b
    <3>1. m = [h EXCEPT !.rows = b, !.estimated = estimated_batch_size(b)]
      BY <2>2, <2>c, <2>6, <2>8, Zenon
    <3>. QED  BY <2>1, <2>2, <2>7, <3>1, Resized, Zenon
  <2>10. QueueOK(p) /\ RowsOf(p.pending) = r /\ p.exhausted = q.exhausted /\ p.read = q.read
    BY <1>3 DEF Becomes
  <2>11. Becomes(p, push_front(p, m), b \o r)
    BY <2>9, <2>10, Pushes, Zenon
  <2>12. Becomes(q, split_pending(p, h, n), b \o r)
    BY <2>a, <2>10, <2>11, Zenon DEF Becomes
  <2>13. b \o r \in Seq(Rows)
    BY <1>2, <2>1, ConcatProperties
  <2>14. (a \o b) \o r = a \o (b \o r)
    <3>1. a \in Seq(Rows) /\ b \in Seq(Rows) /\ r \in Seq(Rows)
      BY <1>2, <2>1
    <3>. QED  BY <3>1, ConcatAssociative
  <2>15. RowsOf(q.pending) = a \o (b \o r)
    BY <1>2, <2>1, <2>14, Zenon
  <2>16. a = SubSeq(x, 1, n)
    BY DEF a
  <2>. QED  BY <2>1, <2>8, <2>12, <2>13, <2>15, <2>16, Zenon DEF h, p, x
<1>. QED  BY <1>5, <1>6, Zenon

\* read_batch: what is queued.
LEMMA Reads ==
    ASSUME NEW rows \in Seq(Rows), rows # <<>>
    PROVE  Batch(rows, 0) \in Batches /\ Batch(rows, 0).rows = rows
  BY Estimates DEF Batch, Batches

\* compact_pending_batches: one compaction keeps the rows, their order and the
\* counters of the queue.
THEOREM Compacts ==
    ASSUME NEW q, QueueOK(q), Compactable(q)
    PROVE  Becomes(q, Compacted(q), RowsOf(q.pending))
<1>. DEFINE s == q.pending
            n == Len(s) - Fanout
            a == SubSeq(s, 1, n)
            b == Newest(q)
<1>1. q \in QueueTypes /\ q.rows = Len(RowsOf(s)) /\ q.bytes = BytesOf(s) /\ s \in Seq(Batches)
  BY DEF QueueOK, QueueTypes
<1>2. Len(s) \in Nat /\ Fanout \in Nat \ {0} /\ Len(s) >= Fanout /\ n \in 0..Len(s) /\ Len(s) - n = Fanout
  BY <1>1, QueueAssumption, LenProperties DEF Compactable
<1>3. b = SubSeq(s, n + 1, Len(s))
  BY DEF Newest
<1>4. a \in Seq(Batches) /\ b \in Seq(Batches) /\ Len(b) = Fanout /\ a \o b = s
  <2>. HIDE DEF s, n, b
  <2>. DEFINE u == SubSeq(s, n + 1, Len(s))
  <2>1. a \in Seq(Batches) /\ u \in Seq(Batches) /\ Len(u) = Len(s) - n /\ a \o u = s
    <3>1. s \in Seq(Batches) /\ n \in 0..Len(s)
      BY <1>1, <1>2
    <3>. QED  BY <3>1, Cut, Zenon
  <2>. QED  BY <1>2, <1>3, <2>1, Zenon
<1>5. Last(s) \in Batches
  <2>1. Len(s) \in 1..Len(s)
    BY <1>2
  <2>. QED  BY <1>1, <2>1, ElementOfSeq DEF Last
<1>. DEFINE l == Last(s).level
            c == [rows |-> RowsOf(b), estimated |-> BytesOf(b), level |-> l + 1]
            d == a \o <<c>>
<1>6. l \in Nat
  BY <1>5 DEF Batches
<1>7. Compacted(q) = [q EXCEPT !.pending = Append(a, c)]
  BY DEF Compacted
<1>. HIDE DEF s, n, a, b, l
<1>8. RowsOf(b) \in Seq(Rows) /\ RowsOf(b) # <<>>
  <2>1. b # <<>>
    BY <1>2, <1>4
  <2>2. RowsOf(b) # <<>>
    BY <1>4, <2>1, NoRows
  <2>3. RowsOf(b) \in Seq(Rows)
    BY <1>4, BatchRows
  <2>. QED  BY <2>2, <2>3
<1>9. BytesOf(b) \in Nat /\ BytesOf(b) = estimated_batch_size(RowsOf(b))
  BY <1>4, BatchBytes, BytesOfRows, Zenon
<1>10. c \in Batches /\ c.rows = RowsOf(b) /\ c.estimated = BytesOf(b)
  BY <1>6, <1>8, <1>9 DEF Batches
<1>. HIDE DEF c
<1>11. Append(a, c) = d /\ d \in Seq(Batches) /\ <<c>> \in Seq(Batches)
  <2>1. <<c>> \in Seq(Batches)
    BY <1>10
  <2>2. Append(a, c) = d
    BY <1>4, <1>10, AppendIsConcat, Zenon
  <2>3. d \in Seq(Batches)
    BY <1>4, <2>1, ConcatProperties
  <2>. QED  BY <2>1, <2>2, <2>3
<1>12. RowsOf(d) = RowsOf(s)
  <2>1. RowsOf(d) = RowsOf(a) \o RowsOf(<<c>>) /\ RowsOf(<<c>>) = c.rows
    BY <1>4, <1>10, <1>11, BatchRows, Zenon
  <2>2. RowsOf(s) = RowsOf(a) \o RowsOf(b)
    BY <1>4, BatchRows, Zenon
  <2>. QED  BY <1>10, <2>1, <2>2, Zenon
<1>13. BytesOf(d) = BytesOf(s)
  <2>1. BytesOf(d) = BytesOf(a) + BytesOf(<<c>>) /\ BytesOf(<<c>>) = c.estimated
    BY <1>4, <1>10, <1>11, BatchBytes, Zenon
  <2>2. BytesOf(s) = BytesOf(a) + BytesOf(b)
    BY <1>4, BatchBytes, Zenon
  <2>. QED  BY <1>10, <2>1, <2>2, Zenon
<1>14. RowsOf(s) \in Seq(Rows)
  BY <1>1, BatchRows
<1>. HIDE DEF d
<1>15. Compacted(q) = Requeued(q, d, Len(RowsOf(s)), BytesOf(d))
  BY <1>1, <1>7, <1>11, <1>13, Zenon DEF Requeued, QueueTypes
<1>16. Becomes(q, Compacted(q), RowsOf(s))
  BY <1>1, <1>11, <1>12, <1>14, <1>15, RequeuedOK, Zenon
<1>. QED  BY <1>16, Zenon DEF s

-----------------------------------------------------------------------------
(* The inductive invariant.                                                *)

Phases == {"build", "compact", "take", "search", "staged", "encode", "close", "upload", "join", "end", "failed"}

\* What the rows of an ingest depend on: a window has its rows and their
\* estimate, however they are encoded, and a stage what was taken and may be.
WindowOK(w) ==
    /\ {"rows", "estimated"} \subseteq DOMAIN w
    /\ w.rows \in Seq(Rows) /\ w.estimated \in Nat
StageOK(s) ==
    /\ {"staged", "rows", "bytes", "low", "high"} \subseteq DOMAIN s
    /\ s.staged \in Seq(Batches)
    /\ s.rows \in Nat /\ s.bytes \in Nat /\ s.low \in Nat /\ s.high \in Nat
TypeInv ==
    /\ source \in Seq(SourceBatches) /\ target \in Nat
    /\ QueueOK(queue) /\ queue.read <= Len(source)
    /\ StageOK(stage) /\ WindowOK(window)
    /\ phase \in Phases /\ copied \in Seq(Rows)

\* The rows that were taken from the source, in their places.
Line(a, b, c, d, e) == a \o b \o c \o d \o e
Held == Line(copied, window.rows, RowsOf(stage.staged), RowsOf(queue.pending), Unread)
RowsInv ==
    /\ phase # "failed" => Held = RowsOf(source)
    /\ queue.exhausted => queue.read = Len(source)
    /\ phase \notin {"take", "search", "staged", "encode", "failed"} => stage = NoStage
    /\ phase = "end" => window.rows = <<>> /\ NextRow = <<>>

\* What the window and the staged rows may have of their budget.
Fits(rows, bytes) ==
    /\ target = Automatic => bytes <= WindowBudget \/ Len(rows) = 1
    /\ target # Automatic => Len(rows) <= target
Closed ==
    \/ NextRow = <<>>
    \/ target # Automatic /\ Len(window.rows) = target
    \/ should_finish_automatic_window(window)
    \/ Weight(NextRow[1]) > StageBytes

\* While rows are taken: what was taken and what may be are the round's target,
\* or one row that fits no target was taken.
Taking ==
    /\ HasTarget
    /\ Len(RowsOf(stage.staged)) + stage.rows = RowsLeft
    /\ \/ BytesOf(stage.staged) + stage.bytes = StageBytes
       \/ window.rows = <<>> /\ Len(RowsOf(stage.staged)) = 1 /\ stage.bytes = 0
    /\ stage.staged = <<>> => queue.pending # <<>>

\* The binary search: low rows fit, and one more than high does not.
Searching ==
    /\ queue.pending # <<>> /\ stage.rows > 0
    /\ stage.low <= stage.high /\ stage.high <= Len(Oldest.rows)
    /\ estimated_batch_size(SubSeq(Oldest.rows, 1, stage.low)) <= stage.bytes
    /\ IF stage.high = Len(Oldest.rows) THEN Oldest.estimated > stage.bytes
       ELSE estimated_batch_size(SubSeq(Oldest.rows, 1, stage.high + 1)) > stage.bytes

BudgetInv ==
    /\ phase # "failed" =>
          Fits(window.rows, window.estimated) /\ window.estimated = estimated_batch_size(window.rows)
    /\ phase \in {"take", "search"} => Taking
    /\ phase = "search" => Searching
    /\ phase \in {"staged", "encode"} /\ stage.staged # <<>> =>
          Fits(window.rows \o RowsOf(stage.staged), window.estimated + BytesOf(stage.staged))
    /\ phase = "encode" => stage.staged # <<>>
    /\ phase = "staged" /\ stage.staged = <<>> => Closed /\ window.rows # <<>>
    /\ phase \in {"close", "upload"} => Closed
    /\ phase = "close" /\ window.rows = <<>> => NextRow = <<>>

IInv == TypeInv /\ RowsInv /\ BudgetInv

-----------------------------------------------------------------------------
(* What the steps of the scheduler do to the rows and to the budget.       *)

\* Sequences over S, by a name.
Over(s, S) == s \in Seq(S)

\* Concatenation stays over the set.
LEMMA OverConcat ==
    ASSUME NEW S, NEW s, NEW t, Over(s, S), Over(t, S)
    PROVE  Over(s \o t, S)
  BY ConcatProperties, Zenon DEF Over

\* Concatenation is associative.
LEMMA OverAssociative ==
    ASSUME NEW S, NEW s, NEW t, NEW u, Over(s, S), Over(t, S), Over(u, S)
    PROVE  (s \o t) \o u = s \o (t \o u)
  BY ConcatAssociative DEF Over

\* Nothing at either end changes nothing.
LEMMA OverEmpty ==
    ASSUME NEW S, NEW s, Over(s, S)
    PROVE  s \o <<>> = s /\ <<>> \o s = s
  BY ConcatEmptySeq, Zenon DEF Over

\* Rows that move from one place of Held to the place before it.
LEMMA Shifts ==
    ASSUME NEW S, NEW a, NEW b, NEW c, NEW d, NEW e, NEW x,
           Over(a, S), Over(b, S), Over(c, S), Over(d, S), Over(e, S), Over(x, S)
    PROVE  /\ Line(a, b, c, d, x \o e) = Line(a, b, c, d \o x, e)
           /\ Line(a, b, c, x \o d, e) = Line(a, b, c \o x, d, e)
           /\ Line(a, b \o c, <<>>, d, e) = Line(a, b, c, d, e)
           /\ Line(a \o b, <<>>, c, d, e) = Line(a, b, c, d, e)
<1>. DEFINE p == a \o b
            q == p \o c
            r == q \o d
<1>1. Over(p, S)
  BY OverConcat, Zenon
<1>2. (a \o b) \o c = a \o (b \o c)
  BY OverAssociative, SMTT(30)
<1>3. p \o <<>> = p
  BY <1>1, OverEmpty, Zenon
<1>. HIDE DEF p
<1>4. Over(q, S)
  BY <1>1, OverConcat, Zenon
<1>5. q \o <<>> = q
  BY <1>4, OverEmpty, Zenon
<1>6. (p \o c) \o x = p \o (c \o x)
  BY <1>1, OverAssociative, SMTT(30)
<1>. HIDE DEF q
<1>7. Over(r, S)
  BY <1>4, OverConcat, Zenon
<1>8. (q \o d) \o x = q \o (d \o x)
  BY <1>4, OverAssociative, SMTT(30)
<1>9. (q \o x) \o d = q \o (x \o d)
  BY <1>4, OverAssociative, SMTT(30)
<1>. HIDE DEF r
<1>10. (r \o x) \o e = r \o (x \o e)
  BY <1>7, OverAssociative, SMTT(30)
<1>11. a \o b \o c \o d \o (x \o e) = a \o b \o c \o (d \o x) \o e
  BY <1>8, <1>10, Zenon DEF r, q, p
<1>12. a \o b \o c \o (x \o d) \o e = a \o b \o (c \o x) \o d \o e
  BY <1>6, <1>9, Zenon DEF q, p
<1>13. a \o (b \o c) \o <<>> \o d \o e = a \o b \o c \o d \o e
  BY <1>2, <1>5, Zenon DEF q, p
<1>14. (a \o b) \o <<>> \o c \o d \o e = a \o b \o c \o d \o e
  BY <1>3, Zenon DEF p
<1>. QED  BY <1>11, <1>12, <1>13, <1>14, Zenon DEF Line

\* Rows that were read are the last of the pending ones.
LEMMA RowsRead ==
    ASSUME NEW S, NEW a, NEW b, NEW c, NEW d, NEW e, NEW x,
           Over(a, S), Over(b, S), Over(c, S), Over(d, S), Over(e, S), Over(x, S)
    PROVE  Line(a, b, c, d, x \o e) = Line(a, b, c, d \o x, e)
  BY Shifts

\* Rows that were taken are the last of the staged ones.
LEMMA RowsTaken ==
    ASSUME NEW S, NEW a, NEW b, NEW c, NEW d, NEW e, NEW x,
           Over(a, S), Over(b, S), Over(c, S), Over(d, S), Over(e, S), Over(x, S)
    PROVE  Line(a, b, c, x \o d, e) = Line(a, b, c \o x, d, e)
  BY Shifts

\* Rows that were appended are the window's.
LEMMA RowsAppended ==
    ASSUME NEW S, NEW a, NEW b, NEW c, NEW d, NEW e,
           Over(a, S), Over(b, S), Over(c, S), Over(d, S), Over(e, S)
    PROVE  Line(a, b \o c, <<>>, d, e) = Line(a, b, c, d, e)
  BY Shifts

\* Rows that were confirmed are the last of the copied ones.
LEMMA RowsConfirmed ==
    ASSUME NEW S, NEW a, NEW b, NEW c, NEW d, NEW e,
           Over(a, S), Over(b, S), Over(c, S), Over(d, S), Over(e, S)
    PROVE  Line(a \o b, <<>>, c, d, e) = Line(a, b, c, d, e)
  BY Shifts

\* The parts of Held are sequences of rows.
LEMMA HeldTypes ==
    ASSUME TypeInv
    PROVE  /\ HasRows(SourceBatches)
           /\ source \in Seq(SourceBatches) /\ queue.read \in 0..Len(source) /\ Len(source) \in Nat
           /\ queue.pending \in Seq(Batches) /\ stage.staged \in Seq(Batches)
           /\ copied \in Seq(Rows) /\ window.rows \in Seq(Rows) /\ RowsOf(stage.staged) \in Seq(Rows)
           /\ RowsOf(queue.pending) \in Seq(Rows) /\ Unread \in Seq(Rows)
           /\ RowsOf(source) \in Seq(Rows)
<1>1. HasRows(SourceBatches)
  BY DEF HasRows, SourceBatches
<1>2. source \in Seq(SourceBatches) /\ Len(source) \in Nat /\ queue.read \in 0..Len(source)
  <2>1. source \in Seq(SourceBatches) /\ queue.read \in Nat /\ queue.read <= Len(source)
    BY DEF TypeInv, QueueOK, QueueTypes
  <2>2. Len(source) \in Nat
    BY <2>1, LenProperties
  <2>. QED  BY <2>1, <2>2
<1>3. /\ queue.pending \in Seq(Batches) /\ stage.staged \in Seq(Batches)
      /\ copied \in Seq(Rows) /\ window.rows \in Seq(Rows)
  BY DEF TypeInv, QueueOK, QueueTypes, StageOK, WindowOK
<1>4. RowsOf(stage.staged) \in Seq(Rows) /\ RowsOf(queue.pending) \in Seq(Rows)
  BY <1>3, BatchRows, Zenon
<1>5. RowsOf(source) \in Seq(Rows)
  BY <1>1, <1>2, RowsOfConcat
<1>6. Unread \in Seq(Rows)
  <2>. DEFINE u == SubSeq(source, queue.read + 1, Len(source))
  <2>1. u \in Seq(SourceBatches)
    BY <1>2, Cut
  <2>. HIDE DEF u
  <2>2. RowsOf(u) \in Seq(Rows)
    BY <1>1, <2>1, RowsOfConcat
  <2>. QED  BY <2>2, Zenon DEF Unread, u
<1>. QED  BY <1>1, <1>2, <1>3, <1>4, <1>5, <1>6, Zenon

\* The next batch of the source: what is unread is its rows and the others.
LEMMA NextUnread ==
    ASSUME TypeInv, queue.read # Len(source), NEW n \in Nat, n = queue.read + 1
    PROVE  /\ NextBatch \in SourceBatches /\ n <= Len(source)
           /\ RowsOf(SubSeq(source, n + 1, Len(source))) \in Seq(Rows)
           /\ Unread = NextBatch.rows \o RowsOf(SubSeq(source, n + 1, Len(source)))
<1>1. /\ HasRows(SourceBatches) /\ source \in Seq(SourceBatches)
      /\ queue.read \in 0..Len(source) /\ Len(source) \in Nat
  BY HeldTypes, Zenon
<1>2. n \in 1..Len(source) /\ n \in 0..Len(source) /\ Len(source) \in n..Len(source) /\ n <= Len(source)
  BY <1>1
<1>. DEFINE u == SubSeq(source, n + 1, Len(source))
            b == source[n]
<1>3. b \in SourceBatches
  BY <1>1, <1>2, ElementOfSeq
<1>4. SubSeq(source, n, Len(source)) = <<b>> \o u
  BY <1>1, <1>2, SubSeqRecursiveFirst, Zenon
<1>5. u \in Seq(SourceBatches)
  BY <1>1, <1>2, Cut
<1>6. Unread = RowsOf(<<b>> \o u)
  BY <1>4, Zenon DEF Unread
<1>. HIDE DEF u, b
<1>7. <<b>> \in Seq(SourceBatches) /\ b.rows \in Seq(Rows)
  BY <1>1, <1>3 DEF HasRows
<1>8. RowsOf(<<b>> \o u) = RowsOf(<<b>>) \o RowsOf(u)
  BY <1>1, <1>5, <1>7, RowsOfConcat, Zenon
<1>9. RowsOf(u) \in Seq(Rows)
  BY <1>1, <1>5, RowsOfConcat
<1>10. RowsOf(<<b>>) = b.rows
  BY <1>7, RowsOfOne
<1>11. NextBatch = b
  BY Zenon DEF NextBatch, b
<1>. QED  BY <1>2, <1>3, <1>6, <1>8, <1>9, <1>10, <1>11, Zenon DEF u

\* The end of the source: nothing is unread.
LEMMA NoneUnread ==
    ASSUME TypeInv, queue.read = Len(source)
    PROVE  Unread = <<>>
<1>1. Len(source) \in Nat
  BY HeldTypes, Zenon
<1>2. SubSeq(source, Len(source) + 1, Len(source)) = <<>>
  BY <1>1, SubSeqEmpty
<1>. QED  BY <1>2, RowsOfNone, Zenon DEF Unread

\* The targets of a round are numbers, each within the one it was made from.
LEMMA Targets ==
    ASSUME TypeInv
    PROVE  /\ RowsLeft \in Int /\ BytesLeft \in Nat /\ StagingLeft \in Nat /\ StageBytes \in Nat
           /\ StageBytes <= StagingLeft /\ StagingLeft <= BytesLeft
           /\ StagingLeft > 0 => StageBytes > 0
           /\ target # Automatic => RowsLeft = target - Len(window.rows)
           /\ target = Automatic => RowsLeft > 0 /\ BytesLeft = Less(WindowBudget, window.estimated)
           /\ window.estimated = 0 => StagingLeft > 0
           /\ Len(window.rows) \in Nat /\ window.estimated \in Nat /\ target \in Nat
<1>1. target \in Nat /\ window.estimated \in Nat /\ window.rows \in Seq(Rows)
  BY DEF TypeInv, WindowOK
<1>2. Len(window.rows) \in Nat
  BY <1>1, LenProperties
<1>3. /\ WindowBudget \in Nat \ {0} /\ IncompressibleBudget \in Nat \ {0} /\ StagingBytes \in Nat \ {0}
      /\ CompactionMax \in Nat \ {0} /\ MaxUsize \in Nat \ {0}
  BY BudgetAssumption, QueueAssumption DEF MaxUsize
<1>4. RowsLeft \in Int /\ (target # Automatic => RowsLeft = target - Len(window.rows))
      /\ (target = Automatic => RowsLeft > 0)
  <2>1. CASE target = Automatic
    <3>1. RowsLeft = MaxUsize
      BY <2>1, Zenon DEF RowsLeft
    <3>2. MaxUsize \in Int /\ MaxUsize > 0
      BY <1>3
    <3>. QED  BY <2>1, <3>1, <3>2, Zenon
  <2>2. CASE target # Automatic
    <3>1. RowsLeft = target - Len(window.rows)
      BY <2>2, Zenon DEF RowsLeft
    <3>. DEFINE n == Len(window.rows)
    <3>2. target \in Nat /\ n \in Nat /\ RowsLeft = target - n
      BY <1>1, <1>2, <3>1, Zenon
    <3>. HIDE DEF n
    <3>3. RowsLeft \in Int
      BY <3>2
    <3>. QED  BY <2>2, <3>1, <3>3, Zenon
  <2>. QED  BY <2>1, <2>2, Zenon
<1>5. /\ BytesLeft \in Nat /\ (target = Automatic => BytesLeft = Less(WindowBudget, window.estimated))
      /\ (window.estimated = 0 => BytesLeft > 0)
  BY <1>1, <1>3 DEF BytesLeft, Less
<1>6. /\ StagingLeft \in Nat /\ StagingLeft <= BytesLeft
      /\ (window.estimated = 0 => StagingLeft > 0)
  <2>1. \/ StagingLeft = Least(Less(IncompressibleBudget, window.estimated), BytesLeft)
        \/ StagingLeft = BytesLeft
    BY Zenon DEF StagingLeft
  <2>. QED  BY <1>1, <1>3, <1>5, <2>1 DEF Less, Least
<1>7. StageBytes \in Nat /\ StageBytes <= StagingLeft /\ (StagingLeft > 0 => StageBytes > 0)
  BY <1>3, <1>6 DEF StageBytes, Least
<1>. QED  BY <1>1, <1>2, <1>4, <1>5, <1>6, <1>7

\* Rows have bytes, and a prefix of some rows has no more than they have.
LEMMA PrefixSize ==
    ASSUME NEW s \in Seq(Rows), NEW n \in 0..Len(s)
    PROVE  /\ estimated_batch_size(SubSeq(s, 1, n)) \in Nat
           /\ estimated_batch_size(SubSeq(s, 1, n)) <= estimated_batch_size(s)
           /\ n > 0 => estimated_batch_size(SubSeq(s, 1, n)) > 0
           /\ n = 1 => estimated_batch_size(SubSeq(s, 1, n)) = Weight(s[1])
<1>. DEFINE a == SubSeq(s, 1, n)
            b == SubSeq(s, n + 1, Len(s))
<1>1. a \in Seq(Rows) /\ b \in Seq(Rows) /\ Len(a) = n /\ a \o b = s
  BY Cut, Zenon
<1>2. Len(s) \in Nat /\ n \in Nat /\ n <= Len(s)
  BY LenProperties
<1>3. n > 0 => s[1] \in Rows /\ a = <<s[1]>> \o SubSeq(s, 2, n)
  <2>1. SUFFICES ASSUME n > 0 PROVE s[1] \in Rows /\ a = <<s[1]>> \o SubSeq(s, 2, n)
    OBVIOUS
  <2>2. 1 \in 1..Len(s) /\ n \in 1..Len(s) /\ 1 + 1 = 2
    BY <1>2, <2>1
  <2>3. a = <<s[1]>> \o SubSeq(s, 1 + 1, n)
    BY <2>2, SubSeqRecursiveFirst, Zenon
  <2>4. s[1] \in Rows
    BY <2>2, ElementOfSeq, Zenon
  <2>. QED  BY <2>2, <2>3, <2>4, Zenon
<1>4. SubSeq(s, 2, n) \in Seq(Rows)
  <2>1. \A i \in 2..n : i \in 1..Len(s)
    BY <1>2
  <2>2. \A i \in 2..n : s[i] \in Rows
    BY <2>1, ElementOfSeq, Zenon
  <2>. QED  BY <1>2, <2>2, SubSeqProperties
<1>5. n = 1 => SubSeq(s, 2, n) = <<>>
  BY SubSeqEmpty
<1>. DEFINE c == SubSeq(s, 2, n)
            r == s[1]
<1>. HIDE DEF a, b, c, r
<1>6. estimated_batch_size(s) = estimated_batch_size(a) + estimated_batch_size(b)
  BY <1>1, Estimates, Zenon
<1>7. estimated_batch_size(a) \in Nat /\ estimated_batch_size(b) \in Nat
  BY <1>1, Estimates, Zenon
<1>8. ASSUME n > 0
      PROVE  /\ estimated_batch_size(a) = Weight(r) + estimated_batch_size(c)
             /\ Weight(r) \in Nat \ {0} /\ estimated_batch_size(c) \in Nat
  <2>1. r \in Rows /\ a = <<r>> \o c /\ c \in Seq(Rows)
    BY <1>3, <1>4, <1>8, Zenon DEF r, c
  <2>2. <<r>> \in Seq(Rows)
    BY <2>1
  <2>3. Weight(r) \in Nat \ {0} /\ estimated_batch_size(<<r>>) = Weight(r)
    BY <2>1, Estimates, Zenon
  <2>4. estimated_batch_size(c) \in Nat
    BY <2>1, Estimates, Zenon
  <2>5. estimated_batch_size(a) = estimated_batch_size(<<r>>) + estimated_batch_size(c)
    BY <2>1, <2>2, Estimates, Zenon
  <2>. QED  BY <2>3, <2>4, <2>5, Zenon
<1>9. estimated_batch_size(a) <= estimated_batch_size(s)
  BY <1>6, <1>7
<1>10. n > 0 => estimated_batch_size(a) > 0
  BY <1>7, <1>8
<1>11. n = 1 => estimated_batch_size(a) = Weight(r)
  <2>1. SUFFICES ASSUME n = 1 PROVE estimated_batch_size(a) = Weight(r)
    OBVIOUS
  <2>2. estimated_batch_size(c) = 0
    BY <1>5, <2>1, Estimates, Zenon DEF c
  <2>. QED  BY <1>8, <2>1, <2>2
<1>. QED  BY <1>7, <1>9, <1>10, <1>11, Zenon DEF a, r

\* A prefix of a prefix.
LEMMA PrefixGrows ==
    ASSUME NEW s \in Seq(Rows), NEW m \in 0..Len(s), NEW n \in 0..m
    PROVE  /\ n \in 0..Len(s)
           /\ estimated_batch_size(SubSeq(s, 1, n)) <= estimated_batch_size(SubSeq(s, 1, m))
<1>1. Len(s) \in Nat /\ m \in Nat /\ n \in Nat /\ n <= m /\ m <= Len(s) /\ n \in 0..Len(s)
  BY LenProperties
<1>. DEFINE p == SubSeq(s, 1, m)
            a == SubSeq(s, 1, n)
            b == SubSeq(s, n + 1, m)
<1>2. a \o b = p
  <2>1. 1 \in 1..(Len(s) + 1) /\ n \in (1 - 1)..Len(s) /\ m \in n..Len(s)
    BY <1>1
  <2>. QED  BY <2>1, ConcatAdjacentSubSeq, Zenon
<1>3. a \in Seq(Rows)
  BY <1>1, Cut, Zenon
<1>4. b \in Seq(Rows)
  <2>1. \A i \in (n + 1)..m : i \in 1..Len(s)
    BY <1>1
  <2>2. \A i \in (n + 1)..m : s[i] \in Rows
    BY <2>1, ElementOfSeq, Zenon
  <2>. QED  BY <1>1, <2>2, SubSeqProperties
<1>. HIDE DEF p, a, b
<1>5. estimated_batch_size(p) = estimated_batch_size(a) + estimated_batch_size(b)
  BY <1>2, <1>3, <1>4, Estimates, Zenon
<1>6. estimated_batch_size(a) \in Nat /\ estimated_batch_size(b) \in Nat
  BY <1>3, <1>4, Estimates, Zenon
<1>7. estimated_batch_size(a) <= estimated_batch_size(p)
  BY <1>5, <1>6
<1>. QED  BY <1>1, <1>7, Zenon DEF a, p

\* SourceEnds, SourceFails.
LEMMA SourceEndsStep ==
    ASSUME IInv, SourceEnds
    PROVE  IInv'
<1>1. /\ phase = "build" /\ phase' = phase /\ queue.read = Len(source)
      /\ queue' = [queue EXCEPT !.exhausted = TRUE]
      /\ UNCHANGED <<source, target, stage, window, copied>> /\ UNCHANGED <<window, uploading>>
  BY DEF SourceEnds, Filling
<1>2. QueueOK(queue) /\ queue \in QueueTypes
  BY DEF IInv, TypeInv, QueueOK
<1>3. /\ queue' \in QueueTypes /\ queue'.pending = queue.pending /\ queue'.read = queue.read
      /\ queue'.rows = queue.rows /\ queue'.bytes = queue.bytes
  BY <1>1, <1>2, ZenonT(30) DEF QueueTypes
<1>4. TypeInv'
  <2>1. QueueOK(queue')
    BY <1>2, <1>3, Zenon DEF QueueOK
  <2>. QED  BY <1>1, <1>3, <2>1, Zenon DEF IInv, TypeInv
<1>5. RowsInv'
  <2>1. Held' = Held
    BY <1>1, <1>3, Zenon DEF Held, Unread
  <2>. QED  BY <1>1, <1>3, <2>1, Zenon DEF IInv, RowsInv
<1>6. BudgetInv'
  BY <1>1, Zenon DEF IInv, BudgetInv, Fits
<1>. QED  BY <1>4, <1>5, <1>6, Zenon DEF IInv

\* SourceFails: the ingest fails, and nothing is said of its rows.
LEMMA SourceFailsStep ==
    ASSUME IInv, SourceFails
    PROVE  IInv'
<1>1. /\ phase = "build" /\ phase' = "failed"
      /\ UNCHANGED <<source, target, queue, stage, window, copied>> /\ UNCHANGED <<window, uploading>>
  BY DEF SourceFails, Filling, building
<1>2. TypeInv'
  BY <1>1 DEF IInv, TypeInv, Phases
<1>3. RowsInv' /\ BudgetInv'
  BY <1>1, Zenon DEF IInv, RowsInv, BudgetInv
<1>. QED  BY <1>2, <1>3, Zenon DEF IInv

\* ReadBatch: the rows of a batch move from the unread to the pending ones.
LEMMA ReadBatchStep ==
    ASSUME IInv, ReadBatch
    PROVE  IInv'
<1>. DEFINE n == queue.read + 1
            q == [queue EXCEPT !.read = @ + 1]
            x == NextBatch.rows
            b == Batch(x, 0)
            e == RowsOf(SubSeq(source, n + 1, Len(source)))
<1>1. /\ phase = "build" /\ queue.read # Len(source) /\ ~queue.exhausted
      /\ UNCHANGED <<source, target, stage, window, copied>> /\ UNCHANGED <<window, uploading>>
      /\ \/ x = <<>> /\ queue' = q /\ phase' = phase
         \/ x # <<>> /\ queue' = push_back(q, b) /\ phase' = "compact"
  BY DEF ReadBatch, Filling, MustRead
<1>2. TypeInv /\ QueueOK(queue) /\ queue \in QueueTypes
  BY DEF IInv, TypeInv, QueueOK
<1>3. n \in Nat /\ n = queue.read + 1
  BY <1>2 DEF QueueTypes
<1>4. /\ NextBatch \in SourceBatches /\ n <= Len(source) /\ e \in Seq(Rows) /\ Unread = x \o e
  BY <1>1, <1>2, <1>3, NextUnread, Zenon
<1>5. x \in Seq(Rows)
  BY <1>4 DEF SourceBatches
<1>6. /\ q \in QueueTypes /\ q.pending = queue.pending /\ q.read = n /\ q.rows = queue.rows
      /\ q.bytes = queue.bytes /\ q.exhausted = queue.exhausted
  BY <1>2, <1>3 DEF QueueTypes
<1>7. QueueOK(q)
  BY <1>2, <1>6, Zenon DEF QueueOK
<1>. HIDE DEF n, q, x, e
<1>8. /\ QueueOK(queue') /\ queue'.read = n /\ queue'.exhausted = queue.exhausted
      /\ RowsOf(queue'.pending) = RowsOf(queue.pending) \o x
  <2>1. CASE x = <<>> /\ queue' = q
    <3>1. RowsOf(queue.pending) \o <<>> = RowsOf(queue.pending)
      <4>1. RowsOf(queue.pending) \in Seq(Rows)
        BY <1>2, HeldTypes, Zenon
      <4>. QED  BY <4>1, OverEmpty, Zenon DEF Over
    <3>. QED  BY <1>6, <1>7, <2>1, <3>1, Zenon
  <2>2. CASE x # <<>> /\ queue' = push_back(q, b)
    <3>1. b \in Batches /\ b.rows = x
      BY <1>5, <2>2, Reads, Zenon
    <3>. HIDE DEF b
    <3>2. Becomes(q, queue', RowsOf(q.pending) \o x)
      BY <1>7, <2>2, <3>1, Pushes, Zenon
    <3>. QED  BY <1>6, <3>2, Zenon DEF Becomes
  <2>. QED  BY <1>1, <2>1, <2>2, Zenon
<1>9. phase' \in {"build", "compact"}
  BY <1>1, Zenon
<1>10. TypeInv'
  <2>1. queue'.read <= Len(source)
    BY <1>4, <1>8
  <2>2. phase' \in Phases
    BY <1>9 DEF Phases
  <2>. QED  BY <1>1, <1>2, <1>8, <2>1, <2>2, Zenon DEF TypeInv
<1>11. Held' = Held
  <2>. DEFINE a == copied
              w == window.rows
              c == RowsOf(stage.staged)
              d == RowsOf(queue.pending)
  <2>1. Over(a, Rows) /\ Over(w, Rows) /\ Over(c, Rows) /\ Over(d, Rows) /\ Over(e, Rows) /\ Over(x, Rows)
    BY <1>2, <1>4, <1>5, HeldTypes, Zenon DEF Over
  <2>2. Held = Line(a, w, c, d, x \o e)
    BY <1>4, Zenon DEF Held
  <2>3. Unread' = e
    BY <1>1, <1>8, Zenon DEF Unread, e
  <2>4. Held' = Line(a, w, c, d \o x, e)
    BY <1>1, <1>8, <2>3, Zenon DEF Held
  <2>. HIDE DEF a, w, c, d
  <2>5. Line(a, w, c, d, x \o e) = Line(a, w, c, d \o x, e)
    BY <2>1, RowsRead
  <2>. QED  BY <2>2, <2>4, <2>5, Zenon
<1>12. RowsInv'
  <2>1. phase # "failed" /\ phase' # "failed" /\ phase' # "end" /\ stage = NoStage
    BY <1>1, <1>9, Zenon DEF IInv, RowsInv
  <2>. QED  BY <1>1, <1>8, <1>11, <2>1, Zenon DEF IInv, RowsInv
<1>13. BudgetInv'
  BY <1>1, <1>9, Zenon DEF IInv, BudgetInv, Fits
<1>. QED  BY <1>10, <1>12, <1>13, Zenon DEF IInv

\* CompactPending.
LEMMA CompactPendingStep ==
    ASSUME IInv, CompactPending
    PROVE  IInv'
<1>1. /\ phase = "compact" /\ phase' \in {"compact", "build"}
      /\ UNCHANGED <<source, target, stage, window, copied>> /\ UNCHANGED <<window, uploading>>
      /\ (Compactable(queue) /\ queue' = Compacted(queue)) \/ queue' = queue
  BY DEF CompactPending
<1>2. TypeInv /\ QueueOK(queue) /\ queue \in QueueTypes
  BY DEF IInv, TypeInv, QueueOK
<1>3. /\ QueueOK(queue') /\ queue'.read = queue.read /\ queue'.exhausted = queue.exhausted
      /\ RowsOf(queue'.pending) = RowsOf(queue.pending)
  BY <1>1, <1>2, Compacts, Zenon DEF Becomes
<1>4. TypeInv'
  <2>1. phase' \in Phases
    BY <1>1 DEF Phases
  <2>. QED  BY <1>1, <1>2, <1>3, <2>1, Zenon DEF TypeInv
<1>5. RowsInv'
  <2>1. Held' = Held
    BY <1>1, <1>3, Zenon DEF Held, Unread
  <2>2. phase # "failed" /\ phase' # "failed" /\ phase' # "end" /\ stage = NoStage
    BY <1>1, Zenon DEF IInv, RowsInv
  <2>. QED  BY <1>1, <1>3, <2>1, <2>2, Zenon DEF IInv, RowsInv
<1>6. BudgetInv'
  BY <1>1, Zenon DEF IInv, BudgetInv, Fits
<1>. QED  BY <1>4, <1>5, <1>6, Zenon DEF IInv

\* The next row: it is the first of the oldest pending batch.
LEMMA NextRows ==
    ASSUME TypeInv
    PROVE  /\ NextRow \in Seq(Rows)
           /\ NextRow # <<>> => Weight(NextRow[1]) \in Nat \ {0}
           /\ NextRow = <<>> <=> queue.pending = <<>> /\ Unread = <<>>
           /\ queue.pending # <<>> =>
                /\ Oldest \in Batches /\ Oldest.rows \in Seq(Rows) /\ Oldest.rows # <<>>
                /\ Len(Oldest.rows) \in Nat \ {0} /\ Oldest.estimated = estimated_batch_size(Oldest.rows)
                /\ NextRow # <<>> /\ NextRow[1] = Oldest.rows[1]
<1>. DEFINE s == queue.pending
            d == RowsOf(s)
            e == Unread
<1>1. s \in Seq(Batches) /\ d \in Seq(Rows) /\ e \in Seq(Rows)
  BY HeldTypes, Zenon
<1>2. s # <<>> <=> d # <<>>
  BY <1>1, NoRows, Zenon
<1>3. NextRow = d \o e
  BY Zenon DEF NextRow
<1>4. ASSUME s # <<>>
      PROVE  /\ Oldest \in Batches /\ Oldest.rows \in Seq(Rows) /\ Oldest.rows # <<>>
             /\ Oldest.estimated = estimated_batch_size(Oldest.rows)
             /\ \E r \in Seq(Rows) : d = Oldest.rows \o r
  <2>1. Oldest \in Batches /\ Oldest.rows \in Seq(Rows) /\ \E r \in Seq(Rows) : d = Oldest.rows \o r
    BY <1>1, <1>4, FirstBatch, Zenon DEF Oldest
  <2>. QED  BY <2>1 DEF Batches
<1>. HIDE DEF s, d, e
<1>5. d \o e \in Seq(Rows)
  BY <1>1, ConcatProperties
<1>6. d \o e = <<>> <=> d = <<>> /\ e = <<>>
  BY <1>1, ConcatEqualIffEmpty
<1>7. ASSUME NextRow # <<>>  PROVE Weight(NextRow[1]) \in Nat \ {0}
  <2>. DEFINE u == NextRow
  <2>1. u \in Seq(Rows) /\ u # <<>>
    BY <1>3, <1>5, <1>7, Zenon
  <2>. HIDE DEF u
  <2>2. Head(u) \in Rows /\ Head(u) = u[1]
    BY <2>1, CutFirst, Zenon
  <2>3. Weight(u[1]) \in Nat \ {0}
    BY <2>2, Estimates, Zenon
  <2>. QED  BY <2>3, Zenon DEF u
<1>8. ASSUME s # <<>>
      PROVE  Len(Oldest.rows) \in Nat \ {0} /\ NextRow # <<>> /\ NextRow[1] = Oldest.rows[1]
  <2>. DEFINE o == Oldest.rows
  <2>1. o \in Seq(Rows) /\ o # <<>>
    BY <1>4, <1>8, Zenon
  <2>2. PICK r \in Seq(Rows) : d = o \o r
    BY <1>4, <1>8, Zenon
  <2>. HIDE DEF o
  <2>3. Len(o) \in Nat \ {0}
    BY <2>1, EmptySeq
  <2>4. (o \o r) \o e = o \o (r \o e) /\ Over(r \o e, Rows)
    <3>1. Over(o, Rows) /\ Over(r, Rows) /\ Over(e, Rows)
      BY <1>1, <2>1, Zenon DEF Over
    <3>2. Over(r \o e, Rows)
      BY <3>1, OverConcat, Zenon
    <3>3. (o \o r) \o e = o \o (r \o e)
      BY <3>1, OverAssociative
    <3>. QED  BY <3>2, <3>3, Zenon
  <2>. DEFINE f == r \o e
  <2>5. f \in Seq(Rows) /\ NextRow = o \o f
    BY <1>3, <2>2, <2>4, Zenon DEF Over
  <2>. HIDE DEF f
  <2>6. \A i \in 1..(Len(o) + Len(f)) : (o \o f)[i] = IF i <= Len(o) THEN o[i] ELSE f[i - Len(o)]
    BY <2>1, <2>5, ConcatProperties
  <2>7. Len(f) \in Nat
    BY <2>5, LenProperties
  <2>8. 1 \in 1..(Len(o) + Len(f)) /\ 1 <= Len(o)
    BY <2>3, <2>7
  <2>9. (o \o f)[1] = o[1]
    BY <2>6, <2>8, Zenon
  <2>10. d \o e # <<>>
    BY <1>2, <1>6, <1>8, Zenon
  <2>. QED  BY <1>3, <2>3, <2>5, <2>9, <2>10, Zenon DEF o
<1>. QED  BY <1>2, <1>3, <1>4, <1>5, <1>6, <1>7, <1>8, Zenon DEF s, e

\* RoundEnds: a window is closed without a row only at the end of the source.
LEMMA RoundEndsStep ==
    ASSUME IInv, RoundEnds
    PROVE  IInv'
<1>1. /\ phase = "build" /\ phase' = "close"
      /\ source' = source /\ target' = target /\ queue' = queue /\ stage' = stage
      /\ window' = window /\ copied' = copied /\ UNCHANGED <<window, uploading>>
      /\ ~HasTarget \/ (~MustRead /\ queue.rows = 0)
  BY DEF RoundEnds, building
<1>2. TypeInv'
  BY <1>1 DEF IInv, TypeInv, Phases
<1>3. RowsInv'
  BY <1>1, Zenon DEF IInv, RowsInv, Held, Unread
<1>4. TypeInv /\ QueueOK(queue) /\ Fits(window.rows, window.estimated)
      /\ window.estimated = estimated_batch_size(window.rows)
      /\ (queue.exhausted => queue.read = Len(source))
  BY <1>1, Zenon DEF IInv, TypeInv, BudgetInv, RowsInv
<1>5. ASSUME HasTarget  PROVE NextRow = <<>>
  <2>1. queue.rows = 0 /\ ~MustRead
    BY <1>1, <1>5, Zenon
  <2>2. queue.pending = <<>>
    <3>1. Len(RowsOf(queue.pending)) = 0 /\ RowsOf(queue.pending) \in Seq(Rows)
      BY <1>4, <2>1, HeldTypes, Zenon DEF QueueOK
    <3>2. RowsOf(queue.pending) = <<>>
      BY <3>1, EmptySeq
    <3>3. queue.pending \in Seq(Batches)
      BY <1>4, HeldTypes, Zenon
    <3>. QED  BY <3>2, <3>3, NoRows, Zenon
  <2>3. queue.bytes = 0
    BY <1>4, <2>2, BatchBytes, Zenon DEF QueueOK
  <2>4. queue.rows < RowsLeft /\ queue.bytes < StageBytes
    <3>1. StagingLeft > 0 => StageBytes > 0
      BY <1>4, Targets, Zenon
    <3>. QED  BY <1>5, <2>1, <2>3, <3>1 DEF HasTarget
  <2>5. queue.exhausted
    BY <2>1, <2>4, Zenon DEF MustRead
  <2>6. Unread = <<>>
    BY <1>4, <2>5, NoneUnread, Zenon
  <2>. QED  BY <1>4, <2>2, <2>6, NextRows, Zenon
<1>6. ASSUME window.rows = <<>>  PROVE NextRow = <<>>
  <2>1. Len(window.rows) = 0 /\ window.estimated = 0
    BY <1>4, <1>6, Estimates, EmptySeq, Zenon
  <2>2. StagingLeft > 0 /\ target \in Nat /\ (target # Automatic => RowsLeft = target - 0)
        /\ (target = Automatic => RowsLeft > 0)
    BY <1>4, <2>1, Targets, Zenon
  <2>3. HasTarget
    BY <2>2 DEF HasTarget, Automatic
  <2>. QED  BY <1>5, <2>3, Zenon
<1>7. Closed
  <2>1. CASE HasTarget
    BY <1>5, <2>1, Zenon DEF Closed
  <2>2. CASE ~(RowsLeft > 0)
    <3>. DEFINE n == Len(window.rows)
    <3>1. /\ n \in Nat /\ target \in Nat /\ RowsLeft \in Int /\ (target # Automatic => RowsLeft = target - n)
          /\ (target = Automatic => RowsLeft > 0)
      BY <1>4, Targets, Zenon
    <3>2. target # Automatic => n <= target
      BY <1>4, Zenon DEF Fits
    <3>. HIDE DEF n
    <3>3. target # Automatic /\ n = target
      BY <2>2, <3>1, <3>2
    <3>. QED  BY <3>3, Zenon DEF Closed, n
  <2>3. CASE ~(StagingLeft > 0)
    <3>1. StagingLeft \in Nat /\ StageBytes \in Nat /\ StageBytes <= StagingLeft
      BY <1>4, Targets, Zenon
    <3>2. StageBytes = 0
      BY <2>3, <3>1
    <3>3. NextRow # <<>> => Weight(NextRow[1]) > 0
      <4>1. NextRow # <<>> => Weight(NextRow[1]) \in Nat \ {0}
        BY <1>4, NextRows, Zenon
      <4>. QED  BY <4>1
    <3>. QED  BY <3>2, <3>3, Zenon DEF Closed
  <2>. QED  BY <2>1, <2>2, <2>3, Zenon DEF HasTarget
<1>8. BudgetInv'
  <2>1. Closed' /\ Fits(window.rows, window.estimated)' /\ NextRow' = NextRow
    BY <1>1, <1>4, <1>7 DEF Closed, Fits, NextRow, Unread, should_finish_automatic_window,
       StageBytes, StagingLeft, BytesLeft
  <2>. QED  BY <1>1, <1>4, <1>6, <2>1, Zenon DEF BudgetInv
<1>. QED  BY <1>2, <1>3, <1>8, Zenon DEF IInv

\* No rows staged.
LEMMA NoStageType == StageOK(NoStage) /\ NoStage.staged = <<>>
  BY DEF NoStage, StageOK

\* TakeStarts.
LEMMA TakeStartsStep ==
    ASSUME IInv, TakeStarts
    PROVE  IInv'
<1>1. /\ phase = "build" /\ phase' = "take" /\ HasTarget /\ queue.rows # 0
      /\ source' = source /\ target' = target /\ queue' = queue
      /\ stage' = [NoStage EXCEPT !.rows = RowsLeft, !.bytes = StageBytes]
      /\ window' = window /\ copied' = copied /\ UNCHANGED <<window, uploading>>
  BY DEF TakeStarts
<1>2. TypeInv /\ stage = NoStage
  BY <1>1, Zenon DEF IInv, RowsInv
<1>3. RowsLeft \in Nat /\ StageBytes \in Nat
  <2>1. RowsLeft \in Int /\ StageBytes \in Nat
    BY <1>2, Targets, Zenon
  <2>. QED  BY <1>1, <2>1 DEF HasTarget
<1>4. /\ StageOK(stage') /\ stage'.staged = <<>> /\ stage'.rows = RowsLeft
      /\ stage'.bytes = StageBytes /\ stage.staged = <<>>
  BY <1>1, <1>2, <1>3, NoStageType, ZenonT(30) DEF StageOK
<1>5. TypeInv'
  BY <1>1, <1>4 DEF IInv, TypeInv, Phases
<1>6. RowsInv'
  <2>1. Held' = Held
    BY <1>1, <1>4, Zenon DEF Held, Unread
  <2>. QED  BY <1>1, <2>1, Zenon DEF IInv, RowsInv
<1>7. Taking'
  <2>1. HasTarget' /\ RowsLeft' = RowsLeft /\ StageBytes' = StageBytes
    BY <1>1 DEF HasTarget, RowsLeft, StageBytes, StagingLeft, BytesLeft
  <2>2. Len(RowsOf(<<>>)) = 0 /\ BytesOf(<<>>) = 0
    BY RowsOfNone, BatchBytes, EmptySeq, Zenon
  <2>3. queue.pending # <<>>
    BY <1>1, <1>2, <2>2, Zenon DEF TypeInv, QueueOK
  <2>4. 0 + RowsLeft = RowsLeft /\ 0 + StageBytes = StageBytes
    BY <1>3
  <2>. QED  BY <1>1, <1>4, <2>1, <2>2, <2>3, <2>4, Zenon DEF Taking
<1>8. BudgetInv'
  BY <1>1, <1>7, Zenon DEF IInv, BudgetInv, Fits
<1>. QED  BY <1>5, <1>6, <1>8, Zenon DEF IInv

\* Rows that are taken within the targets of their round fit the window.
LEMMA TakingFits ==
    ASSUME TypeInv, Taking, stage.staged # <<>>
    PROVE  Fits(window.rows \o RowsOf(stage.staged), window.estimated + BytesOf(stage.staged))
<1>. DEFINE w == window.rows
            c == RowsOf(stage.staged)
            n == Len(w)
            m == Len(c)
            e == window.estimated
            b == BytesOf(stage.staged)
<1>1. w \in Seq(Rows) /\ c \in Seq(Rows) /\ stage.staged \in Seq(Batches)
  BY HeldTypes, Zenon
<1>2. b \in Nat
  BY <1>1, BatchBytes, Zenon
<1>3. /\ RowsLeft \in Int /\ BytesLeft \in Nat /\ StagingLeft \in Nat /\ StageBytes \in Nat
      /\ StageBytes <= StagingLeft /\ StagingLeft <= BytesLeft
      /\ (target # Automatic => RowsLeft = target - n)
      /\ (target = Automatic => BytesLeft = Less(WindowBudget, e))
      /\ n \in Nat /\ e \in Nat /\ target \in Nat
  BY Targets, Zenon
<1>4. stage.rows \in Nat /\ stage.bytes \in Nat
  BY DEF TypeInv, StageOK
<1>5. /\ RowsLeft > 0 /\ StagingLeft > 0 /\ m + stage.rows = RowsLeft
      /\ b + stage.bytes = StageBytes \/ (w = <<>> /\ m = 1)
  BY Zenon DEF Taking, HasTarget
<1>. HIDE DEF w, c
<1>6. Len(w \o c) = n + m
  BY <1>1, ConcatProperties
<1>7. m \in Nat /\ (w = <<>> => n = 0)
  BY <1>1, LenProperties, EmptySeq, Zenon
<1>. HIDE DEF n, m, e, b
<1>8. target # Automatic => n + m <= target
  BY <1>3, <1>4, <1>5, <1>7
<1>9. target = Automatic => e + b <= WindowBudget \/ n + m = 1
  <2>1. ASSUME target = Automatic, b + stage.bytes = StageBytes  PROVE e + b <= WindowBudget
    <3>1. BytesLeft = Less(WindowBudget, e) /\ b <= BytesLeft /\ BytesLeft > 0
      BY <1>2, <1>3, <1>4, <1>5, <2>1
    <3>2. WindowBudget \in Nat
      BY BudgetAssumption
    <3>. QED  BY <1>2, <1>3, <3>1, <3>2 DEF Less
  <2>2. ASSUME w = <<>>, m = 1  PROVE n + m = 1
    BY <1>7, <2>2
  <2>. QED  BY <1>5, <2>1, <2>2, Zenon
<1>. QED  BY <1>6, <1>8, <1>9, Zenon DEF Fits, w, c, n, m, e, b

\* What is said of a window and of its targets stays while rows are taken.
LEMMA SameTargets ==
    ASSUME target' = target, window' = window
    PROVE  /\ RowsLeft' = RowsLeft /\ StagingLeft' = StagingLeft /\ StageBytes' = StageBytes
           /\ HasTarget' = HasTarget
           /\ \A r, b : Fits(r, b)' = Fits(r, b)
           /\ should_finish_automatic_window(window)' = should_finish_automatic_window(window)
  BY DEF RowsLeft, StagingLeft, StageBytes, BytesLeft, HasTarget, Fits,
     should_finish_automatic_window

\* A window that is closed stays so while the window and the rows to come stay.
LEMMA SameClosed ==
    ASSUME target' = target, window' = window, queue' = queue, source' = source
    PROVE  Closed' = Closed /\ NextRow' = NextRow
<1>1. NextRow' = NextRow
  BY Zenon DEF NextRow, Unread
<1>2. /\ StageBytes' = StageBytes
      /\ should_finish_automatic_window(window)' = should_finish_automatic_window(window)
  BY SameTargets
<1>. QED  BY <1>1, <1>2 DEF Closed

\* take_staging, once the number of rows is known.
LEMMA TakeRowsStep ==
    ASSUME IInv, phase \in {"take", "search"}, queue.pending # <<>>, stage.rows > 0,
           NEW n \in 0..Len(Oldest.rows), n <= stage.rows,
           estimated_batch_size(SubSeq(Oldest.rows, 1, n)) <= stage.bytes,
           n = 0 => Weight(Oldest.rows[1]) > stage.bytes,
           TakeRows(n), UNCHANGED <<source, target, window, copied>>
    PROVE  IInv' /\ phase' \in {"take", "staged"}
<1>1. TypeInv /\ Taking
  BY Zenon DEF IInv, BudgetInv
<1>2. source' = source /\ target' = target /\ window' = window /\ copied' = copied
  OBVIOUS
<1>3. /\ Oldest \in Batches /\ Oldest.rows \in Seq(Rows) /\ Len(Oldest.rows) \in Nat \ {0}
      /\ NextRow # <<>> /\ NextRow[1] = Oldest.rows[1]
  BY <1>1, NextRows, Zenon
<1>4. StageOK(stage) /\ stage.rows \in Nat /\ stage.bytes \in Nat /\ stage.staged \in Seq(Batches)
  BY <1>1 DEF TypeInv, StageOK
<1>5. Fits(window.rows, window.estimated) /\ window.estimated = estimated_batch_size(window.rows)
  BY DEF IInv, BudgetInv
<1>6. CASE Refuses(n)
  <2>1. phase' = "staged" /\ queue' = queue /\ stage' = stage
    BY <1>6 DEF TakeRows
  <2>2. n = 0 /\ (stage.staged # <<>> \/ window.rows # <<>>)
    BY <1>6, Zenon DEF Refuses, MayTakeAlone
  <2>3. TypeInv'
    BY <1>1, <1>2, <2>1 DEF TypeInv, Phases
  <2>4. RowsInv'
    BY <1>2, <2>1, Zenon DEF IInv, RowsInv, Held, Unread
  <2>5. stage.staged = <<>> => Closed
    <3>1. SUFFICES ASSUME stage.staged = <<>>  PROVE Closed
      OBVIOUS
    <3>2. stage.bytes = StageBytes
      <4>1. BytesOf(stage.staged) = 0 /\ Len(RowsOf(stage.staged)) = 0
        BY <3>1, BatchBytes, RowsOfNone, EmptySeq, Zenon
      <4>2. 0 + stage.bytes = StageBytes \/ 0 = 1
        BY <1>1, <4>1, Zenon DEF Taking
      <4>. QED  BY <1>4, <4>2
    <3>3. Weight(NextRow[1]) > StageBytes
      BY <1>3, <2>2, <3>2, Zenon
    <3>. QED  BY <3>3, Zenon DEF Closed
  <2>6. stage.staged # <<>> =>
          Fits(window.rows \o RowsOf(stage.staged), window.estimated + BytesOf(stage.staged))
    BY <1>1, TakingFits, Zenon
  <2>7. BudgetInv'
    <3>1. Closed' = Closed
      BY <1>2, <2>1, SameClosed, Zenon
    <3>2. Fits(window.rows, window.estimated)'
      BY <1>2, <1>5, Zenon DEF Fits
    <3>3. stage.staged # <<>> =>
            Fits(window.rows \o RowsOf(stage.staged), window.estimated + BytesOf(stage.staged))'
      BY <1>2, <2>1, <2>6, Zenon DEF Fits
    <3>. QED  BY <1>2, <1>5, <2>1, <2>2, <2>5, <3>1, <3>2, <3>3, Zenon DEF BudgetInv
  <2>. QED  BY <2>1, <2>3, <2>4, <2>7, Zenon DEF IInv
<1>7. CASE ~Refuses(n)
  <2>. DEFINE m == AtLeastOne(n)
              b == Selected(Oldest, m)
              s == Append(stage.staged, b)
  <2>1. /\ phase' = "take" /\ queue' = split_pending(pop_front(queue), Oldest, m)
        /\ stage' = [stage EXCEPT !.staged = s, !.rows = @ - Len(b.rows), !.bytes = Less(@, b.estimated)]
    BY <1>7 DEF TakeRows
  <2>2. m \in 1..Len(Oldest.rows) /\ m <= stage.rows /\ m \in Nat /\ (n # 0 => m = n) /\ (n = 0 => m = 1)
    BY <1>3, <1>4 DEF AtLeastOne
  <2>. HIDE DEF m
  <2>3. /\ b \in Batches /\ Len(b.rows) = m /\ b.rows = SubSeq(Oldest.rows, 1, m)
        /\ \E rest \in Seq(Rows) :
             RowsOf(queue.pending) = b.rows \o rest /\ Becomes(queue, queue', rest)
    BY <1>1, <2>1, <2>2, Splits, Zenon DEF TypeInv, Oldest
  <2>4. PICK rest \in Seq(Rows) :
             RowsOf(queue.pending) = b.rows \o rest /\ Becomes(queue, queue', rest)
    BY <2>3, Zenon
  <2>5. b.rows \in Seq(Rows) /\ b.estimated \in Nat /\ b.estimated = estimated_batch_size(b.rows)
    BY <2>3, Zenon DEF Batches
  <2>6. /\ QueueOK(queue') /\ RowsOf(queue'.pending) = rest
        /\ queue'.read = queue.read /\ queue'.exhausted = queue.exhausted
    BY <2>4, Zenon DEF Becomes
  <2>. HIDE DEF b
  <2>7. s = stage.staged \o <<b>> /\ s \in Seq(Batches) /\ <<b>> \in Seq(Batches) /\ s # <<>>
    <3>1. <<b>> \in Seq(Batches)
      BY <2>3
    <3>2. s = stage.staged \o <<b>>
      BY <1>4, <2>3, AppendIsConcat, Zenon
    <3>3. s \in Seq(Batches) /\ s # <<>>
      BY <1>4, <2>3, AppendProperties, ZenonT(30)
    <3>. QED  BY <3>1, <3>2, <3>3
  <2>. HIDE DEF s
  <2>8. RowsOf(s) = RowsOf(stage.staged) \o b.rows /\ BytesOf(s) = BytesOf(stage.staged) + b.estimated
        /\ RowsOf(stage.staged) \in Seq(Rows) /\ BytesOf(stage.staged) \in Nat
    <3>1. RowsOf(s) = RowsOf(stage.staged) \o RowsOf(<<b>>) /\ RowsOf(<<b>>) = b.rows
          /\ RowsOf(stage.staged) \in Seq(Rows)
      BY <1>4, <2>3, <2>7, BatchRows, Zenon
    <3>2. BytesOf(s) = BytesOf(stage.staged) + BytesOf(<<b>>) /\ BytesOf(<<b>>) = b.estimated
          /\ BytesOf(stage.staged) \in Nat
      BY <1>4, <2>3, <2>7, BatchBytes, Zenon
    <3>. QED  BY <3>1, <3>2, Zenon
  <2>9. Len(RowsOf(s)) = Len(RowsOf(stage.staged)) + m /\ Len(RowsOf(stage.staged)) \in Nat
    <3>. DEFINE x == b.rows
                c == RowsOf(stage.staged)
    <3>1. x \in Seq(Rows) /\ c \in Seq(Rows) /\ RowsOf(s) = c \o x /\ Len(x) = m
      BY <2>3, <2>5, <2>8, Zenon
    <3>. HIDE DEF x, c
    <3>2. Len(c \o x) = Len(c) + Len(x)
      BY <3>1, ConcatProperties, Zenon
    <3>3. Len(c) \in Nat
      BY <3>1, LenProperties
    <3>. QED  BY <3>1, <3>2, <3>3, Zenon DEF c
  <2>10. /\ StageOK(stage') /\ stage'.staged = s /\ stage'.rows = stage.rows - m
         /\ stage'.bytes = Less(stage.bytes, b.estimated)
    <3>. DEFINE i == stage.rows - m
                j == Less(stage.bytes, b.estimated)
    <3>1. i \in Nat /\ j \in Nat
      BY <1>4, <2>2, <2>5 DEF Less
    <3>2. stage' = [stage EXCEPT !.staged = s, !.rows = i, !.bytes = j]
      BY <2>1, <2>3, Zenon
    <3>. HIDE DEF i, j
    <3>3. StageOK(stage') /\ stage'.staged = s /\ stage'.rows = i /\ stage'.bytes = j
      BY <1>4, <2>7, <3>1, <3>2, ZenonT(30) DEF StageOK
    <3>. QED  BY <3>3, Zenon DEF i, j
  <2>11. TypeInv'
    BY <1>1, <1>2, <2>1, <2>6, <2>10 DEF TypeInv, Phases
  <2>12. RowsInv'
    <3>1. Held' = Held
      <4>. DEFINE a == copied
                  w == window.rows
                  c == RowsOf(stage.staged)
                  e == Unread
                  x == b.rows
      <4>1. Over(a, Rows) /\ Over(w, Rows) /\ Over(c, Rows) /\ Over(rest, Rows) /\ Over(e, Rows)
            /\ Over(x, Rows)
        BY <1>1, <2>5, HeldTypes, Zenon DEF Over
      <4>2. Held = Line(a, w, c, x \o rest, e)
        BY <2>4, Zenon DEF Held
      <4>3. Unread' = e
        BY <1>2, <2>6, Zenon DEF Unread
      <4>4. Held' = Line(a, w, c \o x, rest, e)
        BY <1>2, <2>6, <2>8, <2>10, <4>3, ZenonT(30) DEF Held
      <4>. HIDE DEF a, w, c, e, x
      <4>5. Line(a, w, c, x \o rest, e) = Line(a, w, c \o x, rest, e)
        BY <4>1, RowsTaken
      <4>. QED  BY <4>2, <4>4, <4>5, Zenon
    <3>. QED  BY <1>2, <2>1, <2>6, <3>1, Zenon DEF IInv, RowsInv
  <2>13. Taking'
    <3>1. RowsLeft' = RowsLeft /\ StageBytes' = StageBytes /\ HasTarget'
      BY <1>1, <1>2, SameTargets, Zenon DEF Taking
    <3>2. Len(RowsOf(s)) + (stage.rows - m) = RowsLeft
      <4>1. Len(RowsOf(stage.staged)) + stage.rows = RowsLeft
        BY <1>1, Zenon DEF Taking
      <4>. DEFINE i == Len(RowsOf(stage.staged))
                  j == Len(RowsOf(s))
      <4>2. i + stage.rows = RowsLeft /\ j = i + m /\ i \in Nat
        BY <2>9, <4>1, Zenon
      <4>. HIDE DEF i, j
      <4>3. j + (stage.rows - m) = RowsLeft
        BY <1>4, <2>2, <4>2
      <4>. QED  BY <4>3, Zenon DEF j
    <3>3. \/ BytesOf(s) + Less(stage.bytes, b.estimated) = StageBytes
          \/ window.rows = <<>> /\ Len(RowsOf(s)) = 1 /\ Less(stage.bytes, b.estimated) = 0
      <4>1. CASE n # 0
        <5>1. b.estimated <= stage.bytes /\ b.estimated > 0
          <6>1. b.estimated = estimated_batch_size(SubSeq(Oldest.rows, 1, n)) /\ n \in Nat /\ n > 0
            BY <2>2, <2>3, <2>5, <4>1
          <6>2. n > 0 => estimated_batch_size(SubSeq(Oldest.rows, 1, n)) > 0
            BY <1>3, PrefixSize, Zenon
          <6>. QED  BY <6>1, <6>2, Zenon
        <5>2. BytesOf(stage.staged) + stage.bytes = StageBytes
          <6>1. BytesOf(stage.staged) + stage.bytes = StageBytes \/ stage.bytes = 0
            BY <1>1, Zenon DEF Taking
          <6>. QED  BY <1>4, <2>5, <5>1, <6>1
        <5>3. StageBytes \in Nat
          BY <1>1, Targets, Zenon
        <5>. DEFINE i == BytesOf(stage.staged)
                    j == BytesOf(s)
        <5>4. j = i + b.estimated /\ i \in Nat /\ i + stage.bytes = StageBytes
          BY <2>8, <5>2, Zenon
        <5>5. Less(stage.bytes, b.estimated) = stage.bytes - b.estimated
          BY <1>4, <2>5, <5>1 DEF Less
        <5>6. stage.bytes \in Nat /\ b.estimated \in Nat
          BY <1>4, <2>5, Zenon
        <5>. HIDE DEF i, j
        <5>7. j + (stage.bytes - b.estimated) = StageBytes
          BY <5>4, <5>6
        <5>. QED  BY <5>5, <5>7, Zenon DEF j
      <4>2. CASE n = 0
        <5>1. stage.staged = <<>> /\ window.rows = <<>>
          BY <1>7, <4>2, Zenon DEF Refuses, MayTakeAlone
        <5>2. Len(RowsOf(stage.staged)) = 0
          BY <5>1, RowsOfNone, EmptySeq, Zenon
        <5>3. Len(RowsOf(s)) = 1
          BY <2>2, <2>9, <4>2, <5>2
        <5>4. b.estimated > stage.bytes
          <6>1. b.estimated = estimated_batch_size(SubSeq(Oldest.rows, 1, m)) /\ m = 1 /\ m \in 0..Len(Oldest.rows)
            BY <1>3, <2>2, <2>3, <2>5, <4>2
          <6>2. b.estimated = Weight(Oldest.rows[1])
            BY <1>3, <6>1, PrefixSize, Zenon
          <6>. QED  BY <4>2, <6>2, Zenon
        <5>5. Less(stage.bytes, b.estimated) = 0
          BY <1>4, <2>5, <5>4 DEF Less
        <5>. QED  BY <5>1, <5>3, <5>5, Zenon
      <4>. QED  BY <4>1, <4>2, Zenon
    <3>. QED  BY <1>2, <2>7, <2>10, <3>1, <3>2, <3>3, Zenon DEF Taking
  <2>14. BudgetInv'
    BY <1>2, <1>5, <2>1, <2>13, Zenon DEF BudgetInv, Fits
  <2>. QED  BY <2>1, <2>11, <2>12, <2>14, Zenon DEF IInv
<1>. QED  BY <1>6, <1>7, Zenon

\* TakeBatch: the whole batch fits the bytes.
LEMMA TakeBatchStep ==
    ASSUME IInv, TakeBatch
    PROVE  IInv'
<1>. DEFINE n == Least(Len(Oldest.rows), stage.rows)
<1>1. /\ phase = "take" /\ queue.pending # <<>> /\ stage.rows > 0 /\ Oldest.estimated <= stage.bytes
      /\ TakeRows(n) /\ UNCHANGED <<source, target, window, copied>> /\ UNCHANGED <<window, uploading>>
  BY DEF TakeBatch, TakesMore
<1>2. TypeInv /\ stage.rows \in Nat /\ stage.bytes \in Nat
  BY DEF IInv, TypeInv, StageOK
<1>3. /\ Oldest.rows \in Seq(Rows) /\ Len(Oldest.rows) \in Nat \ {0}
      /\ Oldest.estimated = estimated_batch_size(Oldest.rows)
  BY <1>1, <1>2, NextRows, Zenon
<1>4. n \in 0..Len(Oldest.rows) /\ n <= stage.rows /\ n # 0
  <2>. DEFINE l == Len(Oldest.rows)
  <2>1. l \in Nat \ {0}
    BY <1>3
  <2>. HIDE DEF l
  <2>2. Least(l, stage.rows) \in 0..l /\ Least(l, stage.rows) <= stage.rows /\ Least(l, stage.rows) # 0
    BY <1>1, <1>2, <2>1 DEF Least
  <2>. QED  BY <2>2, Zenon DEF l
<1>. HIDE DEF n
<1>5. estimated_batch_size(SubSeq(Oldest.rows, 1, n)) <= stage.bytes
  <2>. DEFINE e == estimated_batch_size(SubSeq(Oldest.rows, 1, n))
              f == estimated_batch_size(Oldest.rows)
  <2>1. e \in Nat /\ e <= f
    BY <1>3, <1>4, PrefixSize, Zenon
  <2>2. f \in Nat
    BY <1>3, Estimates, Zenon
  <2>3. f <= stage.bytes
    BY <1>1, <1>3, Zenon
  <2>. HIDE DEF e, f
  <2>4. e <= stage.bytes
    BY <1>2, <2>1, <2>2, <2>3
  <2>. QED  BY <2>4, Zenon DEF e
<1>6. IInv' /\ phase' \in {"take", "staged"}
  BY <1>1, <1>4, <1>5, TakeRowsStep, Zenon
<1>. QED  BY <1>6, Zenon

\* SearchStarts, SearchHalves: the binary search keeps its bounds.
LEMMA SearchOnly ==
    ASSUME IInv, phase \in {"take", "search"}, phase' = "search", Searching',
           StageOK(stage'), stage'.staged = stage.staged, stage'.rows = stage.rows,
           stage'.bytes = stage.bytes,
           UNCHANGED <<source, target, queue, window, copied>>, UNCHANGED <<window, uploading>>
    PROVE  IInv'
<1>1. /\ source' = source /\ target' = target /\ queue' = queue /\ window' = window
      /\ copied' = copied
  OBVIOUS
<1>2. TypeInv'
  BY <1>1 DEF IInv, TypeInv, Phases
<1>3. RowsInv'
  <2>1. Held' = Held
    BY <1>1, Zenon DEF Held, Unread
  <2>. QED  BY <1>1, <2>1, Zenon DEF IInv, RowsInv
<1>4. Taking'
  <2>1. RowsLeft' = RowsLeft /\ StageBytes' = StageBytes /\ HasTarget' = HasTarget
    BY <1>1, SameTargets, Zenon
  <2>2. Taking
    BY Zenon DEF IInv, BudgetInv
  <2>. QED  BY <1>1, <2>1, <2>2, Zenon DEF Taking
<1>5. BudgetInv'
  BY <1>1, <1>4, Zenon DEF IInv, BudgetInv, Fits
<1>. QED  BY <1>2, <1>3, <1>5, Zenon DEF IInv

\* SearchStarts: no row is known to fit, and the whole batch does not.
LEMMA SearchStartsStep ==
    ASSUME IInv, SearchStarts
    PROVE  IInv'
<1>1. /\ phase = "take" /\ phase' = "search" /\ queue.pending # <<>> /\ stage.rows > 0
      /\ Oldest.estimated > stage.bytes /\ queue' = queue
      /\ stage' = [stage EXCEPT !.low = 0, !.high = Len(Oldest.rows)]
      /\ UNCHANGED <<source, target, queue, window, copied>> /\ UNCHANGED <<window, uploading>>
  BY DEF SearchStarts, TakesMore
<1>2. TypeInv /\ StageOK(stage) /\ stage.bytes \in Nat
  BY DEF IInv, TypeInv, StageOK
<1>3. Oldest.rows \in Seq(Rows) /\ Len(Oldest.rows) \in Nat
  BY <1>1, <1>2, NextRows, Zenon
<1>4. /\ StageOK(stage') /\ stage'.staged = stage.staged /\ stage'.rows = stage.rows
      /\ stage'.bytes = stage.bytes /\ stage'.low = 0 /\ stage'.high = Len(Oldest.rows)
  <2>. DEFINE l == Len(Oldest.rows)
  <2>1. l \in Nat /\ stage' = [stage EXCEPT !.low = 0, !.high = l]
    BY <1>1, <1>3, Zenon
  <2>. HIDE DEF l
  <2>2. /\ StageOK(stage') /\ stage'.staged = stage.staged /\ stage'.rows = stage.rows
        /\ stage'.bytes = stage.bytes /\ stage'.low = 0 /\ stage'.high = l
    BY <1>2, <2>1, ZenonT(30) DEF StageOK
  <2>. QED  BY <2>2, Zenon DEF l
<1>5. estimated_batch_size(SubSeq(Oldest.rows, 1, 0)) <= stage.bytes
  <2>1. SubSeq(Oldest.rows, 1, 0) = <<>>
    BY SubSeqEmpty
  <2>2. estimated_batch_size(<<>>) = 0
    BY Estimates, Zenon
  <2>3. 0 <= stage.bytes
    BY <1>2
  <2>. QED  BY <2>1, <2>2, <2>3, Zenon
<1>6. 0 <= Len(Oldest.rows) /\ Len(Oldest.rows) <= Len(Oldest.rows)
  BY <1>3
<1>7. Oldest' = Oldest
  BY <1>1, Zenon DEF Oldest
<1>8. Searching'
  BY <1>1, <1>4, <1>5, <1>6, <1>7, Zenon DEF Searching
<1>. QED  BY <1>1, <1>4, <1>8, SearchOnly, Zenon

\* SearchHalves: the middle fits, or it does not; both ends keep their meaning.
LEMMA SearchHalvesStep ==
    ASSUME IInv, SearchHalves
    PROVE  IInv'
<1>. DEFINE m == Middle
            l == Len(Oldest.rows)
            E(i) == estimated_batch_size(SubSeq(Oldest.rows, 1, i))
<1>1. /\ phase = "search" /\ phase' = "search" /\ stage.low < stage.high /\ queue' = queue
      /\ \/ E(m) <= stage.bytes /\ stage' = [stage EXCEPT !.low = m]
         \/ ~(E(m) <= stage.bytes) /\ stage' = [stage EXCEPT !.high = m - 1]
      /\ UNCHANGED <<source, target, queue, window, copied>> /\ UNCHANGED <<window, uploading>>
  BY DEF SearchHalves
<1>2. TypeInv /\ StageOK(stage) /\ stage.bytes \in Nat /\ stage.low \in Nat /\ stage.high \in Nat
  BY DEF IInv, TypeInv, StageOK
<1>3. Searching
  BY <1>1, Zenon DEF IInv, BudgetInv
<1>4. Oldest.rows \in Seq(Rows) /\ l \in Nat
  BY <1>2, <1>3, NextRows, Zenon DEF Searching
<1>5. /\ stage.high <= l /\ E(stage.low) <= stage.bytes
      /\ IF stage.high = l THEN Oldest.estimated > stage.bytes ELSE E(stage.high + 1) > stage.bytes
      /\ queue.pending # <<>> /\ stage.rows > 0
  BY <1>3, Zenon DEF Searching
<1>6. m \in Nat /\ stage.low < m /\ m <= stage.high /\ m - 1 \in Nat /\ stage.low <= m - 1 /\ m - 1 # l
      /\ m <= l /\ m - 1 <= l /\ (m - 1) + 1 = m
  <2>1. m \in Nat /\ stage.low < m /\ m <= stage.high
    BY <1>1, <1>2 DEF Middle
  <2>. HIDE DEF m, l
  <2>. QED  BY <1>2, <1>4, <1>5, <2>1
<1>7. E(m) \in Nat
  <2>1. m \in 0..l
    BY <1>4, <1>6
  <2>. QED  BY <1>4, <2>1, PrefixSize, Zenon
<1>8. Oldest' = Oldest
  BY <1>1, Zenon DEF Oldest
<1>. HIDE DEF m
<1>9. CASE E(m) <= stage.bytes /\ stage' = [stage EXCEPT !.low = m]
  <2>1. /\ StageOK(stage') /\ stage'.staged = stage.staged /\ stage'.rows = stage.rows
        /\ stage'.bytes = stage.bytes /\ stage'.low = m /\ stage'.high = stage.high
    BY <1>2, <1>6, <1>9, ZenonT(30) DEF StageOK
  <2>2. Searching'
    BY <1>1, <1>5, <1>6, <1>8, <1>9, <2>1, Zenon DEF Searching
  <2>. QED  BY <1>1, <2>1, <2>2, SearchOnly, Zenon
<1>10. CASE ~(E(m) <= stage.bytes) /\ stage' = [stage EXCEPT !.high = m - 1]
  <2>1. /\ StageOK(stage') /\ stage'.staged = stage.staged /\ stage'.rows = stage.rows
        /\ stage'.bytes = stage.bytes /\ stage'.low = stage.low /\ stage'.high = m - 1
    <3>. DEFINE h == m - 1
    <3>1. h \in Nat /\ stage' = [stage EXCEPT !.high = h]
      BY <1>6, <1>10, Zenon
    <3>. HIDE DEF h
    <3>2. /\ StageOK(stage') /\ stage'.staged = stage.staged /\ stage'.rows = stage.rows
          /\ stage'.bytes = stage.bytes /\ stage'.low = stage.low /\ stage'.high = h
      BY <1>2, <3>1, ZenonT(30) DEF StageOK
    <3>. QED  BY <3>2, Zenon DEF h
  <2>. DEFINE e == E(m)
  <2>2. E((m - 1) + 1) > stage.bytes
    <3>1. e \in Nat /\ ~(e <= stage.bytes) /\ e = E(m)
      BY <1>7, <1>10, Zenon
    <3>. HIDE DEF e
    <3>2. e > stage.bytes
      BY <1>2, <3>1
    <3>. QED  BY <1>6, <3>1, <3>2, Zenon
  <2>3. Searching'
    BY <1>1, <1>5, <1>6, <1>8, <2>1, <2>2, Zenon DEF Searching
  <2>. QED  BY <1>1, <2>1, <2>3, SearchOnly, Zenon
<1>. QED  BY <1>1, <1>9, <1>10, Zenon

\* TakePrefix: the search has found the longest prefix that fits.
LEMMA TakePrefixStep ==
    ASSUME IInv, TakePrefix
    PROVE  IInv'
<1>. DEFINE n == Least(stage.low, stage.rows)
            l == Len(Oldest.rows)
            E(i) == estimated_batch_size(SubSeq(Oldest.rows, 1, i))
<1>1. /\ phase = "search" /\ stage.low >= stage.high
      /\ TakeRows(n) /\ UNCHANGED <<source, target, window, copied>> /\ UNCHANGED <<window, uploading>>
  BY DEF TakePrefix
<1>2. /\ TypeInv /\ stage.rows \in Nat /\ stage.bytes \in Nat /\ stage.low \in Nat /\ stage.high \in Nat
  BY DEF IInv, TypeInv, StageOK
<1>3. Searching
  BY <1>1, Zenon DEF IInv, BudgetInv
<1>4. /\ queue.pending # <<>> /\ stage.rows > 0 /\ stage.low <= stage.high /\ stage.high <= l
      /\ E(stage.low) <= stage.bytes
      /\ IF stage.high = l THEN Oldest.estimated > stage.bytes ELSE E(stage.high + 1) > stage.bytes
  BY <1>3, Zenon DEF Searching
<1>5. Oldest.rows \in Seq(Rows) /\ l \in Nat \ {0}
  BY <1>2, <1>4, NextRows, Zenon
<1>. HIDE DEF l
<1>6. /\ n \in 0..l /\ n <= stage.rows /\ n \in 0..stage.low /\ stage.low \in 0..l
      /\ (n = 0 => stage.high = 0 /\ stage.high # l /\ stage.high + 1 = 1)
  BY <1>1, <1>2, <1>4, <1>5 DEF Least
<1>. HIDE DEF n
<1>7. E(n) <= stage.bytes
  <2>. DEFINE e == E(n)
              f == E(stage.low)
  <2>1. e <= f
    BY <1>5, <1>6, PrefixGrows, Zenon DEF l
  <2>2. e \in Nat /\ f \in Nat
    BY <1>5, <1>6, PrefixSize, Zenon DEF l
  <2>3. f <= stage.bytes
    BY <1>4, Zenon
  <2>. HIDE DEF e, f
  <2>4. e <= stage.bytes
    BY <1>2, <2>1, <2>2, <2>3
  <2>. QED  BY <2>4, Zenon DEF e
<1>8. n = 0 => Weight(Oldest.rows[1]) > stage.bytes
  <2>1. SUFFICES ASSUME n = 0  PROVE Weight(Oldest.rows[1]) > stage.bytes
    OBVIOUS
  <2>2. E(1) > stage.bytes
    BY <1>4, <1>6, <2>1, Zenon
  <2>3. 1 \in 0..l
    BY <1>5
  <2>4. E(1) = Weight(Oldest.rows[1])
    BY <1>5, <2>3, PrefixSize, Zenon DEF l
  <2>. QED  BY <2>2, <2>4, Zenon
<1>9. IInv' /\ phase' \in {"take", "staged"}
  BY <1>1, <1>4, <1>6, <1>7, <1>8, TakeRowsStep, ZenonT(30) DEF l
<1>. QED  BY <1>9, Zenon

\* TakeEnds: a round that could take no row was refused its first one.
LEMMA TakeEndsStep ==
    ASSUME IInv, TakeEnds
    PROVE  IInv'
<1>1. /\ phase = "take" /\ phase' = "staged" /\ ~TakesMore
      /\ source' = source /\ target' = target /\ queue' = queue /\ stage' = stage
      /\ window' = window /\ copied' = copied /\ UNCHANGED <<window, uploading>>
  BY DEF TakeEnds, building
<1>2. TypeInv /\ Taking
  BY <1>1, Zenon DEF IInv, BudgetInv
<1>3. TypeInv'
  BY <1>1 DEF IInv, TypeInv, Phases
<1>4. RowsInv'
  BY <1>1, Zenon DEF IInv, RowsInv, Held, Unread
<1>5. stage.staged # <<>>
  <2>1. SUFFICES ASSUME stage.staged = <<>>  PROVE FALSE
    OBVIOUS
  <2>2. Len(RowsOf(stage.staged)) = 0
    BY <2>1, RowsOfNone, EmptySeq, Zenon
  <2>3. 0 + stage.rows = RowsLeft /\ RowsLeft > 0 /\ queue.pending # <<>>
    BY <1>2, <2>1, <2>2, Zenon DEF Taking, HasTarget
  <2>4. stage.rows \in Nat
    BY <1>2 DEF TypeInv, StageOK
  <2>5. stage.rows > 0
    BY <2>3, <2>4
  <2>. QED  BY <1>1, <2>1, <2>3, <2>5, Zenon DEF TakesMore
<1>6. Fits(window.rows \o RowsOf(stage.staged), window.estimated + BytesOf(stage.staged))
  BY <1>2, <1>5, TakingFits, Zenon
<1>7. BudgetInv'
  <2>1. /\ Fits(window.rows, window.estimated)'
        /\ window'.estimated = estimated_batch_size(window'.rows)
    BY <1>1, Zenon DEF IInv, BudgetInv, Fits
  <2>2. Fits(window.rows \o RowsOf(stage.staged), window.estimated + BytesOf(stage.staged))'
    BY <1>1, <1>6, Zenon DEF Fits
  <2>. QED  BY <1>1, <1>5, <2>1, <2>2, Zenon DEF BudgetInv
<1>. QED  BY <1>3, <1>4, <1>7, Zenon DEF IInv

\* StagedNothing and EndOfWindows.
LEMMA StagedNothingStep ==
    ASSUME IInv, StagedNothing
    PROVE  IInv'
<1>1. /\ phase = "staged" /\ phase' = "close" /\ stage.staged = <<>> /\ stage' = NoStage
      /\ source' = source /\ target' = target /\ queue' = queue
      /\ window' = window /\ copied' = copied /\ UNCHANGED <<window, uploading>>
  BY DEF StagedNothing
<1>2. Closed /\ window.rows # <<>>
  BY <1>1, Zenon DEF IInv, BudgetInv
<1>3. TypeInv'
  BY <1>1, NoStageType DEF IInv, TypeInv, Phases
<1>4. RowsInv'
  <2>1. Held' = Held
    BY <1>1, NoStageType, Zenon DEF Held, Unread
  <2>. QED  BY <1>1, <2>1, Zenon DEF IInv, RowsInv
<1>5. BudgetInv'
  <2>1. Closed'
    BY <1>1, <1>2, SameClosed, Zenon
  <2>2. /\ Fits(window.rows, window.estimated)'
        /\ window'.estimated = estimated_batch_size(window'.rows)
    BY <1>1, Zenon DEF IInv, BudgetInv, Fits
  <2>. QED  BY <1>1, <1>2, <2>1, <2>2, Zenon DEF BudgetInv
<1>. QED  BY <1>3, <1>4, <1>5, Zenon DEF IInv

\* EndOfWindows: a window without rows has no row to come.
LEMMA EndOfWindowsStep ==
    ASSUME IInv, EndOfWindows
    PROVE  IInv'
<1>1. /\ phase = "close" /\ phase' = "end" /\ window.rows = <<>>
      /\ source' = source /\ target' = target /\ queue' = queue /\ stage' = stage
      /\ window' = window /\ copied' = copied /\ UNCHANGED <<window, uploading>>
  BY DEF EndOfWindows, building
<1>2. NextRow = <<>>
  BY <1>1, Zenon DEF IInv, BudgetInv
<1>3. TypeInv'
  BY <1>1 DEF IInv, TypeInv, Phases
<1>4. RowsInv'
  <2>1. Held' = Held
    BY <1>1, Zenon DEF Held, Unread
  <2>2. NextRow' = <<>>
    BY <1>1, <1>2, SameClosed, Zenon
  <2>. QED  BY <1>1, <2>1, <2>2, Zenon DEF IInv, RowsInv
<1>5. BudgetInv'
  BY <1>1, Zenon DEF IInv, BudgetInv, Fits
<1>. QED  BY <1>3, <1>4, <1>5, Zenon DEF IInv

\* An upload leaves the rows of the ingest where they are.
LEMMA UploadKeepsRows ==
    ASSUME IInv, UNCHANGED <<source, target, queue, stage, window, copied>>,
           \/ phase \in {"close", "upload"} /\ phase' = "upload"
           \/ phase \in {"upload", "join"} /\ phase' = "join"
    PROVE  IInv'
<1>1. /\ source' = source /\ target' = target /\ queue' = queue /\ stage' = stage
      /\ window' = window /\ copied' = copied
  OBVIOUS
<1>2. TypeInv'
  BY <1>1 DEF IInv, TypeInv, Phases
<1>3. RowsInv'
  <2>1. Held' = Held
    BY <1>1, Zenon DEF Held, Unread
  <2>. QED  BY <1>1, <2>1, Zenon DEF IInv, RowsInv
<1>4. BudgetInv'
  <2>1. /\ Fits(window.rows, window.estimated)'
        /\ window'.estimated = estimated_batch_size(window'.rows)
    BY <1>1, Zenon DEF IInv, BudgetInv, Fits
  <2>2. phase' = "upload" => Closed'
    BY <1>1, SameClosed, Zenon DEF IInv, BudgetInv
  <2>. QED  BY <1>1, <2>1, <2>2, Zenon DEF BudgetInv
<1>. QED  BY <1>2, <1>3, <1>4, Zenon DEF IInv

\* Appended: the staged rows are the window's now.
LEMMA AppendedStep ==
    ASSUME IInv, phase \in {"staged", "encode"}, stage.staged # <<>>,
           NEW w, WindowOK(w), w.rows = window.rows \o RowsOf(stage.staged),
           w.estimated = window.estimated + BytesOf(stage.staged), Appended(w)
    PROVE  IInv' /\ phase' \in {"build", "close"} /\ window' = w /\ stage' = NoStage
<1>1. /\ window' = w /\ stage' = NoStage /\ source' = source /\ target' = target /\ queue' = queue
      /\ copied' = copied /\ phase' \in {"build", "close"}
      /\ (phase' = "close" => should_finish_automatic_window(w))
  BY DEF Appended
<1>2. TypeInv
  BY DEF IInv
<1>3. TypeInv'
  BY <1>1, <1>2, NoStageType DEF TypeInv, Phases
<1>4. RowsInv'
  <2>1. Held' = Held
    <3>. DEFINE a == copied
                b == window.rows
                c == RowsOf(stage.staged)
                d == RowsOf(queue.pending)
                e == Unread
    <3>1. Over(a, Rows) /\ Over(b, Rows) /\ Over(c, Rows) /\ Over(d, Rows) /\ Over(e, Rows)
      BY <1>2, HeldTypes, Zenon DEF Over
    <3>2. Held = Line(a, b, c, d, e)
      BY Zenon DEF Held
    <3>3. Unread' = e
      BY <1>1, Zenon DEF Unread
    <3>4. Held' = Line(a, b \o c, <<>>, d, e)
      BY <1>1, <3>3, NoStageType, RowsOfNone, ZenonT(30) DEF Held
    <3>. HIDE DEF a, b, c, d, e
    <3>5. Line(a, b \o c, <<>>, d, e) = Line(a, b, c, d, e)
      BY <3>1, RowsAppended
    <3>. QED  BY <3>2, <3>4, <3>5, Zenon
  <2>. QED  BY <1>1, <2>1, Zenon DEF IInv, RowsInv
<1>5. Fits(w.rows, w.estimated)
  BY Zenon DEF IInv, BudgetInv
<1>6. w.rows # <<>> /\ w.estimated = estimated_batch_size(w.rows)
  <2>. DEFINE b == window.rows
              c == RowsOf(stage.staged)
  <2>1. b \in Seq(Rows) /\ c \in Seq(Rows) /\ stage.staged \in Seq(Batches)
    BY <1>2, HeldTypes, Zenon
  <2>2. c # <<>> /\ BytesOf(stage.staged) = estimated_batch_size(c)
    BY <2>1, NoRows, BytesOfRows, Zenon
  <2>3. window.estimated = estimated_batch_size(b)
    BY Zenon DEF IInv, BudgetInv
  <2>. HIDE DEF b, c
  <2>4. estimated_batch_size(b \o c) = estimated_batch_size(b) + estimated_batch_size(c)
    BY <2>1, Estimates, Zenon
  <2>5. b \o c # <<>>
    BY <2>1, <2>2, ConcatEqualIffEmpty
  <2>6. w.rows = b \o c
    BY Zenon DEF b, c
  <2>. QED  BY <2>2, <2>3, <2>4, <2>5, <2>6, Zenon
<1>7. BudgetInv'
  <2>1. Fits(window.rows, window.estimated)'
    BY <1>1, <1>5, Zenon DEF Fits
  <2>2. phase' = "close" => Closed'
    <3>1. phase' = "close" => should_finish_automatic_window(window)'
      BY <1>1, Zenon DEF should_finish_automatic_window
    <3>. QED  BY <3>1, Zenon DEF Closed
  <2>. QED  BY <1>1, <1>6, <2>1, <2>2, Zenon DEF BudgetInv
<1>. QED  BY <1>1, <1>3, <1>4, <1>7, Zenon DEF IInv

-----------------------------------------------------------------------------
(* The steps of append: what is encoded leaves the rows alone.             *)

\* The steps that encode the staged rows leave the rows where they are.
LEMMA EncodingCore ==
    ASSUME IInv, phase \in {"staged", "encode"}, stage.staged # <<>>, phase' = "encode",
           UNCHANGED <<source, target, queue, copied>>, StageOK(stage'), WindowOK(window'),
           stage'.staged = stage.staged, window'.rows = window.rows, window'.estimated = window.estimated
    PROVE  IInv'
<1>1. source' = source /\ target' = target /\ queue' = queue /\ copied' = copied
  OBVIOUS
<1>2. TypeInv'
  BY <1>1 DEF IInv, TypeInv, Phases
<1>3. RowsInv'
  <2>1. Held' = Held
    BY <1>1, Zenon DEF Held, Unread
  <2>2. phase # "failed" /\ phase' # "failed" /\ phase' # "end" /\ phase' \in {"take", "search", "staged", "encode", "failed"}
    OBVIOUS
  <2>. QED  BY <1>1, <2>1, <2>2, Zenon DEF IInv, RowsInv
<1>4. BudgetInv'
  <2>1. /\ Fits(window.rows, window.estimated) /\ window.estimated = estimated_batch_size(window.rows)
        /\ Fits(window.rows \o RowsOf(stage.staged), window.estimated + BytesOf(stage.staged))
    <3>1. phase # "failed"
      OBVIOUS
    <3>. QED  BY <3>1, Zenon DEF IInv, BudgetInv
  <2>2. /\ Fits(window.rows, window.estimated)'
        /\ Fits(window.rows \o RowsOf(stage.staged), window.estimated + BytesOf(stage.staged))'
        /\ window'.estimated = estimated_batch_size(window'.rows)
    BY <1>1, <2>1, Zenon DEF Fits
  <2>3. /\ phase' \notin {"take", "search"} /\ phase' \notin {"close", "upload"} /\ phase' # "search"
        /\ phase' # "staged" /\ phase' # "close" /\ stage'.staged # <<>>
    OBVIOUS
  <2>. QED  BY <2>2, <2>3, Zenon DEF BudgetInv
<1>. QED  BY <1>2, <1>3, <1>4, Zenon DEF IInv

\* v is w with something else encoded in it.
Recoded(w, v) == DOMAIN v = DOMAIN w /\ v.rows = w.rows /\ v.estimated = w.estimated

\* Encoding more keeps the window's types.
LEMMA RecodedOK ==
    ASSUME NEW w, WindowOK(w), NEW v, Recoded(w, v)
    PROVE  WindowOK(v)
  BY DEF Recoded, WindowOK

\* Keep of a chunk.
LEMMA KeepRecodes ==
    ASSUME NEW w, WindowOK(w), NEW k, NEW chunk, NEW mode
    PROVE  Recoded(w, Keep(w, k, chunk, mode))
  BY DEF Keep, Recoded, WindowOK

\* finish_pending stores a chunk, or nothing.
LEMMA FinishRecodes ==
    ASSUME NEW w, WindowOK(w), NEW k, NEW pick
    PROVE  Recoded(w, finish_pending(w, k, pick))
<1>1. ASSUME NEW data, NEW transform  PROVE Recoded(w, StoreLz4(w, k, data, transform))
  <2>. DEFINE v == [w EXCEPT !.arena = store(@, data)]
  <2>1. Recoded(w, v) /\ WindowOK(v)
    BY DEF Recoded, WindowOK
  <2>. HIDE DEF v
  <2>2. ASSUME NEW chunk, NEW mode  PROVE Recoded(v, Keep(v, k, chunk, mode))
    BY <2>1, KeepRecodes, Zenon
  <2>3. Recoded(v, StoreLz4(w, k, data, transform))
    BY <2>2, Zenon DEF StoreLz4, v
  <2>. QED  BY <2>1, <2>3, Zenon DEF Recoded
<1>2. Recoded(w, store_raw(w, k))
  BY KeepRecodes, Zenon DEF store_raw
<1>3. Recoded(w, w)
  BY Zenon DEF Recoded
<1>. QED  BY <1>1, <1>2, <1>3, Zenon DEF finish_pending

\* A round of push fills the buffer and may finish it.
LEMMA PushRecodes ==
    ASSUME NEW w, WindowOK(w), NEW k, NEW bytes, NEW pick
    PROVE  Recoded(w, push(w, k, bytes, pick))
<1>. DEFINE u == Opened(w, k, bytes)
            v == Copied(u, k, bytes)
<1>1. Recoded(w, u) /\ WindowOK(u)
  BY DEF Opened, Recoded, WindowOK
<1>. HIDE DEF u
<1>2. Recoded(u, v) /\ WindowOK(v)
  BY <1>1 DEF Copied, Recoded, WindowOK
<1>. HIDE DEF v
<1>3. Recoded(v, FinishFull(v, k, pick))
  <2>1. Recoded(v, v) /\ Recoded(v, finish_pending(v, k, pick))
    BY <1>2, FinishRecodes, Zenon DEF Recoded
  <2>. QED  BY <2>1, Zenon DEF FinishFull
<1>4. push(w, k, bytes, pick) = FinishFull(v, k, pick)
  BY Zenon DEF push, u, v
<1>. QED  BY <1>1, <1>2, <1>3, <1>4, Zenon DEF Recoded

\* The column that is finished last, before the rows are noted.
LEMMA ColumnRecodes ==
    ASSUME WindowOK(window), NEW pick
    PROVE  Recoded(window, EncodedColumn(pick))
<1>. DEFINE v == finish_pending(window, stage.column, pick)
<1>1. Recoded(window, v) /\ WindowOK(v)
  BY FinishRecodes, RecodedOK, Zenon
<1>. HIDE DEF v
<1>2. ASSUME NEW n  PROVE Recoded(v, [v EXCEPT !.encoded = @ + n])
  BY <1>1 DEF Recoded, WindowOK
<1>3. Recoded(v, EncodedColumn(pick))
  BY <1>2, Zenon DEF EncodedColumn, v
<1>. QED  BY <1>1, <1>3, Zenon DEF Recoded

\* Noted: the staged rows and their estimate are added to the window's.
LEMMA NotedIs ==
    ASSUME NEW w, WindowOK(w), NEW s \in Seq(Batches)
    PROVE  LET v == Noted(w, s) IN
           /\ WindowOK(v) /\ v.rows = w.rows \o RowsOf(s) /\ v.estimated = w.estimated + BytesOf(s)
<1>. DEFINE v == Noted(w, s)
            r == RowsOf(s)
            n == BytesOf(s)
            e == w.eligible /\ \A i \in DOMAIN RowsOf(s) : ~RowsOf(s)[i].null
<1>1. r \in Seq(Rows) /\ n \in Nat
  BY BatchRows, BatchBytes, Zenon
<1>2. v = [w EXCEPT !.rows = @ \o r, !.estimated = @ + n, !.eligible = e]
  BY Zenon DEF Noted
<1>. HIDE DEF v, r, n, e
<1>3. DOMAIN v = DOMAIN w /\ v.rows = w.rows \o r /\ v.estimated = w.estimated + n
  BY <1>2, Zenon DEF WindowOK
<1>4. w.rows \o r \in Seq(Rows) /\ w.estimated + n \in Nat
  BY <1>1 DEF WindowOK
<1>5. WindowOK(v)
  BY <1>3, <1>4, Zenon DEF WindowOK
<1>. QED  BY <1>3, <1>5, Zenon DEF v, r, n

\* RetainBatches: append keeps the staged batches as they are.
LEMMA RetainBatchesStep ==
    ASSUME IInv, RetainBatches
    PROVE  IInv'
<1>1. PICK pinned : Appended(Retained(window, stage.staged, pinned))
  BY Zenon DEF RetainBatches
<1>. DEFINE v == Noted(window, stage.staged)
            w == Retained(window, stage.staged, pinned)
<1>2. phase \in {"staged", "encode"} /\ stage.staged # <<>>
  BY DEF RetainBatches
<1>3. WindowOK(window) /\ stage.staged \in Seq(Batches)
  BY HeldTypes, Zenon DEF IInv, TypeInv
<1>4. /\ WindowOK(v) /\ v.rows = window.rows \o RowsOf(stage.staged)
      /\ v.estimated = window.estimated + BytesOf(stage.staged)
  BY <1>3, NotedIs, Zenon
<1>5. w = [v EXCEPT !.retained = @ \o stage.staged, !.pinned = pinned]
  BY Zenon DEF Retained
<1>. HIDE DEF v, w
<1>6. WindowOK(w) /\ w.rows = v.rows /\ w.estimated = v.estimated
  BY <1>4, <1>5, Zenon DEF WindowOK
<1>. QED  BY <1>1, <1>2, <1>4, <1>6, AppendedStep, Zenon DEF w

\* EncodeStarts: the first column's pieces are next.
LEMMA EncodeStartsStep ==
    ASSUME IInv, EncodeStarts
    PROVE  IInv'
<1>1. /\ phase \in {"staged", "encode"} /\ stage.staged # <<>> /\ phase' = "encode"
      /\ UNCHANGED <<source, target, queue, copied>> /\ window' = window
  BY DEF EncodeStarts
<1>2. StageOK(stage) /\ WindowOK(window)
  BY Zenon DEF IInv, TypeInv
<1>3. StageOK(stage)' /\ stage'.staged = stage.staged
  BY <1>2 DEF EncodeStarts, StartColumn, StageOK
<1>. QED  BY <1>1, <1>2, <1>3, EncodingCore, Zenon DEF WindowOK, StageOK

\* EncodePiece: a round of push for the column at hand.
LEMMA EncodePieceStep ==
    ASSUME IInv, NEW pick, EncodePiece(pick)
    PROVE  IInv'
<1>1. /\ phase \in {"staged", "encode"} /\ phase' = "encode" /\ phase = "encode"
      /\ UNCHANGED <<source, target, queue, copied>>
  BY DEF EncodePiece
<1>2. StageOK(stage) /\ WindowOK(window) /\ stage.staged # <<>>
  BY <1>1, Zenon DEF IInv, TypeInv, BudgetInv
<1>3. PICK p : stage' = [stage EXCEPT !.pieces = p]
  BY Zenon DEF EncodePiece
<1>4. StageOK(stage)' /\ stage'.staged = stage.staged
  BY <1>2, <1>3 DEF StageOK
<1>5. window' = push(window, stage.column, Head(stage.pieces), pick)
  BY Zenon DEF EncodePiece
<1>6. Recoded(window, window') /\ WindowOK(window')
  BY <1>2, <1>5, PushRecodes, RecodedOK, Zenon
<1>. QED  BY <1>1, <1>2, <1>4, <1>6, EncodingCore, Zenon DEF Recoded, StageOK

\* FinishColumn: the next column starts, or the staged rows are appended.
LEMMA FinishColumnStep ==
    ASSUME IInv, NEW pick, FinishColumn(pick)
    PROVE  IInv'
<1>1. phase \in {"staged", "encode"} /\ phase = "encode"
  BY DEF FinishColumn
<1>2. /\ StageOK(stage) /\ WindowOK(window) /\ stage.staged # <<>>
      /\ stage.staged \in Seq(Batches)
  BY <1>1, HeldTypes, Zenon DEF IInv, TypeInv, BudgetInv
<1>. DEFINE c == EncodedColumn(pick)
<1>3. Recoded(window, c) /\ WindowOK(c)
  BY <1>2, ColumnRecodes, RecodedOK, Zenon
<1>4. CASE stage.column = Len(FixedWidth)
  <2>. DEFINE v == Noted(c, stage.staged)
              w == Judged(v)
  <2>1. Appended(w)
    BY <1>4, Zenon DEF FinishColumn
  <2>. HIDE DEF c
  <2>2. /\ WindowOK(v) /\ v.rows = c.rows \o RowsOf(stage.staged)
        /\ v.estimated = c.estimated + BytesOf(stage.staged)
    BY <1>2, <1>3, NotedIs, Zenon
  <2>. HIDE DEF v
  <2>3. WindowOK(w) /\ w.rows = v.rows /\ w.estimated = v.estimated
    BY <2>2, Zenon DEF Judged, WindowOK
  <2>. HIDE DEF w
  <2>. QED  BY <1>1, <1>2, <1>3, <2>1, <2>2, <2>3, AppendedStep, Zenon DEF Recoded
<1>5. CASE stage.column # Len(FixedWidth)
  <2>1. window' = c /\ UNCHANGED <<source, target, queue, copied>> /\ phase' = "encode"
    BY <1>1, <1>5, Zenon DEF FinishColumn
  <2>2. StartColumn(stage.column + 1)
    BY <1>5, Zenon DEF FinishColumn
  <2>3. StageOK(stage)' /\ stage'.staged = stage.staged
    BY <1>2, <2>2 DEF StartColumn, StageOK
  <2>. HIDE DEF c
  <2>. QED  BY <1>1, <1>2, <1>3, <2>1, <2>3, EncodingCore, Zenon DEF Recoded, WindowOK, StageOK
<1>. QED  BY <1>4, <1>5, Zenon

\* AppendFails: the ingest has failed, and nothing is said of its rows.
LEMMA AppendFailsStep ==
    ASSUME IInv, AppendFails
    PROVE  IInv'
<1>1. /\ phase' = "failed" /\ source' = source /\ target' = target /\ queue' = queue
      /\ stage' = stage /\ window' = window /\ copied' = copied
  BY DEF AppendFails, building
<1>2. TypeInv'
  BY <1>1 DEF IInv, TypeInv, Phases
<1>3. RowsInv' /\ BudgetInv'
  BY <1>1, Zenon DEF IInv, RowsInv, BudgetInv
<1>. QED  BY <1>2, <1>3, Zenon DEF IInv

-----------------------------------------------------------------------------
(* The upload.                                                             *)

\* WindowStarts and DropChannels: only the phase moves on.
LEMMA UploadPhaseStep ==
    ASSUME IInv, WindowStarts \/ DropChannels
    PROVE  IInv'
<1>1. /\ UNCHANGED <<source, target, queue, stage, window, copied>>
      /\ \/ phase \in {"close", "upload"} /\ phase' = "upload"
         \/ phase \in {"upload", "join"} /\ phase' = "join"
  BY DEF WindowStarts, DropChannels, building
<1>. QED  BY <1>1, UploadKeepsRows, Zenon

\* A window of no rows.
LEMMA FreshIs ==
    ASSUME NEW wire, NEW w, w = EmptyWindow(wire)
    PROVE  WindowOK(w) /\ w.rows = <<>> /\ w.estimated = 0
  BY DEF EmptyWindow, WindowOK

\* Joins: the window's rows are confirmed, or the ingest has failed.
LEMMA JoinsStep ==
    ASSUME IInv, NEW counted, Joins(counted)
    PROVE  IInv'
<1>1. /\ phase = "join" /\ (phase' = "failed" \/ phase' = "build")
      /\ copied' = (IF phase' = "failed" THEN copied ELSE copied \o window.rows)
      /\ window' = EmptyWindow(window.wire)
      /\ source' = source /\ target' = target /\ queue' = queue /\ stage' = stage
  BY Zenon DEF Joins
<1>2. TypeInv
  BY Zenon DEF IInv
<1>6. WindowOK(window') /\ window'.rows = <<>> /\ window'.estimated = 0
  BY <1>1, FreshIs, Zenon
<1>7. copied' \in Seq(Rows)
  <2>1. Over(copied, Rows) /\ Over(window.rows, Rows)
    BY <1>2, HeldTypes, Zenon DEF Over
  <2>2. Over(copied \o window.rows, Rows)
    BY <2>1, OverConcat, Zenon
  <2>. QED  BY <1>1, <2>1, <2>2, Zenon DEF Over
<1>8. TypeInv'
  <2>1. phase' \in Phases
    BY <1>1 DEF Phases
  <2>. QED  BY <1>1, <1>2, <1>6, <1>7, <2>1, Zenon DEF TypeInv
<1>9. /\ phase # "failed" /\ phase # "take" /\ phase # "search" /\ phase # "staged" /\ phase # "encode"
      /\ phase' # "take" /\ phase' # "search" /\ phase' # "staged" /\ phase' # "encode" /\ phase' # "end"
      /\ phase' # "close" /\ phase' # "upload"
      /\ phase \notin {"take", "search", "staged", "encode", "failed"}
  BY <1>1
<1>10. RowsInv'
  <2>1. Held = RowsOf(source) /\ (queue.exhausted => queue.read = Len(source)) /\ stage = NoStage
    BY <1>9, Zenon DEF IInv, RowsInv
  <2>2. Unread' = Unread
    BY <1>1, Zenon DEF Unread
  <2>3. ASSUME phase' # "failed"  PROVE Held' = Held
    <3>. DEFINE a == copied
                b == window.rows
                c == RowsOf(stage.staged)
                d == RowsOf(queue.pending)
                e == Unread
    <3>1. Over(a, Rows) /\ Over(b, Rows) /\ Over(c, Rows) /\ Over(d, Rows) /\ Over(e, Rows)
      BY <1>2, HeldTypes, Zenon DEF Over
    <3>2. Held = Line(a, b, c, d, e)
      BY Zenon DEF Held
    <3>3. Held' = Line(a \o b, <<>>, c, d, e)
      BY <1>1, <1>6, <2>2, <2>3, Zenon DEF Held
    <3>. HIDE DEF a, b, c, d, e
    <3>4. Line(a \o b, <<>>, c, d, e) = Line(a, b, c, d, e)
      BY <3>1, RowsConfirmed
    <3>. QED  BY <3>2, <3>3, <3>4, Zenon
  <2>. QED  BY <1>1, <1>9, <2>1, <2>3, Zenon DEF RowsInv
<1>11. BudgetInv'
  <2>1. estimated_batch_size(<<>>) = 0
    BY Estimates, Zenon
  <2>2. Fits(window.rows, window.estimated)'
    <3>1. target \in Nat /\ WindowBudget \in Nat
      BY <1>2, BudgetAssumption DEF TypeInv
    <3>2. 0 <= WindowBudget /\ Len(<<>>) <= target
      BY <3>1
    <3>. QED  BY <1>1, <1>6, <3>2, Zenon DEF Fits
  <2>3. window'.estimated = estimated_batch_size(window'.rows)
    BY <1>6, <2>1, Zenon
  <2>4. phase' \notin {"take", "search"} /\ phase' \notin {"staged", "encode"} /\ phase' \notin {"close", "upload"}
    BY <1>1
  <2>. QED  BY <1>9, <2>2, <2>3, <2>4, Zenon DEF BudgetInv
<1>. QED  BY <1>8, <1>10, <1>11, Zenon DEF IInv

-----------------------------------------------------------------------------
(* The invariant, and what it says of the windows.                         *)

\* An ingest starts with nothing read, staged or copied.
LEMMA Starts == Init => IInv
<1>. SUFFICES ASSUME Init  PROVE IInv
  OBVIOUS
<1>1. /\ source \in Seq(SourceBatches) /\ target \in Nat /\ queue = EmptyQueue /\ stage = NoStage
      /\ phase = "build" /\ copied = <<>>
  BY BudgetAssumption DEF Init
<1>2. PICK wire \in Wires : window = EmptyWindow(wire)
  BY Zenon DEF Init
<1>3. WindowOK(window) /\ window.rows = <<>> /\ window.estimated = 0
  BY <1>2, FreshIs, Zenon
<1>5. /\ EmptyQueue \in QueueTypes /\ EmptyQueue.pending = <<>> /\ EmptyQueue.rows = 0
      /\ EmptyQueue.bytes = 0 /\ EmptyQueue.read = 0 /\ EmptyQueue.exhausted = FALSE
  BY DEF EmptyQueue, QueueTypes
<1>6. TypeInv
  <2>1. Len(<<>>) = 0 /\ 0 <= Len(source) /\ <<>> \in Seq(Rows) /\ phase \in Phases
    BY <1>1 DEF Phases
  <2>2. BytesOf(<<>>) = 0
    BY BatchBytes
  <2>3. QueueOK(EmptyQueue)
    BY <1>5, <2>1, <2>2, RowsOfNone, Zenon DEF QueueOK
  <2>. QED  BY <1>1, <1>3, <1>5, <2>1, <2>3, NoStageType, Zenon DEF TypeInv
<1>7. RowsInv
  <2>1. Unread = RowsOf(source)
    <3>1. SubSeq(source, 1, Len(source)) = source
      BY <1>1
    <3>2. queue.read + 1 = 1
      BY <1>1, <1>5
    <3>. QED  BY <3>1, <3>2, Zenon DEF Unread
  <2>2. RowsOf(source) \in Seq(Rows)
    BY <1>6, HeldTypes, Zenon
  <2>3. Held = <<>> \o <<>> \o <<>> \o <<>> \o RowsOf(source)
    BY <1>1, <1>3, <1>5, <2>1, NoStageType, RowsOfNone, Zenon DEF Held, Line
  <2>4. Held = RowsOf(source)
    <3>. DEFINE r == RowsOf(source)
    <3>1. r \in Seq(Rows)
      BY <2>2, Zenon
    <3>. HIDE DEF r
    <3>2. <<>> \o <<>> \o <<>> \o <<>> \o r = r
      BY <3>1
    <3>. QED  BY <2>3, <3>2, Zenon DEF r
  <2>5. phase # "end" /\ ~queue.exhausted
    BY <1>1, <1>5
  <2>. QED  BY <1>1, <2>4, <2>5, Zenon DEF RowsInv
<1>8. BudgetInv
  <2>1. Fits(window.rows, window.estimated)
    <3>1. target \in Nat /\ WindowBudget \in Nat
      BY <1>1, BudgetAssumption
    <3>2. 0 <= WindowBudget /\ Len(<<>>) <= target
      BY <3>1
    <3>. QED  BY <1>3, <3>2, Zenon DEF Fits
  <2>2. window.estimated = estimated_batch_size(window.rows)
    BY <1>3, Estimates, Zenon
  <2>3. /\ phase \notin {"take", "search"} /\ phase \notin {"staged", "encode"}
        /\ phase \notin {"close", "upload"} /\ phase # "search" /\ phase # "encode"
        /\ phase # "staged" /\ phase # "close"
    BY <1>1
  <2>. QED  BY <2>1, <2>2, <2>3, Zenon DEF BudgetInv
<1>. QED  BY <1>6, <1>7, <1>8, Zenon DEF IInv

\* The steps of the upload and the encoder that move no row, and stuttering.
LEMMA RowsStayStep ==
    ASSUME IInv, UNCHANGED <<source, target, queue, stage, window, phase, copied>>
    PROVE  IInv'
<1>1. /\ source' = source /\ target' = target /\ queue' = queue /\ stage' = stage
      /\ window' = window /\ phase' = phase /\ copied' = copied
  OBVIOUS
<1>2. TypeInv'
  BY <1>1, Zenon DEF IInv, TypeInv
<1>3. Closed' = Closed /\ NextRow' = NextRow
  BY <1>1, SameClosed, Zenon
<1>4. RowsInv'
  <2>1. Held' = Held
    BY <1>1, Zenon DEF Held, Unread
  <2>. QED  BY <1>1, <1>3, <2>1, Zenon DEF IInv, RowsInv
<1>5. BudgetInv'
  <2>1. /\ RowsLeft' = RowsLeft /\ StageBytes' = StageBytes /\ HasTarget' = HasTarget
        /\ \A r, b : Fits(r, b)' = Fits(r, b)
    BY <1>1, SameTargets, Zenon
  <2>2. Taking' = Taking
    BY <1>1, <2>1, Zenon DEF Taking
  <2>3. Searching' = Searching
    BY <1>1, Zenon DEF Searching, Oldest
  <2>4. /\ Fits(window.rows, window.estimated)' = Fits(window.rows, window.estimated)
        /\ Fits(window.rows \o RowsOf(stage.staged), window.estimated + BytesOf(stage.staged))'
              = Fits(window.rows \o RowsOf(stage.staged), window.estimated + BytesOf(stage.staged))
    BY <1>1, Zenon DEF Fits
  <2>. QED  BY <1>1, <1>3, <2>2, <2>3, <2>4, Zenon DEF IInv, BudgetInv
<1>. QED  BY <1>2, <1>4, <1>5, Zenon DEF IInv

\* Every step of the scheduler, the upload, the encoder and the faults.
LEMMA Steps ==
    ASSUME IInv, [Next]_vars
    PROVE  IInv'
<1>. DEFINE Stay == UNCHANGED <<source, target, queue, stage, window, phase, copied>>
<1>1. CASE Staging
  BY <1>1, SourceEndsStep, SourceFailsStep, ReadBatchStep, CompactPendingStep, RoundEndsStep,
     TakeStartsStep, TakeBatchStep, SearchStartsStep, SearchHalvesStep, TakePrefixStep,
     TakeEndsStep,
     ZenonT(30) DEF Staging
<1>2. CASE Appending
  BY <1>2, StagedNothingStep, RetainBatchesStep, EncodeStartsStep, EncodePieceStep,
     FinishColumnStep, Zenon DEF Appending
<1>3. CASE EndOfWindows \/ WindowStarts
  BY <1>3, EndOfWindowsStep, UploadPhaseStep, Zenon
<1>4. CASE Upload
  <2>1. ASSUME NEW k, ServerAsks(k)  PROVE Stay
    BY <2>1 DEF ServerAsks, building
  <2>2. CASE RequestColumn \/ ReceiveMessage \/ EncoderGone \/ ServerAnswers
    <3>1. Stay
      BY <2>2 DEF RequestColumn, ReceiveMessage, EncoderGone, ServerAnswers, building
    <3>. QED  BY <3>1, RowsStayStep, Zenon
  <2>. QED  BY <1>4, <2>1, <2>2, RowsStayStep, UploadPhaseStep, JoinsStep, Zenon DEF Upload
<1>5. CASE Encoder
  <2>1. ASSUME NEW from, NEW m, NEW next, EncoderStep(from, m, next)  PROVE Stay
    BY <2>1 DEF EncoderStep, building
  <2>2. RequestsEnd => Stay
    BY DEF RequestsEnd, building
  <2>3. Stay
    BY <1>5, <2>1, <2>2, Zenon DEF Encoder, SendStart, SendChunk, SendFinish, SendError
  <2>. QED  BY <2>3, RowsStayStep, Zenon
<1>6. CASE Faults
  <2>1. ServerFails \/ EncodingFails \/ EncoderPanics => Stay
    BY DEF ServerFails, EncodingFails, EncoderPanics, building
  <2>. QED  BY <1>6, <2>1, RowsStayStep, AppendFailsStep, Zenon DEF Faults
<1>7. CASE Ended \/ UNCHANGED vars
  <2>1. Stay
    BY <1>7 DEF Ended, vars
  <2>. QED  BY <2>1, RowsStayStep, Zenon
<1>. QED  BY <1>1, <1>2, <1>3, <1>4, <1>5, <1>6, <1>7, Zenon DEF Next, Scheduler

\* IngestWindowScheduler, EncodedIngestWindow and the calls that upload: what
\* every step of an ingest preserves, for all sources, budgets and row targets.
\* The rows are in one line from the server to the source, and the window and
\* the staged rows are within their budget.
THEOREM WindowsInvariant == Spec => []IInv
<1>1. IInv /\ [Next]_vars => IInv'
  BY Steps, Zenon
<1>. QED  BY <1>1, Starts, PTL DEF Spec


\* next_window, take_staging, split_pending and compact_pending_batches: no row
\* is lost, doubled or reordered between the source and the confirmed windows,
\* the counters of the queue are right, and the ingest ends after the last row.
THEOREM IngestsTheSource == Spec => []WindowsAreTheSource
<1>1. IInv => WindowsAreTheSource
  <2>. SUFFICES ASSUME IInv  PROVE WindowsAreTheSource
    OBVIOUS
  <2>1. TypeInv /\ RowsInv
    BY Zenon DEF IInv
  <2>2. phase # "failed" =>
          copied \o window.rows \o RowsOf(stage.staged) \o RowsOf(queue.pending) \o Unread = RowsOf(source)
    BY <2>1, Zenon DEF RowsInv, Held, Line
  <2>3. queue.rows = Len(RowsOf(queue.pending)) /\ queue.bytes = BytesOf(queue.pending)
    BY <2>1, Zenon DEF TypeInv, QueueOK
  <2>4. ASSUME NEW i \in DOMAIN queue.pending
        PROVE  queue.pending[i].estimated = estimated_batch_size(queue.pending[i].rows)
    <3>1. queue.pending \in Seq(Batches)
      BY <2>1, HeldTypes, Zenon
    <3>2. i \in 1..Len(queue.pending)
      BY <3>1
    <3>3. queue.pending[i] \in Batches
      BY <3>1, <3>2, ElementOfSeq, Zenon
    <3>. QED  BY <3>3, Zenon DEF Batches
  <2>5. ASSUME phase = "end"  PROVE copied = RowsOf(source)
    <3>1. window.rows = <<>> /\ NextRow = <<>> /\ stage = NoStage /\ Held = RowsOf(source)
      <4>1. phase # "failed" /\ phase \notin {"take", "search", "staged", "encode", "failed"}
        BY <2>5
      <4>. QED  BY <2>1, <2>5, <4>1, Zenon DEF RowsInv
    <3>2. copied \in Seq(Rows) /\ RowsOf(queue.pending) \in Seq(Rows) /\ Unread \in Seq(Rows)
      BY <2>1, HeldTypes, Zenon
    <3>3. RowsOf(stage.staged) = <<>>
      BY <3>1, NoStageType, RowsOfNone, Zenon
    <3>4. RowsOf(queue.pending) = <<>> /\ Unread = <<>>
      <4>. DEFINE p == RowsOf(queue.pending)
                  u == Unread
      <4>1. p \in Seq(Rows) /\ u \in Seq(Rows) /\ p \o u = <<>>
        BY <3>1, <3>2, Zenon DEF NextRow
      <4>. HIDE DEF p, u
      <4>2. p = <<>> /\ u = <<>>
        BY <4>1
      <4>. QED  BY <4>2, Zenon DEF p, u
    <3>5. Held = copied \o <<>> \o <<>> \o <<>> \o <<>>
      BY <3>1, <3>3, <3>4, Zenon DEF Held, Line
    <3>6. copied \o <<>> = copied
      BY <3>2, ConcatEmptySeq, Zenon
    <3>. QED  BY <3>1, <3>5, <3>6, Zenon
  <2>. QED  BY <2>2, <2>3, <2>4, <2>5, Zenon DEF WindowsAreTheSource
<1>. QED  BY <1>1, WindowsInvariant, PTL

\* next_window and take_staging: an automatic window exceeds its budget only as a
\* single row and is closed early only by its storage or by a row that does not
\* fit; a row target is never exceeded.
THEOREM FillsTheBudget == Spec => []WindowsFillTheirBudget
<1>1. IInv => WindowsFillTheirBudget
  <2>. SUFFICES ASSUME IInv, phase = "upload"
                PROVE  IF target = Automatic
                       THEN /\ window.estimated <= WindowBudget \/ Len(window.rows) = 1
                            /\ \/ NextRow = <<>>
                               \/ should_finish_automatic_window(window)
                               \/ Weight(NextRow[1]) > StageBytes
                       ELSE Len(window.rows) <= target
    BY Zenon DEF WindowsFillTheirBudget
  <2>1. phase # "failed" /\ phase \in {"close", "upload"}
    OBVIOUS
  <2>2. Fits(window.rows, window.estimated) /\ Closed
    BY <2>1, Zenon DEF IInv, BudgetInv
  <2>3. CASE target # Automatic
    BY <2>2, <2>3, Zenon DEF Fits
  <2>4. CASE target = Automatic
    <3>1. window.estimated <= WindowBudget \/ Len(window.rows) = 1
      BY <2>2, <2>4, Zenon DEF Fits
    <3>. QED  BY <2>2, <2>4, <3>1, Zenon DEF Closed
  <2>. QED  BY <2>3, <2>4, Zenon
<1>. QED  BY <1>1, WindowsInvariant, PTL

-----------------------------------------------------------------------------
(* What a column is encoded to, and its pieces.                            *)

\* The bytes of a column, the tokens of compressed data, and what keeps them.
Byte == Nat \X Nat \X Nat
Formats == {"frame", "block"}
Token == Seq(Byte) \X Formats \X Nat \X Nat
Slabs == [size : Nat, data : Seq(Token)]
Spots == [slab : Nat, offset : Nat, len : Nat]
RawChunks == [kind : {"raw"}, data : Seq(Byte)]
Lz4Chunks ==
    [kind : {"lz4"}, at : Spots, decoded : Nat, transform : {"plain", "shuffle"}, format : Formats]
Chunks == RawChunks \cup Lz4Chunks

\* The bytes of a compressed chunk are in the arena, where they were put.
InArena(arena, c) ==
    c.kind = "lz4" =>
        /\ c.at.slab \in 1..Len(arena)
        /\ c.at.offset + c.at.len <= Len(arena[c.at.slab].data)


\* Quotient and remainder.
LEMMA DivMod ==
    ASSUME NEW a \in Nat, NEW c \in Nat, c > 0
    PROVE  a \div c \in Nat /\ a % c \in 0..(c - 1) /\ a = c * (a \div c) + (a % c)
<1>1. a \div c \in Nat
  OBVIOUS
<1>2. a % c \in 0..(c - 1)
  OBVIOUS
<1>3. a = c * (a \div c) + (a % c)
  OBVIOUS
<1>. QED  BY <1>1, <1>2, <1>3, Zenon

\* Quotient and remainder are the only ones.
LEMMA Quotient ==
    ASSUME NEW a \in Nat, NEW c \in Nat, c > 0, NEW q \in Nat, NEW r \in Nat, r < c, a = c * q + r
    PROVE  a \div c = q /\ a % c = r
  OBVIOUS

\* A product grows with its factor.
LEMMA Times ==
    ASSUME NEW i \in Nat, NEW j \in Nat, NEW c \in Nat, i <= j
    PROVE  i * c \in Nat /\ j * c \in Nat /\ i * c <= j * c
<1>1. i * c \in Nat /\ (j - i) * c \in Nat /\ j * c = i * c + (j - i) * c
  OBVIOUS
<1>. QED  BY <1>1

\* As many pieces of c as l needs, the last one not empty.
LEMMA Ceiling ==
    ASSUME NEW l \in Nat, NEW c \in Nat, c > 0
    PROVE  LET n == (l + c - 1) \div c IN
           /\ n \in Nat /\ l <= n * c
           /\ \A i \in 1..n : (i - 1) * c \in Nat /\ (i - 1) * c < l /\ i * c = (i - 1) * c + c
<1>. DEFINE a == l + c - 1
            n == a \div c
            r == a % c
<1>1. a \in Nat
  OBVIOUS
<1>2. n \in Nat /\ r \in 0..(c - 1) /\ a = c * n + r
  BY <1>1, DivMod
<1>. HIDE DEF n, r
<1>3. c * n = n * c
  BY <1>2
<1>4. l <= n * c
  BY <1>2, <1>3
<1>5. ASSUME NEW i \in 1..n
      PROVE  (i - 1) * c \in Nat /\ (i - 1) * c < l /\ i * c = (i - 1) * c + c
  <2>1. i - 1 \in Nat /\ n - 1 \in Nat /\ i - 1 <= n - 1
    BY <1>2
  <2>2. (i - 1) * c \in Nat /\ (n - 1) * c \in Nat /\ (i - 1) * c <= (n - 1) * c
    BY <2>1, Times
  <2>3. (n - 1) * c = n * c - c /\ i * c = (i - 1) * c + c
    BY <1>2
  <2>4. (n - 1) * c < l
    BY <1>2, <1>3, <2>3
  <2>. QED  BY <2>2, <2>3, <2>4
<1>. QED  BY <1>2, <1>4, <1>5 DEF n

\* encode_column, over rows one after the other.
LEMMA Encodes ==
    ASSUME NEW k \in Columns
    PROVE  /\ encode_column(<<>>, k) = <<>>
           /\ \A s \in Seq(Rows) : encode_column(s, k) \in Seq(Byte)
           /\ \A s, t \in Seq(Rows) : encode_column(s \o t, k) = encode_column(s, k) \o encode_column(t, k)
<1>. DEFINE f == [r \in Rows |-> Bytes(r, k)]
<1>0. k \in Nat
  BY QueueAssumption DEF Columns
<1>1. ASSUME NEW r \in Rows  PROVE Bytes(r, k) \in Seq(Byte)
  <2>1. r.id \in Nat /\ r.bytes[k] \in Nat
    BY DEF Rows
  <2>2. \A i \in 1..r.bytes[k] : <<r.id, k, i>> \in Byte
    BY <1>0, <2>1 DEF Byte
  <2>. DEFINE n == r.bytes[k]
              d == r.id
  <2>3. n \in Nat /\ \A i \in 1..n : <<d, k, i>> \in Byte
    BY <2>1, <2>2, Zenon
  <2>. HIDE DEF n, d
  <2>4. [i \in 1..n |-> <<d, k, i>>] \in Seq(Byte)
    BY <2>3
  <2>. QED  BY <2>4, Zenon DEF Bytes, n, d
<1>2. Maps(f, Rows, Seq(Byte))
  BY <1>1 DEF Maps
<1>3. ASSUME NEW s \in Seq(Rows)  PROVE encode_column(s, k) = FlattenSeq(Map(f, s))
  <2>1. Map(f, s) = [i \in DOMAIN s |-> Bytes(s[i], k)]
    BY DEF Map
  <2>. QED  BY <2>1, Zenon DEF encode_column
<1>. HIDE DEF f
<1>4. ASSUME NEW s \in Seq(Rows), NEW t \in Seq(Rows)
      PROVE  /\ encode_column(s, k) \in Seq(Byte)
             /\ encode_column(s \o t, k) = encode_column(s, k) \o encode_column(t, k)
  <2>1. s \o t \in Seq(Rows)
    BY ConcatProperties
  <2>2. FlattenSeq(Map(f, s)) \in Seq(Byte)
    BY <1>2, FlatMap, Zenon
  <2>3. FlattenSeq(Map(f, s \o t)) = FlattenSeq(Map(f, s)) \o FlattenSeq(Map(f, t))
    BY <1>2, FlatMap
  <2>. QED  BY <1>3, <2>1, <2>2, <2>3, Zenon
<1>5. encode_column(<<>>, k) = <<>>
  <2>1. [i \in DOMAIN <<>> |-> Bytes(<<>>[i], k)] = <<>>
    OBVIOUS
  <2>. QED  BY <2>1, Flattened, Zenon DEF encode_column
<1>. QED  BY <1>4, <1>5, Zenon

\* The slices of an array are the array, and none is empty.
LEMMA SlicesJoin ==
    ASSUME NEW S, NEW rows \in Seq(S), NEW c \in Nat \ {0}
    PROVE  /\ Slices(rows, c) \in Seq(Seq(S)) /\ FlattenSeq(Slices(rows, c)) = rows
           /\ \A i \in 1..Len(Slices(rows, c)) : Slices(rows, c)[i] # <<>>
<1>. DEFINE l == Len(rows)
            n == (l + c - 1) \div c
            E(i) == Least(i * c, l)
            p(i) == SubSeq(rows, (i - 1) * c + 1, E(i))
            ss == Slices(rows, c)
            f == [i \in 0..n |-> SubSeq(rows, 1, E(i))]
<1>1. c \in Nat /\ c > 0
  OBVIOUS
<1>2. l \in Nat
  BY LenProperties
<1>. HIDE DEF l
<1>3. /\ n \in Nat /\ l <= n * c
      /\ \A i \in 1..n : /\ (i - 1) * c \in Nat /\ (i - 1) * c < l
                         /\ i * c = (i - 1) * c + c
  BY <1>1, <1>2, Ceiling, Zenon
<1>4. ss = [i \in 1..n |-> p(i)]
  BY Zenon DEF Slices, RowSlice, l
<1>. HIDE DEF n
<1>5. ASSUME NEW i \in 1..n
      PROVE  /\ i - 1 \in 0..n /\ i \in 0..n
             /\ E(i) \in 0..l /\ E(i - 1) \in 0..l
             /\ E(i - 1) = (i - 1) * c /\ E(i - 1) < E(i)
  <2>. DEFINE x == (i - 1) * c
              y == i * c
  <2>1. x \in Nat /\ x < l /\ y = x + c
    BY <1>3, Zenon
  <2>. HIDE DEF x, y
  <2>2. Least(x, l) = x /\ Least(y, l) \in 0..l /\ x < Least(y, l) /\ x \in 0..l
    BY <1>1, <1>2, <2>1 DEF Least
  <2>3. i - 1 \in 0..n /\ i \in 0..n
    BY <1>3
  <2>. QED  BY <2>2, <2>3, Zenon DEF x, y
<1>6. ASSUME NEW i \in 1..n
      PROVE  /\ p(i) \in Seq(S) /\ p(i) # <<>>
             /\ SubSeq(rows, 1, E(i)) = SubSeq(rows, 1, E(i - 1)) \o p(i)
  <2>. DEFINE a == E(i - 1)
              b == E(i)
  <2>1. a \in 0..l /\ b \in 0..l /\ a < b /\ p(i) = SubSeq(rows, a + 1, b)
    BY <1>5, Zenon
  <2>. HIDE DEF a, b
  <2>2. \A j \in (a + 1)..b : j \in 1..l
    BY <1>2, <2>1
  <2>3. \A j \in (a + 1)..b : rows[j] \in S
    BY <2>2, ElementOfSeq, Zenon DEF l
  <2>4. a + 1 \in Int /\ b \in Int
    BY <2>1
  <2>. DEFINE u == SubSeq(rows, a + 1, b)
  <2>5. u \in Seq(S) /\ Len(u) = IF a + 1 <= b THEN b - (a + 1) + 1 ELSE 0
    BY <2>3, <2>4, SubSeqProperties, Zenon
  <2>6. SubSeq(rows, 1, a) \o u = SubSeq(rows, 1, b)
    <3>1. 1 \in 1..(Len(rows) + 1) /\ a \in (1 - 1)..Len(rows) /\ b \in a..Len(rows)
      BY <1>2, <2>1 DEF l
    <3>. QED  BY <3>1, ConcatAdjacentSubSeq, Zenon
  <2>. HIDE DEF u
  <2>7. Len(u) # 0
    BY <2>1, <2>4, <2>5
  <2>8. u # <<>>
    BY <2>7, EmptySeq, Zenon
  <2>9. p(i) = u
    BY <2>1, Zenon DEF u
  <2>. QED  BY <2>5, <2>6, <2>8, <2>9, Zenon DEF a, b
<1>7. ss \in Seq(Seq(S)) /\ Len(ss) = n /\ \A i \in 1..n : ss[i] = p(i)
  <2>1. \A i \in 1..n : p(i) \in Seq(S)
    BY <1>6, Zenon
  <2>. HIDE DEF p
  <2>2. [i \in 1..n |-> p(i)] \in Seq(Seq(S)) /\ Len([i \in 1..n |-> p(i)]) = n
    BY <1>3, <2>1
  <2>3. \A i \in 1..n : [j \in 1..n |-> p(j)][i] = p(i)
    BY Zenon
  <2>. QED  BY <1>4, <2>2, <2>3, Zenon
<1>. HIDE DEF ss
<1>8. Joined(S, ss, f)
  <2>1. ASSUME NEW i \in 0..n  PROVE SubSeq(rows, 1, E(i)) \in Seq(S)
    <3>. DEFINE y == i * c
    <3>1. y \in Nat
      BY <1>1, <1>3
    <3>. HIDE DEF y
    <3>2. Least(y, l) \in 0..l
      BY <1>2, <3>1 DEF Least
    <3>. DEFINE m == Least(y, l)
    <3>3. m \in 0..Len(rows)
      BY <3>2, Zenon DEF l
    <3>. HIDE DEF m
    <3>4. SubSeq(rows, 1, m) \in Seq(S)
      BY <3>3, Cut, Zenon
    <3>. QED  BY <3>4, Zenon DEF m, y
  <2>2. f \in [0..n -> Seq(S)]
    BY <2>1, Zenon
  <2>3. f[0] = <<>>
    <3>1. E(0) = 0 /\ 0 \in 0..n
      BY <1>1, <1>2, <1>3 DEF Least
    <3>2. SubSeq(rows, 1, 0) = <<>>
      BY SubSeqEmpty
    <3>. QED  BY <3>1, <3>2, Zenon
  <2>4. ASSUME NEW i \in 1..n  PROVE f[i] = f[i - 1] \o ss[i]
    <3>1. f[i] = SubSeq(rows, 1, E(i)) /\ f[i - 1] = SubSeq(rows, 1, E(i - 1))
      BY <1>5, Zenon
    <3>. QED  BY <1>6, <1>7, <3>1, Zenon
  <2>. QED  BY <1>7, <2>2, <2>3, <2>4, Zenon DEF Joined
<1>9. f[n] = rows
  <2>1. n \in 0..n
    BY <1>3
  <2>2. E(n) = l
    <3>. DEFINE y == n * c
    <3>1. y \in Nat /\ l <= y
      BY <1>1, <1>3
    <3>. HIDE DEF y
    <3>2. Least(y, l) = l
      BY <1>2, <3>1 DEF Least
    <3>. QED  BY <3>2, Zenon DEF y
  <2>3. SubSeq(rows, 1, Len(rows)) = rows
    BY SubSeqFull
  <2>. QED  BY <2>1, <2>2, <2>3, Zenon DEF l
<1>10. FlattenSeq(ss) = f[Len(ss)]
  <2>. HIDE DEF f
  <2>. QED  BY <1>7, <1>8, FlattenIs, Zenon
<1>. QED  BY <1>6, <1>7, <1>9, <1>10, Zenon DEF ss

\* What goes over concatenation goes over a flattened sequence.
LEMMA Distributes ==
    ASSUME NEW A, NEW S, NEW h, Maps(h, Seq(A), Seq(S)), h[<<>>] = <<>>,
           \A s, t \in Seq(A) : h[s \o t] = h[s] \o h[t],
           NEW ss \in Seq(Seq(A))
    PROVE  FlattenSeq(Map(h, ss)) = h[FlattenSeq(ss)]
<1>. DEFINE n == Len(ss)
            m == Map(h, ss)
<1>1. PICK f : Joined(A, ss, f)
  BY JoinedExists, Zenon
<1>. DEFINE g == [i \in 0..n |-> h[f[i]]]
<1>2. n \in Nat /\ n \in 0..n /\ 0 \in 0..n /\ \A i \in 1..n : i \in 0..n /\ i - 1 \in 0..n
  BY LenProperties
<1>3. m \in Seq(Seq(S)) /\ Len(m) = n /\ \A i \in 1..n : m[i] = h[ss[i]]
  BY MapType
<1>4. FlattenSeq(ss) = f[n]
  BY <1>1, FlattenIs, Zenon
<1>5. f[0] = <<>> /\ (\A i \in 0..n : f[i] \in Seq(A)) /\ \A i \in 1..n : f[i] = f[i - 1] \o ss[i]
  BY <1>1 DEF Joined
<1>6. \A i \in 1..n : ss[i] \in Seq(A)
  BY ElementOfSeq
<1>7. \A s \in Seq(A) : h[s] \in Seq(S)
  BY DEF Maps
<1>. HIDE DEF n, m
<1>8. g \in [0..n -> Seq(S)]
  BY <1>5, <1>7, Zenon
<1>9. g[0] = <<>> /\ g[n] = h[f[n]]
  BY <1>2, <1>5, Zenon
<1>10. ASSUME NEW i \in 1..n  PROVE g[i] = g[i - 1] \o m[i]
  <2>1. g[i] = h[f[i]] /\ g[i - 1] = h[f[i - 1]]
    BY <1>2, Zenon
  <2>2. h[f[i - 1] \o ss[i]] = h[f[i - 1]] \o h[ss[i]]
    BY <1>2, <1>5, <1>6, Zenon
  <2>. QED  BY <1>3, <1>5, <2>1, <2>2, Zenon
<1>. HIDE DEF g
<1>11. Joined(S, m, g)
  BY <1>3, <1>8, <1>9, <1>10, Zenon DEF Joined
<1>12. FlattenSeq(m) = g[Len(m)]
  BY <1>3, <1>11, FlattenIs, Zenon
<1>. QED  BY <1>3, <1>4, <1>9, <1>12, Zenon DEF m

\* A slice has rows.
LEMMA ChunkRows ==
    ASSUME NEW rows \in Seq(Rows), NEW k \in Columns
    PROVE  RowsPerChunk(rows, k) \in Nat \ {0}
<1>. DEFINE ns == [i \in DOMAIN rows |-> rows[i].bytes[k]]
            e == estimated_encoded_size(rows, k)
            n == Len(rows)
<1>1. n \in Nat /\ \A i \in 1..n : rows[i] \in Rows
  BY ElementOfSeq, LenProperties
<1>2. \A i \in 1..n : rows[i].bytes[k] \in Nat
  BY <1>1 DEF Rows
<1>3. ns \in Seq(Nat)
  BY <1>1, <1>2
<1>4. e \in Nat
  BY <1>3, Totals, Zenon DEF estimated_encoded_size
<1>5. ChunkBytes \in Nat
  BY WindowAssumption
<1>. HIDE DEF e, n
<1>6. AtLeastOne(n) \in Nat \ {0}
  BY <1>1 DEF AtLeastOne
<1>7. ASSUME e # 0  PROVE AtLeastOne(Least((ChunkBytes * n) \div e, n)) \in Nat \ {0}
  <2>. DEFINE a == ChunkBytes * n
              q == a \div e
  <2>1. a \in Nat /\ e > 0
    BY <1>1, <1>4, <1>5, <1>7
  <2>. HIDE DEF a
  <2>2. q \in Nat
    BY <1>4, <2>1, DivMod, Zenon
  <2>. HIDE DEF q
  <2>3. AtLeastOne(Least(q, n)) \in Nat \ {0}
    BY <1>1, <2>2 DEF AtLeastOne, Least
  <2>. QED  BY <2>3, Zenon DEF q, a
<1>. QED  BY <1>6, <1>7, Zenon DEF RowsPerChunk, e, n

\* The bytes of rows are not none.
LEMMA EncodesSome ==
    ASSUME NEW rows \in Seq(Rows), rows # <<>>, NEW k \in Columns
    PROVE  encode_column(rows, k) # <<>>
<1>. DEFINE r == Head(rows)
            t == Tail(rows)
            b == Bytes(r, k)
            x == encode_column(t, k)
            y == encode_column(<<r>>, k)
<1>1. r \in Rows /\ t \in Seq(Rows) /\ <<r>> \o t = rows /\ <<r>> \in Seq(Rows)
  BY CutFirst, Zenon
<1>. HIDE DEF r, t
<1>2. encode_column(rows, k) = y \o x /\ y \in Seq(Byte) /\ x \in Seq(Byte)
  BY <1>1, Encodes, Zenon
<1>3. r.bytes[k] \in Nat \ {0}
  BY <1>1 DEF Rows
<1>4. Len(b) = r.bytes[k]
  BY <1>3 DEF Bytes
<1>5. [i \in DOMAIN <<r>> |-> Bytes(<<r>>[i], k)] = <<b>>
  OBVIOUS
<1>6. b \in Seq(Byte)
  <2>. DEFINE n == r.bytes[k]
              d == r.id
  <2>1. n \in Nat /\ d \in Nat /\ k \in Nat
    BY <1>1, <1>3, QueueAssumption DEF Rows, Columns
  <2>2. \A i \in 1..n : <<d, k, i>> \in Byte
    BY <2>1 DEF Byte
  <2>. HIDE DEF n, d
  <2>3. [i \in 1..n |-> <<d, k, i>>] \in Seq(Byte)
    BY <2>1, <2>2
  <2>. QED  BY <2>3, Zenon DEF Bytes, n, d
<1>7. y = b
  BY <1>5, <1>6, Flattened, Zenon DEF encode_column
<1>8. Len(y) # 0
  BY <1>3, <1>4, <1>7
<1>. HIDE DEF b, x, y
<1>9. Len(y \o x) = Len(y) + Len(x) /\ Len(y) \in Nat /\ Len(x) \in Nat
  BY <1>2, ConcatProperties, LenProperties
<1>10. Len(encode_column(rows, k)) # 0
  BY <1>2, <1>8, <1>9
<1>11. Len(<<>>) = 0
  OBVIOUS
<1>. QED  BY <1>10, <1>11, Zenon

\* What encode_column_chunks emits: bytes, at least one.
Emitted == Seq(Byte) \ {<<>>}

\* encode_column_chunks, on one array: what it emits is the array.
LEMMA ArrayJoins ==
    ASSUME NEW rows \in Seq(Rows), NEW k \in Columns
    PROVE  /\ ArrayPieces(rows, k) \in Seq(Emitted)
           /\ FlattenSeq(ArrayPieces(rows, k)) = encode_column(rows, k)
<1>. DEFINE c == RowsPerChunk(rows, k)
            ss == Slices(rows, c)
            h == [s \in Seq(Rows) |-> encode_column(s, k)]
            m == Map(h, ss)
<1>1. c \in Nat \ {0}
  BY ChunkRows, Zenon
<1>. HIDE DEF c
<1>2. /\ ss \in Seq(Seq(Rows)) /\ FlattenSeq(ss) = rows
      /\ \A i \in 1..Len(ss) : ss[i] # <<>>
  BY <1>1, SlicesJoin, Zenon
<1>. HIDE DEF ss
<1>3. \A s \in Seq(Rows) : encode_column(s, k) \in Seq(Byte)
  BY Encodes, Zenon
<1>4. Maps(h, Seq(Rows), Seq(Byte))
  BY <1>3, Zenon DEF Maps
<1>5. \A s \in Seq(Rows) : h[s] = encode_column(s, k)
  BY Zenon
<1>. HIDE DEF h
<1>6. h[<<>>] = <<>> /\ \A s, t \in Seq(Rows) : h[s \o t] = h[s] \o h[t]
  <2>1. <<>> \in Seq(Rows) /\ \A s, t \in Seq(Rows) : s \o t \in Seq(Rows)
    BY ConcatProperties
  <2>2. encode_column(<<>>, k) = <<>>
    BY Encodes, Zenon
  <2>3. ASSUME NEW s \in Seq(Rows), NEW t \in Seq(Rows)  PROVE h[s \o t] = h[s] \o h[t]
    <3>1. encode_column(s \o t, k) = encode_column(s, k) \o encode_column(t, k)
      BY Encodes, Zenon
    <3>. QED  BY <1>5, <2>1, <3>1, Zenon
  <2>. QED  BY <1>5, <2>1, <2>2, <2>3, Zenon
<1>a. ss \in Seq(Seq(Rows))
  BY <1>2, Zenon
<1>7. FlattenSeq(m) = h[FlattenSeq(ss)]
  BY <1>4, <1>6, <1>a, Distributes, ZenonT(40)
<1>8. DOMAIN ss = 1..Len(ss) /\ \A i \in 1..Len(ss) : ss[i] \in Seq(Rows)
  BY <1>2, ElementOfSeq
<1>9. ArrayPieces(rows, k) = m
  <2>1. \A i \in DOMAIN ss : encode_column(ss[i], k) = h[ss[i]]
    BY <1>5, <1>8, Zenon
  <2>2. [i \in DOMAIN ss |-> encode_column(ss[i], k)] = [i \in DOMAIN ss |-> h[ss[i]]]
    BY <2>1
  <2>. QED  BY <2>2, Zenon DEF ArrayPieces, Map, ss, c
<1>10. m \in Seq(Emitted)
  <2>1. m \in Seq(Seq(Byte)) /\ Len(m) = Len(ss) /\ \A i \in 1..Len(ss) : m[i] = h[ss[i]]
    BY <1>4, <1>a, MapType
  <2>2. ASSUME NEW i \in 1..Len(ss)  PROVE m[i] \in Emitted
    <3>1. ss[i] \in Seq(Rows) /\ ss[i] # <<>>
      BY <1>2, <1>8, Zenon
    <3>2. encode_column(ss[i], k) # <<>> /\ encode_column(ss[i], k) \in Seq(Byte)
      BY <1>3, <3>1, EncodesSome, Zenon
    <3>3. m[i] = encode_column(ss[i], k)
      BY <1>5, <2>1, <3>1, Zenon
    <3>. QED  BY <3>2, <3>3, Zenon DEF Emitted
  <2>. HIDE DEF m
  <2>. QED  BY <2>1, <2>2
<1>. QED  BY <1>2, <1>5, <1>7, <1>9, <1>10, Zenon

\* encode_column_chunks: whatever row sizes the slices of each array are cut by,
\* the pieces it emits are the column of all arrays, in order, and none is empty.
THEOREM PiecesJoin ==
    ASSUME NEW B, HasRows(B), NEW batches \in Seq(B), NEW k \in Columns
    PROVE  /\ encode_column_chunks(batches, k) \in Seq(Emitted)
           /\ FlattenSeq(encode_column_chunks(batches, k)) = encode_column(RowsOf(batches), k)
<1>. DEFINE g == [b \in B |-> b.rows]
            p == [s \in Seq(Rows) |-> ArrayPieces(s, k)]
            h == [s \in Seq(Rows) |-> encode_column(s, k)]
            j == [s \in Seq(Emitted) |-> FlattenSeq(s)]
            rs == Map(g, batches)
            ps == Map(p, rs)
<1>1. rs \in Seq(Seq(Rows)) /\ RowsOf(batches) = FlattenSeq(rs)
  <2>1. Maps(g, B, Seq(Rows))
    BY DEF Maps, HasRows
  <2>2. rs = [i \in DOMAIN batches |-> batches[i].rows]
    BY DEF Map
  <2>. HIDE DEF g
  <2>3. rs \in Seq(Seq(Rows))
    BY <2>1, MapType, Zenon
  <2>. QED  BY <2>2, <2>3, Zenon DEF RowsOf
<1>2. encode_column_chunks(batches, k) = FlattenSeq(ps)
  <2>1. \A i \in DOMAIN batches : rs[i] = batches[i].rows
    BY DEF Map
  <2>2. DOMAIN rs = DOMAIN batches
    BY DEF Map
  <2>3. \A i \in DOMAIN rs : rs[i] \in Seq(Rows)
    BY <1>1, ElementOfSeq
  <2>. HIDE DEF rs
  <2>4. \A i \in DOMAIN batches : ArrayPieces(batches[i].rows, k) = p[rs[i]]
    BY <2>1, <2>2, <2>3, Zenon
  <2>. HIDE DEF p
  <2>5. [i \in DOMAIN batches |-> ArrayPieces(batches[i].rows, k)] = [i \in DOMAIN rs |-> p[rs[i]]]
    BY <2>2, <2>4
  <2>. QED  BY <2>5, Zenon DEF encode_column_chunks, Map
<1>. HIDE DEF rs
<1>3. Maps(p, Seq(Rows), Seq(Emitted)) /\ Maps(h, Seq(Rows), Seq(Byte))
  <2>1. \A s \in Seq(Rows) : ArrayPieces(s, k) \in Seq(Emitted) /\ encode_column(s, k) \in Seq(Byte)
    BY ArrayJoins, Encodes, Zenon
  <2>. QED  BY <2>1, Zenon DEF Maps
<1>4. Emitted \subseteq Seq(Byte)
  BY DEF Emitted
<1>5. \A s \in Seq(Emitted) : s \in Seq(Seq(Byte))
  <2>. HIDE DEF Emitted
  <2>. QED  BY <1>4
<1>6. Maps(j, Seq(Emitted), Seq(Byte))
  BY <1>5, Flattened, Zenon DEF Maps
<1>7. j[<<>>] = <<>> /\ \A s, t \in Seq(Emitted) : j[s \o t] = j[s] \o j[t]
  <2>1. <<>> \in Seq(Emitted) /\ \A s, t \in Seq(Emitted) : s \o t \in Seq(Emitted)
    BY ConcatProperties
  <2>2. j[<<>>] = <<>>
    BY <2>1, Flattened, Zenon
  <2>3. ASSUME NEW s \in Seq(Emitted), NEW t \in Seq(Emitted)  PROVE j[s \o t] = j[s] \o j[t]
    <3>1. s \in Seq(Seq(Byte)) /\ t \in Seq(Seq(Byte)) /\ s \o t \in Seq(Emitted)
      BY <1>5, <2>1, Zenon
    <3>2. FlattenSeq(s \o t) = FlattenSeq(s) \o FlattenSeq(t)
      BY <3>1, Flattened
    <3>. QED  BY <3>1, <3>2, Zenon
  <2>. QED  BY <2>2, <2>3, Zenon
<1>8. ps \in Seq(Seq(Emitted)) /\ FlattenSeq(ps) \in Seq(Emitted)
  <2>. HIDE DEF p
  <2>1. ps \in Seq(Seq(Emitted))
    BY <1>1, <1>3, MapType, Zenon
  <2>. QED  BY <2>1, Flattened, Zenon
<1>9. FlattenSeq(Map(j, ps)) = j[FlattenSeq(ps)]
  <2>. HIDE DEF j, ps
  <2>. QED  BY <1>6, <1>7, <1>8, Distributes, ZenonT(40)
<1>10. Map(j, ps) = Map(h, rs)
  <2>1. \A s \in Seq(Rows) : j[p[s]] = h[s]
    <3>1. \A s \in Seq(Rows) : p[s] \in Seq(Emitted) /\ p[s] = ArrayPieces(s, k) /\ h[s] = encode_column(s, k)
      BY ArrayJoins, Zenon
    <3>. HIDE DEF p, h
    <3>. QED  BY <3>1, ArrayJoins, Zenon
  <2>. HIDE DEF j, p, h
  <2>2. DOMAIN rs = 1..Len(rs) /\ \A i \in 1..Len(rs) : rs[i] \in Seq(Rows)
    BY <1>1, ElementOfSeq
  <2>3. DOMAIN ps = DOMAIN rs /\ \A i \in DOMAIN rs : ps[i] = p[rs[i]]
    BY DEF Map
  <2>. HIDE DEF ps
  <2>4. \A i \in DOMAIN rs : j[ps[i]] = h[rs[i]]
    BY <2>1, <2>2, <2>3, Zenon
  <2>5. [i \in DOMAIN ps |-> j[ps[i]]] = [i \in DOMAIN rs |-> h[rs[i]]]
    BY <2>3, <2>4
  <2>. QED  BY <2>5, Zenon DEF Map
<1>11. h[<<>>] = <<>> /\ \A s, t \in Seq(Rows) : h[s \o t] = h[s] \o h[t]
  <2>1. <<>> \in Seq(Rows) /\ \A s, t \in Seq(Rows) : s \o t \in Seq(Rows)
    BY ConcatProperties
  <2>. QED  BY <2>1, Encodes, Zenon
<1>12. FlattenSeq(Map(h, rs)) = h[FlattenSeq(rs)]
  <2>. HIDE DEF h
  <2>. QED  BY <1>1, <1>3, <1>11, Distributes, Zenon
<1>13. FlattenSeq(rs) \in Seq(Rows)
  BY <1>1, Flattened, Zenon
<1>14. j[FlattenSeq(ps)] = FlattenSeq(FlattenSeq(ps)) /\ h[FlattenSeq(rs)] = encode_column(FlattenSeq(rs), k)
  <2>. HIDE DEF ps
  <2>. QED  BY <1>8, <1>13, Zenon
<1>. HIDE DEF j, h, ps
<1>. QED  BY <1>1, <1>2, <1>8, <1>9, <1>10, <1>12, <1>14, Zenon

-----------------------------------------------------------------------------
(* What the chunks of a window are restored to.                            *)

\* A block or a frame decompresses to what was compressed.
LEMMA Decompressed ==
    ASSUME NEW b \in Seq(Byte), NEW f \in Formats, NEW n \in Nat, n > 0
    PROVE  /\ Compress(b, f, n) \in Seq(Token) /\ Len(Compress(b, f, n)) = n
           /\ Decompress(Compress(b, f, n), f) = b
<1>1. \A i \in 1..n : <<b, f, n, i>> \in Token
  BY DEF Token
<1>2. Compress(b, f, n) \in Seq(Token) /\ Len(Compress(b, f, n)) = n
  <2>. DEFINE t(i) == <<b, f, n, i>>
  <2>1. \A i \in 1..n : t(i) \in Token
    BY <1>1, Zenon
  <2>. HIDE DEF t
  <2>2. [i \in 1..n |-> t(i)] \in Seq(Token) /\ Len([i \in 1..n |-> t(i)]) = n
    BY <2>1
  <2>. QED  BY <2>2, Zenon DEF Compress, t
<1>. DEFINE d == Compress(b, f, n)
<1>3. d[1] = <<b, f, n, 1>>
  <2>1. 1 \in 1..n
    OBVIOUS
  <2>. QED  BY <2>1, Zenon DEF Compress
<1>4. d[1][1] = b
  <2>. HIDE DEF d
  <2>. QED  BY <1>3
<1>5. d # <<>>
  <2>. HIDE DEF d
  <2>1. Len(d) # 0
    BY <1>2 DEF d
  <2>. QED  BY <2>1
<1>. HIDE DEF d
<1>6. d = Compress(d[1][1], f, Len(d))
  BY <1>2, <1>4, Zenon DEF d
<1>7. Decompress(d, f) = b
  BY <1>4, <1>5, <1>6, Zenon DEF Decompress
<1>. QED  BY <1>2, <1>7, Zenon DEF d

\* The cells of p rows of w columns, counted row by row and column by column.
LEMMA Cells ==
    ASSUME NEW p \in Nat, NEW w \in Nat, p > 0, w > 0, NEW x \in Nat, x < p * w
    PROVE  /\ x % p \in Nat /\ x \div p \in Nat /\ x = p * (x \div p) + (x % p)
           /\ (x % p) * w + x \div p \in Nat /\ (x % p) * w + x \div p < p * w
           /\ ((x % p) * w + x \div p) % w = x \div p
           /\ ((x % p) * w + x \div p) \div w = x % p
<1>. DEFINE a == x % p
            b == x \div p
            y == a * w + b
<1>1. b \in Nat /\ a \in 0..(p - 1) /\ x = p * b + a
  BY DivMod
<1>. HIDE DEF a, b
<1>2. a \in Nat /\ a <= p - 1 /\ p - 1 \in Nat
  BY <1>1
<1>3. b < w
  <2>1. SUFFICES ASSUME w <= b PROVE FALSE
    BY <1>1
  <2>2. w * p \in Nat /\ b * p \in Nat /\ w * p <= b * p
    BY <1>1, <2>1, Times
  <2>3. w * p = p * w /\ b * p = p * b
    BY <1>1
  <2>. QED  BY <1>1, <1>2, <2>2, <2>3
<1>4. a * w \in Nat /\ (p - 1) * w \in Nat /\ a * w <= (p - 1) * w
  BY <1>2, Times
<1>5. (p - 1) * w = p * w - w /\ a * w = w * a
  BY <1>2
<1>6. y \in Nat /\ y < p * w
  <2>. DEFINE u == a * w
              v == p * w
              z == (p - 1) * w
  <2>1. u \in Nat /\ u <= z /\ z = v - w /\ z \in Nat /\ v \in Nat
    BY <1>4, <1>5
  <2>. HIDE DEF u, v, z
  <2>2. u + b \in Nat /\ u + b < v
    BY <1>1, <1>3, <2>1
  <2>. QED  BY <2>2 DEF u, v
<1>7. y = w * a + b
  BY <1>5
<1>. HIDE DEF y
<1>8. y \div w = a /\ y % w = b
  BY <1>1, <1>2, <1>3, <1>6, <1>7, Quotient
<1>. QED  BY <1>1, <1>2, <1>6, <1>8 DEF a, b, y

\* shuffle_bytes_into and unshuffle_bytes: the bytes of a chunk come back, also
\* the ones at its end that fill no value.
THEOREM Unshuffles ==
    ASSUME NEW s \in Seq(Byte), NEW width \in Nat, width > 0
    PROVE  /\ shuffle_bytes_into(s, width) \in Seq(Byte)
           /\ unshuffle_bytes(shuffle_bytes_into(s, width), width) = s
<1>. DEFINE l == Len(s)
            p == l \div width
            g(i) == IF i > p * width THEN i ELSE ((i - 1) % p) * width + (i - 1) \div p + 1
            h(i) == IF i > p * width THEN i ELSE ((i - 1) % width) * p + (i - 1) \div width + 1
            t == [i \in 1..l |-> s[g(i)]]
<1>1. l \in Nat /\ p \in Nat /\ p * width \in Nat /\ p * width <= l
  <2>1. l \in Nat
    OBVIOUS
  <2>. HIDE DEF l
  <2>2. p \in Nat /\ l % width \in 0..(width - 1) /\ l = width * p + (l % width)
    BY <2>1, DivMod
  <2>. HIDE DEF p
  <2>3. width * p = p * width /\ p * width \in Nat
    BY <2>2
  <2>. QED  BY <2>1, <2>2, <2>3
<1>2. ASSUME NEW i \in 1..l, i <= p * width
      PROVE  /\ p > 0 /\ i - 1 \in Nat /\ i - 1 < p * width /\ i - 1 < width * p
  <2>. HIDE DEF l, p
  <2>1. p > 0 /\ p * width = width * p
    BY <1>1, <1>2
  <2>2. ASSUME NEW q \in Nat, i <= q  PROVE i - 1 \in Nat /\ i - 1 < q
    BY <1>1, <2>2
  <2>3. i - 1 \in Nat /\ i - 1 < p * width
    BY <1>1, <1>2, <2>2, Zenon
  <2>. QED  BY <2>1, <2>3, Zenon
<1>3. ASSUME NEW i \in 1..l  PROVE g(i) \in 1..l
  <2>1. CASE i > p * width
    BY <2>1
  <2>2. CASE ~(i > p * width)
    <3>. DEFINE y == ((i - 1) % p) * width + (i - 1) \div p
    <3>0. i <= p * width
      <4>. HIDE DEF l, p
      <4>. QED  BY <1>1, <2>2
    <3>1. p > 0 /\ i - 1 \in Nat /\ i - 1 < p * width
      BY <1>2, <3>0, Zenon
    <3>2. y \in Nat /\ y < p * width
      <4>. HIDE DEF p
      <4>. QED  BY <1>1, <3>1, Cells, Zenon
    <3>3. g(i) = y + 1
      BY <2>2, Zenon
    <3>. HIDE DEF y, g, l, p
    <3>4. y + 1 \in 1..l
      BY <1>1, <3>2
    <3>. QED  BY <3>3, <3>4, Zenon
  <2>. QED  BY <2>1, <2>2, Zenon
<1>4. ASSUME NEW i \in 1..l  PROVE h(i) \in 1..l /\ g(h(i)) = i
  <2>1. CASE i > p * width
    BY <2>1
  <2>2. CASE ~(i > p * width)
    <3>. DEFINE x == i - 1
                y == (x % width) * p + x \div width
    <3>0. i <= p * width
      <4>. HIDE DEF l, p
      <4>. QED  BY <1>1, <2>2
    <3>1. p > 0 /\ x \in Nat /\ x < width * p
      BY <1>2, <3>0, Zenon
    <3>2. /\ x % width \in Nat /\ x \div width \in Nat /\ x = width * (x \div width) + (x % width)
          /\ y \in Nat /\ y < width * p /\ y % p = x \div width /\ y \div p = x % width
      <4>. HIDE DEF p, x
      <4>1. x % width \in Nat /\ x \div width \in Nat /\ x = width * (x \div width) + (x % width)
        BY <1>1, <3>1, Cells, Zenon
      <4>2. y \in Nat /\ y < width * p
        BY <1>1, <3>1, Cells, ZenonT(30)
      <4>3. y % p = x \div width
        BY <1>1, <3>1, Cells
      <4>4. y \div p = x % width
        BY <1>1, <3>1, Cells, ZenonT(30)
      <4>. HIDE DEF y
      <4>. QED  BY <4>1, <4>2, <4>3, <4>4, Zenon
    <3>3. h(i) = y + 1
      BY <2>2, Zenon
    <3>4. (y % p) * width + y \div p = x
      <4>. DEFINE q == x \div width
                  r == x % width
      <4>1. q \in Nat /\ r \in Nat /\ x = width * q + r /\ y % p = q /\ y \div p = r
        BY <3>2, Zenon
      <4>. HIDE DEF q, r, x, y, p
      <4>2. q * width + r = x
        BY <4>1
      <4>. QED  BY <4>1, <4>2, Zenon
    <3>5. i = x + 1 /\ width * p = p * width
      <4>. HIDE DEF l, p
      <4>. QED  BY <1>1
    <3>. HIDE DEF x, y
    <3>6. y + 1 \in 1..l /\ ~(y + 1 > p * width) /\ (y + 1) - 1 = y
      <4>. HIDE DEF l, p
      <4>. QED  BY <1>1, <3>2, <3>5
    <3>7. g(y + 1) = ((y % p) * width + y \div p) + 1
      BY <3>6, Zenon
    <3>. HIDE DEF g, h
    <3>. QED  BY <3>3, <3>4, <3>5, <3>6, <3>7, ZenonT(30)
  <2>. QED  BY <2>1, <2>2, Zenon
<1>5. shuffle_bytes_into(s, width) = t
  <2>1. \A i \in 1..l : s[g(i)] = IF i > p * width THEN s[i]
                                  ELSE s[((i - 1) % p) * width + (i - 1) \div p + 1]
    BY Zenon
  <2>. QED  BY <2>1, Zenon DEF shuffle_bytes_into, Planes
<1>6. t \in Seq(Byte) /\ Len(t) = l /\ \A i \in 1..l : t[i] = s[g(i)]
  <2>1. \A i \in 1..l : s[g(i)] \in Byte
    <3>. HIDE DEF g
    <3>. QED  BY <1>3, ElementOfSeq, Zenon
  <2>. HIDE DEF g, l, p
  <2>. DEFINE e(i) == s[g(i)]
  <2>2. \A i \in 1..l : e(i) \in Byte
    BY <2>1, Zenon
  <2>3. t = [i \in 1..l |-> e(i)]
    BY Zenon
  <2>. HIDE DEF t, e
  <2>4. [i \in 1..l |-> e(i)] \in Seq(Byte) /\ Len([i \in 1..l |-> e(i)]) = l
    BY <1>1, <2>2
  <2>5. \A i \in 1..l : t[i] = e(i)
    BY <2>3, Zenon
  <2>. QED  BY <2>3, <2>4, <2>5, Zenon DEF e
<1>7. unshuffle_bytes(t, width) = [i \in 1..l |-> t[h(i)]]
  <2>. HIDE DEF t
  <2>0. Len(t) = l
    BY <1>6, Zenon
  <2>1. \A i \in 1..l : t[h(i)] = IF i > p * width THEN t[i]
                                  ELSE t[((i - 1) % width) * p + (i - 1) \div width + 1]
    BY Zenon
  <2>. HIDE DEF h
  <2>. QED  BY <2>0, <2>1, Zenon DEF unshuffle_bytes, Planes, p
<1>8. [i \in 1..l |-> t[h(i)]] = s
  <2>1. \A i \in 1..l : t[h(i)] = s[i]
    <3>. HIDE DEF t, g, h, l
    <3>. QED  BY <1>4, <1>6, Zenon
  <2>2. [i \in 1..l |-> t[h(i)]] = [i \in 1..l |-> s[i]]
    <3>. HIDE DEF t, h
    <3>. QED  BY <2>1, Zenon
  <2>3. [i \in 1..l |-> s[i]] = s
    OBVIOUS
  <2>. QED  BY <2>2, <2>3, Zenon
<1>. HIDE DEF t
<1>. QED  BY <1>5, <1>6, <1>7, <1>8, Zenon

-----------------------------------------------------------------------------
(* The arena.                                                              *)

\* A part of a sequence is the same part of what extends it.
LEMMA PartOfConcat ==
    ASSUME NEW S, NEW s \in Seq(S), NEW t \in Seq(S), NEW m \in Nat, NEW n \in Nat, m + n <= Len(s)
    PROVE  SubSeq(s \o t, m + 1, m + n) = SubSeq(s, m + 1, m + n)
<1>1. Len(s) \in Nat
  OBVIOUS
<1>2. CASE n = 0
  <2>1. m + n < m + 1 /\ m + 1 \in Int /\ m + n \in Int
    BY <1>2
  <2>. QED  BY <2>1, SubSeqEmpty, Zenon
<1>3. CASE n # 0
  <2>1. m + 1 \in 1..Len(s) /\ m + n \in 1..Len(s)
    BY <1>1, <1>3
  <2>. QED  BY <2>1, SubSeqOfConcat1, Zenon
<1>. QED  BY <1>2, <1>3

\* The end of a concatenation is its second part.
LEMMA EndOfConcat ==
    ASSUME NEW S, NEW s \in Seq(S), NEW t \in Seq(S)
    PROVE  SubSeq(s \o t, Len(s) + 1, Len(s) + Len(t)) = t
<1>1. Len(s) \in Nat /\ Len(t) \in Nat
  OBVIOUS
<1>2. CASE t = <<>>
  <2>1. Len(s) + Len(t) < Len(s) + 1 /\ Len(s) + 1 \in Int /\ Len(s) + Len(t) \in Int
    BY <1>1, <1>2
  <2>. QED  BY <1>2, <2>1, SubSeqEmpty, Zenon
<1>3. CASE t # <<>>
  <2>0. Len(t) # 0
    BY <1>3
  <2>1. /\ Len(s) + 1 \in (Len(s) + 1)..(Len(s) + Len(t))
        /\ Len(s) + Len(t) \in (Len(s) + 1)..(Len(s) + Len(t))
        /\ (Len(s) + 1) - Len(s) = 1 /\ (Len(s) + Len(t)) - Len(s) = Len(t)
    BY <1>1, <2>0
  <2>2. SubSeq(s \o t, Len(s) + 1, Len(s) + Len(t))
           = SubSeq(t, (Len(s) + 1) - Len(s), (Len(s) + Len(t)) - Len(s))
    BY <2>1, SubSeqOfConcat2, ZenonT(30)
  <2>3. SubSeq(t, 1, Len(t)) = t
    BY SubSeqFull, Zenon
  <2>. QED  BY <2>1, <2>2, <2>3, Zenon
<1>. QED  BY <1>2, <1>3

\* allocate: the slabs that are there stay what they are.
LEMMA Allocates ==
    ASSUME NEW arena \in Seq(Slabs), NEW data \in Seq(Token)
    PROVE  LET b == Allocated(arena, data) IN
           /\ b \in Seq(Slabs) /\ Len(b) \in Nat \ {0} /\ Len(arena) <= Len(b)
           /\ \A i \in 1..Len(arena) : b[i] = arena[i]
<1>0. Len(arena) \in Nat /\ Len(data) \in Nat
  OBVIOUS
<1>1. CASE HasRoom(arena, data)
  <2>1. Allocated(arena, data) = arena
    BY <1>1, Zenon DEF Allocated
  <2>2. arena # <<>>
    BY <1>1, Zenon DEF HasRoom
  <2>3. Len(arena) # 0
    BY <2>2
  <2>. QED  BY <1>0, <2>1, <2>3
<1>2. CASE ~HasRoom(arena, data)
  <2>. DEFINE e == [size |-> IF Len(data) > SlabBytes THEN Len(data) ELSE SlabBytes, data |-> <<>>]
  <2>1. Allocated(arena, data) = Append(arena, e)
    BY <1>2, Zenon DEF Allocated
  <2>2. e \in Slabs
    <3>1. <<>> \in Seq(Token)
      OBVIOUS
    <3>2. SlabBytes \in Nat
      BY WindowAssumption
    <3>. QED  BY <1>0, <3>1, <3>2 DEF Slabs
  <2>. HIDE DEF e
  <2>3. /\ Append(arena, e) \in Seq(Slabs) /\ Len(Append(arena, e)) = Len(arena) + 1
        /\ \A i \in 1..Len(arena) : Append(arena, e)[i] = arena[i]
    BY <2>2, AppendProperties
  <2>4. Len(arena) + 1 \in Nat \ {0} /\ Len(arena) <= Len(arena) + 1
    BY <1>0
  <2>. QED  BY <2>1, <2>3, <2>4, Zenon
<1>. QED  BY <1>1, <1>2

\* The compressed chunks of an arena are in the other one too.
Keeps(arena, arena2) ==
    \A c \in Chunks : InArena(arena, c) =>
        /\ InArena(arena2, c)
        /\ c.kind = "lz4" => slice(arena2, c.at) = slice(arena, c.at)

\* CompressedArena::store: the data is where the chunk says, whether the last
\* slab had room or a new one was mapped, and what was stored before stays.
THEOREM Stores ==
    ASSUME NEW arena \in Seq(Slabs), NEW data \in Seq(Token)
    PROVE  LET a == store(arena, data)
               at == Located(a, data)
           IN  /\ a \in Seq(Slabs) /\ Keeps(arena, a) /\ at \in Spots
               /\ at.slab \in 1..Len(a) /\ at.offset + at.len <= Len(a[at.slab].data)
               /\ slice(a, at) = data
<1>. DEFINE b == Allocated(arena, data)
            n == Len(b)
            x == b[n].data
            a == store(arena, data)
            at == Located(a, data)
<1>1. /\ b \in Seq(Slabs) /\ n \in Nat \ {0} /\ Len(arena) <= n
      /\ \A i \in 1..Len(arena) : b[i] = arena[i]
  BY Allocates, Zenon
<1>2. a = [b EXCEPT ![n].data = x \o data]
  BY Zenon DEF store, Placed
<1>. HIDE DEF b, a
<1>3. n \in 1..n /\ b[n] \in Slabs
  BY <1>1
<1>4. x \in Seq(Token) /\ b[n].size \in Nat
  BY <1>3 DEF Slabs
<1>. DEFINE y == x \o data
<1>5. y \in Seq(Token) /\ Len(y) = Len(x) + Len(data)
  BY <1>4, ConcatProperties, Zenon
<1>6. Len(x) \in Nat /\ Len(data) \in Nat
  BY <1>4
<1>7. a = [b EXCEPT ![n].data = y]
  BY <1>2, Zenon
<1>8. slice(a, [slab |-> n, offset |-> Len(x), len |-> Len(data)]) = SubSeq(a[n].data, Len(x) + 1, Len(x) + Len(data))
  BY DEF slice
<1>9. SubSeq(y, Len(x) + 1, Len(x) + Len(data)) = data
  BY <1>4, EndOfConcat, Zenon
<1>. HIDE DEF n, x, y
<1>10. /\ a \in Seq(Slabs) /\ Len(a) = n /\ a[n].data = y
       /\ \A i \in 1..n : i # n => a[i] = b[i]
  <2>1. [b[n] EXCEPT !.data = y] \in Slabs /\ [b[n] EXCEPT !.data = y].data = y
    BY <1>3, <1>5, Zenon DEF Slabs
  <2>. DEFINE e == [b[n] EXCEPT !.data = y]
  <2>2. a = [b EXCEPT ![n] = e]
    BY <1>7
  <2>3. e \in Slabs /\ e.data = y
    BY <2>1, Zenon
  <2>. HIDE DEF e
  <2>4. a \in Seq(Slabs) /\ Len(a) = Len(b) /\ a[n] = e /\ \A i \in 1..n : i # n => a[i] = b[i]
    BY <1>1, <1>3, <2>2, <2>3 DEF n
  <2>. QED  BY <2>3, <2>4, Zenon DEF n
<1>11. at = [slab |-> n, offset |-> Len(x), len |-> Len(data)]
  <2>1. Last(a) = a[Len(a)]
    BY Zenon DEF Last
  <2>2. Len(Last(a).data) - Len(data) = Len(x)
    BY <1>5, <1>6, <1>10, <2>1
  <2>. QED  BY <1>10, <2>2, Zenon DEF Located
<1>12. at \in Spots /\ at.slab = n /\ at.offset = Len(x) /\ at.len = Len(data)
  <2>. HIDE DEF at
  <2>. QED  BY <1>1, <1>6, <1>11 DEF Spots
<1>13. at.slab \in 1..Len(a) /\ at.offset + at.len <= Len(a[at.slab].data)
  <2>. HIDE DEF at
  <2>. QED  BY <1>3, <1>5, <1>6, <1>10, <1>12
<1>14. slice(a, at) = data
  <2>. HIDE DEF at
  <2>. QED  BY <1>8, <1>9, <1>10, <1>11, Zenon
<1>15. ASSUME NEW c \in Chunks, InArena(arena, c), c.kind = "lz4"
       PROVE  InArena(a, c) /\ slice(a, c.at) = slice(arena, c.at)
  <2>. DEFINE j == c.at.slab
              o == c.at.offset
              m == c.at.len
  <2>1. j \in Nat /\ o \in Nat /\ m \in Nat
    BY <1>15 DEF Chunks, RawChunks, Lz4Chunks, Spots
  <2>2. j \in 1..Len(arena) /\ o + m <= Len(arena[j].data)
    BY <1>15, Zenon DEF InArena
  <2>3. slice(a, c.at) = SubSeq(a[j].data, o + 1, o + m) /\ slice(arena, c.at) = SubSeq(arena[j].data, o + 1, o + m)
    BY Zenon DEF slice
  <2>4. InArena(a, c) <=> j \in 1..Len(a) /\ o + m <= Len(a[j].data)
    BY <1>15, Zenon DEF InArena
  <2>. HIDE DEF j, o, m
  <2>5. j \in 1..n /\ b[j] = arena[j]
    BY <1>1, <2>2
  <2>6. CASE j # n
    BY <1>10, <2>2, <2>3, <2>4, <2>5, <2>6, ZenonT(30)
  <2>7. CASE j = n
    <3>1. arena[j].data = x /\ a[j].data = y
      BY <1>10, <2>5, <2>7, Zenon DEF x
    <3>2. o + m <= Len(x) /\ o + m <= Len(y)
      BY <1>5, <1>6, <2>1, <2>2, <3>1
    <3>3. SubSeq(y, o + 1, o + m) = SubSeq(x, o + 1, o + m)
      BY <1>4, <2>1, <3>2, PartOfConcat, ZenonT(30) DEF y
    <3>. QED  BY <1>10, <2>3, <2>4, <2>5, <3>1, <3>2, <3>3, ZenonT(30)
  <2>. QED  BY <2>6, <2>7
<1>16. Keeps(arena, a)
  <2>1. ASSUME NEW c \in Chunks, c.kind # "lz4"  PROVE InArena(a, c)
    BY <2>1, Zenon DEF InArena
  <2>. QED  BY <1>15, <2>1, Zenon DEF Keeps
<1>. QED  BY <1>10, <1>12, <1>13, <1>14, <1>16, Zenon DEF a

-----------------------------------------------------------------------------
(* The operations on a column of the window.                               *)

Modes == {"unknown", "plain", "shuffle", "disabled"}
ColumnTypes == [chunks : Seq(Chunks), buffer : Seq(Byte), capacity : Nat, mode : Modes]
WindowTypes ==
    [rows : Seq(Rows), estimated : Nat, encoded : Nat, arena : Seq(Slabs),
     wire : {"none", "lz4", "auto"}, columns : [Columns -> ColumnTypes], incompressible : BOOLEAN,
     eligible : BOOLEAN, retain : BOOLEAN, retained : Seq(Batches), pinned : Nat]

\* A chunk restores bytes, from the arena if it is compressed; a column has
\* chunks that suit the wire, and its buffer has room.
ChunkOK(w, k, c) ==
    /\ InArena(w.arena, c)
    /\ Written(w, c, FixedWidth[k], FALSE) \in Seq(Byte)
    /\ w.wire = "lz4" => PlainFrame(c)
ColumnOK(w, k) ==
    /\ \A i \in 1..Len(w.columns[k].chunks) : ChunkOK(w, k, w.columns[k].chunks[i])
    /\ w.wire = "lz4" => w.columns[k].mode \in {"unknown", "plain"}
    /\ w.columns[k].mode = "shuffle" => FixedWidth[k] > 1
    /\ Len(w.columns[k].buffer) <= w.columns[k].capacity
ColumnsOK(w) == \A k \in Columns : ColumnOK(w, k)

\* A chunk whose data was kept is restored to the same bytes.
LEMMA WrittenKept ==
    ASSUME NEW w, NEW w2, NEW c \in Chunks, InArena(w.arena, c), Keeps(w.arena, w2.arena), NEW width
    PROVE  InArena(w2.arena, c) /\ Written(w2, c, width, FALSE) = Written(w, c, width, FALSE)
<1>1. InArena(w2.arena, c) /\ (c.kind = "lz4" => slice(w2.arena, c.at) = slice(w.arena, c.at))
  BY Zenon DEF Keeps
<1>2. c.kind = "raw" \/ c.kind = "lz4"
  BY DEF Chunks, RawChunks, Lz4Chunks
<1>3. CASE c.kind = "raw"
  BY <1>1, <1>3, Zenon DEF Written
<1>4. CASE c.kind = "lz4"
  BY <1>1, <1>4, Zenon DEF Written
<1>. QED  BY <1>2, <1>3, <1>4, Zenon

\* An arena keeps its own chunks.
LEMMA KeepsItself ==
    ASSUME NEW arena
    PROVE  Keeps(arena, arena)
  BY Zenon DEF Keeps

\* The bytes of a column are a sequence, and a chunk more is its bytes more.
LEMMA WrittenIs ==
    ASSUME NEW w, NEW k \in Columns, w.columns[k].chunks \in Seq(Chunks),
           \A i \in 1..Len(w.columns[k].chunks) : ChunkOK(w, k, w.columns[k].chunks[i])
    PROVE  /\ WrittenColumn(w, k, FALSE) \in Seq(Byte)
           /\ \A w2, c : /\ w2.columns[k].chunks = Append(w.columns[k].chunks, c)
                         /\ c \in Chunks /\ ChunkOK(w2, k, c) /\ Keeps(w.arena, w2.arena)
                         => WrittenColumn(w2, k, FALSE) = WrittenColumn(w, k, FALSE)
                                                             \o Written(w2, c, FixedWidth[k], FALSE)
<1>. DEFINE s == w.columns[k].chunks
            G(v) == {c \in Chunks : Written(v, c, FixedWidth[k], FALSE) \in Seq(Byte)}
            f(v) == [c \in G(v) |-> Written(v, c, FixedWidth[k], FALSE)]
<1>1. ASSUME NEW v  PROVE Maps(f(v), G(v), Seq(Byte))
  BY Zenon DEF Maps
<1>2. ASSUME NEW v, NEW t \in Seq(G(v)), v.columns[k].chunks = t
      PROVE  WrittenColumn(v, k, FALSE) = FlattenSeq(Map(f(v), t))
  <2>1. \A i \in DOMAIN t : t[i] \in G(v)
    <3>. HIDE DEF G
    <3>. QED  OBVIOUS
  <2>2. \A i \in DOMAIN t : f(v)[t[i]] = Written(v, t[i], FixedWidth[k], FALSE)
    BY <2>1, Zenon
  <2>. HIDE DEF f, G
  <2>3. Map(f(v), t) = [i \in DOMAIN t |-> Written(v, t[i], FixedWidth[k], FALSE)]
    BY <2>2, Zenon DEF Map
  <2>. QED  BY <1>2, <2>3, Zenon DEF WrittenColumn
<1>3. \A i \in 1..Len(s) : s[i] \in Chunks /\ s[i] \in G(w) /\ InArena(w.arena, s[i])
  <2>1. ASSUME NEW i \in 1..Len(s)  PROVE s[i] \in Chunks
    BY ElementOfSeq, Zenon
  <2>. QED  BY <2>1, Zenon DEF ChunkOK
<1>4. s \in Seq(Chunks) /\ Len(s) \in Nat
  BY LenProperties, Zenon
<1>5. ASSUME NEW T, \A i \in 1..Len(s) : s[i] \in T  PROVE s \in Seq(T)
  <2>. HIDE DEF s
  <2>. QED  BY <1>4, <1>5
<1>. HIDE DEF G, f
<1>6. s \in Seq(G(w))
  BY <1>3, <1>5, Zenon
<1>7. FlattenSeq(Map(f(w), s)) \in Seq(Byte)
  <2>. HIDE DEF s
  <2>1. Maps(f(w), G(w), Seq(Byte))
    BY <1>1, Zenon
  <2>. QED  BY <1>6, <2>1, FlatMap, Zenon
<1>8. ASSUME NEW w2, NEW c, w2.columns[k].chunks = Append(s, c),
             c \in Chunks, ChunkOK(w2, k, c), Keeps(w.arena, w2.arena)
      PROVE  WrittenColumn(w2, k, FALSE) = WrittenColumn(w, k, FALSE)
                                             \o Written(w2, c, FixedWidth[k], FALSE)
  <2>1. ASSUME NEW i \in 1..Len(s)
        PROVE  /\ Written(w2, s[i], FixedWidth[k], FALSE) = Written(w, s[i], FixedWidth[k], FALSE)
               /\ s[i] \in G(w2) /\ f(w2)[s[i]] = f(w)[s[i]]
    <3>1. s[i] \in Chunks /\ s[i] \in G(w) /\ InArena(w.arena, s[i])
      BY <1>3, Zenon
    <3>2. Written(w2, s[i], FixedWidth[k], FALSE) = Written(w, s[i], FixedWidth[k], FALSE)
      BY <1>8, <3>1, WrittenKept, ZenonT(30)
    <3>. QED  BY <3>1, <3>2, Zenon DEF G, f
  <2>2. s \in Seq(G(w2))
    BY <1>5, <2>1, Zenon
  <2>3. c \in G(w2) /\ f(w2)[c] = Written(w2, c, FixedWidth[k], FALSE)
        /\ Written(w2, c, FixedWidth[k], FALSE) \in Seq(Byte)
    BY <1>8, Zenon DEF G, f, ChunkOK
  <2>4. Maps(f(w2), G(w2), Seq(Byte))
    BY <1>1, Zenon
  <2>5. Map(f(w2), s) = Map(f(w), s)
    <3>1. DOMAIN s = 1..Len(s)
      BY <1>4, LenProperties, Zenon
    <3>. QED  BY <2>1, <3>1, Zenon DEF Map
  <2>. HIDE DEF s
  <2>6. <<c>> \in Seq(G(w2)) /\ Append(s, c) = s \o <<c>>
    BY <2>2, <2>3
  <2>7. s \o <<c>> \in Seq(G(w2))
    BY <2>2, <2>6, ConcatProperties, Zenon
  <2>8. FlattenSeq(Map(f(w2), s \o <<c>>)) = FlattenSeq(Map(f(w2), s)) \o FlattenSeq(Map(f(w2), <<c>>))
    <3>. DEFINE u == <<c>>
                g == f(w2)
                A == G(w2)
    <3>1. Maps(g, A, Seq(Byte)) /\ s \in Seq(A) /\ u \in Seq(A)
      BY <2>2, <2>4, <2>6, ZenonT(30)
    <3>. HIDE DEF u, g, A
    <3>2. FlattenSeq(Map(g, s \o u)) = FlattenSeq(Map(g, s)) \o FlattenSeq(Map(g, u))
      BY <3>1, FlatMap
    <3>. QED  BY <3>2, Zenon DEF u, g
  <2>9. Map(f(w2), <<c>>) = <<f(w2)[c]>>
    BY <2>3, <2>4, MapOne, Zenon
  <2>10. FlattenSeq(<<f(w2)[c]>>) = f(w2)[c]
    BY <2>3, Flattened, Zenon
  <2>11. WrittenColumn(w2, k, FALSE) = FlattenSeq(Map(f(w2), s \o <<c>>))
    BY <1>2, <1>8, <2>6, <2>7, Zenon
  <2>12. WrittenColumn(w, k, FALSE) = FlattenSeq(Map(f(w), s))
    BY <1>2, <1>6, Zenon DEF s
  <2>. QED  BY <2>3, <2>5, <2>8, <2>9, <2>10, <2>11, <2>12, ZenonT(30)
<1>9. WrittenColumn(w, k, FALSE) = FlattenSeq(Map(f(w), s))
  BY <1>2, <1>6, Zenon
<1>. QED  BY <1>7, <1>8, <1>9, Zenon

\* An operation on column k: d comes to the end of its bytes, and the other
\* columns and the rest of the window stay as they are.
Same(w, w2) ==
    /\ w2.rows = w.rows /\ w2.estimated = w.estimated /\ w2.encoded = w.encoded /\ w2.wire = w.wire
    /\ w2.incompressible = w.incompressible /\ w2.eligible = w.eligible /\ w2.retain = w.retain
    /\ w2.retained = w.retained /\ w2.pinned = w.pinned
Grows(w, w2, k, d) ==
    /\ w2 \in WindowTypes /\ ColumnsOK(w2) /\ Same(w, w2)
    /\ \A j \in Columns \ {k} : /\ w2.columns[j].buffer = w.columns[j].buffer
                                /\ WrittenColumn(w2, j, FALSE) = WrittenColumn(w, j, FALSE)
    /\ WrittenColumn(w2, k, FALSE) \o w2.columns[k].buffer
          = (WrittenColumn(w, k, FALSE) \o w.columns[k].buffer) \o d

\* The window with another arena and another column k.
With(w, a, k, col) == [w EXCEPT !.arena = a, !.columns = [w.columns EXCEPT ![k] = col]]

Replaced(w, w2, a, k, col) ==
    /\ w2 \in WindowTypes /\ Same(w, w2) /\ w2.arena = a /\ w2.columns[k] = col
    /\ \A j \in Columns \ {k} : w2.columns[j] = w.columns[j]

\* A window with another arena and another column k is a window.
LEMMA WithTypes ==
    ASSUME NEW w \in WindowTypes, NEW a \in Seq(Slabs), NEW k \in Columns, NEW col \in ColumnTypes,
           NEW w2, w2 = With(w, a, k, col)
    PROVE  Replaced(w, w2, a, k, col)
<1>. DEFINE cs == [w.columns EXCEPT ![k] = col]
<1>1. cs \in [Columns -> ColumnTypes] /\ cs[k] = col /\ \A j \in Columns \ {k} : cs[j] = w.columns[j]
  <2>1. w.columns \in [Columns -> ColumnTypes]
    BY DEF WindowTypes
  <2>. QED  BY <2>1
<1>2. With(w, a, k, col) = [w EXCEPT !.arena = a, !.columns = cs]
  BY Zenon DEF With
<1>. HIDE DEF cs
<1>3. [w EXCEPT !.arena = a, !.columns = cs] \in WindowTypes
  BY <1>1, Zenon DEF WindowTypes
<1>4. LET v == [w EXCEPT !.arena = a, !.columns = cs]
      IN  Same(w, v) /\ v.arena = a /\ v.columns = cs
  BY DEF WindowTypes, Same
<1>. QED  BY <1>1, <1>2, <1>3, <1>4, ZenonT(30) DEF Replaced

\* The columns that an operation leaves alone.
LEMMA OtherColumns ==
    ASSUME NEW w \in WindowTypes, ColumnsOK(w), NEW w2 \in WindowTypes, NEW k \in Columns,
           Same(w, w2), Keeps(w.arena, w2.arena), NEW j \in Columns \ {k},
           w2.columns[j] = w.columns[j]
    PROVE  ColumnOK(w2, j) /\ WrittenColumn(w2, j, FALSE) = WrittenColumn(w, j, FALSE)
<1>. DEFINE s == w.columns[j].chunks
<1>1. j \in Columns /\ ColumnOK(w, j) /\ w2.wire = w.wire
  BY Zenon DEF ColumnsOK, Same
<1>2. s \in Seq(Chunks)
  <2>1. w.columns[j] \in ColumnTypes
    BY <1>1, Zenon DEF WindowTypes
  <2>. QED  BY <2>1 DEF ColumnTypes
<1>3. ASSUME NEW i \in 1..Len(s)
      PROVE  /\ ChunkOK(w2, j, s[i])
             /\ Written(w2, s[i], FixedWidth[j], FALSE) = Written(w, s[i], FixedWidth[j], FALSE)
  <2>1. s[i] \in Chunks
    BY <1>2, ElementOfSeq, Zenon
  <2>2. ChunkOK(w, j, s[i])
    BY <1>1, Zenon DEF ColumnOK
  <2>3. InArena(w.arena, s[i])
    BY <2>2, Zenon DEF ChunkOK
  <2>4. /\ InArena(w2.arena, s[i])
        /\ Written(w2, s[i], FixedWidth[j], FALSE) = Written(w, s[i], FixedWidth[j], FALSE)
    BY <2>1, <2>3, WrittenKept, Zenon
  <2>. QED  BY <1>1, <2>2, <2>4, Zenon DEF ChunkOK
<1>4. DOMAIN s = 1..Len(s)
  BY <1>2, LenProperties, Zenon
<1>5. WrittenColumn(w2, j, FALSE) = WrittenColumn(w, j, FALSE)
  <2>1. [i \in DOMAIN s |-> Written(w2, s[i], FixedWidth[j], FALSE)]
          = [i \in DOMAIN s |-> Written(w, s[i], FixedWidth[j], FALSE)]
    BY <1>3, <1>4, Zenon
  <2>. QED  BY <2>1, Zenon DEF WrittenColumn
<1>6. ColumnOK(w2, j)
  BY <1>1, <1>3, Zenon DEF ColumnOK
<1>. QED  BY <1>5, <1>6, Zenon

\* A finished chunk holds what the buffer had.
Kept(w, w2, k, a, c, m) ==
    w2 = With(w, a, k, [chunks |-> Append(w.columns[k].chunks, c), buffer |-> <<>>, capacity |-> 0, mode |-> m])
Suits(w, k, c, m) ==
    /\ w.wire = "lz4" => PlainFrame(c) /\ m \in {"unknown", "plain"}
    /\ m = "shuffle" => FixedWidth[k] > 1
Restores(w, w2, k, c) == Written(w2, c, FixedWidth[k], FALSE) = w.columns[k].buffer

\* Keep: a chunk that restores the buffer stands for it.
LEMMA KeepGrows ==
    ASSUME NEW w \in WindowTypes, ColumnsOK(w), NEW k \in Columns,
           NEW a \in Seq(Slabs), Keeps(w.arena, a), NEW c \in Chunks, InArena(a, c), NEW m \in Modes,
           Suits(w, k, c, m), NEW w2, Kept(w, w2, k, a, c, m), Restores(w, w2, k, c)
    PROVE  Grows(w, w2, k, <<>>) /\ w2.columns[k].buffer = <<>>
<1>. DEFINE s == w.columns[k].chunks
            b == w.columns[k].buffer
            s2 == Append(s, c)
            col == [chunks |-> s2, buffer |-> <<>>, capacity |-> 0, mode |-> m]
<1>1. s \in Seq(Chunks) /\ b \in Seq(Byte)
  <2>1. w.columns[k] \in ColumnTypes
    BY Zenon DEF WindowTypes
  <2>. QED  BY <2>1 DEF ColumnTypes
<1>2. w2 = With(w, a, k, col)
  BY Zenon DEF Kept
<1>3. /\ s2 \in Seq(Chunks) /\ Len(s2) = Len(s) + 1 /\ Len(s) \in Nat
      /\ \A i \in 1..Len(s) : s2[i] = s[i]
      /\ s2[Len(s) + 1] = c
  <2>. HIDE DEF s
  <2>1. /\ s2 \in Seq(Chunks) /\ Len(s2) = Len(s) + 1
        /\ \A i \in 1..Len(s) : s2[i] = s[i]
        /\ s2[Len(s) + 1] = c
    BY <1>1, AppendProperties
  <2>2. Len(s) \in Nat
    BY <1>1, LenProperties, ZenonT(30)
  <2>. QED  BY <2>1, <2>2, ZenonT(30)
<1>. HIDE DEF s2
<1>4. col \in ColumnTypes /\ col.chunks = s2 /\ col.buffer = <<>> /\ col.capacity = 0 /\ col.mode = m
  <2>1. <<>> \in Seq(Byte)
    OBVIOUS
  <2>. QED  BY <1>3, <2>1 DEF ColumnTypes
<1>. HIDE DEF col
<1>5. /\ w2 \in WindowTypes /\ Same(w, w2) /\ w2.arena = a /\ w2.columns[k] = col
      /\ \A j \in Columns \ {k} : w2.columns[j] = w.columns[j]
  <2>1. Replaced(w, w2, a, k, col)
    BY <1>2, <1>4, WithTypes, Zenon
  <2>. QED  BY <2>1, Zenon DEF Replaced
<1>6. w2.wire = w.wire
  BY <1>5, Zenon DEF Same
<1>7. ChunkOK(w2, k, c) /\ Written(w2, c, FixedWidth[k], FALSE) = b
  BY <1>1, <1>5, <1>6, Zenon DEF ChunkOK, Suits, Restores
<1>8. ASSUME NEW j \in Columns \ {k}
      PROVE  ColumnOK(w2, j) /\ WrittenColumn(w2, j, FALSE) = WrittenColumn(w, j, FALSE)
  BY <1>5, OtherColumns, Zenon
<1>9. ColumnOK(w, k)
  BY Zenon DEF ColumnsOK
<1>10. ASSUME NEW i \in 1..Len(s)  PROVE ChunkOK(w2, k, s[i])
  <2>1. s[i] \in Chunks
    BY <1>1, ElementOfSeq, Zenon
  <2>2. ChunkOK(w, k, s[i])
    BY <1>9, Zenon DEF ColumnOK
  <2>3. InArena(w.arena, s[i])
    BY <2>2, Zenon DEF ChunkOK
  <2>4. Keeps(w.arena, w2.arena)
    BY <1>5, Zenon
  <2>5. /\ InArena(w2.arena, s[i])
        /\ Written(w2, s[i], FixedWidth[k], FALSE) = Written(w, s[i], FixedWidth[k], FALSE)
    BY <2>1, <2>3, <2>4, WrittenKept, ZenonT(30)
  <2>. QED  BY <1>6, <2>2, <2>5, Zenon DEF ChunkOK
<1>11. ASSUME NEW i \in 1..Len(s2)  PROVE ChunkOK(w2, k, s2[i])
  <2>1. i \in 1..Len(s) \/ i = Len(s) + 1
    <3>. HIDE DEF s
    <3>. QED  BY <1>3
  <2>. QED  BY <1>3, <1>7, <1>10, <2>1, Zenon
<1>12. ColumnOK(w2, k)
  <2>1. Len(<<>>) <= 0
    OBVIOUS
  <2>. QED  BY <1>4, <1>5, <1>6, <1>11, <2>1, ZenonT(30) DEF ColumnOK, Suits
<1>13. ColumnsOK(w2)
  BY <1>8, <1>12, Zenon DEF ColumnsOK
<1>14. WrittenColumn(w2, k, FALSE) = WrittenColumn(w, k, FALSE) \o b /\ WrittenColumn(w, k, FALSE) \in Seq(Byte)
  <2>1. \A i \in 1..Len(s) : ChunkOK(w, k, s[i])
    BY <1>9, Zenon DEF ColumnOK
  <2>2. Keeps(w.arena, w2.arena) /\ w2.columns[k].chunks = Append(s, c)
    BY <1>4, <1>5, Zenon DEF s2
  <2>3. /\ WrittenColumn(w, k, FALSE) \in Seq(Byte)
        /\ \A v, d : /\ v.columns[k].chunks = Append(s, d)
                     /\ d \in Chunks /\ ChunkOK(v, k, d) /\ Keeps(w.arena, v.arena)
                     => WrittenColumn(v, k, FALSE) = WrittenColumn(w, k, FALSE)
                                                        \o Written(v, d, FixedWidth[k], FALSE)
    BY <1>1, <2>1, WrittenIs, Zenon
  <2>. QED  BY <1>7, <2>2, <2>3, Zenon
<1>15. w2.columns[k].buffer = <<>>
  BY <1>4, <1>5, Zenon
<1>16. \A j \in Columns \ {k} : w2.columns[j].buffer = w.columns[j].buffer
  BY <1>5, Zenon
<1>17. WrittenColumn(w2, k, FALSE) \o <<>> = (WrittenColumn(w, k, FALSE) \o b) \o <<>>
  BY <1>14, Zenon
<1>. QED  BY <1>5, <1>8, <1>13, <1>15, <1>16, <1>17, ZenonT(30) DEF Grows

\* Keep, as the change of one column.
LEMMA KeepIs ==
    ASSUME NEW w \in WindowTypes, NEW k \in Columns, NEW a, NEW c, NEW m
    PROVE  /\ Kept(w, Keep(w, k, c, m), k, w.arena, c, m)
           /\ Kept(w, Keep([w EXCEPT !.arena = a], k, c, m), k, a, c, m)
<1>. DEFINE col == [chunks |-> Append(w.columns[k].chunks, c), buffer |-> <<>>, capacity |-> 0, mode |-> m]
            v == [w EXCEPT !.arena = a]
<1>1. v.columns = w.columns
  BY DEF WindowTypes
<1>2. Keep(w, k, c, m) = [w EXCEPT !.columns = [w.columns EXCEPT ![k] = col]]
  BY Zenon DEF Keep
<1>3. Keep(v, k, c, m) = [v EXCEPT !.columns = [w.columns EXCEPT ![k] = col]]
  <2>. HIDE DEF v
  <2>. QED  BY <1>1, Zenon DEF Keep
<1>. DEFINE cs == [w.columns EXCEPT ![k] = col]
<1>. HIDE DEF col, cs
<1>4. [w EXCEPT !.columns = cs] = [w EXCEPT !.arena = w.arena, !.columns = cs]
  BY Zenon DEF WindowTypes
<1>5. [v EXCEPT !.columns = cs] = [w EXCEPT !.arena = a, !.columns = cs]
  BY DEF WindowTypes
<1>6. Keep(w, k, c, m) = With(w, w.arena, k, col)
  BY <1>2, <1>4, Zenon DEF With, cs
<1>7. Keep(v, k, c, m) = With(w, a, k, col)
  BY <1>3, <1>5, Zenon DEF With, cs
<1>. QED  BY <1>6, <1>7, Zenon DEF Kept, col

\* The column of a window of the type.
LEMMA ColumnType ==
    ASSUME NEW w \in WindowTypes, NEW k \in Columns
    PROVE  /\ w.columns[k].chunks \in Seq(Chunks) /\ w.columns[k].buffer \in Seq(Byte)
           /\ w.columns[k].capacity \in Nat /\ w.columns[k].mode \in Modes
           /\ w.wire \in {"none", "lz4", "auto"} /\ w.arena \in Seq(Slabs)
           /\ FixedWidth[k] \in Nat
<1>1. w.columns[k] \in ColumnTypes /\ w.wire \in {"none", "lz4", "auto"} /\ w.arena \in Seq(Slabs)
  BY DEF WindowTypes
<1>2. FixedWidth[k] \in Nat
  BY QueueAssumption DEF Columns
<1>. QED  BY <1>1, <1>2 DEF ColumnTypes

\* What is written of a column is bytes.
LEMMA WrittenType ==
    ASSUME NEW w \in WindowTypes, ColumnsOK(w), NEW k \in Columns
    PROVE  WrittenColumn(w, k, FALSE) \in Seq(Byte)
<1>1. w.columns[k].chunks \in Seq(Chunks)
  BY ColumnType, Zenon
<1>2. \A i \in 1..Len(w.columns[k].chunks) : ChunkOK(w, k, w.columns[k].chunks[i])
  BY Zenon DEF ColumnsOK, ColumnOK
<1>. QED  BY <1>1, <1>2, WrittenIs, Zenon

\* store_raw.
LEMMA RawGrows ==
    ASSUME NEW w \in WindowTypes, ColumnsOK(w), NEW k \in Columns, w.wire # "lz4"
    PROVE  LET w2 == store_raw(w, k) IN Grows(w, w2, k, <<>>) /\ w2.columns[k].buffer = <<>>
<1>. DEFINE b == w.columns[k].buffer
            c == [kind |-> "raw", data |-> b]
            w2 == store_raw(w, k)
<1>1. b \in Seq(Byte) /\ w.arena \in Seq(Slabs)
  BY ColumnType, Zenon
<1>2. w2 = Keep(w, k, c, "disabled")
  BY Zenon DEF store_raw
<1>. HIDE DEF b, w2
<1>3. c \in Chunks /\ c.kind = "raw" /\ c.data = b
  BY <1>1 DEF Chunks, RawChunks
<1>. HIDE DEF c
<1>4. InArena(w.arena, c)
  BY <1>3 DEF InArena
<1>5. Kept(w, w2, k, w.arena, c, "disabled")
  BY <1>2, KeepIs, Zenon
<1>6. Suits(w, k, c, "disabled") /\ "disabled" \in Modes
  BY DEF Suits, Modes
<1>7. Restores(w, w2, k, c)
  BY <1>3, Zenon DEF Restores, Written, b
<1>8. Grows(w, w2, k, <<>>) /\ w2.columns[k].buffer = <<>>
  BY <1>1, <1>3, <1>4, <1>5, <1>6, <1>7, KeepsItself, KeepGrows, ZenonT(30)
<1>. QED  BY <1>8, Zenon DEF w2

\* select_transform, and the format that goes with it.
LEMMA Selects ==
    ASSUME NEW w \in WindowTypes, ColumnsOK(w), NEW k \in Columns, w.columns[k].mode # "disabled",
           NEW pick
    PROVE  LET t == SelectTransform(w, k, pick) IN
           /\ t \in {"plain", "shuffle"} /\ FormatOf(w, t) \in Formats
           /\ t = "shuffle" => FixedWidth[k] > 1
           /\ w.wire = "lz4" => t = "plain" /\ FormatOf(w, t) = "frame"
<1>1. w.columns[k].mode \in Modes
  BY ColumnType, Zenon
<1>2. /\ w.wire = "lz4" => w.columns[k].mode \in {"unknown", "plain"}
      /\ w.columns[k].mode = "shuffle" => FixedWidth[k] > 1
  BY Zenon DEF ColumnsOK, ColumnOK
<1>. QED  BY <1>1, <1>2 DEF SelectTransform, Probed, FormatOf, Formats, Modes

\* compress_bytes and what undoes it.
Undoing(b, width, f, d, c) == d \in Seq(Token) /\ Undone(c, Decompress(d, f), width) = b

\* compress_bytes: decompressing and unshuffling give the buffer back.
LEMMA Undoes ==
    ASSUME NEW b \in Seq(Byte), NEW width \in Nat, NEW t \in {"plain", "shuffle"},
           t = "shuffle" => width > 1, NEW f \in Formats, NEW n \in Nat, n > 0,
           NEW d, d = Compress(Transformed(b, t, width), f, n), NEW c, c.transform = t
    PROVE  Undoing(b, width, f, d, c)
<1>. DEFINE x == Transformed(b, t, width)
<1>1. CASE t = "shuffle"
  <2>1. width > 0
    BY <1>1
  <2>2. x = shuffle_bytes_into(b, width)
    BY <1>1, Zenon DEF Transformed
  <2>3. x \in Seq(Byte) /\ unshuffle_bytes(x, width) = b
    BY <2>1, <2>2, Unshuffles, Zenon
  <2>. HIDE DEF x
  <2>4. d \in Seq(Token) /\ Decompress(d, f) = x
    BY <2>3, Decompressed, Zenon DEF x
  <2>. QED  BY <1>1, <2>3, <2>4, Zenon DEF Undone, Undoing
<1>2. CASE t = "plain"
  <2>1. x = b
    BY <1>2 DEF Transformed
  <2>2. d \in Seq(Token) /\ Decompress(d, f) = b
    BY <2>1, Decompressed, Zenon
  <2>3. c.transform # "shuffle"
    BY <1>2
  <2>. QED  BY <2>2, <2>3, Zenon DEF Undone, Undoing
<1>. QED  BY <1>1, <1>2

\* A chunk that is compressed into the arena.
LEMMA Lz4Grows ==
    ASSUME NEW w \in WindowTypes, ColumnsOK(w), NEW k \in Columns, w.columns[k].mode # "disabled",
           NEW pick
    PROVE  LET t == SelectTransform(w, k, pick)
               w2 == StoreLz4(w, k, compress_bytes(w, k, t, pick), t)
           IN  Grows(w, w2, k, <<>>) /\ w2.columns[k].buffer = <<>>
<1>. DEFINE b == w.columns[k].buffer
            t == SelectTransform(w, k, pick)
            f == FormatOf(w, t)
            n == CompressedLen(Len(b), pick)
            d == compress_bytes(w, k, t, pick)
            a == store(w.arena, d)
            at == Located(a, d)
            c == [kind |-> "lz4", at |-> at, decoded |-> Len(b), transform |-> t, format |-> f]
            w2 == StoreLz4(w, k, d, t)
<1>1. b \in Seq(Byte) /\ w.arena \in Seq(Slabs) /\ FixedWidth[k] \in Nat
  BY ColumnType, Zenon
<1>2. /\ t \in {"plain", "shuffle"} /\ f \in Formats
      /\ t = "shuffle" => FixedWidth[k] > 1
      /\ w.wire = "lz4" => t = "plain" /\ f = "frame"
  BY Selects, Zenon
<1>3. n \in Nat /\ n > 0 /\ Len(b) \in Nat
  <2>1. Len(b) \in Nat
    BY <1>1, LenProperties, Zenon
  <2>. HIDE DEF b
  <2>. QED  BY <2>1 DEF CompressedLen, Shrinks, Shrunk
<1>4. d = Compress(Transformed(b, t, FixedWidth[k]), f, n)
  BY Zenon DEF compress_bytes
<1>5. w2 = Keep([w EXCEPT !.arena = a], k, c, t)
  BY Zenon DEF StoreLz4
<1>. HIDE DEF b, t, f, n, d, w2, a
<1>6. /\ a \in Seq(Slabs) /\ Keeps(w.arena, a) /\ at \in Spots
      /\ at.slab \in 1..Len(a) /\ at.offset + at.len <= Len(a[at.slab].data)
      /\ slice(a, at) = d
  <2>1. d \in Seq(Token)
    <3>1. PICK x : x = [transform |-> t]
      BY Zenon
    <3>2. x.transform = t
      BY <3>1
    <3>3. Undoing(b, FixedWidth[k], f, d, x)
      BY <1>1, <1>2, <1>3, <1>4, <3>2, Undoes, ZenonT(30)
    <3>. QED  BY <3>3, Zenon DEF Undoing
  <2>. QED  BY <1>1, <2>1, Stores, Zenon DEF a
<1>. HIDE DEF at
<1>7. /\ c \in Chunks /\ c.kind = "lz4" /\ c.at = at /\ c.transform = t /\ c.format = f
  BY <1>2, <1>3, <1>6 DEF Chunks, Lz4Chunks
<1>. HIDE DEF c
<1>8. InArena(a, c)
  BY <1>6, <1>7, Zenon DEF InArena
<1>9. Kept(w, w2, k, a, c, t)
  BY <1>5, KeepIs, Zenon
<1>10. Suits(w, k, c, t) /\ t \in Modes
  BY <1>2, <1>7 DEF Suits, Modes, PlainFrame
<1>11. Undone(c, Decompress(d, f), FixedWidth[k]) = b
  <2>1. c.transform = t /\ t \in {"plain", "shuffle"} /\ (t = "shuffle" => FixedWidth[k] > 1) /\ f \in Formats
    BY <1>2, <1>7, Zenon
  <2>2. n \in Nat /\ n > 0
    BY <1>3, Zenon
  <2>3. Undoing(b, FixedWidth[k], f, d, c)
    BY <1>1, <1>4, <2>1, <2>2, Undoes, ZenonT(30)
  <2>. QED  BY <2>3, Zenon DEF Undoing
<1>12. w2.arena = a
  <2>1. w2 = With(w, a, k, [chunks |-> Append(w.columns[k].chunks, c), buffer |-> <<>>,
                            capacity |-> 0, mode |-> t])
    BY <1>9, Zenon DEF Kept
  <2>. QED  BY <2>1 DEF With, WindowTypes
<1>13. Restores(w, w2, k, c)
  <2>1. c.kind # "raw"
    BY <1>7
  <2>2. Written(w2, c, FixedWidth[k], FALSE) = Undone(c, Decompress(slice(a, c.at), c.format), FixedWidth[k])
    BY <1>12, <2>1, Zenon DEF Written
  <2>3. Written(w2, c, FixedWidth[k], FALSE) = b
    BY <1>6, <1>7, <1>11, <2>2, Zenon
  <2>. QED  BY <2>3, Zenon DEF Restores, b
<1>14. Grows(w, w2, k, <<>>) /\ w2.columns[k].buffer = <<>>
  BY <1>6, <1>7, <1>8, <1>9, <1>10, <1>13, KeepGrows, ZenonT(30)
<1>. QED  BY <1>14, Zenon DEF w2, d, t

\* Operations that add nothing, alone and after another.
LEMMA GrowsNone ==
    ASSUME NEW w \in WindowTypes, ColumnsOK(w), NEW k \in Columns
    PROVE  Grows(w, w, k, <<>>)
<1>. DEFINE x == WrittenColumn(w, k, FALSE)
            b == w.columns[k].buffer
<1>1. Over(x, Byte) /\ Over(b, Byte)
  BY WrittenType, ColumnType, Zenon DEF Over
<1>. HIDE DEF x, b
<1>2. Over(x \o b, Byte)
  BY <1>1, OverConcat, Zenon
<1>3. (x \o b) \o <<>> = x \o b
  BY <1>2, OverEmpty, Zenon
<1>4. Same(w, w)
  BY Zenon DEF Same
<1>. QED  BY <1>3, <1>4, Zenon DEF Grows, x, b

\* A column that grew and is then finished has grown by the same bytes.
LEMMA GrowsThen ==
    ASSUME NEW w \in WindowTypes, NEW v, NEW u, NEW k \in Columns, NEW d,
           Grows(w, v, k, d), Grows(v, u, k, <<>>)
    PROVE  Grows(w, u, k, d)
<1>1. v \in WindowTypes /\ ColumnsOK(v) /\ Same(w, v)
  BY Zenon DEF Grows
<1>2. Same(w, u)
  <2>1. Same(v, u)
    BY Zenon DEF Grows
  <2>. QED  BY <1>1, <2>1, Zenon DEF Same
<1>. DEFINE x == WrittenColumn(v, k, FALSE)
            b == v.columns[k].buffer
            y == WrittenColumn(u, k, FALSE)
            e == u.columns[k].buffer
            z == (WrittenColumn(w, k, FALSE) \o w.columns[k].buffer) \o d
<1>3. Over(x, Byte) /\ Over(b, Byte)
  BY <1>1, WrittenType, ColumnType, Zenon DEF Over
<1>4. x \o b = z /\ y \o e = (x \o b) \o <<>>
  BY Zenon DEF Grows
<1>. HIDE DEF x, b, y, e, z
<1>5. Over(x \o b, Byte)
  BY <1>3, OverConcat, Zenon
<1>6. (x \o b) \o <<>> = x \o b
  BY <1>5, OverEmpty, Zenon
<1>7. y \o e = z
  BY <1>4, <1>6, Zenon
<1>8. ASSUME NEW j \in Columns \ {k}
      PROVE  u.columns[j].buffer = w.columns[j].buffer /\ WrittenColumn(u, j, FALSE) = WrittenColumn(w, j, FALSE)
  <2>1. v.columns[j].buffer = w.columns[j].buffer /\ WrittenColumn(v, j, FALSE) = WrittenColumn(w, j, FALSE)
    BY Zenon DEF Grows
  <2>2. u.columns[j].buffer = v.columns[j].buffer /\ WrittenColumn(u, j, FALSE) = WrittenColumn(v, j, FALSE)
    BY Zenon DEF Grows
  <2>. QED  BY <2>1, <2>2, Zenon
<1>9. u \in WindowTypes /\ ColumnsOK(u)
  BY Zenon DEF Grows
<1>. QED  BY <1>2, <1>7, <1>8, <1>9, Zenon DEF Grows, y, e, z

\* finish_pending: the chunk that is kept, raw or compressed, is the buffer.
LEMMA FinishGrows ==
    ASSUME NEW w \in WindowTypes, ColumnsOK(w), NEW k \in Columns, NEW pick
    PROVE  LET w2 == finish_pending(w, k, pick) IN Grows(w, w2, k, <<>>) /\ w2.columns[k].buffer = <<>>
<1>. DEFINE t == SelectTransform(w, k, pick)
            w3 == StoreLz4(w, k, compress_bytes(w, k, t, pick), t)
            w4 == store_raw(w, k)
            w2 == finish_pending(w, k, pick)
            empty == w.columns[k].buffer = <<>>
            raw == w.columns[k].mode = "disabled"
            lz4 == w.wire = "lz4"
            small == Shrinks(Len(w.columns[k].buffer), pick)
<1>1. w2 = IF empty THEN w ELSE IF raw THEN w4 ELSE IF lz4 \/ small THEN w3 ELSE w4
  BY Zenon DEF finish_pending
<1>2. raw => ~lz4
  <2>1. ColumnOK(w, k)
    BY Zenon DEF ColumnsOK
  <2>2. lz4 => w.columns[k].mode \in {"unknown", "plain"}
    BY <2>1, Zenon DEF ColumnOK
  <2>. QED  BY <2>2
<1>3. empty => Grows(w, w, k, <<>>) /\ w.columns[k].buffer = <<>>
  BY GrowsNone, Zenon
<1>4. ~raw => Grows(w, w3, k, <<>>) /\ w3.columns[k].buffer = <<>>
  BY Lz4Grows, Zenon
<1>5. ~lz4 => Grows(w, w4, k, <<>>) /\ w4.columns[k].buffer = <<>>
  BY RawGrows, Zenon
<1>. HIDE DEF w2, w3, w4, empty, raw, lz4, small
<1>6. Grows(w, w2, k, <<>>) /\ w2.columns[k].buffer = <<>>
  <2>1. CASE empty
    BY <1>1, <1>3, <2>1, Zenon
  <2>2. CASE ~empty /\ ~raw /\ (lz4 \/ small)
    BY <1>1, <1>4, <2>2, Zenon
  <2>3. CASE ~empty /\ (raw \/ ~(lz4 \/ small))
    <3>1. w2 = w4 /\ ~lz4
      BY <1>1, <1>2, <2>3, Zenon
    <3>. QED  BY <1>5, <3>1, Zenon
  <2>. QED  BY <2>1, <2>2, <2>3, Zenon
<1>. QED  BY <1>6, Zenon DEF w2

\* The buffer of a column, and the room it has.
Buffered(w, k, b, cap) ==
    With(w, w.arena, k, [chunks |-> w.columns[k].chunks, buffer |-> b, capacity |-> cap,
                         mode |-> w.columns[k].mode])

\* push: a new capacity leaves the rest of the column.
LEMMA OpenedIs ==
    ASSUME NEW w \in WindowTypes, NEW k \in Columns, NEW n
    PROVE  [w EXCEPT !.columns[k].capacity = n] = Buffered(w, k, w.columns[k].buffer, n)
<1>. DEFINE col == w.columns[k]
            c1 == [col EXCEPT !.capacity = n]
<1>1. col \in ColumnTypes
  BY Zenon DEF WindowTypes
<1>2. [w EXCEPT !.columns[k].capacity = n] = [w EXCEPT !.columns = [w.columns EXCEPT ![k] = c1]]
  BY Zenon
<1>. HIDE DEF col
<1>3. c1 = [chunks |-> col.chunks, buffer |-> col.buffer, capacity |-> n, mode |-> col.mode]
  BY <1>1 DEF ColumnTypes
<1>. HIDE DEF c1
<1>4. ASSUME NEW cs  PROVE [w EXCEPT !.columns = cs] = [w EXCEPT !.arena = w.arena, !.columns = cs]
  BY Zenon DEF WindowTypes
<1>. QED  BY <1>2, <1>3, <1>4, Zenon DEF Buffered, With, col

\* push: what is copied comes to the end of the buffer.
LEMMA CopiedIs ==
    ASSUME NEW w \in WindowTypes, NEW k \in Columns, NEW d
    PROVE  [w EXCEPT !.columns[k].buffer = @ \o d]
              = Buffered(w, k, w.columns[k].buffer \o d, w.columns[k].capacity)
<1>. DEFINE col == w.columns[k]
            e == col.buffer \o d
            c2 == [col EXCEPT !.buffer = e]
<1>1. col \in ColumnTypes
  BY Zenon DEF WindowTypes
<1>2. [w EXCEPT !.columns[k].buffer = @ \o d] = [w EXCEPT !.columns = [w.columns EXCEPT ![k] = c2]]
  BY Zenon
<1>. HIDE DEF col, e
<1>3. c2 = [chunks |-> col.chunks, buffer |-> e, capacity |-> col.capacity, mode |-> col.mode]
  BY <1>1 DEF ColumnTypes
<1>. HIDE DEF c2
<1>4. ASSUME NEW cs  PROVE [w EXCEPT !.columns = cs] = [w EXCEPT !.arena = w.arena, !.columns = cs]
  BY Zenon DEF WindowTypes
<1>5. [w EXCEPT !.columns[k].buffer = @ \o d] = Buffered(w, k, e, col.capacity)
  BY <1>2, <1>3, <1>4, Zenon DEF Buffered, With, col
<1>. QED  BY <1>5, Zenon DEF col, e

\* A longer buffer is a longer column.
LEMMA BufferGrows ==
    ASSUME NEW w \in WindowTypes, ColumnsOK(w), NEW k \in Columns, NEW d \in Seq(Byte), NEW cap \in Nat,
           Len(w.columns[k].buffer \o d) <= cap, NEW w2, w2 = Buffered(w, k, w.columns[k].buffer \o d, cap)
    PROVE  Grows(w, w2, k, d) /\ w2.columns[k].buffer = w.columns[k].buffer \o d
           /\ w2.columns[k].capacity = cap
<1>. DEFINE s == w.columns[k].chunks
            b == w.columns[k].buffer
            m == w.columns[k].mode
            e == b \o d
            col == [chunks |-> s, buffer |-> e, capacity |-> cap, mode |-> m]
            x == WrittenColumn(w, k, FALSE)
<1>1. s \in Seq(Chunks) /\ Over(b, Byte) /\ m \in Modes /\ w.arena \in Seq(Slabs)
  BY ColumnType, Zenon DEF Over
<1>2. w2 = With(w, w.arena, k, col) /\ Len(e) <= cap
  BY Zenon DEF Buffered
<1>3. Over(d, Byte) /\ Over(x, Byte)
  BY WrittenType, Zenon DEF Over
<1>. HIDE DEF s, b, m
<1>4. e \in Seq(Byte)
  BY <1>1, <1>3, OverConcat, ZenonT(30) DEF Over
<1>. HIDE DEF e, x
<1>5. col \in ColumnTypes /\ col.chunks = s /\ col.buffer = e /\ col.capacity = cap /\ col.mode = m
  BY <1>1, <1>4 DEF ColumnTypes
<1>. HIDE DEF col
<1>6. Replaced(w, w2, w.arena, k, col)
  BY <1>1, <1>2, <1>5, WithTypes, Zenon
<1>7. /\ w2 \in WindowTypes /\ Same(w, w2) /\ w2.arena = w.arena /\ w2.columns[k] = col
      /\ w2.wire = w.wire /\ \A j \in Columns \ {k} : w2.columns[j] = w.columns[j]
  BY <1>6, Zenon DEF Replaced, Same
<1>8. Keeps(w.arena, w2.arena)
  BY <1>7, KeepsItself, Zenon
<1>9. ASSUME NEW j \in Columns \ {k}
      PROVE  ColumnOK(w2, j) /\ WrittenColumn(w2, j, FALSE) = WrittenColumn(w, j, FALSE)
  BY <1>7, <1>8, OtherColumns, Zenon
<1>10. ASSUME NEW c
       PROVE  /\ Written(w2, c, FixedWidth[k], FALSE) = Written(w, c, FixedWidth[k], FALSE)
              /\ ChunkOK(w, k, c) => ChunkOK(w2, k, c)
  <2>1. Written(w2, c, FixedWidth[k], FALSE) = Written(w, c, FixedWidth[k], FALSE)
    BY <1>7, Zenon DEF Written
  <2>. QED  BY <1>7, <2>1, Zenon DEF ChunkOK
<1>11. ColumnOK(w2, k)
  <2>1. ColumnOK(w, k)
    BY Zenon DEF ColumnsOK
  <2>2. /\ \A i \in 1..Len(s) : ChunkOK(w, k, s[i])
        /\ w.wire = "lz4" => m \in {"unknown", "plain"}
        /\ m = "shuffle" => FixedWidth[k] > 1
    BY <2>1, Zenon DEF ColumnOK, s, m
  <2>. QED  BY <1>2, <1>5, <1>7, <1>10, <2>2, ZenonT(30) DEF ColumnOK
<1>12. ColumnsOK(w2)
  BY <1>9, <1>11, Zenon DEF ColumnsOK
<1>13. WrittenColumn(w2, k, FALSE) = x
  <2>1. w2.columns[k].chunks = w.columns[k].chunks
    BY <1>5, <1>7, Zenon DEF s
  <2>2. [i \in DOMAIN w.columns[k].chunks |-> Written(w2, w.columns[k].chunks[i], FixedWidth[k], FALSE)]
          = [i \in DOMAIN w.columns[k].chunks |-> Written(w, w.columns[k].chunks[i], FixedWidth[k], FALSE)]
    BY <1>10, Zenon
  <2>. QED  BY <2>1, <2>2, Zenon DEF WrittenColumn, x
<1>14. x \o e = (x \o b) \o d
  <2>1. (x \o b) \o d = x \o (b \o d)
    BY <1>1, <1>3, OverAssociative, SMTT(30)
  <2>. QED  BY <2>1, Zenon DEF e
<1>15. w2.columns[k].buffer = e /\ w2.columns[k].capacity = cap
  BY <1>5, <1>7, Zenon
<1>16. \A j \in Columns \ {k} : w2.columns[j].buffer = w.columns[j].buffer
  BY <1>7, Zenon
<1>17. Grows(w, w2, k, d)
  BY <1>7, <1>9, <1>12, <1>13, <1>14, <1>15, <1>16, ZenonT(30) DEF Grows, x, b
<1>. QED  BY <1>15, <1>17, Zenon DEF e, b

\* One round of EncodedColumn::push: the bytes that fit come to the end of the
\* column, and stay there when the full buffer is compressed, shuffled or kept
\* raw; the other columns, which share the arena, keep theirs.
THEOREM PushGrows ==
    ASSUME NEW w \in WindowTypes, ColumnsOK(w), NEW k \in Columns, NEW bytes \in Seq(Byte), NEW pick
    PROVE  LET n == Pushed(w, k, bytes) IN
           n \in 0..Len(bytes) /\ Grows(w, push(w, k, bytes, pick), k, SubSeq(bytes, 1, n))
<1>. DEFINE v == Opened(w, k, bytes)
            n == Pushed(w, k, bytes)
            d == SubSeq(bytes, 1, n)
            u == Copied(v, k, bytes)
            w2 == push(w, k, bytes, pick)
<1>0. Len(bytes) \in Nat
  BY LenProperties, Zenon
<1>1. Grows(w, v, k, <<>>)
  <2>1. CASE w.columns[k].capacity # 0
    <3>1. v = w
      BY <2>1, Zenon DEF Opened
    <3>. QED  BY <3>1, GrowsNone, Zenon
  <2>2. CASE w.columns[k].capacity = 0
    <3>. DEFINE cap == Clamped(Len(bytes))
                b == w.columns[k].buffer
    <3>1. cap \in Nat
      BY <1>0, WindowAssumption DEF Clamped, Least
    <3>2. v = Buffered(w, k, b, cap)
      <4>1. v = [w EXCEPT !.columns[k].capacity = cap]
        BY <2>2, Zenon DEF Opened
      <4>. HIDE DEF cap, v
      <4>. QED  BY <4>1, OpenedIs, Zenon
    <3>3. b \in Seq(Byte)
      BY ColumnType, Zenon
    <3>4. Len(b) <= w.columns[k].capacity
      BY Zenon DEF ColumnsOK, ColumnOK
    <3>. HIDE DEF b, cap, v
    <3>5. b \o <<>> = b /\ <<>> \in Seq(Byte)
      BY <3>3, ConcatEmptySeq
    <3>6. Len(b) <= cap
      BY <2>2, <3>1, <3>3, <3>4
    <3>7. Len(w.columns[k].buffer \o <<>>) <= cap /\ v = Buffered(w, k, w.columns[k].buffer \o <<>>, cap)
      BY <3>2, <3>5, <3>6, Zenon DEF b
    <3>. QED  BY <3>1, <3>5, <3>7, BufferGrows, ZenonT(30)
  <2>. QED  BY <2>1, <2>2, Zenon
<1>. HIDE DEF v
<1>2. v \in WindowTypes /\ ColumnsOK(v)
  BY <1>1, Zenon DEF Grows
<1>. DEFINE e == v.columns[k].buffer
            cap == v.columns[k].capacity
<1>3. e \in Seq(Byte) /\ cap \in Nat /\ Len(e) <= cap
  <2>1. ColumnOK(v, k)
    BY <1>2, Zenon DEF ColumnsOK
  <2>. QED  BY <1>2, <2>1, ColumnType, Zenon DEF ColumnOK
<1>4. n = Least(Len(bytes), cap - Len(e))
  BY Zenon DEF Pushed, Room, v
<1>5. u = [v EXCEPT !.columns[k].buffer = @ \o d]
  BY Zenon DEF Copied, Pushed, v
<1>. HIDE DEF e, cap, n
<1>6. Len(e) \in Nat
  BY <1>3, LenProperties, Zenon
<1>7. n \in 0..Len(bytes) /\ Len(e) + n <= cap
  BY <1>0, <1>3, <1>4, <1>6 DEF Least
<1>8. d \in Seq(Byte) /\ Len(d) = n
  BY <1>7, Cut, Zenon
<1>. HIDE DEF d
<1>9. Len(e \o d) <= cap
  <2>1. Len(e \o d) = Len(e) + Len(d)
    BY <1>3, <1>8, ConcatProperties, Zenon
  <2>. QED  BY <1>7, <1>8, <2>1
<1>10. u = Buffered(v, k, e \o d, cap)
  <2>. HIDE DEF u
  <2>. QED  BY <1>2, <1>5, CopiedIs, Zenon DEF e, cap
<1>. HIDE DEF u
<1>11. Grows(v, u, k, d)
  BY <1>2, <1>3, <1>8, <1>9, <1>10, BufferGrows, ZenonT(30) DEF e
<1>12. Grows(w, u, k, d)
  <2>. DEFINE x == WrittenColumn(w, k, FALSE)
              b == w.columns[k].buffer
  <2>1. Over(x, Byte) /\ Over(b, Byte)
    BY WrittenType, ColumnType, Zenon DEF Over
  <2>2. WrittenColumn(v, k, FALSE) \o e = (x \o b) \o <<>>
    BY <1>1, Zenon DEF Grows, e
  <2>3. WrittenColumn(u, k, FALSE) \o u.columns[k].buffer = (WrittenColumn(v, k, FALSE) \o e) \o d
    BY <1>11, Zenon DEF Grows, e
  <2>. HIDE DEF x, b
  <2>4. Over(x \o b, Byte)
    BY <2>1, OverConcat, Zenon
  <2>5. (x \o b) \o <<>> = x \o b
    BY <2>4, OverEmpty, Zenon
  <2>6. WrittenColumn(u, k, FALSE) \o u.columns[k].buffer = (x \o b) \o d
    BY <2>2, <2>3, <2>5, Zenon
  <2>7. Same(w, u)
    <3>1. Same(w, v) /\ Same(v, u)
      BY <1>1, <1>11, Zenon DEF Grows
    <3>. QED  BY <3>1, Zenon DEF Same
  <2>8. ASSUME NEW j \in Columns \ {k}
        PROVE  u.columns[j].buffer = w.columns[j].buffer /\ WrittenColumn(u, j, FALSE) = WrittenColumn(w, j, FALSE)
    <3>1. v.columns[j].buffer = w.columns[j].buffer /\ WrittenColumn(v, j, FALSE) = WrittenColumn(w, j, FALSE)
      BY <1>1, Zenon DEF Grows
    <3>2. u.columns[j].buffer = v.columns[j].buffer /\ WrittenColumn(u, j, FALSE) = WrittenColumn(v, j, FALSE)
      BY <1>11, Zenon DEF Grows
    <3>. QED  BY <3>1, <3>2, Zenon
  <2>9. u \in WindowTypes /\ ColumnsOK(u)
    BY <1>11, Zenon DEF Grows
  <2>. QED  BY <2>6, <2>7, <2>8, <2>9, Zenon DEF Grows, x, b
<1>13. u \in WindowTypes /\ ColumnsOK(u)
  BY <1>11, Zenon DEF Grows
<1>14. w2 = FinishFull(u, k, pick)
  BY Zenon DEF push, u, v
<1>. HIDE DEF w2
<1>15. Grows(u, w2, k, <<>>)
  <2>1. CASE Room(u, k) = 0
    <3>1. w2 = finish_pending(u, k, pick)
      BY <1>14, <2>1, Zenon DEF FinishFull
    <3>. QED  BY <1>13, <3>1, FinishGrows, Zenon
  <2>2. CASE Room(u, k) # 0
    <3>1. w2 = u
      BY <1>14, <2>2, Zenon DEF FinishFull
    <3>. QED  BY <1>13, <3>1, GrowsNone, Zenon
  <2>. QED  BY <2>1, <2>2, Zenon
<1>16. Grows(w, w2, k, d)
  BY <1>12, <1>15, GrowsThen, Zenon
<1>. QED  BY <1>7, <1>16, Zenon DEF w2, d, n

=============================================================================
