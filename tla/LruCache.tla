------------------------------ MODULE LruCache ------------------------------
(***************************************************************************)
(* What the prepared-statement cache promises: a bounded table of verdicts *)
(* on query shapes that forgets the least recently used shape first.  The  *)
(* table is a list of [q, outcome] records, least recent first.            *)
(***************************************************************************)
EXTENDS Naturals, Sequences

CONSTANTS
    Shapes,     \* normalized query texts
    Outcomes,   \* verdicts
    Capacities  \* configured sizes, positive

VARIABLES table, size, used  \* used: the shape looked up or stored last

Pair(q, o) == [q |-> q, outcome |-> o]

Holds(l, q)   == \E i \in DOMAIN l : l[i].q = q
Place(l, q)   == CHOOSE i \in DOMAIN l : l[i].q = q
Verdict(l, q) == l[Place(l, q)].outcome

\* A shape has at most one pair.
Forget(l, q) ==
    IF Holds(l, q) THEN SubSeq(l, 1, Place(l, q) - 1) \o SubSeq(l, Place(l, q) + 1, Len(l)) ELSE l

\* Mutant: nothing is forgotten.
Newest_all(l, n) == l

\* The n most recent pairs.
Newest(l, n) == IF Len(l) <= n THEN l ELSE SubSeq(l, Len(l) - n + 1, Len(l))

Remember(l, q, o, n) == Newest(Append(Forget(l, q), Pair(q, o)), n)

Init == table = <<>> /\ size \in Capacities /\ used = "none"

\* A shape is looked up and, if known, becomes the most recent one.
Use(q) ==
    /\ used' = q
    /\ table' = IF Holds(table, q) THEN Remember(table, q, Verdict(table, q), size) ELSE table
    /\ UNCHANGED size

\* A verdict is stored; the least recent shape makes room.
Put(q, o) == used' = q /\ table' = Remember(table, q, o, size) /\ UNCHANGED size

\* A shape is dropped on purpose.
Drop(q) == table' = Forget(table, q) /\ UNCHANGED <<size, used>>

Clear == table' = <<>> /\ UNCHANGED <<size, used>>

Resize(n) == size' = n /\ table' = Newest(table, n) /\ UNCHANGED used

Next ==
    \/ \E q \in Shapes : Use(q) \/ Drop(q) \/ \E o \in Outcomes : Put(q, o)
    \/ Clear
    \/ \E n \in Capacities : Resize(n)

Spec == Init /\ [][Next]_<<table, size, used>>
=============================================================================
