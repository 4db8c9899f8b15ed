---------------------------- MODULE IngestQueue ----------------------------
(***************************************************************************)
(* The queue of Arrow batches between the caller's source and the windows  *)
(* of one COPY ingest (IngestWindowScheduler): reading, compaction of      *)
(* small batches, and staging of the rows that fit a byte target.          *)
(***************************************************************************)
EXTENDS Integers, Sequences

CONSTANTS
    FixedWidth,     \* bytes of a value of each column, 0 if it is variable
    CompactionMax,  \* PENDING_BATCH_COMPACTION_MAX_BYTES
    Fanout          \* PENDING_BATCH_COMPACTION_FANOUT

Columns == 1..Len(FixedWidth)

ASSUME QueueAssumption ==
    /\ FixedWidth \in Seq(Nat) /\ FixedWidth # <<>>
    /\ CompactionMax \in Nat \ {0} /\ Fanout \in Nat \ {0, 1}

\* A row is its number, the bytes of its value in each column (at least one:
\* a string has its terminator, a blob its length), and whether one of them is
\* null.  A batch of the source may be an error instead.
Rows == [id : Nat, bytes : [Columns -> Nat \ {0}], null : BOOLEAN]
SourceBatches == [ok : BOOLEAN, rows : Seq(Rows)]

\* Last and FlattenSeq are those of SequencesExt, which is not extended here:
\* a proof would carry the whole of that module in each of its obligations.
Last(s) == s[Len(s)]
FlattenSeq(ss) ==
    LET join[i \in 0..Len(ss)] == IF i = 0 THEN <<>> ELSE join[i - 1] \o ss[i] IN join[Len(ss)]
Total(ns) ==
    LET sum[i \in 0..Len(ns)] == IF i = 0 THEN 0 ELSE sum[i - 1] + ns[i] IN sum[Len(ns)]

Weight(row) == Total(row.bytes)
estimated_batch_size(rows) == Total([i \in DOMAIN rows |-> Weight(rows[i])])
RowsOf(batches) == FlattenSeq([i \in DOMAIN batches |-> batches[i].rows])
BytesOf(batches) == Total([i \in DOMAIN batches |-> batches[i].estimated])

Batch(rows, level) == [rows |-> rows, estimated |-> estimated_batch_size(rows), level |-> level]

EmptyQueue == [pending |-> <<>>, rows |-> 0, bytes |-> 0, exhausted |-> FALSE, read |-> 0]

push_front(q, b) ==
    [q EXCEPT !.pending = <<b>> \o @, !.rows = @ + Len(b.rows), !.bytes = @ + b.estimated]
push_back(q, b) ==
    [q EXCEPT !.pending = Append(@, b), !.rows = @ + Len(b.rows), !.bytes = @ + b.estimated]
pop_front(q) ==
    [q EXCEPT !.pending = Tail(@), !.rows = @ - Len(Head(q.pending).rows), !.bytes = @ - Head(q.pending).estimated]

Newest(q) == SubSeq(q.pending, Len(q.pending) - Fanout + 1, Len(q.pending))

Compactable(q) ==
    /\ Len(q.pending) >= Fanout
    /\ \A i \in DOMAIN Newest(q) : Newest(q)[i].level = Last(q.pending).level
    /\ BytesOf(Newest(q)) <= CompactionMax

Compacted(q) ==
    [q EXCEPT !.pending = Append(SubSeq(@, 1, Len(@) - Fanout),
        [rows |-> RowsOf(Newest(q)), estimated |-> BytesOf(Newest(q)), level |-> Last(q.pending).level + 1])]

Less(a, b) == IF a > b THEN a - b ELSE 0
Least(a, b) == IF a < b THEN a ELSE b
AtLeastOne(n) == IF n = 0 THEN 1 ELSE n

Prefix(b, n) ==
    [b EXCEPT !.rows = SubSeq(@, 1, n), !.estimated = estimated_batch_size(SubSeq(b.rows, 1, n))]

Remainder(b, n) ==
    [b EXCEPT !.rows = SubSeq(@, n + 1, Len(@)), !.estimated = @ - Prefix(b, n).estimated]

Selected(b, n) == IF n = Len(b.rows) THEN b ELSE Prefix(b, n)
split_pending(q, b, n) == IF n = Len(b.rows) THEN q ELSE push_front(q, Remainder(b, n))

=============================================================================
