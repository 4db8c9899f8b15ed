-------------------------- MODULE MCIngestWindows --------------------------
(***************************************************************************)
(* An instance of IngestWindows for TLC: two columns, of 2 bytes and of    *)
(* variable width; sources of up to six rows cut into batches in several  *)
(* ways, some empty, some failing, with rows wider than a staging target   *)
(* and than a window.                                                      *)
(***************************************************************************)
EXTENDS IngestWindows

MCFixedWidth == <<2, 0>>

\* A source from the widths of its variable column, its null rows and the
\* lengths of its batches; the last batch may be an error.
Row(widths, nulls, i) == [id |-> i, bytes |-> <<2, widths[i]>>, null |-> i \in nulls]

SourceOf(widths, nulls, cuts, fails) ==
    [b \in 1..Len(cuts) |->
        [ok |-> TRUE,
         rows |-> LET before == Total(SubSeq(cuts, 1, b - 1))
                  IN  [j \in 1..cuts[b] |-> Row(widths, nulls, before + j)]]]
    \o (IF fails THEN << [ok |-> FALSE, rows |-> <<>>] >> ELSE <<>>)

MCSources ==
    { SourceOf(w, {}, c, FALSE) :
        w \in {<<1, 1, 1, 1, 1, 1>>, <<1, 6, 1, 2, 1, 1>>, <<13, 1, 1, 1, 1, 5>>, <<1, 1, 1, 13, 1, 1>>},
        c \in {<<1, 1, 1, 1, 1, 1>>, <<6>>, <<1, 0, 3, 2>>, <<2, 1, 1, 2>>} }
    \cup { SourceOf(<<1, 2, 1, 2, 1, 2>>, {n}, <<2, 4>>, FALSE) : n \in {1, 3} }
    \cup { SourceOf(<<1, 1, 1, 1>>, {}, <<1, 2, 1>>, TRUE), <<>> }

=============================================================================
