---------------------------- MODULE ResultStream ----------------------------
(***************************************************************************)
(* What the reader of a query result promises its caller: the rows of the  *)
(* result in order, each once; an end only after the last row; and at most *)
(* one error, only while rows are missing.                                 *)
(***************************************************************************)
EXTENDS Naturals, Sequences

CONSTANT MaxTotal
VARIABLES
    total,  \* rows of the result
    out,    \* row numbers handed to the caller so far
    stream  \* "open", "ended" (None) or "failed" (Some(Err))

Init == total \in 0..MaxTotal /\ out = <<>> /\ stream = "open"

NextRows(n) == [i \in 1..n |-> Len(out) + i - 1]

Batch ==
    /\ stream = "open"
    /\ \E n \in 1..(total - Len(out)) : out' = out \o NextRows(n)
    /\ UNCHANGED <<total, stream>>

End ==
    /\ stream = "open" /\ Len(out) = total
    /\ stream' = "ended"
    /\ UNCHANGED <<total, out>>

Fail ==
    /\ stream = "open" /\ Len(out) < total
    /\ stream' = "failed"
    /\ UNCHANGED <<total, out>>

Spec == Init /\ [][Batch \/ End \/ Fail]_<<total, out, stream>>
=============================================================================
