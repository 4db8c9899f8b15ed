--------------------------- MODULE MCResultReader ---------------------------
(* TLC instance of ResultReader: results of up to five rows, granules of    *)
(* four, rows of one or three bytes.  The four schedulers are an adaptive   *)
(* one for fixed widths, one whose granule fits the budget, one for         *)
(* variable widths (its first window is one row) and an exact one.          *)
EXTENDS ResultReader

Adaptive == [ exact |-> 0, budget |-> 4, fits |-> FALSE, estimate |-> 2, initial |-> 0,
              previous |-> 0, observed |-> 0 ]

MCNewSchedulers == { Adaptive, [Adaptive EXCEPT !.budget = 8, !.fits = TRUE],
                     [Adaptive EXCEPT !.estimate = 1, !.initial = 1],
                     [Adaptive EXCEPT !.exact = 2] }
MCAlignments == {1, 2, 4}
MCRowBytes   == {1, 3}
=============================================================================
