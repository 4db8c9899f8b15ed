----------------------------- MODULE ReadWindows -----------------------------
(***************************************************************************)
(* ReadWindowScheduler: how many rows the next Xexportbin request asks     *)
(* for.  A scheduler is a record; None stands for an absent Option.        *)
(***************************************************************************)
EXTENDS Integers

CONSTANTS
    Granule,     \* EXPORT_GRANULE_ROWS
    Alignments,  \* the powers of two up to Granule
    MaxGrowth,   \* MAX_READ_WINDOW_GROWTH
    MaxUsize     \* usize::MAX, where saturating arithmetic stops

ASSUME WindowAssumption ==
    /\ Granule \in Nat \ {0} /\ MaxGrowth \in Nat \ {0} /\ MaxUsize \in Nat
    /\ Granule <= MaxUsize
    /\ Alignments \subseteq 1..Granule
    /\ \A n \in 1..Granule : \E a \in Alignments : a <= n /\ n < 2 * a

None == 0

Least(m, n)    == IF m <= n THEN m ELSE n
Greatest(m, n) == IF m >= n THEN m ELSE n
Saturate(n)    == Least(n, MaxUsize)
OrElse(option, default) == IF option = None THEN default ELSE option

Schedulers ==
    [ exact    : 0..MaxUsize,  \* exact_batch_rows
      budget   : 0..MaxUsize,  \* window_budget_bytes
      fits     : BOOLEAN,      \* full_granule_fits
      estimate : 1..MaxUsize,  \* estimated_bytes_per_row
      initial  : 0..MaxUsize,  \* initial_rows_limit
      previous : 0..MaxUsize,  \* previous_rows
      observed : 0..MaxUsize ] \* observed_rows

export_alignment_rows(target) ==
    LET clamped == Least(Greatest(target, 1), Granule)
    IN  CHOOSE a \in Alignments : a <= clamped /\ clamped < 2 * a

Target_ungrown(s) ==
    Greatest(Greatest(s.budget \div s.estimate, 1), IF s.fits THEN Granule ELSE 1)

\* The rows the byte budget allows, before the end is aligned.
Target(s) ==
    LET affordable == Greatest(Greatest(s.budget \div s.estimate, 1),
                               IF s.fits THEN Granule ELSE 1)
        limit == IF s.previous = None
                 THEN OrElse(s.initial, MaxUsize)
                 ELSE Saturate(s.previous * MaxGrowth)
    IN  Least(affordable, limit)

AlignedEnd_never(s) == Saturate(s.observed + Target(s))

AlignedEnd(s) ==
    LET end == Saturate(s.observed + Target(s))
    IN  end - (end % export_alignment_rows(Target(s)))

next_rows(s, remaining) ==
    Least(IF s.exact # None THEN s.exact
                            ELSE Greatest(AlignedEnd(s) - s.observed, 1),
          Saturate(remaining))

Requested(s, rows) == [s EXCEPT !.previous = rows]

observe(s, bytes, rows) ==
    [s EXCEPT !.observed = Saturate(@ + rows),
              !.estimate = IF s.exact = None /\ rows > 0
                           THEN Greatest(Saturate(bytes + rows - 1) \div rows, 1)
                           ELSE @]
=============================================================================
