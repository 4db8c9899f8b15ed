-------------------------- MODULE MCIngestPipeline --------------------------
(* TLC instance of IngestPipeline: two ingests of up to two rows.  A budget *)
(* of 1 needs 5 bytes, one of 2 needs 7, and the limit admits 12 besides    *)
(* the base; a budget of 80 saturates.                                      *)
EXTENDS IngestPipeline

CONSTANTS i1, i2

MCIngests == {i1, i2}
MCBudgets == {1, 2, 80}
MCLimits  == {NoLimit, 16}
=============================================================================
