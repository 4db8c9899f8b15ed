--------------------------- MODULE MCPreparedPlans ---------------------------
(* TLC instance of PreparedPlans: two statements, two shapes.               *)
EXTENDS PreparedPlans, TLC

CONSTANTS t1, t2, qa, qb

MCThreads == {t1, t2}
MCShapes  == {qa, qb}
ThreadAndShapeSymmetry == Permutations(MCThreads) \cup Permutations(MCShapes)
=============================================================================
