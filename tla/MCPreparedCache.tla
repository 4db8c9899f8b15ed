--------------------------- MODULE MCPreparedCache ---------------------------
(* TLC instance of PreparedCache: two statements, three shapes, two sizes.  *)
EXTENDS PreparedCache

CONSTANTS c1, c2, qa, qb, qc

MCCallers    == {c1, c2}
MCShapes     == {qa, qb, qc}
MCCapacities == {1, 2}
=============================================================================
