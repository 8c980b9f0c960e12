--------------------------- MODULE MCPoolRegistry ---------------------------
(* Three databases of two paths, one tag, and a pool for each database.    *)
EXTENDS PoolRegistry

CONSTANTS d1, d2, d3, x, y, c1, c2, c3, t1

MCDatabases == {d1, d2, d3}
MCPaths == {x, y}
MCPools == {c1, c2, c3}
MCTags == {t1}
=============================================================================
