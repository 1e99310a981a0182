--------------------------- MODULE MCQuerySessions ---------------------------
(* Small instances of QuerySessions for TLC. *)
EXTENDS QuerySessions, TLC

CONSTANTS t1, t2, t3

TaskSymmetry == Permutations(Tasks)
=============================================================================
