--------------------------- MODULE MCPreparedPlans ---------------------------
(* PreparedPlans with a small table, for TLC. *)
EXTENDS PreparedPlans
=============================================================================
