--------------------------- MODULE MCCallProtocol ---------------------------
(* CallProtocol on a few calls, for TLC. *)
EXTENDS CallProtocol
=============================================================================
