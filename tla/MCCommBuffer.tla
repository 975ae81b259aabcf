---------------------------- MODULE MCCommBuffer ----------------------------
(* CommBuffer on small buffers, for TLC. *)
EXTENDS CommBuffer
=============================================================================
