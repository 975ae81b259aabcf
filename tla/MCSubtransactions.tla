-------------------------- MODULE MCSubtransactions --------------------------
(* Subtransactions on a few calls and objects, for TLC. *)
EXTENDS Subtransactions, TLC

\* Nothing tells one subtransaction object from another.
ObjectSymmetry == Permutations(Objects)
=============================================================================
