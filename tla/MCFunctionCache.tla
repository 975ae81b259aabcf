--------------------------- MODULE MCFunctionCache ---------------------------
(* Three functions, two of them of the same name, and caches of two, for TLC. *)
EXTENDS FunctionCache, TLC

CONSTANTS f, g, h, n, m

MCNameOf == (f :> n) @@ (g :> n) @@ (h :> m)
MCBadSource == {<<h, 2>>}

\* f and g have one name, and nothing else tells them apart.
SameName == Permutations({f, g})
=============================================================================
