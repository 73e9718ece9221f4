------------------------------ MODULE MCCache ------------------------------
(* Small instances of the server cache for TLC. *)
EXTENDS ServerCache, TLC

Symmetry == Permutations(Servers) \cup Permutations(Flushers)
=============================================================================
