-------------------------------- MODULE MCKv --------------------------------
(* Model-checking instances of the session store. *)
EXTENDS KvProps, TLC

\* All keys of the small instance share the deleted prefix.
MCPrefixed == [k \in Keys |-> Keys]

Symmetry == Permutations(Keys) \cup Permutations(Clients)
=============================================================================
