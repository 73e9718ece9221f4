----------------------------- MODULE MCServices -----------------------------
(* The services map of a master with one connected node. *)
EXTENDS ServicesMap
=============================================================================
