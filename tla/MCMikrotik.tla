----------------------------- MODULE MCMikrotik -----------------------------
(* A small instance of the MikroTik monitor for TLC. *)
EXTENDS MikrotikMulti
=============================================================================
