------------------------------- MODULE MCNat -------------------------------
(* A master and a device whose rules lead to the address the scanner uses. *)
EXTENDS NatCache

MCTarget == [d \in Devices |-> Self]
=============================================================================
