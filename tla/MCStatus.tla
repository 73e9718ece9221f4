------------------------------ MODULE MCStatus ------------------------------
(* A small instance of the offline checker for TLC: ticks of 15 s. *)
EXTENDS StatusWatch
=============================================================================
