------------------------------- MODULE MCEsxi -------------------------------
(* Two hosts that fail and change independently. *)
EXTENDS EsxiMonitor
=============================================================================
