------------------------------ MODULE MCFields ------------------------------
(* A node a step of the clock east of UTC, whose boot is measured up to a  *)
(* step late; one of the processes starts again.                           *)
EXTENDS FieldRules
=============================================================================
