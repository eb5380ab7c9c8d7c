--------------------------- MODULE MCHighVoltage ---------------------------
(* Instances of HighVoltage for TLC. *)
EXTENDS HighVoltage
=============================================================================
