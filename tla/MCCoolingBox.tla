---------------------------- MODULE MCCoolingBox ----------------------------
(* Instance of CoolingBox for TLC: a test temperature below that of the room  *)
(* and one above it.                                                          *)
EXTENDS CoolingBox

TestTemperatures == {1, 3}
=============================================================================
