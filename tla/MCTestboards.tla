---------------------------- MODULE MCTestboards ----------------------------
\* Testboards with the kinds of tests that a run lets happen.
EXTENDS Testboards

OrdinaryTests == {"batch", "iv"}
OnlyPowercycle == {"powercycle"}
=============================================================================
