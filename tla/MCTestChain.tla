---------------------------- MODULE MCTestChain ----------------------------
(* Instances of TestChain for TLC. *)
EXTENDS TestChain
=============================================================================
