---------------------------- MODULE MCDoubleMap ----------------------------
(* Instances of DoubleMap for TLC.                                          *)
EXTENDS DoubleMap
=============================================================================
