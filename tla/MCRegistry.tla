----------------------------- MODULE MCRegistry -----------------------------
(* Instances of Registry for TLC.                                           *)
EXTENDS Registry, TLC

CONSTANTS a1, c1, f1, f2, x, y

=============================================================================
