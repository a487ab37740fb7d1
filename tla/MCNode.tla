------------------------------- MODULE MCNode -------------------------------
(* Small instances of Node.                                                 *)
EXTENDS Node

CONSTANTS s1, s2, p, q, l1, l2, o1, o2

=============================================================================
