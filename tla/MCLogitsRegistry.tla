-------------------------- MODULE MCLogitsRegistry --------------------------
(* A small instance of LogitsRegistry for TLC.                              *)
EXTENDS LogitsRegistry

CONSTANTS g1, g2, g3, w1, w2
=============================================================================
