--------------------------- MODULE MCBlockingCall ---------------------------
(* A small instance of BlockingCall for TLC: one thread and its stack.       *)
EXTENDS BlockingCall

CONSTANTS t1
=============================================================================
