------------------------- MODULE MCRequestLifecycle -------------------------
(* Small instances of RequestLifecycle for TLC: model values for two        *)
(* requests, an application thread and a native worker.                     *)
EXTENDS RequestLifecycle

CONSTANTS r1, r2, c1, w1
=============================================================================
