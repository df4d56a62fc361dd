---------------------------- MODULE MCEngineLoad ----------------------------
(* EngineLoad with few settings and calls for TLC.                           *)
EXTENDS EngineLoad
=============================================================================
