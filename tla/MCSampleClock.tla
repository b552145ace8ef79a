---------------------------- MODULE MCSampleClock ----------------------------
(* Model-checking instance of SampleClock: the constants are in the cfg.   *)
EXTENDS SampleClock
=============================================================================
