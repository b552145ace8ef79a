---------------------------- MODULE MCCircBuffer ----------------------------
(* Model-checking instance of CircBuffer: the constants are in the cfg.    *)
EXTENDS CircBuffer
=============================================================================
