------------------------------ MODULE MCFpgaBus ------------------------------
(* Model-checking instances of FpgaBus: both tools on the bus.             *)
EXTENDS FpgaBus
CONSTANTS sdctl, xuartctl
BothTools == {sdctl, xuartctl}
=============================================================================
