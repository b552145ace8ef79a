---------------------------- MODULE MCGpsCondor ----------------------------
(* Two threads ask for the time. *)
EXTENDS GpsCondor
CONSTANTS init_counter, other
TwoClients == {init_counter, other}
=============================================================================
