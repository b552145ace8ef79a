---------------------------- MODULE MCGpsLassen ----------------------------
(* Two threads that ask the Lassen driver for the time and one for the     *)
(* position.                                                               *)
EXTENDS GpsLassen
CONSTANTS t1, t2, p1
TwoTimes == {t1, t2}
OnePosition == {p1}
=============================================================================
