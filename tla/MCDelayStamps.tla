--------------------------- MODULE MCDelayStamps ---------------------------
(* A source, a relay and the sink, with clocks far apart, and a packet of   *)
(* the sensor application.  Filter f selects it by its addresses, h by its  *)
(* ports, g does not.                                                       *)
EXTENDS DelayStamps

MCOffset == [n \in Nodes |-> <<5, 0, 70>>[n]]
MCHeader == [p \in Packets |-> [da |-> 3, sa |-> 1, dp |-> 57, sp |-> 52]]
MCArgs == [f \in Filters |->
  CASE f = "f" -> [da |-> 3, sa |-> 1, dp |-> 57, sp |-> 0]
    [] f = "g" -> [da |-> 4, sa |-> 0, dp |-> 58, sp |-> 0]
    [] f = "h" -> [da |-> 6, sa |-> 0, dp |-> 52, sp |-> 57]]
MCInitial == <<"f", "g">>
=============================================================================
