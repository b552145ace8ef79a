--------------------------- MODULE MCAggregation ---------------------------
(* Both levels.  An application level buffer holds one packet, a network    *)
(* level one two plain packets or one aggregate.  The second forwarded      *)
(* packet shares its destination with the packets of this node, the first   *)
(* has its own.                                                             *)
EXTENDS Aggregation

MCDst == [p \in Packets |-> IF p = "f1" THEN "hub" ELSE "sink"]
MCStamp == [p \in Packets |-> CASE p = "a" -> 10 [] p = "b" -> 13
                                [] p = "f1" -> 40 [] p = "f2" -> 77]
MCBufferLen == [l \in Levels |-> IF l = "app" THEN 2 ELSE 5]
=============================================================================
