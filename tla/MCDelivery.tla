----------------------------- MODULE MCDelivery -----------------------------
(* One sensor node and the sink. *)
EXTENDS Delivery
CONSTANT node
OneNode == {node}
=============================================================================
