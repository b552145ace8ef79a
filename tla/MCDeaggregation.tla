-------------------------- MODULE MCDeaggregation --------------------------
(* An array of three.  Frames as the aggregation interceptor sends them: one *)
(* with an aggregate inside, one of three packets, which fills the array,    *)
(* with one of them an aggregate of its own, and one of four, which does     *)
(* not fit.  A node that forwards for others pushes packets in any order of  *)
(* their stamps, as in the first frame.                                      *)
EXTENDS Deaggregation

MCStamp == [p \in 1..10 |-> p * p]

Pk(p, ts) == [p |-> p, ts |-> ts]
Mixed == Frame("ip", << <<Pk(2, 4)>>, <<Pk(3, -5), Pk(1, 8)>> >>)
Three == Frame("ip", << <<Pk(6, 36)>>, <<Pk(5, 11)>>, <<Pk(4, 9)>> >>)
Four == Frame("app", << <<Pk(10, 100), Pk(9, 19), Pk(8, 17), Pk(7, 15)>> >>)
MCFrames == {Mixed, Three, Four}

\* The stamps are in the frames as the aggregation interceptor writes them.
ASSUME FramesAssumption == \A f \in MCFrames : Recoverable(f)
=============================================================================
