---------------------------- MODULE MCConversions ----------------------------
(***************************************************************************)
(* The two conversions of bytes, each as one behaviour from an arbitrary   *)
(* input: a sample through SampleCodec (bytes of one bit: all four         *)
(* readings of three bits), or a GPS packet through DleFraming (every      *)
(* packet of up to four bytes at every place of a small buffer).  While    *)
(* one of them runs the other rests on a fixed input.                      *)
(***************************************************************************)
EXTENDS SampleCodec, DleFraming

VARIABLE converting   \* "sample" or "packet"

vars == <<converting, codecVars, framingVars>>

Init ==
  \/ /\ converting = "sample"
     /\ payload = <<"x">> /\ missed = 0 /\ arrived = 0 /\ buff_start = 0
     /\ FramingInit /\ CodecInit
  \/ /\ converting = "packet"
     /\ adc = [c \in Channels |-> 0]
     /\ CodecInit /\ FramingInit

Next ==
  \/ converting = "sample" /\ CodecNext /\ UNCHANGED <<converting, framingVars>>
  \/ converting = "packet" /\ FramingNext /\ UNCHANGED <<converting, codecVars>>

Spec == Init /\ [][Next]_vars
=============================================================================
