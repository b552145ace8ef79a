-------------------------- MODULE AggregateFrames --------------------------
(***************************************************************************)
(* Aggregated frames, as the aggregation interceptor sends and the         *)
(* deaggregation interceptor receives them.  A part is a sequence of       *)
(* packets, the latest pushed first: one packet, or the packets of an      *)
(* application level aggregate.  A network level aggregate is a sequence   *)
(* of parts, the latest pushed first; the other frames have a single part. *)
(***************************************************************************)
EXTENDS Integers, Sequences, SequencesExt

CONSTANT Stamp   \* per packet: its timestamp when it was first sent

Plain(p) == << [p |-> p, ts |-> Stamp[p]] >>
Frame(proto, parts) == [proto |-> proto, parts |-> parts, torn |-> FALSE]

PacketsIn(parts) == {pk.p : pk \in UNION {Range(part) : part \in Range(parts)}}

\* A decoder: the first packet has its own stamp, and every other one the
\* time from its own to that of the packet before it, for the parts of the
\* frame and for the packets in each part.
Chained(t, s) ==
  LET abs[k \in DOMAIN s] == IF k = 1 THEN t ELSE abs[k - 1] - s[k].ts IN abs
Decoded(frame) ==
  LET heads == [k \in DOMAIN frame.parts |-> frame.parts[k][1]]
      first == Chained(heads[1].ts, heads)
  IN  [k \in DOMAIN frame.parts |-> Chained(first[k], frame.parts[k])]

\* The stamps of all packets can be recovered from the frame.
Recoverable(frame) ==
  \A k \in DOMAIN frame.parts : \A j \in DOMAIN frame.parts[k] :
     Decoded(frame)[k][j] = Stamp[frame.parts[k][j].p]
=============================================================================
