----------------------------- MODULE DleFraming -----------------------------
(***************************************************************************)
(* lookup_packet of the Lassen driver: it finds a packet in the circular   *)
(* buffer and strips its framing in place.  The device frames a packet as  *)
(* DLE, the packet with every DLE doubled, DLE ETX; a packet's first byte  *)
(* (its identifier) is neither DLE nor ETX.                                *)
(*                                                                         *)
(* A behaviour is one call: on a buffer that starts anywhere and holds the *)
(* first bytes of a frame, or all of it and the first byte of the next; or *)
(* on a buffer whose first byte is the packet's, because init_gps came     *)
(* when the frame's DLE had just been sent and ignored.                    *)
(***************************************************************************)
EXTENDS Integers, Sequences, SequencesExt

CONSTANTS MSG_BUF_SIZE,   \* of the circular buffer
          MaxPayload      \* bound: bytes of a packet

ASSUME FramingAssumption ==
  MaxPayload \in Nat \ {0} /\ MSG_BUF_SIZE \in Nat /\ MSG_BUF_SIZE > 2 * MaxPayload + 3

Bytes == {"DLE", "ETX", "x", "y"}
Payloads == {p \in UNION {[1..n -> Bytes] : n \in 1..MaxPayload} :
               p[1] \notin {"DLE", "ETX"}}

Double(b) == IF b = "DLE" THEN <<b, b>> ELSE <<b>>

\* What the device sends for a packet, and the first byte of the next one.
Frame(p) == <<"DLE">> \o FlattenSeq([i \in DOMAIN p |-> Double(p[i])])
                      \o <<"DLE", "ETX">>
Stream(p) == Frame(p) \o <<"DLE">>

VARIABLES payload,    \* the packet the device sent
          missed,     \* bytes of Stream(payload) sent before init_gps: 0 or 1
          arrived,    \* bytes of Stream(payload) in the buffer
          buff_start, \* where they start
          msg_buf,
          pc,         \* "check", "scan", "strip", "shift", "done" or "exit"
          pos, origin, dle_count, packet_found,
          start, end  \* the call's two results

framingVars == <<payload, missed, arrived, buff_start, msg_buf, pc, pos, origin,
                 dle_count, packet_found, start, end>>

Index == 0..(MSG_BUF_SIZE - 1)
At(i) == msg_buf[i % MSG_BUF_SIZE]

\* The rest of the buffer holds what earlier packets left there: "x".
FramingInit ==
  /\ payload \in Payloads
  /\ missed \in {0, 1}
  /\ arrived \in 0..(Len(Stream(payload)) - missed)
  /\ buff_start \in Index
  /\ msg_buf = [i \in Index |->
                  LET k == (i - buff_start) % MSG_BUF_SIZE
                  IN  IF k < arrived THEN Stream(payload)[k + 1 + missed] ELSE "x"]
  /\ pc = "check" /\ pos = 0 /\ origin = 0 /\ dle_count = 0
  /\ packet_found = FALSE
  /\ start = buff_start /\ end = (buff_start + arrived) % MSG_BUF_SIZE

-----------------------------------------------------------------------------
\* Make the buffer linear; fewer than four bytes are no packet, and bytes that
\* do not start with a DLE end the program.
Check ==
  /\ pc = "check"
  /\ end' = IF end < start THEN end + MSG_BUF_SIZE ELSE end
  /\ pc' = IF end' - start < 4 THEN "done"
           ELSE IF At(start) = "DLE" THEN "scan" ELSE "exit"
  /\ pos' = start
  /\ UNCHANGED <<payload, missed, arrived, buff_start, msg_buf, origin, dle_count,
                 packet_found, start>>

\* Mutant: an ETX ends the packet after any DLE.
Ends_AnyDle(b) == b = "ETX" /\ dle_count > 0

\* An ETX ends the packet after an odd number of DLEs in a row.
Ends(b) == b = "ETX" /\ dle_count % 2 = 1

\* One byte of the search for the end.
Scan ==
  /\ pc = "scan" /\ pos < end /\ ~packet_found
  /\ dle_count' = IF At(pos) = "DLE" THEN dle_count + 1 ELSE 0
  /\ packet_found' = Ends(At(pos))
  /\ pos' = pos + 1
  /\ UNCHANGED <<payload, missed, arrived, buff_start, msg_buf, pc, origin, start, end>>

ScanEnds ==
  /\ pc = "scan" /\ (pos >= end \/ packet_found)
  /\ pc' = IF packet_found THEN "strip" ELSE "done"
  /\ UNCHANGED <<payload, missed, arrived, buff_start, msg_buf, pos, origin, dle_count,
                 packet_found, start, end>>

\* The packet's last byte will stand where the ETX is.
Strip ==
  /\ pc = "strip" /\ pc' = "shift"
  /\ end' = pos % MSG_BUF_SIZE
  /\ pos' = pos - 1 /\ origin' = pos - 3
  /\ UNCHANGED <<payload, missed, arrived, buff_start, msg_buf, dle_count,
                 packet_found, start>>

\* Mutant: the padding is copied too.
Skip_One == 1

\* How far to step back: over both bytes of a doubled DLE.  The byte was just
\* copied to pos, so origin is looked at after the copy.
Skip ==
  LET copied == [msg_buf EXCEPT ![pos % MSG_BUF_SIZE] = At(origin)]
  IN  IF /\ copied[origin % MSG_BUF_SIZE] = "DLE"
         /\ copied[(origin - 1) % MSG_BUF_SIZE] = "DLE"
      THEN 2 ELSE 1

\* One byte of the shift towards the end.
Shift ==
  /\ pc = "shift" /\ origin > start
  /\ msg_buf' = [msg_buf EXCEPT ![pos % MSG_BUF_SIZE] = At(origin)]
  /\ origin' = origin - Skip /\ pos' = pos - 1
  /\ UNCHANGED <<payload, missed, arrived, buff_start, pc, dle_count, packet_found,
                 start, end>>

\* Where the packet starts now.
ShiftEnds ==
  /\ pc = "shift" /\ origin <= start
  /\ start' = (pos + 1) % MSG_BUF_SIZE /\ pc' = "done"
  /\ UNCHANGED <<payload, missed, arrived, buff_start, msg_buf, pos, origin, dle_count,
                 packet_found, end>>

FramingNext == Check \/ Scan \/ ScanEnds \/ Strip \/ Shift \/ ShiftEnds

FramingSpec == FramingInit /\ [][FramingNext]_framingVars

-----------------------------------------------------------------------------
(* Properties.                                                             *)

\* The bytes from start to end, as process_msg reads them.
Result == [k \in 1..((end - start) % MSG_BUF_SIZE) |-> At(start + k - 1)]

\* A packet is reported exactly when its whole frame has arrived, a DLE ETX
\* inside the data notwithstanding, and the program is ended only over bytes
\* that do not start with a frame.
FoundWhenWhole ==
  /\ pc = "done" =>
       (packet_found <=> missed = 0 /\ arrived >= Len(Frame(payload)))
  /\ pc = "exit" => missed = 1

\* What is reported is the packet the device sent, whatever the place in the
\* buffer, and the next packet starts at end.
PayloadRestored ==
  pc = "done" /\ packet_found =>
    /\ Result = payload
    /\ (end - buff_start) % MSG_BUF_SIZE = Len(Frame(payload))
=============================================================================
