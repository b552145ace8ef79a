--------------------------- MODULE DeliveryProofs ---------------------------
(***************************************************************************)
(* Proofs about the sender thread and the receiver, for any set of nodes   *)
(* and any bounds.  Loss is counted: every step keeps each sample that is  *)
(* somewhere between the ring buffer and the file, except for one sample   *)
(* in a step that is itself a failure (NodeCost, SinkCost), so the set of  *)
(* lost samples grows no faster than the count of failures.  The samples   *)
(* that go with a closed socket or to descriptor 0 are accounted for apart *)
(* (SpillNeedsFault).  Torn records are counted like the lost samples,     *)
(* with one to spare while a record is written.                            *)
(***************************************************************************)
EXTENDS Delivery, FiniteSetTheorems, TLAPS

\* What the file consists of.
Pieces == Punctuation \cup Record

\* A batch is empty outside of the for loop that sends it.
BatchSent == \A n \in Nodes : thread[n] # "send" => batch[n] = <<>>

\* A thread in main_loop's loop has an open socket: it is released only once the
\* thread has ended.
SocketHeld == \A n \in Nodes : thread[n] \in {"loop", "read", "send"} => socket[n] = "open"

\* The receiver holds a packet while it writes its record; the text already
\* written is the last piece of the file.
RecordAtHand ==
  /\ Unsettled => pkt \in Packets
  /\ rx = "separator" => written = 0
  /\ rx = "record" => written < RECLEN
  /\ rx = "record" /\ json_fd = "file" /\ written > 0 =>
       /\ Len(file) > 0
       /\ IsRecord(file[Len(file)])
       /\ file[Len(file)].rec = pkt
       /\ file[Len(file)].len = written

\* A packet that never left prepare_packet's hands is numbered as its sample.
Numbered(m) == m.seq = m.ts
NumbersKept ==
  /\ \A m \in net \cup rcvq : Numbered(m)
  /\ Unsettled => Numbered(pkt)
  /\ RecordsFaithful

\* Sample s of node n is in the ring, in the batch, on its way, queued at the
\* receiver, in its hands or in the output, or it was spilled.
Kept(n, s) ==
  LET m == Datagram(n, s)
  IN  \/ s \in Range(ring[n]) \/ s \in Range(batch[n])
      \/ m \in net \/ m \in rcvq \/ m \in dropped \/ m \in stray
      \/ Unsettled /\ pkt = m
      \/ Whole(m)

\* The samples taken, no longer anywhere and not spilled.
Lost == UNION {{n} \X (Missing(n) \ Spilled(n)) : n \in Nodes}

\* Samples are spilled by a failed open or by the end of the receiver.
SpillNeedsFault ==
  dropped # {} \/ stray # {} \/ json_fd = "stdin" => faults > 0

\* serve writes to the file or to descriptor 0.
FdOpen ==
  rx \in {"recvfrom", "separator", "record"} => json_fd \in {"file", "stdin"}

\* The records cut short.
Torn == {i \in Records : file[i].len < RECLEN}

\* One of them may be the record at hand.
Partial == IF rx = "record" /\ written > 0 /\ json_fd = "file" THEN 1 ELSE 0

LossBounded == IsFiniteSet(Lost) /\ Cardinality(Lost) <= faults
TornBounded == IsFiniteSet(Torn) /\ Cardinality(Torn) <= faults + Partial

Shape == TypeOK /\ BatchSent /\ SocketHeld /\ RecordAtHand
IInv ==
  Shape /\ NumbersKept /\ LossBounded /\ TornBounded /\ FdOpen /\ SpillNeedsFault

-----------------------------------------------------------------------------

\* Appending adds one element to the range.
LEMMA AppendRange ==
  ASSUME NEW S, NEW s \in Seq(S), NEW x \in S
  PROVE  \A y : y \in Range(Append(s, x)) <=> y \in Range(s) \/ y = x
  <1>1. DOMAIN s = 1..Len(s) /\ DOMAIN Append(s, x) = 1..(Len(s) + 1)
    OBVIOUS
  <1>2. \A i \in 1..Len(s) : Append(s, x)[i] = s[i]
    OBVIOUS
  <1>3. Append(s, x)[Len(s) + 1] = x
    OBVIOUS
  <1>4. Len(s) \in Nat
    OBVIOUS
  <1> QED BY <1>1, <1>2, <1>3, <1>4 DEF Range

\* Dropping the head of a sequence loses at most the head.
LEMMA TailRange ==
  ASSUME NEW S, NEW s \in Seq(S), s # <<>>
  PROVE  \A y : y \in Range(s) => y \in Range(Tail(s)) \/ y = Head(s)
  <1>1. DOMAIN s = 1..Len(s) /\ DOMAIN Tail(s) = 1..(Len(s) - 1) /\ Len(s) \in Nat
    OBVIOUS
  <1>2. \A i \in 1..(Len(s) - 1) : Tail(s)[i] = s[i + 1]
    OBVIOUS
  <1> SUFFICES ASSUME NEW i \in DOMAIN s
               PROVE  s[i] \in Range(Tail(s)) \/ s[i] = Head(s)
    BY DEF Range
  <1>3. CASE i = 1
    BY <1>3
  <1>4. CASE i # 1
    <2>1. i - 1 \in 1..(Len(s) - 1) /\ Tail(s)[i - 1] = s[i]
      BY <1>1, <1>2, <1>4
    <2> QED BY <2>1, <1>1 DEF Range
  <1> QED BY <1>3, <1>4

\* The two parts of a sequence that is not empty.
LEMMA HeadTailType ==
  ASSUME NEW S, NEW s \in Seq(S), s # <<>>
  PROVE  Tail(s) \in Seq(S) /\ Head(s) \in S
  OBVIOUS

\* A set with at most one element that a finite set has not.
LEMMA OneMore ==
  ASSUME NEW S, NEW T, NEW x, IsFiniteSet(S), T \subseteq S \cup {x}
  PROVE  /\ IsFiniteSet(T) /\ Cardinality(T) \in Nat
         /\ Cardinality(T) <= Cardinality(S) + 1
  <1>1. /\ IsFiniteSet(S \cup {x}) /\ Cardinality(S \cup {x}) \in Nat
        /\ Cardinality(S) \in Nat
        /\ Cardinality(S \cup {x}) <= Cardinality(S) + 1
    BY FS_AddElement, FS_CardinalityType
  <1>2. /\ IsFiniteSet(T) /\ Cardinality(T) \in Nat
        /\ Cardinality(T) <= Cardinality(S \cup {x})
    BY <1>1, FS_Subset, FS_CardinalityType
  <1> QED BY <1>1, <1>2

\* A piece is a record or punctuation, never both.
LEMMA PieceKind ==
  /\ \A p \in Record : IsRecord(p) /\ p.rec \in Packets /\ p.len \in 1..RECLEN
  /\ \A p \in Punctuation : ~IsRecord(p)
  /\ \A c \in {"{", ",", "nl"} : [mark |-> c] \in Punctuation
  /\ \A m \in Packets, k \in 1..RECLEN :
       LET p == [rec |-> m, len |-> k]
       IN  p \in Record /\ p.rec = m /\ p.len = k
  BY DEF Record, Punctuation, IsRecord

\* What a write does to the file: it appends a piece ...
LEMMA FileAppend ==
  ASSUME NEW f \in Seq(Pieces), NEW x \in Pieces
  PROVE  /\ Append(f, x) \in Seq(Pieces)
         /\ DOMAIN f = 1..Len(f)
         /\ DOMAIN Append(f, x) = 1..(Len(f) + 1)
         /\ Len(Append(f, x)) = Len(f) + 1
         /\ Len(f) \in Nat
         /\ \A i \in 1..Len(f) : Append(f, x)[i] = f[i]
         /\ Append(f, x)[Len(f) + 1] = x
  OBVIOUS

\* ... or lengthens the last one, a record.
LEMMA FileExtend ==
  ASSUME NEW f \in Seq(Pieces), NEW v \in 1..RECLEN,
         Len(f) > 0, IsRecord(f[Len(f)])
  PROVE  LET g == [f EXCEPT ![Len(f)].len = v]
         IN  /\ g \in Seq(Pieces)
             /\ Len(f) \in Nat
             /\ DOMAIN f = 1..Len(f)
             /\ DOMAIN g = 1..Len(f)
             /\ Len(g) = Len(f)
             /\ \A i \in 1..(Len(f) - 1) : g[i] = f[i]
             /\ IsRecord(g[Len(f)])
             /\ g[Len(f)].rec = f[Len(f)].rec
             /\ g[Len(f)].len = v
  <1> DEFINE l == Len(f)
             p == [f[l] EXCEPT !.len = v]
             g == [f EXCEPT ![l].len = v]
  <1>1. l \in Nat /\ l \in 1..l /\ DOMAIN f = 1..l
    OBVIOUS
  <1>2. f[l] \in Record
    <2>1. f[l] \in Pieces
      BY <1>1
    <2> QED BY <2>1, PieceKind DEF Pieces
  <1>3. p \in Record /\ p.rec = f[l].rec /\ p.len = v
    BY <1>2 DEF Record
  <1>4. p \in Pieces /\ IsRecord(p)
    BY <1>3, PieceKind DEF Pieces
  <1>5. g = [f EXCEPT ![l] = p]
    OBVIOUS
  <1>6. DOMAIN g = 1..l /\ g[l] = p /\ \A i \in 1..(l - 1) : g[i] = f[i]
    BY <1>1, <1>5
  <1>7. g \in [1..l -> Pieces]
    BY <1>1, <1>4, <1>5
  <1>8. g \in Seq(Pieces) /\ Len(g) = l
    BY <1>1, <1>7
  <1> QED BY <1>1, <1>3, <1>4, <1>6, <1>8

\* send_it's counter wraps within its bound.
LEMMA CounterWraps ==
  \A c \in 0..MaxSamples : (c + 1) % (MaxSamples + 1) \in 0..MaxSamples
  BY DeliveryAssumption

\* Nothing has happened yet.
LEMMA ShapeInit == Init => Shape
  <1> SUFFICES ASSUME Init PROVE Shape
    OBVIOUS
  <1>1. TypeOK
    <2>1. stop \in [Nodes -> BOOLEAN] /\ bound \in BOOLEAN
      BY Zenon DEF Init
    <2>2. loads \in [Nodes -> 1..MaxLoads]
      BY DeliveryAssumption DEF Init
    <2> QED BY <2>1, <2>2, DeliveryAssumption DEF Init, TypeOK
  <1> QED BY <1>1 DEF Init, Shape, BatchSent, SocketHeld, RecordAtHand, Unsettled

\* What the sensor node and the network do to the types.
LEMMA SenderType ==
  ASSUME TypeOK,
         \/ \E n \in Nodes : \/ TakeSample(n) \/ SenderStep(n)
                             \/ kthread_stop(n) \/ StopReturned(n) \/ init_module(n)
         \/ \E m \in net : Lose(m) \/ Arrive(m)
  PROVE  TypeOK'
  <1> USE DEF TypeOK, sendVars, recvVars, fileVars, GotoThread
  <1>0. Fault => faults' \in 0..MaxFaults
    BY DeliveryAssumption DEF Fault
  <1>1. ASSUME NEW n \in Nodes, TakeSample(n) PROVE TypeOK'
    <2>1. taken' \in [Nodes -> 0..MaxSamples]
      BY <1>1, DeliveryAssumption DEF TakeSample
    <2>2. Append(ring[n], taken[n]) \in Seq(0..MaxSamples)
      OBVIOUS
    <2>3. ring' \in [Nodes -> Seq(0..MaxSamples)]
      BY <1>1, <2>2 DEF TakeSample
    <2> QED BY <1>1, <2>1, <2>3 DEF TakeSample
  <1>2. ASSUME NEW n \in Nodes, CreateSocket(n) PROVE TypeOK'
    BY ZenonT(30), <1>0, <1>2 DEF CreateSocket, NoFault
  <1>3. ASSUME NEW n \in Nodes, CheckStop(n) PROVE TypeOK'
    BY <1>3 DEF CheckStop
  <1>4. ASSUME NEW n \in Nodes, ReadSamples(n) PROVE TypeOK'
    BY SMTT(30), <1>4 DEF ReadSamples
  <1>5. ASSUME NEW n \in Nodes, ReadNothing(n) PROVE TypeOK'
    BY <1>0, <1>5 DEF ReadNothing, NoFault
  <1>6. ASSUME NEW n \in Nodes, batch[n] # <<>> PROVE
               /\ Tail(batch[n]) \in Seq(0..MaxSamples)
               /\ Head(batch[n]) \in 0..MaxSamples
    <2>1. batch[n] \in Seq(0..MaxSamples)
      OBVIOUS
    <2> QED BY <1>6, <2>1, HeadTailType
  <1>7. ASSUME NEW n \in Nodes, send_it(n) PROVE TypeOK'
    <2>1. batch' \in [Nodes -> Seq(0..MaxSamples)]
      BY <1>6, <1>7 DEF send_it
    <2>2. seq' \in [Nodes -> 0..MaxSamples]
      <3>1. \/ seq' = seq
            \/ seq' = [seq EXCEPT ![n] = (@ + 1) % (MaxSamples + 1)]
        BY <1>7 DEF send_it
      <3>2. (seq[n] + 1) % (MaxSamples + 1) \in 0..MaxSamples
        BY CounterWraps
      <3>3. PICK c \in 0..MaxSamples : c = (seq[n] + 1) % (MaxSamples + 1)
        BY <3>2
      <3> QED BY <3>1, <3>3
    <2>3. prepare_packet(n, Head(batch[n]), seq[n]) \in Packets
      BY <1>6, <1>7 DEF send_it, prepare_packet, Packets
    <2>4. net' \subseteq Packets
      BY <1>7, <2>3 DEF send_it
    <2>5. thread' = thread \/ thread' = [thread EXCEPT ![n] = "oops"]
      BY <1>7 DEF send_it
    <2> QED BY <1>7, <2>1, <2>2, <2>4, <2>5 DEF send_it
  <1>8. ASSUME NEW n \in Nodes, PacketFails(n) PROVE TypeOK'
    <2>1. batch' \in [Nodes -> Seq(0..MaxSamples)]
      BY <1>6, <1>8 DEF PacketFails
    <2>2. seq' \in [Nodes -> 0..MaxSamples]
      BY <1>8, CounterWraps DEF PacketFails
    <2> QED BY <1>0, <1>8, <2>1, <2>2 DEF PacketFails
  <1>9. ASSUME NEW n \in Nodes, EndBatch(n) PROVE TypeOK'
    BY <1>9 DEF EndBatch
  <1>10. ASSUME NEW n \in Nodes, sock_release(n) PROVE TypeOK'
    BY <1>10 DEF sock_release
  <1>11. ASSUME NEW n \in Nodes, kthread_stop(n) PROVE TypeOK'
    <2>1. stop' \in [Nodes -> BOOLEAN]
      BY <1>11, Zenon DEF kthread_stop
    <2> QED BY <1>11, <2>1 DEF kthread_stop
  <1>12. ASSUME NEW n \in Nodes, init_module(n) PROVE TypeOK'
    <2>1. stop' \in [Nodes -> BOOLEAN]
      BY <1>12, Zenon DEF init_module
    <2>2. loads' \in [Nodes -> 1..MaxLoads]
      <3>1. loads[n] \in 1..MaxLoads /\ loads[n] < MaxLoads
        BY <1>12 DEF init_module
      <3>2. loads[n] + 1 \in 1..MaxLoads
        BY <3>1, DeliveryAssumption
      <3> QED BY <1>12, <3>2 DEF init_module
    <2>3. seq' \in [Nodes -> 0..MaxSamples]
      BY <1>12, DeliveryAssumption DEF init_module
    <2>4. faults' \in 0..MaxFaults
      BY <1>0, <1>12 DEF init_module, NoFault
    <2> QED BY <1>12, <2>1, <2>2, <2>3, <2>4 DEF init_module
  <1>13. ASSUME NEW m \in net, Lose(m) PROVE TypeOK'
    BY <1>0, <1>13 DEF Lose
  <1>14. ASSUME NEW m \in net, Arrive(m) PROVE TypeOK'
    BY <1>0, <1>14 DEF Arrive, NoFault
  <1>15. ASSUME NEW n \in Nodes, StopReturned(n) PROVE TypeOK'
    BY <1>15 DEF StopReturned
  <1> QED BY <1>1, <1>2, <1>3, <1>4, <1>5, <1>7, <1>8, <1>9, <1>10, <1>11,
             <1>12, <1>13, <1>14, <1>15 DEF SenderStep

\* The file after a turn of the write loop.
LEMMA WrittenFile ==
  ASSUME TypeOK, RecordAtHand, NEW k \in 1..RECLEN, write_json(k)
  PROVE  /\ written + k \in 1..RECLEN
         /\ k \in 1..RECLEN
         /\ pkt \in Packets
         /\ file \in Seq(Pieces) /\ file' \in Seq(Pieces)
         /\ json_fd = "file" /\ written = 0 =>
              /\ [rec |-> pkt, len |-> k] \in Pieces
              /\ file' = Append(file, [rec |-> pkt, len |-> k])
         /\ json_fd = "file" /\ written > 0 =>
              /\ Len(file) > 0 /\ IsRecord(file[Len(file)])
              /\ file[Len(file)].rec = pkt
              /\ file[Len(file)].len = written
              /\ file' = [file EXCEPT ![Len(file)].len = written + k]
         /\ json_fd # "file" => file' = file /\ stray' = stray \cup {pkt}
         /\ json_fd = "file" => stray' = stray
  <1>1. written + k \in 1..RECLEN /\ written \in 0..RECLEN
    BY DeliveryAssumption DEF write_json, TypeOK
  <1>2. pkt \in Packets /\ rx = "record"
    BY DEF write_json, RecordAtHand, Unsettled
  <1>3. [rec |-> pkt, len |-> k] \in Pieces
    BY <1>2, PieceKind DEF Pieces
  <1>4. file \in Seq(Pieces)
    BY DEF TypeOK, Pieces
  <1>5. CASE json_fd = "file" /\ written = 0
    <2>1. file' = Append(file, [rec |-> pkt, len |-> k]) /\ stray' = stray
      BY <1>5 DEF write_json, WithBytes
    <2>2. file' \in Seq(Pieces)
      BY <1>3, <1>4, <2>1, FileAppend
    <2> QED BY <1>1, <1>2, <1>3, <1>4, <1>5, <2>1, <2>2
  <1>6. CASE json_fd = "file" /\ written > 0
    <2>1. /\ file' = [file EXCEPT ![Len(file)].len = written + k]
          /\ stray' = stray
      BY <1>6, <1>1 DEF write_json, WithBytes
    <2>2. /\ Len(file) > 0 /\ IsRecord(file[Len(file)])
          /\ file[Len(file)].rec = pkt
          /\ file[Len(file)].len = written
      BY <1>2, <1>6 DEF RecordAtHand
    <2>3. file' \in Seq(Pieces)
      BY <1>1, <1>4, <2>1, <2>2, FileExtend
    <2> QED BY <1>1, <1>2, <1>4, <1>6, <2>1, <2>2, <2>3
  <1>7. CASE json_fd # "file"
    BY <1>1, <1>2, <1>4, <1>7 DEF write_json
  <1> QED BY <1>1, <1>5, <1>6, <1>7

\* What the receiver does to the types.
LEMMA ReceiverType ==
  ASSUME Shape, ReceiverStep \/ RecvFails \/ cleanup \/ main
  PROVE  TypeOK'
  <1> USE DEF Shape, TypeOK, sendVars, recvVars, fileVars, GotoRx
  <1>0. Fault => faults' \in 0..MaxFaults
    BY DeliveryAssumption DEF Fault
  <1>1. CASE bind_socket
    <2>1. bound' \in BOOLEAN
      BY <1>1, Zenon DEF bind_socket
    <2> QED BY <1>0, <1>1, <2>1 DEF bind_socket, NoFault
  <1>2. CASE open_output_files
    <2>1. Append(file, [mark |-> "{"]) \in Seq(Pieces)
      BY PieceKind, FileAppend DEF Pieces
    <2>2. file' \in Seq(Pieces)
      BY <1>2, <2>1 DEF open_output_files, Pieces
    <2> QED BY <1>0, <1>2, <2>2 DEF open_output_files, NoFault, Pieces
  <1>3. CASE WriteSeparator
    <2>1. Append(file, [mark |-> IF first = 0 THEN "," ELSE "nl"]) \in Seq(Pieces)
      BY PieceKind, FileAppend DEF Pieces
    <2>2. file' \in Seq(Pieces)
      BY <1>3, <2>1 DEF WriteSeparator, Pieces
    <2> QED BY <1>0, <1>3, <2>2 DEF WriteSeparator, NoFault, Pieces
  <1>4. ASSUME NEW k \in 1..RECLEN, write_json(k) PROVE TypeOK'
    <2>1. file' \in Seq(Pieces) /\ written + k \in 1..RECLEN
      BY <1>4, WrittenFile
    <2>2. written' \in 0..RECLEN
      BY <1>4, <2>1 DEF write_json
    <2>3. stray' \subseteq Packets
      BY <1>4, WrittenFile DEF write_json
    <2> QED BY <1>4, <2>1, <2>2, <2>3 DEF write_json, Pieces
  <1>5. CASE WriteFails
    BY <1>0, <1>5 DEF WriteFails
  <1>6. ASSUME NEW m \in rcvq, recvfrom(m) PROVE TypeOK'
    BY <1>0, <1>6, DeliveryAssumption DEF recvfrom, NoFault
  <1>7. CASE RecvFails
    <2>1. bound' \in BOOLEAN
      BY <1>7, Zenon DEF RecvFails, CloseAll
    <2> QED BY <1>0, <1>7, <2>1 DEF RecvFails, CloseAll
  <1>8. CASE cleanup
    <2>1. bound' \in BOOLEAN
      BY <1>8, Zenon DEF cleanup, CloseAll
    <2> QED BY <1>0, <1>8, <2>1 DEF cleanup, CloseAll
  <1>9. CASE main
    BY <1>9 DEF main
  <1> QED BY <1>1, <1>2, <1>3, <1>4, <1>5, <1>6, <1>7, <1>8, <1>9 DEF ReceiverStep

\* The steps of the sensor nodes and the network, and those of the receiver.
NodeStep ==
  \/ \E n \in Nodes : \/ TakeSample(n) \/ SenderStep(n)
                      \/ kthread_stop(n) \/ StopReturned(n) \/ init_module(n)
  \/ \E m \in net : Lose(m) \/ Arrive(m)

SinkStep == ReceiverStep \/ RecvFails \/ cleanup \/ main

\* The sensor nodes and the network touch no variable of the receiver but the
\* queue of its socket, the receiver none of the nodes.
LEMMA Separation ==
  /\ NodeStep => UNCHANGED <<rx, json_fd, bound, dropped, fileVars>>
  /\ SinkStep => UNCHANGED <<taken, ring, sendVars>>
  /\ Next <=> NodeStep \/ SinkStep
  <1>1. NodeStep => UNCHANGED <<rx, json_fd, bound, dropped, fileVars>>
    BY DEF NodeStep, SenderStep, TakeSample, CreateSocket, CheckStop,
       ReadSamples, ReadNothing, send_it, PacketFails, EndBatch, sock_release,
       kthread_stop, StopReturned, init_module, Lose, Arrive, recvVars
  <1>2. SinkStep => UNCHANGED <<taken, ring, sendVars>>
    BY DEF SinkStep, ReceiverStep, bind_socket, open_output_files,
       WriteSeparator, write_json, WriteFails, recvfrom, RecvFails, cleanup, CloseAll, main
  <1> QED BY <1>1, <1>2 DEF Next, NodeStep, SinkStep

\* Batches are sent to the end, and only write_json touches a record's text.
LEMMA ShapeStep == Shape /\ [Next]_vars => Shape'
  <1> SUFFICES ASSUME Shape, [Next]_vars PROVE Shape'
    OBVIOUS
  <1>1. CASE NodeStep
    <2>1. TypeOK'
      BY <1>1, SenderType DEF Shape, NodeStep
    <2>2. RecordAtHand'
      BY <1>1, Separation DEF Shape, RecordAtHand, Unsettled, fileVars
    <2>3. BatchSent'
      <3> USE DEF Shape, TypeOK, BatchSent, GotoThread, sendVars
      <3>1. ASSUME NEW n \in Nodes, TakeSample(n) PROVE BatchSent'
        BY <3>1 DEF TakeSample
      <3>2. ASSUME NEW n \in Nodes, CreateSocket(n) PROVE BatchSent'
        BY <3>2 DEF CreateSocket
      <3>3. ASSUME NEW n \in Nodes, CheckStop(n) PROVE BatchSent'
        BY <3>3 DEF CheckStop
      <3>4. ASSUME NEW n \in Nodes, ReadSamples(n) PROVE BatchSent'
        BY <3>4 DEF ReadSamples
      <3>5. ASSUME NEW n \in Nodes, ReadNothing(n) PROVE BatchSent'
        BY <3>5 DEF ReadNothing
      <3>6. ASSUME NEW n \in Nodes, send_it(n) PROVE BatchSent'
        <4>1. thread[n] = "send" /\ socket[n] = "open"
          BY <3>6 DEF send_it, SocketHeld
        <4> QED BY <3>6, <4>1 DEF send_it
      <3>7. ASSUME NEW n \in Nodes, PacketFails(n) PROVE BatchSent'
        BY <3>7 DEF PacketFails
      <3>8. ASSUME NEW n \in Nodes, EndBatch(n) PROVE BatchSent'
        BY <3>8 DEF EndBatch
      <3>9. ASSUME NEW n \in Nodes, sock_release(n) PROVE BatchSent'
        BY <3>9 DEF sock_release
      <3>10. ASSUME NEW n \in Nodes, kthread_stop(n) PROVE BatchSent'
        BY <3>10 DEF kthread_stop
      <3>11. ASSUME NEW n \in Nodes, init_module(n) PROVE BatchSent'
        BY <3>11 DEF init_module
      <3>12. ASSUME NEW m \in net, Lose(m) PROVE BatchSent'
        BY <3>12 DEF Lose
      <3>13. ASSUME NEW m \in net, Arrive(m) PROVE BatchSent'
        BY <3>13 DEF Arrive
      <3>14. ASSUME NEW n \in Nodes, StopReturned(n) PROVE BatchSent'
        BY <3>14 DEF StopReturned
      <3> QED BY <1>1, <3>1, <3>2, <3>3, <3>4, <3>5, <3>6, <3>7, <3>8, <3>9,
                 <3>10, <3>11, <3>12, <3>13, <3>14 DEF NodeStep, SenderStep
    <2>4. SocketHeld'
      <3> USE DEF Shape, TypeOK, SocketHeld, GotoThread, sendVars
      <3>1. ASSUME NEW n \in Nodes, CreateSocket(n) PROVE SocketHeld'
        BY <3>1 DEF CreateSocket
      <3>2. ASSUME NEW n \in Nodes, CheckStop(n) PROVE SocketHeld'
        BY <3>2 DEF CheckStop
      <3>3. ASSUME NEW n \in Nodes, ReadSamples(n) \/ ReadNothing(n) \/ EndBatch(n)
            PROVE  SocketHeld'
        BY <3>3 DEF ReadSamples, ReadNothing, EndBatch
      <3>4. ASSUME NEW n \in Nodes, send_it(n) PROVE SocketHeld'
        BY <3>4 DEF send_it
      <3>5. ASSUME NEW n \in Nodes, sock_release(n) PROVE SocketHeld'
        BY <3>5 DEF sock_release
      <3>6. ASSUME NEW n \in Nodes, StopReturned(n) PROVE SocketHeld'
        BY <3>6 DEF StopReturned
      <3>7. ASSUME NEW n \in Nodes, init_module(n) PROVE SocketHeld'
        BY <3>7 DEF init_module
      <3>8. ASSUME NEW n \in Nodes, TakeSample(n) \/ PacketFails(n) \/ kthread_stop(n)
            PROVE  SocketHeld'
        BY <3>8 DEF TakeSample, PacketFails, kthread_stop
      <3>9. ASSUME NEW m \in net, Lose(m) \/ Arrive(m) PROVE SocketHeld'
        BY <3>9 DEF Lose, Arrive
      <3> QED BY <1>1, <3>1, <3>2, <3>3, <3>4, <3>5, <3>6, <3>7, <3>8, <3>9
              DEF NodeStep, SenderStep
    <2> QED BY <2>1, <2>2, <2>3, <2>4 DEF Shape
  <1>2. CASE SinkStep
    <2>1. TypeOK'
      BY <1>2, ReceiverType DEF SinkStep
    <2>2. BatchSent' /\ SocketHeld'
      BY <1>2, Separation DEF Shape, BatchSent, SocketHeld, sendVars
    <2>3. RecordAtHand'
      <3> USE DEF Shape, RecordAtHand, Unsettled, GotoRx
      <3>1. CASE bind_socket
        BY <3>1 DEF bind_socket
      <3>2. CASE open_output_files
        BY <3>2 DEF open_output_files
      <3>3. CASE WriteSeparator
        <4>1. written' = 0 /\ rx' = "record" /\ pkt' \in Packets
          BY <3>3 DEF WriteSeparator
        <4> QED BY <4>1, DeliveryAssumption
      <3>4. ASSUME NEW k \in 1..RECLEN, write_json(k) PROVE RecordAtHand'
        <4>1. /\ written' = written + k /\ written + k \in 1..RECLEN
              /\ rx = "record" /\ json_fd' = json_fd /\ pkt' = pkt
              /\ rx' = IF written' = RECLEN THEN "recvfrom" ELSE "record"
              /\ pkt \in Packets /\ written \in 0..RECLEN
              /\ file \in Seq(Pieces)
          BY <3>4, WrittenFile DEF write_json, TypeOK
        <4>2. CASE json_fd # "file" \/ written' = RECLEN
          BY <4>1, <4>2, DeliveryAssumption
        <4>3. CASE json_fd = "file" /\ written = 0 /\ written' # RECLEN
          <5>1. /\ [rec |-> pkt, len |-> k] \in Pieces
                /\ file' = Append(file, [rec |-> pkt, len |-> k])
            BY <3>4, <4>3, WrittenFile
          <5>2. Len(file') = Len(file) + 1 /\ Len(file) \in Nat
                /\ file'[Len(file) + 1] = [rec |-> pkt, len |-> k]
            BY <4>1, <5>1, FileAppend
          <5>3. IsRecord(file'[Len(file')])
            <6>1. IsRecord([rec |-> pkt, len |-> k])
              BY DEF IsRecord
            <6> QED BY <5>2, <6>1
          <5> QED BY <4>1, <4>3, <5>2, <5>3, DeliveryAssumption
        <4>4. CASE json_fd = "file" /\ written > 0 /\ written' # RECLEN
          <5>1. /\ Len(file) > 0 /\ IsRecord(file[Len(file)])
                /\ file[Len(file)].rec = pkt
                /\ file' = [file EXCEPT ![Len(file)].len = written + k]
            BY <3>4, <4>4, WrittenFile
          <5>2. /\ Len(file') = Len(file) /\ IsRecord(file'[Len(file)])
                /\ file'[Len(file)].rec = pkt
                /\ file'[Len(file)].len = written + k
            BY <4>1, <5>1, FileExtend
          <5> QED BY <4>1, <4>4, <5>1, <5>2, DeliveryAssumption
        <4> QED BY <4>1, <4>2, <4>3, <4>4
      <3>5. CASE WriteFails
        BY <3>5 DEF WriteFails
      <3>6. ASSUME NEW m \in rcvq, recvfrom(m) PROVE RecordAtHand'
        BY <3>6 DEF recvfrom, TypeOK
      <3>7. CASE RecvFails
        BY <3>7 DEF RecvFails, CloseAll
      <3>8. CASE cleanup
        BY <3>8 DEF cleanup, CloseAll
      <3>9. CASE main
        BY <3>9 DEF main
      <3> QED BY <1>2, <3>1, <3>2, <3>3, <3>4, <3>5, <3>6, <3>7, <3>8, <3>9
              DEF SinkStep, ReceiverStep
    <2> QED BY <2>1, <2>2, <2>3 DEF Shape
  <1>3. CASE UNCHANGED vars
    BY <1>3 DEF vars, sendVars, recvVars, fileVars, Shape, TypeOK, BatchSent,
                SocketHeld,                RecordAtHand, Unsettled
  <1> QED BY <1>1, <1>2, <1>3, Separation

\* The pieces of the file after a step: those of before, possibly followed by a
\* new one, or with the last one lengthened by a record's next bytes.
FileAppended(x) == x \in Pieces /\ file' = Append(file, x)
FileExtended(k) ==
  /\ Len(file) > 0 /\ IsRecord(file[Len(file)]) /\ file[Len(file)].rec = pkt
  /\ file[Len(file)].len = written /\ written + k \in 1..RECLEN
  /\ file' = [file EXCEPT ![Len(file)].len = written + k]

\* Appending leaves the other pieces alone.
LEMMA AppendedRecords ==
  ASSUME TypeOK, NEW x, FileAppended(x)
  PROVE  /\ Records' = Records \cup (IF IsRecord(x) THEN {Len(file) + 1} ELSE {})
         /\ Len(file) + 1 \notin Records
         /\ Records \subseteq 1..Len(file) /\ Len(file) \in Nat
         /\ \A i \in Records : file'[i] = file[i]
         /\ file'[Len(file) + 1] = x
  <1>1. file \in Seq(Pieces)
    BY DEF TypeOK, Pieces
  <1>2. /\ DOMAIN file = 1..Len(file) /\ DOMAIN file' = 1..(Len(file) + 1)
        /\ Len(file) \in Nat
        /\ \A i \in 1..Len(file) : file'[i] = file[i]
        /\ file'[Len(file) + 1] = x
    BY <1>1, FileAppend DEF FileAppended
  <1> QED BY <1>2 DEF Records

\* Lengthening the last record leaves the other pieces alone.
LEMMA ExtendedRecords ==
  ASSUME TypeOK, NEW k, FileExtended(k)
  PROVE  /\ Records' = Records /\ Len(file) \in Records
         /\ Records \subseteq 1..Len(file) /\ Len(file) \in Nat
         /\ \A i \in Records \ {Len(file)} : file'[i] = file[i]
         /\ file'[Len(file)].rec = pkt
         /\ file'[Len(file)].len = written + k
  <1>1. file \in Seq(Pieces)
    BY DEF TypeOK, Pieces
  <1>2. /\ DOMAIN file = 1..Len(file) /\ DOMAIN file' = 1..Len(file)
        /\ Len(file) \in Nat
        /\ \A i \in 1..(Len(file) - 1) : file'[i] = file[i]
        /\ IsRecord(file'[Len(file)])
        /\ file'[Len(file)].rec = file[Len(file)].rec
        /\ file'[Len(file)].len = written + k
    BY <1>1, FileExtend DEF FileExtended
  <1>3. Len(file) \in 1..Len(file)
    BY <1>2 DEF FileExtended
  <1>4. \A i \in 1..Len(file) : i = Len(file) \/ i \in 1..(Len(file) - 1)
    <2>1. PICK l \in Nat : l = Len(file)
      BY <1>2
    <2>2. \A i \in 1..l : i = l \/ i \in 1..(l - 1)
      OBVIOUS
    <2> QED BY <2>1, <2>2
  <1>5. \A i \in 1..Len(file) : IsRecord(file'[i]) <=> IsRecord(file[i])
    BY <1>2, <1>4 DEF FileExtended
  <1>6. Records' = Records /\ Len(file) \in Records /\ Records \subseteq 1..Len(file)
    BY <1>2, <1>3, <1>5 DEF Records, FileExtended
  <1> QED BY <1>2, <1>4, <1>6 DEF FileExtended

\* Every step does one of the three to the file.
LEMMA FileSteps ==
  ASSUME Shape, Next
  PROVE  \/ file' = file
         \/ \E x : FileAppended(x) /\ ~IsRecord(x) /\ rx # "record"
         \/ \E k \in 1..RECLEN :
              /\ write_json(k) /\ json_fd = "file"
              /\ \/ written = 0 /\ FileAppended([rec |-> pkt, len |-> k])
                 \/ written > 0 /\ FileExtended(k)
  <1>1. CASE NodeStep
    BY <1>1, Separation DEF fileVars
  <1>2. CASE open_output_files
    <2>1. [mark |-> "{"] \in Pieces /\ ~IsRecord([mark |-> "{"])
      BY PieceKind DEF Pieces
    <2> QED BY <1>2, <2>1 DEF open_output_files, FileAppended, GotoRx
  <1>3. CASE WriteSeparator
    <2> DEFINE x == [mark |-> IF first = 0 THEN "," ELSE "nl"]
    <2>1. x \in Pieces /\ ~IsRecord(x)
      BY PieceKind DEF Pieces
    <2>2. /\ rx = "separator" /\ rx' = "record"
          /\ file' = file \/ file' = Append(file, x)
      BY <1>3 DEF WriteSeparator, GotoRx
    <2> QED BY <2>1, <2>2 DEF FileAppended
  <1>4. ASSUME NEW k \in 1..RECLEN, write_json(k)
        PROVE  \/ file' = file
               \/ /\ json_fd = "file"
                  /\ \/ written = 0 /\ FileAppended([rec |-> pkt, len |-> k])
                     \/ written > 0 /\ FileExtended(k)
    <2>1. written \in 0..RECLEN
      BY DEF Shape, TypeOK
    <2>2. CASE json_fd # "file"
      BY <1>4, <2>2, WrittenFile DEF Shape
    <2>3. CASE json_fd = "file" /\ written = 0
      BY <1>4, <2>3, WrittenFile DEF Shape, FileAppended
    <2>4. CASE json_fd = "file" /\ written > 0
      BY <1>4, <2>4, WrittenFile DEF Shape, FileExtended
    <2> QED BY <2>1, <2>2, <2>3, <2>4
  <1>5. CASE bind_socket \/ WriteFails \/ RecvFails \/ cleanup \/ main
    BY <1>5 DEF bind_socket, WriteFails, RecvFails, cleanup, CloseAll, main, fileVars
  <1>6. ASSUME NEW m \in rcvq, recvfrom(m) PROVE file' = file
    BY <1>6 DEF recvfrom
  <1> QED BY <1>1, <1>2, <1>3, <1>4, <1>5, <1>6, Separation
          DEF SinkStep, ReceiverStep

-----------------------------------------------------------------------------
\* Every packet is made by prepare_packet, and a record's text is its packet's.
LEMMA NumbersStep == Shape /\ NumbersKept /\ [Next]_vars => NumbersKept'
  <1> SUFFICES ASSUME Shape, NumbersKept, Next PROVE NumbersKept'
    BY DEF vars, recvVars, fileVars, NumbersKept, Unsettled, Numbered, RecordsFaithful,
           Records
  <1>1. \A m \in net' \cup rcvq' : Numbered(m)
    <2>1. ASSUME NEW n \in Nodes, send_it(n)
          PROVE  \A m \in net' \cup rcvq' : Numbered(m)
      <3>1. Numbered(prepare_packet(n, Head(batch[n]), seq[n]))
        BY DEF prepare_packet, Numbered
      <3> QED BY <2>1, <3>1 DEF send_it, recvVars, NumbersKept
    <2>2. \/ net' \cup rcvq' \subseteq net \cup rcvq
          \/ \E n \in Nodes : send_it(n)
      <3>1. CASE NodeStep
        BY <3>1 DEF NodeStep, SenderStep, TakeSample, CreateSocket, CheckStop,
           ReadSamples, ReadNothing, PacketFails, EndBatch, sock_release,
           kthread_stop, StopReturned, init_module, Lose, Arrive, recvVars
      <3>2. CASE SinkStep
        BY <3>2 DEF SinkStep, ReceiverStep, bind_socket, open_output_files,
           WriteSeparator, write_json, WriteFails, recvfrom, RecvFails, cleanup,
           CloseAll, main
      <3> QED BY <3>1, <3>2, Separation
    <2> QED BY <2>1, <2>2 DEF NumbersKept
  <1>2. Unsettled' => Numbered(pkt')
    <2>1. CASE NodeStep
      BY <2>1, Separation DEF fileVars, NumbersKept, Unsettled
    <2>2. ASSUME NEW m \in rcvq, recvfrom(m) PROVE Numbered(pkt')
      BY <2>2 DEF recvfrom, NumbersKept
    <2>3. CASE SinkStep /\ ~\E m \in rcvq : recvfrom(m)
      BY <2>3 DEF SinkStep, ReceiverStep, bind_socket, GotoRx, Unsettled,
         open_output_files, WriteSeparator, write_json, WriteFails,
         RecvFails, cleanup, CloseAll, main, NumbersKept
    <2> QED BY <2>1, <2>2, <2>3, Separation
  <1>3. RecordsFaithful'
    <2>0. RecordsFaithful /\ TypeOK
      BY DEF NumbersKept, Shape
    <2>1. CASE file' = file
      BY <2>0, <2>1 DEF RecordsFaithful, Records
    <2>2. ASSUME NEW x, FileAppended(x), ~IsRecord(x) PROVE RecordsFaithful'
      <3>1. Records' = Records /\ \A i \in Records : file'[i] = file[i]
        BY <2>0, <2>2, AppendedRecords
      <3> QED BY <2>0, <3>1 DEF RecordsFaithful
    <2>3. ASSUME NEW k \in 1..RECLEN, write_json(k) PROVE pkt.seq = pkt.ts
      BY <2>3 DEF write_json, NumbersKept, Unsettled, Numbered
    <2>4. ASSUME NEW k \in 1..RECLEN, write_json(k),
                 FileAppended([rec |-> pkt, len |-> k])
          PROVE  RecordsFaithful'
      <3>1. /\ Records' \subseteq Records \cup {Len(file) + 1}
            /\ \A i \in Records : file'[i] = file[i]
            /\ file'[Len(file) + 1] = [rec |-> pkt, len |-> k]
        BY <2>0, <2>4, AppendedRecords
      <3>2. file'[Len(file) + 1].rec = pkt
        BY <3>1
      <3> QED BY <2>0, <2>3, <2>4, <3>1, <3>2 DEF RecordsFaithful
    <2>5. ASSUME NEW k \in 1..RECLEN, write_json(k), FileExtended(k)
          PROVE  RecordsFaithful'
      <3>1. /\ Records' = Records
            /\ \A i \in Records \ {Len(file)} : file'[i] = file[i]
            /\ file'[Len(file)].rec = pkt
        BY <2>0, <2>5, ExtendedRecords
      <3> QED BY <2>0, <2>3, <2>5, <3>1 DEF RecordsFaithful
    <2> QED BY <2>1, <2>2, <2>4, <2>5, FileSteps
  <1> QED BY <1>1, <1>2, <1>3 DEF NumbersKept

\* A step that is not a write leaves no torn record behind without a failure.
LEMMA PartialStep ==
  ASSUME Shape, Next
  PROVE  \/ faults \in Nat /\ faults' \in Nat /\ faults + Partial <= faults' + Partial'
         \/ \E k \in 1..RECLEN : write_json(k)
  <1>1. faults \in Nat
    BY DeliveryAssumption DEF Shape, TypeOK
  <1>2. CASE NodeStep
    <2>1. Partial' = Partial /\ Partial \in Nat
      BY <1>2, Separation DEF Partial, fileVars
    <2>2. faults' = faults \/ faults' = faults + 1
      BY <1>2 DEF NodeStep, SenderStep, TakeSample, CreateSocket, CheckStop,
       ReadSamples, ReadNothing, send_it, PacketFails, EndBatch, sock_release,
       kthread_stop, StopReturned, init_module, Lose, Arrive, Fault, NoFault
    <2> QED BY <1>1, <2>1, <2>2
  <1>3. CASE bind_socket \/ open_output_files \/ RecvFails \/ main
             \/ (\E m \in rcvq : recvfrom(m))
    <2>1. Partial' = 0 /\ Partial = 0
      BY <1>3 DEF Partial, GotoRx, bind_socket, open_output_files, RecvFails, CloseAll,
         main, recvfrom
    <2>2. faults' = faults \/ faults' = faults + 1
      BY <1>3 DEF bind_socket, open_output_files, RecvFails, CloseAll, main, recvfrom,
         Fault, NoFault
    <2> QED BY <1>1, <2>1, <2>2
  <1>4. CASE WriteSeparator
    <2>1. Partial' = 0 /\ Partial = 0
      <3>1. written = 0 /\ written' = 0 /\ rx = "separator"
        BY <1>4 DEF WriteSeparator, GotoRx, Shape, RecordAtHand
      <3> QED BY <3>1 DEF Partial
    <2>2. faults' = faults \/ faults' = faults + 1
      BY <1>4 DEF WriteSeparator, Fault, NoFault
    <2> QED BY <1>1, <2>1, <2>2
  <1>5. CASE WriteFails \/ cleanup
    <2>1. Partial' = 0 /\ Partial \in {0, 1}
      BY <1>5 DEF Partial, WriteFails, cleanup, CloseAll, GotoRx
    <2>2. faults' = faults + 1
      BY <1>5 DEF WriteFails, cleanup, CloseAll, Fault
    <2> QED BY <1>1, <2>1, <2>2
  <1> QED BY <1>2, <1>3, <1>4, <1>5, Separation DEF SinkStep, ReceiverStep

\* A write opens at most one torn record, and completes the one it opened.
LEMMA TornStep == Shape /\ TornBounded /\ [Next]_vars => TornBounded'
  <1> SUFFICES ASSUME Shape, TornBounded, Next PROVE TornBounded'
    BY DEF vars, recvVars, fileVars, TornBounded, Torn, Records, Partial
  <1>0. /\ TypeOK /\ IsFiniteSet(Torn) /\ Cardinality(Torn) \in Nat
        /\ Cardinality(Torn) <= faults + Partial /\ faults \in Nat
    BY FS_CardinalityType, DeliveryAssumption DEF TornBounded, Shape, TypeOK
  <1>1. CASE ~\E k \in 1..RECLEN : write_json(k)
    <2>1. Torn' = Torn
      <3>1. CASE file' = file
        BY <3>1 DEF Torn, Records
      <3>2. ASSUME NEW x, FileAppended(x), ~IsRecord(x) PROVE Torn' = Torn
        <4>1. Records' = Records /\ \A i \in Records : file'[i] = file[i]
          BY <1>0, <3>2, AppendedRecords
        <4> QED BY <4>1 DEF Torn
      <3> QED BY <1>1, <3>1, <3>2, FileSteps
    <2>2. faults + Partial <= faults' + Partial' /\ faults' \in Nat
      BY <1>1, PartialStep
    <2>3. Partial \in Nat /\ Partial' \in Nat
      BY DEF Partial
    <2>4. PICK c \in Nat : c = Cardinality(Torn)
      BY <1>0
    <2>5. PICK p \in Nat : p = Partial
      BY <2>3
    <2>6. PICK q \in Nat : q = Partial'
      BY <2>3
    <2>7. c <= faults' + q
      <3>1. c <= faults + p /\ faults \in Nat
        BY <1>0, <2>4, <2>5
      <3>2. faults + p <= faults' + q /\ faults' \in Nat
        BY <2>2, <2>5, <2>6
      <3>3. \A a, b \in Nat : c <= a + p /\ a + p <= b + q => c <= b + q
        OBVIOUS
      <3> QED BY <3>1, <3>2, <3>3
    <2> QED BY <1>0, <2>1, <2>4, <2>6, <2>7 DEF TornBounded
  <1>2. ASSUME NEW k \in 1..RECLEN, write_json(k) PROVE TornBounded'
    <2>1. /\ rx = "record" /\ faults' = faults /\ json_fd' = json_fd
          /\ written' = written + k /\ written \in Nat /\ k \in Nat /\ k > 0
          /\ rx' = IF written' = RECLEN THEN "recvfrom" ELSE "record"
          /\ written' \in 1..RECLEN /\ RECLEN \in Nat
      BY <1>0, <1>2, WrittenFile, DeliveryAssumption, SMTT(30)
        DEF write_json, TypeOK, Shape
    <2>2. CASE file' = file /\ json_fd # "file"
      <3>1. Torn' = Torn /\ Partial = 0 /\ Partial' = 0
        BY <2>1, <2>2 DEF Torn, Records, Partial
      <3> QED BY <1>0, <2>1, <3>1 DEF TornBounded
    <2>3. CASE json_fd = "file" /\ written = 0 /\ FileAppended([rec |-> pkt, len |-> k])
      <3>1. /\ Records' \subseteq Records \cup {Len(file) + 1}
            /\ Records \subseteq Records'
            /\ \A i \in Records : file'[i] = file[i]
            /\ file'[Len(file) + 1] = [rec |-> pkt, len |-> k]
        BY <1>0, <2>3, AppendedRecords
      <3>2. file'[Len(file) + 1].len = k
        BY <3>1
      <3>3. Partial = 0
        BY <2>3 DEF Partial
      <3>4. CASE k = RECLEN
        <4>1. Torn' = Torn
          BY <2>1, <3>1, <3>2, <3>4 DEF Torn
        <4>2. Partial' = 0
          BY <2>1, <2>3, <3>4 DEF Partial
        <4> QED BY <1>0, <2>1, <3>3, <4>1, <4>2 DEF TornBounded
      <3>5. CASE k # RECLEN
        <4>1. Torn' \subseteq Torn \cup {Len(file) + 1}
          BY <3>1 DEF Torn
        <4>2. Partial' = 1
          BY <2>1, <2>3, <3>5 DEF Partial
        <4>3. /\ IsFiniteSet(Torn') /\ Cardinality(Torn') \in Nat
              /\ Cardinality(Torn') <= Cardinality(Torn) + 1
          BY <1>0, <4>1, OneMore
        <4> QED BY <1>0, <2>1, <3>3, <4>2, <4>3 DEF TornBounded
      <3> QED BY <3>4, <3>5
    <2>4. CASE json_fd = "file" /\ written > 0 /\ FileExtended(k)
      <3>1. /\ Records' = Records /\ Len(file) \in Records
            /\ \A i \in Records \ {Len(file)} : file'[i] = file[i]
            /\ file'[Len(file)].len = written + k
        BY <1>0, <2>4, ExtendedRecords
      <3>2. Partial = 1
        BY <2>1, <2>4 DEF Partial
      <3>3. Len(file) \in Torn
        BY <2>1, <2>4, <3>1 DEF Torn, FileExtended
      <3>4. CASE written' = RECLEN
        <4>1. Torn' = Torn \ {Len(file)}
          BY <2>1, <3>1, <3>4 DEF Torn
        <4>2. /\ IsFiniteSet(Torn')
              /\ Cardinality(Torn') = Cardinality(Torn) - 1
          BY <1>0, <3>3, <4>1, FS_RemoveElement
        <4>3. Partial' = 0
          BY <2>1, <3>4 DEF Partial
        <4> QED BY <1>0, <2>1, <3>2, <4>2, <4>3 DEF TornBounded
      <3>5. CASE written' # RECLEN
        <4>1. Torn' \subseteq Torn
          BY <3>1, <3>3 DEF Torn
        <4>2. /\ IsFiniteSet(Torn') /\ Cardinality(Torn') \in Nat
              /\ Cardinality(Torn') <= Cardinality(Torn)
          BY <1>0, <4>1, FS_Subset, FS_CardinalityType
        <4>3. Partial' = 1
          BY <2>1, <2>4, <3>5 DEF Partial
        <4> QED BY <1>0, <2>1, <3>2, <4>2, <4>3 DEF TornBounded
      <3> QED BY <3>4, <3>5
    <2>5. \/ json_fd # "file" /\ file' = file
          \/ /\ json_fd = "file" /\ written = 0
             /\ FileAppended([rec |-> pkt, len |-> k])
          \/ json_fd = "file" /\ written > 0 /\ FileExtended(k)
      <3>1. CASE json_fd # "file"
        BY <1>2, <3>1, WrittenFile DEF Shape
      <3>2. CASE json_fd = "file" /\ written = 0
        BY <1>2, <3>2, WrittenFile DEF Shape, FileAppended
      <3>3. CASE json_fd = "file" /\ written > 0
        BY <1>2, <3>3, WrittenFile DEF Shape, FileExtended
      <3> QED BY <2>1, <3>1, <3>2, <3>3
    <2> QED BY <2>2, <2>3, <2>4, <2>5
  <1> QED BY <1>1, <1>2

-----------------------------------------------------------------------------
\* A sample is lost when it was taken and is kept nowhere.
LostMeaning ==
  \A x : x \in Lost <=> \E n \in Nodes : \E s \in 0..(taken[n] - 1) :
                          x = <<n, s>> /\ ~Kept(n, s)

\* Kept is the complement of what is missing and not spilled.
LEMMA LostValue == TypeOK => LostMeaning
  <1> SUFFICES ASSUME TypeOK PROVE LostMeaning
    OBVIOUS
  <1>1. \A x : x \in Lost <=>
          \E n \in Nodes : \E s \in Missing(n) \ Spilled(n) : x = <<n, s>>
    <2>1. \A x : x \in Lost <=>
            \E n \in Nodes : x \in {n} \X (Missing(n) \ Spilled(n))
      BY DEF Lost
    <2>2. \A n, M, x : x \in {n} \X M <=> \E s \in M : x = <<n, s>>
      OBVIOUS
    <2> QED BY <2>1, <2>2
  <1>2. \A n \in Nodes : \A s : s \in Missing(n) \ Spilled(n) <=>
                            s \in 0..(taken[n] - 1) /\ ~Kept(n, s)
    <2> SUFFICES ASSUME NEW n \in Nodes, NEW s
                 PROVE  s \in Missing(n) \ Spilled(n) <=>
                          s \in 0..(taken[n] - 1) /\ ~Kept(n, s)
      OBVIOUS
    <2>1. s \in 0..(taken[n] - 1) => s \in 0..MaxSamples
      BY DeliveryAssumption DEF TypeOK
    <2> QED BY <2>1 DEF Missing, Spilled, Kept
  <1> QED BY <1>1, <1>2 DEF LostMeaning

\* What is kept stays kept, up to one sample that a failure costs.
Cost(n0, s0) ==
  \A n \in Nodes, s \in 0..MaxSamples :
    Kept(n, s) => Kept(n, s)' \/ (n = n0 /\ s = s0)

NoCost == \A n \in Nodes, s \in 0..MaxSamples : Kept(n, s) => Kept(n, s)'

\* A record that has been written whole stays in the file.
LEMMA WholeStays ==
  ASSUME Shape, Next
  PROVE  \A m : Whole(m) => Whole(m)'
  <1>0. TypeOK
    BY DEF Shape
  <1>1. CASE file' = file
    BY <1>1 DEF Whole, Records
  <1>2. ASSUME NEW x, FileAppended(x) PROVE \A m : Whole(m) => Whole(m)'
    <2>1. Records \subseteq Records' /\ \A i \in Records : file'[i] = file[i]
      BY <1>0, <1>2, AppendedRecords
    <2> QED BY <2>1 DEF Whole
  <1>3. ASSUME NEW k \in 1..RECLEN, write_json(k), FileExtended(k)
        PROVE  \A m : Whole(m) => Whole(m)'
    <2>1. /\ Records' = Records
          /\ \A i \in Records \ {Len(file)} : file'[i] = file[i]
      BY <1>0, <1>3, ExtendedRecords
    <2>2. file[Len(file)].len # RECLEN
      BY <1>3, DeliveryAssumption DEF FileExtended, Shape, RecordAtHand, write_json
    <2> QED BY <2>1, <2>2 DEF Whole
  <1> QED BY <1>1, <1>2, <1>3, FileSteps

\* What the nodes and the network cost.
LEMMA NodeCost ==
  ASSUME Shape, NodeStep
  PROVE  /\ NoCost \/ (Fault /\ \E n, s : Cost(n, s))
         /\ \A n \in Nodes : \/ taken'[n] = taken[n]
                             \/ /\ taken'[n] = taken[n] + 1
                                /\ \A s : s = taken[n] => Kept(n, s)'
         /\ faults' = faults \/ Fault
  <1> DEFINE Goal == /\ NoCost \/ (Fault /\ \E n, s : Cost(n, s))
                     /\ \A n \in Nodes : \/ taken'[n] = taken[n]
                                         \/ /\ taken'[n] = taken[n] + 1
                                            /\ \A s : s = taken[n] => Kept(n, s)'
                     /\ faults' = faults \/ Fault
  <1>0. TypeOK /\ BatchSent
    BY DEF Shape
  <1>1. /\ \A m : Whole(m) => Whole(m)'
        /\ UNCHANGED <<rx, pkt, stray, dropped>>
    BY WholeStays, Separation DEF fileVars
  <1>2. ASSUME UNCHANGED <<taken, ring, batch, net, rcvq>>, faults' = faults \/ Fault
        PROVE  Goal
    BY <1>1, <1>2 DEF NoCost, Kept, Unsettled
  <1>3. ASSUME NEW n \in Nodes, TakeSample(n) PROVE Goal
    <2>0. rcvq' = rcvq
      BY <1>3 DEF TakeSample, recvVars
    <2>1. /\ ring[n] \in Seq(0..MaxSamples) /\ taken[n] \in 0..MaxSamples
          /\ ring'[n] = Append(ring[n], taken[n])
          /\ \A p \in Nodes \ {n} : ring'[p] = ring[p] /\ taken'[p] = taken[p]
          /\ taken'[n] = taken[n] + 1
          /\ batch' = batch /\ net' = net /\ faults' = faults
      BY <1>0, <1>3 DEF TypeOK, TakeSample, sendVars
    <2>2. \A y : y \in Range(ring'[n]) <=> y \in Range(ring[n]) \/ y = taken[n]
      <3>1. \A y : y \in Range(Append(ring[n], taken[n]))
                      <=> y \in Range(ring[n]) \/ y = taken[n]
        <4> DEFINE S == 0..MaxSamples
        <4>1. ring[n] \in Seq(S) /\ taken[n] \in S
          BY <2>1
        <4> HIDE DEF S
        <4> QED BY <4>1, AppendRange
      <3> QED BY <2>1, <3>1
    <2>3. \A s : s = taken[n] => Kept(n, s)'
      BY <2>2 DEF Kept
    <2>4. NoCost
      BY <1>1, <2>0, <2>1, <2>2 DEF NoCost, Kept, Unsettled
    <2> QED BY <2>1, <2>3, <2>4
  <1>4. ASSUME NEW n \in Nodes, ReadSamples(n) PROVE Goal
    <2>1. /\ batch[n] = <<>> /\ batch'[n] = ring[n]
          /\ \A p \in Nodes \ {n} : ring'[p] = ring[p] /\ batch'[p] = batch[p]
          /\ taken' = taken /\ net' = net /\ faults' = faults /\ rcvq' = rcvq
      BY <1>0, <1>4 DEF BatchSent, ReadSamples, GotoThread, TypeOK, recvVars
    <2>2. Range(<<>>) = {}
      BY DEF Range
    <2>3. NoCost
      BY <1>1, <2>1, <2>2 DEF NoCost, Kept, Unsettled
    <2> QED BY <2>1, <2>3
  <1>5. ASSUME NEW n \in Nodes, batch[n] # <<>>, batch' = [batch EXCEPT ![n] = Tail(@)]
        PROVE  /\ \A y : y \in Range(batch[n]) =>
                           y \in Range(batch'[n]) \/ y = Head(batch[n])
               /\ \A p \in Nodes \ {n} : batch'[p] = batch[p]
    <2>1. batch[n] \in Seq(0..MaxSamples) /\ batch'[n] = Tail(batch[n])
      BY <1>0, <1>5 DEF TypeOK
    <2> QED BY <1>5, <1>0, <2>1, TailRange DEF TypeOK
  <1>6. ASSUME NEW n \in Nodes, send_it(n) PROVE Goal
    <2>0. CASE socket[n] # "open"
      BY <1>2, <1>6, <2>0 DEF send_it, recvVars
    <2> SUFFICES ASSUME socket[n] = "open" PROVE Goal
      BY <2>0
    <2>1. /\ taken' = taken /\ ring' = ring /\ faults' = faults
          /\ net \subseteq net' /\ rcvq' = rcvq
          /\ Datagram(n, Head(batch[n])) \in net'
      BY <1>6 DEF send_it, prepare_packet, Datagram, recvVars
    <2>2. /\ \A y : y \in Range(batch[n]) =>
                      y \in Range(batch'[n]) \/ y = Head(batch[n])
          /\ \A p \in Nodes \ {n} : batch'[p] = batch[p]
      BY <1>5, <1>6 DEF send_it
    <2>3. NoCost
      BY <1>1, <2>1, <2>2 DEF NoCost, Kept, Unsettled
    <2> QED BY <2>1, <2>3
  <1>7. ASSUME NEW n \in Nodes, PacketFails(n) PROVE Goal
    <2>1. /\ taken' = taken /\ ring' = ring /\ net' = net /\ Fault /\ rcvq' = rcvq
      BY <1>7 DEF PacketFails, recvVars
    <2>2. /\ \A y : y \in Range(batch[n]) =>
                      y \in Range(batch'[n]) \/ y = Head(batch[n])
          /\ \A p \in Nodes \ {n} : batch'[p] = batch[p]
      BY <1>5, <1>7 DEF PacketFails
    <2>3. Cost(n, Head(batch[n]))
      BY <1>1, <2>1, <2>2 DEF Cost, Kept, Unsettled
    <2> QED BY <2>1, <2>3
  <1>8. ASSUME NEW m \in net, Lose(m) PROVE Goal
    <2>1. /\ taken' = taken /\ ring' = ring /\ batch' = batch /\ Fault
          /\ net' = net \ {m} /\ rcvq' = rcvq
      BY <1>8 DEF Lose, sendVars, recvVars
    <2>2. Cost(m.id, m.seq)
      BY <1>1, <2>1 DEF Cost, Kept, Unsettled, Datagram
    <2> QED BY <2>1, <2>2
  <1>9. ASSUME NEW n \in Nodes, CreateSocket(n) PROVE Goal
    BY <1>2, <1>9 DEF CreateSocket, NoFault, recvVars
  <1>10. ASSUME NEW n \in Nodes, CheckStop(n) PROVE Goal
    BY <1>2, <1>10 DEF CheckStop, recvVars
  <1>11. ASSUME NEW n \in Nodes, ReadNothing(n) PROVE Goal
    BY <1>2, <1>11 DEF ReadNothing, NoFault, recvVars
  <1>12. ASSUME NEW n \in Nodes, EndBatch(n) PROVE Goal
    BY <1>2, <1>12 DEF EndBatch, recvVars
  <1>13. ASSUME NEW n \in Nodes, sock_release(n) PROVE Goal
    BY <1>2, <1>13 DEF sock_release, recvVars
  <1>14. ASSUME NEW n \in Nodes, kthread_stop(n) PROVE Goal
    BY <1>2, <1>14 DEF kthread_stop, recvVars
  <1>15. ASSUME NEW n \in Nodes, init_module(n) PROVE Goal
    BY <1>2, <1>15 DEF init_module, NoFault, recvVars
  <1>16. ASSUME NEW n \in Nodes, StopReturned(n) PROVE Goal
    BY <1>2, <1>16 DEF StopReturned, recvVars
  <1>17. ASSUME NEW m \in net, Arrive(m) PROVE Goal
    <2>1. /\ taken' = taken /\ ring' = ring /\ batch' = batch
          /\ net \subseteq net' \cup {m} /\ rcvq' = rcvq \cup {m}
          /\ faults' = faults \/ Fault
      BY <1>17 DEF Arrive, sendVars, NoFault
    <2>2. NoCost
      BY <1>1, <2>1 DEF NoCost, Kept, Unsettled
    <2> QED BY <2>1, <2>2
  <1> QED
    <2> HIDE DEF Goal
    <2>1. Goal
      BY <1>3, <1>4, <1>6, <1>7, <1>8, <1>9, <1>10, <1>11, <1>12, <1>13, <1>14,
         <1>15, <1>16, <1>17 DEF NodeStep, SenderStep
    <2> QED BY <2>1 DEF Goal

\* What the receiver costs besides what it spills: the packet in its hands,
\* when a write fails or the program is interrupted.
LEMMA SinkCost ==
  ASSUME Shape, SinkStep
  PROVE  /\ NoCost \/ (Fault /\ \E n, s : Cost(n, s))
         /\ faults' = faults \/ Fault
  <1> DEFINE Goal == /\ NoCost \/ (Fault /\ \E n, s : Cost(n, s))
                     /\ faults' = faults \/ Fault
  <1>0. Next
    BY Separation
  <1>1. /\ \A m : Whole(m) => Whole(m)'
        /\ ring' = ring /\ batch' = batch
    BY <1>0, WholeStays, Separation DEF sendVars
  <1>2. CASE bind_socket \/ open_output_files \/ RecvFails \/ main
    <2>1. /\ ~Unsettled /\ net' = net /\ stray' = stray
          /\ rcvq \cup dropped \subseteq rcvq' \cup dropped'
      BY <1>2 DEF bind_socket, open_output_files, RecvFails, CloseAll, main,
         GotoRx, Unsettled, fileVars
    <2>2. faults' = faults \/ Fault
      BY <1>2 DEF bind_socket, open_output_files, RecvFails, CloseAll, main, NoFault
    <2>3. NoCost
      BY <1>1, <2>1 DEF NoCost, Kept
    <2> QED BY <2>2, <2>3
  <1>3. CASE WriteSeparator
    <2>1. /\ Unsettled' /\ net' = net /\ stray' = stray /\ pkt' = pkt
          /\ rcvq' = rcvq /\ dropped' = dropped
      BY <1>3 DEF WriteSeparator, GotoRx, Unsettled
    <2>2. faults' = faults \/ Fault
      BY <1>3 DEF WriteSeparator, NoFault
    <2>3. NoCost
      BY <1>1, <2>1 DEF NoCost, Kept
    <2> QED BY <2>2, <2>3
  <1>4. ASSUME NEW k \in 1..RECLEN, write_json(k) PROVE Goal
    <2>1. /\ net' = net /\ stray \subseteq stray' /\ pkt' = pkt
          /\ rcvq' = rcvq /\ dropped' = dropped
          /\ faults' = faults /\ rx = "record"
          /\ rx' = IF written + k = RECLEN THEN "recvfrom" ELSE "record"
      BY <1>4 DEF write_json
    <2>2. CASE rx' = "record"
      <3>1. Unsettled'
        BY <2>2 DEF Unsettled
      <3> QED BY <1>1, <2>1, <3>1 DEF NoCost, Kept
    <2>3. CASE written + k = RECLEN
      <3>0. TypeOK /\ written \in 0..RECLEN /\ k \in 1..RECLEN
        BY DEF Shape, TypeOK
      <3>1. Whole(pkt)' \/ pkt \in stray'
        <4>1. CASE json_fd # "file"
          BY <1>4, <4>1, WrittenFile DEF Shape
        <4>2. CASE json_fd = "file" /\ written = 0
          <5> DEFINE x == [rec |-> pkt, len |-> k]
          <5>1. FileAppended(x)
            BY <1>4, <4>2, WrittenFile DEF Shape, FileAppended
          <5>2. IsRecord(x)
            BY DEF IsRecord
          <5>3. /\ Records' = Records \cup {Len(file) + 1}
                /\ file'[Len(file) + 1] = x
            BY <3>0, <5>1, <5>2, AppendedRecords
          <5>4. Len(file) + 1 \in Records' /\ x.rec = pkt' /\ x.len = RECLEN
            BY <2>1, <2>3, <3>0, <4>2, <5>3
          <5> HIDE DEF x
          <5> QED BY <5>3, <5>4 DEF Whole
        <4>3. CASE json_fd = "file" /\ written > 0
          <5>1. FileExtended(k)
            BY <1>4, <4>3, WrittenFile DEF Shape, FileExtended
          <5>2. /\ Len(file) \in Records'
                /\ file'[Len(file)].rec = pkt
                /\ file'[Len(file)].len = written + k
            BY <3>0, <5>1, ExtendedRecords
          <5> QED BY <2>1, <2>3, <5>2 DEF Whole
        <4> QED BY <3>0, <4>1, <4>2, <4>3
      <3>2. \A m : m = pkt => Whole(m)' \/ m \in stray'
        BY <2>1, <3>1 DEF Whole
      <3> QED BY <1>1, <2>1, <3>2 DEF NoCost, Kept
    <2> QED BY <2>1, <2>2, <2>3
  <1>5. ASSUME NEW m \in rcvq, recvfrom(m) PROVE Goal
    <2>1. /\ ~Unsettled /\ Unsettled' /\ pkt' = m
          /\ net' = net /\ rcvq \subseteq rcvq' \cup {m}
          /\ stray' = stray /\ dropped' = dropped
      BY <1>5 DEF recvfrom, GotoRx, Unsettled
    <2>2. faults' = faults
      BY <1>5 DEF recvfrom
    <2>3. NoCost
      BY <1>1, <2>1 DEF NoCost, Kept
    <2> QED BY <2>2, <2>3
  <1>6. CASE WriteFails \/ cleanup
    <2>1. /\ net' = net /\ stray' = stray /\ Fault
          /\ rcvq \cup dropped \subseteq rcvq' \cup dropped'
      BY <1>6 DEF WriteFails, cleanup, CloseAll, fileVars
    <2>2. Cost(pkt.id, pkt.seq)
      BY <1>1, <2>1 DEF Cost, Kept, Datagram
    <2> QED BY <2>1, <2>2
  <1> QED
    <2> HIDE DEF Goal
    <2>1. Goal
      BY <1>2, <1>3, <1>4, <1>5, <1>6 DEF SinkStep, ReceiverStep, Goal
    <2> QED BY <2>1 DEF Goal

\* So each failure costs at most one sample that is not spilled.
LEMMA LossStep == Shape /\ LossBounded /\ [Next]_vars => LossBounded'
  <1>0. UNCHANGED vars => Lost' = Lost /\ faults' = faults
    <2> SUFFICES ASSUME UNCHANGED vars PROVE Lost' = Lost /\ faults' = faults
      OBVIOUS
    <2>1. /\ UNCHANGED <<taken, ring, batch, net, rcvq, dropped, stray, rx, pkt, file>>
          /\ faults' = faults
      BY DEF vars, sendVars, recvVars, fileVars
    <2>2. Records' = Records
      BY <2>1 DEF Records
    <2>3. \A m : Whole(m)' <=> Whole(m)
      BY <2>1, <2>2 DEF Whole
    <2>4. \A n : Missing(n)' = Missing(n) /\ Spilled(n)' = Spilled(n)
      BY <2>1, <2>3 DEF Missing, Spilled, Unsettled
    <2> QED BY <2>1, <2>4 DEF Lost
  <1> SUFFICES ASSUME Shape, LossBounded, Next PROVE LossBounded'
    BY <1>0 DEF LossBounded
  <1>1. /\ NoCost \/ (Fault /\ \E n, s : Cost(n, s))
        /\ faults' = faults \/ Fault
    BY NodeCost, SinkCost, Separation
  <1>2. \A n \in Nodes : \/ taken'[n] = taken[n]
                         \/ /\ taken'[n] = taken[n] + 1
                            /\ \A s : s = taken[n] => Kept(n, s)'
    BY NodeCost, Separation
  <1>3. \A x : x \in Lost' <=>
          \E n \in Nodes : \E s \in 0..(taken'[n] - 1) : x = <<n, s>> /\ ~Kept(n, s)'
    <2>1. TypeOK'
      BY ShapeStep DEF Shape
    <2>2. LostMeaning'
      BY <2>1, LostValue, PTL
    <2> QED BY <2>2 DEF LostMeaning
  <1>4. /\ IsFiniteSet(Lost) /\ Cardinality(Lost) <= faults
        /\ faults \in Nat /\ Cardinality(Lost) \in Nat
    BY FS_CardinalityType, DeliveryAssumption DEF LossBounded, Shape, TypeOK
  <1>5. ASSUME NEW n \in Nodes, NEW s \in 0..(taken'[n] - 1), ~Kept(n, s)'
        PROVE  s \in 0..(taken[n] - 1) /\ s \in 0..MaxSamples
    <2>1. taken[n] \in 0..MaxSamples
      BY DEF Shape, TypeOK
    <2> QED BY <1>2, <1>5, <2>1, DeliveryAssumption
  <1>6. CASE NoCost
    <2>1. Lost' \subseteq Lost
      BY <1>3, <1>5, <1>6, LostValue DEF LostMeaning, NoCost, Shape
    <2>2. /\ IsFiniteSet(Lost') /\ Cardinality(Lost') \in Nat
          /\ Cardinality(Lost') <= Cardinality(Lost)
      BY <1>4, <2>1, FS_Subset, FS_CardinalityType
    <2>3. faults' = faults \/ faults' = faults + 1
      BY <1>1 DEF Fault
    <2> QED BY <1>4, <2>2, <2>3 DEF LossBounded
  <1>7. ASSUME Fault, NEW a, NEW b, Cost(a, b) PROVE LossBounded'
    <2>1. Lost' \subseteq Lost \cup {<<a, b>>}
      BY <1>3, <1>5, <1>7, LostValue DEF LostMeaning, Cost, Shape
    <2>2. /\ IsFiniteSet(Lost') /\ Cardinality(Lost') \in Nat
          /\ Cardinality(Lost') <= Cardinality(Lost) + 1
      BY <1>4, <2>1, OneMore
    <2>3. faults' = faults + 1
      BY <1>7 DEF Fault
    <2> QED BY <1>4, <2>2, <2>3 DEF LossBounded
  <1> QED BY <1>1, <1>6, <1>7

\* serve writes only after it has opened its output.
LEMMA FdStep == FdOpen /\ [Next]_vars => FdOpen'
  <1> SUFFICES ASSUME FdOpen, [Next]_vars PROVE FdOpen'
    OBVIOUS
  <1> USE DEF FdOpen
  <1>1. CASE NodeStep
    BY <1>1, Separation
  <1>2. CASE SinkStep
    BY <1>2 DEF SinkStep, ReceiverStep, bind_socket, open_output_files,
       WriteSeparator, write_json, WriteFails, recvfrom, RecvFails, cleanup,
       CloseAll, main, GotoRx
  <1>3. CASE UNCHANGED vars
    BY <1>3 DEF vars, recvVars
  <1> QED BY <1>1, <1>2, <1>3, Separation

\* A failed open and the end of the receiver are failures.
LEMMA SpillStep ==
  Shape /\ FdOpen /\ SpillNeedsFault /\ [Next]_vars => SpillNeedsFault'
  <1> SUFFICES ASSUME Shape, FdOpen, SpillNeedsFault, Next PROVE SpillNeedsFault'
    BY DEF vars, recvVars, fileVars, SpillNeedsFault
  <1>1. faults \in Nat
    BY DeliveryAssumption DEF Shape, TypeOK
  <1>2. faults' = faults \/ faults' = faults + 1
    BY NodeCost, SinkCost, Separation DEF Fault
  <1>3. CASE UNCHANGED <<dropped, stray, json_fd>>
    BY <1>1, <1>2, <1>3 DEF SpillNeedsFault
  <1>4. CASE NodeStep
    BY <1>3, <1>4, Separation DEF fileVars
  <1>5. CASE open_output_files
    <2>1. CASE json_fd' = "file"
      <3>1. dropped' = dropped /\ stray' = stray /\ json_fd' # "stdin"
        BY <1>5, <2>1 DEF open_output_files
      <3> QED BY <1>1, <1>2, <3>1 DEF SpillNeedsFault
    <2>2. CASE faults' = faults + 1
      BY <1>1, <2>2 DEF SpillNeedsFault
    <2> QED BY <1>5, <2>1, <2>2 DEF open_output_files, Fault
  <1>6. ASSUME NEW k \in 1..RECLEN, write_json(k) PROVE SpillNeedsFault'
    BY <1>1, <1>2, <1>6 DEF write_json, SpillNeedsFault, FdOpen
  <1>7. CASE RecvFails \/ cleanup
    BY <1>1, <1>7 DEF RecvFails, cleanup, SpillNeedsFault, Fault
  <1>8. CASE bind_socket \/ WriteSeparator \/ WriteFails \/ main
             \/ (\E m \in rcvq : recvfrom(m))
    BY <1>3, <1>8 DEF bind_socket, WriteSeparator, WriteFails, main, recvfrom,
       fileVars
  <1> QED BY <1>4, <1>5, <1>6, <1>7, <1>8, Separation DEF SinkStep, ReceiverStep

-----------------------------------------------------------------------------
\* Nothing taken, nothing written.
LEMMA IInvInit == Init => IInv
  <1> SUFFICES ASSUME Init PROVE IInv
    OBVIOUS
  <1>1. Shape
    BY ShapeInit
  <1>2. Records = {}
    BY DEF Init, Records
  <1>3. NumbersKept
    BY <1>2 DEF Init, NumbersKept, RecordsFaithful, Unsettled
  <1>4. Lost = {}
    BY <1>1, LostValue DEF LostMeaning, Init, Shape
  <1>5. Torn = {}
    BY <1>2 DEF Torn
  <1>6. faults = 0 /\ Partial = 0
    BY DEF Init, Partial
  <1>7. LossBounded /\ TornBounded
    BY <1>4, <1>5, <1>6, FS_EmptySet DEF LossBounded, TornBounded
  <1>8. FdOpen /\ SpillNeedsFault
    BY DEF Init, FdOpen, SpillNeedsFault
  <1> QED BY <1>1, <1>3, <1>7, <1>8 DEF IInv

\* The inductive invariant holds throughout.
THEOREM Invariant == Spec => []IInv
  <1>1. IInv /\ [Next]_vars => IInv'
    BY ShapeStep, NumbersStep, LossStep, TornStep, FdStep, SpillStep DEF IInv
  <1> QED BY <1>1, IInvInit, PTL DEF Spec

\* Every variable keeps its type; the file is a sequence of whole or partial
\* records and punctuation.
THEOREM TypeCorrect == Spec => []TypeOK
  <1>1. IInv => TypeOK
    BY DEF IInv, Shape
  <1> QED BY <1>1, Invariant, PTL

\* The sender never hands a packet to a socket that is not open: cleanup_module
\* releases it only after kthread_stop has seen the thread end.
THEOREM SocketOutlivesThread == Spec => []SocketHeld
  <1>1. IInv => SocketHeld
    BY DEF IInv, Shape
  <1> QED BY <1>1, Invariant, PTL

\* A record of the JSON file carries the number of the sample it holds:
\* prepare_packet numbers a packet with its sample, whatever the sender's own
\* counter says after a reload, and write_json copies the packet it was given.
THEOREM FaithfulRecords == Spec => []RecordsFaithful
  <1>1. IInv => RecordsFaithful
    BY DEF IInv, NumbersKept
  <1> QED BY <1>1, Invariant, PTL

\* No sample disappears between the ring buffer and the file unless something
\* failed.  Besides the datagrams queued on the receiver's socket when it is
\* closed and the records written to descriptor 0 after a failed open, no more
\* samples disappear than there were failed allocations, failed sends, lost
\* datagrams, failed writes and interruptions of the receiver together.
THEOREM BoundedLoss == Spec => []LossNeedsFault
  <1>1. IInv => LossNeedsFault
    <2> SUFFICES ASSUME IInv PROVE LossNeedsFault
      OBVIOUS
    <2>1. /\ IsFiniteSet(Lost) /\ Cardinality(Lost) <= faults
          /\ faults \in Nat /\ TypeOK
      BY DeliveryAssumption DEF IInv, LossBounded, Shape, TypeOK
    <2>2. ASSUME NEW n \in Nodes, NEW s \in Missing(n) PROVE faults > 0
      <3>1. CASE s \in Spilled(n)
        BY <3>1 DEF Spilled, IInv, SpillNeedsFault
      <3>2. CASE s \notin Spilled(n)
        <4>1. <<n, s>> \in Lost
          BY <3>2 DEF Lost
        <4>2. Cardinality(Lost) # 0 /\ Cardinality(Lost) \in Nat
          BY <2>1, <4>1, FS_EmptySet, FS_CardinalityType
        <4> QED BY <2>1, <4>2
      <3> QED BY <3>1, <3>2
    <2> QED BY <2>1, <2>2 DEF Lost, LossNeedsFault
  <1> QED BY <1>1, Invariant, PTL

\* The file holds at most one incomplete record per failure, besides the one
\* write_json is writing: its loop completes what a short write began.
THEOREM BoundedTearing == Spec => []TornRecordNeedsFault
  <1>1. IInv => TornRecordNeedsFault
    <2> SUFFICES ASSUME IInv PROVE TornRecordNeedsFault
      OBVIOUS
    <2>1. /\ IsFiniteSet(Torn) /\ Cardinality(Torn) <= faults + Partial
          /\ faults \in Nat
      BY DeliveryAssumption DEF IInv, TornBounded, Shape, TypeOK
    <2>2. Cardinality(Torn) \in Nat
      BY <2>1, FS_CardinalityType
    <2> DEFINE slack == IF rx = "record" /\ written > 0 THEN 1 ELSE 0
    <2>3. PICK c \in Nat : c = Cardinality(Torn)
      BY <2>2
    <2>4. c <= faults + slack
      BY <2>1, <2>3 DEF Partial
    <2> QED BY <2>3, <2>4 DEF TornRecordNeedsFault, Torn
  <1> QED BY <1>1, Invariant, PTL

=============================================================================
