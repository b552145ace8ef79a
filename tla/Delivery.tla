------------------------------ MODULE Delivery ------------------------------
(***************************************************************************)
(* A sample's way from the ring buffer of a sensor node to the JSON file   *)
(* of the sink: the kernel thread of kernel_sender/sender_kthread.c, UDP,  *)
(* and kernel_sender/receiver (main.c, list.c).                            *)
(*                                                                         *)
(* The ring buffer is taken at its abstraction SampleFifo: a read empties  *)
(* it.  A datagram may be lost, duplicated or overtaken; every allocation, *)
(* socket call and write may fail; the sender module may be unloaded and   *)
(* loaded again, the receiver interrupted and started again on the same    *)
(* file, which it opens with O_APPEND.  The datagrams that wait in the     *)
(* receiver's socket go with it when it is closed.                         *)
(***************************************************************************)
EXTENDS Integers, Sequences, FiniteSets, SequencesExt

CONSTANTS Nodes,       \* the sensor nodes
          MaxSamples,  \* bound: samples taken on each node
          MaxFaults,   \* bound: failures of any kind
          MaxLoads,    \* bound: times a sender module is loaded
          RECLEN       \* bound: the writes a record's text may be split into

ASSUME DeliveryAssumption ==
  /\ MaxSamples \in Nat /\ MaxFaults \in Nat
  /\ MaxLoads \in Nat \ {0} /\ RECLEN \in Nat \ {0}

VARIABLES
  taken,    \* per node: the samples taken so far
  ring,     \* per node: sequence numbers in the ring buffer, oldest first
  thread,   \* per node: the sender thread
  batch,    \* per node: samples[i .. len-1] of main_loop
  seq,      \* per node: the static counter of main_loop
  stop,     \* per node: kthread_stop has been called
  socket,   \* per node: udp_socket
  loads,    \* per node: times the module was loaded
  net,      \* the datagrams on their way
  rcvq,     \* the datagrams queued on the receiver's socket
  rx,       \* the receiver's control point
  pkt,      \* the packet in serve's buffer
  first,    \* serve's local first
  json_fd,  \* where write_json writes
  bound,    \* the receiver's socket has an address
  written,  \* write_json's local written
  file,     \* the JSON file, as the pieces written to it
  stray,    \* history: packets whose record went to descriptor 0
  dropped,  \* history: packets queued on a socket when it was closed
  faults    \* history: failures so far

sendVars == <<thread, batch, seq, stop, socket, loads>>
fileVars == <<pkt, first, written, file, stray>>
recvVars == <<rx, json_fd, bound, rcvq, dropped, fileVars>>
vars == <<taken, ring, net, faults, sendVars, recvVars>>

Packets == [id : Nodes, seq : 0..MaxSamples, ts : 0..MaxSamples]

\* The pieces of the file: punctuation, and a record with the part of its
\* text that has been written.
Punctuation == [mark : {"{", ",", "nl"}]
Record == [rec : Packets, len : 1..RECLEN]

IsRecord(p) == "rec" \in DOMAIN p

TypeOK ==
  /\ taken \in [Nodes -> 0..MaxSamples]
  /\ ring \in [Nodes -> Seq(0..MaxSamples)]
  /\ batch \in [Nodes -> Seq(0..MaxSamples)]
  /\ thread \in [Nodes -> {"start", "loop", "read", "send", "returned",
                          "exited", "unloaded", "oops"}]
  /\ seq \in [Nodes -> 0..MaxSamples]
  /\ stop \in [Nodes -> BOOLEAN]
  /\ socket \in [Nodes -> {"none", "unbound", "open", "released"}]
  /\ loads \in [Nodes -> 1..MaxLoads]
  /\ net \subseteq Packets
  /\ rcvq \subseteq Packets
  /\ rx \in {"start", "open", "recvfrom", "separator", "record", "down"}
  /\ pkt \in Packets \cup {<<>>}
  /\ first \in {0, 1}
  /\ json_fd \in {"none", "file", "stdin"}
  /\ bound \in BOOLEAN
  /\ written \in 0..RECLEN
  /\ file \in Seq(Punctuation \cup Record)
  /\ stray \subseteq Packets
  /\ dropped \subseteq Packets
  /\ faults \in 0..MaxFaults

Init ==
  /\ taken = [n \in Nodes |-> 0]
  /\ ring = [n \in Nodes |-> <<>>]
  /\ thread = [n \in Nodes |-> "start"]
  /\ batch = [n \in Nodes |-> <<>>]
  /\ seq = [n \in Nodes |-> 0]
  /\ stop = [n \in Nodes |-> FALSE]
  /\ socket = [n \in Nodes |-> "none"]
  /\ loads = [n \in Nodes |-> 1]
  /\ net = {} /\ rcvq = {}
  /\ rx = "start" /\ pkt = <<>> /\ first = 0
  /\ json_fd = "none" /\ bound = FALSE /\ written = 0
  /\ file = <<>> /\ stray = {} /\ dropped = {} /\ faults = 0

Fault == faults < MaxFaults /\ faults' = faults + 1
NoFault == UNCHANGED faults

-----------------------------------------------------------------------------
(* The sensor node.                                                        *)

\* The interrupt handler stores a sample (CircBuffer!write_to_buffer).
TakeSample(n) ==
  /\ taken[n] < MaxSamples
  /\ taken' = [taken EXCEPT ![n] = @ + 1]
  /\ ring' = [ring EXCEPT ![n] = Append(@, taken[n])]
  /\ UNCHANGED <<net, faults, sendVars, recvVars>>

GotoThread(n, from, to) ==
  thread[n] = from /\ thread' = [thread EXCEPT ![n] = to]

\* sock_create and bind at the start of main_loop; a failure of either ends
\* the thread, by itself unless kthread_stop is already waiting for it.
CreateSocket(n) ==
  /\ \/ /\ GotoThread(n, "start", "loop") /\ NoFault
        /\ socket' = [socket EXCEPT ![n] = "open"]
     \/ /\ GotoThread(n, "start", IF stop[n] THEN "exited" ELSE "returned")
        /\ Fault
        /\ \E s \in {"none", "unbound"} : socket' = [socket EXCEPT ![n] = s]
  /\ UNCHANGED <<taken, ring, net, batch, seq, stop, loads, recvVars>>

\* kthread_should_stop: looked at before each read and nowhere else.
CheckStop(n) ==
  /\ GotoThread(n, "loop", IF stop[n] THEN "exited" ELSE "read")
  /\ UNCHANGED <<taken, ring, net, faults, batch, seq, stop, socket, loads,
                 recvVars>>

\* read_nsamples returns everything in the buffer.
ReadSamples(n) ==
  /\ ring[n] # <<>>
  /\ GotoThread(n, "read", "send")
  /\ batch' = [batch EXCEPT ![n] = ring[n]]
  /\ ring' = [ring EXCEPT ![n] = <<>>]
  /\ UNCHANGED <<taken, net, faults, seq, stop, socket, loads, recvVars>>

\* read_nsamples returns 0: the buffer is empty, or its kmalloc failed and the
\* samples stay in the buffer (CircBuffer!KmallocFails).  msleep and again.
ReadNothing(n) ==
  /\ GotoThread(n, "read", "loop")
  /\ IF ring[n] = <<>> THEN NoFault ELSE Fault
  /\ UNCHANGED <<taken, ring, net, batch, seq, stop, socket, loads, recvVars>>

\* Mutant: the packet is numbered with the thread's own counter.
prepare_packet_OwnCounter(n, sample, counter) ==
  [id |-> n, seq |-> counter, ts |-> sample]

\* The packet takes the number and the timestamp of the sample; the counter
\* it is passed is not used.
prepare_packet(n, sample, counter) ==
  [id |-> n, seq |-> sample, ts |-> sample]

\* Mutant: a packet that cannot be allocated ends the batch.
PacketFails_Break(n) ==
  /\ thread[n] = "send" /\ batch[n] # <<>> /\ Fault
  /\ batch' = [batch EXCEPT ![n] = <<>>]
  /\ seq' = [seq EXCEPT ![n] = (@ + 1) % (MaxSamples + 1)]
  /\ UNCHANGED <<taken, ring, thread, stop, socket, loads, net, recvVars>>

\* One iteration in which prepare_packet returns NULL (continue) or
\* sock_sendmsg fails (logged): the sample is gone.
PacketFails(n) ==
  /\ thread[n] = "send" /\ batch[n] # <<>> /\ Fault
  /\ batch' = [batch EXCEPT ![n] = Tail(@)]
  /\ seq' = [seq EXCEPT ![n] = (@ + 1) % (MaxSamples + 1)]
  /\ UNCHANGED <<taken, ring, thread, stop, socket, loads, net, recvVars>>

\* One iteration that hands its packet to UDP; sock_sendmsg on a socket that
\* is not there any more would end the thread in the kernel's fault handler.
send_it(n) ==
  /\ thread[n] = "send" /\ batch[n] # <<>>
  /\ IF socket[n] = "open"
     THEN /\ net' = net \cup {prepare_packet(n, Head(batch[n]), seq[n])}
          /\ batch' = [batch EXCEPT ![n] = Tail(@)]
          /\ seq' = [seq EXCEPT ![n] = (@ + 1) % (MaxSamples + 1)]
          /\ UNCHANGED thread
     ELSE /\ thread' = [thread EXCEPT ![n] = "oops"]
          /\ UNCHANGED <<net, batch, seq>>
  /\ UNCHANGED <<taken, ring, stop, socket, loads, faults, recvVars>>

\* kfree(samples), msleep, and back to the top.
EndBatch(n) ==
  /\ batch[n] = <<>>
  /\ GotoThread(n, "send", "loop")
  /\ UNCHANGED <<taken, ring, net, faults, batch, seq, stop, socket, loads,
                 recvVars>>

\* Mutant: the socket is released first, then the thread stopped.
kthread_stop_ReleaseFirst(n) ==
  /\ ~stop[n] /\ thread[n] \notin {"unloaded", "oops"}
  /\ stop' = [stop EXCEPT ![n] = TRUE]
  /\ socket' = [socket EXCEPT ![n] = IF @ = "open" THEN "released" ELSE @]
  /\ UNCHANGED <<taken, ring, net, faults, thread, batch, seq, loads, recvVars>>

\* cleanup_module calls kthread_stop, which waits for the thread to end ...
kthread_stop(n) ==
  /\ ~stop[n] /\ thread[n] \notin {"unloaded", "oops"}
  /\ stop' = [stop EXCEPT ![n] = TRUE]
  /\ UNCHANGED <<taken, ring, net, faults, thread, batch, seq, socket, loads,
                 recvVars>>

\* ... a thread that has returned by itself is gone: kthread_stop reads a task
\* structure that may have been freed.  It returns, or faults, or (no step)
\* waits for ever for a thread that does not run.
StopReturned(n) ==
  /\ stop[n]
  /\ \E to \in {"exited", "oops"} : GotoThread(n, "returned", to)
  /\ UNCHANGED <<taken, ring, net, faults, batch, seq, stop, socket, loads,
                 recvVars>>

\* ... and only then releases the socket; sock_release follows the pointer it
\* is given, which is NULL when sock_create failed.
sock_release(n) ==
  /\ stop[n]
  /\ GotoThread(n, "exited", IF socket[n] = "none" THEN "oops" ELSE "unloaded")
  /\ socket' = [socket EXCEPT ![n] = IF @ = "none" THEN @ ELSE "released"]
  /\ UNCHANGED <<taken, ring, net, faults, batch, seq, stop, loads, recvVars>>

\* init_module, again: the module's statics start from zero, the ring buffer
\* belongs to int_mod and keeps its samples.  When kthread_run fails the error
\* code is passed to kfree as if it were a pointer: insmod fails, or faults.
init_module(n) ==
  /\ loads[n] < MaxLoads
  /\ loads' = [loads EXCEPT ![n] = @ + 1]
  /\ seq' = [seq EXCEPT ![n] = 0]
  /\ stop' = [stop EXCEPT ![n] = FALSE]
  /\ socket' = [socket EXCEPT ![n] = "none"]
  /\ \/ GotoThread(n, "unloaded", "start") /\ NoFault
     \/ /\ \E to \in {"unloaded", "oops"} : GotoThread(n, "unloaded", to)
        /\ Fault
  /\ UNCHANGED <<taken, ring, net, batch, recvVars>>

-----------------------------------------------------------------------------
(* The network.                                                            *)

\* A datagram is lost on the way, at a full queue, or because nothing listens.
Lose(m) ==
  /\ m \in net /\ Fault
  /\ net' = net \ {m}
  /\ UNCHANGED <<taken, ring, sendVars, recvVars>>

\* A datagram is queued on the receiver's socket; the network may deliver it
\* once more.
Arrive(m) ==
  /\ bound /\ m \in net
  /\ rcvq' = rcvq \cup {m}
  /\ \/ net' = net \ {m} /\ NoFault
     \/ net' = net /\ Fault
  /\ UNCHANGED <<taken, ring, sendVars, rx, json_fd, bound, dropped, fileVars>>

-----------------------------------------------------------------------------
(* The receiver.                                                           *)

GotoRx(from, to) == rx = from /\ rx' = to

\* bind_socket: no socket or no bind ends the program; an interface that is
\* not found or not up leaves the loop without bind and still returns 1.
bind_socket ==
  /\ \/ GotoRx("start", "open") /\ bound' = TRUE /\ NoFault
     \/ GotoRx("start", "open") /\ bound' = FALSE /\ Fault
     \/ GotoRx("start", "down") /\ bound' = FALSE /\ Fault
  /\ UNCHANGED <<taken, ring, net, sendVars, json_fd, rcvq, dropped, fileVars>>

\* A failed open returns 0, which serve takes for the descriptor.
open_output_files ==
  /\ GotoRx("open", "recvfrom")
  /\ first' = 0
  /\ \/ json_fd' = "file" /\ file' = Append(file, [mark |-> "{"]) /\ NoFault
     \/ json_fd' = "stdin" /\ UNCHANGED file /\ Fault
  /\ UNCHANGED <<taken, ring, net, sendVars, pkt, bound, rcvq, dropped, written,
                 stray>>

\* recvfrom returns a datagram.
recvfrom(m) ==
  /\ m \in rcvq
  /\ GotoRx("recvfrom", "separator")
  /\ pkt' = m /\ written' = 0
  /\ rcvq' = rcvq \ {m}
  /\ UNCHANGED <<taken, ring, net, faults, sendVars, first, json_fd, bound,
                 dropped, file, stray>>

\* The program ends and with it the socket and every datagram queued on it.
CloseAll ==
  /\ rx' = "down" /\ bound' = FALSE /\ json_fd' = "none"
  /\ rcvq' = {} /\ dropped' = dropped \cup rcvq
  /\ UNCHANGED <<taken, ring, net, sendVars, fileVars>>

\* recvfrom fails: serve and main return.
RecvFails == rx = "recvfrom" /\ Fault /\ CloseAll

\* write_json starts with the separator; a failure of this write is ignored.
WriteSeparator ==
  /\ GotoRx("separator", "record")
  /\ \/ NoFault /\ file' = IF json_fd = "file"
                           THEN Append(file, [mark |-> IF first = 0 THEN ","
                                                       ELSE "nl"])
                           ELSE file
     \/ Fault /\ UNCHANGED file
  /\ UNCHANGED <<taken, ring, net, sendVars, pkt, first, json_fd, bound, rcvq,
                 dropped, written, stray>>

\* The file after k more bytes of the record at hand.
WithBytes(k) ==
  IF written = 0 THEN Append(file, [rec |-> pkt, len |-> k])
                 ELSE [file EXCEPT ![Len(file)].len = written + k]

\* Mutant: a short write is taken for a whole one.
write_json_Once(k) ==
  /\ rx = "record" /\ k \in 1..(RECLEN - written)
  /\ written' = RECLEN /\ rx' = "recvfrom" /\ first' = 1
  /\ IF json_fd = "file" THEN file' = WithBytes(k) /\ UNCHANGED stray
                         ELSE stray' = stray \cup {pkt} /\ UNCHANGED file
  /\ UNCHANGED <<taken, ring, net, faults, sendVars, pkt, json_fd, bound, rcvq,
                 dropped>>

\* One turn of the write loop: k bytes go out, and serve goes on once the
\* whole record has gone.
write_json(k) ==
  /\ rx = "record" /\ k \in 1..(RECLEN - written)
  /\ written' = written + k
  /\ IF written' = RECLEN THEN rx' = "recvfrom" /\ first' = 1
                          ELSE UNCHANGED <<rx, first>>
  /\ IF json_fd = "file" THEN file' = WithBytes(k) /\ UNCHANGED stray
                         ELSE stray' = stray \cup {pkt} /\ UNCHANGED file
  /\ UNCHANGED <<taken, ring, net, faults, sendVars, pkt, json_fd, bound, rcvq,
                 dropped>>

\* write returns -1: write_json gives the record up.
WriteFails ==
  /\ GotoRx("record", "recvfrom") /\ Fault
  /\ first' = 1
  /\ UNCHANGED <<taken, ring, net, sendVars, pkt, json_fd, bound, rcvq, dropped,
                 written, file, stray>>

\* SIGINT: cleanup closes both descriptors and exits, wherever serve is.
cleanup == rx \notin {"start", "down"} /\ Fault /\ CloseAll

\* The receiver is started again.
main ==
  /\ GotoRx("down", "start")
  /\ UNCHANGED <<taken, ring, net, faults, sendVars, json_fd, bound, rcvq,
                 dropped, fileVars>>

-----------------------------------------------------------------------------
SenderStep(n) ==
  \/ CreateSocket(n) \/ CheckStop(n) \/ ReadSamples(n) \/ ReadNothing(n)
  \/ send_it(n) \/ PacketFails(n) \/ EndBatch(n) \/ sock_release(n)

ReceiverStep ==
  \/ bind_socket \/ open_output_files \/ WriteSeparator
  \/ (\E k \in 1..RECLEN : write_json(k)) \/ WriteFails
  \/ (\E m \in rcvq : recvfrom(m))

Next ==
  \/ \E n \in Nodes :
       \/ TakeSample(n) \/ SenderStep(n) \/ kthread_stop(n)
       \/ StopReturned(n) \/ init_module(n)
  \/ \E m \in net : Lose(m) \/ Arrive(m)
  \/ ReceiverStep \/ RecvFails \/ cleanup \/ main

Spec == Init /\ [][Next]_vars

\* The thread and the receiver keep being scheduled, and UDP delivers or
\* loses every datagram: it does not keep one for ever while the receiver
\* listens.
Fairness ==
  /\ \A n \in Nodes : WF_vars(SenderStep(n))
  /\ WF_vars(\E m \in net : Arrive(m))
  /\ WF_vars(ReceiverStep)

FairSpec == Spec /\ Fairness

-----------------------------------------------------------------------------
(* Properties.                                                             *)

Records == {i \in DOMAIN file : IsRecord(file[i])}
Whole(m) == \E i \in Records : file[i].rec = m /\ file[i].len = RECLEN
Unsettled == rx \in {"separator", "record"}

Datagram(n, s) == [id |-> n, seq |-> s, ts |-> s]

\* The samples of node n that are nowhere any more: not in the ring buffer,
\* not in the sender's batch, not on the way, not queued at the receiver, not
\* in its hands and not in the file as a whole record.
Missing(n) ==
  {s \in 0..(taken[n] - 1) :
     LET m == Datagram(n, s)
     IN  /\ s \notin Range(ring[n]) \cup Range(batch[n])
         /\ m \notin net \cup rcvq
         /\ ~(Unsettled /\ pkt = m)
         /\ ~Whole(m)}

\* The samples that one failure may cost by the dozen: those queued on the
\* socket when the receiver ended, and those written to descriptor 0 because
\* the file could not be opened.
Spilled(n) == {s \in 0..MaxSamples : Datagram(n, s) \in dropped \cup stray}

\* Nothing is lost without a failure, and apart from the two cases of Spilled
\* each failure costs at most one sample: a failed allocation or send skips
\* one iteration of main_loop's for and not the rest of the batch that
\* read_nsamples already took out of the ring buffer, unloading the sender
\* between two batches costs nothing, and a short write is completed.
LossNeedsFault ==
  /\ Cardinality(UNION {{n} \X (Missing(n) \ Spilled(n)) : n \in Nodes})
       <= faults
  /\ \A n \in Nodes : Missing(n) # {} => faults > 0

\* A record is filed under the number of the sample it holds, however often
\* the sender was reloaded (prepare_packet's counter restarts, the sample's
\* number does not).
RecordsFaithful == \A i \in Records : file[i].rec.seq = file[i].rec.ts

\* A record cut short is the one being written, or the last one before a
\* failed write or before the receiver stopped: without failures the file
\* holds whole records only.
TornRecordNeedsFault ==
  Cardinality({i \in Records : file[i].len < RECLEN})
    <= faults + (IF rx = "record" /\ written > 0 THEN 1 ELSE 0)

\* main_loop got no socket, or one it could not bind.
NoSocket(n) == thread[n] # "start" /\ socket[n] \in {"none", "unbound"}

\* Unloading the sender ends, and not in a fault: kthread_stop waits for the
\* thread, which looks at the flag after each batch, and the socket is released
\* when no packet can be handed to it any more.  A thread that returned because
\* it got no socket is the exception: kthread_stop and sock_release are then
\* given what no longer, or never, existed.
UnloadCompletes ==
  \A n \in Nodes : stop[n] ~> ~stop[n] \/ thread[n] = "unloaded" \/ NoSocket(n)

\* Without failures every sample taken is written to the file, unless the
\* sender is unloaded while the sample waits in the ring buffer.
EventuallyRecorded ==
  \A n \in Nodes, s \in 0..(MaxSamples - 1) :
    taken[n] > s ~> \/ Whole(Datagram(n, s))
                    \/ faults > 0 \/ stop[n] \/ thread[n] = "unloaded"
=============================================================================
