---------------------------- MODULE Aggregation ----------------------------
(***************************************************************************)
(* The aggregation interceptor: the per-destination buffers                *)
(* (byte_buffer.c) and the lists they are on (klist.c), the two netfilter  *)
(* hooks that fill and flush them (aggregation.c) and the thread that      *)
(* flushes them from time to time (consuela.c).                            *)
(*                                                                         *)
(* One processor without preemption: a hook called for a packet of this    *)
(* node, or for what consuela sends, is in process context and is only     *)
(* interrupted by the network softirq, whose hook for a forwarded packet   *)
(* runs from start to end.  The buffer's lock is held inside single calls  *)
(* (peek, length, push, reset), so each access is a step of its own.  The  *)
(* lists have no lock, so each store that extends one is.                  *)
(*                                                                         *)
(* A part is what one push stores.  A packet of the node passes LOCAL_OUT  *)
(* ("app") and then POST_ROUTING ("ip"), a forwarded one only the latter.  *)
(* The rules match every packet of the model.                              *)
(***************************************************************************)
EXTENDS AggregateFrames, FiniteSets

CONSTANTS Own, Forwarded,  \* packets of this node, and of others
          Dst,             \* per packet: its destination
          Levels,          \* the levels that are switched on
          BufferLen,       \* per level: size of a buffer
          HDR,             \* length of an IP header; a datagram has length 1
          MaxFaults        \* bound: failed allocations and sends

Packets == Own \cup Forwarded

ASSUME AggregationAssumption ==
  /\ Own \cap Forwarded = {}
  /\ Stamp \in [Packets -> Int]
  /\ \A p \in Packets : Dst[p] # "null"
  /\ Levels # {} /\ Levels \subseteq {"app", "ip"}
  /\ BufferLen \in [Levels -> Nat] /\ HDR \in Nat /\ MaxFaults \in Nat

NULL == [ip |-> "null", data |-> <<>>]   \* a list node without a buffer
None == <<>>

VARIABLES
  todo,      \* packets not handed in yet
  list,      \* per level: the nodes made so far, [ip, data]; a node is its
             \* place here, and 0 is a NULL pointer
  links,     \* per level: the klist, and the front pointers of the nodes
  proc,      \* the hook that runs in process context
  consuela,  \* the flushing thread
  module,    \* "running", "stopping", "stopped", "freed" or "gone"
  crashed,   \* "no", or why the kernel stopped
  gone,      \* per packet: how often it left the node, readable
  lost,      \* packets dropped, or sent in a frame nobody can take apart
  leaving,   \* the frame that left in the latest step, or None
  raced,     \* history: a softirq changed a buffer a hook was using
  faults     \* history: failures so far

vars == <<todo, list, links, proc, consuela, module, crashed, gone, lost, leaving,
          raced, faults>>

NoNodes == [made |-> TRUE, first |-> 0, last |-> 0, front |-> <<>>, cut |-> FALSE]
Idle == [pc |-> "idle", level |-> "ip", skb |-> None, buf |-> 0, prev |-> 0,
         off |-> 0, put |-> 0, copied |-> <<>>, torn |-> FALSE]
Started == [pc |-> "start", level |-> "ip", it |-> 0, hold |-> <<>>,
            dangling |-> FALSE]

\* init_buffers, which does not look at what make_klist returned.
Init ==
  /\ todo = Packets
  /\ list = [l \in Levels |-> <<>>]
  /\ \E failed \in SUBSET Levels :
       /\ links = [l \in Levels |-> [NoNodes EXCEPT !.made = l \notin failed]]
       /\ faults = Cardinality(failed) /\ faults <= MaxFaults
  /\ proc = Idle /\ consuela = Started
  /\ module = "running" /\ crashed = "no"
  /\ gone = [p \in Packets |-> 0] /\ lost = {}
  /\ leaving = None /\ raced = FALSE

-----------------------------------------------------------------------------
(* Frames and byte_buffer.c.                                               *)

DstOf(skb) == Dst[skb.parts[1][1].p]

\* At the network level a part has its own IP header.
Size(l, part) == (IF l = "ip" THEN HDR ELSE 0) + Len(part)

\* The distance of each part of a buffer from the buffer's end.
Distance(l, data) ==
  LET d[k \in 1 .. Len(data) + 1] ==
        IF k = Len(data) + 1 THEN 0 ELSE d[k + 1] + Size(l, data[k])
  IN  d

\* buffer_data_len.
DataLen(l, data) == Distance(l, data)[1]

\* peek_packet gives a pointer; off is its distance from the buffer's end.  The
\* packet that starts there is stamped relative to the new one.  (A pointer
\* that went stale may hit free memory, or the middle of a packet, whose
\* contents are not followed any further.)
Relative(l, data, off, new) ==
  [k \in DOMAIN data |->
     IF off # 0 /\ Distance(l, data)[k] = off
     THEN [data[k] EXCEPT ![1].ts = new[1].ts - @] ELSE data[k]]

\* Mutant: the new packet's own length is left out.
NoRoom_Old(l, data, part) == DataLen(l, data) >= BufferLen[l]

\* The test before a push, which keeps one byte free.
NoRoom(l, data, part) == DataLen(l, data) + Size(l, part) >= BufferLen[l]

\* What a flush sends: the new packet and then the buffered ones.
Aggregate(l, part, data) ==
  IF l = "app" THEN Frame("app", << part \o FlattenSeq(data) >>)
               ELSE Frame("ip", <<part>> \o data)

-----------------------------------------------------------------------------
Alive == crashed = "no" /\ module # "gone"
Working(pc) == Alive /\ proc.pc = pc
Fault == faults < MaxFaults /\ faults' = faults + 1

L == proc.level
Part == proc.skb.parts[1]
Data == list[L][proc.buf].data
SetData(d) == list' = [list EXCEPT ![L][proc.buf].data = d]

\* A frame leaves the node.
Out(skb) ==
  IF skb.torn
  THEN /\ lost' = lost \cup PacketsIn(skb.parts)
       /\ leaving' = None /\ UNCHANGED gone
  ELSE /\ gone' = [p \in Packets |-> gone[p] +
                     (IF p \in PacketsIn(skb.parts) THEN 1 ELSE 0)]
       /\ leaving' = skb /\ UNCHANGED lost

Stays == leaving' = None /\ UNCHANGED <<gone, lost>>

Enter(l, skb) == [Idle EXCEPT !.pc = "lookup", !.level = l, !.skb = skb]

\* NF_ACCEPT: on to the next hook, or out.
Accept(skb) ==
  IF L = "app" /\ "ip" \in Levels
  THEN proc' = Enter("ip", skb) /\ Stays
  ELSE proc' = Idle /\ Out(skb)

-----------------------------------------------------------------------------
(* The hooks in process context.                                           *)

\* The node's process sends its next packet.
Send(p) ==
  /\ Working("idle") /\ module \in {"running", "stopping"}
  /\ p \in todo /\ todo' = todo \ {p}
  /\ \A q \in Own \cap todo : Stamp[p] <= Stamp[q]
  /\ proc' = Enter(IF "app" \in Levels THEN "app" ELSE "ip",
                   Frame("udp", <<Plain(p)>>))
  /\ Stays /\ UNCHANGED <<list, links, consuela, module, crashed, raced, faults>>

\* The nodes an iterator comes to, and then NULL.
Walk(l) ==
  LET cur[n \in 1..Len(list[l])] ==
        IF n = 1 THEN links[l].first
        ELSE IF cur[n - 1] = 0 THEN 0 ELSE links[l].front[cur[n - 1]]
  IN  cur
Reached(l) == DOMAIN list[l] \cap Range(Walk(l))

\* Where the search for a buffer ends: its node, or 0.
Place(l, ip) ==
  LET at == Walk(l)
      hits == {n \in DOMAIN list[l] : /\ at[n] \in DOMAIN list[l]
                                      /\ list[l][at[n]].ip \in {ip, "null"}}
  IN  IF hits = {} THEN 0 ELSE at[Min(hits)]
MeetsNull(l, ip) == Place(l, ip) # 0 /\ list[l][Place(l, ip)] = NULL

\* get_app_buffer_for, get_ip_buffer_for: the search.  Without an iterator it
\* finds nothing; a node without a buffer is dereferenced.
Lookup ==
  LET k == Place(L, DstOf(proc.skb))
  IN  /\ Working("lookup")
      /\ \/ /\ MeetsNull(L, DstOf(proc.skb))
            /\ crashed' = "null" /\ UNCHANGED <<proc, faults>>
         \/ /\ ~MeetsNull(L, DstOf(proc.skb))
            /\ proc' = IF k = 0 THEN [proc EXCEPT !.pc = "create"]
                       ELSE [proc EXCEPT !.pc = "peek", !.buf = k]
            /\ UNCHANGED <<crashed, faults>>
         \/ /\ links[L].made /\ Fault
            /\ proc' = [proc EXCEPT !.pc = "create"] /\ UNCHANGED crashed
      /\ Stays /\ UNCHANGED <<todo, list, links, consuela, module, raced>>

\* A list that add_klist_node_to_klist cannot extend: there is none, or its
\* last pointer is NULL though its first one is not.
Broken(kl) == ~kl.made \/ (kl.first # 0 /\ kl.last = 0)

\* The new buffer and its node, and what add_klist_node_to_klist reads.  If there
\* is no memory for the buffer, the node has none; if there is none for the node,
\* a NULL pointer goes on the list, or is dereferenced.
Create ==
  LET kl == links[L]
      Links(k) == proc' = [proc EXCEPT !.pc = "link", !.buf = k,
                             !.prev = IF kl.first = 0 THEN 0 ELSE kl.last]
      Makes(b) == /\ list' = [list EXCEPT ![L] = Append(@, b)]
                  /\ links' = [links EXCEPT ![L].front = Append(@, 0)]
                  /\ Links(Len(list[L]) + 1)
  IN  /\ Working("create")
      /\ \/ /\ Broken(kl) /\ crashed' = "null"
            /\ UNCHANGED <<list, links, proc, faults>>
         \/ /\ ~Broken(kl) /\ Makes([ip |-> DstOf(proc.skb), data |-> <<>>])
            /\ UNCHANGED <<crashed, faults>>
         \/ ~Broken(kl) /\ Fault /\ Makes(NULL) /\ UNCHANGED crashed
         \/ /\ ~Broken(kl) /\ Fault /\ kl.first = 0
            /\ Links(0) /\ UNCHANGED <<list, links, crashed>>
         \/ /\ ~Broken(kl) /\ Fault /\ kl.first # 0
            /\ crashed' = "null" /\ UNCHANGED <<list, links, proc>>
      /\ Stays /\ UNCHANGED <<todo, consuela, module, raced>>

\* The stores of add_klist_node_to_klist: last and then first of a list that was
\* found empty, otherwise the front pointer of the node that was found last, and
\* then last.
Link ==
  /\ Working("link")
  /\ links' = [links EXCEPT ![L] =
       IF proc.prev = 0 THEN [@ EXCEPT !.last = proc.buf]
                        ELSE [@ EXCEPT !.front[proc.prev] = proc.buf]]
  /\ proc' = [proc EXCEPT !.pc = "last"]
  /\ Stays /\ UNCHANGED <<todo, list, consuela, module, crashed, raced, faults>>

\* A packet without a buffer goes on.  A buffer without a node is on no list, and
\* what is pushed into it is lost.
LinkLast ==
  /\ Working("last")
  /\ links' = [links EXCEPT ![L] =
       IF proc.prev = 0 THEN [@ EXCEPT !.first = proc.buf]
                        ELSE [@ EXCEPT !.last = proc.buf]]
  /\ IF proc.buf # 0
     THEN IF list[L][proc.buf] = NULL THEN Accept(proc.skb)
          ELSE proc' = [proc EXCEPT !.pc = "peek", !.prev = 0] /\ Stays
     ELSE IF proc.skb.proto = "ip" THEN Accept(proc.skb)
     ELSE IF NoRoom(L, <<>>, Part)
     THEN Accept([Aggregate(L, Part, <<>>) EXCEPT !.torn = proc.skb.torn])
     ELSE /\ lost' = lost \cup PacketsIn(proc.skb.parts)
          /\ proc' = Idle /\ leaving' = None /\ UNCHANGED gone
  /\ UNCHANGED <<todo, list, consuela, module, crashed, raced, faults>>

\* peek_packet; what is aggregated already at this level is let through.
Peek ==
  /\ Working("peek")
  /\ IF proc.skb.proto = "ip" THEN Accept(proc.skb)
     ELSE proc' = [proc EXCEPT !.pc = "stamp", !.off = DataLen(L, Data)] /\ Stays
  /\ UNCHANGED <<todo, list, links, consuela, module, crashed, raced, faults>>

\* Mutant: the previous packet keeps its stamp.
StampPrevious_Not ==
  /\ Working("stamp")
  /\ proc' = [proc EXCEPT !.pc = "decide"]
  /\ Stays
  /\ UNCHANGED <<todo, list, links, consuela, module, crashed, raced, faults>>

StampPrevious ==
  /\ Working("stamp")
  /\ SetData(Relative(L, Data, proc.off, Part))
  /\ proc' = [proc EXCEPT !.pc = "decide"]
  /\ Stays /\ UNCHANGED <<todo, links, consuela, module, crashed, raced, faults>>

Decide ==
  /\ Working("decide")
  /\ proc' = [proc EXCEPT !.pc = IF NoRoom(L, Data, Part) THEN "expand"
                                                          ELSE "push"]
  /\ Stays /\ UNCHANGED <<todo, list, links, consuela, module, crashed, raced, faults>>

\* push_bytes and NF_STOLEN; the hook panics if the bytes do not fit.  What is
\* pushed is read from the packet's IP header on, so a failed flush at the
\* other level does not show.
Push ==
  /\ Working("push")
  /\ IF DataLen(L, Data) + Size(L, Part) <= BufferLen[L]
     THEN /\ SetData(<<Part>> \o Data)
          /\ proc' = Idle /\ UNCHANGED crashed
     ELSE crashed' = "panic" /\ UNCHANGED <<list, proc>>
  /\ Stays /\ UNCHANGED <<todo, links, consuela, module, raced, faults>>

\* A failed expansion: the buffer is reset and the packet goes on as it is, at
\* the application level without its IP header.
ExpandFails ==
  /\ Fault
  /\ SetData(<<>>)
  /\ LET skb == [proc.skb EXCEPT !.torn = L = "app" \/ @]
     IN  IF L = "app" /\ "ip" \in Levels
         THEN /\ proc' = Enter("ip", skb)
              /\ lost' = lost \cup PacketsIn(Data)
              /\ leaving' = None /\ UNCHANGED gone
         ELSE /\ proc' = Idle
              /\ lost' = lost \cup PacketsIn(Data)
                           \cup (IF skb.torn THEN PacketsIn(skb.parts) ELSE {})
              /\ IF skb.torn THEN leaving' = None /\ UNCHANGED gone
                 ELSE /\ leaving' = skb
                      /\ gone' = [p \in Packets |-> gone[p] +
                           (IF p \in PacketsIn(skb.parts) THEN 1 ELSE 0)]

\* flush_buffer_app and flush_buffer_ip: make room for the buffered data.
Expand ==
  /\ Working("expand")
  /\ \/ /\ proc' = [proc EXCEPT !.pc = "put", !.put = DataLen(L, Data)]
        /\ Stays /\ UNCHANGED <<list, faults>>
     \/ Data # <<>> /\ ExpandFails
  /\ UNCHANGED <<todo, links, consuela, module, crashed, raced>>

\* skb_put, which panics beyond the room there is.
Put ==
  /\ Working("put")
  /\ crashed' \in IF DataLen(L, Data) > proc.put THEN {"no", "panic"} ELSE {"no"}
  /\ proc' = [proc EXCEPT !.pc = "copy", !.put = DataLen(L, Data)]
  /\ Stays /\ UNCHANGED <<todo, list, links, consuela, module, raced, faults>>

Copy ==
  /\ Working("copy")
  /\ proc' = [proc EXCEPT !.pc = "total", !.copied = Data,
                          !.torn = DataLen(L, Data) # proc.put]
  /\ Stays /\ UNCHANGED <<todo, list, links, consuela, module, crashed, raced, faults>>

\* The new header and its tot_len.  Only at the network level may there be no
\* room for it: at the other, it takes the place of the old one.
Total ==
  /\ Working("total")
  /\ \/ /\ proc' = [proc EXCEPT !.pc = "reset",
                                !.torn = @ \/ DataLen(L, Data) # proc.put]
        /\ Stays /\ UNCHANGED <<list, faults>>
     \/ L = "ip" /\ ExpandFails
  /\ UNCHANGED <<todo, links, consuela, module, crashed, raced>>

\* Mutant: the flushed packets stay in the buffer.
Reset_Not ==
  /\ Working("reset")
  /\ Accept([Aggregate(L, Part, proc.copied) EXCEPT
               !.torn = proc.torn \/ proc.skb.torn])
  /\ UNCHANGED <<todo, list, links, consuela, module, crashed, raced, faults>>

\* reset_buffer and NF_ACCEPT.
Reset ==
  /\ Working("reset")
  /\ SetData(<<>>)
  /\ Accept([Aggregate(L, Part, proc.copied) EXCEPT
               !.torn = proc.torn \/ proc.skb.torn])
  /\ UNCHANGED <<todo, links, consuela, module, crashed, raced, faults>>

Hook == \/ Lookup \/ Create \/ Link \/ LinkLast \/ Peek \/ StampPrevious
        \/ Decide \/ Push \/ Expand \/ Put \/ Copy \/ Total \/ Reset

-----------------------------------------------------------------------------
(* The network softirq: the post-routing hook for a forwarded packet.      *)

\* The hook in process context is extending the list, or using the buffer.
Extending == proc.level = "ip" /\ proc.pc \in {"link", "last"}
Using(k) ==
  /\ proc.level = "ip" /\ proc.buf = k
  /\ proc.pc \in {"stamp", "decide", "push", "expand", "put", "copy", "total",
                  "reset"}

\* __push_ip_packet on buffer k of the list bufs, after n failures so far.
ForwardInto(f, bufs, k, n) ==
  LET data == Relative("ip", bufs[k].data, DataLen("ip", bufs[k].data), Plain(f))
      full == NoRoom("ip", data, Plain(f))
      Buffered(d) == list' = [list EXCEPT !["ip"] = [bufs EXCEPT ![k].data = d]]
  IN  /\ raced' = (raced \/ Using(k)) /\ UNCHANGED crashed
      /\ \/ /\ ~full /\ Buffered(<<Plain(f)>> \o data)
            /\ Stays /\ faults' = n
         \/ /\ full /\ Buffered(<<>>)
            /\ Out(Aggregate("ip", Plain(f), data)) /\ faults' = n
         \/ /\ full /\ n < MaxFaults /\ faults' = n + 1 /\ Buffered(<<>>)
            /\ lost' = lost \cup PacketsIn(data)
            /\ gone' = [gone EXCEPT ![f] = @ + 1]
            /\ leaving' = Frame("udp", <<Plain(f)>>)

\* add_klist_node_to_klist.
Extended(kl, k) ==
  LET new == IF kl.first = 0 THEN [kl EXCEPT !.first = k, !.last = k]
             ELSE [kl EXCEPT !.front[kl.last] = k, !.last = k]
  IN  [new EXCEPT !.cut = @ \/ Extending]

\* get_ip_buffer_for finds no buffer and makes one.
ForwardCreates(f, n) ==
  LET old == list["ip"]
      kl == links["ip"]
      k == Len(old) + 1
      Makes == links' = [links EXCEPT !["ip"] =
                           Extended([kl EXCEPT !.front = Append(@, 0)], k)]
  IN
  \/ /\ Broken(kl) /\ crashed' = "null" /\ faults' = n
     /\ Stays /\ UNCHANGED <<list, links, raced>>
  \/ /\ ~Broken(kl) /\ Makes
     /\ ForwardInto(f, Append(old, [ip |-> Dst[f], data |-> <<>>]), k, n)
  \/ /\ ~Broken(kl) /\ n < MaxFaults /\ faults' = n + 1 /\ UNCHANGED raced
     /\ \/ /\ list' = [list EXCEPT !["ip"] = Append(old, NULL)] /\ Makes
           /\ Out(Frame("udp", <<Plain(f)>>)) /\ UNCHANGED crashed
        \/ /\ kl.first = 0
           /\ links' = [links EXCEPT !["ip"] = Extended(kl, 0)]
           /\ IF NoRoom("ip", <<>>, Plain(f))
              THEN Out(Aggregate("ip", Plain(f), <<>>))
              ELSE lost' = lost \cup {f} /\ leaving' = None /\ UNCHANGED gone
           /\ UNCHANGED <<list, crashed>>
        \/ kl.first # 0 /\ crashed' = "null" /\ Stays /\ UNCHANGED <<list, links>>

Forward(f) ==
  LET k == Place("ip", Dst[f])
      Dies(why) == crashed' = why /\ Stays /\ UNCHANGED <<list, links, raced, faults>>
  IN  /\ Alive /\ "ip" \in Levels /\ f \in todo /\ todo' = todo \ {f}
      /\ \/ module = "freed" /\ Dies("freed")
         \/ module # "freed" /\ MeetsNull("ip", Dst[f]) /\ Dies("null")
         \/ /\ module # "freed" /\ k # 0 /\ ~MeetsNull("ip", Dst[f])
            /\ ForwardInto(f, list["ip"], k, faults) /\ UNCHANGED links
         \/ module # "freed" /\ k = 0 /\ ForwardCreates(f, faults)
         \/ /\ module # "freed" /\ faults < MaxFaults
            /\ ForwardCreates(f, faults + 1)
      /\ UNCHANGED <<proc, consuela, module>>

-----------------------------------------------------------------------------
(* consuela.                                                               *)

Cleaning(pc) == Working("idle") /\ consuela.pc = pc

\* start_consuela and the sockets of main_loop.  Without a thread its error
\* pointer is freed; without a socket the thread ends.
ConsuelaStarts ==
  /\ Cleaning("start")
  /\ \/ /\ consuela' = [consuela EXCEPT !.pc = "loop"]
        /\ UNCHANGED <<crashed, faults>>
     \/ /\ Fault
        /\ \/ consuela' = [consuela EXCEPT !.pc = "dead"] /\ UNCHANGED crashed
           \/ crashed' = "kfree" /\ UNCHANGED consuela
  /\ Stays /\ UNCHANGED <<todo, list, links, proc, module, raced>>

\* build_and_send_packets starts with the buffers of level l, or skips them
\* for want of a list or of an iterator.
At(pc, l) ==
  [consuela EXCEPT !.pc = pc, !.level = l, !.dangling = FALSE,
     !.it = IF l \in Levels THEN links[l].first ELSE 0]

Begin(l) ==
  \/ consuela' = At("take", l) /\ UNCHANGED faults
  \/ l \in Levels /\ links[l].made /\ Fault /\ consuela' = [At("take", l) EXCEPT !.it = 0]

\* One turn of main_loop: kthread_should_stop, or the application level first.
ConsuelaLoops ==
  /\ Cleaning("loop")
  /\ IF module = "stopping"
     THEN consuela' = [consuela EXCEPT !.pc = "ended"] /\ UNCHANGED faults
     ELSE Begin("app")
  /\ Stays /\ UNCHANGED <<todo, list, links, proc, module, crashed, raced>>

\* Mutant: only the application level is flushed.
LevelDone_AppOnly ==
  /\ Cleaning("take") /\ consuela.it = 0
  /\ consuela' = [consuela EXCEPT !.pc = "loop"]
  /\ Stays /\ UNCHANGED <<todo, list, links, proc, module, crashed, raced, faults>>

\* The end of the list: the network level, or msleep.
LevelDone ==
  /\ Cleaning("take") /\ consuela.it = 0
  /\ IF consuela.level = "app" THEN Begin("ip")
     ELSE consuela' = [consuela EXCEPT !.pc = "loop"] /\ UNCHANGED faults
  /\ Stays /\ UNCHANGED <<todo, list, links, proc, module, crashed, raced>>

\* klist_iterator_next and mv_data, which copies the data out and empties the
\* buffer under its lock, or has no memory for the copy.  A node without a
\* buffer is dereferenced.  With nothing to copy, buffered keeps its value,
\* and is freed again when it is not NULL.
Take ==
  LET l == consuela.level
      b == list[l][consuela.it]
      next == links[l].front[consuela.it]
      Nothing == IF consuela.dangling
                 THEN crashed' = "kfree" /\ UNCHANGED consuela
                 ELSE /\ consuela' = [consuela EXCEPT !.it = next]
                      /\ UNCHANGED crashed
  IN  /\ Cleaning("take") /\ consuela.it # 0
      /\ \/ /\ b = NULL /\ crashed' = "null"
            /\ UNCHANGED <<list, consuela, faults>>
         \/ /\ b # NULL /\ b.data = <<>>
            /\ Nothing /\ UNCHANGED <<list, faults>>
         \/ /\ b # NULL /\ b.data # <<>>
            /\ Fault /\ Nothing /\ UNCHANGED list
         \/ /\ b # NULL /\ b.data # <<>>
            /\ list' = [list EXCEPT ![l][consuela.it].data = <<>>]
            /\ consuela' = [consuela EXCEPT !.pc = "send", !.it = next,
                                            !.hold = b.data]
            /\ UNCHANGED <<crashed, faults>>
      /\ Stays /\ UNCHANGED <<todo, links, proc, module, raced>>

\* The packet is built and sent through the raw socket, and so through the
\* hooks; or there is no memory for it, or the socket refuses it.
SendIt ==
  LET l == consuela.level
      skb == Aggregate(l, Head(consuela.hold), Tail(consuela.hold))
      Sent(d) == consuela' = [consuela EXCEPT !.pc = "take", !.hold = <<>>,
                                              !.dangling = d]
  IN  /\ Cleaning("send")
      /\ \/ /\ Sent(FALSE) /\ UNCHANGED faults
            /\ IF "ip" \in Levels THEN proc' = Enter("ip", skb) /\ Stays
               ELSE Out(skb) /\ UNCHANGED proc
         \/ /\ Fault /\ \E noMemory \in BOOLEAN : Sent(noMemory)
            /\ lost' = lost \cup PacketsIn(consuela.hold)
            /\ leaving' = None /\ UNCHANGED <<proc, gone>>
      /\ UNCHANGED <<todo, list, links, module, crashed, raced>>

Consuela == ConsuelaStarts \/ ConsuelaLoops \/ LevelDone \/ Take \/ SendIt

-----------------------------------------------------------------------------
(* cleanup_module.                                                         *)

\* stop_consuela: kthread_stop; a thread that has ended already is no longer
\* there.
StopConsuela ==
  /\ Working("idle") /\ module = "running" /\ consuela.pc # "start"
  /\ IF consuela.pc = "dead" THEN crashed' = "freed" /\ UNCHANGED module
     ELSE module' = "stopping" /\ UNCHANGED crashed
  /\ Stays /\ UNCHANGED <<todo, list, links, proc, consuela, raced, faults>>

\* kthread_stop returns and has given the task back; the kernel may or may not
\* survive the kfree of it.
FreeConsuela ==
  /\ Working("idle") /\ module = "stopping" /\ consuela.pc = "ended"
  /\ module' = "stopped" /\ crashed' \in {"no", "kfree"}
  /\ Stays /\ UNCHANGED <<todo, list, links, proc, consuela, raced, faults>>

AllBuffered == UNION {UNION {PacketsIn(b.data) : b \in Range(list[l])} :
                        l \in Levels}

\* free_buffers, while the hooks are still registered.  free_buffer releases a
\* lock that it does not hold, and dereferences a node without a buffer.
FreeBuffers ==
  LET nodes == UNION {{list[l][k] : k \in Reached(l)} : l \in Levels}
  IN  /\ Working("idle") /\ module = "stopped"
      /\ crashed' \in {IF NULL \in nodes THEN "null" ELSE "no"} \cup
                      (IF nodes \ {NULL} # {} THEN {"unlock"} ELSE {})
      /\ IF crashed' = "no"
         THEN /\ module' = "freed" /\ lost' = lost \cup AllBuffered
              /\ list' = [l \in Levels |-> <<>>]
              /\ links' = [l \in Levels |-> NoNodes]
              /\ leaving' = None /\ UNCHANGED gone
         ELSE Stays /\ UNCHANGED <<list, links, module>>
      /\ UNCHANGED <<todo, proc, consuela, raced, faults>>

UnregisterInterceptor ==
  /\ Working("idle") /\ module = "freed" /\ module' = "gone"
  /\ Stays /\ UNCHANGED <<todo, list, links, proc, consuela, crashed, raced, faults>>

Cleanup == FreeConsuela \/ FreeBuffers \/ UnregisterInterceptor

-----------------------------------------------------------------------------
Next == \/ \E p \in Own : Send(p)
        \/ \E p \in Forwarded : Forward(p)
        \/ Hook \/ Consuela \/ StopConsuela \/ Cleanup

Spec == Init /\ [][Next]_vars

\* A hook that has started goes on, consuela wakes up after its sleep and
\* cleanup_module goes on when consuela has ended.
FairSpec == Spec /\ WF_vars(Hook) /\ WF_vars(Consuela) /\ WF_vars(Cleanup)

-----------------------------------------------------------------------------
(* Properties.                                                             *)

Stamped == [p : Packets, ts : Int]
NonEmpty == Seq(Stamped) \ {<<>>}
Parts == Seq(NonEmpty)
Frames == [proto : {"udp", "app", "ip"}, parts : Parts \ {<<>>}, torn : BOOLEAN]
Buffers == [ip : {Dst[p] : p \in Packets} \cup {"null"}, data : Parts]

TypeOK ==
  /\ todo \subseteq Packets /\ lost \subseteq Packets
  /\ list \in [Levels -> Seq(Buffers)]
  /\ links \in [Levels -> [made : BOOLEAN, first : Nat, last : Nat,
                            front : Seq(Nat), cut : BOOLEAN]]
  /\ proc \in [pc : {"idle", "lookup", "create", "link", "last", "peek", "stamp",
                     "decide", "push", "expand", "put", "copy", "total", "reset"},
               level : {"app", "ip"}, skb : Frames \cup {None}, buf : Nat,
               prev : Nat, off : Nat, put : Nat, copied : Parts, torn : BOOLEAN]
  /\ consuela \in [pc : {"start", "loop", "take", "send", "ended", "dead"},
                   level : {"app", "ip"}, it : Nat, hold : Parts,
                   dangling : BOOLEAN]
  /\ leaving \in Frames \cup {None}
  /\ module \in {"running", "stopping", "stopped", "freed", "gone"}
  /\ crashed \in {"no", "null", "panic", "freed", "kfree", "unlock"}
  /\ gone \in [Packets -> Nat] /\ raced \in BOOLEAN /\ faults \in 0..MaxFaults

InHand == (IF proc = Idle THEN {} ELSE PacketsIn(proc.skb.parts))
            \cup PacketsIn(consuela.hold)
Held(p) == p \in AllBuffered \cup InHand

\* The places a packet is in.
Places(p) ==
  (UNION {{<<l, k>> : k \in {j \in DOMAIN list[l] :
                               p \in PacketsIn(list[l][j].data)}} : l \in Levels})
  \cup {h \in {<<"proc", 0>>} : proc # Idle /\ p \in PacketsIn(proc.skb.parts)}
  \cup {h \in {<<"consuela", 0>>} : p \in PacketsIn(consuela.hold)}
  \cup {h \in {<<"lost", 0>>} : p \in lost}

\* A packet that an application or a neighbour handed to the hooks is in one
\* place at a time: in one buffer, in the hands of the hook or of consuela,
\* sent, or dropped.  It is dropped only after a failed allocation or send or
\* by an unload.  This holds as long as no softirq came between the calls of a
\* hook on the buffer that both use (aggregation.c 194-265, consuela.c 72-107).
Conserved ==
  ~raced => \A p \in Packets \ todo :
              /\ crashed = "no" => gone[p] + Cardinality(Places(p)) = 1
              /\ p \in lost => faults > 0 \/ module \in {"freed", "gone"}

\* However a frame came about (a full buffer at either level, consuela, one
\* level inside the other), the stamps of all its packets can be recovered
\* from it by adding up, unless a softirq came between the calls of a hook
\* (the timestamp updates of aggregation.c 197 and 251).
StampsRecoverable ==
  (leaving # None /\ ~raced) => Recoverable(leaving)

\* The kernel goes down only for a reason: an allocation or the socket failed
\* before, a softirq came between the length check and the push or copy of a
\* hook (the panic of aggregation.c 205 and 260), or the module is being
\* unloaded: stop_consuela frees the task once more (consuela.c 155), free_buffer
\* releases a lock nobody holds (byte_buffer.c 32), and a softirq finds the
\* buffers freed and the hook still registered (cleanup_module).
CrashNeedsCause ==
  /\ crashed = "null" => faults > 0
  /\ crashed = "kfree" => faults > 0 \/ module = "stopped"
  /\ crashed = "unlock" => module = "stopped"
  /\ crashed = "panic" => raced
  /\ crashed = "freed" => module = "freed" \/ (consuela.pc = "dead" /\ faults > 0)

\* A packet in a buffer that no search and no flush comes to, because a softirq
\* extended the list between the stores with which a hook extended it.
Stranded(p) ==
  \E l \in Levels : /\ links[l].cut
                    /\ \E k \in DOMAIN list[l] \ Reached(l) :
                          p \in PacketsIn(list[l][k].data)

\* A packet that was handed in does not stay in the node: the buffer fills or
\* consuela empties it (flush_timeout), unless consuela found no socket, or the
\* buffer was cut off its list (klist.c 65-72).
EventuallySent ==
  \A p \in Packets :
     p \notin todo ~> \/ ~Held(p) \/ Stranded(p)
                      \/ crashed # "no" \/ consuela.pc = "dead"

=============================================================================
