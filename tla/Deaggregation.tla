--------------------------- MODULE Deaggregation ---------------------------
(***************************************************************************)
(* The deaggregation interceptor: the hook that takes aggregates apart     *)
(* (deaggregation.c), the queue of packets to inject (spin_lock_queue.c)   *)
(* and the thread that injects them (injection_thread.c).                  *)
(*                                                                         *)
(* The hook runs in the network softirq, from start to end.  What the      *)
(* thread sends is addressed to this node, so it comes back through the    *)
(* loopback device and the same hook.  One processor without preemption:   *)
(* the thread gives way in sock_sendmsg and in schedule, and the unload    *)
(* only in kthread_stop.  The queue is changed under its lock, so one call *)
(* is one step; its nodes are pointers into a heap that reuses memory.     *)
(***************************************************************************)
EXTENDS AggregateFrames, FiniteSetsExt

CONSTANTS Frames,        \* the frames that may arrive, once each
          Alone,         \* packets alone in an application level aggregate
          MAX_SCATTERS,
          Addr,          \* bound: addresses of queue nodes
          MaxFaults      \* bound: failed allocations and sends

\* Frames as the aggregation interceptor makes them: a packet has one place in
\* one frame, and only a network level aggregate has more than one part.
Some(S) == Seq(S) \ {<<>>}
PacketType == [p : DOMAIN Stamp, ts : Int]
FrameType == [proto : {"udp", "app", "ip"}, parts : Some(Some(PacketType)),
              torn : {FALSE}]
OnePlaceEach(parts) ==
  \A k, l \in DOMAIN parts : \A i \in DOMAIN parts[k] : \A j \in DOMAIN parts[l] :
     parts[k][i].p = parts[l][j].p => k = l /\ i = j

ASSUME DeaggregationAssumption ==
  /\ \A f \in Frames : f \in FrameType /\ OnePlaceEach(f.parts)
  /\ \A f \in Frames : f.proto # "ip" => Len(f.parts) = 1
  /\ \A f \in Frames : f.proto = "udp" => Len(f.parts[1]) = 1
  /\ \A f, g \in Frames : f = g \/ PacketsIn(f.parts) \cap PacketsIn(g.parts) = {}
  /\ MAX_SCATTERS \in 1..255 /\ MaxFaults \in Nat
  /\ IsFiniteSet(Addr) /\ Addr \subseteq Nat \ {0}

Packets == UNION {PacketsIn(f.parts) : f \in Frames}
NULL == 0
None == <<>>

VARIABLES
  frames,     \* frames that have not arrived yet
  queue,      \* the sl_queue_t: its ends, and the heap of allocated nodes
  thread,     \* the injection thread
  loop,       \* what is on its way through the loopback device
  module,     \* "running", "stopping" (the queue is freed) or "gone"
  crashed,    \* "no", or why the kernel stopped
  delivered,  \* what the receiver got, [p, ts]
  lost,       \* packets that were dropped
  faults      \* history: failures so far

vars == <<frames, queue, thread, loop, module, crashed, delivered, lost, faults>>

Empty == [first |-> NULL, last |-> NULL, heap |-> <<>>, stale |-> FALSE]

NodeType == [data : FrameType, next : Addr \cup {NULL}, before : Addr \cup {NULL}]

QueueType(q) ==
  /\ q = [first |-> q.first, last |-> q.last,
          heap |-> [a \in DOMAIN q.heap |-> q.heap[a]], stale |-> q.stale]
  /\ q.first \in Addr \cup {NULL} /\ q.last \in Addr \cup {NULL}
  /\ DOMAIN q.heap \subseteq Addr /\ \A a \in DOMAIN q.heap : q.heap[a] \in NodeType
  /\ q.stale \in BOOLEAN

TypeOK ==
  /\ frames \subseteq Frames
  /\ QueueType(queue)
  /\ thread \in [pc : {"start", "top", "send", "dead", "ended"},
                 packet : FrameType \cup {None}]
  /\ loop \in Seq(FrameType)
  /\ module \in {"running", "stopping", "gone"}
  /\ crashed \in {"no", "pdu", "memory", "scatters", "freed"}
  /\ delivered \in Seq(PacketType) /\ lost \subseteq DOMAIN Stamp
  /\ faults \in 0..MaxFaults

Init ==
  /\ frames = Frames /\ queue = Empty
  /\ thread = [pc |-> "start", packet |-> None] /\ loop = <<>>
  /\ module = "running" /\ crashed = "no"
  /\ delivered = <<>> /\ lost = {} /\ faults = 0

Alive == crashed = "no" /\ module # "gone"
Fault == faults < MaxFaults /\ faults' = faults + 1

-----------------------------------------------------------------------------
(* spin_lock_queue.c.  The queue grows at first and is emptied at last;    *)
(* before leads from last to first, next the other way.                    *)

Set(heap, a, node) == [b \in DOMAIN heap \cup {a} |-> IF b = a THEN node ELSE heap[b]]
Free(heap, a) == [b \in DOMAIN heap \ {a} |-> heap[b]]

\* Mutant: a new packet goes where the oldest is taken from.
Enqueue_AtLast(q, data) ==
  LET n == Min(Addr \ DOMAIN q.heap)
      new == [data |-> data, next |-> NULL, before |-> q.last]
  IN  IF q.first = NULL
      THEN [q EXCEPT !.first = n, !.last = n, !.heap = Set(@, n, new)]
      ELSE [q EXCEPT !.last = n,
                     !.heap = Set([@ EXCEPT ![q.last].next = n], n, new)]

\* kmalloc reuses the lowest free address.
Enqueue(q, data) ==
  LET n == Min(Addr \ DOMAIN q.heap)
      new == [data |-> data, next |-> q.first, before |-> NULL]
  IN  IF q.first = NULL
      THEN [first |-> n, last |-> n, heap |-> Set(q.heap, n, new),
            stale |-> q.stale]
      ELSE IF q.first \notin DOMAIN q.heap THEN [q EXCEPT !.stale = TRUE]
      ELSE [first |-> n, last |-> q.last,
            heap |-> Set([q.heap EXCEPT ![q.first].before = n], n, new),
            stale |-> q.stale]

\* Mutant: the last node is freed, but the queue still points to it.
Dequeue_Dangling(q) ==
  IF q.last \notin DOMAIN q.heap THEN [q EXCEPT !.stale = TRUE]
  ELSE [q EXCEPT !.last = IF q.first = q.last THEN @ ELSE q.heap[@].before,
                 !.heap = Free(@, q.last)]

\* The node before the freed one keeps its next pointer.
Dequeue(q) ==
  IF q.last \notin DOMAIN q.heap THEN [q EXCEPT !.stale = TRUE]
  ELSE IF q.first = q.last
  THEN [first |-> NULL, last |-> NULL, heap |-> Free(q.heap, q.last),
        stale |-> q.stale]
  ELSE [first |-> q.first, last |-> q.heap[q.last].before,
        heap |-> Free(q.heap, q.last), stale |-> q.stale]

\* free_spin_lock_queue follows next from first and frees what it meets; it
\* comes to an end if that leads to NULL through allocated nodes.
FreeEnds(q) ==
  LET size == Cardinality(DOMAIN q.heap)
      at[k \in 0..size] == IF k = 0 THEN q.first
                           ELSE IF at[k - 1] \in DOMAIN q.heap
                           THEN q.heap[at[k - 1]].next ELSE at[k - 1]
  IN  at[size] = NULL

-----------------------------------------------------------------------------
(* deaggregation.c.                                                        *)

\* Mutant: one place of the array is not used.
Scattered_Less(s) ==
  LET start == IF Len(s) >= MAX_SCATTERS THEN 1 ELSE MAX_SCATTERS - Len(s)
  IN  [j \in 1..(MAX_SCATTERS - start) |-> s[MAX_SCATTERS - start - j + 1]]

\* Mutant: in the order of the frame.
Scattered_Forward(s) == IF Len(s) > MAX_SCATTERS THEN <<>> ELSE s

\* The array is filled from its end down and read from the last place filled
\* up; the index is a uint8_t.
Scattered(s) ==
  LET start == (MAX_SCATTERS - Len(s)) % 256
      filled == MAX_SCATTERS - start
  IN  IF filled <= 0 THEN <<>> ELSE [j \in 1..filled |-> s[filled - j + 1]]

\* l3_deaggregate's ts_acc at each of n parts: it adds up the stamps written so
\* far, ts less what it was.
TsAcc(n, ts) ==
  LET acc[k \in 1..n] == IF k <= 2 THEN 0 ELSE acc[k - 1] + (ts - acc[k - 1])
  IN  acc

\* l3_deaggregate's stamps: ts is the first one, and a part's own stamp is never
\* read.
Restamped(parts) ==
  LET ts == parts[1][1].ts
  IN  [k \in DOMAIN parts |->
         [parts[k] EXCEPT ![1].ts = ts - TsAcc(Len(parts), ts)[k]]]

Inner(part) ==
  Frame(IF Len(part) > 1 \/ part[1].p \in Alone THEN "app" ELSE "udp", <<part>>)

\* What a frame is taken apart into, in the order of the frame.
Pieces(f) ==
  IF f.proto = "ip"
  THEN [k \in DOMAIN f.parts |-> Inner(Restamped(f.parts)[k])]
  ELSE [k \in DOMAIN f.parts[1] |-> Frame("udp", << <<f.parts[1][k]>> >>)]

\* The ways the hook may bring the kernel down: app_deagregate reads through
\* pdu, which it never sets, from the second packet on, and does not look at
\* what kmalloc returned; the array may be written beyond its end; and the
\* queue may be gone.
Dies(f) ==
  \/ /\ f.proto = "app" /\ Len(Pieces(f)) > 1
     /\ crashed' = "pdu" /\ UNCHANGED faults
  \/ f.proto = "app" /\ Fault /\ crashed' = "memory"
  \/ Len(Pieces(f)) > MAX_SCATTERS /\ crashed' = "scatters" /\ UNCHANGED faults
  \/ /\ module = "stopping" /\ Scattered(Pieces(f)) # <<>>
     /\ crashed' = "freed" /\ UNCHANGED faults

\* The queue after each call of inject_packet, if the calls in dropped find no
\* memory.
Queues(inj, dropped) ==
  LET q[k \in 0..Len(inj)] == IF k = 0 THEN queue
                              ELSE IF k \in dropped THEN q[k - 1]
                              ELSE Enqueue(q[k - 1], inj[k])
  IN  q

\* inject_packet for each piece; a piece there is no memory for is dropped.
Injects(f) ==
  LET inj == Scattered(Pieces(f)) IN
  \E dropped \in SUBSET DOMAIN inj :
     LET q == Queues(inj, dropped)
         kept == DOMAIN inj \ dropped
     IN  /\ \A k \in kept : DOMAIN q[k - 1].heap # Addr
         /\ faults + Cardinality(dropped) <= MaxFaults
         /\ faults' = faults + Cardinality(dropped)
         /\ queue' = q[Len(inj)]
         /\ crashed' = IF queue'.stale THEN "freed" ELSE "no"
         /\ lost' = lost \cup (PacketsIn(f.parts) \
                               UNION {PacketsIn(inj[k].parts) : k \in kept})

\* deaggregation_local_in_hook, and the receiver's socket behind it.
Hook(f) ==
  \/ /\ f.proto = "udp" /\ delivered' = Append(delivered, f.parts[1][1])
     /\ UNCHANGED <<queue, crashed, lost, faults>>
  \/ f.proto # "udp" /\ Dies(f) /\ UNCHANGED <<queue, delivered, lost>>
  \/ /\ f.proto # "udp" /\ (module = "running" \/ Scattered(Pieces(f)) = <<>>)
     /\ Injects(f) /\ UNCHANGED delivered

Arrive(f) ==
  /\ Alive /\ f \in frames /\ frames' = frames \ {f}
  /\ Hook(f) /\ UNCHANGED <<thread, loop, module>>

LoopBack ==
  /\ Alive /\ loop # <<>> /\ loop' = Tail(loop)
  /\ Hook(Head(loop)) /\ UNCHANGED <<frames, thread, module>>

-----------------------------------------------------------------------------
(* injection_thread.c.                                                     *)

\* The sockets of main_loop; without them the thread ends.
ThreadStarts ==
  /\ Alive /\ thread.pc = "start"
  /\ \/ thread' = [thread EXCEPT !.pc = "top"] /\ UNCHANGED faults
     \/ Fault /\ thread' = [thread EXCEPT !.pc = "dead"]
  /\ UNCHANGED <<frames, queue, loop, module, crashed, delivered, lost>>

\* kthread_should_stop, or the next packet.
Turn ==
  /\ Alive /\ thread.pc = "top"
  /\ IF module = "stopping"
     THEN /\ thread' = [thread EXCEPT !.pc = "ended"]
          /\ UNCHANGED <<queue, crashed>>
     ELSE LET q == Dequeue(queue) IN
          /\ queue.first # NULL
          /\ queue' = q /\ crashed' = IF q.stale THEN "freed" ELSE "no"
          /\ thread' = IF q.stale THEN thread
                       ELSE [pc |-> "send", packet |-> queue.heap[queue.last].data]
  /\ UNCHANGED <<frames, loop, module, delivered, lost, faults>>

\* send_it, kfree and schedule.
SendIt ==
  /\ Alive /\ thread.pc = "send"
  /\ thread' = [pc |-> "top", packet |-> None]
  /\ \/ loop' = Append(loop, thread.packet) /\ UNCHANGED <<lost, faults>>
     \/ /\ Fault /\ lost' = lost \cup PacketsIn(thread.packet.parts)
        /\ UNCHANGED loop
  /\ UNCHANGED <<frames, queue, module, crashed, delivered>>

Thread == ThreadStarts \/ Turn \/ SendIt

\* cleanup_module: the queue is freed, then the thread is told to stop (one
\* that has ended already is no longer there), and only then the hook goes.
StopInjectionThread ==
  /\ Alive /\ module = "running" /\ thread.pc # "start"
  /\ IF FreeEnds(queue) /\ thread.pc # "dead"
     THEN /\ module' = "stopping" /\ queue' = Empty /\ UNCHANGED crashed
          /\ lost' = lost \cup UNION {PacketsIn(queue.heap[a].data.parts) :
                                        a \in DOMAIN queue.heap}
     ELSE crashed' = "freed" /\ UNCHANGED <<module, queue, lost>>
  /\ UNCHANGED <<frames, thread, loop, delivered, faults>>

UnregisterInterceptor ==
  /\ Alive /\ module = "stopping" /\ thread.pc = "ended"
  /\ module' = "gone"
  /\ UNCHANGED <<frames, queue, thread, loop, crashed, delivered, lost, faults>>

-----------------------------------------------------------------------------
Next == \/ \E f \in Frames : Arrive(f)
        \/ LoopBack \/ Thread \/ StopInjectionThread \/ UnregisterInterceptor

Spec == Init /\ [][Next]_vars

\* The thread never sleeps for long, and the softirq follows what it sends.
FairSpec == Spec /\ WF_vars(Thread) /\ WF_vars(LoopBack)

-----------------------------------------------------------------------------
(* Properties.                                                             *)

\* The queue's nodes from last to first, and what they hold.
Walk(q) ==
  LET at[k \in 1..Cardinality(DOMAIN q.heap)] ==
        IF k = 1 THEN q.last
        ELSE IF at[k - 1] \in DOMAIN q.heap THEN q.heap[at[k - 1]].before ELSE NULL
  IN  at
Contents ==
  [k \in 1..Cardinality(DOMAIN queue.heap) |->
     IF Walk(queue)[k] \in DOMAIN queue.heap THEN queue.heap[Walk(queue)[k]].data
     ELSE None]

Abstract == INSTANCE InjectionQueue WITH items <- Contents, hand <- thread.packet

\* The linked nodes of spin_lock_queue.c are a queue: every packet the hook
\* put in reaches the thread, once and in order, whatever memory is reused.
RefinesQueue == Abstract!Spec

FrameOf(p) == CHOOSE f \in Frames : p \in PacketsIn(f.parts)
PartOf(p) == CHOOSE part \in Range(FrameOf(p).parts) : p \in PacketsIn(<<part>>)
Nested(p) == FrameOf(p).proto = "ip" /\ Inner(PartOf(p)).proto = "app"

\* p has its place in the frame after q: the aggregation interceptor pushes in
\* front, so it pushed p earlier.
PushedBefore(p, q) ==
  LET parts == FrameOf(q).parts IN
  \E k, l \in DOMAIN parts : \E i \in DOMAIN parts[k] : \E j \in DOMAIN parts[l] :
     /\ parts[k][i].p = p /\ parts[l][j].p = q
     /\ k > l \/ (k = l /\ i > j)

\* Packets that came in one frame reach the receiver once and in the order in
\* which they were pushed into it, though the frame has them the other way
\* round and they go through the array, the queue and the loopback device.  The
\* packets of an aggregate inside an aggregate go round twice, and so fall
\* behind the others.
PushOrder ==
  \A i, j \in DOMAIN delivered :
     LET p == delivered[i].p
         q == delivered[j].p
     IN  (i < j /\ FrameOf(p) = FrameOf(q)) =>
            /\ p # q
            /\ Nested(p) = Nested(q) => PushedBefore(p, q)

\* A packet that has arrived is delivered in the end, if no allocation or send
\* failed, its frame was not in more pieces than the array has places, and the
\* module stays (the loops of deaggregation.c 85 and 150, the thread).
EventuallyDelivered ==
  \A p \in Packets :
     FrameOf(p) \notin frames ~>
       \/ p \in {d.p : d \in Range(delivered)}
       \/ p \in lost /\ (faults > 0 \/ Len(Pieces(FrameOf(p))) > MAX_SCATTERS)
       \/ crashed # "no" \/ thread.pc = "dead" \/ module # "running"

\* Neither the hook nor the thread follows a pointer into a freed node: the
\* next pointer that dequeue leaves behind is only met by the unload
\* (spin_lock_queue.c 44, 68 and 93).
NoStalePointer == ~queue.stale

\* The receiver gets every packet with the stamp it was sent with
\* (aggregation.c 220 stamps each packet relative to the next,
\* deaggregation.c 122 keeps track of the stamps).
StampsRestored == \A d \in Range(delivered) : d.ts = Stamp[d.p]
=============================================================================
