# TLA+ models of mia_vita

mia_vita is the software of a network of seismic sensor nodes (TS-7500 boards).
On each node a kernel module samples a four-channel ADC in an interrupt handler
and stamps every sample with time kept by a GPS pulse; a kernel thread sends the
samples over UDP through a mesh network; a receiver on the sink appends them to
a JSON file. Around that: GPS drivers, modified vendor tools that share the FPGA
bus with the interrupt handler, a packet interception framework for the kernel
with an aggregation and a deaggregation interceptor, and a patch in the wireless
driver that accounts for the delay of packets.

This directory models that system in TLA+, checks the models with TLC and proves
the central ones with TLAPS. `PROJECT.json` lists every component, run, mutant,
finding, hazard and theorem, and maps every definition to its lines.

## 1. The system

| Part | State | Operations | Hard about it |
|---|---|---|---|
| Sample ring (`interruption/proc_entry.c`) | `CIRC_BUFFER`, `last_write`, `last_read` | `write_to_buffer` (interrupt), `read_nsamples` (thread) | no lock: the interrupt comes between any two instructions of the reader; wrap; overrun |
| Interrupt handler (`interruption/int.c`) | elapsed seconds and microseconds, base time of the last pulse, multiplexer state | `interrupt`, `handle_gps_int`, `handle_adc_int`, `calculate_usecs` | two edges share one handler and one clear; kernel clock and pulse have any phase |
| FPGA bus (`int.c`, `modified_binaries/sdctl`, `xuartctl`) | System V semaphore, mark bit in the GPIO trigger register | `sbuslock`, `sbusunlock`, `sbuspreempt`, `is_fpga_used` | two exclusion mechanisms that are not updated together; tools that die |
| Byte layout (`fpga.c`, `userland_reader.c`, `receiver/list.c`) | twelve bytes of a sample | `read_four_channels`, `separate_channels`, `two_complement`, `write_json` | 24-bit values through 16, 32 and 8-bit groups, sign boundary |
| Sender (`kernel_sender/sender_kthread.c`) | batch, socket, stop flag | `init_module`, `main_loop`, `prepare_packet`, `send_it`, `cleanup_module` | partial failure inside a batch, unload against a running thread |
| Receiver (`kernel_sender/receiver/main.c`, `list.c`) | socket and its queue, file, `first` | `bind_socket`, `open_output_files`, `serve`, `write_json`, `cleanup` | datagram loss and duplication, short writes, interruption and restart on the same file |
| Clock setting (`receiver/init_counter.c`) | tries left | polls the driver, asks for the time, sets both clocks | check, then ask |
| Condor GPS driver (`gps_time/trimble_condor`) | `gps_state`, circular buffer, pending query | reader thread, `process_msg`, `getGPStimeUTC` | two condition variables, a state that is both status and wait condition |
| Lassen GPS driver (`gps_time/trimble_lassen_iq`) | the same, and a pending position query | as above, `getGPSLLA`, `lookup_packet` | two kinds of waiters on one condition variable; framing with doubled bytes |
| Interceptor framework (`fred_framework`) | lists of interceptors, rules and filters, filter chains, /proc cache | register and unregister, hooks | lists edited while traffic passes |
| Aggregation (`fred_framework/interceptors/aggregation`) | per destination and level a byte buffer, filled from its end; the lists of them | `aggregation_local_out_hook`, `aggregation_post_routing_hook`, the flushing thread (`consuela.c`), load and unload | a lock per call, not per operation, and none for the lists; a softirq between calls; failed allocations half way; shutdown order |
| Deaggregation (`fred_framework/interceptors/deaggregation`) | array of pieces, queue of packets to inject | `deaggregation_local_in_hook`, the injection thread, load and unload | order through an array, a linked queue and the loopback device; limit of the array; freed nodes; shutdown order |
| Delay accounting (`rt2501/.../sync_proto.c`, `filter_chains.c`, `proc_filters.c`) | time stamps in packets, the array of filters | `synch_out_data_packet`, `synch_in_data_packet`, `procfile_write` | clocks that differ; a frame changed after it was handed over; filters edited while packets pass |

The pieces meet at six places: the ring (interrupt handler writes, sender
reads), the FPGA bus (handler and tools), the packet format (sender and
receiver), the kernel's clock, which `init_counter` sets from the GPS before
the interrupt module is loaded (`arm_scripts/network.sh`), the frames that one
interceptor makes and the other takes apart, and the time stamp in a packet,
which the sender, the interceptors and the driver all rewrite.

What makes each part correct is stated as properties in its module; the list of
hazards in `PROJECT.json` says which property would catch what.

## 2. Modules

| Module | Models | Composes / is composed by |
|---|---|---|
| `CircBuffer` | the ring, with `read_nsamples` split where the interrupt matters | implements `SampleFifo` |
| `SampleFifo` | abstract: what the ring promises | |
| `SampleClock` | the interrupt handler and its time stamps | |
| `FpgaBus` | tools and handler on the bus | its `is_fpga_used` is the `busy` of `SampleClock` |
| `SampleCodec` | the bytes of a sample from the ADC to the printed numbers | |
| `Delivery` | ring (as a FIFO), sender thread, UDP, receiver, file | takes the ring at the level of `SampleFifo` |
| `GpsCondor` | Condor driver and `init_counter` | |
| `GpsLassen` | Lassen driver, state machine and queries | takes the buffer as a queue |
| `DleFraming` | `lookup_packet` of the Lassen driver | |
| `InterceptorFramework` | interceptors, rules, filter chains, hooks and the /proc listing of `fred_framework` | |
| `AggregateFrames` | aggregated frames and the stamps in them | shared by the next two |
| `Aggregation` | the aggregation interceptor | guarantees `Recoverable` frames |
| `Deaggregation` | the deaggregation interceptor | takes any frames of that form; implements `InjectionQueue` |
| `InjectionQueue` | abstract: the queue between the hook and the injection thread | |
| `DelayStamps` | delay accounting in the rt2501 driver over several hops | |
| `MC*` | instances for TLC | |
| `IntModProofs` | theorems about `CircBuffer`, `SampleClock`, `FpgaBus` and `SampleCodec`, the parts of the sampling kernel module | extends all four, whose names are kept apart for it (`RingInit`, `BusInit`, `CodecInit`) |
| `GpsLassenProofs` | theorems about `GpsLassen` and `DleFraming` | extends both |
| `DeliveryProofs`, `GpsCondorProofs`, `InterceptorFrameworkProofs`, `AggregationProofs`, `DeaggregationProofs`, `DelayStampsProofs` | theorems about the component they are named after | each extends its component |

Names of actions and variables are those of the code where TLA+ allows it.
Operators with a suffix (`Commit_ToLastWrite`) that stand before the operator
they are named after are faulty variants: a property is only kept if one of them
violates it.

### CircBuffer

The indices are `last_write` and `last_read`, the slots `CIRC_BUFFER`. Samples
are numbered; a slot holds one number, or the mark of a slot being written.
`write_to_buffer` is one action because it runs in interrupt context on a single
processor. `read_nsamples` is split at each read of `last_write` and at each copy
(`Enter`, `CheckEmpty`, `Compare`, `CountWrapped`, `CountAhead`, `KmallocFails`,
`KmallocSucceeds`, `CopyHead`, `CopyData`, `Commit`). Subtraction is modulo the
width of the index (`UINT32`). A history variable records that the writer has
lapped the reader; from then on the code promises nothing and neither do the
properties.

### SampleClock

Time is counted in ticks (`USECS` to the second). The pulse falls at every whole
second, the kernel's clock runs at any fixed `phase` to it, the ADC may signal in
any tick. Edges latch in `status`; `interrupt` handles data-ready first and a
pulse only when it is alone; `interrupt_return` clears both. Whether the bus is
busy is a free choice in each interrupt. The kernel clock is taken as exact; the
branch for an interrupt without any latched edge cannot be reached and is left
out, as are the watchdog write and the messages.

### FpgaBus

Each tool walks through `semget`, the creator's `semop`, the blocking `semop`
with `SEM_UNDO`, the load and the store of the mark, its transfer, and back (`tool`
holds where each one is). The interrupt preempts tools anywhere and runs to
completion (`interrupt_enter`, `interrupt_exit`). `die` is the `exit(1)`
of `sbuspreempt`. `sbusyield` and the hand-over in `sbuspreempt` are an unlock
followed by a lock.

### SampleCodec

`BASE` is the number of values of a byte. A behaviour takes one set of four
readings through `read_four_channels` and then through one of the two decoders.
`MCConversions` checks it together with `DleFraming`: both are conversions of one
input, and a behaviour runs one of them.

### Delivery

One action per step of `main_loop` and of `serve`/`write_json` at which a failure
or another actor can come in. The file is the sequence of pieces written to it:
punctuation and records with the number of parts written (`RECLEN`). Failures
draw on one budget (`MaxFaults`): failed socket calls, allocations, sends, reads,
opens and writes, lost and duplicated datagrams, interruption of the receiver, and
loads whose thread cannot be started. Datagrams on their way (`net`) and datagrams
that wait in the receiver's socket (`rcvq`) are apart: a receiver that ends, by
interruption or because `recvfrom` failed, takes the whole queue with it
(`CloseAll`), and a receiver whose `open` failed writes every record to descriptor 0.
These two are the samples of `Spilled`, which one failure may cost in any number;
`LossNeedsFault` says that nothing is missing without a failure and that everything
else missing is at most one sample per failure.

`cleanup_module` is `kthread_stop` and `sock_release`. While it waits the thread goes
on, and a thread that handed a packet to a socket that is not open any more would end
in a fault ("oops"): `UnloadCompletes` covers the order of the two. A thread that got
no socket has returned by itself; then `kthread_stop` is given a task that may be gone
(it returns, faults, or waits for ever) and `sock_release` a NULL pointer when
`sock_create` failed, or a socket that is not bound. `NoSocket` is that exception.
When `kthread_run` fails, `init_module` passes an error code to `kfree`: the load fails
or faults.
A packet's time stamp and number are abstracted to the number of its sample; the
byte order conversion is a permutation undone by its inverse and is left to
`SampleCodec` for the part that is not.

### GpsCondor, GpsLassen, DleFraming

`process_msg` holds the mutex from one wait to the next; the other threads run
their critical sections as single actions while it waits. `pthread_cond_signal`
wakes one waiter of the model's choice; with `Spurious` a wait may end unsignalled.
In `GpsCondor` a sentence is two cells of the circular buffer, its head and its
tail, and `read()` returns any run of the stream that continues where the last one
ended (`Reads`), so that sentences straddle reads and reads straddle the end of the
buffer.
`ProcessorExits` are the ways `process_msg` ends the program: data that does not
start with '$', and a quality or antenna status it does not know.
`GpsLassen` takes the buffer as a queue of packets and lets the device send any packet
at any time (it reports health and position by itself and answers requests), also
faster than they are taken: when the buffer is full, `output_from_gps` calls `exit(1)`.
What the device sends before `init_gps` is ignored, so the first bytes stored may be
the rest of a packet; `lookup_packet` exits over them unless they happen to look like a
packet (`ProcessRest`). Two history variables say what a caller met while it waited: `lost`, a loss of the
fix, and `crossed`, a pending query of the other kind.
`DleFraming` is one call of `lookup_packet`, byte by byte, on every buffer that
can hold the start of a frame, or a frame without its first byte (`missed`), which
ends the program. `init_counter`'s number of polls is abstracted: it
finds the device ready or gives up.

### InterceptorFramework

Operations (`register_interceptor`, `create_rule`, `remove_rule`,
`unregister_interceptor`) run in process context, one at a time: the boards have
one processor and a kernel without preemption. Netfilter hooks run to the end
between any two stores of an operation, so `op` holds the operation's program
point and locals, and every store to a chain that a hook can see (`first`,
`front`, `len`) is a step. Stores that only other operations read (`back`,
`last`) go with the step next to them. A klist node is named by the filter it
holds; the lists of interceptors and rules, which no hook reads, are sequences.
`nf_hook` stands for the five hooks, which are copies of each other; which rules
match a packet is a free choice. Each interceptor's filters are a constant
(`FiltersOf`), since `create_rule_for_specs_cb` is the interceptor's own.

### AggregateFrames, Aggregation

A frame is a sequence of parts and a part a sequence of packets, the latest pushed
first in both, because a network level aggregate may hold application level ones.
A packet carries its stamp; `Stamp` is what it was when the packet was created.

A hook is a process (`proc`) that does one call on the buffer per step: `Lookup`,
`Create`, `Link`, `LinkLast`, `Peek`, `StampPrevious`, `Decide`, `Push`, or `Expand`, `Put`, `Copy`,
`Total`, `Reset`. The buffer's lock is held inside each of these and not between
them. `Forward` is the same post-routing hook for a packet that the softirq
forwards, from start to end, between any two of these steps; `raced` records that
it used the buffer a hook was using. `Data` is the sequence of parts in a buffer
and `DataLen` its length in bytes as the code computes it; the pointer that
`peek_packet` hands out is its distance from the buffer's end, so that a pointer
that went stale hits what the code would hit. `consuela` walks both lists with
`Take` (`mv_data`) and `SendIt`, whose packet goes through the post-routing hook.
Every allocation, expansion and send may fail (`Fault`), `make_klist` in
`init_buffers` included.

The lists of buffers have no lock. `links` has the pointers of each list (`first`,
`last`, and `front` of every node), and `Create`, `Link` and `LinkLast` are the read and
the two stores of `add_klist_node_to_klist`, in the order of the source: `last` and then
`first` of an empty list, otherwise the `front` of the last node and then `last`
(`back`, which nobody reads here, is left out). `list` has all nodes ever made; `Walk`
is what an iterator comes to. A softirq that adds a buffer between the two stores cuts a
node off (`cut`), and `Stranded` are the packets in it, which consuela never visits.

`StopConsuela`, `FreeConsuela`, `FreeBuffers` and `UnregisterInterceptor` are
`cleanup_module`. `stop_consuela` frees the task that `kthread_stop` has given back, and
`free_buffer` releases a lock it does not hold, once per buffer. Both are undefined and
are taken to bring the kernel down ("kfree", "unlock") or to have no effect.

Left out or simplified: the `switch`
over a Boolean in the post-routing hook has no `case` and so no effect; packets of
one node are sent in the order of their stamps; the memory of sent packets is never
freed, which is not followed. On two processors the nested `spin_lock_bh` in `peek_packet` and
`push_bytes` would deadlock; the boards have one.

### Deaggregation, InjectionQueue

`Hook` takes a frame apart into `Pieces`, with the stamps `Restamped`, orders them
by `Scattered` (the array is filled from its end down with a `uint8_t` index and
read upwards) and adds them to the queue. The queue's nodes are addresses in a
heap, and a new node gets the lowest free one, so a freed address comes back at
once. `Turn` and `SendIt` are the injection thread; what it sends returns through
`LoopBack` and the same hook. `StopInjectionThread` frees the queue before the
thread is stopped, as the code does. `Queues` is the queue after each
`inject_packet` of one call of the hook, any of which may find no memory.

`InjectionQueue` is the queue the two sides rely on; the linked nodes implement it
(`RefinesQueue`). The two interceptors are composed by what passes between them:
`Deaggregation` assumes of the frames it gets only their form
(`DeaggregationAssumption`): only a network level aggregate has several parts, a plain
packet is alone, and a packet has one place in one frame, which `Conserved` is about.
Stamps are free, since a node that forwards for several others pushes packets in any
order of their stamps; the order kept is that of pushing (`PushOrder`). What the stamps
should be is asked in `deaggregation_stamps`, whose frames are `Recoverable`, as
`StampsRecoverable` guarantees (`FramesAssumption` in `MCDeaggregation`).
Injected packets on a node that aggregates as well are not followed, nor is an
initialisation that fails (then there is no thread and no hook).

### DelayStamps

Nodes in a row, each with a clock of its own `Offset`. `Submit`, `SynchOut` and
`Transmit` are apart because the driver converts the stamp after it has handed the
frame to the controller, which may read it before (`intact` records it). A frame that
the controller refuses is not converted and not tried again. `SynchIn`
is the reception at the next node. A filter has what `mkfilter` was given, and
`MkFilter` is what it makes of it: it swaps the ports. `Register...`, `Unregister`,
`Uncount` and `Memmove` are the stores of a command, with the packet handlers
between them; `chains[nfilters++] = f` may be compiled in either order. Reading
freed memory has any result, reading a pointer torn by `memmove` also a crash.
`match_filter` accepts a packet when the addresses agree or the ports do, and a
field that was not given agrees with everything, so a filter with only addresses or
only ports accepts every packet.

## 3. Runs

All passing runs explore their whole state space. `CHECK_DEADLOCK FALSE` appears
where a bound on samples, packets, ticks or restarts ends the behaviour, or where
the program itself may end.

| Run | Bounds | Shows |
|---|---|---|
| `ring` | ring of 4 slots, 9 writes: two wraps and more; a word of 64 and a kmalloc limit of 8 slots | delivery in order, refinement of the FIFO, the reader stays behind, samples are delivered |
| `bus` | both tools, deaths allowed | the handler is off a tool's bus unless the tool came in through the window in `sbusunlock`; granting, clearing of the mark |
| `clock` | 3 ticks a second, 13 ticks: four pulses, all phases | stamps exact while pulses are handled, within a second otherwise |
| `conversions` | samples: one-bit bytes, all 4096 sets of readings; packets: up to 4 bytes over {DLE, ETX, two others}, 12-byte buffer, every offset and every number of bytes received, with or without the first byte | both decoders restore every channel; packets are found when whole and restored |
| `delivery` | 2 samples, 2 failures, 2 loads, records in 2 parts | loss and tearing are bounded by failures, unloading ends without a fault, samples arrive |
| `condor` | two clients, buffer of 4 cells, reads of up to 2 | the buffer, what 0 means, queries are answered |
| `lassen` | two time clients and a position client, a buffer for 1 packet, which the second overruns | what 0 means and who is answered, through losses, resets and queries that cross |
| `framework` | two interceptors of different priority in one chain, 3 rules of 2 or 3 filters, chains of at most 3: insertion at the head, in the middle and at the end, full chains | chains follow the rules, packets in the middle of an operation, memory, callbacks, listing, termination |
| `aggregation` | 2 packets of the node, 2 forwarded, 2 destinations, both levels, 1 failure; buffers that hold one packet (application) and two packets or one aggregate (network) | conservation, stamps, causes of crashes, nothing stays behind |
| `deaggregation` | 3 frames of 10 packets: one nested, one that fills the array of 3, one that overflows it; 7 nodes of memory; 1 failure | refinement of the queue, order, no stale pointer on the packets' path, delivery |
| `deaggregation_stamps` | same | finding: the stamps are not restored |
| `delay` | 3 nodes, 1 packet, 3 filters, an array of 3 that starts with 2, 3 commands anywhere, 2 ticks | the stamp through the hops, the chain of filters, what the handlers read |

The bounds are small because each component has few distinguishable situations:
the ring behaves the same for every size once it can be empty, partly full,
wrapped and full; the clock needs a missed pulse, a second missed pulse and a
recovery (four seconds); the delivery properties relate single samples to single
failures, and the second failure meets a state the first has already disturbed; a
query lasts from one time sentence to the next; a chain needs a head, a middle and
an end. For `aggregation` the node's two packets fill the application level once, or wait
there for consuela; one forwarded packet shares a network level buffer with them and
can fill it, and one needs a buffer of its own, which is what a race on a buffer, a race
on the list and a second list node take; the exceptions named in the properties all
occur. In `deaggregation` the three frames
are the three cases of the array (below, at and above its size) and of nesting, and
the first has its stamps out of order.
Two hops show a relay, which converts in both directions; one packet is enough
because packets do not meet in the driver. With 3 commands a filter can be
removed from the front, and the array filled and run over.

### Fairness

* `CircBuffer`: the reader thread is scheduled (weak fairness); interrupts are not
  forced.
* `FpgaBus`: the handler returns; tools in `sbuslock` or `sbusunlock` run in spite
  of the interrupt, which comes at a fixed low rate (strong fairness); System V
  semaphores serve waiters; nobody is forced to ask for the bus.
* `Delivery`: the sender thread and the receiver are scheduled and a datagram that
  is not lost arrives at a receiver that listens (weak fairness). Failures are never forced or excluded; the
  liveness properties allow for them explicitly.
* `GpsCondor`, `GpsLassen`: threads are scheduled and a mutex that is free again
  and again is obtained (strong fairness for the clients); the receiver keeps
  sending the sentences it was configured to send once a second.
* `InterceptorFramework`: an operation that has started goes on between interrupts
  (weak fairness).
* `Aggregation`: a hook that has started goes on, consuela wakes up after its
  `msleep`, an unload that has begun goes on (weak fairness each); no packet and no
  unload is forced.
* `Deaggregation`: the injection thread is scheduled (it polls with `schedule`), and
  the softirq runs for what it sent (weak fairness).
* `DelayStamps` states safety only.

## 4. Findings

One run shows a disagreement of the code with what it says of itself.
`deaggregation_stamps`: the aggregation interceptor replaces every stamp but the
latest by the time to the next packet, and `deaggregation.c` says it keeps track of
them, but it never reads the differences. At the network level the latest and the
second packet get the latest's stamp and all others 0; at the application level
only the first packet's stamp is written, and the sum goes through a pointer that is
never set.

The models contain more behaviour of this kind that is stated as the exception in
a property, not as a run of its own:

* the ring does not notice that its writer has lapped the reader (`overrun` in
  `CircBuffer`);
* `sbusunlock` gives the semaphore back before it clears the mark, so the clear of
  one tool can wipe the mark of the next and the interrupt handler reads the ADC in
  the middle of a transfer (`raced` in `FpgaBus`), and a tool killed inside its
  section leaves its mark behind (`orphaned`);
* a pulse that is latched beside a data-ready edge is cleared unseen and costs a
  second (`missed` in `SampleClock`);
* 0x800000 is printed with a positive sign (`ReadingRestored`);
* every JSON file starts with a comma, and a receiver that finds no interface
  serves unbound (`WriteSeparator`, `bind_socket` in `Delivery`); a receiver that ends
  loses what its socket had queued, and one that got no file writes its records to
  descriptor 0 (`Spilled`); an unload after a failed `sock_create` or `bind` stops a
  thread that is gone and calls `sock_release(NULL)` (`NoSocket`);
* a Condor client is not told of a lost fix, and one that is woken spuriously is
  told 0 without a time (set `Spurious` to TRUE in `MCGpsCondor.cfg` and
  `ZeroMeansRead` fails); a stream joined in mid-sentence, a full buffer or a status
  that is not known ends the program (`ProcessorExits`, `output_from_gps`);
* a Lassen client can be told 0 without a time when the fix comes back quickly
  (`lost`), or when a time packet ends a position query that was accepted before
  the answered time query had run; and of two such queries one can be left waiting
  for ever, because the one signal went to the other (`crossed`); a stream joined in
  mid-packet or a full buffer ends the program (`exit1` in `QueryAnswered`);
* `unregister_rules_for_interceptor` does not move past a rule of another
  interceptor, so unloading one of two interceptors with rules never ends
  (`ForeignRule` in `OperationReturns`); a filter inserted at the head of a chain
  hides the others for a moment (`BystandersSeen`), and a rule's specification is
  freed behind the first of its filters that is removed, while the others are still in
  their chains (`HooksReadLiveMemory`);
* `consuela.c:5` calls the buffers "interrupt and thread safe": single calls are,
  but a softirq between the calls of a hook can lose or repeat packets, spoil stamps
  and make the push panic (`raced` in `Aggregation`), and one between the two stores
  that extend the list of buffers cuts a buffer off with the packets in it
  (`Stranded` in `EventuallySent`); an allocation that fails leaves a list node without
  a buffer or a freed pointer that is freed again, and an unload frees consuela's task
  a second time, releases locks nobody holds and frees the buffers before the hooks are
  gone (`CrashNeedsCause`);
* a frame of more packets than `MAX_SCATTERS` (27; a frame of 1500 bytes holds 34
  application level packets) overruns the array and nothing of it is injected, and
  the unload of the deaggregation interceptor may follow the dangling `next` pointers
  of the queue (`EventuallyDelivered`, `NoStalePointer`);
* packets of an aggregate inside an aggregate are delivered after the others of the
  frame (`PushOrder`);
* removing a filter other than the last leaves freed or torn pointers in the
  driver's chain, because `memmove` is given a number of pointers (`moved` in
  `DelayStamps`); the 256th filter empties the chain; the stamp is late by the time
  from its conversion to the reception, which includes waiting in the controller,
  and a frame the controller read early carries an unconverted stamp (`intact`).

## 5. Proofs

The theorems hold for every value of the constants that satisfies the named
assumption of the module; TLC evaluates those assumptions on the instances of
section 3. They are about the specification without fairness (`Spec`, or `RingSpec`,
`BusSpec`, `CodecSpec` and `FramingSpec` where a module has several components).
Every safety property of the passing runs is stated by a theorem. The inductive
invariants were checked with TLC on small instances before they were proved.

| Module | Theorem | Property | For every |
|---|---|---|---|
| `IntModProofs` | `InOrderDelivery` | `InOrder` | ring size above one, number of writes, word and kmalloc limit such that a full batch can be allocated and a count below zero cannot (`WordAssumption`; the code's values satisfy it) |
| | `ReaderBehind` | `ReaderStaysBehind` (an action property) | same |
| | `Refinement` | `RefinesFifo`: the ring implements `SampleFifo` | same |
| | `HandlerExclusion` | `HandlerExcludedUnlessRaced` | set of tools, with or without deaths |
| | `ToolExclusion` | tools exclude one another | same |
| | `ExactStamps` | `StampExact` | ticks in a second, phase of the kernel clock, length of the run |
| | `BoundedStampError` | `StampErrorBounded` | same |
| | `MultiplexerSelected` | `MuxSelected` | same |
| | `ReadingRestoredAlways` | `ReadingRestored` | even number of values of a byte (256 in the code) |
| `DeliveryProofs` | `FaithfulRecords` | `RecordsFaithful` | set of nodes, numbers of samples, failures, loads, parts of a record |
| | `BoundedLoss` | `LossNeedsFault` | same |
| | `BoundedTearing` | `TornRecordNeedsFault` | same |
| | `SocketOutlivesThread` | the socket is open while the thread may send on it | same |
| `GpsCondorProofs` | `FaithfulBuffer` | `BufferFaithful` | number of clients, size of the buffer and of a read |
| | `ZeroOnlyWhenRead` | `ZeroMeansRead`, if waits end only when signalled (`~Spurious`) | same |
| `GpsLassenProofs` | `ZeroMeansRead` | `ZeroMeansReadUnlessDisturbed` | number of clients of both kinds, length of the queue |
| | `FoundWhenWholeAlways` | `FoundWhenWhole` | packet of any length, place in the buffer and number of bytes received, in a buffer with room for one frame |
| | `PayloadRestoredAlways` | `PayloadRestored` | same |
| `InterceptorFrameworkProofs` | `ChainsMatchRulesAlways` | `ChainsMatchRules` | finite set of interceptors, chains, filters of each, priorities, number of rules, limit of a chain |
| | `BystandersSeenAlways` | `BystandersSeen` | same |
| | `HooksReadLiveMemoryAlways` | `HooksReadLiveMemory` | same |
| | `NoDanglingCallbackAlways` | `NoDanglingCallback` | same |
| | `ListingFreshAlways` | `ListingFresh` | same |
| `AggregationProofs` | `CrashNeedsCauseAlways` | `CrashNeedsCause` | packets, destinations and stamps, one level or both, sizes of the buffers, number of failures |
| | `ConservedAlways` | `Conserved` | same |
| | `StampsRecoverableAlways` | `StampsRecoverable` | same |
| `DeaggregationProofs` | `NoStalePointers` | `NoStalePointer` | frames of the form the aggregation interceptor makes, whatever their stamps, size of the array, memory, failures |
| | `OrderKept` | `PushOrder` | same |
| | `QueueRefinement` | `RefinesQueue`: the linked nodes implement `InjectionQueue` | same |
| `DelayStampsProofs` | `StampCorrect` | `StampTracksCreation` | number of nodes, clock offsets, filters, packets, size of a pointer |
| | `ChainCorrect` | `ChainIntact` | same, and length of the array |
| | `HandlersReadFilters` | `ReadsFilters` | same |

Each module also proves `TypeCorrect`, that its `TypeOK` is an invariant, and states
its inductive invariant as `Invariant`; for the components that share a module these
are `RingTypeCorrect`, `RingInvariant`, `BusTypeCorrect`, `BusInvariant`,
`CodecInvariant` and `FramingInvariant` (and `TypeAndBuffer` for the buffer of
`GpsCondor`).

Two assumptions were added for proofs. `AggregationAssumption` says that no packet has
the destination "null", by which the model tells a list node without a buffer; the code
tells it by the pointer. `FrameworkAssumption` says that there are finitely many
interceptors and at least one rule may be created.

Three things in the models were put right because a proof failed. `HooksReadLiveMemory`
left out a point of `free_rule_and_unregister_filters` at which a hook can read the
freed specification: between the removal of the second filter and the `kfree` of its
memory, which only a rule of three filters or more shows. The property now allows for
it, and one interceptor of the instance has three filters. The bound
of `Places` in `Conserved` fell short of the number of buffers when failures leave
several empty list nodes behind. And `TypeOK` of `Aggregation` was too weak to say what
a hook holds between two calls.

### The inductive invariants

None of the properties is inductive as it stands.

* `CircBuffer`: what `Commit` delivers depends on what the local variables of
  `read_nsamples` stood for when they were read and on what the interrupt has
  written since. The invariant says at every program point which samples the slots between
  the indices hold, that the count taken from `last_write` covers only samples
  already written, and that the copy made so far equals them (`RingInv`). The refinement adds
  that the batch committed is the front of what the indices enclose; `ModuleValue`,
  `ModuleIndex` and `MinusValue` are the facts about `%` it all rests on.
* `FpgaBus`: the handler's test of the mark is only as good as the tools' own
  exclusion. `OneOwner` says that the semaphore has one holder, or is being created,
  and `MarkKept` that while a holder that did not race has it, nobody else is about
  to clear the mark.
* `SampleClock`: `PulseInv` counts the ticks since the last pulse that was handled or
  lost (a full second exactly while one is pending) and `BaseInv` relates the
  recorded kernel time to a pulse. The second is a symbol, so products of it need
  lemmas of their own (`NoMultiple`).
* `SampleCodec`: no step follows another that could disturb it; the work is in the
  numbers. Six 16-bit words and four 24-bit readings are the same twelve digits in a
  base that is a symbol; `DivisionIs` (quotient and remainder are unique) gives
  `QuadBytes` and `ReadingBytes`, that each group of digits is read back as it was
  written, and `Signed` is the last step, where the base has to be even.
* `Delivery`: the proof is a count. Every step keeps each sample that is in the ring,
  a batch, the network, the receiver's socket or hands, or the file (`Kept`), except for
  one in a step that is itself a failure, and for those that join `Spilled`, which takes
  a failure as well (`SpillNeedsFault`); `SocketHeld` says that a thread that may send
  has its socket; torn records are counted the same way, with one to
  spare while a record is being written (`Partial`).
* `GpsCondor`: `BufferFaithful` is inductive with the types, by circular arithmetic
  over the two indices. For the answers, `AnswerInv` says that at most one
  client waits, the one whose time is to be filled, and that it is signalled only
  once that is done.
* `GpsLassen`: `UndisturbedQuery` says that while a thread waits that neither the
  other kind of query nor a lost fix has disturbed, the state is that of its query:
  open, or answered with its result filled.
* `DleFraming`: `Layout` gives each byte of a packet its offset in the frame, one more
  for each doubled byte before it. While the search goes on, `ScanAt` says that it is
  before a byte of the packet with an even number of DLEs counted, between the two of a
  doubled one with an odd number, or at the DLE of the frame's end: so an ETX after an
  odd number is the end. During the shift, `Intact` says which bytes are still where
  they arrived and `Placed` which have reached their place; the place written is always
  behind the byte read and less than a round away from it, because a frame is
  shorter than the buffer (`e + 3 < MSG_BUF_SIZE`).
* `InterceptorFramework`: every chain stands for a sequence of filters (`Holds`): those
  the rules give it as far as the operation in progress has come (`Expected`), in the
  order of their priorities. For each store of an operation the invariant says whether
  `first`, the counter or the new node's pointers are ahead of that sequence (`Heads`,
  `Counts`, `FreshOK`), and that memory is given back only behind filters that are
  still in a chain (`MemoryOK`). A hook's walk along `front` then meets the filters of
  the sequence, or the new head alone.
* `Aggregation`: `IInv` is `Core`, `LinkInv` and `StopInv`. `LinkInv` says that
  the pointers of a list lead to its nodes or nowhere, at every moment between two
  stores, and that a list which cannot be extended (`Broken`) takes a failure: `last` is
  set before `first`, so a softirq that comes in between does not find a first node
  without a last one (`ExtendInv`). `StopInv` says that the buffers are freed after
  consuela has ended. `Core` has three layers. `Basis` says what a hook relies on between two of its
  calls on a buffer: that the buffer it found is still in the list, and, unless the
  softirq raced with it, that what it read of its length and contents still holds
  (`ReadInv`); the causes of crashes follow. `PlaceInv` says that each packet is in
  exactly one place: a buffer, the hands of a hook or of consuela, sent or lost.
  `StampInv` says which difference each stamp stands for; a buffer whose latest packet
  has been restamped awaits the packet of the hook that did it (`Awaiting`).
* `Deaggregation`: the queue's heap holds a path from `last` to `first` that visits
  every allocated node once (`Chain`); `EnqueueLinked` and `DequeueLinked` keep it
  though the lowest free address is used again. What was delivered, what is in the
  loopback device, in the thread's hands and on that path is one line of units
  (`Line`), in which no packet is twice and none stands before one of its frame and kind
  that was pushed earlier (`Ordered`). An aggregate inside an aggregate leaves the
  line where it stands and its packets join at the end, so `Apart` says as well that
  a nested packet already on its way was not pushed after those of an aggregate that
  still has to go round. Every step moves the line: it adds at the end or at the
  boundary of the delivered part, removes a unit, or shifts a boundary.
* `DelayStamps`: `PacketInv` relates the stamp to the packet's history at each point of
  its way; `CommandInv` and `ChainInv` say what the array holds between any two
  stores of a command, on nodes where only last filters were removed.

The library's induction principles take an operator as a parameter and cannot be
used here. Where a recursive function had to be unfolded (`Walk`, `Queues`, `TsAcc`
in `Deaggregation`, the walk of a hook in `InterceptorFramework`, the lengths of
`Aggregation`, `FlattenSeq` in `DleFraming`) the least counterexample is taken instead
(`LeastNat`, `SetInduction`, from the library's well-foundedness of `<`).

### Only model-checked

* liveness, because fairness and `ENABLED` are outside the prover's reach:
  `EventuallyDelivered` and the other temporal properties of the runs that are not
  in the table (`MarkCleared`, `BusGranted`, `UnloadCompletes`, `EventuallyRecorded`,
  `QueryAnswered`, `OperationReturns`, `EventuallySent`);
* that the specifications deadlock nowhere but where the system may stop, which is
  about `ENABLED` as well;
* `StampsRestored`, which is violated (section 4).

## 6. Not modelled

The interceptor shell (a command line that writes one request to /proc); of the
framework, the text of the listing and its buffer (whose offset is never reset), the
parsing of requests, and running out of kernel memory; of the delay accounting, the
fail and retry counters, which no one reads back, the UDP checksum, and the listing of
the filters; `procfile_read` of the ring, whose comment says that it is out of date and
unused; register configuration at load time; argument parsing; the floating point
conversions of the GPS drivers; offline tools; vendored code (cross compiler, wireless
drivers, wpa_supplicant, iperf), which makes up nearly all lines of the repository. The
submodules (kernel, time stamp module, visualisation) are not in the repository.

## 7. What is left

Every part with concurrent or failing behaviour of its own has a module, and every
safety property of the passing runs is proved for all values of the constants. What is
left:

* liveness stays with TLC (section 5);
* the interceptors are composed by assumption and guarantee (the form of frames),
  each side proved of its own module; a module in which both run at
  once, with a node that aggregates what it has just taken apart, would show what
  happens to packets that go round;
* `Delivery` takes the ring at the level of `SampleFifo`, which `Refinement` justifies
  for runs without an overrun; after one the ring promises nothing, and neither does
  `Delivery` follow it;
* the parts of section 6 that have state: the framework's listing buffer and the fail
  and retry counters of the delay accounting.
