---------------------------- MODULE DelayStamps ----------------------------
(***************************************************************************)
(* The delay accounting of the modified rt2501 driver: each node turns a   *)
(* packet's stamp into an age when it hands the packet to the USB          *)
(* controller and back into a stamp of its own clock when it receives it   *)
(* (sync_proto.c), for the packets its filters select (filter_chains.c,    *)
(* proc_filters.c and mkfilter).                                           *)
(*                                                                         *)
(* The nodes are 1, 2, ... in a row; packets go from 1 to the last.  Each  *)
(* node has a clock with an offset of its own that runs at the right rate. *)
(* The controller reads the frame by itself, and synch_out_data_packet is  *)
(* called after the frame was handed over: it may come too late.  A        *)
(* command written to /proc/synch_filters runs in process context, and the *)
(* packet handlers come between any two of its stores.                     *)
(*                                                                         *)
(* The handlers' parsing is one test, selected by the filters; the fail    *)
(* and retry counters that the packet also carries are left out, and so is *)
(* the checksum.                                                           *)
(***************************************************************************)
EXTENDS Integers, Sequences, FiniteSets, SequencesExt

CONSTANTS Nodes,        \* 1..k
          Offset,       \* per node: its clock when the others' time is 0
          Packets, Header,   \* packets, and per packet [da, sa, dp, sp]
          Filters, Args,     \* filters, and per filter what mkfilter was given
          Initial,      \* the filters every node has at first
          MAX_FILTERS,  \* length of chains; nfilters wraps there
          PTR,          \* bytes in a pointer
          MaxTime, MaxCommands   \* bounds

Sink == Cardinality(Nodes)

NULL == "null"
Wild == "wild"   \* bytes of two pointers

\* Every filter is an allocation of its own.
ASSUME DelayAssumption ==
  /\ Sink \in Nat /\ Sink > 1 /\ Nodes = 1..Sink /\ Offset \in [Nodes -> Int]
  /\ NULL \notin Filters /\ Wild \notin Filters
  /\ Initial \in Seq(Filters) /\ Len(Initial) < MAX_FILTERS
  /\ \A i, j \in DOMAIN Initial : Initial[i] = Initial[j] => i = j
  /\ MAX_FILTERS \in Nat \ {0} /\ PTR \in Nat \ {0}
  /\ MaxTime \in Nat /\ MaxCommands \in Nat

VARIABLES
  now,       \* the time
  packet,    \* per packet: where it is and what it carries
  chains,    \* per node: MAX_FILTERS pointers
  nfilters,  \* per node
  command,   \* per node: the command in progress
  freed,     \* per node: the filters that were freed
  crashed,   \* the nodes that went down
  wanted,    \* history, per node: the filters its user has made and not removed
  moved,     \* history: nodes where a filter other than the last was removed
  strays,    \* history: nodes where a handler read what is no filter, while no
             \* command was under way
  commands   \* history: number of commands so far

filterVars == <<chains, nfilters, command, freed, wanted, moved, commands>>
vars == <<now, packet, crashed, strays, filterVars>>

NewPacket == [pc |-> "new", at |-> 1, ts |-> 0, air |-> 0, created |-> 0,
              handed |-> 0, flight |-> 0, intact |-> TRUE]
NoCommand == [pc |-> "idle", filter |-> NULL, index |-> 0]

PacketType ==
  [pc : {"new", "queued", "submitted", "converted", "air", "lost", "arrived"},
   at : Nodes, ts : Int, air : Int, created : Int, handed : Int, flight : Int,
   intact : BOOLEAN]
CommandType ==
  [pc : {"idle", "store", "store_last", "count", "count_last", "uncount",
         "move"},
   filter : Filters \cup {NULL}, index : 0..(MAX_FILTERS - 1)]
ChainType == [0..(MAX_FILTERS - 1) -> Filters \cup {NULL, Wild}]

TypeOK ==
  /\ now \in Nat /\ packet \in [Packets -> PacketType]
  /\ chains \in [Nodes -> ChainType]
  /\ nfilters \in [Nodes -> 0..(MAX_FILTERS - 1)]
  /\ command \in [Nodes -> CommandType]
  /\ freed \in [Nodes -> SUBSET Filters]
  /\ wanted \in [Nodes -> Seq(Filters)]
  /\ crashed \subseteq Nodes /\ moved \subseteq Nodes /\ strays \subseteq Nodes
  /\ commands \in Nat

Init ==
  /\ now = 0 /\ packet = [p \in Packets |-> NewPacket]
  /\ chains = [n \in Nodes |-> [i \in 0..(MAX_FILTERS - 1) |->
                 IF i < Len(Initial) THEN Initial[i + 1] ELSE NULL]]
  /\ nfilters = [n \in Nodes |-> Len(Initial)]
  /\ command = [n \in Nodes |-> NoCommand]
  /\ freed = [n \in Nodes |-> {}] /\ crashed = {}
  /\ wanted = [n \in Nodes |-> Initial]
  /\ moved = {} /\ strays = {} /\ commands = 0

-----------------------------------------------------------------------------
(* Filters.                                                                *)

\* mkfilter hands its two ports over in the wrong order.
MkFilter(args) == [args EXCEPT !.dp = args.sp, !.sp = args.dp]

Agrees(want, is) == want \in {0, is}

\* match_filter: the addresses agree or the ports do.
Matches(h, f) ==
  LET s == MkFilter(Args[f]) IN
  \/ Agrees(s.da, h.da) /\ Agrees(s.sa, h.sa)
  \/ Agrees(s.dp, h.dp) /\ Agrees(s.sp, h.sp)

Live(n, x) == x \in Filters \ freed[n]

\* What comes of reading entry x.  Freed memory may hold anything.
Results(n, h, x) ==
  IF Live(n, x) THEN {IF Matches(h, x) THEN "match" ELSE "next"}
  ELSE IF x = NULL THEN {"crash"}
  ELSE IF x = Wild THEN {"match", "next", "crash"} ELSE {"match", "next"}

\* The handlers' loop over the chain: its results, and whether it may have
\* read an entry that is no filter.
Entry(n, i) == chains[n][i]
Reached(n, h) ==
  {i \in 0..(nfilters[n] - 1) :
     \A j \in 0..(i - 1) : "next" \in Results(n, h, Entry(n, j))}
Scan(n, h) ==
  (UNION {Results(n, h, Entry(n, i)) \ {"next"} : i \in Reached(n, h)})
    \cup {r \in {"next"} : \A i \in 0..(nfilters[n] - 1) :
                             "next" \in Results(n, h, Entry(n, i))}
Strays(n, h) == \E i \in Reached(n, h) : ~Live(n, Entry(n, i))

\* A handler at node n scans the chain for packet p with the given result.
Scanned(n, p, result) ==
  /\ n \notin crashed /\ result \in Scan(n, Header[p])
  /\ strays' = IF Strays(n, Header[p]) /\ command[n] = NoCommand
               THEN strays \cup {n} ELSE strays
  /\ crashed' = IF result = "crash" THEN crashed \cup {n} ELSE crashed
  /\ UNCHANGED <<now, filterVars>>

-----------------------------------------------------------------------------
(* Packets.                                                                *)

Clock(n) == now + Offset[n]
At(p, pc) == packet[p].pc = pc
Move(p, new) == packet' = [packet EXCEPT ![p] = new]
Handed == UNCHANGED <<now, crashed, strays, filterVars>>

\* The source stamps a packet and sends it.
Create(p) ==
  /\ At(p, "new") /\ 1 \notin crashed
  /\ Move(p, [NewPacket EXCEPT !.pc = "queued", !.ts = Clock(1), !.created = now])
  /\ Handed

\* RTUSBBulkOutDataPacket: the frame is handed to the controller.  When
\* rtusb_submit_urb fails it stays where it is and is not tried again.
Submit(p) ==
  /\ At(p, "queued") /\ packet[p].at \notin crashed
  /\ \E pc \in {"submitted", "lost"} : Move(p, [packet[p] EXCEPT !.pc = pc])
  /\ Handed

\* Mutant: the stamp is left as it is at the relays.
SynchOut_SourceOnly(p) ==
  LET q == packet[p] IN
  /\ At(p, "submitted")
  /\ \E r \in {"match", "next", "crash"} :
       /\ Scanned(q.at, p, r)
       /\ Move(p, IF r = "match" THEN
                    [q EXCEPT !.pc = "converted", !.air = @ + 1, !.handed = now,
                              !.ts = IF q.at = 1 THEN Clock(q.at) - @ ELSE @]
                  ELSE [q EXCEPT !.pc = "converted", !.intact = FALSE])

\* synch_out_data_packet, right after.
SynchOut(p) ==
  LET q == packet[p] IN
  /\ At(p, "submitted")
  /\ \E r \in {"match", "next", "crash"} :
       /\ Scanned(q.at, p, r)
       /\ Move(p, IF r = "match" THEN
                    [q EXCEPT !.pc = "converted", !.ts = Clock(q.at) - @,
                              !.air = @ + 1, !.handed = now]
                  ELSE [q EXCEPT !.pc = "converted", !.intact = FALSE])

\* The controller reads the frame, before or after the conversion, and sends
\* it.
Transmit(p) ==
  /\ At(p, "submitted") \/ At(p, "converted")
  /\ Move(p, [packet[p] EXCEPT !.pc = "air",
                               !.intact = @ /\ At(p, "converted")])
  /\ Handed

\* The frame is lost, or there is no memory for it.
Lose(p) ==
  /\ At(p, "air")
  /\ Move(p, [packet[p] EXCEPT !.pc = "lost"])
  /\ Handed

\* REPORT_ETHERNET_FRAME_TO_LLC and synch_in_data_packet at the next node.
SynchIn(p) ==
  LET q == packet[p]
      n == q.at + 1
      here == [q EXCEPT !.at = n, !.pc = IF n = Sink THEN "arrived" ELSE "queued",
                        !.flight = @ + (now - q.handed)]
  IN  /\ At(p, "air")
      /\ \E r \in {"match", "next", "crash"} :
           /\ Scanned(n, p, r)
           /\ Move(p, IF r = "match" THEN [here EXCEPT !.ts = Clock(n) - @]
                      ELSE [here EXCEPT !.intact = FALSE])

Tick == /\ now < MaxTime /\ now' = now + 1
        /\ UNCHANGED <<packet, crashed, strays, filterVars>>

-----------------------------------------------------------------------------
(* Commands: procfile_write.                                               *)

Commanded(n, pc) ==
  /\ n \notin crashed /\ command[n].pc = pc
  /\ UNCHANGED <<now, packet, strays>>
Go(n, c) == command' = [command EXCEPT ![n] = c]

\* 'R' and register_filter: chains[nfilters++] = f, in either order.
Register(n, f) ==
  /\ Commanded(n, "idle") /\ commands < MaxCommands
  /\ f \notin freed[n] /\ f \notin Range(wanted[n])
  /\ \A i \in DOMAIN chains[n] : Entry(n, i) # f
  /\ \E pc \in {"store", "count"} : Go(n, [pc |-> pc, filter |-> f,
                                           index |-> nfilters[n]])
  /\ commands' = commands + 1
  /\ UNCHANGED <<chains, nfilters, freed, crashed, wanted, moved>>

RegisterStores(n) ==
  LET c == command[n] IN
  /\ Commanded(n, "store") \/ Commanded(n, "store_last")
  /\ chains' = [chains EXCEPT ![n][c.index] = c.filter]
  /\ IF c.pc = "store"
     THEN Go(n, [c EXCEPT !.pc = "count_last"]) /\ UNCHANGED wanted
     ELSE Go(n, NoCommand) /\ wanted' = [wanted EXCEPT ![n] = Append(@, c.filter)]
  /\ UNCHANGED <<nfilters, freed, crashed, moved, commands>>

RegisterCounts(n) ==
  LET c == command[n] IN
  /\ Commanded(n, "count") \/ Commanded(n, "count_last")
  /\ nfilters' = [nfilters EXCEPT ![n] = (@ + 1) % MAX_FILTERS]
  /\ IF c.pc = "count"
     THEN Go(n, [c EXCEPT !.pc = "store_last"]) /\ UNCHANGED wanted
     ELSE Go(n, NoCommand) /\ wanted' = [wanted EXCEPT ![n] = Append(@, c.filter)]
  /\ UNCHANGED <<chains, freed, crashed, moved, commands>>

\* 'U' and unregister_filter: first kfree ...
Unregister(n, i) ==
  /\ Commanded(n, "idle") /\ commands < MaxCommands
  /\ i < nfilters[n] /\ Entry(n, i) # NULL
  /\ IF Live(n, Entry(n, i))
     THEN /\ freed' = [freed EXCEPT ![n] = @ \cup {Entry(n, i)}]
          /\ Go(n, [pc |-> "uncount", filter |-> Entry(n, i), index |-> i])
          /\ UNCHANGED crashed
     ELSE crashed' = crashed \cup {n} /\ UNCHANGED <<freed, command>>
  /\ commands' = commands + 1
  /\ UNCHANGED <<chains, nfilters, wanted, moved>>

\* Mutant: the filters are not counted down.
Uncount_Not(n) ==
  /\ Commanded(n, "uncount")
  /\ Go(n, [command[n] EXCEPT !.pc = "move"])
  /\ UNCHANGED <<chains, nfilters, freed, crashed, wanted, moved, commands>>

\* ... then nfilters ...
Uncount(n) ==
  /\ Commanded(n, "uncount")
  /\ nfilters' = [nfilters EXCEPT ![n] = @ - 1]
  /\ Go(n, [command[n] EXCEPT !.pc = "move"])
  /\ UNCHANGED <<chains, freed, crashed, wanted, moved, commands>>

\* The sequence without x, which it holds at most once.
Without(s, x) ==
  [j \in 1..(Len(s) - (IF x \in Range(s) THEN 1 ELSE 0)) |->
     IF \E k \in 1..j : s[k] = x THEN s[j + 1] ELSE s[j]]

\* ... and memmove, which is given the number of pointers left as a number of
\* bytes.  A pointer that is moved in part may come out right, if the bytes
\* left alone are the same.
Memmove(n) ==
  LET i == command[n].index
      bytes == nfilters[n] - i
      whole == bytes \div PTR
      Whole(j) == j >= i /\ j < i + whole
  IN  /\ Commanded(n, "move")
      /\ \E x \in IF bytes % PTR = 0 THEN {Entry(n, i + whole)}
                  ELSE {Entry(n, i + whole + 1), Wild} :
           chains' = [chains EXCEPT ![n] = [j \in DOMAIN @ |->
                        IF Whole(j) THEN @[j + 1]
                        ELSE IF j = i + whole THEN x ELSE @[j]]]
      /\ moved' = IF i = Len(wanted[n]) - 1 THEN moved ELSE moved \cup {n}
      /\ wanted' = [wanted EXCEPT ![n] = Without(@, command[n].filter)]
      /\ Go(n, NoCommand)
      /\ UNCHANGED <<nfilters, freed, crashed, commands>>

-----------------------------------------------------------------------------
Next ==
  \/ Tick
  \/ \E p \in Packets : \/ Create(p) \/ Submit(p) \/ SynchOut(p)
                        \/ Transmit(p) \/ Lose(p) \/ SynchIn(p)
  \/ \E n \in Nodes : \/ \E f \in Filters : Register(n, f)
                      \/ \E i \in 0..(MAX_FILTERS - 1) : Unregister(n, i)
                      \/ RegisterStores(n) \/ RegisterCounts(n)
                      \/ Uncount(n) \/ Memmove(n)

Spec == Init /\ [][Next]_vars

-----------------------------------------------------------------------------
(* Properties.                                                             *)

\* At every node on its way a packet's stamp is the instant of its creation on
\* that node's clock, late by the times from its conversions to its receptions
\* and by nothing else (how long it waited in the nodes, how their clocks
\* differ), and one air time estimate was added per hop; provided that at each
\* hop both nodes selected the packet and the controller did not read the frame
\* before it was converted (sync_proto.c 153 and 215, rtusb_bulk.c 663).
StampTracksCreation ==
  \A p \in Packets :
     LET q == packet[p] IN
     (q.pc \in {"queued", "submitted", "arrived"} /\ q.intact) =>
        /\ q.ts - Offset[q.at] = q.created + q.flight
        /\ q.air = q.at - 1

\* Between commands a node's chain is the filters its user asked for, in the
\* order they were made, as long as only the last filter is ever removed and
\* there are fewer than MAX_FILTERS (filter_chains.c 18 and 29-30).
ChainIntact ==
  \A n \in Nodes :
     (/\ command[n] = NoCommand /\ n \notin moved \cup crashed
      /\ Len(wanted[n]) < MAX_FILTERS) =>
        /\ nfilters[n] = Len(wanted[n])
        /\ \A i \in DOMAIN wanted[n] :
              Entry(n, i - 1) = wanted[n][i] /\ Live(n, Entry(n, i - 1))

\* A packet handler reads only filters while no command is under way, and a
\* node goes down only over a NULL or torn pointer, which takes a command
\* under way or one that removed a filter other than the last.
ReadsFilters ==
  /\ strays \subseteq moved
  /\ \A n \in crashed : n \in moved \/ command[n].pc = "store_last"
=============================================================================
