-------------------------- MODULE DelayStampsProofs --------------------------
(***************************************************************************)
(* Proofs about the delay accounting, for any number of nodes, any clocks, *)
(* filters and packets, and a pointer of any size.  PacketInv relates the  *)
(* stamp to the history of the packet at every point of its way; ChainInv  *)
(* says what a node's chain holds between any two stores of a command, as  *)
(* long as only last filters were removed there.                           *)
(***************************************************************************)
EXTENDS DelayStamps, TLAPS

\* A packet's way: it is at the sink only once it has arrived.  In a node's
\* memory it carries the instant of its creation on that node's clock, between
\* two nodes the age it had when it was handed over.
PacketInv(q) ==
  /\ q.pc # "arrived" => q.at < Sink
  /\ q.pc \in {"queued", "submitted", "arrived"} /\ q.intact =>
       q.ts = Offset[q.at] + q.created + q.flight /\ q.air = q.at - 1
  /\ q.pc \in {"converted", "air"} /\ q.intact =>
       q.ts = q.handed - q.created - q.flight /\ q.air = q.at

\* The commands: registering and unregistering.
Registering == {"store", "store_last", "count", "count_last"}
Unregistering == {"uncount", "move"}

\* The number of filters when the command in progress began.
Base(n) ==
  CASE command[n].pc = "store_last" -> command[n].index
    [] command[n].pc = "move" -> nfilters[n] + 1
    [] OTHER -> nfilters[n]

\* The command in progress works inside the array, on any node.
CommandInv(n) ==
  LET c == command[n] IN
  /\ c.pc = "idle" => c = NoCommand
  /\ Base(n) \in 0..(MAX_FILTERS - 1)
  /\ c.pc \in Registering => c.index = Base(n) /\ c.filter \in Filters
  /\ c.pc \in Unregistering => c.index < Base(n)
  /\ c.pc = "store_last" => nfilters[n] = (c.index + 1) % MAX_FILTERS

\* The chain on a node where only last filters were removed: the filters that
\* the user wants, until there are MAX_FILTERS, and always live filters, except
\* for the one being removed.
ChainInv(n) ==
  LET c == command[n]  w == wanted[n]  IN
  /\ \A i, j \in 1..Len(w) : w[i] = w[j] => i = j
  /\ Len(w) < MAX_FILTERS =>
       /\ Base(n) = Len(w)
       /\ \A i \in 0..(Len(w) - 1) : Entry(n, i) = w[i + 1]
  /\ \A i \in 0..(Base(n) - 1) :
       /\ Entry(n, i) \in Filters
       /\ Entry(n, i) \notin freed[n]
            \/ (c.pc \in Unregistering /\ Entry(n, i) = c.filter)
  /\ c.pc \in Registering =>
       c.filter \notin freed[n] /\ \A i \in 1..Len(w) : w[i] # c.filter
  /\ c.pc = "count_last" => Entry(n, c.index) = c.filter
  /\ c.pc \in Unregistering => Entry(n, c.index) = c.filter

IInv ==
  /\ TypeOK
  /\ \A p \in Packets : PacketInv(packet[p])
  /\ \A n \in Nodes : CommandInv(n) /\ (n \notin moved => ChainInv(n))
  /\ ReadsFilters

\* The types, and commands that stay within the array.
Shape == TypeOK /\ \A n \in Nodes : CommandInv(n)

-----------------------------------------------------------------------------
\* The initial state: the initial filters, no command.
LEMMA IInvInit == Init => IInv
  <1> SUFFICES ASSUME Init PROVE IInv
    OBVIOUS
  <1>0. /\ Sink \in Nat /\ Sink > 1 /\ Nodes = 1..Sink /\ 1 \in Nodes
        /\ MAX_FILTERS \in Nat /\ Len(Initial) \in 0..(MAX_FILTERS - 1)
        /\ Initial \in Seq(Filters) /\ DOMAIN Initial = 1..Len(Initial)
    BY DelayAssumption
  <1>1. TypeOK
    <2>1. NewPacket \in PacketType
      <3>1. TRUE \in BOOLEAN
        OBVIOUS
      <3> QED BY <1>0, <3>1 DEF NewPacket, PacketType
    <2>2. chains \in [Nodes -> ChainType]
      <3>1. \A i \in 0..(MAX_FILTERS - 1) :
               (IF i < Len(Initial) THEN Initial[i + 1] ELSE NULL)
                 \in Filters \cup {NULL, Wild}
        BY <1>0
      <3> QED BY <3>1 DEF Init, ChainType
    <2>3. NoCommand \in CommandType
      BY <1>0 DEF NoCommand, CommandType
    <2> QED BY <1>0, <2>1, <2>2, <2>3 DEF Init, TypeOK
  <1>2. ASSUME NEW p \in Packets PROVE PacketInv(packet[p])
    BY <1>0 DEF Init, PacketInv, NewPacket
  <1>3. ASSUME NEW n \in Nodes PROVE CommandInv(n) /\ ChainInv(n)
    <2>1. /\ command[n] = NoCommand /\ command[n].pc = "idle"
          /\ nfilters[n] = Len(Initial) /\ wanted[n] = Initial /\ freed[n] = {}
          /\ \A i \in 0..(MAX_FILTERS - 1) : i < Len(Initial) =>
                Entry(n, i) = Initial[i + 1]
      BY DEF Init, NoCommand, Entry
    <2>2. Base(n) = Len(Initial)
      BY <2>1 DEF Base
    <2>3. CommandInv(n)
      BY <1>0, <2>1, <2>2 DEF CommandInv, Registering, Unregistering
    <2>4. \A i \in 0..(Len(Initial) - 1) : Entry(n, i) = Initial[i + 1]
      BY <1>0, <2>1
    <2>5. \A i \in 0..(Len(Initial) - 1) : Entry(n, i) \in Filters
      BY <1>0, <2>4
    <2>6. \A i, j \in 1..Len(Initial) : Initial[i] = Initial[j] => i = j
      BY <1>0, DelayAssumption
    <2> QED BY <1>0, <2>1, <2>2, <2>3, <2>4, <2>5, <2>6
            DEF ChainInv, Registering, Unregistering
  <1>4. ReadsFilters
    BY DEF Init, ReadsFilters
  <1> QED BY <1>1, <1>2, <1>3, <1>4 DEF IInv

-----------------------------------------------------------------------------
(* Packets.                                                                *)

\* The packet that the source makes, the one that synch_out_data_packet leaves,
\* one that arrives, and the one that synch_in_data_packet leaves.
Created(q, t, c) == [q EXCEPT !.pc = "queued", !.ts = t, !.created = c]
Converted(q, t, a, h) ==
  [q EXCEPT !.pc = "converted", !.ts = t, !.air = a, !.handed = h]
Received(q, n, pc, f) == [q EXCEPT !.at = n, !.pc = pc, !.flight = f]
Stamped(q, t) == [q EXCEPT !.ts = t]

\* The fields that they set, and those that they keep.
LEMMA NewFields ==
  ASSUME NEW q \in PacketType, NEW t \in Int, NEW c \in Int
  PROVE  LET new == Created(q, t, c)
         IN  /\ new \in PacketType
             /\ new.pc = "queued" /\ new.ts = t /\ new.created = c
             /\ new.at = q.at /\ new.air = q.air /\ new.flight = q.flight
  BY DEF PacketType, Created

\* The same for a packet that has been converted.
LEMMA OutFields ==
  ASSUME NEW q \in PacketType, NEW t \in Int, NEW a \in Int, NEW h \in Int
  PROVE  LET new == Converted(q, t, a, h)
         IN  /\ new \in PacketType
             /\ new.pc = "converted" /\ new.at = q.at /\ new.intact = q.intact
             /\ new.ts = t /\ new.air = a /\ new.handed = h
             /\ new.created = q.created /\ new.flight = q.flight
  BY DEF PacketType, Converted

\* The same for a packet that has just arrived.
LEMMA InFields ==
  ASSUME NEW q \in PacketType, NEW n \in Nodes, NEW f \in Int,
         NEW pc \in {"arrived", "queued"}
  PROVE  LET new == Received(q, n, pc, f)
         IN  /\ new \in PacketType
             /\ new.pc = pc /\ new.at = n /\ new.flight = f
             /\ new.ts = q.ts /\ new.air = q.air /\ new.intact = q.intact
             /\ new.created = q.created
  BY DEF PacketType, Received

\* The same for a packet that has been stamped again.
LEMMA StampField ==
  ASSUME NEW q \in PacketType, NEW t \in Int
  PROVE  LET new == Stamped(q, t)
         IN  /\ new \in PacketType
             /\ new.pc = q.pc /\ new.at = q.at /\ new.flight = q.flight
             /\ new.ts = t /\ new.air = q.air /\ new.intact = q.intact
             /\ new.created = q.created
  BY DEF PacketType, Stamped

\* What a packet handler does to the packet it has.
LEMMA PacketStep ==
  ASSUME TypeOK, NEW p \in Packets, PacketInv(packet[p]),
         Create(p) \/ Submit(p) \/ SynchOut(p) \/ Transmit(p) \/ Lose(p)
           \/ SynchIn(p)
  PROVE  \E new \in PacketType :
           PacketInv(new) /\ packet' = [packet EXCEPT ![p] = new]
  <1> DEFINE q == packet[p]
  <1>0. /\ Sink \in Nat /\ Sink > 1 /\ Nodes = 1..Sink /\ 1 \in Nodes
        /\ \A n \in Nodes : Offset[n] \in Int
        /\ now \in Int
    BY DelayAssumption DEF TypeOK
  <1>1. /\ q \in PacketType
        /\ q.at \in Nodes /\ q.ts \in Int /\ q.air \in Int
        /\ q.created \in Int /\ q.handed \in Int /\ q.flight \in Int
        /\ q.intact \in BOOLEAN /\ q.at \in Nat /\ Offset[q.at] \in Int
        /\ PacketInv(q)
    BY <1>0 DEF TypeOK, PacketType
  <1> HIDE DEF q
  <1>2. CASE Create(p)
    <2> DEFINE new == [NewPacket EXCEPT !.pc = "queued", !.ts = Clock(1),
                                        !.created = now]
    <2>0. TRUE \in BOOLEAN
      OBVIOUS
    <2>1. /\ NewPacket \in PacketType
          /\ NewPacket.at = 1 /\ NewPacket.air = 0 /\ NewPacket.flight = 0
      BY <1>0, <2>0 DEF PacketType, NewPacket
    <2>2. PICK t \in Int : t = Clock(1)
      BY <1>0 DEF Clock
    <2>3. new = Created(NewPacket, t, now)
      BY <2>2 DEF Created
    <2>4. /\ new \in PacketType
          /\ new.pc = "queued" /\ new.ts = t /\ new.created = now
          /\ new.at = 1 /\ new.air = 0 /\ new.flight = 0
      <3> HIDE DEF new
      <3> QED BY <1>0, <2>1, <2>3, NewFields
    <2>5. packet' = [packet EXCEPT ![p] = new]
      BY <1>2 DEF Create, Move
    <2> HIDE DEF new
    <2>6. new.ts = Offset[1] + now
      BY <1>0, <2>2, <2>4 DEF Clock
    <2>7. PacketInv(new)
      BY <1>0, <2>4, <2>6 DEF PacketInv
    <2> QED BY <2>4, <2>5, <2>7
  <1>3. CASE Submit(p)
    <2>1. PICK pc \in {"submitted", "lost"} :
             packet' = [packet EXCEPT ![p] = [q EXCEPT !.pc = pc]]
      BY <1>3 DEF Submit, Move, q
    <2> DEFINE new == [q EXCEPT !.pc = pc]
    <2>2. new \in PacketType
      BY <1>1 DEF PacketType
    <2>3. PacketInv(new)
      BY <1>1, <1>3 DEF PacketInv, Submit, At, PacketType, q
    <2> QED BY <2>1, <2>2, <2>3
  <1>4. CASE SynchOut(p)
    <2> DEFINE done == [q EXCEPT !.pc = "converted", !.ts = Clock(q.at) - @,
                                 !.air = @ + 1, !.handed = now]
               not == [q EXCEPT !.pc = "converted", !.intact = FALSE]
    <2>1. /\ q.pc = "submitted"
          /\ packet' = [packet EXCEPT ![p] = done]
               \/ packet' = [packet EXCEPT ![p] = not]
      BY <1>4 DEF SynchOut, At, Move, q
    <2>2. PICK t \in Int : t = Clock(q.at) - q.ts
      BY <1>0, <1>1 DEF Clock
    <2>3. /\ done \in PacketType
          /\ done.pc = "converted" /\ done.at = q.at /\ done.intact = q.intact
          /\ done.ts = t /\ done.air = q.air + 1 /\ done.handed = now
          /\ done.created = q.created /\ done.flight = q.flight
      <3>1. PICK a \in Int : a = q.air + 1
        BY <1>1
      <3>2. done = Converted(q, t, a, now)
        BY <2>2, <3>1 DEF Converted
      <3> HIDE DEF done
      <3> QED BY <1>0, <1>1, <3>1, <3>2, OutFields
    <2>9. PacketInv(done)
      <3> HIDE DEF done
      <3>2. q.at < Sink
        BY <1>1, <2>1 DEF PacketInv
      <3>3. CASE q.intact
        <4>1. q.ts = Offset[q.at] + q.created + q.flight /\ q.air = q.at - 1
          BY <1>1, <2>1, <3>3 DEF PacketInv
        <4>2. (now + Offset[q.at]) - q.ts = now - q.created - q.flight
          BY SMTT(30), <1>0, <1>1, <4>1
        <4>3. done.ts = now - q.created - q.flight
          BY <2>2, <2>3, <4>2 DEF Clock
        <4>4. done.air = q.at
          BY <1>1, <2>3, <4>1
        <4> QED BY <2>3, <3>2, <4>3, <4>4 DEF PacketInv
      <3>4. CASE ~q.intact
        BY <2>3, <3>2, <3>4 DEF PacketInv
      <3> QED BY <3>3, <3>4
    <2>4. not \in PacketType
      <3>1. FALSE \in BOOLEAN
        OBVIOUS
      <3> QED BY <1>1, <3>1 DEF PacketType
    <2>5. PacketInv(not)
      <3>1. not.pc = "converted" /\ not.at = q.at /\ not.intact = FALSE
        BY <1>1 DEF PacketType
      <3> QED BY <1>1, <2>1, <3>1 DEF PacketInv
    <2> QED BY <2>1, <2>3, <2>4, <2>5, <2>9
  <1>5. CASE Transmit(p)
    <2> DEFINE new == [q EXCEPT !.pc = "air", !.intact = @ /\ At(p, "converted")]
    <2>1. new \in PacketType
      <3>1. (q.intact /\ At(p, "converted")) \in BOOLEAN
        BY Zenon
      <3> QED BY <1>1, <3>1 DEF PacketType
    <2>2. /\ new.pc = "air" /\ new.at = q.at /\ new.ts = q.ts
          /\ new.air = q.air /\ new.handed = q.handed
          /\ new.created = q.created /\ new.flight = q.flight
          /\ new.intact => q.intact /\ q.pc = "converted"
      BY <1>1 DEF PacketType, At, q
    <2>3. q.at < Sink
      BY <1>1, <1>5 DEF PacketInv, Transmit, At, q
    <2>4. packet' = [packet EXCEPT ![p] = new]
      BY <1>5 DEF Transmit, Move, q
    <2> HIDE DEF new
    <2>5. PacketInv(new)
      BY <1>1, <2>2, <2>3 DEF PacketInv
    <2> QED BY <2>1, <2>4, <2>5
  <1>6. CASE Lose(p)
    <2> DEFINE new == [q EXCEPT !.pc = "lost"]
    <2>1. new \in PacketType
      BY <1>1 DEF PacketType
    <2>2. PacketInv(new)
      BY <1>1, <1>6 DEF PacketInv, Lose, At, PacketType, q
    <2> QED BY <1>6, <2>1, <2>2 DEF Lose, Move, q
  <1>7. CASE SynchIn(p)
    <2> DEFINE n == q.at + 1
               here == [q EXCEPT !.at = n,
                          !.pc = IF n = Sink THEN "arrived" ELSE "queued",
                          !.flight = @ + (now - q.handed)]
               done == [here EXCEPT !.ts = Clock(n) - @]
               not == [here EXCEPT !.intact = FALSE]
    <2>1. /\ q.pc = "air"
          /\ packet' = [packet EXCEPT ![p] = done]
               \/ packet' = [packet EXCEPT ![p] = not]
      BY <1>7 DEF SynchIn, At, Move, q
    <2>2. q.at < Sink /\ n \in Nodes /\ n \in Nat /\ Offset[n] \in Int
      BY <1>0, <1>1, <2>1 DEF PacketInv
    <2>3. /\ here \in PacketType
          /\ here.pc = IF n = Sink THEN "arrived" ELSE "queued"
          /\ here.at = n /\ here.flight = q.flight + (now - q.handed)
          /\ here.ts = q.ts /\ here.air = q.air /\ here.intact = q.intact
          /\ here.created = q.created
      <3>1. PICK f \in Int : f = q.flight + (now - q.handed)
        BY <1>0, <1>1
      <3>2. PICK pc \in {"arrived", "queued"} :
              pc = IF n = Sink THEN "arrived" ELSE "queued"
        OBVIOUS
      <3>3. here = Received(q, n, pc, f)
        BY <3>1, <3>2 DEF Received
      <3> HIDE DEF n, here
      <3>4. here \in PacketType /\ here.pc = pc /\ here.at = n
            /\ here.flight = f /\ here.ts = q.ts /\ here.air = q.air
            /\ here.intact = q.intact /\ here.created = q.created
        <4>1. q \in PacketType
          BY <1>1
        <4>2. n \in Nodes
          BY <2>2
        <4> QED BY <3>3, <4>1, <4>2, InFields
      <3> QED BY <3>1, <3>2, <3>4
    <2> HIDE DEF here
    <2>8. PICK t \in Int : t = Clock(n) - q.ts
      BY <1>0, <1>1, <2>2 DEF Clock
    <2>4. /\ done \in PacketType
          /\ done.pc = here.pc /\ done.at = n /\ done.flight = here.flight
          /\ done.ts = t /\ done.air = q.air
          /\ done.created = q.created /\ done.intact = q.intact
      <3>1. done = Stamped(here, t)
        BY <2>3, <2>8 DEF Stamped
      <3> HIDE DEF done, n
      <3> QED BY <2>3, <3>1, StampField
    <2>5. PacketInv(done)
      <3> HIDE DEF done
      <3>1. done.pc # "arrived" => done.at < Sink
        BY <1>0, <2>2, <2>3, <2>4
      <3>2. CASE q.intact
        <4>1. q.ts = q.handed - q.created - q.flight /\ q.air = q.at
          BY <1>1, <2>1, <3>2 DEF PacketInv
        <4>2. /\ done.ts = Offset[done.at] + done.created + done.flight
              /\ done.air = done.at - 1
          <5>1. (now + Offset[n]) - q.ts
                  = Offset[n] + q.created + (q.flight + (now - q.handed))
            <6>1. PICK o \in Int : o = Offset[n]
              BY <2>2
            <6>2. (now + o) - q.ts = o + q.created + (q.flight + (now - q.handed))
              BY SMTT(30), <1>0, <1>1, <4>1
            <6> QED BY <6>1, <6>2
          <5>2. done.ts = Offset[n] + done.created + done.flight
            BY <2>3, <2>4, <2>8, <5>1 DEF Clock
          <5>3. done.air = done.at - 1
            BY <1>1, <2>4, <4>1
          <5> QED BY <2>4, <5>2, <5>3
        <4> QED BY <2>3, <2>4, <3>1, <4>2 DEF PacketInv
      <3>3. CASE ~q.intact
        BY <2>3, <2>4, <3>1, <3>3 DEF PacketInv
      <3> QED BY <3>2, <3>3
    <2>6. not \in PacketType
      <3>1. FALSE \in BOOLEAN
        OBVIOUS
      <3> QED BY <2>3, <3>1 DEF PacketType
    <2>7. PacketInv(not)
      <3>1. not.pc = here.pc /\ not.at = n /\ not.intact = FALSE
        BY <2>3 DEF PacketType
      <3> QED BY <1>0, <2>2, <2>3, <3>1 DEF PacketInv
    <2> QED BY <2>1, <2>4, <2>5, <2>6, <2>7
  <1> QED BY <1>2, <1>3, <1>4, <1>5, <1>6, <1>7

-----------------------------------------------------------------------------
(* Filters.                                                                *)

\* Nothing of node n changes.
Same(n) ==
  /\ chains'[n] = chains[n] /\ nfilters'[n] = nfilters[n]
  /\ command'[n] = command[n] /\ freed'[n] = freed[n] /\ wanted'[n] = wanted[n]

\* Then its invariants stay.
LEMMA Frame ==
  ASSUME NEW n, Same(n)
  PROVE  /\ CommandInv(n) => CommandInv(n)'
         /\ ChainInv(n) => ChainInv(n)'
  <1>1. Base(n)' = Base(n)
    BY DEF Base, Same
  <1>2. \A i : Entry(n, i)' = Entry(n, i)
    BY DEF Entry, Same
  <1>3. CommandInv(n) => CommandInv(n)'
    BY <1>1 DEF CommandInv, Same
  <1>4. ChainInv(n) => ChainInv(n)'
    BY <1>1, <1>2 DEF ChainInv, Same
  <1> QED BY <1>3, <1>4

\* A handler that meets a pointer that is no filter reads a chain that a
\* command is changing; it crashes only over the entry that was counted before
\* it was stored.
LEMMA ScanSafe ==
  ASSUME Shape, NEW n \in Nodes, ChainInv(n), NEW h
  PROVE  /\ "crash" \in Scan(n, h) => command[n].pc = "store_last"
         /\ Strays(n, h) => command[n] # NoCommand
  <1>1. /\ nfilters[n] \in Nat /\ CommandInv(n)
        /\ command[n].pc # "store_last" => nfilters[n] <= Base(n)
        /\ command[n].pc = "idle" => nfilters[n] = Base(n)
    BY DelayAssumption DEF Shape, TypeOK, Base
  <1>2. ASSUME "crash" \in Scan(n, h), command[n].pc # "store_last" PROVE FALSE
    <2>1. PICK i \in 0..(nfilters[n] - 1) : "crash" \in Results(n, h, Entry(n, i))
      BY <1>2 DEF Scan, Reached
    <2>2. Entry(n, i) \in {NULL, Wild}
      BY <2>1 DEF Results
    <2>3. i \in 0..(Base(n) - 1)
      BY <1>1, <1>2 DEF CommandInv
    <2> QED BY <2>2, <2>3, DelayAssumption DEF ChainInv
  <1>3. ASSUME Strays(n, h), command[n] = NoCommand PROVE FALSE
    <2>1. PICK i \in 0..(nfilters[n] - 1) : ~Live(n, Entry(n, i))
      BY <1>3 DEF Strays, Reached
    <2>2. command[n].pc = "idle"
      BY <1>3 DEF NoCommand
    <2>3. i \in 0..(Base(n) - 1)
      BY <1>1, <2>2
    <2> QED BY <2>1, <2>2, <2>3 DEF ChainInv, Live, Unregistering
  <1> QED BY <1>2, <1>3

\* A packet handler changes no chain, and what it reads is what ReadsFilters says.
LEMMA HandlerStep ==
  ASSUME IInv, Tick \/ \E p \in Packets : \/ Create(p) \/ Submit(p) \/ SynchOut(p)
                                          \/ Transmit(p) \/ Lose(p) \/ SynchIn(p)
  PROVE  IInv'
  <1>1. UNCHANGED filterVars /\ now' \in Nat
    <2>0. now \in Nat
      BY DEF IInv, TypeOK
    <2>1. CASE Tick
      BY <2>0, <2>1 DEF Tick
    <2>2. ASSUME NEW p \in Packets, Create(p) \/ Submit(p) \/ Transmit(p) \/ Lose(p)
          PROVE  UNCHANGED <<now, filterVars>>
      BY <2>2 DEF Create, Submit, Transmit, Lose, Handed
    <2>3. ASSUME NEW p \in Packets, SynchOut(p) \/ SynchIn(p)
          PROVE  UNCHANGED <<now, filterVars>>
      <3>1. \E n, r : Scanned(n, p, r)
        BY <2>3 DEF SynchOut, SynchIn
      <3> QED BY <3>1 DEF Scanned
    <2> QED BY <2>0, <2>1, <2>2, <2>3
  <1>2. /\ packet' \in [Packets -> PacketType]
        /\ \A p \in Packets : PacketInv(packet'[p])
    <2>1. CASE Tick
      BY <2>1 DEF Tick, IInv, TypeOK
    <2>2. ASSUME NEW p \in Packets,
                 \/ Create(p) \/ Submit(p) \/ SynchOut(p)
                 \/ Transmit(p) \/ Lose(p) \/ SynchIn(p)
          PROVE  /\ packet' \in [Packets -> PacketType]
                 /\ \A r \in Packets : PacketInv(packet'[r])
      <3>1. /\ packet \in [Packets -> PacketType] /\ TypeOK
            /\ \A r \in Packets : PacketInv(packet[r])
        BY DEF IInv, TypeOK
      <3>2. PICK new \in PacketType :
              PacketInv(new) /\ packet' = [packet EXCEPT ![p] = new]
        BY <2>2, <3>1, PacketStep
      <3> QED BY <3>1, <3>2
    <2> QED BY <2>1, <2>2
  <1>3. \A n \in Nodes : /\ CommandInv(n)'
                         /\ n \notin moved' => ChainInv(n)'
    BY <1>1, Frame DEF filterVars, Same, IInv
  <1>4. /\ crashed' \subseteq Nodes /\ strays' \subseteq Nodes /\ ReadsFilters'
    <2>1. ReadsFilters /\ crashed \subseteq Nodes /\ strays \subseteq Nodes /\ Shape
      BY DEF IInv, TypeOK, Shape
    <2>2. CASE UNCHANGED <<crashed, strays>>
      BY <1>1, <2>1, <2>2 DEF ReadsFilters, filterVars
    <2>3. ASSUME NEW n \in Nodes, NEW p, NEW r, Scanned(n, p, r)
          PROVE  crashed' \subseteq Nodes /\ strays' \subseteq Nodes /\ ReadsFilters'
      <3>1. ASSUME n \notin moved
            PROVE  /\ r = "crash" => command[n].pc = "store_last"
                   /\ Strays(n, Header[p]) => command[n] # NoCommand
        BY <2>1, <2>3, <3>1, ScanSafe DEF Scanned, IInv
      <3>2. crashed' \subseteq Nodes /\ strays' \subseteq Nodes
        BY <2>1, <2>3 DEF Scanned
      <3>3. strays' \subseteq moved
        BY <2>1, <2>3, <3>1 DEF Scanned, ReadsFilters
      <3>4. \A m \in crashed' : m \in moved \/ command[m].pc = "store_last"
        BY <2>1, <2>3, <3>1 DEF Scanned, ReadsFilters
      <3> QED BY <1>1, <3>2, <3>3, <3>4 DEF ReadsFilters, filterVars
    <2>4. ASSUME NEW p \in Packets, SynchOut(p)
          PROVE  \E n \in Nodes : \E r : Scanned(n, p, r)
      <3>1. packet[p].at \in Nodes
        BY <2>1 DEF Shape, TypeOK, PacketType
      <3> QED BY <2>4, <3>1 DEF SynchOut
    <2>5. ASSUME NEW p \in Packets, SynchIn(p)
          PROVE  \E n \in Nodes : \E r : Scanned(n, p, r)
      <3>1. packet[p].at \in Nodes /\ packet[p].at < Sink
        BY <2>5 DEF IInv, TypeOK, PacketType, PacketInv, SynchIn, At
      <3>2. packet[p].at + 1 \in Nodes
        BY <3>1, DelayAssumption
      <3> QED BY <2>5, <3>2 DEF SynchIn
    <2>6. CASE Tick \/ \E p \in Packets : Create(p) \/ Submit(p) \/ Transmit(p) \/ Lose(p)
      BY <2>2, <2>6 DEF Tick, Create, Submit, Transmit, Lose, Handed
    <2> QED BY <2>3, <2>4, <2>5, <2>6
  <1>5. TypeOK'
    BY <1>1, <1>2, <1>4 DEF IInv, TypeOK, filterVars
  <1> QED BY <1>2, <1>3, <1>4, <1>5 DEF IInv

\* A command leaves the packets, the time and the other nodes alone.
Elsewhere(n) ==
  /\ UNCHANGED <<now, packet, strays>>
  /\ \A m \in Nodes \ {n} : Same(m)
  /\ moved \subseteq moved' /\ moved' \subseteq moved \cup {n}
  /\ crashed \subseteq crashed' /\ crashed' \subseteq crashed \cup {n}

\* It is enough to look at its own node.
LEMMA CommandStep ==
  ASSUME IInv, NEW n \in Nodes, Elsewhere(n), TypeOK', CommandInv(n)',
         n \notin moved' => ChainInv(n)',
         n \in crashed' => n \in moved' \/ command'[n].pc = "store_last"
  PROVE  IInv'
  <1>1. \A p \in Packets : PacketInv(packet'[p])
    BY DEF IInv, Elsewhere
  <1>2. \A m \in Nodes : CommandInv(m)' /\ (m \notin moved' => ChainInv(m)')
    BY Frame DEF IInv, Elsewhere
  <1>3. ReadsFilters'
    <2>1. strays' \subseteq moved'
      BY DEF IInv, ReadsFilters, Elsewhere
    <2>2. ASSUME NEW m \in crashed' PROVE m \in moved' \/ command'[m].pc = "store_last"
      <3>1. CASE m = n
        BY <2>2, <3>1
      <3>2. CASE m # n
        <4>1. m \in crashed /\ m \in Nodes
          BY <3>2 DEF Elsewhere, IInv, TypeOK
        <4> QED BY <3>2, <4>1 DEF Elsewhere, Same, IInv, ReadsFilters
      <3> QED BY <3>1, <3>2
    <2> QED BY <2>1, <2>2 DEF ReadsFilters
  <1> QED BY <1>1, <1>2, <1>3 DEF IInv

\* What is known of a node that runs a command.
LEMMA NodeType ==
  ASSUME Shape, NEW n \in Nodes
  PROVE  /\ MAX_FILTERS \in Nat /\ MAX_FILTERS > 0
         /\ chains[n] \in ChainType /\ nfilters[n] \in 0..(MAX_FILTERS - 1)
         /\ command[n] \in CommandType /\ command[n].index \in 0..(MAX_FILTERS - 1)
         /\ freed[n] \subseteq Filters /\ wanted[n] \in Seq(Filters)
         /\ Len(wanted[n]) \in Nat /\ DOMAIN wanted[n] = 1..Len(wanted[n])
         /\ Base(n) \in 0..(MAX_FILTERS - 1) /\ CommandInv(n)
         /\ command[n].pc \in {"idle", "store", "store_last", "count",
                               "count_last", "uncount", "move"}
  <1>1. CommandInv(n)
    BY DEF Shape
  <1>2. /\ command[n] \in CommandType /\ wanted[n] \in Seq(Filters)
        /\ chains[n] \in ChainType /\ nfilters[n] \in 0..(MAX_FILTERS - 1)
        /\ freed[n] \subseteq Filters
    BY DEF Shape, TypeOK
  <1>3. /\ command[n].index \in 0..(MAX_FILTERS - 1)
        /\ command[n].pc \in {"idle", "store", "store_last", "count",
                              "count_last", "uncount", "move"}
    BY <1>2 DEF CommandType
  <1>4. Base(n) \in 0..(MAX_FILTERS - 1)
    BY <1>1 DEF CommandInv
  <1> QED BY <1>1, <1>2, <1>3, <1>4, DelayAssumption

\* A registration begins.
LEMMA RegisterStep ==
  ASSUME IInv, NEW n \in Nodes, NEW f \in Filters, Register(n, f)
  PROVE  IInv'
  <1>0. Shape
    BY DEF IInv, Shape
  <1>1. PICK pc \in {"store", "count"} :
          command' = [command EXCEPT ![n] = [pc |-> pc, filter |-> f,
                                             index |-> nfilters[n]]]
    BY DEF Register, Go
  <1> DEFINE c == [pc |-> pc, filter |-> f, index |-> nfilters[n]]
  <1>2. /\ command[n].pc = "idle" /\ n \notin crashed
        /\ UNCHANGED <<now, packet, strays, chains, nfilters, freed, crashed,
                       wanted, moved>>
        /\ f \notin freed[n] /\ f \notin Range(wanted[n])
        /\ commands' = commands + 1
    BY DEF Register, Commanded
  <1>3. /\ c \in CommandType /\ c.pc = pc /\ c.filter = f /\ c.index = nfilters[n]
    BY <1>0, <1>1, NodeType DEF CommandType
  <1> HIDE DEF c
  <1>4. command' \in [Nodes -> CommandType] /\ command'[n] = c
        /\ \A m \in Nodes \ {n} : command'[m] = command[m]
    BY <1>0, <1>1, <1>3 DEF Shape, TypeOK, c
  <1>5. TypeOK'
    BY <1>0, <1>2, <1>4 DEF Shape, TypeOK
  <1>6. Elsewhere(n)
    BY <1>2, <1>4 DEF Elsewhere, Same
  <1>7. Base(n)' = Base(n) /\ Base(n) = nfilters[n]
    BY <1>1, <1>2, <1>3, <1>4 DEF Base
  <1>8. CommandInv(n)'
    BY <1>0, <1>1, <1>2, <1>3, <1>4, <1>7, NodeType
       DEF CommandInv, Registering, Unregistering
  <1>9. ChainInv(n) => ChainInv(n)'
    <2> SUFFICES ASSUME ChainInv(n) PROVE ChainInv(n)'
      OBVIOUS
    <2>1. \A i : Entry(n, i)' = Entry(n, i)
      BY <1>2 DEF Entry
    <2>2. \A i \in 1..Len(wanted[n]) : wanted[n][i] # f
      BY <1>0, <1>2, NodeType DEF Range
    <2>3. \A i \in 0..(Base(n) - 1) : Entry(n, i) \in Filters \ freed[n]
      BY <1>2 DEF ChainInv, Unregistering
    <2> QED BY <1>1, <1>2, <1>3, <1>4, <1>7, <2>1, <2>2, <2>3
            DEF ChainInv, Registering, Unregistering
  <1> QED BY <1>2, <1>5, <1>6, <1>8, <1>9, CommandStep DEF IInv

\* The count wraps within the array.
LEMMA Wraps ==
  ASSUME MAX_FILTERS \in Nat, NEW i \in 0..(MAX_FILTERS - 1)
  PROVE  (i + 1) % MAX_FILTERS = IF i + 1 = MAX_FILTERS THEN 0 ELSE i + 1
  <1>1. CASE i + 1 = MAX_FILTERS
    BY <1>1
  <1>2. CASE i + 1 < MAX_FILTERS
    BY <1>2
  <1> QED BY <1>1, <1>2

\* A registration that is complete: the filter is counted and stored.
LEMMA Registered ==
  ASSUME Shape, NEW n \in Nodes, command[n].pc \in Registering,
         command'[n] = NoCommand, freed'[n] = freed[n],
         wanted'[n] = Append(wanted[n], command[n].filter),
         nfilters'[n] = (command[n].index + 1) % MAX_FILTERS,
         chains'[n][command[n].index] = command[n].filter,
         \A i \in 0..(command[n].index - 1) : chains'[n][i] = chains[n][i]
  PROVE  CommandInv(n)' /\ (ChainInv(n) => ChainInv(n)')
  <1> DEFINE c == command[n]
             w == wanted[n]
             M == MAX_FILTERS
  <1>0. /\ M \in Nat /\ M > 0 /\ Base(n) \in 0..(M - 1) /\ CommandInv(n)
        /\ w \in Seq(Filters) /\ Len(w) \in Nat
    BY NodeType
  <1>1. c.index = Base(n) /\ c.filter \in Filters
    BY <1>0 DEF CommandInv
  <1>2. nfilters'[n] = IF Base(n) + 1 = M THEN 0 ELSE Base(n) + 1
    BY <1>0, <1>1, Wraps
  <1>3. command'[n].pc = "idle" /\ Base(n)' = nfilters'[n]
    BY DEF NoCommand, Base
  <1>4. Base(n)' \in 0..(M - 1)
    BY <1>0, <1>2, <1>3
  <1>5. CommandInv(n)'
    BY <1>3, <1>4 DEF CommandInv, Registering, Unregistering
  <1>6. ASSUME ChainInv(n) PROVE ChainInv(n)'
    <2>1. /\ \A i, j \in 1..Len(w) : w[i] = w[j] => i = j
          /\ Len(w) < M => /\ Base(n) = Len(w)
                           /\ \A i \in 0..(Len(w) - 1) : chains[n][i] = w[i + 1]
          /\ \A i \in 0..(Base(n) - 1) : chains[n][i] \in Filters \ freed[n]
          /\ c.filter \notin freed[n]
          /\ \A i \in 1..Len(w) : w[i] # c.filter
      BY <1>6 DEF ChainInv, Registering, Unregistering, Entry
    <2>2. /\ Len(wanted'[n]) = Len(w) + 1
          /\ wanted'[n][Len(w) + 1] = c.filter
          /\ \A i \in 1..Len(w) : wanted'[n][i] = w[i]
      BY <1>0, <1>1
    <2>3. \A i, j \in 1..(Len(w) + 1) : wanted'[n][i] = wanted'[n][j] => i = j
      <3>1. \A i \in 1..(Len(w) + 1) : i \in 1..Len(w) \/ i = Len(w) + 1
        BY <1>0
      <3> QED BY <2>1, <2>2, <3>1
    <2>4. \A i \in 0..(nfilters'[n] - 1) : chains'[n][i] \in Filters \ freed[n]
      <3>1. \A i \in 0..(nfilters'[n] - 1) : i \in 0..(Base(n) - 1) \/ i = Base(n)
        BY <1>0, <1>2
      <3>2. \A i \in 0..(Base(n) - 1) : chains'[n][i] = chains[n][i]
        BY <1>1
      <3> QED BY <1>1, <2>1, <3>1, <3>2
    <2>5. ASSUME Len(w) + 1 < M
          PROVE  /\ nfilters'[n] = Len(w) + 1
                 /\ \A i \in 0..Len(w) : chains'[n][i] = wanted'[n][i + 1]
      <3>1. Base(n) = Len(w) /\ nfilters'[n] = Len(w) + 1
        BY <1>0, <1>2, <2>1, <2>5
      <3>2. \A i \in 0..Len(w) : i \in 0..(Len(w) - 1) \/ i = Len(w)
        BY <1>0
      <3>3. ASSUME NEW i \in 0..(Len(w) - 1) PROVE chains'[n][i] = wanted'[n][i + 1]
        <4>1. chains'[n][i] = w[i + 1]
          BY <1>0, <1>1, <2>1, <2>5, <3>1
        <4>2. i + 1 \in 1..Len(w)
          BY <1>0
        <4> QED BY <2>2, <4>1, <4>2
      <3> QED BY <1>1, <2>2, <3>1, <3>2, <3>3
    <2>6. \A i : Entry(n, i)' = chains'[n][i]
      BY DEF Entry
    <2>7. PICK l \in Nat : l = Len(w)
      BY <1>0
    <2>8. /\ Len(wanted'[n]) = l + 1
          /\ \A i, j \in 1..(l + 1) : wanted'[n][i] = wanted'[n][j] => i = j
          /\ l + 1 < M => /\ nfilters'[n] = l + 1
                          /\ \A i \in 0..((l + 1) - 1) :
                               chains'[n][i] = wanted'[n][i + 1]
      <3>1. (l + 1) - 1 = l
        OBVIOUS
      <3> QED BY <2>2, <2>3, <2>5, <2>7, <3>1
    <2> HIDE DEF w
    <2> QED BY <1>3, <2>4, <2>6, <2>8
            DEF ChainInv, Registering, Unregistering
  <1> QED BY <1>5, <1>6

\* A registration's two halves, in either order.
LEMMA StoresStep ==
  ASSUME IInv, NEW n \in Nodes, RegisterStores(n)
  PROVE  IInv'
  <1> DEFINE c == command[n]
  <1>0. Shape
    BY DEF IInv, Shape
  <1>1. /\ n \notin crashed /\ c.pc \in {"store", "store_last"}
        /\ UNCHANGED <<now, packet, strays, nfilters, freed, crashed, moved,
                       commands>>
        /\ chains' = [chains EXCEPT ![n][c.index] = c.filter]
    BY DEF RegisterStores, Commanded
  <1>2. /\ c.index = Base(n) /\ c.filter \in Filters
        /\ c.index \in 0..(MAX_FILTERS - 1) /\ MAX_FILTERS \in Nat
        /\ c.pc = "store_last" => nfilters[n] = (c.index + 1) % MAX_FILTERS
        /\ wanted[n] \in Seq(Filters) /\ c \in CommandType
    BY <1>0, <1>1, NodeType DEF CommandInv, Registering
  <1>3. /\ chains' \in [Nodes -> ChainType]
        /\ chains'[n][c.index] = c.filter
        /\ \A i \in 0..(MAX_FILTERS - 1) : i # c.index => chains'[n][i] = chains[n][i]
        /\ \A m \in Nodes \ {n} : chains'[m] = chains[m]
    BY <1>0, <1>1, <1>2 DEF Shape, TypeOK, ChainType
  <1>4. CASE c.pc = "store"
    <2>1. /\ command' = [command EXCEPT ![n] = [c EXCEPT !.pc = "count_last"]]
          /\ wanted' = wanted
      BY <1>4 DEF RegisterStores, Go
    <2>2. /\ [c EXCEPT !.pc = "count_last"] \in CommandType
          /\ [c EXCEPT !.pc = "count_last"].pc = "count_last"
          /\ [c EXCEPT !.pc = "count_last"].filter = c.filter
          /\ [c EXCEPT !.pc = "count_last"].index = c.index
      BY <1>2 DEF CommandType
    <2>3. /\ command' \in [Nodes -> CommandType]
          /\ command'[n].pc = "count_last" /\ command'[n].filter = c.filter
          /\ command'[n].index = c.index
          /\ \A m \in Nodes \ {n} : command'[m] = command[m]
      BY <1>0, <2>1, <2>2 DEF Shape, TypeOK
    <2>4. TypeOK'
      BY <1>0, <1>1, <1>3, <2>1, <2>3 DEF Shape, TypeOK
    <2>5. Elsewhere(n)
      BY <1>1, <1>3, <2>1, <2>3 DEF Elsewhere, Same
    <2>6. Base(n)' = Base(n)
      BY <1>1, <1>4, <2>3 DEF Base
    <2>7. CommandInv(n)'
      BY <1>0, <1>2, <2>3, <2>6, NodeType DEF CommandInv, Registering, Unregistering
    <2>8. ASSUME ChainInv(n) PROVE ChainInv(n)'
      <3>1. \A i \in 0..(Base(n) - 1) : Entry(n, i)' = Entry(n, i)
        BY <1>2, <1>3 DEF Entry
      <3>2. Entry(n, c.index)' = c.filter
        BY <1>1, <1>3, <2>1 DEF Entry
      <3>3. c.pc \in Registering /\ c.pc \notin Unregistering
            /\ command'[n].pc \in Registering /\ command'[n].pc \notin Unregistering
        BY <1>4, <2>3 DEF Registering, Unregistering
      <3> QED BY <1>1, <1>2, <2>1, <2>3, <2>6, <2>8, <3>1, <3>2, <3>3 DEF ChainInv, Entry
    <2> QED BY <1>1, <2>4, <2>5, <2>7, <2>8, CommandStep DEF IInv
  <1>5. CASE c.pc = "store_last"
    <2>1. /\ command' = [command EXCEPT ![n] = NoCommand]
          /\ wanted' = [wanted EXCEPT ![n] = Append(@, c.filter)]
      BY <1>5 DEF RegisterStores, Go
    <2>2. NoCommand \in CommandType
      BY <1>2 DEF NoCommand, CommandType
    <2>3. Append(wanted[n], c.filter) \in Seq(Filters)
      BY <1>2
    <2>4. TypeOK'
      BY <1>0, <1>1, <1>3, <2>1, <2>2, <2>3 DEF Shape, TypeOK
    <2>5. Elsewhere(n)
      BY <1>0, <1>1, <1>3, <2>1 DEF Elsewhere, Same, Shape, TypeOK
    <2>6. CommandInv(n)' /\ (ChainInv(n) => ChainInv(n)')
      <3>1. /\ command'[n] = NoCommand /\ freed'[n] = freed[n]
            /\ wanted'[n] = Append(wanted[n], c.filter)
            /\ nfilters'[n] = (c.index + 1) % MAX_FILTERS
            /\ \A i \in 0..(c.index - 1) : chains'[n][i] = chains[n][i]
            /\ c.pc \in Registering
        BY <1>0, <1>1, <1>2, <1>3, <1>5, <2>1 DEF Shape, TypeOK, Registering
      <3> QED BY <1>0, <1>3, <3>1, Registered
    <2> QED BY <1>1, <2>4, <2>5, <2>6, CommandStep DEF IInv
  <1> QED BY <1>1, <1>4, <1>5

\* The other half.
LEMMA CountsStep ==
  ASSUME IInv, NEW n \in Nodes, RegisterCounts(n)
  PROVE  IInv'
  <1> DEFINE c == command[n]
  <1>0. Shape
    BY DEF IInv, Shape
  <1>1. /\ n \notin crashed /\ c.pc \in {"count", "count_last"}
        /\ UNCHANGED <<now, packet, strays, chains, freed, crashed, moved,
                       commands>>
        /\ nfilters' = [nfilters EXCEPT ![n] = (@ + 1) % MAX_FILTERS]
    BY DEF RegisterCounts, Commanded
  <1>2. /\ c.index = Base(n) /\ Base(n) = nfilters[n] /\ c.filter \in Filters
        /\ c.index \in 0..(MAX_FILTERS - 1) /\ MAX_FILTERS \in Nat
        /\ wanted[n] \in Seq(Filters) /\ c \in CommandType
    BY <1>0, <1>1, NodeType DEF CommandInv, Registering, Base
  <1>3. /\ nfilters' \in [Nodes -> 0..(MAX_FILTERS - 1)]
        /\ nfilters'[n] = (c.index + 1) % MAX_FILTERS
        /\ \A m \in Nodes \ {n} : nfilters'[m] = nfilters[m]
    <2>1. (nfilters[n] + 1) % MAX_FILTERS \in 0..(MAX_FILTERS - 1)
      BY <1>2, Wraps
    <2> QED BY <1>0, <1>1, <1>2, <2>1 DEF Shape, TypeOK
  <1>4. CASE c.pc = "count"
    <2>1. /\ command' = [command EXCEPT ![n] = [c EXCEPT !.pc = "store_last"]]
          /\ wanted' = wanted
      BY <1>4 DEF RegisterCounts, Go
    <2>2. /\ [c EXCEPT !.pc = "store_last"] \in CommandType
          /\ [c EXCEPT !.pc = "store_last"].pc = "store_last"
          /\ [c EXCEPT !.pc = "store_last"].filter = c.filter
          /\ [c EXCEPT !.pc = "store_last"].index = c.index
      BY <1>2 DEF CommandType
    <2>3. /\ command' \in [Nodes -> CommandType]
          /\ command'[n].pc = "store_last" /\ command'[n].filter = c.filter
          /\ command'[n].index = c.index
          /\ \A m \in Nodes \ {n} : command'[m] = command[m]
      BY <1>0, <2>1, <2>2 DEF Shape, TypeOK
    <2>4. TypeOK'
      BY <1>0, <1>1, <1>3, <2>1, <2>3 DEF Shape, TypeOK
    <2>5. Elsewhere(n)
      BY <1>1, <1>3, <2>1, <2>3 DEF Elsewhere, Same
    <2>6. Base(n)' = Base(n)
      BY <1>2, <2>3 DEF Base
    <2>7. CommandInv(n)'
      BY <1>0, <1>2, <1>3, <2>3, <2>6, NodeType DEF CommandInv, Registering, Unregistering
    <2>8. ASSUME ChainInv(n) PROVE ChainInv(n)'
      <3>1. \A i : Entry(n, i)' = Entry(n, i)
        BY <1>1 DEF Entry
      <3>2. c.pc \in Registering /\ c.pc \notin Unregistering
            /\ command'[n].pc \in Registering /\ command'[n].pc \notin Unregistering
        BY <1>4, <2>3 DEF Registering, Unregistering
      <3> QED BY <1>1, <1>2, <2>1, <2>3, <2>6, <2>8, <3>1, <3>2 DEF ChainInv
    <2> QED BY <1>1, <2>4, <2>5, <2>7, <2>8, CommandStep DEF IInv
  <1>5. CASE c.pc = "count_last"
    <2>1. /\ command' = [command EXCEPT ![n] = NoCommand]
          /\ wanted' = [wanted EXCEPT ![n] = Append(@, c.filter)]
      BY <1>5 DEF RegisterCounts, Go
    <2>2. NoCommand \in CommandType
      BY <1>2 DEF NoCommand, CommandType
    <2>3. Append(wanted[n], c.filter) \in Seq(Filters)
      BY <1>2
    <2>4. TypeOK'
      BY <1>0, <1>1, <1>3, <2>1, <2>2, <2>3 DEF Shape, TypeOK
    <2>5. Elsewhere(n)
      BY <1>0, <1>1, <1>3, <2>1 DEF Elsewhere, Same, Shape, TypeOK
    <2>6. /\ command'[n] = NoCommand /\ freed'[n] = freed[n]
          /\ wanted'[n] = Append(wanted[n], c.filter)
          /\ \A i \in 0..(c.index - 1) : chains'[n][i] = chains[n][i]
          /\ c.pc \in Registering
      BY <1>0, <1>1, <1>5, <2>1 DEF Shape, TypeOK, Registering
    <2>7. CommandInv(n)'
      <3>1. command'[n].pc = "idle" /\ Base(n)' = nfilters'[n]
        BY <2>6 DEF NoCommand, Base
      <3>2. nfilters'[n] \in 0..(MAX_FILTERS - 1)
        BY <1>3
      <3> QED BY <2>6, <3>1, <3>2 DEF CommandInv, Registering, Unregistering
    <2>8. ASSUME ChainInv(n) PROVE ChainInv(n)'
      <3>1. chains'[n][c.index] = c.filter
        BY <1>1, <1>5, <2>8 DEF ChainInv, Entry
      <3> QED BY <1>0, <1>3, <2>6, <2>8, <3>1, Registered
    <2> QED BY <1>1, <2>4, <2>5, <2>7, <2>8, CommandStep DEF IInv
  <1> QED BY <1>1, <1>4, <1>5

\* A removal begins: the filter is freed, and nothing else has changed yet.
LEMMA UnregisterStep ==
  ASSUME IInv, NEW n \in Nodes, NEW i \in 0..(MAX_FILTERS - 1), Unregister(n, i)
  PROVE  IInv'
  <1> DEFINE f == Entry(n, i)
             c == [pc |-> "uncount", filter |-> f, index |-> i]
  <1>0. Shape
    BY DEF IInv, Shape
  <1>1. /\ n \notin crashed /\ command[n].pc = "idle" /\ i < nfilters[n]
        /\ UNCHANGED <<now, packet, strays, chains, nfilters, wanted, moved>>
        /\ commands' = commands + 1
    BY DEF Unregister, Commanded
  <1>2. Base(n) = nfilters[n] /\ nfilters[n] \in 0..(MAX_FILTERS - 1)
        /\ MAX_FILTERS \in Nat
    BY <1>0, <1>1, NodeType DEF Base
  <1>3. i \in 0..(Base(n) - 1)
    BY <1>1, <1>2
  <1>4. ASSUME n \notin moved PROVE Live(n, f)
    BY <1>1, <1>3, <1>4 DEF IInv, ChainInv, Live, Unregistering
  <1>5. CASE ~Live(n, f)
    <2>1. crashed' = crashed \cup {n} /\ UNCHANGED <<freed, command>> /\ n \in moved
      BY <1>4, <1>5 DEF Unregister
    <2>2. TypeOK'
      BY <1>0, <1>1, <2>1 DEF Shape, TypeOK
    <2>3. Elsewhere(n) /\ Same(n)
      BY <1>1, <2>1 DEF Elsewhere, Same
    <2>4. CommandInv(n)'
      BY <2>3, Frame DEF IInv
    <2> QED BY <1>1, <2>1, <2>2, <2>3, <2>4, CommandStep
  <1>6. CASE Live(n, f)
    <2>1. /\ freed' = [freed EXCEPT ![n] = @ \cup {f}] /\ crashed' = crashed
          /\ command' = [command EXCEPT ![n] = c]
      BY <1>6 DEF Unregister, Go
    <2>2. f \in Filters
      BY <1>6 DEF Live
    <2> HIDE DEF f
    <2>3. c \in CommandType /\ c.pc = "uncount" /\ c.filter = f /\ c.index = i
      BY <2>2 DEF CommandType
    <2> HIDE DEF c
    <2>4. /\ command' \in [Nodes -> CommandType] /\ command'[n] = c
          /\ \A m \in Nodes \ {n} : command'[m] = command[m]
          /\ freed' \in [Nodes -> SUBSET Filters]
          /\ freed'[n] = freed[n] \cup {f}
          /\ \A m \in Nodes \ {n} : freed'[m] = freed[m]
      BY <1>0, <2>1, <2>2, <2>3 DEF Shape, TypeOK
    <2>5. TypeOK'
      BY <1>0, <1>1, <2>1, <2>4 DEF Shape, TypeOK
    <2>6. Elsewhere(n)
      BY <1>1, <2>1, <2>4 DEF Elsewhere, Same
    <2>7. Base(n)' = Base(n)
      BY <1>1, <1>2, <2>3, <2>4 DEF Base
    <2>8. CommandInv(n)'
      BY <1>2, <1>3, <2>3, <2>4, <2>7 DEF CommandInv, Registering, Unregistering
    <2>9. ASSUME ChainInv(n) PROVE ChainInv(n)'
      <3>1. \A j : Entry(n, j)' = Entry(n, j)
        BY <1>1 DEF Entry
      <3>2. \A j \in 0..(Base(n) - 1) : Entry(n, j) \in Filters \ freed[n]
        BY <1>1, <2>9 DEF ChainInv, Unregistering
      <3>3. command'[n].pc \in Unregistering /\ command'[n].pc \notin Registering
            /\ command'[n].pc # "count_last"
        BY <2>3, <2>4 DEF Registering, Unregistering
      <3>4. Entry(n, i)' = f
        BY <3>1 DEF f
      <3> QED BY <1>1, <2>3, <2>4, <2>7, <2>9, <3>1, <3>2, <3>3, <3>4 DEF ChainInv
    <2> QED BY <1>1, <2>1, <2>5, <2>6, <2>8, <2>9, CommandStep DEF IInv
  <1> QED BY <1>5, <1>6

\* The removal counts down.
LEMMA UncountStep ==
  ASSUME IInv, NEW n \in Nodes, Uncount(n)
  PROVE  IInv'
  <1> DEFINE c == command[n]
             d == [c EXCEPT !.pc = "move"]
  <1>0. Shape
    BY DEF IInv, Shape
  <1>1. /\ n \notin crashed /\ c.pc = "uncount"
        /\ UNCHANGED <<now, packet, strays, chains, freed, crashed, wanted, moved,
                       commands>>
        /\ nfilters' = [nfilters EXCEPT ![n] = @ - 1]
        /\ command' = [command EXCEPT ![n] = d]
    BY DEF Uncount, Commanded, Go
  <1>2. /\ c.index < Base(n) /\ Base(n) = nfilters[n] /\ c \in CommandType
        /\ c.index \in 0..(MAX_FILTERS - 1) /\ MAX_FILTERS \in Nat
        /\ nfilters[n] \in 0..(MAX_FILTERS - 1)
    BY <1>0, <1>1, NodeType DEF CommandInv, Unregistering, Base
  <1>3. d \in CommandType /\ d.pc = "move" /\ d.filter = c.filter /\ d.index = c.index
    BY <1>2 DEF CommandType
  <1> HIDE DEF d
  <1>4. nfilters[n] - 1 \in 0..(MAX_FILTERS - 1)
    BY <1>2
  <1>5. /\ command' \in [Nodes -> CommandType] /\ command'[n] = d
        /\ \A m \in Nodes \ {n} : command'[m] = command[m]
        /\ nfilters' \in [Nodes -> 0..(MAX_FILTERS - 1)]
        /\ nfilters'[n] = nfilters[n] - 1
        /\ \A m \in Nodes \ {n} : nfilters'[m] = nfilters[m]
    BY <1>0, <1>1, <1>3, <1>4 DEF Shape, TypeOK
  <1>6. TypeOK'
    BY <1>0, <1>1, <1>5 DEF Shape, TypeOK
  <1>7. Elsewhere(n)
    BY <1>1, <1>5 DEF Elsewhere, Same
  <1>8. Base(n)' = Base(n)
    <2>1. Base(n)' = nfilters'[n] + 1
      BY <1>3, <1>5 DEF Base
    <2> QED BY <1>2, <1>5, <2>1
  <1>9. CommandInv(n)'
    BY <1>2, <1>3, <1>5, <1>8 DEF CommandInv, Registering, Unregistering
  <1>10. ASSUME ChainInv(n) PROVE ChainInv(n)'
    <2>1. \A j : Entry(n, j)' = Entry(n, j)
      BY <1>1 DEF Entry
    <2>2. command'[n].pc \in Unregistering /\ command'[n].pc \notin Registering
          /\ command'[n].pc # "count_last" /\ c.pc \in Unregistering
      BY <1>1, <1>3, <1>5 DEF Registering, Unregistering
    <2> QED BY <1>1, <1>3, <1>5, <1>8, <1>10, <2>1, <2>2 DEF ChainInv
  <1> QED BY <1>1, <1>6, <1>7, <1>9, <1>10, CommandStep DEF IInv

\* The pointers moved whole are no more than the bytes moved.
LEMMA WholePointers ==
  ASSUME NEW b \in Nat, NEW p \in Nat \ {0}
  PROVE  /\ b \div p \in Nat /\ b \div p <= b
         /\ b % p # 0 => b \div p < b
         /\ b = 0 => b \div p = 0 /\ b % p = 0
  <1>1. /\ b \div p \in Nat /\ b % p \in 0..(p - 1)
        /\ b = p * (b \div p) + (b % p)
    OBVIOUS
  <1>2. PICK q \in Nat : q = b \div p
    BY <1>1
  <1>3. PICK r \in Nat : r = b % p
    BY <1>1
  <1>4. b = p * q + r
    BY <1>1, <1>2, <1>3
  <1>5. p * q >= q
    <2>1. p * q = q + (p - 1) * q
      OBVIOUS
    <2>2. \A u, v \in Nat : u * v \in Nat
      OBVIOUS
    <2>3. (p - 1) * q \in Nat
      BY <2>2
    <2> QED BY <2>1, <2>3
  <1>6. p * q \in Nat
    OBVIOUS
  <1>7. q <= b /\ (r # 0 => q < b)
    BY <1>4, <1>5, <1>6
  <1>8. b = 0 => q = 0 /\ r = 0
    BY <1>4, <1>5, <1>6
  <1> QED BY <1>2, <1>3, <1>7, <1>8

\* Without gives a sequence, and takes a last element off that occurs once.
LEMMA WithoutType ==
  ASSUME NEW s \in Seq(Filters), NEW x
  PROVE  Without(s, x) \in Seq(Filters)
  <1> DEFINE l == Len(s) - (IF x \in Range(s) THEN 1 ELSE 0)
  <1>1. Len(s) \in Nat /\ DOMAIN s = 1..Len(s)
        /\ \A j \in 1..Len(s) : s[j] \in Filters
    OBVIOUS
  <1>2. l \in Nat
    <2>1. x \in Range(s) => Len(s) > 0
      BY <1>1 DEF Range
    <2> QED BY <1>1, <2>1
  <1>3. ASSUME NEW j \in 1..l
        PROVE  (IF \E k \in 1..j : s[k] = x THEN s[j + 1] ELSE s[j]) \in Filters
    <2>1. CASE \E k \in 1..j : s[k] = x
      <3>1. x \in Range(s)
        BY <1>1, <2>1 DEF Range
      <3>2. j + 1 \in 1..Len(s)
        BY <1>1, <3>1
      <3> QED BY <1>1, <2>1, <3>2
    <2>2. CASE ~\E k \in 1..j : s[k] = x
      <3>1. j \in 1..Len(s)
        BY <1>1
      <3> QED BY <1>1, <2>2, <3>1
    <2> QED BY <2>1, <2>2
  <1> HIDE DEF l
  <1>4. [j \in 1..l |-> IF \E k \in 1..j : s[k] = x THEN s[j + 1] ELSE s[j]]
          \in Seq(Filters)
    BY <1>2, <1>3
  <1> QED BY <1>4 DEF Without, l

\* It takes a last element off that occurs once.
LEMMA WithoutLast ==
  ASSUME NEW s \in Seq(Filters), Len(s) > 0,
         \A i, j \in 1..Len(s) : s[i] = s[j] => i = j
  PROVE  LET t == Without(s, s[Len(s)])
         IN  Len(t) = Len(s) - 1 /\ \A j \in 1..(Len(s) - 1) : t[j] = s[j]
  <1> DEFINE x == s[Len(s)]
  <1>1. Len(s) \in Nat /\ DOMAIN s = 1..Len(s) /\ Len(s) \in DOMAIN s
    OBVIOUS
  <1>2. x \in Range(s)
    BY <1>1 DEF Range
  <1>3. PICK l \in Nat : l + 1 = Len(s)
    <2>1. \A L \in Nat : L > 0 => \E l \in Nat : l + 1 = L
      <3> TAKE L \in Nat
      <3> HAVE L > 0
      <3> WITNESS L - 1 \in Nat
      <3> QED OBVIOUS
    <2> QED BY <1>1, <2>1
  <1>4. ASSUME NEW j \in 1..l PROVE ~\E k \in 1..j : s[k] = x
    <2>1. ASSUME NEW k \in 1..j, s[k] = x PROVE FALSE
      <3>1. k \in 1..(l + 1) /\ k # l + 1
        OBVIOUS
      <3> QED BY <1>1, <1>3, <2>1, <3>1
    <2> QED BY <2>1
  <1>5. Without(s, x) = [j \in 1..l |-> IF \E k \in 1..j : s[k] = x
                                        THEN s[j + 1] ELSE s[j]]
    BY <1>2, <1>3 DEF Without
  <1>6. Without(s, x) = [j \in 1..l |-> s[j]]
    BY <1>4, <1>5
  <1>7. Len(Without(s, x)) = l
    BY <1>6
  <1> QED BY <1>3, <1>6, <1>7

\* memmove stays inside the array, and removing the last filter moves nothing.
LEMMA MemmoveStep ==
  ASSUME IInv, NEW n \in Nodes, Memmove(n)
  PROVE  IInv'
  <1> DEFINE c == command[n]
             i == c.index
             w == wanted[n]
             M == MAX_FILTERS
             bytes == nfilters[n] - i
             whole == bytes \div PTR
             Whole(j) == j >= i /\ j < i + whole
             X == IF bytes % PTR = 0 THEN {Entry(n, i + whole)}
                  ELSE {Entry(n, i + whole + 1), Wild}
             New(x) == [j \in DOMAIN chains[n] |->
                          IF Whole(j) THEN chains[n][j + 1]
                          ELSE IF j = i + whole THEN x ELSE chains[n][j]]
  <1>0. Shape
    BY DEF IInv, Shape
  <1>1. /\ n \notin crashed /\ c.pc = "move"
        /\ UNCHANGED <<now, packet, strays, nfilters, freed, crashed, commands>>
        /\ moved' = IF i = Len(w) - 1 THEN moved ELSE moved \cup {n}
        /\ wanted' = [wanted EXCEPT ![n] = Without(@, c.filter)]
        /\ command' = [command EXCEPT ![n] = NoCommand]
    BY DEF Memmove, Commanded, Go
  <1>2. PICK x \in X : chains' = [chains EXCEPT ![n] = New(x)]
    BY DEF Memmove
  <1>3. /\ i < Base(n) /\ Base(n) = nfilters[n] + 1 /\ Base(n) \in 0..(M - 1)
        /\ i \in 0..(M - 1) /\ M \in Nat /\ nfilters[n] \in 0..(M - 1)
        /\ w \in Seq(Filters) /\ Len(w) \in Nat
        /\ chains[n] \in ChainType
    BY <1>0, <1>1, NodeType DEF CommandInv, Unregistering, Base
  <1>4. PTR \in Nat \ {0} /\ bytes \in Nat /\ i + bytes = nfilters[n]
        /\ i \in Nat /\ i + bytes < M - 1
    <2>1. PTR \in Nat \ {0}
      BY DelayAssumption
    <2>2. PICK a \in Nat : a = i
      BY <1>3
    <2>3. PICK b \in Nat : b = nfilters[n]
      BY <1>3
    <2>4. a <= b /\ b < M - 1
      BY <1>3, <2>2, <2>3
    <2>5. b - a \in Nat /\ a + (b - a) = b
      BY <2>4
    <2> QED BY <2>1, <2>2, <2>3, <2>4, <2>5
  <1>5. /\ whole \in Nat /\ whole <= bytes
        /\ bytes % PTR # 0 => whole < bytes
        /\ bytes = 0 => whole = 0 /\ bytes % PTR = 0
    <2> HIDE DEF bytes
    <2> QED BY <1>4, WholePointers
  <1> HIDE DEF whole, bytes
  <1>6. DOMAIN chains[n] = 0..(M - 1)
        /\ \A j \in 0..(M - 1) : chains[n][j] \in Filters \cup {NULL, Wild}
    BY <1>3 DEF ChainType
  <1>7. New(x) \in ChainType
    <2>1. x \in Filters \cup {NULL, Wild}
      <3>1. i + whole \in 0..(M - 1)
        BY <1>3, <1>4, <1>5
      <3>2. bytes % PTR # 0 => i + whole + 1 \in 0..(M - 1)
        BY SMTT(30), <1>3, <1>4, <1>5
      <3> QED BY <1>2, <1>6, <3>1, <3>2 DEF Entry
    <2>2. ASSUME NEW j \in 0..(M - 1), Whole(j) PROVE j + 1 \in 0..(M - 1)
      BY <1>3, <1>4, <1>5, <2>2
    <2>3. \A j \in 0..(M - 1) : New(x)[j] \in Filters \cup {NULL, Wild}
      <3> HIDE DEF Whole
      <3> QED BY <1>6, <2>1, <2>2
    <2> QED BY <1>6, <2>3 DEF ChainType
  <1>8. TypeOK'
    <2>1. NoCommand \in CommandType
      BY <1>3 DEF NoCommand, CommandType
    <2>2. Without(w, c.filter) \in Seq(Filters)
      BY <1>3, WithoutType
    <2>3. chains' \in [Nodes -> ChainType]
      <3> HIDE DEF New
      <3> QED BY <1>0, <1>2, <1>7 DEF Shape, TypeOK
    <2> QED BY <1>0, <1>1, <2>1, <2>2, <2>3 DEF Shape, TypeOK
  <1>9. Elsewhere(n)
    <2> HIDE DEF New
    <2> QED BY <1>0, <1>1, <1>2 DEF Elsewhere, Same, Shape, TypeOK
  <1>10. /\ command'[n] = NoCommand /\ command'[n].pc = "idle"
         /\ Base(n)' = nfilters[n]
    BY <1>0, <1>1 DEF Shape, TypeOK, NoCommand, Base
  <1>11. CommandInv(n)'
    BY <1>3, <1>10 DEF CommandInv, Registering, Unregistering
  <1>12. ASSUME ChainInv(n), n \notin moved' PROVE ChainInv(n)'
    <2>1. PICK l \in Nat : l = Len(w)
      BY <1>3
    <2>2. i = l - 1
      BY <1>1, <1>12, <2>1
    <2>3. l < M
      BY <1>3, <2>2
    <2>4. /\ Base(n) = l /\ c.filter = Entry(n, i)
          /\ \A j \in 0..(l - 1) : Entry(n, j) = w[j + 1]
          /\ \A j, k \in 1..l : w[j] = w[k] => j = k
          /\ \A j \in 0..(l - 1) : /\ Entry(n, j) \in Filters
                                   /\ Entry(n, j) \notin freed[n] \/ Entry(n, j) = c.filter
      BY <1>1, <1>12, <2>1, <2>3 DEF ChainInv, Unregistering
    <2>5. l > 0 /\ nfilters[n] = l - 1 /\ bytes = 0
      BY <1>3, <1>4, <2>2, <2>4
    <2>6. chains'[n] = chains[n]
      <3>1. whole = 0 /\ x = Entry(n, i + whole) /\ i + whole = i
        BY <1>2, <1>4, <1>5, <2>5
      <3>2. \A j \in 0..(M - 1) : ~Whole(j)
        BY <1>4, <3>1
      <3>3. New(x) = chains[n]
        <4> HIDE DEF Whole
        <4>1. \A j \in 0..(M - 1) : New(x)[j] = chains[n][j]
          BY <1>6, <3>1, <3>2 DEF Entry
        <4> QED BY <1>3, <1>6, <1>7, <4>1 DEF ChainType
      <3> HIDE DEF New
      <3> QED BY <1>0, <1>2, <3>3 DEF Shape, TypeOK
    <2>7. \A j : Entry(n, j)' = Entry(n, j)
      BY <2>6 DEF Entry
    <2>8. c.filter = w[l]
      <3>1. i \in 0..(l - 1) /\ i + 1 = l
        BY <2>2, <2>5
      <3> QED BY <2>4, <3>1
    <2>9. /\ Len(wanted'[n]) = l - 1
          /\ \A j \in 1..(l - 1) : wanted'[n][j] = w[j]
      <3>1. wanted'[n] = Without(w, w[Len(w)])
        BY <1>0, <1>1, <2>1, <2>8 DEF Shape, TypeOK
      <3>2. Len(w) > 0 /\ \A j, k \in 1..Len(w) : w[j] = w[k] => j = k
        BY <2>1, <2>4, <2>5
      <3> HIDE DEF w
      <3> QED BY <1>3, <2>1, <3>1, <3>2, WithoutLast
    <2>10. \A j, k \in 1..(l - 1) : wanted'[n][j] = wanted'[n][k] => j = k
      <3>1. \A j \in 1..(l - 1) : j \in 1..l
        OBVIOUS
      <3> QED BY <2>4, <2>9, <3>1
    <2>11. ASSUME NEW j \in 0..((l - 1) - 1)
           PROVE  /\ Entry(n, j) = wanted'[n][j + 1]
                  /\ Entry(n, j) \in Filters \ freed[n]
      <3>1. j \in 0..(l - 1) /\ j + 1 \in 1..(l - 1) /\ j + 1 \in 1..l
            /\ l \in 1..l /\ j + 1 # l
        OBVIOUS
      <3>2. Entry(n, j) = w[j + 1] /\ w[j + 1] # c.filter
        BY <2>4, <2>8, <3>1
      <3> QED BY <2>4, <2>9, <3>1, <3>2
    <2>12. Base(n)' = l - 1
      BY <1>10, <2>5
    <2> QED BY <1>1, <1>10, <2>7, <2>9, <2>10, <2>11, <2>12
            DEF ChainInv, Registering, Unregistering
  <1>13. n \notin moved' => n \notin moved
    BY <1>1
  <1> QED BY <1>1, <1>8, <1>9, <1>11, <1>12, <1>13, CommandStep DEF IInv

-----------------------------------------------------------------------------
\* The inductive invariant holds throughout.
THEOREM Invariant == Spec => []IInv
  <1>1. IInv /\ [Next]_vars => IInv'
    <2> SUFFICES ASSUME IInv, [Next]_vars PROVE IInv'
      OBVIOUS
    <2>1. CASE UNCHANGED vars
      <3>1. \A n : /\ CommandInv(n) => CommandInv(n)'
                   /\ ChainInv(n) => ChainInv(n)'
        BY <2>1, Frame DEF vars, filterVars, Same
      <3>2. TypeOK' /\ ReadsFilters'
        BY <2>1 DEF IInv, TypeOK, ReadsFilters, vars, filterVars
      <3>3. moved' = moved /\ packet' = packet
        BY <2>1 DEF vars, filterVars
      <3> QED BY <3>1, <3>2, <3>3 DEF IInv
    <2>2. CASE Next
      BY <2>2, HandlerStep, RegisterStep, UnregisterStep, StoresStep, CountsStep,
         UncountStep, MemmoveStep DEF Next
    <2> QED BY <2>1, <2>2
  <1> QED BY <1>1, IInvInit, PTL DEF Spec

\* Every variable keeps its type: the commands index chains inside its bounds,
\* the memmove of unregister_filter included, whatever was removed before.
THEOREM TypeCorrect == Spec => []TypeOK
  <1>1. IInv => TypeOK
    BY DEF IInv
  <1> QED BY <1>1, Invariant, PTL

\* However many relays a packet passes, and however their clocks differ, its
\* stamp stays the instant of its creation, late by the flights alone
\* (synch_out_data_packet, synch_in_data_packet).
THEOREM StampCorrect == Spec => []StampTracksCreation
  <1>1. IInv => StampTracksCreation
    <2> SUFFICES ASSUME IInv, NEW p \in Packets,
                        packet[p].pc \in {"queued", "submitted", "arrived"},
                        packet[p].intact
                 PROVE  /\ packet[p].ts - Offset[packet[p].at]
                             = packet[p].created + packet[p].flight
                        /\ packet[p].air = packet[p].at - 1
      BY DEF StampTracksCreation
    <2> DEFINE q == packet[p]
    <2>1. q \in PacketType /\ PacketInv(q)
      BY DEF IInv, TypeOK
    <2>2. /\ q.ts \in Int /\ q.at \in Nodes /\ q.created \in Int
          /\ q.flight \in Int
      BY <2>1 DEF PacketType
    <2>3. PICK o \in Int : o = Offset[q.at]
      BY <2>2, DelayAssumption
    <2>4. q.ts = o + q.created + q.flight /\ q.air = q.at - 1
      BY <2>1, <2>3 DEF PacketInv
    <2>5. q.ts - o = q.created + q.flight
      BY <2>2, <2>4
    <2> QED BY <2>3, <2>4, <2>5
  <1> QED BY <1>1, Invariant, PTL

\* register_filter and unregister_filter keep the chain equal to what the user
\* asked for while filters are removed from its end and it does not fill up.
THEOREM ChainCorrect == Spec => []ChainIntact
  <1>1. IInv => ChainIntact
    <2> SUFFICES ASSUME IInv, NEW n \in Nodes, command[n] = NoCommand,
                        n \notin moved \cup crashed,
                        Len(wanted[n]) < MAX_FILTERS
                 PROVE  /\ nfilters[n] = Len(wanted[n])
                        /\ \A i \in DOMAIN wanted[n] :
                             /\ Entry(n, i - 1) = wanted[n][i]
                             /\ Live(n, Entry(n, i - 1))
      BY DEF ChainIntact
    <2>1. command[n].pc = "idle" /\ Base(n) = nfilters[n]
      BY DEF NoCommand, Base
    <2>2. PICK l \in Nat : l = Len(wanted[n]) /\ DOMAIN wanted[n] = 1..l
      <3>1. Shape
        BY DEF IInv, Shape
      <3> QED BY <3>1, NodeType
    <2>3. /\ Base(n) = l
          /\ \A i \in 0..(l - 1) : Entry(n, i) = wanted[n][i + 1]
          /\ \A i \in 0..(l - 1) : Entry(n, i) \in Filters \ freed[n]
      BY <2>1, <2>2 DEF IInv, ChainInv, Unregistering
    <2>4. \A i \in 1..l : i - 1 \in 0..(l - 1) /\ (i - 1) + 1 = i
      OBVIOUS
    <2>5. ASSUME NEW i \in 1..l
          PROVE  /\ Entry(n, i - 1) = wanted[n][i]
                 /\ Live(n, Entry(n, i - 1))
      <3>1. PICK j \in 0..(l - 1) : j = i - 1 /\ j + 1 = i
        BY <2>4
      <3> QED BY <2>3, <3>1 DEF Live
    <2> QED BY <2>1, <2>2, <2>3, <2>5
  <1> QED BY <1>1, Invariant, PTL

\* The packet handlers read live filters between the commands, and a node goes
\* down only after a removal from the middle or over an entry that was counted
\* before it was stored.
THEOREM HandlersReadFilters == Spec => []ReadsFilters
  <1>1. IInv => ReadsFilters
    BY DEF IInv
  <1> QED BY <1>1, Invariant, PTL

=============================================================================
