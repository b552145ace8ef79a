----------------------------- MODULE GpsLassen -----------------------------
(***************************************************************************)
(* The driver of the Trimble Lassen iQ GPS (gps_time/trimble_lassen_iq).   *)
(* Its threads and its buffer are those of GpsCondor; the buffer is taken  *)
(* here as the queue of packets it implements.  What differs is the state  *)
(* machine, and that a position is asked for like a time: both kinds of    *)
(* query share GPS_QUERY and one condition variable.                       *)
(*                                                                         *)
(* The device reports its health and position by itself and may send any   *)
(* packet at any time, faster than process_msg takes them too: a full      *)
(* buffer ends the program.  What it sends before init_gps is ignored, so  *)
(* the first bytes stored may be the rest of a packet.  gps_fault, which   *)
(* only a getter reads, is left out.                                       *)
(***************************************************************************)
EXTENDS Integers, Sequences

CONSTANTS TimeClients,   \* threads that call getGPStimeUTC
          LLAClients,    \* threads that call getGPSLLA
          QueueBound     \* packets that fit in the buffer

ASSUME LassenAssumption ==
  QueueBound \in Nat \ {0} /\ TimeClients \cap LLAClients = {}

Clients == TimeClients \cup LLAClients
None == "none"

\* Health reports 0 (fix), 2 (reset needed) and the others (no fix), the
\* software version that follows a reset, the two replies, and the rest of a
\* packet whose beginning was ignored.
Packets == {"health_0", "health_2", "health_x", "sw_version", "time", "lla",
            "rest"}

VARIABLES
  queue,             \* packets in the buffer, oldest first
  gps_state,
  current_time,      \* the client to fill the time for, or None
  current_latitude,  \* the client to fill the position for, or None
  processor,         \* process_msg, as in GpsCondor
  client,            \* "read": it was told 0; "failed": it was told 1 or 2
  woken, filled,
  resets,            \* a reset has been sent that the device has not acted on
  joined,            \* bytes from the device have been stored
  exit1,             \* why the program has called exit(1), or None
  lost, crossed      \* history, per client: while it waited the fix was lost;
                     \* a query of the other kind was pending

vars == <<queue, gps_state, current_time, current_latitude, processor, client,
          woken, filled, resets, joined, exit1, lost, crossed>>

TypeOK ==
  /\ queue \in Seq(Packets) /\ Len(queue) <= QueueBound
  /\ gps_state \in {"PRE_INIT", "RESET", "SEARCH", "READY", "QUERY"}
  /\ current_time \in TimeClients \cup {None}
  /\ current_latitude \in LLAClients \cup {None}
  /\ processor \in {"absent", "running", "waiting", "woken"}
  /\ client \in [Clients -> {"idle", "wait", "read", "failed"}]
  /\ woken \in [Clients -> BOOLEAN]
  /\ filled \in [Clients -> BOOLEAN]
  /\ resets \in BOOLEAN
  /\ joined \in BOOLEAN
  /\ exit1 \in {None, "full", "unaligned"}
  /\ lost \in [Clients -> BOOLEAN]
  /\ crossed \in [Clients -> BOOLEAN]

Init ==
  /\ queue = <<>> /\ gps_state = "PRE_INIT"
  /\ current_time = None /\ current_latitude = None
  /\ processor = "absent"
  /\ client = [c \in Clients |-> "idle"]
  /\ woken = [c \in Clients |-> FALSE]
  /\ filled = [c \in Clients |-> FALSE]
  /\ resets = FALSE /\ joined = FALSE /\ exit1 = None
  /\ lost = [c \in Clients |-> FALSE]
  /\ crossed = [c \in Clients |-> FALSE]

Unlocked == exit1 = None /\ processor # "running"
Running == exit1 = None /\ processor = "running"

-----------------------------------------------------------------------------
\* init_gps: with reset the driver then waits for the software version.
init_gps ==
  /\ gps_state = "PRE_INIT"
  /\ \/ gps_state' = "RESET" /\ resets' = TRUE
     \/ gps_state' = "SEARCH" /\ resets' = FALSE
  /\ processor' = "woken"
  /\ UNCHANGED <<queue, current_time, current_latitude, client, woken, filled,
                 joined, exit1, lost, crossed>>

\* The device sends p: the version once after each reset, the rest of a packet
\* only before anything else, the others any time.  No space left: exit(1).
output_from_gps(p) ==
  /\ Unlocked /\ gps_state # "PRE_INIT"
  /\ p = "sw_version" => resets
  /\ p = "rest" => ~joined
  /\ resets' = (resets /\ p # "sw_version")
  /\ joined' = TRUE
  /\ IF Len(queue) < QueueBound
     THEN /\ queue' = Append(queue, p)
          /\ processor' = IF processor = "waiting" THEN "woken" ELSE processor
          /\ UNCHANGED exit1
     ELSE exit1' = "full" /\ UNCHANGED <<queue, processor>>
  /\ UNCHANGED <<gps_state, current_time, current_latitude, client, woken,
                 filled, lost, crossed>>

ProcessorWakes ==
  /\ exit1 = None /\ processor = "woken" /\ processor' = "running"
  /\ UNCHANGED <<queue, gps_state, current_time, current_latitude, client,
                 woken, filled, resets, joined, exit1, lost, crossed>>

\* No packet in the buffer, or the rest of one that is shorter than four bytes.
ProcessorWaits ==
  /\ Running /\ queue \in {<<>>, <<"rest">>}
  /\ processor' = "waiting"
  /\ UNCHANGED <<queue, gps_state, current_time, current_latitude, client,
                 woken, filled, resets, joined, exit1, lost, crossed>>

-----------------------------------------------------------------------------
(* process_msg: the packet at the head of the queue.                       *)

Takes(p) ==
  /\ Running /\ queue # <<>> /\ Head(queue) = p
  /\ queue' = Tail(queue)
  /\ UNCHANGED <<current_time, current_latitude, processor, client, joined>>

\* The rest of a packet: lookup_packet finds no DLE and calls exit(1)
\* (DleFraming!Check), or the rest starts with a DLE of the packet's data and
\* passes for a packet of no known kind.
ProcessRest ==
  /\ Takes("rest")
  /\ exit1' \in {None, "unaligned"}
  /\ UNCHANGED <<gps_state, woken, filled, resets, lost, crossed>>

Waiters == {c \in Clients : client[c] = "wait" /\ ~woken[c]}
LostByWaiters ==
  /\ lost' = [c \in Clients |-> lost[c] \/ client[c] = "wait"]
  /\ UNCHANGED crossed
Signal ==
  IF Waiters = {} THEN UNCHANGED woken
  ELSE \E c \in Waiters : woken' = [woken EXCEPT ![c] = TRUE]

\* Mutant: the driver resets without a word to the client that waits.
ProcessReset_NoSignal ==
  /\ Takes("health_2")
  /\ gps_state' = "RESET" /\ resets' = TRUE
  /\ LostByWaiters /\ UNCHANGED <<woken, filled, exit1>>

\* Health 2: send a reset, tell the client that waits, go to RESET.
ProcessReset ==
  /\ Takes("health_2")
  /\ IF gps_state = "QUERY" THEN Signal ELSE UNCHANGED woken
  /\ gps_state' = "RESET" /\ resets' = TRUE
  /\ LostByWaiters /\ UNCHANGED <<filled, exit1>>

\* Any other bad health: the fix is lost.
ProcessLoss ==
  /\ Takes("health_x")
  /\ gps_state' = IF gps_state \in {"READY", "QUERY"} THEN "SEARCH"
                                                     ELSE gps_state
  /\ IF gps_state = "QUERY" THEN Signal ELSE UNCHANGED woken
  /\ LostByWaiters /\ UNCHANGED <<filled, resets, exit1>>

ProcessFix ==
  /\ Takes("health_0")
  /\ gps_state' = IF gps_state = "SEARCH" THEN "READY" ELSE gps_state
  /\ UNCHANGED <<woken, filled, resets, exit1, lost, crossed>>

ProcessVersion ==
  /\ Takes("sw_version")
  /\ gps_state' = IF gps_state = "RESET" THEN "SEARCH" ELSE gps_state
  /\ UNCHANGED <<woken, filled, resets, exit1, lost, crossed>>

\* Mutant: a reply nobody asked for ends the query.
ProcessReply_Unasked(p, current) ==
  /\ Takes(p)
  /\ IF gps_state = "QUERY"
     THEN /\ filled' = [c \in Clients |-> filled[c] \/ c = current]
          /\ gps_state' = "READY" /\ Signal
     ELSE UNCHANGED <<filled, gps_state, woken>>
  /\ UNCHANGED <<resets, exit1, lost, crossed>>

\* A time or position packet: the reply, if a query for it is pending.
ProcessReply(p, current) ==
  /\ Takes(p)
  /\ IF gps_state = "QUERY" /\ current # None
     THEN /\ filled' = [filled EXCEPT ![current] = TRUE]
          /\ gps_state' = "READY" /\ Signal
     ELSE UNCHANGED <<filled, gps_state, woken>>
  /\ UNCHANGED <<resets, exit1, lost, crossed>>

-----------------------------------------------------------------------------
(* getGPStimeUTC and getGPSLLA.                                            *)

Refused(c) ==
  gps_state # "READY" \/ (c \in TimeClients /\ current_time # None)
                      \/ (c \in LLAClients /\ current_latitude # None)

\* The call up to its wait; both send a request to the device first.
Ask(c) ==
  /\ Unlocked /\ client[c] # "wait"
  /\ filled' = [filled EXCEPT ![c] = FALSE]
  /\ lost' = [lost EXCEPT ![c] = FALSE]
  /\ \/ /\ Refused(c)
        /\ client' = [client EXCEPT ![c] = "failed"]
        /\ crossed' = [crossed EXCEPT ![c] = FALSE]
        /\ UNCHANGED <<gps_state, current_time, current_latitude>>
     \/ /\ ~Refused(c)
        /\ client' = [client EXCEPT ![c] = "wait"]
        /\ crossed' = [d \in Clients |->
                         IF d = c THEN \E e \in Clients : client[e] = "wait"
                                  ELSE crossed[d] \/ client[d] = "wait"]
        /\ gps_state' = "QUERY"
        /\ current_time' = IF c \in TimeClients THEN c ELSE current_time
        /\ current_latitude' =
             IF c \in LLAClients THEN c ELSE current_latitude
  /\ UNCHANGED <<queue, processor, woken, resets, joined, exit1>>

\* Back from pthread_cond_wait.  The history of a query that failed is dropped.
Wakes(c) ==
  LET failed == gps_state \notin {"READY", "QUERY"}
  IN  /\ Unlocked /\ client[c] = "wait" /\ woken[c]
      /\ woken' = [woken EXCEPT ![c] = FALSE]
      /\ IF gps_state = "QUERY"
         THEN UNCHANGED <<client, current_time, current_latitude>>
         ELSE /\ client' = [client EXCEPT ![c] =
                              IF failed THEN "failed" ELSE "read"]
              /\ current_time' = IF c \in TimeClients THEN None ELSE current_time
              /\ current_latitude' =
                   IF c \in LLAClients THEN None ELSE current_latitude
      /\ filled' = [filled EXCEPT ![c] = @ /\ ~failed]
      /\ lost' = [lost EXCEPT ![c] = @ /\ ~failed]
      /\ crossed' = [crossed EXCEPT ![c] = @ /\ ~failed]
      /\ UNCHANGED <<queue, gps_state, processor, resets, joined, exit1>>

-----------------------------------------------------------------------------
Processor ==
  \/ ProcessorWakes \/ ProcessorWaits
  \/ ProcessRest \/ ProcessReset \/ ProcessLoss \/ ProcessFix
  \/ ProcessVersion
  \/ ProcessReply("time", current_time)
  \/ ProcessReply("lla", current_latitude)

Next ==
  \/ init_gps
  \/ \E p \in Packets : output_from_gps(p)
  \/ Processor
  \/ \E c \in Clients : Ask(c) \/ Wakes(c)

Spec == Init /\ [][Next]_vars

\* The threads are scheduled; the device keeps sending times and positions
\* (it reports positions by itself and answers every request).
Fairness ==
  /\ WF_vars(Processor)
  /\ \A c \in Clients : SF_vars(Wakes(c))
  /\ SF_vars(output_from_gps("time")) /\ SF_vars(output_from_gps("lla"))

FairSpec == Spec /\ Fairness

-----------------------------------------------------------------------------
(* Properties.                                                             *)

\* gps_time.c:310 and 344, "Will return 0 if time is read" and "if position is
\* read": a caller that is told 0 has been given its reply, unless, while it
\* waited, the fix was lost and came back, or a query of the other kind was
\* pending, whose late reply ends both.
ZeroMeansReadUnlessDisturbed ==
  \A c \in Clients : client[c] = "read" => filled[c] \/ lost[c] \/ crossed[c]

\* gps_time.c:309 and 343: a call returns, with the reply or with the loss of
\* the fix, unless the program exits, or unless a query of the other kind was
\* pending while it waited: both wait on one condition variable that is
\* signalled once, so the signal meant for one of them may wake the other and
\* leave it waiting for ever.
QueryAnswered ==
  \A c \in Clients :
    client[c] = "wait" ~> client[c] # "wait" \/ exit1 # None \/ crossed[c]
=============================================================================
