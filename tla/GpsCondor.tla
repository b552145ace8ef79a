----------------------------- MODULE GpsCondor -----------------------------
(***************************************************************************)
(* The driver of the Trimble Condor GPS (gps_time/trimble_condor) and the  *)
(* program that sets the node's clock from it (receiver/init_counter.c).   *)
(*                                                                         *)
(* Three kinds of threads share gps_state and a circular buffer under      *)
(* state_change_m: the UART reader stores the bytes it gets, process_msg   *)
(* takes sentences out and runs the state machine, and clients wait for    *)
(* the next time sentence.  process_msg keeps the mutex from one wait to   *)
(* the next, so the other threads only move while it waits.                *)
(*                                                                         *)
(* A sentence is two cells, its head (the one with '$') and its tail (the  *)
(* one with the newline); read() returns any number of cells, not whole    *)
(* sentences, since xuartctl sets its pty to raw mode.  A sentence is      *)
(* reduced to what process_msg does with it; the position, the number of   *)
(* satellites and gps_fault, which nothing but getters read, are left out. *)
(***************************************************************************)
EXTENDS Integers, Sequences

CONSTANTS Clients,       \* threads that ask for the time
          MSG_BUF_SIZE,  \* of the circular buffer, in cells
          GPS_BUF_SIZE,  \* most cells one read() returns
          Spurious       \* TRUE: pthread_cond_wait may return unsignalled

None == "none"

\* A client passes the address of its timeval, which is never null.
ASSUME CondorAssumption ==
  /\ MSG_BUF_SIZE \in Nat \ {0} /\ GPS_BUF_SIZE \in Nat \ {0}
  /\ Spurious \in BOOLEAN
  /\ None \notin Clients

VARIABLES
  line,          \* the device's output: "idle", or the sentence it is inside
  msg_buf, buff_start, buff_end,
  gps_state,
  current_time,  \* the client whose timeval is to be filled, or None
  processor,     \* process_msg: "absent", "running" (has the mutex),
                 \* "waiting" or "woken" (signalled, not yet running)
  client,        \* per client: where it is
  woken,         \* per client: reply_available_cond has been signalled to it
  tv,            \* per client: "garbage" until its timeval is filled
  exit1,         \* why the program has called exit(1), or None
  pending        \* history: the cells stored and not yet processed

vars == <<line, msg_buf, buff_start, buff_end, gps_state, current_time,
          processor, client, woken, tv, exit1, pending>>
bufVars == <<msg_buf, buff_start, buff_end, pending>>
clientVars == <<client, woken, tv>>

\* GGA with a fix, GGA without, ZDA, and all others: what process_msg ignores, or
\* does not know and exits over.
Kinds == {"fix", "nofix", "time", "other"}
Cells == {"head", "tail"} \X Kinds
Blank == <<"blank", "blank">>   \* a cell never written
Index == 0..(MSG_BUF_SIZE - 1)

TypeOK ==
  /\ line \in Kinds \cup {"idle"}
  /\ msg_buf \in [Index -> Cells \cup {Blank}]
  /\ buff_start \in Index /\ buff_end \in Index
  /\ gps_state \in {"PRE_INIT", "RESET", "SEARCH", "READY", "QUERY"}
  /\ current_time \in Clients \cup {None}
  /\ processor \in {"absent", "running", "waiting", "woken"}
  /\ client \in [Clients -> {"poll", "ask", "wait", "ret0", "ret1", "ret2",
                             "gave_up"}]
  /\ woken \in [Clients -> BOOLEAN]
  /\ tv \in [Clients -> {"garbage", "read"}]
  /\ exit1 \in {None, "full", "unaligned", "unknown"}
  /\ \A i \in DOMAIN pending : pending[i] \in Cells

Init ==
  /\ line \in Kinds \cup {"idle"}
  /\ msg_buf = [i \in Index |-> Blank] /\ buff_start = 0 /\ buff_end = 0
  /\ gps_state = "PRE_INIT" /\ current_time = None
  /\ processor = "absent"
  /\ client = [c \in Clients |-> "poll"]
  /\ woken = [c \in Clients |-> FALSE]
  /\ tv = [c \in Clients |-> "garbage"]
  /\ exit1 = None /\ pending = <<>>

\* state_change_m can be taken: process_msg waits (or is not there yet).
Unlocked == exit1 = None /\ processor # "running"

-----------------------------------------------------------------------------
(* The buffer.                                                             *)

Used == (buff_end - buff_start) % MSG_BUF_SIZE

\* lookup_packet: the buffer holds a whole sentence.  The search for its end
\* starts at buff_start.
Found == \E k \in 0..(Used - 1) :
           msg_buf[(buff_start + k) % MSG_BUF_SIZE][1] = "tail"

Aligned == msg_buf[buff_start][1] = "head"

\* Heads and tails alternate: whether the i-th cell that the device sends from
\* l on is a head.
SendsHead(l, i) == (l = "idle") <=> (i % 2 = 1)

\* The cells sent from l on, each with the place it leaves the device in; ks
\* gives the kinds of the sentences that start.
Sent(l, ks) ==
  [i \in DOMAIN ks |->
     IF SendsHead(l, i) THEN [cell |-> <<"head", ks[i]>>, line |-> ks[i]]
     ELSE [cell |-> <<"tail", IF i = 1 THEN l ELSE ks[i - 1]>>,
           line |-> "idle"]]

\* What read() may return when the device is at l.
Reads(l) ==
  {Sent(l, ks) : ks \in UNION {[1..n -> Kinds] : n \in 1..GPS_BUF_SIZE}}

\* Mutant: a message that fills the buffer to the last position is accepted.
HasRoom_NoFreePosition(msg_len) == MSG_BUF_SIZE - Used >= msg_len

\* One position always stays free.
HasRoom(msg_len) == MSG_BUF_SIZE - Used > msg_len

\* The bytes go to the end of the data, around the end of the buffer.
Store(r) ==
  /\ msg_buf' = [i \in Index |->
                   LET k == (i - buff_end) % MSG_BUF_SIZE
                   IN  IF k < Len(r) THEN r[k + 1].cell ELSE msg_buf[i]]
  /\ buff_end' = (buff_end + Len(r)) % MSG_BUF_SIZE
  /\ pending' = pending \o [k \in DOMAIN r |-> r[k].cell]

\* uart_read_thread reads r and hands it to output_from_gps, which drops it
\* before the device is initialised, stores it and signals, or ends the
\* program when it does not fit.
output_from_gps(r) ==
  /\ Unlocked
  /\ line' = r[Len(r)].line
  /\ \/ gps_state = "PRE_INIT" /\ UNCHANGED <<bufVars, processor, exit1>>
     \/ /\ gps_state # "PRE_INIT" /\ HasRoom(Len(r))
        /\ Store(r)
        /\ processor' = IF processor = "waiting" THEN "woken" ELSE processor
        /\ UNCHANGED <<buff_start, exit1>>
     \/ /\ gps_state # "PRE_INIT" /\ ~HasRoom(Len(r))
        /\ exit1' = "full" /\ UNCHANGED <<bufVars, processor>>
  /\ UNCHANGED <<gps_state, current_time, clientVars>>

-----------------------------------------------------------------------------
(* init_gps and process_msg.                                               *)

\* The state leaves PRE_INIT while the reader is already running ...
init_gps ==
  /\ exit1 = None /\ gps_state = "PRE_INIT"
  /\ gps_state' \in {"RESET", "SEARCH"}
  /\ UNCHANGED <<line, bufVars, current_time, processor, clientVars, exit1>>

\* ... and process_msg is started once the device has been configured.
pthread_create ==
  /\ exit1 = None /\ gps_state # "PRE_INIT" /\ processor = "absent"
  /\ processor' = "woken"
  /\ UNCHANGED <<line, bufVars, gps_state, current_time, clientVars, exit1>>

\* process_msg gets the mutex: at its start, signalled, or for no reason.
ProcessorWakes ==
  /\ exit1 = None
  /\ processor = "woken" \/ (Spurious /\ processor = "waiting")
  /\ processor' = "running"
  /\ UNCHANGED <<line, bufVars, gps_state, current_time, clientVars, exit1>>

\* No whole sentence: wait for data_available_cond.
ProcessorWaits ==
  /\ exit1 = None /\ processor = "running"
  /\ Used < 2 \/ (Aligned /\ ~Found)
  /\ processor' = "waiting"
  /\ UNCHANGED <<line, bufVars, gps_state, current_time, clientVars, exit1>>

\* lookup_packet ends the program when the data does not start with '$', and
\* process_msg when a sentence reports a quality or an antenna status it does
\* not know.
ProcessorExits ==
  /\ exit1 = None /\ processor = "running" /\ Used >= 2
  /\ \/ ~Aligned /\ exit1' = "unaligned"
     \/ /\ Aligned /\ Found /\ msg_buf[buff_start][2] = "other"
        /\ exit1' = "unknown"
  /\ UNCHANGED <<line, bufVars, gps_state, current_time, processor,
                 clientVars>>

\* The sentence at buff_start is of kind k; its two cells are consumed.
Takes(k) ==
  /\ exit1 = None /\ processor = "running"
  /\ Used >= 2 /\ Aligned /\ Found
  /\ msg_buf[buff_start][2] = k
  /\ buff_start' = (buff_start + 2) % MSG_BUF_SIZE
  /\ pending' = SubSeq(pending, 3, Len(pending))
  /\ UNCHANGED <<line, msg_buf, buff_end, processor, client, exit1>>

\* pthread_cond_signal wakes one of the clients that wait, if there is any.
Waiters == {c \in Clients : client[c] = "wait" /\ ~woken[c]}
Signal ==
  IF Waiters = {} THEN UNCHANGED woken
  ELSE \E c \in Waiters : woken' = [woken EXCEPT ![c] = TRUE]

\* GGA, quality 0.  The test for a pending query comes after the state has
\* been overwritten and is never true: nobody is signalled.
ProcessNoFix ==
  /\ Takes("nofix")
  /\ gps_state' = "SEARCH"
  /\ UNCHANGED <<current_time, woken, tv>>

\* Mutant: a fix wakes the client, as the loss of one was meant to.
ProcessFix_Signals ==
  /\ Takes("fix")
  /\ gps_state' = "READY"
  /\ Signal
  /\ UNCHANGED <<current_time, tv>>

\* GGA, quality 1 or 2: READY, also when it was QUERY.
ProcessFix ==
  /\ Takes("fix")
  /\ gps_state' = "READY"
  /\ UNCHANGED <<current_time, woken, tv>>

\* Mutant: the reply is left to the client's next wakeup.
ProcessTime_NoSignal ==
  /\ Takes("time")
  /\ IF current_time = None
     THEN UNCHANGED <<gps_state, woken, tv>>
     ELSE /\ tv' = [tv EXCEPT ![current_time] = "read"]
          /\ gps_state' = "READY" /\ UNCHANGED woken
  /\ UNCHANGED <<current_time>>

\* ZDA: answers the pending query, if there is one.
ProcessTime ==
  /\ Takes("time")
  /\ IF current_time = None
     THEN UNCHANGED <<gps_state, woken, tv>>
     ELSE /\ tv' = [tv EXCEPT ![current_time] = "read"]
          /\ gps_state' = "READY" /\ Signal
  /\ UNCHANGED <<current_time>>

\* Antenna reports, unknown sentences and bad checksums, which change nothing
\* here.
ProcessOther ==
  /\ Takes("other")
  /\ UNCHANGED <<gps_state, current_time, woken, tv>>

-----------------------------------------------------------------------------
(* The clients.                                                            *)

Goto(c, from, to) == client[c] = from /\ client' = [client EXCEPT ![c] = to]

\* init_counter polls is_gps_ready, which reads gps_state without the mutex,
\* once a second, and gives up when its tries run out.  A poll that finds the
\* device not ready with tries left changes nothing the model keeps.
is_gps_ready(c) ==
  /\ exit1 = None
  /\ Goto(c, "poll", IF gps_state = "READY" THEN "ask" ELSE "gave_up")
  /\ UNCHANGED <<line, bufVars, gps_state, current_time, processor, woken, tv,
                 exit1>>

Accepts == gps_state = "READY" /\ current_time = None

\* getGPStimeUTC up to its wait.
getGPStimeUTC(c) ==
  /\ Unlocked
  /\ \/ /\ ~Accepts /\ Goto(c, "ask", "ret1")
        /\ UNCHANGED <<current_time, gps_state>>
     \/ /\ Accepts /\ Goto(c, "ask", "wait")
        /\ current_time' = c /\ gps_state' = "QUERY"
  /\ UNCHANGED <<line, bufVars, processor, woken, tv, exit1>>

\* Back from pthread_cond_wait: wait again, or return.
GetTimeWakes(c) ==
  /\ Unlocked /\ client[c] = "wait" /\ (woken[c] \/ Spurious)
  /\ woken' = [woken EXCEPT ![c] = FALSE]
  /\ IF gps_state = "QUERY" THEN UNCHANGED <<client, current_time>>
     ELSE /\ client' = [client EXCEPT ![c] =
                          IF gps_state = "READY" THEN "ret0" ELSE "ret2"]
          /\ current_time' = None
  /\ UNCHANGED <<line, bufVars, gps_state, processor, tv, exit1>>

\* A client that has its answer may ask again later (uart_gps_test.c does).
AskAgain(c) ==
  /\ exit1 = None
  /\ client[c] \in {"ret0", "ret1", "ret2"}
  /\ client' = [client EXCEPT ![c] = "ask"]
  /\ tv' = [tv EXCEPT ![c] = "garbage"]
  /\ UNCHANGED <<line, bufVars, gps_state, current_time, processor, woken,
                 exit1>>

-----------------------------------------------------------------------------
Reader == \E r \in Reads(line) : output_from_gps(r)

\* A read in which a time sentence starts.
ReadsTime ==
  \E r \in Reads(line) :
    /\ \E i \in DOMAIN r : r[i].cell = <<"head", "time">>
    /\ output_from_gps(r)

Processor ==
  \/ ProcessorWakes \/ ProcessorWaits \/ ProcessorExits
  \/ ProcessNoFix \/ ProcessFix \/ ProcessTime \/ ProcessOther

Client(c) == is_gps_ready(c) \/ getGPStimeUTC(c) \/ GetTimeWakes(c)

Next ==
  \/ init_gps \/ pthread_create
  \/ Reader \/ Processor
  \/ \E c \in Clients : Client(c) \/ AskAgain(c)

Spec == Init /\ [][Next]_vars

\* Every thread is scheduled again and again; a mutex that is free again and
\* again is obtained.  The device keeps sending time sentences, one a second.
Fairness ==
  /\ WF_vars(init_gps \/ pthread_create)
  /\ SF_vars(Reader) /\ SF_vars(ReadsTime)
  /\ WF_vars(Processor)
  /\ \A c \in Clients : SF_vars(Client(c))

FairSpec == Spec /\ Fairness

-----------------------------------------------------------------------------
(* Properties.                                                             *)

\* gps_time.c:202, "Will return 0 if time is read": a client that is told 0
\* has its time (and init_counter sets the kernel's clock from it).
ZeroMeansRead == \A c \in Clients : client[c] = "ret0" => tv[c] # "garbage"

\* A pending query is answered, unless the program exits.
QueryAnswered ==
  \A c \in Clients : client[c] = "wait" ~> client[c] # "wait" \/ exit1 # None

\* The circular buffer holds the bytes stored and not yet processed, in order:
\* its two indices never make a full buffer look empty, and no write runs over
\* what process_msg has not seen.
BufferFaithful ==
  pending = [k \in 1..Used |-> msg_buf[(buff_start + k - 1) % MSG_BUF_SIZE]]
=============================================================================
