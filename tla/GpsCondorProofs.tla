--------------------------- MODULE GpsCondorProofs ---------------------------
(***************************************************************************)
(* Proofs about the Condor driver, for any number of clients, any size of  *)
(* the buffer and of a read.  The buffer part needs no assumption on when  *)
(* threads wake; the answer part is about condition variables that only    *)
(* return when they are signalled (Spurious = FALSE).                      *)
(***************************************************************************)
EXTENDS GpsCondor, TLAPS

-----------------------------------------------------------------------------
(* Circular arithmetic.                                                    *)

\* The remainder of a sum or difference of two positions.
LEMMA ModValue ==
  ASSUME NEW x \in Int, -MSG_BUF_SIZE <= x, x < 2 * MSG_BUF_SIZE
  PROVE  x % MSG_BUF_SIZE = IF x < 0 THEN x + MSG_BUF_SIZE
                            ELSE IF x < MSG_BUF_SIZE THEN x
                            ELSE x - MSG_BUF_SIZE
  BY CondorAssumption

\* A sentence in the read: cells and places of the device.
LEMMA ReadType ==
  ASSUME NEW l \in Kinds \cup {"idle"}, NEW r \in Reads(l)
  PROVE  /\ r \in Seq([cell : Cells, line : Kinds \cup {"idle"}])
         /\ Len(r) \in Nat \ {0}
  <1>0. PICK n \in 1..GPS_BUF_SIZE : \E ks \in [1..n -> Kinds] : r = Sent(l, ks)
    BY DEF Reads
  <1>1. PICK ks \in [1..n -> Kinds] : r = Sent(l, ks)
    BY <1>0
  <1>2. \A i \in 1..n :
          (IF SendsHead(l, i) THEN [cell |-> <<"head", ks[i]>>, line |-> ks[i]]
           ELSE [cell |-> <<"tail", IF i = 1 THEN l ELSE ks[i - 1]>>,
                 line |-> "idle"])
          \in [cell : Cells, line : Kinds \cup {"idle"}]
    <2> SUFFICES ASSUME NEW i \in 1..n
                 PROVE (IF SendsHead(l, i)
                        THEN [cell |-> <<"head", ks[i]>>, line |-> ks[i]]
                        ELSE [cell |-> <<"tail", IF i = 1 THEN l ELSE ks[i - 1]>>,
                              line |-> "idle"])
                       \in [cell : Cells, line : Kinds \cup {"idle"}]
      OBVIOUS
    <2>1. ks[i] \in Kinds /\ (i # 1 => ks[i - 1] \in Kinds)
      BY <1>1
    <2>2. CASE SendsHead(l, i)
      BY <2>1, <2>2 DEF Cells
    <2>3. CASE ~SendsHead(l, i)
      <3>1. i = 1 => l \in Kinds
        BY <2>3 DEF SendsHead
      <3> QED BY <2>1, <2>3, <3>1 DEF Cells
    <2> QED BY <2>2, <2>3
  <1>3. r \in [1..n -> [cell : Cells, line : Kinds \cup {"idle"}]]
    BY <1>1, <1>2 DEF Sent
  <1>4. n \in Nat /\ n > 0
    BY <1>1, CondorAssumption
  <1> DEFINE S == [cell : Cells, line : Kinds \cup {"idle"}]
  <1>5. r \in [1..n -> S]
    BY <1>3
  <1> HIDE DEF S
  <1>6. r \in Seq(S) /\ Len(r) = n
    BY <1>4, <1>5
  <1> QED BY <1>4, <1>6 DEF S

-----------------------------------------------------------------------------
(* Types.                                                                  *)

\* The buffer is empty, no client has asked.
LEMMA TypeInit == Init => TypeOK
  <1> SUFFICES ASSUME Init PROVE TypeOK
    OBVIOUS
  <1>1. buff_start \in Index /\ buff_end \in Index
    BY CondorAssumption DEF Init, Index
  <1>2. woken \in [Clients -> BOOLEAN]
    BY Zenon DEF Init
  <1>3. \A i \in DOMAIN pending : pending[i] \in Cells
    BY DEF Init
  <1> QED BY <1>1, <1>2, <1>3 DEF Init, TypeOK

\* The signal wakes at most one waiting client.
LEMMA SignalType ==
  ASSUME TypeOK, Signal PROVE woken' \in [Clients -> BOOLEAN]
  BY DEF TypeOK, Signal, Waiters

-----------------------------------------------------------------------------
(* The buffer.                                                             *)

\* The bytes in use, without the remainder.
LEMMA UsedValue ==
  ASSUME TypeOK
  PROVE  /\ buff_start \in Nat /\ buff_start < MSG_BUF_SIZE
         /\ buff_end \in Nat /\ buff_end < MSG_BUF_SIZE
         /\ MSG_BUF_SIZE \in Nat /\ MSG_BUF_SIZE > 0
         /\ Used \in Nat /\ Used < MSG_BUF_SIZE
         /\ Used = IF buff_end < buff_start
                   THEN (buff_end - buff_start) + MSG_BUF_SIZE
                   ELSE buff_end - buff_start
  <1>1. /\ buff_start \in Nat /\ buff_start < MSG_BUF_SIZE
        /\ buff_end \in Nat /\ buff_end < MSG_BUF_SIZE
        /\ MSG_BUF_SIZE \in Nat /\ MSG_BUF_SIZE > 0
    BY CondorAssumption DEF TypeOK, Index
  <1> DEFINE x == buff_end - buff_start
  <1>2. x \in Int /\ -MSG_BUF_SIZE <= x /\ x < MSG_BUF_SIZE
    BY <1>1
  <1> HIDE DEF x
  <1>3. x % MSG_BUF_SIZE = IF x < 0 THEN x + MSG_BUF_SIZE ELSE x
    BY <1>1, <1>2, ModValue
  <1>4. Used = IF x < 0 THEN x + MSG_BUF_SIZE ELSE x
    BY <1>3 DEF Used, x
  <1> QED BY <1>1, <1>2, <1>4 DEF x

\* A faithful buffer gives the sequence of pending cells.
LEMMA PendingSeq ==
  ASSUME TypeOK, BufferFaithful
  PROVE  pending \in Seq(Cells) /\ Len(pending) = Used
  <1>1. Used \in Nat
    BY UsedValue
  <1>2. /\ DOMAIN pending = 1..Used
        /\ pending = [k \in 1..Used |-> pending[k]]
    BY DEF BufferFaithful
  <1>3. \A k \in 1..Used : pending[k] \in Cells
    BY <1>2 DEF TypeOK
  <1>4. pending \in [1..Used -> Cells]
    BY <1>2, <1>3
  <1> HIDE DEF Cells, Used
  <1> QED BY <1>1, <1>4

\* Where the k-th pending cell is.
LEMMA SlotValue ==
  ASSUME TypeOK, NEW k \in 1..MSG_BUF_SIZE
  PROVE  LET x == buff_start + k - 1
         IN  x % MSG_BUF_SIZE = IF x < MSG_BUF_SIZE THEN x ELSE x - MSG_BUF_SIZE
  <1> DEFINE x == buff_start + k - 1
  <1>1. x \in Nat /\ x < 2 * MSG_BUF_SIZE /\ MSG_BUF_SIZE \in Nat
    BY UsedValue
  <1> HIDE DEF x
  <1>2. x % MSG_BUF_SIZE = IF x < MSG_BUF_SIZE THEN x ELSE x - MSG_BUF_SIZE
    BY <1>1, ModValue
  <1> QED BY <1>2 DEF x

\* Storing a read that leaves one position free appends it to what is pending.
LEMMA StoreStep ==
  ASSUME TypeOK, BufferFaithful,
         NEW r \in Seq([cell : Cells, line : Kinds \cup {"idle"}]),
         HasRoom(Len(r)), Store(r), buff_start' = buff_start
  PROVE  /\ msg_buf' \in [Index -> Cells \cup {Blank}]
         /\ buff_end' \in Index
         /\ \A i \in DOMAIN pending' : pending'[i] \in Cells
         /\ BufferFaithful'
  <1> DEFINE M == MSG_BUF_SIZE
             n == Len(r)
             s == buff_start
             e == buff_end
  <1>1. /\ s \in Nat /\ s < M /\ e \in Nat /\ e < M /\ M \in Nat /\ M > 0
        /\ Used \in Nat /\ Used < M
        /\ Used = IF e < s THEN (e - s) + M ELSE e - s
    BY UsedValue
  <1>2. n \in Nat /\ n < M - Used /\ Used + n < M
    BY <1>1 DEF HasRoom
  <1>3. buff_end' = IF e + n < M THEN e + n ELSE (e + n) - M
    <2> DEFINE x == e + n
    <2>1. x \in Nat /\ x < 2 * M
      BY <1>1, <1>2
    <2> HIDE DEF x
    <2>2. x % M = IF x < M THEN x ELSE x - M
      BY <1>1, <2>1, ModValue
    <2> QED BY <2>2 DEF Store, x
  <1>4. buff_end' \in Index
    BY <1>1, <1>2, <1>3 DEF Index
  <1>5. \A k \in 1..n : r[k] \in [cell : Cells, line : Kinds \cup {"idle"}]
                        /\ r[k].cell \in Cells
    <2> DEFINE S == [cell : Cells, line : Kinds \cup {"idle"}]
    <2>1. r \in Seq(S)
      OBVIOUS
    <2> HIDE DEF S
    <2>2. \A k \in 1..n : r[k] \in S
      BY <2>1
    <2>3. \A x \in S : x.cell \in Cells
      BY DEF S
    <2> QED BY <2>2, <2>3 DEF S
  <1>6. msg_buf' \in [Index -> Cells \cup {Blank}]
    <2> SUFFICES ASSUME NEW i \in Index
                 PROVE  (LET k == (i - e) % M
                         IN  IF k < n THEN r[k + 1].cell ELSE msg_buf[i])
                        \in Cells \cup {Blank}
      BY DEF Store
    <2> DEFINE k == (i - e) % M
    <2>1. k \in Nat
      BY <1>1 DEF Index
    <2> HIDE DEF k
    <2>2. CASE k < n
      BY <1>2, <1>5, <2>1, <2>2 DEF k
    <2>3. CASE ~(k < n)
      BY <2>3 DEF k, TypeOK
    <2> QED BY <2>2, <2>3
  <1>7. Used' = Used + n
    <2> DEFINE x == buff_end' - s
    <2>1. x \in Int /\ -M <= x /\ x < M
      BY <1>1, <1>2, <1>3
    <2> HIDE DEF x
    <2>2. x % M = IF x < 0 THEN x + M ELSE x
      BY <1>1, <2>1, ModValue
    <2>3. Used' = IF x < 0 THEN x + M ELSE x
      BY <2>2 DEF Used, x
    <2> QED BY <1>1, <1>2, <1>3, <2>3 DEF x
  <1>8. pending \in Seq(Cells) /\ Len(pending) = Used
    BY PendingSeq
  <1> DEFINE c == [k \in DOMAIN r |-> r[k].cell]
  <1>9. c \in Seq(Cells) /\ Len(c) = n /\ \A k \in 1..n : c[k] = r[k].cell
    <2>1. DOMAIN r = 1..n /\ c \in [1..n -> Cells]
      BY <1>5
    <2> QED BY <1>2, <2>1
  <1>10. pending' = pending \o c
    BY DEF Store
  <1> HIDE DEF c
  <1>11. /\ pending' \in Seq(Cells) /\ Len(pending') = Used + n
         /\ DOMAIN pending' = 1..(Used + n)
         /\ \A k \in 1..Used : pending'[k] = pending[k]
         /\ \A k \in 1..n : pending'[Used + k] = c[k]
    <2>0. pending \in Seq(Cells) /\ c \in Seq(Cells)
      BY <1>8, <1>9
    <2>1. /\ pending \o c \in Seq(Cells)
          /\ Len(pending \o c) = Len(pending) + Len(c)
          /\ DOMAIN (pending \o c) = 1..(Len(pending) + Len(c))
          /\ \A k \in 1..Len(pending) : (pending \o c)[k] = pending[k]
          /\ \A k \in 1..Len(c) : (pending \o c)[Len(pending) + k] = c[k]
      BY <2>0
    <2> QED BY <1>8, <1>9, <1>10, <2>1
  <1>12. ASSUME NEW k \in 1..(Used + n)
         PROVE  pending'[k] = msg_buf'[(s + k - 1) % M]
    <2> DEFINE i == (s + k - 1) % M
    <2>1. k \in 1..M
      BY <1>1, <1>2
    <2>2. /\ s + k - 1 \in Nat
          /\ i = IF s + k - 1 < M THEN s + k - 1 ELSE (s + k - 1) - M
      BY <1>1, <2>1, SlotValue
    <2> HIDE DEF i
    <2>3. i \in Index /\ i \in Nat /\ i < M
      BY <1>1, <2>1, <2>2 DEF Index
    <2> DEFINE j == (i - e) % M
    <2>4. j = IF i - e < 0 THEN (i - e) + M ELSE i - e
      <3> DEFINE y == i - e
      <3>1. y \in Int /\ -M <= y /\ y < M
        BY <1>1, <2>3
      <3> HIDE DEF y
      <3>2. y % M = IF y < 0 THEN y + M ELSE y
        BY <1>1, <3>1, ModValue
      <3> QED BY <3>2 DEF y
    <2> HIDE DEF j
    <2>5. msg_buf'[i] = IF j < n THEN r[j + 1].cell ELSE msg_buf[i]
      BY <2>3 DEF Store, j
    <2>6. CASE k <= Used
      <3>1. ~(j < n)
        BY <1>1, <1>2, <2>1, <2>2, <2>4, <2>6
      <3>2. k \in 1..Used
        BY <2>6
      <3>3. pending[k] = msg_buf[i]
        BY <3>2 DEF BufferFaithful, i
      <3> QED BY <1>11, <2>5, <3>1, <3>2, <3>3 DEF i
    <2>7. CASE k > Used
      <3>1. j = (k - Used) - 1 /\ j < n /\ j + 1 \in 1..n /\ k = Used + (j + 1)
        BY <1>1, <1>2, <2>1, <2>2, <2>4, <2>7
      <3>2. pending'[k] = r[j + 1].cell
        BY <1>9, <1>11, <3>1
      <3> QED BY <2>5, <3>1, <3>2 DEF i
    <2> QED BY <1>1, <2>6, <2>7
  <1>13. BufferFaithful'
    <2>1. pending' = [k \in 1..(Used + n) |-> msg_buf'[(s + k - 1) % M]]
      <3>1. pending' = [k \in 1..(Used + n) |-> pending'[k]]
        BY <1>11
      <3> QED BY <1>12, <3>1
    <2> QED BY <1>7, <2>1 DEF BufferFaithful
  <1>14. \A i \in DOMAIN pending' : pending'[i] \in Cells
    BY <1>11
  <1> QED BY <1>4, <1>6, <1>13, <1>14

\* Taking a sentence removes the first two pending cells.
LEMMA TakesStep ==
  ASSUME TypeOK, BufferFaithful, NEW kind, Takes(kind)
  PROVE  /\ buff_start' \in Index
         /\ \A i \in DOMAIN pending' : pending'[i] \in Cells
         /\ BufferFaithful'
  <1> DEFINE M == MSG_BUF_SIZE
             s == buff_start
             e == buff_end
  <1>1. /\ s \in Nat /\ s < M /\ e \in Nat /\ e < M /\ M \in Nat /\ M > 0
        /\ Used \in Nat /\ Used < M /\ Used >= 2
        /\ Used = IF e < s THEN (e - s) + M ELSE e - s
    BY UsedValue DEF Takes
  <1>2. buff_start' = IF s + 2 < M THEN s + 2 ELSE (s + 2) - M
    <2> DEFINE x == s + 2
    <2>1. x \in Nat /\ x < 2 * M
      BY <1>1
    <2> HIDE DEF x
    <2>2. x % M = IF x < M THEN x ELSE x - M
      BY <1>1, <2>1, ModValue
    <2> QED BY <2>2 DEF Takes, x
  <1>3. buff_start' \in Index
    BY <1>1, <1>2 DEF Index
  <1>4. Used' = Used - 2
    <2> DEFINE x == e - buff_start'
    <2>1. x \in Int /\ -M <= x /\ x < M
      BY <1>1, <1>2
    <2> HIDE DEF x
    <2>2. x % M = IF x < 0 THEN x + M ELSE x
      BY <1>1, <2>1, ModValue
    <2>3. Used' = IF x < 0 THEN x + M ELSE x
      BY <2>2 DEF Used, x, Takes
    <2> QED BY <1>1, <1>2, <2>3 DEF x
  <1>5. pending \in Seq(Cells) /\ Len(pending) = Used
    BY PendingSeq
  <1>6. pending' = SubSeq(pending, 3, Used)
    BY <1>5 DEF Takes
  <1>7. /\ pending' \in Seq(Cells) /\ DOMAIN pending' = 1..(Used - 2)
        /\ \A k \in 1..(Used - 2) : pending'[k] = pending[k + 2]
    BY <1>1, <1>5, <1>6
  <1>8. ASSUME NEW k \in 1..(Used - 2)
        PROVE  pending'[k] = msg_buf'[(buff_start' + k - 1) % M]
    <2> DEFINE x == buff_start' + k - 1
               y == s + (k + 2) - 1
    <2>1. x \in Nat /\ x < 2 * M /\ y \in Nat /\ y < 2 * M
      BY <1>1, <1>2
    <2>2. x = y \/ x = y - M
      BY <1>1, <1>2
    <2>3. x = y - M => y >= M
      BY <1>1, <2>1
    <2>4. x < M \/ x = y
      BY <1>1, <1>2
    <2> HIDE DEF x, y
    <2>5. /\ x % M = IF x < M THEN x ELSE x - M
          /\ y % M = IF y < M THEN y ELSE y - M
      BY <1>1, <2>1, ModValue
    <2>6. x % M = y % M
      BY <1>1, <2>1, <2>2, <2>3, <2>4, <2>5
    <2>7. k + 2 \in 1..Used
      BY <1>1
    <2>8. pending[k + 2] = msg_buf[y % M]
      BY <2>7 DEF BufferFaithful, y
    <2>9. msg_buf' = msg_buf
      BY DEF Takes
    <2> QED BY <1>7, <2>6, <2>8, <2>9 DEF x
  <1>9. BufferFaithful'
    <2>1. pending' = [k \in 1..(Used - 2) |-> pending'[k]]
      BY <1>7
    <2>2. pending' = [k \in 1..(Used - 2) |-> msg_buf'[(buff_start' + k - 1) % M]]
      BY <1>8, <2>1
    <2> QED BY <1>4, <2>2 DEF BufferFaithful
  <1>10. \A i \in DOMAIN pending' : pending'[i] \in Cells
    <2>1. \A k \in 1..(Used - 2) : k + 2 \in 1..Used
      BY <1>1
    <2>2. \A k \in 1..Used : pending[k] \in Cells
      BY <1>5
    <2> QED BY <1>7, <2>1, <2>2
  <1> QED BY <1>3, <1>9, <1>10

\* An empty buffer is faithful.
LEMMA BufferInit == Init => BufferFaithful
  <1> SUFFICES ASSUME Init PROVE BufferFaithful
    OBVIOUS
  <1>1. Used = 0
    BY UsedValue, TypeInit DEF Init
  <1> QED BY <1>1 DEF Init, BufferFaithful

\* Every step keeps the types and the buffer faithful.
LEMMA BufferStep ==
  TypeOK /\ BufferFaithful /\ [Next]_vars => TypeOK' /\ BufferFaithful'
  <1> SUFFICES ASSUME TypeOK, BufferFaithful, [Next]_vars
               PROVE  TypeOK' /\ BufferFaithful'
    OBVIOUS
  <1>1. ASSUME NEW r \in Reads(line), output_from_gps(r)
        PROVE  TypeOK' /\ BufferFaithful'
    <2>1. /\ r \in Seq([cell : Cells, line : Kinds \cup {"idle"}])
          /\ Len(r) \in Nat \ {0}
      BY ReadType DEF TypeOK
    <2>2. line' \in Kinds \cup {"idle"}
      <3> DEFINE S == [cell : Cells, line : Kinds \cup {"idle"}]
      <3>1. r \in Seq(S) /\ Len(r) \in 1..Len(r)
        BY <2>1
      <3> HIDE DEF S
      <3>2. r[Len(r)] \in S
        BY <3>1
      <3>3. r[Len(r)].line \in Kinds \cup {"idle"}
        BY <3>2 DEF S
      <3> QED BY <1>1, <3>3 DEF output_from_gps
    <2>3. CASE UNCHANGED <<bufVars, processor>>
      <3>1. exit1' \in {None, "full", "unaligned", "unknown"}
        BY <1>1 DEF output_from_gps, TypeOK
      <3> QED BY <1>1, <2>2, <2>3, <3>1
              DEF output_from_gps, bufVars, clientVars, TypeOK, BufferFaithful, Used
    <2>4. CASE /\ HasRoom(Len(r)) /\ Store(r)
               /\ processor' = IF processor = "waiting" THEN "woken" ELSE processor
               /\ UNCHANGED <<buff_start, exit1>>
      <3>1. /\ msg_buf' \in [Index -> Cells \cup {Blank}]
            /\ buff_end' \in Index
            /\ \A i \in DOMAIN pending' : pending'[i] \in Cells
            /\ BufferFaithful'
        BY <2>1, <2>4, StoreStep
      <3>2. TypeOK'
        BY <1>1, <2>2, <2>4, <3>1 DEF output_from_gps, clientVars, TypeOK
      <3> QED BY <3>1, <3>2
    <2> QED BY <1>1, <2>3, <2>4 DEF output_from_gps
  <1>2. ASSUME NEW kind, Takes(kind),
               /\ gps_state' \in {"SEARCH", "READY", gps_state}
               /\ woken' \in [Clients -> BOOLEAN]
               /\ tv' \in [Clients -> {"garbage", "read"}]
               /\ current_time' = current_time
        PROVE  TypeOK' /\ BufferFaithful'
    <2>1. /\ buff_start' \in Index /\ BufferFaithful'
          /\ \A i \in DOMAIN pending' : pending'[i] \in Cells
      BY <1>2, TakesStep
    <2> QED BY <1>2, <2>1 DEF Takes, TypeOK
  <1>3. CASE ProcessNoFix \/ ProcessFix \/ ProcessOther
    BY <1>2, <1>3 DEF ProcessNoFix, ProcessFix, ProcessOther, TypeOK
  <1>4. CASE ProcessTime
    <2>1. woken' \in [Clients -> BOOLEAN]
      BY <1>4, SignalType DEF ProcessTime, TypeOK
    <2>2. tv' \in [Clients -> {"garbage", "read"}]
      BY <1>4 DEF ProcessTime, TypeOK
    <2> QED BY <1>2, <1>4, <2>1, <2>2 DEF ProcessTime
  <1>5. CASE init_gps \/ pthread_create
    BY <1>5 DEF init_gps, pthread_create, bufVars, clientVars, TypeOK,
       BufferFaithful, Used
  <1>6. CASE ProcessorWakes \/ ProcessorWaits \/ ProcessorExits
    BY <1>6 DEF ProcessorWakes, ProcessorWaits, ProcessorExits, bufVars,
       clientVars, TypeOK, BufferFaithful, Used
  <1>7. ASSUME NEW c \in Clients, Client(c) \/ AskAgain(c)
        PROVE  TypeOK' /\ BufferFaithful'
    <2>1. BufferFaithful'
      BY <1>7 DEF Client, is_gps_ready, getGPStimeUTC, GetTimeWakes, AskAgain,
         bufVars, BufferFaithful, Used
    <2>2. CASE is_gps_ready(c)
      BY <2>1, <2>2 DEF is_gps_ready, Goto, bufVars, TypeOK
    <2>3. CASE getGPStimeUTC(c)
      BY <2>1, <2>3 DEF getGPStimeUTC, Goto, bufVars, TypeOK
    <2>4. CASE GetTimeWakes(c)
      BY <2>1, <2>4 DEF GetTimeWakes, bufVars, TypeOK
    <2>5. CASE AskAgain(c)
      BY <2>1, <2>5 DEF AskAgain, bufVars, TypeOK
    <2> QED BY <1>7, <2>1, <2>2, <2>3, <2>4, <2>5 DEF Client
  <1>8. CASE UNCHANGED vars
    BY <1>8 DEF vars, TypeOK, BufferFaithful, Used
  <1> QED BY <1>1, <1>3, <1>4, <1>5, <1>6, <1>7, <1>8
          DEF Next, Reader, Processor

\* The buffer and the threads' states keep their types, and the circular
\* buffer holds exactly the bytes stored and not yet processed, for every
\* buffer size, size of a read and number of clients.
THEOREM TypeAndBuffer == Spec => [](TypeOK /\ BufferFaithful)
  BY TypeInit, BufferInit, BufferStep, PTL DEF Spec

\* The circular buffer never loses, repeats or reorders a byte, whichever
\* thread wakes when.
THEOREM FaithfulBuffer == Spec => []BufferFaithful
  BY TypeAndBuffer, PTL

\* The shared variables of the driver and its clients keep their types.
THEOREM TypeCorrect == Spec => []TypeOK
  BY TypeAndBuffer, PTL

-----------------------------------------------------------------------------
(* The answers.                                                            *)

\* At most one client waits, the one whose timeval is to be filled, and it is
\* signalled only when that has been done.
AnswerInv ==
  /\ \A c \in Clients : client[c] = "wait" => current_time = c
  /\ \A c \in Clients : woken[c] => client[c] = "wait" /\ tv[c] = "read"

IInv == TypeOK /\ BufferFaithful /\ AnswerInv /\ ZeroMeansRead

\* Every step keeps it, as long as nobody wakes unsignalled.
LEMMA AnswerStep ==
  ASSUME ~Spurious, IInv, [Next]_vars
  PROVE  AnswerInv' /\ ZeroMeansRead'
  <1> USE DEF IInv, TypeOK, AnswerInv, ZeroMeansRead
  <1>1. ASSUME UNCHANGED <<client, woken, tv, current_time>>
        PROVE  AnswerInv' /\ ZeroMeansRead'
    BY <1>1
  <1>2. ASSUME NEW r \in Reads(line), output_from_gps(r)
        PROVE  AnswerInv' /\ ZeroMeansRead'
    BY <1>1, <1>2 DEF output_from_gps, clientVars
  <1>3. CASE ProcessNoFix \/ ProcessFix \/ ProcessOther
    BY <1>1, <1>3 DEF ProcessNoFix, ProcessFix, ProcessOther, Takes
  <1>4. CASE ProcessTime
    BY <1>4 DEF ProcessTime, Takes, Signal, Waiters
  <1>5. CASE init_gps \/ pthread_create
    BY <1>1, <1>5 DEF init_gps, pthread_create, clientVars
  <1>6. CASE ProcessorWakes \/ ProcessorWaits \/ ProcessorExits
    BY <1>1, <1>6 DEF ProcessorWakes, ProcessorWaits, ProcessorExits, clientVars
  <1>7. ASSUME NEW c \in Clients, is_gps_ready(c)
        PROVE  AnswerInv' /\ ZeroMeansRead'
    BY <1>7 DEF is_gps_ready, Goto
  <1>8. ASSUME NEW c \in Clients, getGPStimeUTC(c)
        PROVE  AnswerInv' /\ ZeroMeansRead'
    BY <1>8, CondorAssumption DEF getGPStimeUTC, Goto, Accepts
  <1>9. ASSUME NEW c \in Clients, GetTimeWakes(c)
        PROVE  AnswerInv' /\ ZeroMeansRead'
    BY <1>9 DEF GetTimeWakes
  <1>10. ASSUME NEW c \in Clients, AskAgain(c)
         PROVE  AnswerInv' /\ ZeroMeansRead'
    BY <1>10 DEF AskAgain
  <1>11. CASE UNCHANGED vars
    BY <1>1, <1>11 DEF vars
  <1> QED BY <1>2, <1>3, <1>4, <1>5, <1>6, <1>7, <1>8, <1>9, <1>10, <1>11
          DEF Next, Reader, Processor, Client

\* Without spurious wakeups, getGPStimeUTC of any number of clients returns 0
\* only to a client whose timeval was filled during that call.
THEOREM ZeroOnlyWhenRead == ~Spurious => (Spec => []ZeroMeansRead)
  <1> SUFFICES ASSUME ~Spurious PROVE Spec => []ZeroMeansRead
    OBVIOUS
  <1>1. Init => IInv
    BY TypeInit, BufferInit DEF Init, IInv, AnswerInv, ZeroMeansRead
  <1>2. IInv /\ [Next]_vars => IInv'
    BY BufferStep, AnswerStep DEF IInv
  <1>3. IInv => ZeroMeansRead
    BY DEF IInv
  <1> QED BY <1>1, <1>2, <1>3, PTL DEF Spec
=============================================================================
