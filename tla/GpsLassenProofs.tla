--------------------------- MODULE GpsLassenProofs ---------------------------
(***************************************************************************)
(* Proofs about the Lassen driver.                                         *)
(*                                                                         *)
(* The queries, for any number of threads that ask for the time and for    *)
(* the position and any length of the buffer.  The two kinds of query      *)
(* share one state; the invariant says what a thread that was neither      *)
(* disturbed by the other kind nor by a lost fix may conclude from that    *)
(* state when it wakes.                                                    *)
(*                                                                         *)
(* lookup_packet, for packets of any length and any buffer that has room   *)
(* for one with every byte but its first doubled.  The invariant says      *)
(* where in the frame the search is and what the number of DLEs it has     *)
(* seen in a row says of the next one, and, during the shift, which bytes  *)
(* still are where they arrived and which have reached their place.        *)
(***************************************************************************)
EXTENDS GpsLassen, DleFraming, WellFoundedInduction, TLAPS

\* A reply goes to a thread that is still inside its call.
AskersWait ==
  /\ current_time # None => client[current_time] = "wait"
  /\ current_latitude # None => client[current_latitude] = "wait"

\* Threads that wait together know of each other.
WaitersCrossed ==
  \A c, d \in Clients :
    client[c] = "wait" /\ client[d] = "wait" /\ c # d => crossed[c]

\* While an undisturbed thread waits, the driver's state is that of its query:
\* still open, or answered and the answer delivered.
UndisturbedQuery ==
  \A c \in Clients : client[c] = "wait" /\ ~lost[c] /\ ~crossed[c] =>
    gps_state = "QUERY" \/ (gps_state = "READY" /\ filled[c])

IInv ==
  /\ TypeOK /\ AskersWait /\ WaitersCrossed /\ UndisturbedQuery
  /\ ZeroMeansReadUnlessDisturbed

-----------------------------------------------------------------------------
\* Nobody has asked for anything.
LEMMA IInvInit == Init => IInv
  <1> SUFFICES ASSUME Init PROVE IInv
    OBVIOUS
  <1>1. queue \in Seq(Packets) /\ Len(queue) <= QueueBound
    BY LassenAssumption DEF Init
  <1>2. /\ woken \in [Clients -> BOOLEAN] /\ filled \in [Clients -> BOOLEAN]
        /\ lost \in [Clients -> BOOLEAN] /\ crossed \in [Clients -> BOOLEAN]
        /\ resets \in BOOLEAN /\ joined \in BOOLEAN
    BY Zenon DEF Init
  <1>3. TypeOK
    BY <1>1, <1>2 DEF Init, TypeOK
  <1> QED BY <1>3 DEF Init, IInv, AskersWait, WaitersCrossed, UndisturbedQuery,
             ZeroMeansReadUnlessDisturbed

\* The signal wakes at most one waiting thread.
LEMMA SignalType ==
  ASSUME TypeOK, Signal PROVE woken' \in [Clients -> BOOLEAN]
  BY DEF TypeOK, Signal, Waiters

\* Taking a packet off the queue keeps it a short queue of packets.
LEMMA TakesType ==
  ASSUME TypeOK, NEW p, Takes(p)
  PROVE  queue' \in Seq(Packets) /\ Len(queue') <= QueueBound
  BY LassenAssumption DEF TypeOK, Takes

\* No step of the driver, of its callers or of the device leaves the types.
LEMMA TypeStep == TypeOK /\ [Next]_vars => TypeOK'
  <1> SUFFICES ASSUME TypeOK, [Next]_vars PROVE TypeOK'
    OBVIOUS
  <1> USE DEF TypeOK
  <1>1. CASE init_gps
    BY <1>1 DEF init_gps
  <1>2. ASSUME NEW p \in Packets, output_from_gps(p) PROVE TypeOK'
    <2>1. queue' \in Seq(Packets) /\ Len(queue') <= QueueBound
      BY <1>2, LassenAssumption, SMTT(30) DEF output_from_gps
    <2>2. joined' \in BOOLEAN /\ resets' \in BOOLEAN
      BY <1>2, Zenon DEF output_from_gps
    <2> QED BY <1>2, <2>1, <2>2 DEF output_from_gps
  <1>3. CASE ProcessorWakes \/ ProcessorWaits
    BY <1>3 DEF ProcessorWakes, ProcessorWaits
  <1>4. CASE ProcessReset
    BY <1>4, SignalType, TakesType DEF ProcessReset, Takes, LostByWaiters
  <1>5. CASE ProcessLoss
    BY <1>5, SignalType, TakesType DEF ProcessLoss, Takes, LostByWaiters
  <1>6. CASE ProcessFix
    BY <1>6, TakesType DEF ProcessFix, Takes
  <1>7. CASE ProcessVersion
    BY <1>7, TakesType DEF ProcessVersion, Takes
  <1>8. CASE ProcessReply("time", current_time)
    BY <1>8, SignalType, TakesType, ZenonT(30) DEF ProcessReply, Takes
  <1>9. CASE ProcessReply("lla", current_latitude)
    BY <1>9, SignalType, TakesType, ZenonT(30) DEF ProcessReply, Takes
  <1>10. ASSUME NEW c \in Clients, Ask(c) PROVE TypeOK'
    BY <1>10 DEF Ask, Clients
  <1>11. ASSUME NEW c \in Clients, Wakes(c) PROVE TypeOK'
    BY <1>11 DEF Wakes, Clients
  <1>12. CASE UNCHANGED vars
    BY <1>12 DEF vars
  <1>13. CASE ProcessRest
    BY <1>13, TakesType DEF ProcessRest, Takes
  <1> QED BY <1>1, <1>2, <1>3, <1>4, <1>5, <1>6, <1>7, <1>8, <1>9, <1>10, <1>11,
             <1>12, <1>13 DEF Next, Processor

\* The steps of the driver's own thread and of the device.
LEMMA ProcessorStep ==
  ASSUME IInv, init_gps \/ (\E p \in Packets : output_from_gps(p)) \/ Processor
  PROVE  AskersWait' /\ WaitersCrossed' /\ UndisturbedQuery'
         /\ ZeroMeansReadUnlessDisturbed'
  <1> USE DEF IInv, TypeOK, AskersWait, WaitersCrossed, UndisturbedQuery,
              ZeroMeansReadUnlessDisturbed
  <1>1. CASE init_gps
    BY <1>1 DEF init_gps
  <1>2. ASSUME NEW p \in Packets, output_from_gps(p)
        PROVE  AskersWait' /\ WaitersCrossed' /\ UndisturbedQuery'
               /\ ZeroMeansReadUnlessDisturbed'
    BY <1>2 DEF output_from_gps
  <1>3. CASE ProcessorWakes \/ ProcessorWaits
    BY <1>3 DEF ProcessorWakes, ProcessorWaits
  <1>4. CASE ProcessReset
    BY <1>4 DEF ProcessReset, Takes, LostByWaiters
  <1>5. CASE ProcessLoss
    BY <1>5 DEF ProcessLoss, Takes, LostByWaiters
  <1>6. CASE ProcessFix
    BY <1>6 DEF ProcessFix, Takes
  <1>7. CASE ProcessVersion
    BY <1>7 DEF ProcessVersion, Takes
  <1>8. CASE ProcessReply("time", current_time)
    BY <1>8 DEF ProcessReply, Takes, Clients
  <1>9. CASE ProcessReply("lla", current_latitude)
    BY <1>9 DEF ProcessReply, Takes, Clients
  <1>10. CASE ProcessRest
    BY <1>10 DEF ProcessRest, Takes
  <1> QED BY <1>1, <1>2, <1>3, <1>4, <1>5, <1>6, <1>7, <1>8, <1>9, <1>10
          DEF Processor

\* A new query disturbs every query that is open.
LEMMA AskStep ==
  ASSUME IInv, NEW c \in Clients, Ask(c)
  PROVE  AskersWait' /\ WaitersCrossed' /\ UndisturbedQuery'
         /\ ZeroMeansReadUnlessDisturbed'
  <1> USE DEF IInv, TypeOK
  <1>1. AskersWait'
    BY DEF AskersWait, Ask, Clients
  <1>2. WaitersCrossed'
    BY ZenonT(30) DEF WaitersCrossed, Ask
  <1>3. UndisturbedQuery'
    BY DEF UndisturbedQuery, Ask, Refused
  <1>4. ZeroMeansReadUnlessDisturbed'
    BY DEF ZeroMeansReadUnlessDisturbed, Ask
  <1> QED BY <1>1, <1>2, <1>3, <1>4

\* A thread that wakes is told 0 only in the state READY.
LEMMA WakesStep ==
  ASSUME IInv, NEW c \in Clients, Wakes(c)
  PROVE  AskersWait' /\ WaitersCrossed' /\ UndisturbedQuery'
         /\ ZeroMeansReadUnlessDisturbed'
  <1> USE DEF IInv, TypeOK
  <1>1. AskersWait'
    BY LassenAssumption DEF AskersWait, Wakes, Clients
  <1>2. WaitersCrossed'
    BY DEF WaitersCrossed, Wakes
  <1>3. UndisturbedQuery'
    BY DEF UndisturbedQuery, Wakes
  <1>4. ZeroMeansReadUnlessDisturbed'
    BY DEF ZeroMeansReadUnlessDisturbed, UndisturbedQuery, Wakes
  <1> QED BY <1>1, <1>2, <1>3, <1>4

-----------------------------------------------------------------------------
\* Every step of the three kinds of threads and of the device keeps it.
THEOREM Invariant == Spec => []IInv
  <1>1. IInv /\ [Next]_vars => IInv'
    <2> SUFFICES ASSUME IInv, [Next]_vars PROVE IInv'
      OBVIOUS
    <2>1. TypeOK'
      BY TypeStep DEF IInv
    <2>2. CASE UNCHANGED vars
      BY <2>1, <2>2 DEF vars, IInv, AskersWait, WaitersCrossed,
         UndisturbedQuery, ZeroMeansReadUnlessDisturbed
    <2>3. CASE Next
      BY <2>1, <2>3, ProcessorStep, AskStep, WakesStep DEF Next, IInv
    <2> QED BY <2>2, <2>3
  <1> QED BY <1>1, IInvInit, PTL DEF Spec

\* The driver's state, its pointers to the callers' results and the buffer
\* keep their types for any number of callers.
THEOREM TypeCorrect == Spec => []TypeOK
  <1>1. IInv => TypeOK
    BY DEF IInv
  <1> QED BY <1>1, Invariant, PTL

\* For any number of callers: getGPStimeUTC and getGPSLLA return 0 only with
\* the result filled, unless the fix was lost meanwhile or the other kind of
\* query was pending.
THEOREM ZeroMeansRead == Spec => []ZeroMeansReadUnlessDisturbed
  <1>1. IInv => ZeroMeansReadUnlessDisturbed
    BY DEF IInv
  <1> QED BY <1>1, Invariant, PTL

-----------------------------------------------------------------------------
(***************************************************************************)
(* lookup_packet.                                                          *)
(***************************************************************************)

\* A set of numbers that is not empty has a least element.
LEMMA LeastNat ==
  ASSUME NEW T, T \subseteq Nat, T # {}
  PROVE  \E x \in T : \A y \in T : x <= y
  <1>1. \E x \in T : \A y \in T : ~ (<<y, x>> \in OpToRel(<, Nat))
    BY NatLessThanWellFounded, WFMin
  <1>2. \A x, y \in Nat : <<y, x>> \in OpToRel(<, Nat) <=> y < x
    BY DEF OpToRel
  <1>3. \E x \in T : \A y \in T : ~(y < x)
    BY <1>1, <1>2, Zenon
  <1> QED BY <1>3

\* A set with 0 and the successor of each of its numbers has all of them.
LEMMA SetInduction ==
  ASSUME NEW S, 0 \in S, \A n \in Nat : n \in S => n + 1 \in S
  PROVE  Nat \subseteq S
  <1> SUFFICES ASSUME ~(Nat \subseteq S) PROVE FALSE
    OBVIOUS
  <1>1. PICK T : T = Nat \ S
    OBVIOUS
  <1>2. T \subseteq Nat /\ T # {}
    BY <1>1
  <1>3. PICK x \in T : \A y \in T : x <= y
    BY <1>2, LeastNat
  <1>4. x \in Nat /\ x \notin S /\ x # 0
    BY <1>1
  <1>5. x - 1 \in Nat /\ x - 1 + 1 = x
    BY <1>4
  <1>6. x - 1 \notin T
    BY <1>3, <1>4
  <1> QED BY <1>1, <1>4, <1>5, <1>6

\* The first m steps of flattening a sequence of n sequences.
Flattens(s, f, m) ==
  /\ m >= 1 => f[1] = s[1]
  /\ \A i \in 2..m : f[i] = f[i - 1] \o s[i]

\* Flattening is done step by step.
LEMMA FlattenIs ==
  ASSUME NEW A, NEW n \in Nat \ {0}, NEW s \in [1..n -> Seq(A)]
  PROVE  \E f \in [1..n -> Seq(A)] : Flattens(s, f, n) /\ FlattenSeq(s) = f[n]
  <1>1. \A i \in 1..n : s[i] \in Seq(A)
    OBVIOUS
  <1>2. Len(s) = n /\ s \in Seq(Seq(A))
    OBVIOUS
  <1> DEFINE S == {m \in Nat : m <= n => \E f \in [1..m -> Seq(A)] : Flattens(s, f, m)}
  <1>3. 0 \in S
    <2>1. [i \in 1..0 |-> <<>>] \in [1..0 -> Seq(A)] /\ Flattens(s, [i \in 1..0 |-> <<>>], 0)
      BY DEF Flattens
    <2> QED BY <2>1
  <1>4. ASSUME NEW m \in Nat, m \in S PROVE m + 1 \in S
    <2> SUFFICES ASSUME m + 1 <= n
                 PROVE  \E f \in [1 .. m + 1 -> Seq(A)] : Flattens(s, f, m + 1)
      OBVIOUS
    <2>1. PICK f \in [1..m -> Seq(A)] : Flattens(s, f, m)
      BY <1>4
    <2>2. PICK e : e = IF m = 0 THEN s[1] ELSE f[m] \o s[m + 1]
      OBVIOUS
    <2>3. e \in Seq(A)
      <3>1. CASE m = 0
        BY <1>1, <2>2, <3>1
      <3>2. CASE m # 0
        <4>1. f[m] \in Seq(A) /\ s[m + 1] \in Seq(A)
          BY <1>1, <3>2
        <4> QED BY <2>2, <3>2, <4>1
      <3> QED BY <3>1, <3>2
    <2>4. PICK g : g = [i \in 1 .. m + 1 |-> IF i = m + 1 THEN e ELSE f[i]]
      OBVIOUS
    <2>5. g \in [1 .. m + 1 -> Seq(A)]
      BY <2>3, <2>4
    <2>6. (\A i \in 1..m : g[i] = f[i]) /\ g[m + 1] = e
      BY <2>4
    <2>7. g[1] = s[1]
      BY <2>1, <2>2, <2>6 DEF Flattens
    <2>8. ASSUME NEW i \in 2 .. m + 1 PROVE g[i] = g[i - 1] \o s[i]
      <3>1. CASE i = m + 1
        <4>1. m # 0 /\ m \in 1..m /\ i - 1 = m
          BY <3>1
        <4> QED BY <2>2, <2>6, <3>1, <4>1
      <3>2. CASE i # m + 1
        <4>1. i \in 2..m /\ i \in 1..m /\ i - 1 \in 1..m
          BY <3>2
        <4>2. f[i] = f[i - 1] \o s[i]
          BY <2>1, <4>1 DEF Flattens
        <4> QED BY <2>6, <4>1, <4>2
      <3> QED BY <3>1, <3>2
    <2>9. Flattens(s, g, m + 1)
      BY <2>7, <2>8 DEF Flattens
    <2> QED BY <2>5, <2>9
  <1>5. n \in S
    <2> HIDE DEF S
    <2>1. Nat \subseteq S
      BY <1>3, <1>4, SetInduction
    <2> QED BY <2>1
  <1>6. PICK g \in [1..n -> Seq(A)] : Flattens(s, g, n)
    BY <1>5
  <1> DEFINE Good(f) == f = [i \in 1..n |-> IF i = 1 THEN s[i] ELSE f[i - 1] \o s[i]]
  <1>7. Good(g)
    <2>1. ASSUME NEW i \in 1..n PROVE g[i] = IF i = 1 THEN s[i] ELSE g[i - 1] \o s[i]
      <3>1. CASE i = 1
        BY <1>6, <3>1 DEF Flattens
      <3>2. CASE i # 1
        <4>1. i \in 2..n
          BY <3>2
        <4>2. g[i] = g[i - 1] \o s[i]
          BY <1>6, <4>1 DEF Flattens
        <4> QED BY <3>2, <4>2
      <3> QED BY <3>1, <3>2
    <2>2. g = [i \in 1..n |-> g[i]]
      OBVIOUS
    <2> QED BY <2>1, <2>2
  <1>8. PICK f : f = CHOOSE h : Good(h)
    OBVIOUS
  <1>9. FlattenSeq(s) = f[n]
    BY <1>2, <1>8 DEF FlattenSeq
  <1>10. Good(f)
    <2> HIDE DEF Good
    <2> QED BY <1>7, <1>8
  <1>11. \A i \in 1..n : f[i] = IF i = 1 THEN s[i] ELSE f[i - 1] \o s[i]
    BY <1>10
  <1>12. \A i \in 1..n : g[i] = IF i = 1 THEN s[i] ELSE g[i - 1] \o s[i]
    BY <1>7
  <1> HIDE DEF Good
  <1> DEFINE R == {m \in Nat : m # 0 /\ m <= n => f[m] = g[m]}
  <1>13. 0 \in R
    OBVIOUS
  <1>14. ASSUME NEW m \in Nat, m \in R PROVE m + 1 \in R
    <2> SUFFICES ASSUME m + 1 <= n PROVE f[m + 1] = g[m + 1]
      OBVIOUS
    <2>1. PICK i \in 1..n : i = m + 1 /\ i - 1 = m
      OBVIOUS
    <2>2. i # 1 => f[i - 1] = g[i - 1]
      BY <1>14, <2>1
    <2>3. /\ f[i] = IF i = 1 THEN s[i] ELSE f[i - 1] \o s[i]
          /\ g[i] = IF i = 1 THEN s[i] ELSE g[i - 1] \o s[i]
      BY <1>11, <1>12
    <2> QED BY <2>1, <2>2, <2>3
  <1>15. n \in R
    <2> HIDE DEF R
    <2>1. Nat \subseteq R
      BY <1>13, <1>14, SetInduction
    <2> QED BY <2>1
  <1>16. f[n] = g[n]
    BY <1>15
  <1> QED BY <1>6, <1>9, <1>16

\* How many bytes the device sends for one.
Width(b) == IF b = "DLE" THEN 2 ELSE 1

\* Where the bytes of a packet p of length n are in what the device sends for it,
\* counted from 0.
Offsets(p, n, off) ==
  /\ off \in [1 .. n + 1 -> Nat] /\ off[1] = 1
  /\ \A i \in 1..n : off[i + 1] = off[i] + Width(p[i])
Layout(p, n, off) ==
  /\ Offsets(p, n, off)
  /\ Len(Frame(p)) = off[n + 1] + 2 /\ Len(Stream(p)) = off[n + 1] + 3
  /\ Stream(p) \in Seq(Bytes) /\ Stream(p)[1] = "DLE"
  /\ \A i \in 1..n : /\ Stream(p)[off[i] + 1] = p[i]
                     /\ p[i] = "DLE" => Stream(p)[off[i] + 2] = "DLE"
  /\ Stream(p)[off[n + 1] + 1] = "DLE" /\ Stream(p)[off[n + 1] + 2] = "ETX"

\* The packets of the device.
LEMMA PayloadIs ==
  ASSUME NEW p \in Payloads
  PROVE  \E n \in 1..MaxPayload : p \in [1..n -> Bytes] /\ Len(p) = n
                                  /\ p[1] \notin {"DLE", "ETX"}
  <1>1. PICK n \in 1..MaxPayload : p \in [1..n -> Bytes]
    BY DEF Payloads
  <1>2. n \in Nat
    BY FramingAssumption
  <1>3. p \in [1..n -> Bytes] /\ p[1] \notin {"DLE", "ETX"}
    BY <1>1 DEF Payloads
  <1>4. Len(p) = n
    BY <1>2, <1>3
  <1> QED BY <1>3, <1>4

\* A byte and its double.
LEMMA DoubleIs ==
  ASSUME NEW b \in Bytes
  PROVE  /\ Double(b) \in Seq(Bytes) /\ Len(Double(b)) = Width(b) /\ Double(b)[1] = b
         /\ b = "DLE" => Double(b)[2] = "DLE"
         /\ Width(b) \in 1..2
  BY DEF Double, Width

\* The bytes of the packet in its frame, without the framing.
Doubled(p, n, c, off) ==
  /\ c \in Seq(Bytes) /\ c = FlattenSeq([i \in DOMAIN p |-> Double(p[i])])
  /\ Offsets(p, n, off) /\ Len(c) + 1 = off[n + 1]
  /\ \A i \in 1..n : /\ off[i] + Width(p[i]) <= off[n + 1] /\ off[i] >= 1
                     /\ c[off[i]] = p[i]
                     /\ p[i] = "DLE" => c[off[i] + 1] = "DLE"

\* Doubling the DLEs of a packet puts each of its bytes at its offset, and its
\* double behind it.
LEMMA DoubledIs ==
  ASSUME NEW n \in Nat \ {0}, NEW p \in [1..n -> Bytes]
  PROVE  \E c, off : Doubled(p, n, c, off)
  <1>1. PICK s : s = [i \in DOMAIN p |-> Double(p[i])]
    OBVIOUS
  <1>2. s \in [1..n -> Seq(Bytes)]
    BY <1>1, DoubleIs
  <1>3. PICK f \in [1..n -> Seq(Bytes)] : Flattens(s, f, n) /\ FlattenSeq(s) = f[n]
    BY <1>2, FlattenIs
  <1>4. \A i \in 1..n : f[i] \in Seq(Bytes) /\ Len(f[i]) \in Nat
    OBVIOUS
  <1>5. PICK off : off = [i \in 1 .. n + 1 |-> IF i = 1 THEN 1 ELSE Len(f[i - 1]) + 1]
    OBVIOUS
  <1>6. /\ off \in [1 .. n + 1 -> Nat] /\ off[1] = 1
        /\ \A i \in 1..n : off[i + 1] = Len(f[i]) + 1
    <2>1. ASSUME NEW i \in 1 .. n + 1, i # 1 PROVE i - 1 \in 1..n
      BY <2>1
    <2>2. \A i \in 1 .. n + 1 : (IF i = 1 THEN 1 ELSE Len(f[i - 1]) + 1) \in Nat
      BY <1>4, <2>1
    <2>3. off \in [1 .. n + 1 -> Nat]
      BY <1>5, <2>2
    <2>4. ASSUME NEW i \in 1..n PROVE off[i + 1] = Len(f[i]) + 1
      <3>1. i + 1 \in 1 .. n + 1 /\ i + 1 # 1 /\ (i + 1) - 1 = i
        OBVIOUS
      <3> QED BY <1>5, <3>1
    <2> QED BY <1>5, <2>3, <2>4
  \* What has been appended up to byte m.
  <1> DEFINE Done(m) ==
         /\ Len(f[m]) = off[m] + Width(p[m]) - 1
         /\ \A i \in 1..m : /\ off[i] + Width(p[i]) <= off[m + 1] /\ off[i] >= 1
                            /\ f[m][off[i]] = p[i]
                            /\ p[i] = "DLE" => f[m][off[i] + 1] = "DLE"
             S == {m \in Nat : m # 0 /\ m <= n => Done(m)}
  <1>7. 0 \in S
    OBVIOUS
  <1>8. ASSUME NEW m \in Nat, m \in S PROVE m + 1 \in S
    <2> SUFFICES ASSUME m + 1 <= n PROVE Done(m + 1)
      OBVIOUS
    <2>1. PICK k \in 1..n : k = m + 1
      OBVIOUS
    <2>a. PICK b \in Bytes : b = p[k]
      OBVIOUS
    <2>b. PICK d \in Seq(Bytes) : d = s[k] /\ d = Double(b)
      BY <1>1, <2>a, DoubleIs
    <2>c. PICK w \in 1..2 : w = Width(b)
      BY DoubleIs
    <2>2. Len(d) = w /\ d[1] = b /\ (b = "DLE" => w = 2 /\ d[2] = "DLE")
      <3>1. b = "DLE" => Width(b) = 2
        BY DEF Width
      <3> QED BY <2>b, <2>c, <3>1, DoubleIs
    <2>3. CASE m = 0
      <3>1. f[1] = d /\ k = 1
        <4>1. k = 1 /\ f[1] = s[1]
          BY <1>3, <2>1, <2>3 DEF Flattens
        <4> QED BY <2>b, <4>1
      <3>2. off[1] = 1 /\ off[1 + 1] = w + 1
        BY <1>6, <2>2, <3>1
      <3>3. p[1] = b /\ Width(p[1]) = w
        BY <2>a, <2>c, <3>1
      <3>4. Len(f[1]) = off[1] + Width(p[1]) - 1
        BY <2>2, <3>1, <3>2, <3>3
      <3>5. /\ off[1] + Width(p[1]) <= off[1 + 1] /\ off[1] >= 1
            /\ f[1][off[1]] = p[1]
            /\ p[1] = "DLE" => f[1][off[1] + 1] = "DLE"
        BY <2>2, <3>1, <3>2, <3>3
      <3>6. Done(1)
        <4>1. \A i \in 1..1 : i = 1
          OBVIOUS
        <4> QED BY <3>4, <3>5, <4>1
      <3> QED BY <2>3, <3>6
    <2>4. CASE m # 0
      <3>1. PICK j \in 1..n : j = m /\ k = j + 1 /\ k \in 2..n /\ k - 1 = j
        BY <2>1, <2>4
      <3>2. PICK a \in Seq(Bytes), o \in Nat : a = f[j] /\ o = Len(a) /\ off[j + 1] = o + 1
        BY <1>4, <1>6
      <3>3. f[k] = a \o d
        BY <1>3, <2>b, <3>1, <3>2 DEF Flattens
      <3>4. PICK e \in Seq(Bytes) : e = a \o d
        <4>1. a \o d \in Seq(Bytes)
          OBVIOUS
        <4> QED BY <4>1
      <3>5. /\ Len(e) = o + w /\ e[o + 1] = b /\ (b = "DLE" => e[o + 2] = "DLE")
            /\ \A i \in 1..o : e[i] = a[i]
        <4>1. Len(e) = o + w
          BY <2>2, <3>2, <3>4
        <4>2. \A i \in 1..w : e[o + i] = d[i]
          BY <2>2, <3>2, <3>4
        <4>3. \A i \in 1..o : e[i] = a[i]
          BY <2>2, <3>2, <3>4
        <4> QED BY <2>2, <4>1, <4>2, <4>3
      <3>6. off[k] = o + 1 /\ off[k + 1] = o + w + 1
        <4>1. off[k + 1] = Len(f[k]) + 1
          BY <1>6
        <4> QED BY <3>1, <3>2, <3>3, <3>4, <3>5, <4>1
      <3>7. Done(j)
        BY <1>8, <2>4, <3>1
      <3>8. ASSUME NEW i \in 1..k
            PROVE  /\ off[i] + Width(p[i]) <= off[k + 1] /\ off[i] >= 1
                   /\ e[off[i]] = p[i]
                   /\ p[i] = "DLE" => e[off[i] + 1] = "DLE"
        <4>1. CASE i = k
          <5>1. off[i] = o + 1 /\ Width(p[i]) = w /\ p[i] = b /\ (o + 1) + 1 = o + 2
            BY <2>a, <2>c, <3>6, <4>1
          <5> QED BY <3>5, <3>6, <5>1
        <4>2. CASE i # k
          <5>1. i \in 1..j /\ i \in 1..n
            BY <3>1, <4>2
          <5>2. PICK x \in Nat, v \in 1..2 : x = off[i] /\ v = Width(p[i])
            <6>1. off[i] \in Nat /\ p[i] \in Bytes
              BY <1>6, <5>1
            <6> QED BY <6>1, DoubleIs
          <5>3. x + v <= o + 1 /\ x >= 1 /\ a[x] = p[i] /\ (p[i] = "DLE" => a[x + 1] = "DLE")
            BY <3>2, <3>7, <5>1, <5>2
          <5>4. p[i] = "DLE" => v = 2
            BY <5>2 DEF Width
          <5>5. x \in 1..o /\ (p[i] = "DLE" => x + 1 \in 1..o)
            BY <5>3, <5>4
          <5>6. e[x] = a[x] /\ (p[i] = "DLE" => e[x + 1] = a[x + 1])
            BY <3>5, <5>5
          <5>7. x + v <= off[k + 1]
            BY <3>6, <5>3
          <5> QED BY <5>2, <5>3, <5>6, <5>7
        <4> QED BY <4>1, <4>2
      <3>9. Done(k)
        <4>1. Len(f[k]) = off[k] + Width(p[k]) - 1
          BY <2>a, <2>c, <3>3, <3>4, <3>5, <3>6
        <4>2. f[k] = e
          BY <3>3, <3>4
        <4> QED BY <3>8, <4>1, <4>2
      <3> QED BY <2>1, <3>9
    <2> QED BY <2>3, <2>4
  <1>9. \A m \in 1..n : Done(m)
    <2>1. Nat \subseteq S
      <3> HIDE DEF S
      <3> QED BY <1>7, <1>8, SetInduction
    <2> HIDE DEF Done
    <2> QED BY <2>1
  <1>10. Offsets(p, n, off)
    <2> SUFFICES ASSUME NEW i \in 1..n PROVE off[i + 1] = off[i] + Width(p[i])
      BY <1>6 DEF Offsets
    <2>1. Len(f[i]) = off[i] + Width(p[i]) - 1 /\ off[i + 1] = Len(f[i]) + 1
      BY <1>6, <1>9
    <2>2. off[i] \in Nat /\ Width(p[i]) \in 1..2 /\ off[i + 1] \in Nat
      BY <1>6, DoubleIs
    <2> QED BY <1>4, <2>1, <2>2
  <1>11. n \in 1..n /\ Done(n)
    BY <1>9
  <1>12. f[n] \in Seq(Bytes) /\ f[n] = FlattenSeq([i \in DOMAIN p |-> Double(p[i])])
         /\ Len(f[n]) + 1 = off[n + 1]
    BY <1>1, <1>3, <1>6, <1>11
  <1>13. Doubled(p, n, f[n], off)
    BY <1>10, <1>11, <1>12 DEF Doubled
  <1> QED BY <1>13

\* The same in the frame, between its DLE and its DLE ETX, and with the first byte
\* of the next packet behind it.
LEMMA LayoutExists ==
  ASSUME NEW n \in Nat \ {0}, NEW p \in [1..n -> Bytes]
  PROVE  \E off : Layout(p, n, off)
  <1>1. PICK c, off : Doubled(p, n, c, off)
    BY DoubledIs
  <1>0. /\ c \in Seq(Bytes) /\ c = FlattenSeq([i \in DOMAIN p |-> Double(p[i])])
        /\ Offsets(p, n, off) /\ Len(c) + 1 = off[n + 1]
        /\ \A i \in 1..n : /\ off[i] + Width(p[i]) <= off[n + 1] /\ off[i] >= 1
                           /\ c[off[i]] = p[i]
                           /\ p[i] = "DLE" => c[off[i] + 1] = "DLE"
    BY <1>1 DEF Doubled
  <1>2. PICK m \in Nat : m = Len(c) /\ off[n + 1] = m + 1
    <2>1. Len(c) \in Nat
      BY <1>0
    <2> QED BY <1>0, <2>1
  <1>3. PICK a \in Seq(Bytes) : a = <<"DLE">> \o c
    <2>1. <<"DLE">> \o c \in Seq(Bytes)
      BY <1>0 DEF Bytes
    <2> QED BY <2>1
  <1>4. Len(a) = m + 1 /\ a[1] = "DLE" /\ \A k \in 1..m : a[k + 1] = c[k]
    BY <1>0, <1>2, <1>3
  <1>5. PICK f \in Seq(Bytes) : f = a \o <<"DLE", "ETX">>
    <2>1. a \o <<"DLE", "ETX">> \in Seq(Bytes)
      BY DEF Bytes
    <2> QED BY <2>1
  <1>6. /\ Len(f) = m + 3 /\ f[m + 2] = "DLE" /\ f[m + 3] = "ETX"
        /\ \A k \in 1 .. m + 1 : f[k] = a[k]
    BY <1>4, <1>5
  <1>7. PICK s \in Seq(Bytes) : s = f \o <<"DLE">>
    <2>1. f \o <<"DLE">> \in Seq(Bytes)
      BY DEF Bytes
    <2> QED BY <2>1
  <1>8. Len(s) = m + 4 /\ \A k \in 1 .. m + 3 : s[k] = f[k]
    BY <1>6, <1>7
  <1>9. f = Frame(p) /\ s = Stream(p)
    BY <1>0, <1>3, <1>5, <1>7 DEF Frame, Stream
  <1>10. s[1] = "DLE" /\ s[m + 2] = "DLE" /\ s[m + 3] = "ETX"
         /\ \A k \in 1..m : s[k + 1] = c[k]
    <2>1. 1 \in 1 .. m + 1 /\ 1 \in 1 .. m + 3 /\ m + 2 \in 1 .. m + 3 /\ m + 3 \in 1 .. m + 3
      OBVIOUS
    <2>2. ASSUME NEW k \in 1..m PROVE s[k + 1] = c[k]
      <3>1. k + 1 \in 1 .. m + 1 /\ k + 1 \in 1 .. m + 3
        OBVIOUS
      <3> QED BY <1>4, <1>6, <1>8, <3>1
    <2> QED BY <1>4, <1>6, <1>8, <2>1, <2>2
  <1>11. ASSUME NEW i \in 1..n
         PROVE  s[off[i] + 1] = p[i] /\ (p[i] = "DLE" => s[off[i] + 2] = "DLE")
    <2>1. PICK x \in Nat, v \in 1..2 : x = off[i] /\ v = Width(p[i])
      <3>1. off[i] \in Nat /\ p[i] \in Bytes
        BY <1>0 DEF Offsets
      <3> QED BY <3>1, DoubleIs
    <2>2. x + v <= m + 1 /\ x >= 1 /\ c[x] = p[i] /\ (p[i] = "DLE" => c[x + 1] = "DLE")
      BY <1>0, <1>2, <2>1
    <2>3. p[i] = "DLE" => v = 2
      BY <2>1 DEF Width
    <2>4. x \in 1..m /\ (p[i] = "DLE" => x + 1 \in 1..m) /\ (x + 1) + 1 = x + 2
      BY <2>2, <2>3
    <2>5. s[x + 1] = p[i]
      BY <1>10, <2>2, <2>4
    <2>6. ASSUME p[i] = "DLE" PROVE s[x + 2] = "DLE"
      <3>1. s[(x + 1) + 1] = c[x + 1]
        BY <1>10, <2>4, <2>6
      <3> QED BY <2>2, <2>4, <2>6, <3>1
    <2> QED BY <2>1, <2>5, <2>6
  <1>12. Len(f) = off[n + 1] + 2 /\ Len(s) = off[n + 1] + 3
         /\ off[n + 1] + 1 = m + 2 /\ off[n + 1] + 2 = m + 3
    BY <1>2, <1>6, <1>8
  <1>13. Layout(p, n, off)
    BY <1>0, <1>9, <1>10, <1>11, <1>12 DEF Layout
  <1> QED BY <1>13

\* The offsets grow by at least one for each byte.
LEMMA OffsetsGrow ==
  ASSUME NEW n \in Nat \ {0}, NEW p \in [1..n -> Bytes], NEW off, Offsets(p, n, off)
  PROVE  /\ \A i \in 1 .. n + 1 : off[i] >= i /\ off[n + 1] - off[i] >= n + 1 - i
         /\ p[1] # "DLE" => off[n + 1] <= 2 * n
  <1>1. \A i \in 1 .. n + 1 : off[i] \in Nat
    BY DEF Offsets
  <1>2. \A i \in 1..n : Width(p[i]) \in 1..2 /\ off[i + 1] = off[i] + Width(p[i])
    BY DoubleIs DEF Offsets
  <1> DEFINE U == {m \in Nat : m <= n => off[m + 1] >= m + 1
                                         /\ (p[1] # "DLE" /\ m # 0 => off[m + 1] <= 2 * m)}
             D == {m \in Nat : m <= n => off[n + 1] - off[n + 1 - m] >= m}
  <1>3. 0 \in U
    <2>1. off[0 + 1] = 1
      BY DEF Offsets
    <2> QED BY <2>1
  <1>4. ASSUME NEW m \in Nat, m \in U PROVE m + 1 \in U
    <2> SUFFICES ASSUME m + 1 <= n
                 PROVE  off[(m + 1) + 1] >= (m + 1) + 1
                        /\ (p[1] # "DLE" => off[(m + 1) + 1] <= 2 * (m + 1))
      OBVIOUS
    <2>1. PICK i \in 1..n : i = m + 1
      OBVIOUS
    <2>2. PICK x \in Nat, y \in Nat, w \in 1..2 : x = off[i] /\ y = off[i + 1]
                                                  /\ w = Width(p[i]) /\ y = x + w
      <3>1. i \in 1 .. n + 1 /\ i + 1 \in 1 .. n + 1
        OBVIOUS
      <3> QED BY <1>1, <1>2, <3>1
    <2>3. x >= i /\ (p[1] # "DLE" /\ m # 0 => x <= 2 * m)
      BY <1>4, <2>1, <2>2
    <2>4. y >= i + 1
      BY <2>2, <2>3
    <2>5. p[1] # "DLE" => y <= 2 * (m + 1)
      <3>1. CASE m = 0
        <4>1. i = 1 /\ x = 1
          BY <2>1, <2>2, <3>1 DEF Offsets
        <4>2. p[1] # "DLE" => w = 1
          BY <2>2, <4>1 DEF Width
        <4> QED BY <2>2, <3>1, <4>1, <4>2
      <3>2. CASE m # 0
        BY <2>2, <2>3, <3>2
      <3> QED BY <3>1, <3>2
    <2> QED BY <2>1, <2>2, <2>4, <2>5
  <1>5. 0 \in D
    <2>1. n + 1 - 0 = n + 1 /\ n + 1 \in 1 .. n + 1
      OBVIOUS
    <2>2. off[n + 1] \in Nat
      BY <1>1, <2>1
    <2> QED BY <2>1, <2>2
  <1>6. ASSUME NEW m \in Nat, m \in D PROVE m + 1 \in D
    <2> SUFFICES ASSUME m + 1 <= n
                 PROVE  off[n + 1] - off[n + 1 - (m + 1)] >= m + 1
      OBVIOUS
    <2>1. PICK i \in 1..n : i = n + 1 - (m + 1) /\ i + 1 = n + 1 - m
      <3>1. n + 1 - (m + 1) \in 1..n /\ n + 1 - (m + 1) + 1 = n + 1 - m
        OBVIOUS
      <3> QED BY <3>1
    <2>2. PICK x \in Nat, y \in Nat, w \in 1..2 : x = off[i] /\ y = off[i + 1]
                                                  /\ w = Width(p[i]) /\ y = x + w
      <3>1. i \in 1 .. n + 1 /\ i + 1 \in 1 .. n + 1
        OBVIOUS
      <3> QED BY <1>1, <1>2, <3>1
    <2>3. PICK z \in Nat : z = off[n + 1]
      <3>1. n + 1 \in 1 .. n + 1
        OBVIOUS
      <3> QED BY <1>1, <3>1
    <2>4. z - y >= m
      <3>1. m <= n => off[n + 1] - off[n + 1 - m] >= m
        BY <1>6
      <3>2. off[n + 1 - m] = y
        <4>1. PICK j : j = i + 1
          OBVIOUS
        <4>2. j = n + 1 - m /\ y = off[j]
          BY <2>1, <2>2, <4>1
        <4> QED BY <4>2
      <3> QED BY <2>3, <3>1, <3>2
    <2>5. z - x >= m + 1
      <3>1. y >= x + 1
        BY <2>2
      <3> HIDE DEF D, U
      <3> QED BY <2>4, <3>1
    <2> QED BY <2>1, <2>2, <2>3, <2>5
  <1>7. Nat \subseteq U /\ Nat \subseteq D
    <2> HIDE DEF U, D
    <2> QED BY <1>3, <1>4, <1>5, <1>6, SetInduction
  <1>8. ASSUME NEW i \in 1 .. n + 1
        PROVE  off[i] >= i /\ off[n + 1] - off[i] >= n + 1 - i
    <2>1. PICK m \in Nat, k \in Nat : m <= n /\ k <= n /\ m + 1 = i /\ n + 1 - k = i
      <3>1. i - 1 \in Nat /\ i - 1 <= n /\ i - 1 + 1 = i
        OBVIOUS
      <3>2. n + 1 - i \in Nat /\ n + 1 - i <= n /\ n + 1 - (n + 1 - i) = i
        OBVIOUS
      <3> QED BY <3>1, <3>2
    <2>2. m \in U /\ k \in D
      BY <1>7
    <2>3. off[i] >= i
      BY <2>1, <2>2
    <2>4. off[n + 1] - off[i] >= k /\ k = n + 1 - i
      BY <2>1, <2>2
    <2> QED BY <2>3, <2>4
  <1>9. p[1] # "DLE" => off[n + 1] <= 2 * n
    <2>1. n \in U
      BY <1>7
    <2> QED BY <2>1
  <1> QED BY <1>8, <1>9

\* The offsets of a packet of the device.
Off(p) == CHOOSE off : Layout(p, Len(p), off)

\* A packet and its frame, which leaves at least one byte of the buffer free.
Packet(p, n, off, e) ==
  /\ n \in Nat \ {0} /\ e \in Nat /\ n = Len(p) /\ off = Off(p) /\ e = off[n + 1]
  /\ p \in [1..n -> Bytes] /\ p[1] \notin {"DLE", "ETX"} /\ Layout(p, n, off)
  /\ Len(Frame(p)) = e + 2 /\ Len(Stream(p)) = e + 3
  /\ e >= n + 1 /\ e + 3 < MSG_BUF_SIZE

\* The device sends only such packets, so a frame never fills the buffer.
LEMMA PacketIs ==
  ASSUME NEW p \in Payloads
  PROVE  \E n, off, e : Packet(p, n, off, e)
  <1>1. PICK n \in 1..MaxPayload : p \in [1..n -> Bytes] /\ Len(p) = n
                                   /\ p[1] \notin {"DLE", "ETX"}
    BY PayloadIs
  <1>2. n \in Nat \ {0} /\ MSG_BUF_SIZE \in Nat /\ MSG_BUF_SIZE > 2 * n + 3
    BY FramingAssumption
  <1>3. PICK off : off = Off(p)
    OBVIOUS
  <1>4. Layout(p, n, off)
    <2>1. \E o : Layout(p, n, o)
      BY <1>1, <1>2, LayoutExists
    <2> QED BY <1>1, <1>3, <2>1 DEF Off
  <1>5. PICK e : e = off[n + 1]
    OBVIOUS
  <1>6. Offsets(p, n, off)
    BY <1>4 DEF Layout
  <1>7. n + 1 \in 1 .. n + 1
    BY <1>2
  <1>8. e \in Nat
    BY <1>5, <1>6, <1>7 DEF Offsets
  <1>9. e >= n + 1 /\ e <= 2 * n
    BY <1>1, <1>2, <1>5, <1>6, <1>7, OffsetsGrow
  <1>10. e + 3 < MSG_BUF_SIZE
    BY <1>2, <1>8, <1>9
  <1>11. Len(Frame(p)) = e + 2 /\ Len(Stream(p)) = e + 3
    BY <1>4, <1>5 DEF Layout
  <1> QED BY <1>1, <1>2, <1>3, <1>4, <1>5, <1>8, <1>9, <1>10, <1>11 DEF Packet

\* Places in the buffer, from one round to the next.
LEMMA RoundIs ==
  ASSUME NEW a \in 0..(2 * MSG_BUF_SIZE - 1)
  PROVE  /\ a % MSG_BUF_SIZE = IF a < MSG_BUF_SIZE THEN a ELSE a - MSG_BUF_SIZE
         /\ a % MSG_BUF_SIZE \in Index
  <1>1. PICK z \in Nat \ {0} : z = MSG_BUF_SIZE
    BY FramingAssumption
  <1>2. PICK q \in Int, r \in Int : r = a % z /\ a = z * q + r /\ 0 <= r /\ r < z
    BY <1>1
  <1>3. a \in Nat /\ a < 2 * z
    BY <1>1
  <1>4. q < 2 /\ q >= 0
    <2>1. ASSUME q >= 2 PROVE z * q >= 2 * z
      BY <2>1
    <2>2. ASSUME q <= -1 PROVE z * q <= -z
      BY <2>2
    <2> QED BY <1>2, <1>3, <2>1, <2>2
  <1>5. CASE q = 0
    BY <1>1, <1>2, <1>3, <1>5 DEF Index
  <1>6. CASE q = 1
    BY <1>1, <1>2, <1>3, <1>6 DEF Index
  <1> QED BY <1>4, <1>5, <1>6

\* Places less than a round apart are different ones.
LEMMA RoundApart ==
  ASSUME NEW a \in 0..(2 * MSG_BUF_SIZE - 1), NEW b \in 0..(2 * MSG_BUF_SIZE - 1),
         a < b, b - a < MSG_BUF_SIZE
  PROVE  a % MSG_BUF_SIZE # b % MSG_BUF_SIZE
  BY RoundIs, FramingAssumption

\* The distance from one place to another.
LEMMA RoundDistance ==
  ASSUME NEW a \in 0..(2 * MSG_BUF_SIZE - 1), NEW k \in 0..(MSG_BUF_SIZE - 1),
         a + k < 2 * MSG_BUF_SIZE
  PROVE  (((a + k) % MSG_BUF_SIZE) - (a % MSG_BUF_SIZE)) % MSG_BUF_SIZE = k
  <1>1. PICK z \in Nat \ {0} : z = MSG_BUF_SIZE
    BY FramingAssumption
  <1>2. PICK x \in Int, y \in Int : x = a % z /\ y = (a + k) % z
    BY <1>1
  <1>3. /\ x = IF a < z THEN a ELSE a - z
        /\ y = IF a + k < z THEN a + k ELSE a + k - z
    BY <1>1, <1>2, RoundIs
  <1>4. y - x = k \/ y - x = k - z
    BY <1>1, <1>3
  <1>5. k % z = k
    BY <1>1
  <1>6. (k - z) % z = k
    <2>1. PICK q \in Int, r \in Int : r = (k - z) % z /\ k - z = z * q + r /\ 0 <= r /\ r < z
      BY <1>1
    <2>2. q = -1
      <3>1. z * (q + 1) = k - r
        BY <2>1
      <3>2. ASSUME q + 1 >= 1 PROVE z * (q + 1) >= z
        BY <3>2
      <3>3. ASSUME q + 1 <= -1 PROVE z * (q + 1) <= -z
        BY <3>3
      <3> QED BY <1>1, <2>1, <3>1, <3>2, <3>3
    <2> QED BY <2>1, <2>2
  <1> QED BY <1>1, <1>2, <1>4, <1>5, <1>6

\* The first k bytes are still where they arrived.
Intact(k) == \A j \in 0..(k - 1) : At(buff_start + j) = Stream(payload)[j + 1]

\* After j bytes of the search: before a byte of the packet or of the frame's end,
\* or between the two of a doubled one.
ScanAt(n, off, j, d) ==
  \/ j = 0 /\ d = 0
  \/ j = 1 /\ d = 1
  \/ \E i \in 2 .. n + 1 : j = off[i] /\ d % 2 = 0
  \/ \E i \in 2..n : payload[i] = "DLE" /\ j = off[i] + 1 /\ d % 2 = 1
  \/ j = off[n + 1] + 1 /\ d % 2 = 1

\* The bytes after the i-th have their final place, before the end of the frame.
Placed(n, e, i) ==
  \A m \in (i + 1)..n : At(buff_start + e + 1 - (n - m)) = payload[m]

\* What holds in each part of the call: n bytes in the packet, off where each is
\* in the frame, e the length of the frame without its DLE ETX.
CheckInv ==
  /\ start = buff_start /\ end = (buff_start + arrived) % MSG_BUF_SIZE
  /\ ~packet_found /\ dle_count = 0 /\ Intact(arrived)
ScanInv(n, off, e) ==
  /\ start = buff_start /\ end = buff_start + arrived /\ Intact(arrived)
  /\ \E j \in 0..arrived :
       /\ pos = buff_start + j
       /\ IF packet_found THEN j = e + 2 ELSE ScanAt(n, off, j, dle_count)
StripInv(n, off, e) ==
  /\ start = buff_start /\ packet_found /\ e + 2 <= arrived
  /\ pos = buff_start + e + 2 /\ Intact(e + 2)
ShiftInv(n, off, e) ==
  /\ start = buff_start /\ packet_found /\ e + 2 <= arrived
  /\ end = (buff_start + e + 2) % MSG_BUF_SIZE
  /\ \E i \in 0..n :
       /\ origin = buff_start + off[i + 1] - 1
       /\ pos = buff_start + e + 1 - (n - i)
       /\ Intact(off[i + 1]) /\ Placed(n, e, i)
DoneInv(n, off, e) ==
  IF packet_found
  THEN /\ e + 2 <= arrived /\ end = (buff_start + e + 2) % MSG_BUF_SIZE
       /\ start = (buff_start + e + 2 - n) % MSG_BUF_SIZE /\ Placed(n, e, 0)
  ELSE arrived < e + 2

InCall(n, off, e) ==
  /\ pc = "check" => CheckInv
  /\ pc = "scan" => ScanInv(n, off, e)
  /\ pc = "strip" => StripInv(n, off, e)
  /\ pc = "shift" => ShiftInv(n, off, e)
  /\ pc = "done" => DoneInv(n, off, e)

\* A call on a buffer that starts with a frame.
AlignedInv ==
  /\ missed = 0
  /\ payload \in Payloads /\ arrived \in 0..Len(Stream(payload))
  /\ buff_start \in Index /\ msg_buf \in [Index -> Bytes]
  /\ pc \in {"check", "scan", "strip", "shift", "done"}
  /\ dle_count \in Nat /\ packet_found \in BOOLEAN
  /\ InCall(Len(payload), Off(payload), Len(Frame(payload)) - 2)

\* A call on a buffer that does not: the search is never begun.
LateInv ==
  /\ missed = 1 /\ packet_found = FALSE
  /\ arrived \in Nat /\ arrived < MSG_BUF_SIZE /\ buff_start \in Index
  /\ pc \in {"check", "done", "exit"}
  /\ pc = "check" =>
       /\ start = buff_start /\ end = (buff_start + arrived) % MSG_BUF_SIZE
       /\ arrived > 0 => msg_buf[buff_start] # "DLE"

FramingInv == AlignedInv \/ LateInv

\* The invariant, with names for the packet's length, its offsets and its end.
LEMMA InvParts ==
  ASSUME AlignedInv
  PROVE  \E n, off, e : Packet(payload, n, off, e) /\ InCall(n, off, e)
  <1>1. PICK n, off, e : Packet(payload, n, off, e)
    BY PacketIs DEF AlignedInv
  <1>2. n = Len(payload) /\ off = Off(payload) /\ e = Len(Frame(payload)) - 2
    BY <1>1 DEF Packet
  <1>3. InCall(n, off, e)
    BY <1>2 DEF AlignedInv
  <1> QED BY <1>1, <1>3

\* A step that leaves what the device sent alone keeps the invariant if it keeps
\* the part of it for the program point it leads to.
LEMMA InvBack ==
  ASSUME AlignedInv, NEW n, NEW off, NEW e, Packet(payload, n, off, e),
         payload' = payload, missed' = missed, arrived' = arrived,
         buff_start' = buff_start, msg_buf' \in [Index -> Bytes], dle_count' \in Nat, packet_found' \in BOOLEAN,
         pc' \in {"check", "scan", "strip", "shift", "done"}, InCall(n, off, e)'
  PROVE  AlignedInv'
  <1>1. n = Len(payload') /\ off = Off(payload') /\ e = Len(Frame(payload')) - 2
    BY DEF Packet
  <1>2. InCall(Len(payload), Off(payload), Len(Frame(payload)) - 2)'
    BY <1>1
  <1> QED BY <1>2 DEF AlignedInv

\* The numbers a step works with.
LEMMA NumbersAre ==
  ASSUME AlignedInv, NEW n, NEW off, NEW e, Packet(payload, n, off, e)
  PROVE  /\ MSG_BUF_SIZE \in Nat \ {0} /\ n \in Nat \ {0} /\ e \in Nat
         /\ buff_start \in Nat /\ buff_start < MSG_BUF_SIZE
         /\ arrived \in Nat /\ arrived <= e + 3 /\ e + 3 < MSG_BUF_SIZE /\ e >= n + 1
         /\ \A i \in 1 .. n + 1 : off[i] \in Nat /\ off[i] >= i /\ e - off[i] >= n + 1 - i
         /\ \A i \in 1..n : off[i + 1] = off[i] + Width(payload[i])
         /\ off[1] = 1 /\ off[n + 1] = e
  <1>1. MSG_BUF_SIZE \in Nat \ {0}
    BY FramingAssumption
  <1>2. buff_start \in Nat /\ buff_start < MSG_BUF_SIZE
    BY <1>1 DEF AlignedInv, Index
  <1>3. /\ n \in Nat \ {0} /\ e \in Nat /\ e = off[n + 1] /\ payload \in [1..n -> Bytes]
        /\ Offsets(payload, n, off) /\ Len(Stream(payload)) = e + 3
        /\ e >= n + 1 /\ e + 3 < MSG_BUF_SIZE
    BY DEF Packet, Layout
  <1>4. arrived \in Nat /\ arrived <= e + 3
    BY <1>3 DEF AlignedInv
  <1>5. \A i \in 1 .. n + 1 : off[i] >= i /\ off[n + 1] - off[i] >= n + 1 - i
    BY <1>3, OffsetsGrow
  <1> QED BY <1>1, <1>2, <1>3, <1>4, <1>5 DEF Offsets

\* What the device put at the places of the search.
LEMMA SentIs ==
  ASSUME NEW n, NEW off, NEW e, Packet(payload, n, off, e)
  PROVE  /\ Stream(payload)[1] = "DLE"
         /\ \A i \in 1..n : /\ Stream(payload)[off[i] + 1] = payload[i]
                            /\ payload[i] = "DLE" => Stream(payload)[off[i] + 2] = "DLE"
         /\ Stream(payload)[e + 1] = "DLE" /\ Stream(payload)[e + 2] = "ETX"
  BY DEF Packet, Layout

\* The invariant holds when lookup_packet is called.
LEMMA AlignedInit ==
  ASSUME FramingInit, missed = 0
  PROVE  AlignedInv
  <1>1. PICK n, off, e : Packet(payload, n, off, e)
    BY PacketIs DEF FramingInit
  <1>2. n = Len(payload) /\ off = Off(payload) /\ e = Len(Frame(payload)) - 2
    BY <1>1 DEF Packet
  <1>3. PICK s \in Seq(Bytes) : s = Stream(payload) /\ Len(s) = e + 3
    BY <1>1 DEF Packet, Layout
  <1>4. e + 3 < MSG_BUF_SIZE /\ e \in Nat /\ MSG_BUF_SIZE \in Nat \ {0}
    BY <1>1, FramingAssumption DEF Packet
  <1>5. arrived \in Nat /\ arrived <= e + 3 /\ buff_start \in Nat /\ buff_start < MSG_BUF_SIZE
    BY <1>3, <1>4 DEF FramingInit, Index
  <1>6. msg_buf \in [Index -> Bytes]
    <2>1. ASSUME NEW i \in Index, (i - buff_start) % MSG_BUF_SIZE < arrived
          PROVE  s[((i - buff_start) % MSG_BUF_SIZE) + 1] \in Bytes
      <3>1. PICK k \in Int : k = (i - buff_start) % MSG_BUF_SIZE
        BY <1>4, <1>5 DEF Index
      <3>2. 0 <= k
        BY <1>4, <1>5, <3>1 DEF Index
      <3>3. k + 1 \in 1..Len(s)
        BY <1>3, <1>4, <1>5, <2>1, <3>1, <3>2
      <3> QED BY <3>1, <3>3
    <2>2. "x" \in Bytes
      BY DEF Bytes
    <2>3. \A k \in Int : k + 1 + missed = k + 1
      OBVIOUS
    <2>4. \A i \in Index : (i - buff_start) % MSG_BUF_SIZE \in Int
      BY <1>4, <1>5 DEF Index
    <2>5. msg_buf = [i \in Index |-> IF (i - buff_start) % MSG_BUF_SIZE < arrived
                                     THEN s[((i - buff_start) % MSG_BUF_SIZE) + 1]
                                     ELSE "x"]
      BY <1>3, <2>3, <2>4 DEF FramingInit
    <2> QED BY <2>1, <2>2, <2>5
  <1>7. Intact(arrived)
    <2> SUFFICES ASSUME NEW j \in 0..(arrived - 1)
                 PROVE  At(buff_start + j) = Stream(payload)[j + 1]
      BY DEF Intact
    <2>1. PICK i : i = (buff_start + j) % MSG_BUF_SIZE
      OBVIOUS
    <2>2. j \in 0..(MSG_BUF_SIZE - 1) /\ buff_start + j \in 0..(2 * MSG_BUF_SIZE - 1)
          /\ buff_start \in 0..(2 * MSG_BUF_SIZE - 1) /\ j < arrived /\ j \in Nat
          /\ buff_start + j < 2 * MSG_BUF_SIZE
      BY <1>4, <1>5
    <2>3. i \in Index
      BY <2>1, <2>2, RoundIs
    <2>4. buff_start % MSG_BUF_SIZE = buff_start
      BY <1>5, <2>2, RoundIs
    <2>5. (i - buff_start) % MSG_BUF_SIZE = j
      <3>1. (((buff_start + j) % MSG_BUF_SIZE) - (buff_start % MSG_BUF_SIZE)) % MSG_BUF_SIZE
              = j
        BY <2>2, RoundDistance
      <3> QED BY <2>1, <2>4, <3>1
    <2>6. msg_buf[i] = Stream(payload)[j + 1]
      BY <2>2, <2>3, <2>5 DEF FramingInit
    <2> QED BY <2>1, <2>6 DEF At
  <1>8. CheckInv
    BY <1>7 DEF CheckInv, FramingInit
  <1>9. InCall(Len(payload), Off(payload), Len(Frame(payload)) - 2)
    BY <1>8 DEF InCall, FramingInit
  <1>10. /\ payload \in Payloads /\ arrived \in 0..Len(Stream(payload))
         /\ buff_start \in Index /\ dle_count \in Nat /\ packet_found \in BOOLEAN
    <2>1. packet_found \in BOOLEAN
      BY Zenon DEF FramingInit
    <2>2. arrived \in 0..Len(Stream(payload))
      BY <1>3, <1>4, <1>5
    <2> QED BY <2>1, <2>2 DEF FramingInit
  <1> QED BY <1>6, <1>9, <1>10 DEF AlignedInv, FramingInit

\* The buffer is made linear.
LEMMA CheckStep ==
  ASSUME AlignedInv, Check
  PROVE  AlignedInv'
  <1>1. PICK n, off, e : Packet(payload, n, off, e) /\ InCall(n, off, e)
    BY InvParts
  <1>2. /\ MSG_BUF_SIZE \in Nat \ {0} /\ n \in Nat \ {0} /\ e \in Nat
        /\ buff_start \in Nat /\ buff_start < MSG_BUF_SIZE
        /\ arrived \in Nat /\ arrived <= e + 3 /\ e + 3 < MSG_BUF_SIZE /\ e >= n + 1
    BY <1>1, NumbersAre
  <1>3. CheckInv
    BY <1>1 DEF InCall, Check
  <1>4. /\ payload' = payload /\ missed' = missed /\ arrived' = arrived /\ buff_start' = buff_start
        /\ msg_buf' = msg_buf /\ dle_count' = dle_count /\ packet_found' = packet_found
        /\ start' = start /\ pos' = start
    BY DEF Check
  <1>5. end' = buff_start + arrived
    <2>1. buff_start + arrived \in 0..(2 * MSG_BUF_SIZE - 1)
      BY <1>2
    <2>2. end = IF buff_start + arrived < MSG_BUF_SIZE THEN buff_start + arrived
                ELSE buff_start + arrived - MSG_BUF_SIZE
      <3>1. PICK a \in 0..(2 * MSG_BUF_SIZE - 1) : a = buff_start + arrived
        BY <2>1
      <3>2. end = a % MSG_BUF_SIZE
        BY <1>3, <3>1 DEF CheckInv
      <3>3. end = IF a < MSG_BUF_SIZE THEN a ELSE a - MSG_BUF_SIZE
        BY <3>2, RoundIs
      <3> QED BY <1>2, <3>1, <3>3
    <2>3. end' = IF end < buff_start THEN end + MSG_BUF_SIZE ELSE end
      BY <1>3 DEF Check, CheckInv
    <2> QED BY <1>2, <2>2, <2>3
  <1>6. pc' = IF arrived < 4 THEN "done" ELSE "scan"
    <2>1. end' - start = arrived
      BY <1>2, <1>3, <1>5 DEF CheckInv
    <2>2. ASSUME ~(arrived < 4) PROVE At(start) = "DLE"
      <3>1. 0 \in 0..(arrived - 1) /\ buff_start + 0 = start
        BY <1>2, <1>3, <2>2 DEF CheckInv
      <3>2. At(buff_start + 0) = Stream(payload)[0 + 1]
        BY <1>3, <3>1 DEF CheckInv, Intact
      <3> QED BY <1>1, <3>1, <3>2, SentIs
    <2>3. CASE arrived < 4
      BY <1>2, <2>1, <2>3 DEF Check
    <2>4. CASE ~(arrived < 4)
      BY <1>2, <2>1, <2>2, <2>4 DEF Check
    <2> QED BY <2>3, <2>4
  <1>7. Intact(arrived)' 
    BY <1>3, <1>4 DEF CheckInv, Intact, At
  <1>8. InCall(n, off, e)'
    <2>1. CASE arrived < 4
      <3>1. arrived < e + 2
        BY <1>2, <2>1
      <3> QED BY <1>3, <1>4, <1>6, <2>1, <3>1 DEF InCall, DoneInv, CheckInv
    <2>2. CASE ~(arrived < 4)
      <3>1. 0 \in 0..arrived /\ pos' = buff_start' + 0
        BY <1>2, <1>3, <1>4 DEF CheckInv
      <3>2. ScanAt(n, off, 0, dle_count)'
        BY <1>3, <1>4 DEF ScanAt, CheckInv
      <3>3. ScanInv(n, off, e)'
        BY <1>3, <1>4, <1>5, <1>7, <3>1, <3>2 DEF ScanInv, CheckInv
      <3> QED BY <1>6, <2>2, <3>3 DEF InCall
    <2> QED BY <2>1, <2>2
  <1>9. msg_buf' \in [Index -> Bytes] /\ dle_count' \in Nat /\ packet_found' \in BOOLEAN
        /\ pc' \in {"check", "scan", "strip", "shift", "done"}
    BY <1>4, <1>6 DEF AlignedInv
  <1> QED BY <1>1, <1>4, <1>8, <1>9, InvBack

\* Parities.
LEMMA ParityIs ==
  ASSUME NEW d \in Nat
  PROVE  /\ d % 2 = 0 => (d + 1) % 2 = 1
         /\ d % 2 = 1 => (d + 1) % 2 = 0
         /\ d % 2 = 0 => d % 2 # 1
         /\ 0 % 2 = 0 /\ 1 % 2 = 1
  OBVIOUS

\* One byte of the search: what it finds and where it is then.
LEMMA ScanFinds ==
  ASSUME AlignedInv, NEW n, NEW off, NEW e, Packet(payload, n, off, e),
         NEW j \in Nat, NEW d \in Nat, ScanAt(n, off, j, d), NEW b,
         b = Stream(payload)[j + 1],
         NEW c \in Nat, c = IF b = "DLE" THEN d + 1 ELSE 0
  PROVE  IF b = "ETX" /\ d % 2 = 1 THEN j + 1 = e + 2
         ELSE ScanAt(n, off, j + 1, c)
  <1>1. /\ n \in Nat \ {0} /\ e \in Nat
        /\ \A i \in 1 .. n + 1 : off[i] \in Nat /\ off[i] >= i
        /\ \A i \in 1..n : off[i + 1] = off[i] + Width(payload[i])
        /\ off[1] = 1 /\ off[n + 1] = e
    BY NumbersAre
  <1>2. /\ Stream(payload)[1] = "DLE"
        /\ \A i \in 1..n : /\ Stream(payload)[off[i] + 1] = payload[i]
                           /\ payload[i] = "DLE" => Stream(payload)[off[i] + 2] = "DLE"
        /\ Stream(payload)[e + 1] = "DLE" /\ Stream(payload)[e + 2] = "ETX"
    BY SentIs
  <1>3. CASE j = 0 /\ d = 0
    <2>1. b = "DLE"
      BY <1>2, <1>3
    <2>2. c = 1 /\ j + 1 = 1
      BY <1>3, <2>1
    <2> QED BY <2>1, <2>2 DEF ScanAt
  <1>4. CASE j = 1 /\ d = 1
    <2>1. b = payload[1] /\ 1 \in 1..n
      BY <1>1, <1>2, <1>4
    <2>2. b # "DLE" /\ b # "ETX"
      BY <2>1 DEF Packet
    <2>3. c = 0 /\ c % 2 = 0
      BY <2>2, ParityIs
    <2>4. off[1 + 1] = 2 /\ 1 + 1 \in 2 .. n + 1
      BY <1>1, <2>1, <2>2 DEF Width
    <2>5. \E i \in 2 .. n + 1 : j + 1 = off[i] /\ c % 2 = 0
      BY <1>4, <2>3, <2>4
    <2> QED BY <2>2, <2>5 DEF ScanAt
  <1>5. CASE \E i \in 2 .. n + 1 : j = off[i] /\ d % 2 = 0
    <2>1. PICK i \in 2 .. n + 1 : j = off[i] /\ d % 2 = 0
      BY <1>5
    <2>2. d % 2 # 1 /\ (d + 1) % 2 = 1
      BY <2>1, ParityIs
    <2>3. CASE i = n + 1
      <3>1. b = "DLE" /\ j = e
        BY <1>1, <1>2, <2>1, <2>3
      <3>2. j + 1 = off[n + 1] + 1 /\ c % 2 = 1
        BY <1>1, <2>2, <3>1
      <3> QED BY <2>2, <3>2 DEF ScanAt
    <2>4. CASE i # n + 1
      <3>1. i \in 2..n /\ i \in 1..n /\ i + 1 \in 2 .. n + 1
        BY <1>1, <2>4
      <3>2. b = payload[i]
        BY <1>2, <2>1, <3>1
      <3>3. CASE b = "DLE"
        <4>1. c % 2 = 1
          BY <2>2, <3>3
        <4>2. j + 1 = off[i] + 1
          BY <2>1
        <4>3. \E k \in 2..n : payload[k] = "DLE" /\ j + 1 = off[k] + 1 /\ c % 2 = 1
          BY <3>1, <3>2, <3>3, <4>1, <4>2
        <4> QED BY <2>2, <4>3 DEF ScanAt
      <3>4. CASE b # "DLE"
        <4>1. c % 2 = 0
          BY <3>4, ParityIs
        <4>2. off[i + 1] = j + 1
          BY <1>1, <2>1, <3>1, <3>2, <3>4 DEF Width
        <4>3. \E k \in 2 .. n + 1 : j + 1 = off[k] /\ c % 2 = 0
          BY <3>1, <4>1, <4>2
        <4> QED BY <2>2, <4>3 DEF ScanAt
      <3> QED BY <3>3, <3>4
    <2> QED BY <2>3, <2>4
  <1>6. CASE \E i \in 2..n : payload[i] = "DLE" /\ j = off[i] + 1 /\ d % 2 = 1
    <2>1. PICK i \in 2..n : payload[i] = "DLE" /\ j = off[i] + 1 /\ d % 2 = 1
      BY <1>6
    <2>2. i \in 1..n /\ i \in 1 .. n + 1 /\ i + 1 \in 2 .. n + 1
      BY <1>1
    <2>3. off[i] \in Nat /\ off[i + 1] = off[i] + 2
      BY <1>1, <2>1, <2>2 DEF Width
    <2>4. j + 1 = off[i] + 2
      BY <2>1, <2>3
    <2>5. b = "DLE"
      BY <1>2, <2>1, <2>2, <2>4
    <2>6. c % 2 = 0
      BY <2>1, <2>5, ParityIs
    <2>7. \E k \in 2 .. n + 1 : j + 1 = off[k] /\ c % 2 = 0
      BY <2>2, <2>3, <2>4, <2>6
    <2> QED BY <2>5, <2>7 DEF ScanAt
  <1>7. CASE j = off[n + 1] + 1 /\ d % 2 = 1
    <2>1. j + 1 = e + 2
      BY <1>1, <1>7
    <2>2. b = "ETX"
      BY <1>2, <2>1
    <2> QED BY <1>7, <2>1, <2>2
  <1> QED BY <1>3, <1>4, <1>5, <1>6, <1>7 DEF ScanAt

\* The search has not passed the frame's end.
LEMMA ScanBefore ==
  ASSUME AlignedInv, NEW n, NEW off, NEW e, Packet(payload, n, off, e),
         NEW j \in Nat, NEW d \in Nat, ScanAt(n, off, j, d)
  PROVE  j < e + 2
  <1>1. /\ n \in Nat \ {0} /\ e \in Nat /\ e >= n + 1
        /\ \A i \in 1 .. n + 1 : off[i] \in Nat /\ e - off[i] >= n + 1 - i
        /\ off[n + 1] = e
    BY NumbersAre
  <1>2. ASSUME NEW i \in 2 .. n + 1 PROVE off[i] \in Nat /\ off[i] <= e
    BY <1>1
  <1>3. \A i \in 2..n : i \in 2 .. n + 1
    BY <1>1
  <1> QED BY <1>1, <1>2, <1>3 DEF ScanAt

\* One byte of the search keeps the invariant.
LEMMA ScanStep ==
  ASSUME AlignedInv, Scan
  PROVE  AlignedInv'
  <1>1. PICK n, off, e : Packet(payload, n, off, e) /\ InCall(n, off, e)
    BY InvParts
  <1>2. arrived \in Nat /\ buff_start \in Nat /\ e \in Nat
    BY <1>1, NumbersAre
  <1>3. ScanInv(n, off, e) /\ ~packet_found /\ pos < end
    BY <1>1 DEF InCall, Scan
  <1>4. /\ payload' = payload /\ missed' = missed /\ arrived' = arrived /\ buff_start' = buff_start
        /\ msg_buf' = msg_buf /\ pc' = "scan" /\ start' = start /\ end' = end
        /\ pos' = pos + 1
    BY DEF Scan
  <1>5. PICK j \in 0..arrived : pos = buff_start + j /\ ScanAt(n, off, j, dle_count)
    BY <1>3 DEF ScanInv
  <1>6. end = buff_start + arrived /\ Intact(arrived) /\ start = buff_start
    BY <1>3 DEF ScanInv
  <1>7. j \in Nat /\ j \in 0..(arrived - 1) /\ j + 1 \in 0..arrived
    BY <1>2, <1>3, <1>5, <1>6
  <1>8. PICK b : b = Stream(payload)[j + 1] /\ b = At(pos)
    BY <1>5, <1>6, <1>7 DEF Intact
  <1>9. PICK d \in Nat : d = dle_count
    BY DEF AlignedInv
  <1>10. PICK c \in Nat : c = IF b = "DLE" THEN d + 1 ELSE 0
    OBVIOUS
  <1>11. dle_count' = c
    BY <1>8, <1>9, <1>10 DEF Scan
  <1>12. packet_found' = (b = "ETX" /\ d % 2 = 1)
    BY <1>8, <1>9 DEF Scan, Ends
  <1>13. IF b = "ETX" /\ d % 2 = 1 THEN j + 1 = e + 2 ELSE ScanAt(n, off, j + 1, c)
    BY <1>1, <1>5, <1>7, <1>8, <1>9, <1>10, ScanFinds
  <1>14. PICK k \in 0..arrived : k = j + 1 /\ pos' = buff_start + k
    BY <1>2, <1>4, <1>5, <1>7
  <1>15. IF packet_found' THEN k = e + 2 ELSE ScanAt(n, off, k, dle_count)'
    <2>1. CASE b = "ETX" /\ d % 2 = 1
      BY <1>12, <1>13, <1>14, <2>1
    <2>2. CASE ~(b = "ETX" /\ d % 2 = 1)
      <3>1. ScanAt(n, off, k, c)
        BY <1>13, <1>14, <2>2
      <3>2. ScanAt(n, off, k, dle_count)'
        BY <1>4, <1>11, <3>1 DEF ScanAt
      <3> QED BY <1>12, <2>2, <3>2
    <2> QED BY <2>1, <2>2
  <1>16. Intact(arrived)'
    BY <1>4, <1>6 DEF Intact, At
  <1>17. ScanInv(n, off, e)'
    BY <1>4, <1>6, <1>14, <1>15, <1>16 DEF ScanInv
  <1>18. InCall(n, off, e)'
    BY <1>4, <1>17 DEF InCall
  <1>19. msg_buf' \in [Index -> Bytes] /\ dle_count' \in Nat /\ packet_found' \in BOOLEAN
    BY <1>4, <1>11, <1>12 DEF AlignedInv
  <1> QED BY <1>1, <1>4, <1>18, <1>19, InvBack

\* The search ends, at the end of the frame or of what has arrived.
LEMMA ScanEndsStep ==
  ASSUME AlignedInv, ScanEnds
  PROVE  AlignedInv'
  <1>1. PICK n, off, e : Packet(payload, n, off, e) /\ InCall(n, off, e)
    BY InvParts
  <1>2. arrived \in Nat /\ buff_start \in Nat /\ e \in Nat /\ dle_count \in Nat
    BY <1>1, NumbersAre DEF AlignedInv
  <1>3. ScanInv(n, off, e) /\ (packet_found \/ pos >= end)
    BY <1>1 DEF InCall, ScanEnds
  <1>4. /\ payload' = payload /\ missed' = missed /\ arrived' = arrived /\ buff_start' = buff_start
        /\ msg_buf' = msg_buf /\ start' = start /\ end' = end /\ pos' = pos
        /\ dle_count' = dle_count /\ packet_found' = packet_found
        /\ pc' = IF packet_found THEN "strip" ELSE "done"
    BY DEF ScanEnds
  <1>5. PICK j \in 0..arrived :
           /\ pos = buff_start + j
           /\ IF packet_found THEN j = e + 2 ELSE ScanAt(n, off, j, dle_count)
    BY <1>3 DEF ScanInv
  <1>6. start = buff_start /\ end = buff_start + arrived /\ Intact(arrived)
    BY <1>3 DEF ScanInv
  <1>7. InCall(n, off, e)'
    <2>1. CASE packet_found
      <3>1. j = e + 2 /\ e + 2 <= arrived /\ pos = buff_start + e + 2
        BY <1>2, <1>5, <2>1
      <3>2. Intact(e + 2)'
        <4>1. Intact(e + 2)
          <5> SUFFICES ASSUME NEW i \in 0..((e + 2) - 1)
                       PROVE  At(buff_start + i) = Stream(payload)[i + 1]
            BY DEF Intact
          <5>1. i \in 0..(arrived - 1)
            BY <1>2, <3>1
          <5> QED BY <1>6, <5>1 DEF Intact
        <4> QED BY <1>4, <4>1 DEF Intact, At
      <3>3. StripInv(n, off, e)'
        BY <1>4, <1>6, <2>1, <3>1, <3>2 DEF StripInv
      <3> QED BY <1>4, <2>1, <3>3 DEF InCall
    <2>2. CASE ~packet_found
      <3>1. j < e + 2
        BY <1>1, <1>2, <1>5, <2>2, ScanBefore
      <3>2. arrived < e + 2
        BY <1>2, <1>3, <1>5, <1>6, <2>2, <3>1
      <3>3. DoneInv(n, off, e)'
        BY <1>4, <2>2, <3>2 DEF DoneInv
      <3> QED BY <1>4, <2>2, <3>3 DEF InCall
    <2> QED BY <2>1, <2>2
  <1>8. msg_buf' \in [Index -> Bytes] /\ dle_count' \in Nat /\ packet_found' \in BOOLEAN
        /\ pc' \in {"check", "scan", "strip", "shift", "done"}
    BY <1>4 DEF AlignedInv
  <1> QED BY <1>1, <1>4, <1>7, <1>8, InvBack

\* The shift starts, with the last byte of the packet.
LEMMA StripStep ==
  ASSUME AlignedInv, Strip
  PROVE  AlignedInv'
  <1>1. PICK n, off, e : Packet(payload, n, off, e) /\ InCall(n, off, e)
    BY InvParts
  <1>2. buff_start \in Nat /\ e \in Nat /\ n \in Nat \ {0} /\ off[n + 1] = e
    BY <1>1, NumbersAre
  <1>3. StripInv(n, off, e)
    BY <1>1 DEF InCall, Strip
  <1>4. /\ payload' = payload /\ missed' = missed /\ arrived' = arrived /\ buff_start' = buff_start
        /\ msg_buf' = msg_buf /\ start' = start /\ pc' = "shift"
        /\ dle_count' = dle_count /\ packet_found' = packet_found
        /\ end' = pos % MSG_BUF_SIZE /\ pos' = pos - 1 /\ origin' = pos - 3
    BY DEF Strip
  <1>5. /\ start = buff_start /\ packet_found /\ e + 2 <= arrived
        /\ pos = buff_start + e + 2 /\ Intact(e + 2)
    BY <1>3 DEF StripInv
  <1>6. n \in 0..n /\ origin' = buff_start + off[n + 1] - 1
        /\ pos' = buff_start + e + 1 - (n - n)
    BY <1>2, <1>4, <1>5
  <1>7. Intact(off[n + 1])'
    <2>1. \A i \in 0..(e - 1) : i \in 0..(e + 2 - 1)
      BY <1>2
    <2> QED BY <1>2, <1>4, <1>5, <2>1 DEF Intact, At
  <1>8. Placed(n, e, n)'
    BY <1>2 DEF Placed
  <1>9. ShiftInv(n, off, e)'
    BY <1>4, <1>5, <1>6, <1>7, <1>8 DEF ShiftInv
  <1>10. InCall(n, off, e)'
    BY <1>4, <1>9 DEF InCall
  <1>11. msg_buf' \in [Index -> Bytes] /\ dle_count' \in Nat /\ packet_found' \in BOOLEAN
    BY <1>4 DEF AlignedInv
  <1> QED BY <1>1, <1>4, <1>10, <1>11, InvBack

\* One byte of the shift keeps the invariant: it reaches its place, and origin
\* steps over its padding.
LEMMA ShiftStep ==
  ASSUME AlignedInv, Shift
  PROVE  AlignedInv'
  <1>1. PICK n, off, e : Packet(payload, n, off, e) /\ InCall(n, off, e)
    BY InvParts
  <1>2. /\ MSG_BUF_SIZE \in Nat \ {0} /\ n \in Nat \ {0} /\ e \in Nat
        /\ buff_start \in Nat /\ buff_start < MSG_BUF_SIZE
        /\ e + 3 < MSG_BUF_SIZE /\ e >= n + 1
        /\ \A i \in 1 .. n + 1 : off[i] \in Nat /\ off[i] >= i /\ e - off[i] >= n + 1 - i
        /\ \A i \in 1..n : off[i + 1] = off[i] + Width(payload[i])
        /\ off[1] = 1
    BY <1>1, NumbersAre
  <1>3. ShiftInv(n, off, e) /\ origin > start
    BY <1>1 DEF InCall, Shift
  <1>4. /\ payload' = payload /\ missed' = missed /\ arrived' = arrived /\ buff_start' = buff_start
        /\ start' = start /\ end' = end /\ pc' = "shift"
        /\ dle_count' = dle_count /\ packet_found' = packet_found
        /\ msg_buf' = [msg_buf EXCEPT ![pos % MSG_BUF_SIZE] = At(origin)]
        /\ origin' = origin - Skip /\ pos' = pos - 1
    BY DEF Shift
  <1>5. /\ start = buff_start /\ packet_found /\ e + 2 <= arrived
        /\ end = (buff_start + e + 2) % MSG_BUF_SIZE
    BY <1>3 DEF ShiftInv
  <1>6. PICK i \in 0..n : /\ origin = buff_start + off[i + 1] - 1
                          /\ pos = buff_start + e + 1 - (n - i)
                          /\ Intact(off[i + 1]) /\ Placed(n, e, i)
    BY <1>3 DEF ShiftInv
  <1>7. i \in 1..n
    <2>1. i # 0
      BY <1>2, <1>3, <1>5, <1>6
    <2> QED BY <2>1
  <1>8. i \in 1 .. n + 1 /\ i + 1 \in 1 .. n + 1
    BY <1>2, <1>7
  <1>9. PICK b \in Bytes : b = payload[i]
    <2>1. payload[i] \in Bytes
      BY <1>1, <1>7 DEF Packet
    <2> QED BY <2>1
  <1>10. PICK w \in 1..2 : w = Width(b)
    <2>1. Width(b) \in 1..2
      BY DEF Width
    <2> QED BY <2>1
  <1>11. PICK x \in Nat : x = off[i]
    BY <1>2, <1>8
  <1>12. PICK y \in Nat : y = off[i + 1]
    BY <1>2, <1>8
  <1>13. /\ x = off[i] /\ y = off[i + 1] /\ b = payload[i] /\ w = Width(b)
    BY <1>9, <1>10, <1>11, <1>12
  <1>14. y = x + w /\ x >= i /\ e - y >= n - i /\ y >= 2
    <2>1. y = x + w
      BY <1>2, <1>7, <1>13
    <2>2. x >= i
      BY <1>2, <1>8, <1>11
    <2>3. e - y >= n + 1 - (i + 1)
      BY <1>2, <1>8, <1>12
    <2> QED BY <1>2, <1>7, <2>1, <2>2, <2>3
  \* Places.
  <1>15. PICK o \in Nat, t \in Nat : /\ o = origin /\ t = pos /\ o = buff_start + y - 1
                                     /\ t = buff_start + e + 1 - (n - i)
    <2>1. buff_start + y - 1 \in Nat /\ buff_start + e + 1 - (n - i) \in Nat
      BY <1>2, <1>7, <1>14
    <2> QED BY <1>6, <1>13, <2>1
  <1>16. /\ o \in 0..(2 * MSG_BUF_SIZE - 1) /\ t \in 0..(2 * MSG_BUF_SIZE - 1)
         /\ o - 1 \in 0..(2 * MSG_BUF_SIZE - 1)
         /\ o < t /\ t - o < MSG_BUF_SIZE /\ o - 1 < t /\ t - (o - 1) < MSG_BUF_SIZE
    BY <1>2, <1>7, <1>14, <1>15
  <1>17. \A j \in 0..(y - 1) : At(buff_start + j) = Stream(payload)[j + 1]
    BY <1>6, <1>13 DEF Intact
  <1>18. /\ Stream(payload)[x + 1] = b
         /\ b = "DLE" => Stream(payload)[x + 2] = "DLE"
    BY <1>1, <1>7, <1>13, SentIs
  <1>19. b = "DLE" <=> w = 2
    BY <1>13 DEF Width
  <1>20. At(o) = b
    <2>1. PICK j \in 0..(y - 1) : j = y - 1 /\ o = buff_start + j
      <3>1. y - 1 \in 0..(y - 1) /\ o = buff_start + (y - 1)
        BY <1>2, <1>14, <1>15
      <3> QED BY <3>1
    <2>2. At(o) = Stream(payload)[j + 1]
      BY <1>17, <2>1
    <2>3. CASE w = 2
      <3>1. j + 1 = x + 2
        BY <1>14, <2>1, <2>3
      <3> QED BY <1>18, <1>19, <2>2, <2>3, <3>1
    <2>4. CASE w = 1
      <3>1. j + 1 = x + 1
        BY <1>14, <2>1, <2>4
      <3> QED BY <1>18, <2>2, <3>1
    <2> QED BY <2>3, <2>4
  <1>21. /\ msg_buf' \in [Index -> Bytes] /\ msg_buf'[t % MSG_BUF_SIZE] = b
         /\ \A a \in 0..(2 * MSG_BUF_SIZE - 1) :
              (a < t /\ t - a < MSG_BUF_SIZE) \/ (t < a /\ a - t < MSG_BUF_SIZE) =>
                 msg_buf'[a % MSG_BUF_SIZE] = At(a)
    <2>1. msg_buf \in [Index -> Bytes]
      BY DEF AlignedInv
    <2>2. msg_buf' = [msg_buf EXCEPT ![t % MSG_BUF_SIZE] = b]
      BY <1>4, <1>15, <1>20
    <2>3. t % MSG_BUF_SIZE \in Index
      BY <1>16, RoundIs
    <2>4. msg_buf' \in [Index -> Bytes] /\ msg_buf'[t % MSG_BUF_SIZE] = b
      BY <2>1, <2>2, <2>3
    <2>5. ASSUME NEW a \in 0..(2 * MSG_BUF_SIZE - 1),
                 (a < t /\ t - a < MSG_BUF_SIZE) \/ (t < a /\ a - t < MSG_BUF_SIZE)
          PROVE  msg_buf'[a % MSG_BUF_SIZE] = At(a)
      <3>1. a % MSG_BUF_SIZE # t % MSG_BUF_SIZE
        BY <1>16, <2>5, RoundApart
      <3>2. a % MSG_BUF_SIZE \in Index
        BY RoundIs
      <3> QED BY <2>1, <2>2, <3>1, <3>2 DEF At
    <2> QED BY <2>4, <2>5
  <1>22. Skip = w
    <2>1. Skip = IF /\ msg_buf'[o % MSG_BUF_SIZE] = "DLE"
                    /\ msg_buf'[(o - 1) % MSG_BUF_SIZE] = "DLE" THEN 2 ELSE 1
      BY <1>4, <1>15 DEF Skip
    <2>2. msg_buf'[o % MSG_BUF_SIZE] = b
      BY <1>16, <1>20, <1>21
    <2>3. msg_buf'[(o - 1) % MSG_BUF_SIZE] = At(o - 1)
      BY <1>16, <1>21
    <2>4. ASSUME w = 2 PROVE At(o - 1) = "DLE"
      <3>1. PICK j \in 0..(y - 1) : j = y - 2 /\ o - 1 = buff_start + j
        <4>1. y - 2 \in 0..(y - 1) /\ o - 1 = buff_start + (y - 2)
          BY <1>2, <1>14, <1>15
        <4> QED BY <4>1
      <3>2. At(o - 1) = Stream(payload)[j + 1] /\ j + 1 = x + 1
        BY <1>14, <1>17, <2>4, <3>1
      <3> QED BY <1>18, <1>19, <2>4, <3>2
    <2>5. CASE w = 2
      BY <1>19, <2>1, <2>2, <2>3, <2>4, <2>5
    <2>6. CASE w = 1
      BY <1>19, <2>1, <2>2, <2>6
    <2> QED BY <2>5, <2>6
  <1>23. PICK k \in 0..n : k = i - 1 /\ k + 1 = i
    <2>1. i - 1 \in 0..n /\ (i - 1) + 1 = i
      BY <1>2, <1>7
    <2> QED BY <2>1
  <1>24. origin' = buff_start + off[k + 1] - 1 /\ pos' = buff_start + e + 1 - (n - k)
    <2>1. origin' = o - w /\ pos' = t - 1 /\ off[k + 1] = x
      BY <1>4, <1>13, <1>15, <1>22, <1>23
    <2>2. o - w = buff_start + x - 1 /\ t - 1 = buff_start + e + 1 - (n - k)
      BY <1>2, <1>14, <1>15, <1>23
    <2> QED BY <2>1, <2>2
  <1>25. Intact(off[k + 1])'
    <2> SUFFICES ASSUME NEW j \in 0..(x - 1)
                 PROVE  msg_buf'[(buff_start + j) % MSG_BUF_SIZE] = Stream(payload)[j + 1]
      BY <1>4, <1>13, <1>23 DEF Intact, At
    <2>1. j \in 0..(y - 1)
      BY <1>14
    <2>2. PICK a \in 0..(2 * MSG_BUF_SIZE - 1) : a = buff_start + j /\ a < t
                                                 /\ t - a < MSG_BUF_SIZE
      <3>1. /\ buff_start + j \in 0..(2 * MSG_BUF_SIZE - 1) /\ buff_start + j < t
            /\ t - (buff_start + j) < MSG_BUF_SIZE
        BY <1>2, <1>7, <1>14, <1>15
      <3> QED BY <3>1
    <2>3. msg_buf'[a % MSG_BUF_SIZE] = At(a)
      BY <1>21, <2>2
    <2> QED BY <1>17, <2>1, <2>2, <2>3
  <1>26. Placed(n, e, k)'
    <2> SUFFICES ASSUME NEW m \in (k + 1)..n
                 PROVE  msg_buf'[(buff_start + e + 1 - (n - m)) % MSG_BUF_SIZE] = payload[m]
      BY <1>4 DEF Placed, At
    <2>1. CASE m = i
      BY <1>13, <1>15, <1>21, <2>1
    <2>2. CASE m # i
      <3>1. m \in (i + 1)..n
        BY <1>23, <2>2
      <3>2. PICK a : a = buff_start + e + 1 - (n - m)
        OBVIOUS
      <3>3. /\ a \in 0..(2 * MSG_BUF_SIZE - 1)
            /\ a = buff_start + e + 1 - (n - m) /\ t < a /\ a - t < MSG_BUF_SIZE
        <4>1. m \in Int /\ i < m /\ m <= n
          BY <1>7, <3>1
        <4> QED BY <1>2, <1>7, <1>15, <3>2, <4>1
      <3>4. msg_buf'[a % MSG_BUF_SIZE] = At(a)
        BY <1>21, <3>3
      <3>5. At(a) = payload[m]
        BY <1>6, <3>1, <3>3 DEF Placed
      <3> QED BY <3>3, <3>4, <3>5
    <2> QED BY <2>1, <2>2
  <1>27. ShiftInv(n, off, e)'
    BY <1>4, <1>5, <1>23, <1>24, <1>25, <1>26 DEF ShiftInv
  <1>28. InCall(n, off, e)'
    BY <1>4, <1>27 DEF InCall
  <1>29. dle_count' \in Nat /\ packet_found' \in BOOLEAN
    BY <1>4 DEF AlignedInv
  <1> QED BY <1>1, <1>4, <1>21, <1>28, <1>29, InvBack

\* The shift ends in front of the packet's first byte.
LEMMA ShiftEndsStep ==
  ASSUME AlignedInv, ShiftEnds
  PROVE  AlignedInv'
  <1>1. PICK n, off, e : Packet(payload, n, off, e) /\ InCall(n, off, e)
    BY InvParts
  <1>2. /\ n \in Nat \ {0} /\ e \in Nat /\ buff_start \in Nat
        /\ \A i \in 1 .. n + 1 : off[i] \in Nat /\ off[i] >= i
    BY <1>1, NumbersAre
  <1>3. ShiftInv(n, off, e) /\ origin <= start
    BY <1>1 DEF InCall, ShiftEnds
  <1>4. /\ payload' = payload /\ missed' = missed /\ arrived' = arrived /\ buff_start' = buff_start
        /\ start' = (pos + 1) % MSG_BUF_SIZE /\ end' = end /\ pc' = "done"
        /\ dle_count' = dle_count /\ packet_found' = packet_found /\ msg_buf' = msg_buf
    BY DEF ShiftEnds
  <1>5. /\ start = buff_start /\ packet_found /\ e + 2 <= arrived
        /\ end = (buff_start + e + 2) % MSG_BUF_SIZE
    BY <1>3 DEF ShiftInv
  <1>6. PICK i \in 0..n : /\ origin = buff_start + off[i + 1] - 1
                          /\ pos = buff_start + e + 1 - (n - i)
                          /\ Placed(n, e, i)
    BY <1>3 DEF ShiftInv
  <1>7. i = 0
    <2>1. i + 1 \in 1 .. n + 1
      BY <1>2
    <2>2. off[i + 1] \in Nat /\ off[i + 1] >= i + 1
      BY <1>2, <2>1
    <2> QED BY <1>2, <1>3, <1>5, <1>6, <2>2
  <1>8. pos + 1 = buff_start + e + 2 - n
    BY <1>2, <1>6, <1>7
  <1>9. Placed(n, e, 0)'
    <2>1. Placed(n, e, 0)
      BY <1>6, <1>7
    <2> QED BY <1>4, <2>1 DEF Placed, At
  <1>10. DoneInv(n, off, e)'
    BY <1>4, <1>5, <1>8, <1>9 DEF DoneInv
  <1>11. InCall(n, off, e)'
    BY <1>4, <1>10 DEF InCall
  <1>12. msg_buf' \in [Index -> Bytes] /\ dle_count' \in Nat /\ packet_found' \in BOOLEAN
    BY <1>4 DEF AlignedInv
  <1> QED BY <1>1, <1>4, <1>11, <1>12, InvBack

\* A stream joined after the first byte of a frame goes on with the packet's
\* identifier, which is no DLE.
LEMMA LateInit ==
  ASSUME FramingInit, missed = 1
  PROVE  LateInv
  <1>1. PICK n, off, e : Packet(payload, n, off, e)
    BY PacketIs DEF FramingInit
  <1>2. Len(Stream(payload)) = e + 3 /\ e \in Nat /\ e + 3 < MSG_BUF_SIZE
    BY <1>1 DEF Packet, Layout
  <1>3. MSG_BUF_SIZE \in Nat \ {0} /\ buff_start \in Nat /\ buff_start < MSG_BUF_SIZE
    BY FramingAssumption DEF FramingInit, Index
  <1>4. arrived \in Nat /\ arrived < MSG_BUF_SIZE
    BY <1>2, <1>3 DEF FramingInit
  <1>5. Stream(payload)[2] # "DLE"
    <2>1. 1 \in 1..n /\ off[1] = 1 /\ payload[1] # "DLE"
      BY <1>1 DEF Packet, Layout, Offsets, Payloads
    <2>2. Stream(payload)[off[1] + 1] = payload[1]
      BY <1>1, <2>1, SentIs
    <2> QED BY <2>1, <2>2
  <1>6. ASSUME arrived > 0 PROVE msg_buf[buff_start] # "DLE"
    <2>1. (buff_start - buff_start) % MSG_BUF_SIZE = 0
      BY <1>3
    <2>2. buff_start \in Index
      BY DEF FramingInit
    <2>3. msg_buf[buff_start] = Stream(payload)[0 + 1 + missed]
      BY <1>6, <2>1, <2>2 DEF FramingInit
    <2> QED BY <1>5, <2>3
  <1> QED BY <1>4, <1>6 DEF LateInv, FramingInit

\* Four bytes or more that do not start with DLE end the program.
LEMMA LateStep ==
  ASSUME LateInv, FramingNext
  PROVE  LateInv'
  <1>1. Check
    BY DEF LateInv, FramingNext, Scan, ScanEnds, Strip, Shift, ShiftEnds
  <1>2. MSG_BUF_SIZE \in Nat \ {0} /\ buff_start \in Nat /\ buff_start < MSG_BUF_SIZE
    BY FramingAssumption DEF LateInv, Index
  <1>3. /\ start = buff_start /\ end = (buff_start + arrived) % MSG_BUF_SIZE
        /\ arrived > 0 => msg_buf[buff_start] # "DLE"
        /\ arrived \in Nat /\ arrived < MSG_BUF_SIZE
    BY <1>1 DEF LateInv, Check
  <1>4. end' = buff_start + arrived
    <2>1. PICK a \in 0..(2 * MSG_BUF_SIZE - 1) : a = buff_start + arrived
      <3>1. buff_start + arrived \in 0..(2 * MSG_BUF_SIZE - 1)
        BY <1>2, <1>3
      <3> QED BY <3>1
    <2>2. end = IF a < MSG_BUF_SIZE THEN a ELSE a - MSG_BUF_SIZE
      BY <1>3, <2>1, RoundIs
    <2>3. end' = IF end < buff_start THEN end + MSG_BUF_SIZE ELSE end
      BY <1>1, <1>3 DEF Check
    <2> QED BY <1>2, <1>3, <2>1, <2>2, <2>3
  <1>5. end' - start = arrived
    BY <1>2, <1>3, <1>4
  <1>6. At(start) = msg_buf[buff_start]
    <2>1. buff_start % MSG_BUF_SIZE = buff_start
      BY <1>2
    <2> QED BY <1>3, <2>1 DEF At
  <1>7. pc' \in {"done", "exit"}
    <2>1. CASE arrived < 4
      BY <1>1, <1>5, <2>1 DEF Check
    <2>2. CASE ~(arrived < 4)
      <3>1. At(start) # "DLE"
        BY <1>3, <1>6, <2>2
      <3> QED BY <1>1, <1>3, <1>5, <2>2, <3>1 DEF Check
    <2> QED BY <2>1, <2>2
  <1> QED BY <1>1, <1>7 DEF LateInv, Check

\* Every step of lookup_packet, of the search for the end and of the shift in
\* place, keeps the invariant.
THEOREM FramingInvariant == FramingSpec => []FramingInv
  <1>1. FramingInit => FramingInv
    BY AlignedInit, LateInit DEF FramingInv, FramingInit
  <1>2. FramingInv /\ [FramingNext]_framingVars => FramingInv'
    <2> SUFFICES ASSUME FramingInv, [FramingNext]_framingVars
                 PROVE  FramingInv'
      OBVIOUS
    <2>1. CASE FramingNext /\ AlignedInv
      BY <2>1, CheckStep, ScanStep, ScanEndsStep, StripStep, ShiftStep, ShiftEndsStep
         DEF FramingNext, FramingInv
    <2>2. CASE UNCHANGED framingVars /\ AlignedInv
      <3>1. AlignedInv'
        BY <2>2 DEF framingVars, AlignedInv, InCall, CheckInv, ScanInv, StripInv,
               ShiftInv, DoneInv, Intact, ScanAt, Placed, At
      <3> QED BY <3>1 DEF FramingInv
    <2>3. CASE FramingNext /\ LateInv
      BY <2>3, LateStep DEF FramingInv
    <2>4. CASE UNCHANGED framingVars /\ LateInv
      <3>1. LateInv'
        BY <2>4 DEF framingVars, LateInv
      <3> QED BY <3>1 DEF FramingInv
    <2> QED BY <2>1, <2>2, <2>3, <2>4 DEF FramingInv
  <1> QED BY <1>1, <1>2, PTL DEF FramingSpec

\* A packet is reported exactly when its whole frame has arrived, and the
\* program ends only over a buffer that does not start with a frame.
THEOREM FoundWhenWholeAlways == FramingSpec => []FoundWhenWhole
  <1>0. LateInv => FoundWhenWhole
    BY DEF LateInv, FoundWhenWhole
  <1>1. AlignedInv => FoundWhenWhole
    <2> SUFFICES ASSUME AlignedInv, pc = "done"
                 PROVE  packet_found <=> arrived >= Len(Frame(payload))
      BY DEF FoundWhenWhole, AlignedInv
    <2>1. PICK n, off, e : Packet(payload, n, off, e) /\ InCall(n, off, e)
      BY InvParts
    <2>2. arrived \in Nat /\ e \in Nat /\ Len(Frame(payload)) = e + 2
      BY <2>1, NumbersAre DEF Packet
    <2>3. DoneInv(n, off, e)
      BY <2>1 DEF InCall
    <2> QED BY <2>2, <2>3 DEF DoneInv
  <1>2. FramingInv => FoundWhenWhole
    BY <1>0, <1>1 DEF FramingInv
  <1> QED BY <1>2, FramingInvariant, PTL

\* The bytes reported are the packet the device sent, wherever it lies in the
\* buffer and however many of its bytes were doubled, and the next packet
\* starts at end.
THEOREM PayloadRestoredAlways == FramingSpec => []PayloadRestored
  <1>1. AlignedInv => PayloadRestored
    <2> SUFFICES ASSUME AlignedInv, pc = "done", packet_found
                 PROVE  /\ Result = payload
                        /\ (end - buff_start) % MSG_BUF_SIZE = Len(Frame(payload))
      BY DEF PayloadRestored
    <2>1. PICK n, off, e : Packet(payload, n, off, e) /\ InCall(n, off, e)
      BY InvParts
    <2>2. /\ MSG_BUF_SIZE \in Nat \ {0} /\ n \in Nat \ {0} /\ e \in Nat
          /\ buff_start \in Nat /\ buff_start < MSG_BUF_SIZE
          /\ e + 3 < MSG_BUF_SIZE /\ e >= n + 1
      BY <2>1, NumbersAre
    <2>3. /\ end = (buff_start + e + 2) % MSG_BUF_SIZE
          /\ start = (buff_start + e + 2 - n) % MSG_BUF_SIZE /\ Placed(n, e, 0)
      BY <2>1 DEF InCall, DoneInv
    <2>4. (end - buff_start) % MSG_BUF_SIZE = Len(Frame(payload))
      <3>1. buff_start \in 0..(2 * MSG_BUF_SIZE - 1) /\ e + 2 \in 0..(MSG_BUF_SIZE - 1)
            /\ buff_start + (e + 2) < 2 * MSG_BUF_SIZE
        BY <2>2
      <3>2. (((buff_start + (e + 2)) % MSG_BUF_SIZE) - (buff_start % MSG_BUF_SIZE))
               % MSG_BUF_SIZE = e + 2
        BY <3>1, RoundDistance
      <3>3. buff_start % MSG_BUF_SIZE = buff_start /\ buff_start + (e + 2) = buff_start + e + 2
        BY <2>2, <3>1, RoundIs
      <3>4. Len(Frame(payload)) = e + 2
        BY <2>1 DEF Packet
      <3> QED BY <2>3, <3>2, <3>3, <3>4
    <2>5. PICK a \in 0..(2 * MSG_BUF_SIZE - 1) : /\ a = buff_start + e + 2 - n
                                                 /\ a + n = buff_start + e + 2
                                                 /\ a + n < 2 * MSG_BUF_SIZE
      <3>1. /\ buff_start + e + 2 - n \in 0..(2 * MSG_BUF_SIZE - 1)
            /\ (buff_start + e + 2 - n) + n = buff_start + e + 2
            /\ (buff_start + e + 2 - n) + n < 2 * MSG_BUF_SIZE
        BY <2>2
      <3> QED BY <3>1
    <2>6. start = a % MSG_BUF_SIZE /\ end = (a + n) % MSG_BUF_SIZE
      BY <2>3, <2>5
    <2>7. (end - start) % MSG_BUF_SIZE = n
      <3>1. n \in 0..(MSG_BUF_SIZE - 1)
        BY <2>2
      <3> QED BY <2>5, <2>6, <3>1, RoundDistance
    <2>8. ASSUME NEW k \in 1..n PROVE At(start + k - 1) = payload[k]
      <3>1. PICK c \in Nat : c = a + k - 1 /\ c = buff_start + e + 1 - (n - k)
                             /\ c < 2 * MSG_BUF_SIZE
        <4>1. a + k - 1 \in Nat /\ a + k - 1 = buff_start + e + 1 - (n - k)
              /\ a + k - 1 < 2 * MSG_BUF_SIZE
          BY <2>2, <2>5
        <4> QED BY <4>1
      <3>2. At(c) = payload[k]
        <4>1. k \in (0 + 1)..n
          OBVIOUS
        <4> QED BY <2>3, <3>1, <4>1 DEF Placed
      <3>3. (start + k - 1) % MSG_BUF_SIZE = c % MSG_BUF_SIZE
        <4>1. start = IF a < MSG_BUF_SIZE THEN a ELSE a - MSG_BUF_SIZE
          BY <2>6, RoundIs
        <4>2. CASE a < MSG_BUF_SIZE
          BY <3>1, <4>1, <4>2
        <4>3. CASE a >= MSG_BUF_SIZE
          <5>1. PICK g \in Nat : g = start + k - 1 /\ c = g + MSG_BUF_SIZE
                                 /\ g < MSG_BUF_SIZE
            <6>1. start + k - 1 \in Nat /\ c = (start + k - 1) + MSG_BUF_SIZE
                  /\ start + k - 1 < MSG_BUF_SIZE
              BY <2>2, <3>1, <4>1, <4>3
            <6> QED BY <6>1
          <5>2. g \in 0..(2 * MSG_BUF_SIZE - 1) /\ c \in 0..(2 * MSG_BUF_SIZE - 1)
            BY <2>2, <3>1, <5>1
          <5>3. g % MSG_BUF_SIZE = g /\ c % MSG_BUF_SIZE = c - MSG_BUF_SIZE
            <6>1. c >= MSG_BUF_SIZE
              BY <2>2, <5>1
            <6> QED BY <2>2, <5>1, <5>2, <6>1, RoundIs
          <5> QED BY <2>2, <5>1, <5>3
        <4> QED BY <2>2, <4>2, <4>3
      <3> QED BY <3>2, <3>3 DEF At
    <2>9. Result = [k \in 1..n |-> payload[k]]
      BY <2>7, <2>8 DEF Result
    <2>10. payload = [k \in 1..n |-> payload[k]]
      BY <2>1 DEF Packet
    <2> QED BY <2>4, <2>9, <2>10
  <1>2. FramingInv => PayloadRestored
    BY <1>1 DEF FramingInv, LateInv, PayloadRestored
  <1> QED BY <1>2, FramingInvariant, PTL
=============================================================================
