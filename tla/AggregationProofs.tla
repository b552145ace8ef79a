-------------------------- MODULE AggregationProofs --------------------------
(***************************************************************************)
(* Proofs about the aggregation interceptor, for any packets, destinations *)
(* and stamps, either or both levels, any size of the buffers and any      *)
(* number of failures.                                                     *)
(*                                                                         *)
(* The first part of the invariant says what a hook relies on between two  *)
(* of its calls on a buffer; from it follow the causes of crashes.  On it  *)
(* rest two others: where each packet is, and which differences the stamps *)
(* in a buffer, in the hands of a hook or of consuela stand for.  A part   *)
(* of its own says where the pointers of the lists lead between the stores *)
(* that extend them.                                                       *)
(***************************************************************************)
EXTENDS Aggregation, FiniteSetTheorems, WellFoundedInduction, TLAPS

ProcType ==
  [pc : {"idle", "lookup", "create", "link", "last", "peek", "stamp", "decide",
         "push", "expand", "put", "copy", "total", "reset"},
   level : {"app", "ip"}, skb : Frames \cup {None}, buf : Nat, prev : Nat,
   off : Nat, put : Nat, copied : Parts, torn : BOOLEAN]
ConsuelaType ==
  [pc : {"start", "loop", "take", "send", "ended", "dead"},
   level : {"app", "ip"}, it : Nat, hold : Parts, dangling : BOOLEAN]
LinkType ==
  [made : BOOLEAN, first : Nat, last : Nat, front : Seq(Nat), cut : BOOLEAN]

Running == proc.pc # "idle"
InUse == proc.pc \in {"stamp", "decide", "push", "expand", "put", "copy", "total",
                      "reset"}

\* The parts that came from the application level alone.
Singles(data) == \A j \in DOMAIN data : Len(data[j]) = 1

\* The hook in process context: a frame that is no network level aggregate has
\* one part, at the application level of one packet, and a buffer that was
\* found or made is still there.
ProcInv ==
  /\ ~Running => proc = Idle
  /\ Running =>
       /\ L \in Levels /\ proc.skb \in Frames
       /\ proc.skb.proto # "ip" => Len(proc.skb.parts) = 1
       /\ L = "app" => proc.skb.proto # "ip" /\ Len(Part) = 1
       /\ proc.skb.torn => faults > 0 \/ raced
  /\ proc.pc = "peek" \/ InUse =>
       proc.buf \in DOMAIN list[L] /\ list[L][proc.buf].ip # "null"
  /\ InUse => proc.skb.proto # "ip"
  /\ L = "app" => Singles(proc.copied)

\* A node without a buffer is the trace of a failure.
BufferInv ==
  \A l \in Levels : \A k \in DOMAIN list[l] :
    /\ list[l][k].ip = "null" => list[l][k] = NULL /\ faults > 0
    /\ l = "app" => Singles(list[l][k].data)

ConsuelaInv ==
  /\ consuela.dangling => faults > 0
  /\ consuela.pc = "dead" => faults > 0
  /\ consuela.pc \in {"take", "send"} /\ consuela.it # 0 =>
       consuela.level \in Levels /\ consuela.it \in DOMAIN list[consuela.level]
  /\ consuela.pc = "send" =>
       /\ consuela.level \in Levels /\ consuela.hold # <<>>
       /\ consuela.level = "app" => Singles(consuela.hold)
  /\ consuela.pc # "send" => consuela.hold = <<>>

\* What a hook has read from its buffer still holds if nobody raced with it.
ReadInv ==
  /\ proc.pc = "stamp" => proc.off = DataLen(L, Data)
  /\ proc.pc = "push" => DataLen(L, Data) + Size(L, Part) <= BufferLen[L]
  /\ proc.pc \in {"put", "copy", "total", "reset"} => proc.put = DataLen(L, Data)
  /\ proc.pc \in {"total", "reset"} => proc.copied = Data /\ ~proc.torn

\* The types of all but the lists of nodes.
Typed ==
  /\ todo \subseteq Packets /\ lost \subseteq Packets
  /\ list \in [Levels -> Seq(Buffers)]
  /\ proc \in ProcType /\ consuela \in ConsuelaType
  /\ leaving \in Frames \cup {None}
  /\ module \in {"running", "stopping", "stopped", "freed", "gone"}
  /\ crashed \in {"no", "null", "panic", "freed", "kfree", "unlock"}
  /\ gone \in [Packets -> Nat] /\ raced \in BOOLEAN /\ faults \in 0..MaxFaults

Basis == /\ Typed /\ ProcInv /\ BufferInv /\ ConsuelaInv
         /\ ~raced => ReadInv
         /\ CrashNeedsCause

-----------------------------------------------------------------------------
(* Where the packets are.                                                  *)

Inside(p, l, k) == k \in DOMAIN list[l] /\ p \in PacketsIn(list[l][k].data)
Carried(p) == proc # Idle /\ p \in PacketsIn(proc.skb.parts)
Collected(p) == p \in PacketsIn(consuela.hold)

Buffered(p) == \E l \in Levels : \E k \in DOMAIN list[l] : Inside(p, l, k)
OneBuffer(p) ==
  \A l, m \in Levels : \A k \in DOMAIN list[l] : \A j \in DOMAIN list[m] :
    Inside(p, l, k) /\ Inside(p, m, j) => l = m /\ k = j

\* Nowhere, or in exactly one place.
Absent(p) == /\ gone[p] = 0 /\ p \notin lost /\ ~Carried(p) /\ ~Collected(p)
             /\ ~Buffered(p)
OncePresent(p) ==
  /\ OneBuffer(p)
  /\ \/ gone[p] = 1 /\ p \notin lost /\ ~Carried(p) /\ ~Collected(p) /\ ~Buffered(p)
     \/ gone[p] = 0 /\ p \in lost /\ ~Carried(p) /\ ~Collected(p) /\ ~Buffered(p)
     \/ gone[p] = 0 /\ p \notin lost /\ Carried(p) /\ ~Collected(p) /\ ~Buffered(p)
     \/ gone[p] = 0 /\ p \notin lost /\ ~Carried(p) /\ Collected(p) /\ ~Buffered(p)
     \/ gone[p] = 0 /\ p \notin lost /\ ~Carried(p) /\ ~Collected(p) /\ Buffered(p)

PlaceInv ==
  /\ crashed = "no" => \A p \in Packets : IF p \in todo THEN Absent(p) ELSE OncePresent(p)
  /\ lost # {} => faults > 0 \/ module \in {"freed", "gone"}

-----------------------------------------------------------------------------
(* What the stamps stand for.                                              *)

\* Each packet but the first is stamped relative to the one before it.
Follows(s) == \A j \in 2..Len(s) : s[j].ts = Stamp[s[j - 1].p] - Stamp[s[j].p]
HeadsOf(parts) == [k \in DOMAIN parts |-> parts[k][1]]
Coded(parts) ==
  /\ parts # <<>> => parts[1][1].ts = Stamp[parts[1][1].p]
  /\ Follows(HeadsOf(parts))
  /\ \A k \in DOMAIN parts : Follows(parts[k])

\* The buffer of a hook that has stamped the previous packet waits for its own.
Awaiting(l, k) == InUse /\ proc.pc # "stamp" /\ l = L /\ k = proc.buf
BuffersCoded ==
  \A l \in Levels : \A k \in DOMAIN list[l] :
     Coded(IF Awaiting(l, k) THEN <<Part>> \o list[l][k].data
                             ELSE list[l][k].data)
StampInv ==
  /\ leaving # None => Coded(leaving.parts)
  /\ Coded(consuela.hold)
  /\ Running => Coded(proc.skb.parts)
  /\ BuffersCoded

Core == Basis /\ (~raced => PlaceInv /\ StampInv)

-----------------------------------------------------------------------------
(* The lists.                                                              *)

\* The pointers of a list lead to nodes, those in D, or nowhere.  A list that
\* cannot be extended is the trace of a failure.
Pointers(kl, D) ==
  /\ kl \in LinkType /\ DOMAIN kl.front = D
  /\ kl.first \in D \cup {0} /\ kl.last \in D \cup {0}
  /\ \A k \in D : kl.front[k] \in D \cup {0}

\* So do those of the hook that extends a list, which has set last before first.
ExtendInv ==
  proc.pc \in {"link", "last"} =>
    /\ proc.buf \in DOMAIN list[L] \cup {0} /\ proc.prev \in DOMAIN list[L] \cup {0}
    /\ proc.buf = 0 => faults > 0
    /\ proc.pc = "last" /\ proc.prev = 0 => links[L].last # 0 \/ faults > 0

LinkInv == /\ links \in [Levels -> LinkType]
           /\ \A l \in Levels : /\ Pointers(links[l], DOMAIN list[l])
                                /\ Broken(links[l]) => faults > 0
           /\ ExtendInv

\* The buffers are freed after consuela has ended.
StopInv == module \in {"stopped", "freed", "gone"} => consuela.pc = "ended"

IInv == Core /\ LinkInv /\ StopInv
-----------------------------------------------------------------------------
(* Induction, from the library's fact that < is well founded.              *)

\* A set of numbers that is not empty has a least element.
LEMMA LeastNat ==
  ASSUME NEW T, T \subseteq Nat, T # {}
  PROVE  \E x \in T : \A y \in T : x <= y
  <1>1. \E x \in T : \A y \in T : ~ (<<y, x>> \in OpToRel(<, Nat))
    BY NatLessThanWellFounded, WFMin
  <1>2. \A x, y \in Nat : <<y, x>> \in OpToRel(<, Nat) <=> y < x
    BY DEF OpToRel
  <1>3. \E x \in T : \A y \in T : ~(y < x)
    BY <1>1, <1>2, Zenon
  <1> QED BY <1>3

\* A set with 0 and the successor of each of its numbers has all of them.
LEMMA SetInduction ==
  ASSUME NEW S, 0 \in S, \A n \in Nat : n \in S => n + 1 \in S
  PROVE  Nat \subseteq S
  <1> SUFFICES ASSUME NEW T, T = Nat \ S, T # {} PROVE FALSE
    OBVIOUS
  <1>1. PICK x \in T : \A y \in T : x <= y
    BY LeastNat
  <1>2. x # 0 /\ x - 1 \in Nat /\ x - 1 \notin T
    BY <1>1
  <1> QED BY <1>1, <1>2

-----------------------------------------------------------------------------
(* Parts.                                                                  *)

\* The packets of a part, the first of which is always there.
LEMMA FirstOf ==
  ASSUME NEW part \in NonEmpty
  PROVE  /\ part \in Seq(Stamped) /\ Len(part) \in Nat \ {0}
         /\ DOMAIN part = 1..Len(part) /\ 1 \in DOMAIN part
         /\ \A j \in DOMAIN part : part[j].p \in Packets /\ part[j].ts \in Int
         /\ part[1].p \in Packets /\ part[1].ts \in Int
  <1>1. part \in Seq(Stamped) /\ part # <<>>
    BY DEF NonEmpty
  <1>2. PICK n \in Nat \ {0} : n = Len(part) /\ DOMAIN part = 1..n
    BY <1>1
  <1>3. \A j \in 1..n : part[j] \in Stamped
    BY <1>1, <1>2
  <1>4. \A j \in 1..n : part[j].p \in Packets /\ part[j].ts \in Int
    BY <1>3 DEF Stamped
  <1> QED BY <1>1, <1>2, <1>4

\* The parts of a sequence.
LEMMA PartOf ==
  ASSUME NEW parts \in Parts
  PROVE  /\ Len(parts) \in Nat /\ DOMAIN parts = 1..Len(parts)
         /\ \A k \in DOMAIN parts : parts[k] \in NonEmpty
         /\ parts # <<>> => 1 \in DOMAIN parts /\ Len(parts) # 0
  BY DEF Parts

\* A packet is in the frame when some part has it.
LEMMA InParts ==
  ASSUME NEW parts, NEW p
  PROVE  p \in PacketsIn(parts) <=>
           \E k \in DOMAIN parts : \E j \in DOMAIN parts[k] : parts[k][j].p = p
  BY DEF PacketsIn, Range

-----------------------------------------------------------------------------
(* The length of a buffer.                                                 *)

\* A part takes at least one byte.
LEMMA SizeType ==
  ASSUME NEW l, NEW part \in NonEmpty
  PROVE  Size(l, part) \in Nat /\ Size(l, part) > 0
  <1>1. HDR \in Nat
    BY AggregationAssumption
  <1>2. Len(part) \in Nat /\ Len(part) > 0
    BY DEF NonEmpty
  <1> QED BY <1>1, <1>2 DEF Size

\* A solution of the recursion of Distance for the last m parts.
Measures(l, data, n, m, d) ==
  /\ d \in [(n + 1) - m .. n + 1 -> Nat]
  /\ \A k \in (n + 1) - m .. n + 1 :
       d[k] = IF k = n + 1 THEN 0 ELSE d[k + 1] + Size(l, data[k])

\* The recursion of Distance has a solution.
LEMMA MeasuresExist ==
  ASSUME NEW l, NEW data \in Parts, NEW n \in Nat, n = Len(data)
  PROVE  \E d : Measures(l, data, n, n, d)
  <1> DEFINE S == {m \in Nat : m <= n => \E d : Measures(l, data, n, m, d)}
  <1>1. 0 \in S
    <2> DEFINE d == [k \in (n + 1) - 0 .. n + 1 |-> 0]
    <2>1. Measures(l, data, n, 0, d)
      BY DEF Measures
    <2> QED BY <2>1
  <1>2. ASSUME NEW m \in Nat, m \in S PROVE m + 1 \in S
    <2> SUFFICES ASSUME m + 1 <= n
                 PROVE  \E d : Measures(l, data, n, m + 1, d)
      OBVIOUS
    <2>1. PICK d : Measures(l, data, n, m, d)
      BY <1>2
    <2>2. PICK i \in 1..n : i = n - m
      OBVIOUS
    <2>3. PICK z \in Nat : z = Size(l, data[i])
      <3>1. data[i] \in NonEmpty
        BY DEF Parts
      <3> QED BY <3>1, SizeType
    <2>4. d \in [i + 1 .. n + 1 -> Nat]
      BY <2>1, <2>2 DEF Measures
    <2> DEFINE e == [k \in i .. n + 1 |-> IF k = i THEN d[i + 1] + z ELSE d[k]]
    <2>5. e \in [i .. n + 1 -> Nat]
      BY <2>4
    <2>6. ASSUME NEW k \in i .. n + 1
          PROVE  e[k] = IF k = n + 1 THEN 0 ELSE e[k + 1] + Size(l, data[k])
      <3>1. CASE k = i
        BY <3>1, <2>3
      <3>2. CASE k # i
        <4>1. k \in (n + 1) - m .. n + 1
          BY <3>2, <2>2
        <4>2. d[k] = IF k = n + 1 THEN 0 ELSE d[k + 1] + Size(l, data[k])
          BY <4>1, <2>1 DEF Measures
        <4> QED BY <4>2, <3>2
      <3> QED BY <3>1, <3>2
    <2>7. (n + 1) - (m + 1) = i
      BY <2>2
    <2>8. Measures(l, data, n, m + 1, e)
      <3> HIDE DEF e
      <3> QED BY <2>5, <2>6, <2>7 DEF Measures
    <2> QED BY <2>8
  <1>3. Nat \subseteq S
    <2> HIDE DEF S
    <2> QED BY <1>1, <1>2, SetInduction
  <1> QED BY <1>3

\* What Distance computes.
LEMMA DistanceIs ==
  ASSUME NEW l, NEW data \in Parts, NEW n \in Nat, n = Len(data)
  PROVE  Measures(l, data, n, n, Distance(l, data))
  <1> DEFINE Good(d) == d = [k \in 1 .. n + 1 |->
                               IF k = n + 1 THEN 0 ELSE d[k + 1] + Size(l, data[k])]
  <1>1. PICK d : d = CHOOSE f : Good(f)
    OBVIOUS
  <1>2. Distance(l, data) = d
    BY <1>1 DEF Distance
  <1>3. PICK f : Measures(l, data, n, n, f)
    BY MeasuresExist
  <1>4. f \in [1 .. n + 1 -> Nat] /\ Good(f)
    BY <1>3 DEF Measures
  <1>5. Good(d)
    <2> HIDE DEF Good
    <2> QED BY <1>1, <1>4
  <1>a. d = [k \in 1 .. n + 1 |-> d[k]]
    BY <1>5
  <1>6. \A k \in 1 .. n + 1 :
             d[k] = IF k = n + 1 THEN 0 ELSE d[k + 1] + Size(l, data[k])
    BY <1>5
  <1>7. ASSUME NEW k \in 1 .. n + 1 PROVE d[k] = f[k]
    <2> DEFINE S == {m \in Nat : m <= n => d[(n + 1) - m] = f[(n + 1) - m]}
    <2> HIDE DEF Good
    <2>0. f[n + 1] = 0 /\ \A j \in 1..n : f[j] = f[j + 1] + Size(l, data[j])
      BY <1>3 DEF Measures
    <2>1. 0 \in S
      BY <1>6, <2>0
    <2>2. ASSUME NEW m \in Nat, m \in S PROVE m + 1 \in S
      <3> SUFFICES ASSUME m + 1 <= n PROVE d[(n + 1) - (m + 1)] = f[(n + 1) - (m + 1)]
        OBVIOUS
      <3>0. n - m \in 1..n /\ (n - m) + 1 = (n + 1) - m
        OBVIOUS
      <3>1. PICK j \in 1..n : j = n - m /\ j = (n + 1) - (m + 1) /\ j + 1 = (n + 1) - m
        BY <3>0
      <3>2. d[j + 1] = f[j + 1]
        BY <2>2, <3>1
      <3>3. d[j] = d[j + 1] + Size(l, data[j])
        BY <1>6, <3>1
      <3> QED BY <3>1, <3>2, <3>3, <2>0
    <2>3. Nat \subseteq S
      <3> HIDE DEF S
      <3> QED BY <2>1, <2>2, SetInduction
    <2>4. PICK m \in Nat : m = (n + 1) - k /\ m <= n /\ (n + 1) - m = k
      OBVIOUS
    <2> QED BY <2>3, <2>4
  <1>8. d = f
    <2> HIDE DEF Good
    <2> QED BY <1>4, <1>a, <1>7
  <1> QED BY <1>2, <1>3, <1>8

\* buffer_data_len is a number, and only the first part starts at that distance.
LEMMA LengthIs ==
  ASSUME NEW l, NEW data \in Parts
  PROVE  /\ DataLen(l, data) \in Nat
         /\ DataLen(l, <<>>) = 0
         /\ data # <<>> => DataLen(l, data) # 0
         /\ \A k \in DOMAIN data : k # 1 => Distance(l, data)[k] # DataLen(l, data)
  <1>1. PICK n \in Nat : n = Len(data) /\ DOMAIN data = 1..n /\ (data # <<>> => n # 0)
    BY DEF Parts
  <1>2. PICK d \in [1 .. n + 1 -> Nat] :
          /\ d = Distance(l, data) /\ d[n + 1] = 0
          /\ \A k \in 1..n : d[k] = d[k + 1] + Size(l, data[k])
    <2>1. Measures(l, data, n, n, Distance(l, data))
      BY <1>1, DistanceIs
    <2>2. (n + 1) - n = 1
      OBVIOUS
    <2>3. Distance(l, data) \in [1 .. n + 1 -> Nat]
      BY <2>1, <2>2 DEF Measures
    <2>4. PICK d \in [1 .. n + 1 -> Nat] : d = Distance(l, data)
      BY <2>3
    <2>5. d[n + 1] = 0 /\ \A k \in 1..n : d[k] = d[k + 1] + Size(l, data[k])
      BY <2>1, <2>2, <2>4 DEF Measures
    <2> QED BY <2>4, <2>5
  <1>3. \A k \in 1..n : Size(l, data[k]) \in Nat /\ Size(l, data[k]) > 0
    <2>1. \A k \in 1..n : data[k] \in NonEmpty
      BY <1>1 DEF Parts
    <2> QED BY <2>1, SizeType
  <1> DEFINE S == {m \in Nat : m # 0 /\ m <= n => d[m + 1] < d[1]}
  <1>4. 0 \in S
    OBVIOUS
  <1>5. ASSUME NEW m \in Nat, m \in S PROVE m + 1 \in S
    <2> SUFFICES ASSUME m + 1 <= n PROVE d[(m + 1) + 1] < d[1]
      OBVIOUS
    <2>1. PICK k \in 1..n : k = m + 1
      OBVIOUS
    <2>2. PICK z \in Nat : z = Size(l, data[k]) /\ z > 0
      BY <1>3
    <2>3. d[k] = d[k + 1] + z /\ d[k] \in Nat /\ d[k + 1] \in Nat
      BY <1>2, <2>2
    <2>4. d[k] <= d[1]
      BY <1>5, <2>1, <1>2
    <2>5. d[1] \in Nat
      BY <1>2
    <2>6. d[k + 1] < d[1]
      BY <2>2, <2>3, <2>4, <2>5
    <2> QED BY <2>1, <2>6
  <1>6. Nat \subseteq S
    <2> HIDE DEF S
    <2> QED BY <1>4, <1>5, SetInduction
  <1>7. \A k \in 2 .. n + 1 : d[k] < d[1]
    <2> SUFFICES ASSUME NEW k \in 2 .. n + 1 PROVE d[k] < d[1]
      OBVIOUS
    <2>1. PICK m \in Nat : m + 1 = k /\ m # 0 /\ m <= n
      <3>1. k - 1 \in Nat /\ (k - 1) + 1 = k /\ k - 1 # 0 /\ k - 1 <= n
        OBVIOUS
      <3> QED BY <3>1
    <2> QED BY <2>1, <1>6
  <1>8. DataLen(l, data) = d[1] /\ d[1] \in Nat
    BY <1>2 DEF DataLen
  <1>9. DataLen(l, <<>>) = 0
    <2>1. <<>> \in Parts
      BY DEF Parts
    <2>2. Measures(l, <<>>, 0, 0, Distance(l, <<>>))
      BY <2>1, DistanceIs
    <2> QED BY <2>2 DEF Measures, DataLen
  <1>10. data # <<>> => d[1] # 0
    <2> SUFFICES ASSUME n # 0 PROVE d[1] # 0
      BY <1>1
    <2>1. n + 1 \in 2 .. n + 1
      OBVIOUS
    <2> QED BY <2>1, <1>2, <1>7
  <1>11. ASSUME NEW k \in DOMAIN data, k # 1 PROVE d[k] # d[1]
    <2>1. k \in 2 .. n + 1 /\ d[k] \in Nat /\ d[1] \in Nat
      BY <1>1, <1>2, <1>11
    <2> QED BY <2>1, <1>7
  <1> QED BY <1>2, <1>8, <1>9, <1>10, <1>11

\* The part with its first packet stamped relative to t.
Related(part, t) == [part EXCEPT ![1].ts = t - @]

\* Only the stamp of the first packet changes.
LEMMA RelatedIs ==
  ASSUME NEW part \in NonEmpty, NEW t \in Int
  PROVE  /\ Related(part, t) \in NonEmpty /\ Len(Related(part, t)) = Len(part)
         /\ DOMAIN Related(part, t) = DOMAIN part
         /\ \A j \in DOMAIN part : Related(part, t)[j].p = part[j].p
         /\ \A j \in DOMAIN part : j # 1 => Related(part, t)[j] = part[j]
         /\ Related(part, t)[1].ts = t - part[1].ts
  <1>1. PICK n \in Nat \ {0} : n = Len(part) /\ DOMAIN part = 1..n
    BY DEF NonEmpty
  <1>2. \A j \in 1..n : part[j] \in Stamped
    BY <1>1 DEF NonEmpty
  <1>3. PICK e : e = [part[1] EXCEPT !.ts = t - part[1].ts]
    OBVIOUS
  <1>4. e \in Stamped /\ e.p = part[1].p /\ e.ts = t - part[1].ts
    <2>1. part[1] \in [p : Packets, ts : Int]
      BY <1>2 DEF Stamped
    <2>2. part[1].ts \in Int
      BY <2>1
    <2>3. t - part[1].ts \in Int
      BY <2>2
    <2> QED BY <2>1, <2>3, <1>3 DEF Stamped
  <1>5. PICK r : r = Related(part, t)
    OBVIOUS
  <1>6. r = [part EXCEPT ![1] = e]
    BY <1>3, <1>5 DEF Related
  <1>7. r \in Seq(Stamped) /\ Len(r) = n /\ DOMAIN r = 1..n /\ r[1] = e
        /\ \A j \in 1..n : j # 1 => r[j] = part[j]
    <2>1. part \in Seq(Stamped)
      BY DEF NonEmpty
    <2> QED BY <2>1, <1>1, <1>2, <1>4, <1>6
  <1>8. r \in NonEmpty
    BY <1>7 DEF NonEmpty
  <1> QED BY <1>1, <1>4, <1>5, <1>7, <1>8

\* Relative leaves packets, lengths and types as they are.
LEMMA RelativeType ==
  ASSUME NEW l, NEW data \in Parts, NEW off, NEW new \in NonEmpty
  PROVE  /\ Relative(l, data, off, new) \in Parts
         /\ Len(Relative(l, data, off, new)) = Len(data)
         /\ DOMAIN Relative(l, data, off, new) = DOMAIN data
         /\ \A k \in DOMAIN data :
              \/ Relative(l, data, off, new)[k] = data[k]
              \/ Relative(l, data, off, new)[k] = Related(data[k], new[1].ts)
  <1>1. PICK n \in Nat : n = Len(data) /\ DOMAIN data = 1..n
    BY DEF Parts
  <1>2. new[1].ts \in Int
    BY FirstOf
  <1>3. \A k \in 1..n : data[k] \in NonEmpty /\ Related(data[k], new[1].ts) \in NonEmpty
    <2>1. \A k \in 1..n : data[k] \in NonEmpty
      BY <1>1 DEF Parts
    <2> QED BY <2>1, <1>2, RelatedIs
  <1>4. PICK r : r = Relative(l, data, off, new)
    OBVIOUS
  <1>5. r = [k \in 1..n |-> IF off # 0 /\ Distance(l, data)[k] = off
                            THEN Related(data[k], new[1].ts) ELSE data[k]]
    BY <1>1, <1>4 DEF Relative, Related
  <1>6. r \in [1..n -> NonEmpty]
    BY <1>3, <1>5
  <1>7. r \in Seq(NonEmpty) /\ Len(r) = n
    BY <1>6
  <1> QED BY <1>1, <1>4, <1>5, <1>7 DEF Parts

-----------------------------------------------------------------------------
(* Frames.                                                                 *)

\* A frame holds packets only.
LEMMA PacketsType ==
  ASSUME NEW parts \in Parts
  PROVE  PacketsIn(parts) \subseteq Packets
  <1> SUFFICES ASSUME NEW p \in PacketsIn(parts) PROVE p \in Packets
    OBVIOUS
  <1>1. PICK k \in DOMAIN parts : \E j \in DOMAIN parts[k] : parts[k][j].p = p
    BY InParts
  <1>2. parts[k] \in NonEmpty
    BY PartOf
  <1> QED BY <1>1, <1>2, FirstOf

\* The empty buffer.
LEMMA NoParts == <<>> \in Parts /\ PacketsIn(<<>>) = {} /\ Singles(<<>>)
  <1>1. PacketsIn(<<>>) = {}
    <2>1. \A p : p \notin PacketsIn(<<>>)
      BY InParts
    <2> QED BY <2>1
  <1> QED BY <1>1 DEF Parts, Singles

\* The part that a push puts in front of the others.
LEMMA Pushed ==
  ASSUME NEW part \in NonEmpty, NEW data \in Parts
  PROVE  /\ <<part>> \o data \in Parts /\ <<part>> \o data # <<>>
         /\ Len(<<part>> \o data) = Len(data) + 1
         /\ DOMAIN (<<part>> \o data) = 1 .. Len(data) + 1
         /\ (<<part>> \o data)[1] = part
         /\ \A k \in DOMAIN data : (<<part>> \o data)[k + 1] = data[k]
         /\ PacketsIn(<<part>> \o data) = PacketsIn(<<part>>) \cup PacketsIn(data)
  <1>0. PICK n \in Nat : n = Len(data) /\ DOMAIN data = 1..n
    BY PartOf
  <1>1. PICK x : x = <<part>> \o data
    OBVIOUS
  <1>2. x \in Seq(NonEmpty) /\ Len(x) = n + 1 /\ DOMAIN x = 1 .. n + 1 /\ x[1] = part
        /\ \A k \in 1..n : x[k + 1] = data[k]
    <2>1. data \in Seq(NonEmpty)
      BY DEF Parts
    <2> QED BY <2>1, <1>0, <1>1
  <1>3. PacketsIn(x) = PacketsIn(<<part>>) \cup PacketsIn(data)
    <2> SUFFICES ASSUME NEW p
                 PROVE  p \in PacketsIn(x) <=>
                          p \in PacketsIn(<<part>>) \/ p \in PacketsIn(data)
      OBVIOUS
    <2>1. p \in PacketsIn(<<part>>) <=> \E j \in DOMAIN part : part[j].p = p
      <3>1. p \in PacketsIn(<<part>>) <=> \E k \in DOMAIN <<part>> :
               \E j \in DOMAIN <<part>>[k] : <<part>>[k][j].p = p
        BY InParts
      <3> QED BY <3>1
    <2>2. p \in PacketsIn(data) <=>
            \E k \in 1..n : \E j \in DOMAIN data[k] : data[k][j].p = p
      BY InParts, <1>0
    <2>3. p \in PacketsIn(x) <=>
            \E k \in 1..(n + 1) : \E j \in DOMAIN x[k] : x[k][j].p = p
      BY InParts, <1>2
    <2>4. ASSUME NEW k \in 1..(n + 1), NEW j \in DOMAIN x[k], x[k][j].p = p
          PROVE  p \in PacketsIn(<<part>>) \/ p \in PacketsIn(data)
      <3>1. CASE k = 1
        BY <3>1, <2>4, <2>1, <1>2
      <3>2. CASE k # 1
        <4>1. PICK i \in 1..n : k = i + 1
          <5>1. k - 1 \in 1..n /\ k = (k - 1) + 1
            BY <3>2
          <5> QED BY <5>1
        <4>2. x[k] = data[i]
          BY <4>1, <1>2
        <4> QED BY <4>2, <2>2, <2>4
      <3> QED BY <3>1, <3>2
    <2>5. ASSUME NEW j \in DOMAIN part, part[j].p = p PROVE p \in PacketsIn(x)
      BY <2>3, <2>5, <1>2
    <2>6. ASSUME NEW k \in 1..n, NEW j \in DOMAIN data[k], data[k][j].p = p
          PROVE  p \in PacketsIn(x)
      <3>1. x[k + 1] = data[k] /\ k + 1 \in 1..(n + 1)
        BY <1>2
      <3> QED BY <3>1, <2>3, <2>6
    <2> QED BY <2>1, <2>2, <2>3, <2>4, <2>5, <2>6
  <1> QED BY <1>0, <1>1, <1>2, <1>3 DEF Parts

\* The first part and the others.
LEMMA Peeled ==
  ASSUME NEW data \in Parts, data # <<>>
  PROVE  /\ Head(data) \in NonEmpty /\ Tail(data) \in Parts
         /\ data = <<Head(data)>> \o Tail(data)
         /\ Singles(data) => Len(Head(data)) = 1 /\ Singles(Tail(data))
  <1>1. data \in Seq(NonEmpty)
    BY DEF Parts
  <1>2. Head(data) \in NonEmpty /\ Tail(data) \in Seq(NonEmpty)
        /\ data = <<Head(data)>> \o Tail(data)
    BY <1>1
  <1>3. PICK n \in Nat : n + 1 = Len(data) /\ DOMAIN data = 1..(n + 1)
    <2>1. Len(data) - 1 \in Nat /\ (Len(data) - 1) + 1 = Len(data)
          /\ DOMAIN data = 1..Len(data)
      BY <1>1
    <2> QED BY <2>1
  <1>4. Head(data) = data[1] /\ DOMAIN Tail(data) = 1..n
        /\ \A k \in 1..n : Tail(data)[k] = data[k + 1]
    BY <1>1, <1>3
  <1>5. ASSUME Singles(data) PROVE Len(Head(data)) = 1 /\ Singles(Tail(data))
    BY <1>3, <1>4, <1>5 DEF Singles
  <1> QED BY <1>2, <1>5 DEF Parts

\* The packets of a buffer stay the same when one is stamped.
LEMMA RelativePackets ==
  ASSUME NEW l, NEW data \in Parts, NEW off, NEW new \in NonEmpty
  PROVE  /\ PacketsIn(Relative(l, data, off, new)) = PacketsIn(data)
         /\ Singles(data) => Singles(Relative(l, data, off, new))
  <1>1. PICK r \in Parts : r = Relative(l, data, off, new)
    BY RelativeType
  <1>2. new[1].ts \in Int
    BY FirstOf
  <1>3. ASSUME NEW k \in DOMAIN data
        PROVE  /\ DOMAIN r[k] = DOMAIN data[k] /\ Len(r[k]) = Len(data[k])
               /\ \A j \in DOMAIN data[k] : r[k][j].p = data[k][j].p
    <2>1. data[k] \in NonEmpty
      BY PartOf
    <2>2. r[k] = data[k] \/ r[k] = Related(data[k], new[1].ts)
      BY RelativeType, <1>1
    <2> QED BY <2>1, <2>2, <1>2, RelatedIs
  <1>4. DOMAIN r = DOMAIN data
    BY RelativeType, <1>1
  <1>5. \A p : p \in PacketsIn(r) <=> p \in PacketsIn(data)
    <2> SUFFICES ASSUME NEW p PROVE p \in PacketsIn(r) <=> p \in PacketsIn(data)
      OBVIOUS
    <2>1. p \in PacketsIn(r) <=>
            \E k \in DOMAIN r : \E j \in DOMAIN r[k] : r[k][j].p = p
      BY InParts
    <2>2. p \in PacketsIn(data) <=>
            \E k \in DOMAIN data : \E j \in DOMAIN data[k] : data[k][j].p = p
      BY InParts
    <2> QED BY <2>1, <2>2, <1>3, <1>4
  <1>6. Singles(data) => Singles(r)
    BY <1>3, <1>4 DEF Singles
  <1>7. PacketsIn(r) = PacketsIn(data)
    BY <1>5
  <1> QED BY <1>1, <1>6, <1>7

\* A packet as it comes from an application or a neighbour.
LEMMA PlainIs ==
  ASSUME NEW p \in Packets
  PROVE  /\ Plain(p) \in NonEmpty /\ Len(Plain(p)) = 1 /\ Plain(p)[1].p = p
         /\ Plain(p)[1].ts = Stamp[p] /\ Stamp[p] \in Int
         /\ <<Plain(p)>> \in Parts /\ PacketsIn(<<Plain(p)>>) = {p}
         /\ Frame("udp", <<Plain(p)>>) \in Frames
  <1>1. Stamp[p] \in Int
    BY AggregationAssumption
  <1>2. PICK e : e = [p |-> p, ts |-> Stamp[p]]
    OBVIOUS
  <1>3. e \in Stamped /\ e.p = p /\ e.ts = Stamp[p]
    BY <1>1, <1>2 DEF Stamped
  <1>4. Plain(p) = <<e>>
    BY <1>2 DEF Plain
  <1>5. Plain(p) \in NonEmpty /\ Len(Plain(p)) = 1 /\ Plain(p)[1] = e
    BY <1>3, <1>4 DEF NonEmpty
  <1>6. <<Plain(p)>> \in Parts /\ <<Plain(p)>> # <<>>
    BY <1>5 DEF Parts
  <1>7. PacketsIn(<<Plain(p)>>) = {p}
    <2> SUFFICES ASSUME NEW q PROVE q \in PacketsIn(<<Plain(p)>>) <=> q = p
      OBVIOUS
    <2>1. PICK x : x = Plain(p)
      OBVIOUS
    <2>2. q \in PacketsIn(<<x>>) <=>
            \E k \in DOMAIN <<x>> : \E j \in DOMAIN <<x>>[k] : <<x>>[k][j].p = q
      BY InParts
    <2>3. DOMAIN x = 1..1 /\ x[1].p = p
      BY <2>1, <1>3, <1>4
    <2>4. q \in PacketsIn(<<x>>) <=> \E j \in DOMAIN x : x[j].p = q
      BY <2>2
    <2> QED BY <2>1, <2>3, <2>4
  <1>8. Frame("udp", <<Plain(p)>>) \in Frames
    BY <1>6 DEF Frame, Frames
  <1> QED BY <1>1, <1>3, <1>5, <1>6, <1>7, <1>8

\* The packets of a buffer of single packets, one after the other.
LEMMA HeadsType ==
  ASSUME NEW data \in Parts
  PROVE  /\ HeadsOf(data) \in Seq(Stamped) /\ Len(HeadsOf(data)) = Len(data)
         /\ \A k \in DOMAIN data : HeadsOf(data)[k] = data[k][1]
  <1>1. PICK n \in Nat : n = Len(data) /\ DOMAIN data = 1..n
    BY PartOf
  <1>2. \A k \in 1..n : data[k][1] \in Stamped
    <2> SUFFICES ASSUME NEW k \in 1..n PROVE data[k][1] \in Stamped
      OBVIOUS
    <2>1. data[k] \in NonEmpty
      BY PartOf, <1>1
    <2>2. data[k] \in Seq(Stamped) /\ 1 \in DOMAIN data[k]
      BY <2>1, FirstOf
    <2> QED BY <2>2
  <1>3. HeadsOf(data) = [k \in 1..n |-> data[k][1]]
    BY <1>1 DEF HeadsOf
  <1>4. HeadsOf(data) \in [1..n -> Stamped]
    BY <1>2, <1>3
  <1> QED BY <1>1, <1>3, <1>4

\* Flattening such a buffer.
LEMMA FlattenSingles ==
  ASSUME NEW data \in Parts, Singles(data)
  PROVE  FlattenSeq(data) = HeadsOf(data)
  <1>1. PICK n \in Nat : n = Len(data) /\ DOMAIN data = 1..n
    BY PartOf
  <1>2. CASE n = 0
    <2>1. data = <<>>
      BY <1>1, <1>2 DEF Parts
    <2>2. FlattenSeq(data) = data
      BY <1>1, <1>2 DEF FlattenSeq
    <2>3. HeadsOf(data) = <<>>
      BY <2>1 DEF HeadsOf
    <2> QED BY <2>1, <2>2, <2>3
  <1>3. CASE n # 0
    <2> DEFINE Good(f) == f = [i \in 1..n |-> IF i = 1 THEN data[i]
                                              ELSE f[i - 1] \o data[i]]
    <2>1. PICK f : f = CHOOSE g : Good(g)
      OBVIOUS
    <2>2. FlattenSeq(data) = f[n]
      BY <1>1, <1>3, <2>1 DEF FlattenSeq
    <2>3. \A k \in 1..n : data[k] = <<data[k][1]>> /\ data[k][1] \in Stamped
      <3> SUFFICES ASSUME NEW k \in 1..n
                   PROVE  data[k] = <<data[k][1]>> /\ data[k][1] \in Stamped
        OBVIOUS
      <3>1. PICK x \in Seq(Stamped) : x = data[k] /\ Len(x) = 1
        <4>1. data[k] \in NonEmpty /\ Len(data[k]) = 1
          BY PartOf, <1>1 DEF Singles
        <4> QED BY <4>1, FirstOf
      <3>2. x = <<x[1]>> /\ x[1] \in Stamped
        BY <3>1
      <3> QED BY <3>1, <3>2
    <2> DEFINE Upto(i) == [k \in 1..i |-> data[k][1]]
    <2>4. \A i \in 1..n : Upto(i) \in Seq(Stamped) /\ Len(Upto(i)) = i
      <3> SUFFICES ASSUME NEW i \in 1..n
                   PROVE  Upto(i) \in Seq(Stamped) /\ Len(Upto(i)) = i
        OBVIOUS
      <3>1. Upto(i) \in [1..i -> Stamped]
        BY <2>3
      <3> HIDE DEF Upto
      <3> QED BY <3>1
    <2>5. ASSUME NEW i \in 1..n
          PROVE  Upto(i) = IF i = 1 THEN data[i] ELSE Upto(i - 1) \o data[i]
      <3>1. CASE i = 1
        <4>1. Upto(1) = <<data[1][1]>>
          OBVIOUS
        <4> HIDE DEF Upto
        <4> QED BY <3>1, <4>1, <2>3
      <3>2. CASE i # 1
        <4>1. PICK j \in 1..n : j + 1 = i /\ j = i - 1
          <5>1. i - 1 \in 1..n /\ (i - 1) + 1 = i
            BY <3>2
          <5> QED BY <5>1
        <4>2. PICK a \in Seq(Stamped) :
                a = Upto(j) /\ Len(a) = j /\ \A k \in 1..j : a[k] = data[k][1]
          <5>1. \A k \in 1..j : Upto(j)[k] = data[k][1]
            OBVIOUS
          <5> HIDE DEF Upto
          <5> QED BY <5>1, <2>4
        <4>3. PICK b \in Seq(Stamped) :
                b = Upto(i) /\ Len(b) = i /\ \A k \in 1..i : b[k] = data[k][1]
          <5>1. \A k \in 1..i : Upto(i)[k] = data[k][1]
            OBVIOUS
          <5> HIDE DEF Upto
          <5> QED BY <5>1, <2>4
        <4> HIDE DEF Upto
        <4>4. PICK e \in Stamped : e = data[i][1] /\ data[i] = <<e>>
          BY <2>3
        <4>5. PICK c \in Seq(Stamped) : c = a \o <<e>>
          <5>1. a \o <<e>> \in Seq(Stamped)
            OBVIOUS
          <5> QED BY <5>1
        <4>6. Len(c) = j + 1 /\ c[j + 1] = e /\ \A k \in 1..j : c[k] = a[k]
          BY <4>2, <4>5
        <4>7. Len(c) = Len(b) /\ \A k \in 1..Len(b) : c[k] = b[k]
          BY <4>1, <4>2, <4>3, <4>4, <4>6
        <4>8. c = b
          BY <4>7
        <4> QED BY <3>2, <4>1, <4>2, <4>3, <4>4, <4>5, <4>8
      <3> QED BY <3>1, <3>2
    <2> HIDE DEF Upto
    <2>a. PICK g : g = [i \in 1..n |-> Upto(i)]
      OBVIOUS
    <2>b. ASSUME NEW i \in 1..n
          PROVE  g[i] = IF i = 1 THEN data[i] ELSE g[i - 1] \o data[i]
      <3>1. Upto(i) = IF i = 1 THEN data[i] ELSE Upto(i - 1) \o data[i]
        BY <2>5
      <3>2. i # 1 => i - 1 \in 1..n
        OBVIOUS
      <3>3. g[i] = Upto(i) /\ (i # 1 => g[i - 1] = Upto(i - 1))
        BY <2>a, <3>2
      <3> QED BY <3>1, <3>3
    <2>6. Good(g)
      BY <2>a, <2>b
    <2>7. Good(f)
      <3> HIDE DEF Good
      <3> QED BY <2>1, <2>6
    <2>8. \A i \in 1..n : f[i] = IF i = 1 THEN data[i] ELSE f[i - 1] \o data[i]
      BY <2>7
    <2> HIDE DEF Good
    <2> DEFINE S == {m \in Nat : m # 0 /\ m <= n => f[m] = g[m]}
    <2>9. 0 \in S
      OBVIOUS
    <2>10. ASSUME NEW m \in Nat, m \in S PROVE m + 1 \in S
      <3> SUFFICES ASSUME m + 1 <= n PROVE f[m + 1] = g[m + 1]
        OBVIOUS
      <3>1. PICK i \in 1..n : i = m + 1 /\ i - 1 = m
        OBVIOUS
      <3>2. /\ f[i] = IF i = 1 THEN data[i] ELSE f[i - 1] \o data[i]
            /\ g[i] = IF i = 1 THEN data[i] ELSE g[i - 1] \o data[i]
        BY <2>b, <2>8
      <3>3. i # 1 => f[i - 1] = g[i - 1]
        BY <2>10, <3>1
      <3> QED BY <3>1, <3>2, <3>3
    <2>11. Nat \subseteq S
      <3> HIDE DEF S
      <3> QED BY <2>9, <2>10, SetInduction
    <2>12. f[n] = g[n]
      BY <2>11, <1>3
    <2>13. g[n] = HeadsOf(data)
      BY <1>1, <1>3, <2>a DEF Upto, HeadsOf
    <2> QED BY <2>2, <2>12, <2>13
  <1> QED BY <1>2, <1>3

\* The part that holds the packets of a buffer of single packets.
LEMMA Flattened ==
  ASSUME NEW d \in Parts, d # <<>>, Singles(d)
  PROVE  /\ HeadsOf(d) \in NonEmpty /\ <<HeadsOf(d)>> \in Parts
         /\ PacketsIn(<<HeadsOf(d)>>) = PacketsIn(d)
         /\ Coded(d) => Coded(<<HeadsOf(d)>>)
  <1>1. PICK n \in Nat \ {0} : n = Len(d) /\ DOMAIN d = 1..n
    BY PartOf
  <1>2. PICK h : h = HeadsOf(d)
    OBVIOUS
  <1>3. h \in Seq(Stamped) /\ Len(h) = n /\ DOMAIN h = 1..n
        /\ \A k \in 1..n : h[k] = d[k][1]
    BY HeadsType, <1>1, <1>2
  <1>4. h \in NonEmpty
    BY <1>3 DEF NonEmpty
  <1>5. \A k \in 1..n : DOMAIN d[k] = 1..1
    <2> SUFFICES ASSUME NEW k \in 1..n PROVE DOMAIN d[k] = 1..1
      OBVIOUS
    <2>1. d[k] \in NonEmpty /\ Len(d[k]) = 1
      BY <1>1, PartOf DEF Singles
    <2> QED BY <2>1, FirstOf
  <1>6. PacketsIn(<<h>>) = PacketsIn(d)
    <2> SUFFICES ASSUME NEW p PROVE p \in PacketsIn(<<h>>) <=> p \in PacketsIn(d)
      OBVIOUS
    <2>1. p \in PacketsIn(<<h>>) <=>
            \E k \in DOMAIN <<h>> : \E j \in DOMAIN <<h>>[k] : <<h>>[k][j].p = p
      BY InParts
    <2>2. p \in PacketsIn(<<h>>) <=> \E j \in 1..n : h[j].p = p
      BY <2>1, <1>3
    <2>3. p \in PacketsIn(d) <=> \E k \in 1..n : \E j \in DOMAIN d[k] : d[k][j].p = p
      BY InParts, <1>1
    <2>4. p \in PacketsIn(d) <=> \E k \in 1..n : d[k][1].p = p
      BY <2>3, <1>5
    <2> QED BY <2>2, <2>4, <1>3
  <1>7. ASSUME Coded(d) PROVE Coded(<<h>>)
    <2>1. Follows(h)
      BY <1>2, <1>7 DEF Coded
    <2>2. h[1].ts = Stamp[h[1].p]
      BY <1>1, <1>3, <1>7 DEF Coded
    <2>3. Follows(HeadsOf(<<h>>))
      <3>1. Len(HeadsOf(<<h>>)) = 1
        BY DEF HeadsOf
      <3> QED BY <3>1 DEF Follows
    <2> QED BY <2>1, <2>2, <2>3 DEF Coded
  <1>8. <<h>> \in Parts
    BY <1>4 DEF Parts
  <1> QED BY <1>2, <1>4, <1>6, <1>7, <1>8

\* One element in front of a sequence.
LEMMA InFront ==
  ASSUME NEW R, NEW x \in Seq(R), NEW y \in Seq(R), Len(x) = 1
  PROVE  /\ x \o y \in Seq(R) /\ Len(x \o y) = Len(y) + 1 /\ (x \o y)[1] = x[1]
         /\ \A k \in 1..Len(y) : (x \o y)[k + 1] = y[k]
  <1>1. PICK e \in R : x = <<e>> /\ x[1] = e
    <2>1. x[1] \in R /\ x = <<x[1]>>
      OBVIOUS
    <2> QED BY <2>1
  <1>2. PICK n \in Nat : n = Len(y) /\ DOMAIN y = 1..n
    OBVIOUS
  <1>3. PICK c : c = <<e>> \o y
    OBVIOUS
  <1>4. c \in Seq(R) /\ Len(c) = n + 1 /\ c[1] = e
        /\ \A k \in 1..n : c[k + 1] = y[k]
    BY <1>2, <1>3
  <1> QED BY <1>1, <1>2, <1>3, <1>4

\* The new packet in front of the flattened ones.
LEMMA FlattenedPush ==
  ASSUME NEW part \in NonEmpty, Len(part) = 1, NEW data \in Parts, Singles(data)
  PROVE  /\ Singles(<<part>> \o data)
         /\ part \o FlattenSeq(data) = HeadsOf(<<part>> \o data)
  <1>1. PICK n \in Nat : n = Len(data) /\ DOMAIN data = 1..n
    BY PartOf
  <1>2. PICK d \in Parts : /\ d = <<part>> \o data /\ Len(d) = n + 1
                           /\ DOMAIN d = 1..(n + 1) /\ d[1] = part
                           /\ \A k \in 1..n : d[k + 1] = data[k]
    <2>1. PICK d : d = <<part>> \o data
      OBVIOUS
    <2>2. d \in Parts /\ Len(d) = Len(data) + 1 /\ DOMAIN d = 1 .. Len(data) + 1
          /\ d[1] = part /\ \A k \in DOMAIN data : d[k + 1] = data[k]
      BY <2>1, Pushed
    <2> QED BY <1>1, <2>1, <2>2
  <1>3. Singles(d)
    <2> SUFFICES ASSUME NEW k \in 1..(n + 1) PROVE Len(d[k]) = 1
      BY <1>2 DEF Singles
    <2>1. CASE k = 1
      BY <2>1, <1>2
    <2>2. CASE k # 1
      <3>1. k - 1 \in 1..n /\ (k - 1) + 1 = k
        BY <2>2
      <3>2. d[k] = data[k - 1]
        BY <3>1, <1>2
      <3> QED BY <3>1, <3>2, <1>1 DEF Singles
    <2> QED BY <2>1, <2>2
  <1>4. PICK h \in Seq(Stamped) : h = HeadsOf(data) /\ Len(h) = n
                                  /\ \A k \in 1..n : h[k] = data[k][1]
    BY <1>1, HeadsType
  <1>5. FlattenSeq(data) = h
    BY <1>4, FlattenSingles
  <1>6. PICK g \in Seq(Stamped) : g = HeadsOf(d) /\ Len(g) = n + 1
                                  /\ \A k \in 1..(n + 1) : g[k] = d[k][1]
    BY <1>2, HeadsType, ZenonT(30)
  <1>7. PICK c \in Seq(Stamped) : c = part \o h /\ Len(c) = n + 1 /\ c[1] = part[1]
                                  /\ \A k \in 1..n : c[k + 1] = h[k]
    <2>1. part \in Seq(Stamped)
      BY FirstOf
    <2>2. PICK c : c = part \o h
      OBVIOUS
    <2>3. c \in Seq(Stamped) /\ Len(c) = Len(h) + 1 /\ c[1] = part[1]
          /\ \A k \in 1..Len(h) : c[k + 1] = h[k]
      BY <2>1, <2>2, InFront
    <2> QED BY <2>2, <2>3, <1>4
  <1>8. ASSUME NEW k \in 1..(n + 1) PROVE c[k] = g[k]
    <2>1. CASE k = 1
      BY <2>1, <1>2, <1>6, <1>7
    <2>2. CASE k # 1
      <3>1. PICK i \in 1..n : i + 1 = k
        <4>1. k - 1 \in 1..n /\ (k - 1) + 1 = k
          BY <2>2
        <4> QED BY <4>1
      <3>2. c[i + 1] = data[i][1]
        BY <1>4, <1>7
      <3>3. g[i + 1] = data[i][1]
        BY <1>2, <1>6
      <3> QED BY <3>1, <3>2, <3>3
    <2> QED BY <2>1, <2>2
  <1>9. c = g
    <2>1. Len(c) = Len(g) /\ \A k \in 1..Len(c) : c[k] = g[k]
      BY <1>6, <1>7, <1>8
    <2> QED BY <2>1
  <1> QED BY <1>2, <1>3, <1>5, <1>6, <1>7, <1>9

\* What may be put into one frame.
Joins(l, part, data) ==
  /\ part \in NonEmpty /\ data \in Parts
  /\ l \in {"app", "ip"}
  /\ l = "app" => Len(part) = 1 /\ Singles(data)

\* What a flush sends.
LEMMA AggregateIs ==
  ASSUME NEW l, NEW part, NEW data, Joins(l, part, data)
  PROVE  /\ Aggregate(l, part, data) \in Frames
         /\ Aggregate(l, part, data).proto = l /\ ~Aggregate(l, part, data).torn
         /\ PacketsIn(Aggregate(l, part, data).parts)
              = PacketsIn(<<part>>) \cup PacketsIn(data)
         /\ l = "app" => Len(Aggregate(l, part, data).parts) = 1
         /\ Coded(<<part>> \o data) => Coded(Aggregate(l, part, data).parts)
  <1>1. PICK d \in Parts : /\ d = <<part>> \o data /\ d # <<>>
                           /\ PacketsIn(d) = PacketsIn(<<part>>) \cup PacketsIn(data)
    BY Pushed DEF Joins
  <1>2. CASE l = "ip"
    <2>1. Aggregate(l, part, data) = [proto |-> "ip", parts |-> d, torn |-> FALSE]
      BY <1>1, <1>2 DEF Aggregate, Frame
    <2>2. [proto |-> "ip", parts |-> d, torn |-> FALSE] \in Frames
      BY <1>1 DEF Frames
    <2>3. PICK fr : fr = Aggregate(l, part, data)
      OBVIOUS
    <2>4. fr \in Frames /\ fr.proto = l /\ ~fr.torn /\ fr.parts = d /\ l # "app"
      BY <2>1, <2>2, <2>3, <1>2
    <2> QED BY <1>1, <2>3, <2>4
  <1>3. CASE l = "app"
    <2>1. Singles(d) /\ part \o FlattenSeq(data) = HeadsOf(d)
      BY <1>1, <1>3, FlattenedPush DEF Joins
    <2>2. PICK h \in NonEmpty :
            /\ h = HeadsOf(d) /\ <<h>> \in Parts /\ PacketsIn(<<h>>) = PacketsIn(d)
            /\ Coded(d) => Coded(<<h>>)
      BY <1>1, <2>1, Flattened
    <2>3. Aggregate(l, part, data) = [proto |-> "app", parts |-> <<h>>, torn |-> FALSE]
      BY <1>3, <2>1, <2>2 DEF Aggregate, Frame
    <2>4. [proto |-> "app", parts |-> <<h>>, torn |-> FALSE] \in Frames
      BY <2>2 DEF Frames
    <2>5. PICK fr : fr = Aggregate(l, part, data)
      OBVIOUS
    <2>6. fr \in Frames /\ fr.proto = l /\ ~fr.torn /\ fr.parts = <<h>>
      BY <2>3, <2>4, <2>5, <1>3
    <2>7. Len(<<h>>) = 1
      OBVIOUS
    <2> QED BY <1>1, <2>2, <2>5, <2>6, <2>7
  <1> QED BY <1>2, <1>3 DEF Joins

-----------------------------------------------------------------------------
(* Stamps.                                                                 *)

\* A buffer that was reset, and a packet that has not been aggregated.
LEMMA CodedNone == Coded(<<>>)
  <1>1. HeadsOf(<<>>) = <<>>
    BY DEF HeadsOf
  <1> QED BY <1>1 DEF Coded, Follows

\* A part alone: its first packet has its own stamp.
LEMMA CodedOne ==
  ASSUME NEW part \in NonEmpty
  PROVE  Coded(<<part>>) <=> part[1].ts = Stamp[part[1].p] /\ Follows(part)
  <1>1. Len(HeadsOf(<<part>>)) = 1
    BY DEF HeadsOf
  <1>2. Follows(HeadsOf(<<part>>))
    BY <1>1 DEF Follows
  <1> QED BY <1>2 DEF Coded

\* A packet that has not been aggregated.
LEMMA CodedPlain ==
  ASSUME NEW p \in Packets
  PROVE  Coded(<<Plain(p)>>)
  <1>1. Follows(Plain(p))
    <2>1. PICK x : x = Plain(p)
      OBVIOUS
    <2>2. Len(x) = 1
      BY <2>1, PlainIs
    <2>3. 2..Len(x) = {}
      BY <2>2
    <2> QED BY <2>1, <2>3 DEF Follows
  <1> QED BY <1>1, CodedOne, PlainIs

\* Relative changes the first part.
LEMMA RelativeFirst ==
  ASSUME NEW l, NEW data \in Parts, NEW new \in NonEmpty
  PROVE  LET r == Relative(l, data, DataLen(l, data), new)
         IN  /\ data # <<>> => r[1] = Related(data[1], new[1].ts)
             /\ \A k \in DOMAIN data : k # 1 => r[k] = data[k]
  <1>1. PICK off \in Nat :
          /\ off = DataLen(l, data) /\ (data # <<>> => off # 0)
          /\ \A k \in DOMAIN data : k # 1 => Distance(l, data)[k] # off
    BY LengthIs
  <1>2. PICK r : r = Relative(l, data, off, new)
    OBVIOUS
  <1>3. r = [k \in DOMAIN data |-> IF off # 0 /\ Distance(l, data)[k] = off
                                   THEN Related(data[k], new[1].ts) ELSE data[k]]
    BY <1>2 DEF Relative, Related
  <1>4. data # <<>> => 1 \in DOMAIN data
    BY PartOf
  <1>5. Distance(l, data)[1] = off
    BY <1>1 DEF DataLen
  <1>6. data # <<>> => r[1] = Related(data[1], new[1].ts)
    BY <1>1, <1>3, <1>4, <1>5
  <1>7. \A k \in DOMAIN data : k # 1 => r[k] = data[k]
    BY <1>1, <1>3
  <1> QED BY <1>1, <1>2, <1>6, <1>7

\* The previous packet is stamped relative to the new one, and the new one is
\* put in front of it: the frame decodes if the buffer did.
LEMMA CodedPush ==
  ASSUME NEW l, NEW data \in Parts, Coded(data), NEW new \in NonEmpty,
         Coded(<<new>>)
  PROVE  Coded(<<new>> \o Relative(l, data, DataLen(l, data), new))
  <1>0. PICK n \in Nat : n = Len(data) /\ DOMAIN data = 1..n
    BY PartOf
  <1>1. PICK r : r = Relative(l, data, DataLen(l, data), new)
    OBVIOUS
  <1>2. r \in Parts /\ Len(r) = n /\ DOMAIN r = 1..n
    BY <1>0, <1>1, RelativeType
  <1>3. (n # 0 => r[1] = Related(data[1], new[1].ts))
        /\ \A k \in 1..n : k # 1 => r[k] = data[k]
    <2>1. n # 0 => data # <<>>
      BY <1>0
    <2> QED BY <2>1, <1>0, <1>1, RelativeFirst
  <1>4. PICK x : /\ x = <<new>> \o r /\ x # <<>> /\ Len(x) = n + 1
                 /\ DOMAIN x = 1..(n + 1) /\ x[1] = new
                 /\ \A k \in 1..n : x[k + 1] = r[k]
    <2>1. PICK x : x = <<new>> \o r
      OBVIOUS
    <2>2. x # <<>> /\ Len(x) = Len(r) + 1 /\ DOMAIN x = 1 .. Len(r) + 1
          /\ x[1] = new /\ \A k \in DOMAIN r : x[k + 1] = r[k]
      BY <2>1, <1>2, Pushed
    <2> QED BY <1>2, <2>1, <2>2
  <1>5. new[1].ts = Stamp[new[1].p] /\ Follows(new) /\ new[1].p \in Packets
    BY CodedOne, FirstOf
  <1>6. n # 0 => data[1] \in NonEmpty /\ data[1][1].ts = Stamp[data[1][1].p]
                 /\ data[1][1].p \in Packets /\ Stamp[data[1][1].p] \in Int
    <2> SUFFICES ASSUME n # 0
                 PROVE  data[1] \in NonEmpty /\ data[1][1].ts = Stamp[data[1][1].p]
                        /\ data[1][1].p \in Packets /\ Stamp[data[1][1].p] \in Int
      OBVIOUS
    <2>1. data[1] \in NonEmpty
      BY <1>0, PartOf
    <2>2. data[1][1].p \in Packets
      BY <2>1, FirstOf
    <2>3. data # <<>>
      BY <1>0
    <2> QED BY <2>1, <2>2, <2>3, AggregationAssumption DEF Coded
  <1>7. ASSUME NEW k \in 1..n
        PROVE  /\ Follows(r[k]) /\ r[k][1].p = data[k][1].p
               /\ r[k][1].ts = IF k = 1 THEN Stamp[new[1].p] - Stamp[data[1][1].p]
                               ELSE data[k][1].ts
    <2>1. CASE k = 1
      <3>1. PICK d \in NonEmpty : d = data[1] /\ d[1].ts = Stamp[d[1].p] /\ Follows(d)
        BY <1>0, <1>6 DEF Coded
      <3>2. PICK t \in Int : t = new[1].ts /\ t = Stamp[new[1].p]
        BY <1>5, FirstOf
      <3>3. PICK e : /\ e = Related(d, t) /\ Len(e) = Len(d) /\ 1 \in DOMAIN d
                     /\ DOMAIN d = 1..Len(d) /\ Len(d) \in Nat
                     /\ \A j \in DOMAIN d : e[j].p = d[j].p
                     /\ \A j \in DOMAIN d : j # 1 => e[j] = d[j]
                     /\ e[1].ts = t - d[1].ts
        BY RelatedIs, FirstOf
      <3>4. r[1] = e
        BY <1>3, <3>1, <3>2, <3>3
      <3>5. Follows(e)
        <4> SUFFICES ASSUME NEW j \in 2..Len(d)
                     PROVE  e[j].ts = Stamp[e[j - 1].p] - Stamp[e[j].p]
          BY <3>3 DEF Follows
        <4>1. j \in DOMAIN d /\ j - 1 \in DOMAIN d /\ j # 1
          BY <3>3
        <4>2. d[j].ts = Stamp[d[j - 1].p] - Stamp[d[j].p]
          BY <3>1 DEF Follows
        <4> QED BY <4>1, <4>2, <3>3
      <3> QED BY <2>1, <3>1, <3>2, <3>3, <3>4, <3>5
    <2>2. CASE k # 1
      BY <2>2, <1>0, <1>3 DEF Coded
    <2> QED BY <2>1, <2>2
  <1>8. \A k \in 1..(n + 1) : Follows(x[k])
    <2> SUFFICES ASSUME NEW k \in 1..(n + 1) PROVE Follows(x[k])
      OBVIOUS
    <2>1. CASE k = 1
      BY <2>1, <1>4, <1>5
    <2>2. CASE k # 1
      <3>1. k - 1 \in 1..n /\ (k - 1) + 1 = k
        BY <2>2
      <3> QED BY <3>1, <1>4, <1>7, SMTT(60)
    <2> QED BY <2>1, <2>2
  <1>9. \A k \in 2..n : data[k][1].ts = Stamp[data[k - 1][1].p] - Stamp[data[k][1].p]
    <2> SUFFICES ASSUME NEW k \in 2..n
           PROVE data[k][1].ts = Stamp[data[k - 1][1].p] - Stamp[data[k][1].p]
      OBVIOUS
    <2>1. PICK h : h = HeadsOf(data) /\ Len(h) = n /\ \A j \in 1..n : h[j] = data[j][1]
      BY <1>0, HeadsType
    <2>2. Follows(h)
      BY <2>1 DEF Coded
    <2>3. h[k].ts = Stamp[h[k - 1].p] - Stamp[h[k].p]
      BY <2>1, <2>2 DEF Follows
    <2>4. k \in 1..n /\ k - 1 \in 1..n
      OBVIOUS
    <2> QED BY <2>1, <2>3, <2>4
  <1>10. Follows(HeadsOf(x))
    <2>0. x \in Parts
      BY <1>2, <1>4, Pushed
    <2>1. PICK h : h = HeadsOf(x) /\ Len(h) = n + 1
                   /\ \A j \in 1..(n + 1) : h[j] = x[j][1]
      <3>1. PICK h : h = HeadsOf(x)
        OBVIOUS
      <3>2. Len(h) = Len(x) /\ \A j \in DOMAIN x : h[j] = x[j][1]
        BY <3>1, <2>0, HeadsType
      <3>3. Len(h) = n + 1 /\ \A j \in 1..(n + 1) : h[j] = x[j][1]
        BY <1>4, <3>2
      <3> QED BY <3>1, <3>3, Zenon
    <2> SUFFICES ASSUME NEW j \in 2..(n + 1)
                 PROVE  h[j].ts = Stamp[h[j - 1].p] - Stamp[h[j].p]
      BY <2>1 DEF Follows
    <2>2. PICK k \in 1..n : j = k + 1 /\ j - 1 = k
      <3>1. j - 1 \in 1..n /\ (j - 1) + 1 = j
        OBVIOUS
      <3> QED BY <3>1
    <2>3. h[j] = r[k][1] /\ j - 1 \in 1..(n + 1)
      <3>1. j \in 1..(n + 1) /\ j - 1 \in 1..(n + 1)
        OBVIOUS
      <3>2. h[j] = x[j][1]
        BY <3>1, <2>1
      <3>3. x[j] = r[k]
        BY <2>2, <1>4
      <3> QED BY <3>1, <3>2, <3>3
    <2>4. CASE k = 1
      <3>1. h[j - 1] = new[1]
        BY <2>1, <2>2, <2>4, <1>4
      <3> QED BY <2>3, <2>4, <3>1, <1>7
    <2>5. CASE k # 1
      <3>1. PICK i \in 1..n : i + 1 = k /\ i = k - 1
        <4>1. k - 1 \in 1..n /\ (k - 1) + 1 = k
          BY <2>5
        <4> QED BY <4>1
      <3>2. h[j - 1] = r[i][1]
        BY <2>1, <2>2, <3>1, <1>4, SMTT(30)
      <3>3. r[i][1].p = data[i][1].p /\ r[k][1].p = data[k][1].p
            /\ r[k][1].ts = data[k][1].ts
        BY <1>7, <2>5
      <3>4. data[k][1].ts = Stamp[data[i][1].p] - Stamp[data[k][1].p]
        BY <1>9, <2>5, <3>1
      <3> QED BY <2>3, <3>2, <3>3, <3>4
    <2> QED BY <2>4, <2>5
  <1>11. Coded(x)
    BY <1>4, <1>5, <1>8, <1>10 DEF Coded
  <1> QED BY <1>1, <1>4, <1>11

\* A decoder that adds up gets back the stamps a sequence stands for.
LEMMA ChainedIs ==
  ASSUME NEW s \in Seq(Stamped), Follows(s), NEW t, s # <<>> => t = Stamp[s[1].p]
  PROVE  \A k \in DOMAIN s : Chained(t, s)[k] = Stamp[s[k].p]
  <1>0. PICK n \in Nat : n = Len(s) /\ DOMAIN s = 1..n /\ (n # 0 => s # <<>>)
    OBVIOUS
  <1> DEFINE Good(g) == g = [k \in 1..n |-> IF k = 1 THEN t ELSE g[k - 1] - s[k].ts]
  <1>1. PICK d : d = CHOOSE g : Good(g)
    OBVIOUS
  <1>2. Chained(t, s) = d
    BY <1>0, <1>1 DEF Chained
  <1>3. PICK f : f = [k \in 1..n |-> Stamp[s[k].p]]
    OBVIOUS
  <1>4. \A k \in 1..n : f[k] = Stamp[s[k].p] /\ f[k] \in Int
    <2>1. \A k \in 1..n : s[k] \in Stamped
      BY <1>0
    <2>2. \A k \in 1..n : s[k].p \in Packets
      BY <2>1 DEF Stamped
    <2> QED BY <2>2, <1>3, AggregationAssumption
  <1>5. \A k \in 2..n : f[k] = f[k - 1] - s[k].ts
    <2> SUFFICES ASSUME NEW k \in 2..n PROVE f[k] = f[k - 1] - s[k].ts
      OBVIOUS
    <2>1. s[k].ts = Stamp[s[k - 1].p] - Stamp[s[k].p]
      BY <1>0 DEF Follows
    <2>2. k \in 1..n /\ k - 1 \in 1..n
      OBVIOUS
    <2>3. PICK a \in Int, b \in Int : a = f[k] /\ b = f[k - 1] /\ s[k].ts = b - a
      BY <1>4, <2>1, <2>2
    <2> QED BY <2>3
  <1>6. n # 0 => f[1] = t
    BY <1>0, <1>4
  <1>7. Good(f)
    <2>1. \A k \in 1..n : f[k] = IF k = 1 THEN t ELSE f[k - 1] - s[k].ts
      BY <1>5, <1>6
    <2>2. f = [k \in 1..n |-> f[k]]
      BY <1>3
    <2> QED BY <2>1, <2>2
  <1>8. Good(d)
    <2> HIDE DEF Good
    <2> QED BY <1>1, <1>7
  <1>9. \A k \in 1..n : d[k] = IF k = 1 THEN t ELSE d[k - 1] - s[k].ts
    BY <1>8
  <1> HIDE DEF Good
  <1>10. ASSUME NEW T, T = {k \in 1..n : d[k] # f[k]}, T # {} PROVE FALSE
    <2>1. PICK x \in T : \A y \in T : x <= y
      <3>1. T \subseteq Nat
        BY <1>10
      <3> QED BY <3>1, <1>10, LeastNat
    <2>2. x \in 1..n /\ d[x] # f[x]
      BY <1>10
    <2>3. x # 1
      BY <2>2, <1>6, <1>9
    <2>4. x - 1 \in 1..n /\ x - 1 < x /\ x \in 2..n
      BY <2>2, <2>3
    <2>5. x - 1 \notin T
      BY <2>1, <2>4
    <2>6. d[x - 1] = f[x - 1]
      BY <2>4, <2>5, <1>10
    <2>7. d[x] = d[x - 1] - s[x].ts /\ f[x] = f[x - 1] - s[x].ts
      BY <1>5, <1>9, <2>2, <2>3, <2>4
    <2> QED BY <2>2, <2>6, <2>7
  <1>11. \A k \in 1..n : d[k] = f[k]
    BY <1>10, ZenonT(30)
  <1> QED BY <1>0, <1>2, <1>4, <1>11

\* The stamps of a frame that is coded can be recovered.
LEMMA CodedRecoverable ==
  ASSUME NEW frame \in Frames, Coded(frame.parts)
  PROVE  Recoverable(frame)
  <1>1. PICK parts \in Parts : parts = frame.parts /\ parts # <<>>
    BY DEF Frames
  <1>2. PICK n \in Nat : n = Len(parts) /\ DOMAIN parts = 1..n /\ n # 0
    BY <1>1, PartOf
  <1>3. PICK h : h = HeadsOf(parts)
    OBVIOUS
  <1>4. h \in Seq(Stamped) /\ h # <<>> /\ DOMAIN h = 1..n
        /\ \A k \in 1..n : h[k] = parts[k][1]
    BY <1>2, <1>3, HeadsType
  <1>5. PICK first : first = Chained(h[1].ts, h)
    OBVIOUS
  <1>6. Follows(h) /\ h[1].ts = Stamp[h[1].p] /\ \A k \in 1..n : Follows(parts[k])
    BY <1>1, <1>2, <1>3, <1>4 DEF Coded
  <1>7. \A k \in 1..n : first[k] = Stamp[parts[k][1].p]
    <2>1. \A k \in DOMAIN h : first[k] = Stamp[h[k].p]
      BY <1>4, <1>5, <1>6, ChainedIs
    <2> QED BY <2>1, <1>4
  <1>8. Decoded(frame) = [k \in 1..n |-> Chained(first[k], parts[k])]
    BY <1>1, <1>2, <1>3, <1>5 DEF Decoded, HeadsOf
  <1>9. ASSUME NEW k \in 1..n, NEW j \in DOMAIN parts[k]
        PROVE  Chained(first[k], parts[k])[j] = Stamp[parts[k][j].p]
    <2>1. parts[k] \in NonEmpty
      BY <1>2, PartOf
    <2>2. parts[k] \in Seq(Stamped)
      BY <2>1, FirstOf
    <2> QED BY <2>2, <1>6, <1>7, ChainedIs
  <1> QED BY <1>1, <1>2, <1>8, <1>9 DEF Recoverable

-----------------------------------------------------------------------------
(* The steps.                                                              *)

\* No hook runs.
LEMMA IdleIs == Idle \in ProcType /\ Idle.pc = "idle" /\ Singles(Idle.copied)
  <1>1. <<>> \in Parts /\ Singles(<<>>)
    BY NoParts
  <1> QED BY <1>1 DEF Idle, ProcType, None

\* A hook starts with a frame.
LEMMA EnterIs ==
  ASSUME NEW l \in {"app", "ip"}, NEW skb \in Frames
  PROVE  /\ Enter(l, skb) \in ProcType /\ Enter(l, skb) # Idle
         /\ Enter(l, skb).pc = "lookup" /\ Enter(l, skb).level = l
         /\ Enter(l, skb).skb = skb /\ Singles(Enter(l, skb).copied)
  <1>1. <<>> \in Parts /\ Singles(<<>>)
    BY NoParts
  <1> QED BY <1>1 DEF Enter, Idle, ProcType, None

\* A frame has packets, and a first part.
LEMMA FrameIs ==
  ASSUME NEW skb \in Frames
  PROVE  /\ skb.parts \in Parts /\ skb.parts # <<>> /\ skb.parts[1] \in NonEmpty
         /\ skb.proto \in {"udp", "app", "ip"} /\ skb.torn \in BOOLEAN
         /\ skb # None
         /\ PacketsIn(skb.parts) \subseteq Packets
         /\ DstOf(skb) \in {Dst[p] : p \in Packets} /\ DstOf(skb) # "null"
         /\ Len(skb.parts) = 1 => skb.parts = << skb.parts[1] >>
  <1>1. skb.parts \in Parts /\ skb.parts # <<>>
        /\ skb.proto \in {"udp", "app", "ip"} /\ skb.torn \in BOOLEAN
    BY DEF Frames
  <1>2. skb.parts[1] \in NonEmpty
    BY <1>1, PartOf
  <1>3. skb # None
    BY DEF Frames, None
  <1>4. PacketsIn(skb.parts) \subseteq Packets
    BY <1>1, PacketsType
  <1>5. skb.parts[1][1].p \in Packets
    BY <1>2, FirstOf
  <1>6. DstOf(skb) \in {Dst[p] : p \in Packets} /\ DstOf(skb) # "null"
    BY <1>5, AggregationAssumption DEF DstOf
  <1>7. ASSUME Len(skb.parts) = 1 PROVE skb.parts = << skb.parts[1] >>
    <2>1. skb.parts \in Seq(NonEmpty)
      BY <1>1 DEF Parts
    <2> QED BY <2>1, <1>7
  <1> QED BY <1>1, <1>2, <1>3, <1>4, <1>6, <1>7

\* A buffer of level l, found or new, now is b; nothing else changed.
Wrote(new, l, k, b) ==
  /\ new \in [Levels -> Seq(Buffers)] /\ l \in Levels /\ b \in Buffers
  /\ \A m \in Levels : m # l => new[m] = list[m]
  /\ DOMAIN new[l] = DOMAIN list[l] \cup {k} /\ new[l][k] = b
  /\ \A j \in DOMAIN list[l] : j # k => new[l][j] = list[l][j]
  /\ k \in DOMAIN list[l] => list[l][k].ip = b.ip

\* Buffers and their data.
LEMMA BufferIs ==
  ASSUME Typed, NEW l \in Levels
  PROVE  /\ list[l] \in Seq(Buffers) /\ Len(list[l]) \in Nat
         /\ DOMAIN list[l] = 1..Len(list[l])
         /\ \A k \in DOMAIN list[l] :
              list[l][k] \in Buffers /\ list[l][k].data \in Parts
  <1>1. list[l] \in Seq(Buffers)
    BY DEF Typed
  <1>2. \A k \in DOMAIN list[l] : list[l][k] \in Buffers
    BY <1>1
  <1>3. \A k \in DOMAIN list[l] : list[l][k].data \in Parts
    BY <1>2 DEF Buffers
  <1> QED BY <1>1, <1>2, <1>3

\* New data for a buffer.
LEMMA StoreIs ==
  ASSUME Typed, NEW l \in Levels, NEW k \in DOMAIN list[l], NEW d \in Parts,
         NEW new, new = [list EXCEPT ![l][k].data = d]
  PROVE  Wrote(new, l, k, [ip |-> list[l][k].ip, data |-> d])
  <1>1. PICK b : b = [ip |-> list[l][k].ip, data |-> d]
    OBVIOUS
  <1>2. list[l][k] \in Buffers
    BY BufferIs
  <1>3. b \in Buffers /\ b.ip = list[l][k].ip /\ b = [list[l][k] EXCEPT !.data = d]
    BY <1>1, <1>2 DEF Buffers
  <1>4. PICK s : s = [list[l] EXCEPT ![k] = b]
    OBVIOUS
  <1>5. s \in Seq(Buffers) /\ DOMAIN s = DOMAIN list[l] /\ s[k] = b
        /\ \A j \in DOMAIN list[l] : j # k => s[j] = list[l][j]
    BY <1>3, <1>4, BufferIs
  <1>6. new = [list EXCEPT ![l] = s]
    BY <1>3, <1>4
  <1>7. list \in [Levels -> Seq(Buffers)]
    BY DEF Typed
  <1>8. new \in [Levels -> Seq(Buffers)] /\ new[l] = s
        /\ \A m \in Levels : m # l => new[m] = list[m]
    BY <1>5, <1>6, <1>7
  <1>9. DOMAIN list[l] = DOMAIN list[l] \cup {k}
    OBVIOUS
  <1> QED BY <1>1, <1>3, <1>5, <1>8, <1>9 DEF Wrote

\* A new node of the list.
LEMMA AppendIs ==
  ASSUME Typed, NEW l \in Levels, NEW b \in Buffers,
         NEW new, new = [list EXCEPT ![l] = Append(@, b)]
  PROVE  /\ Wrote(new, l, Len(list[l]) + 1, b)
         /\ Len(list[l]) + 1 \notin DOMAIN list[l] /\ Len(list[l]) + 1 \in Nat
  <1>1. PICK n \in Nat : n = Len(list[l]) /\ DOMAIN list[l] = 1..n
    BY BufferIs
  <1>2. PICK s : s = Append(list[l], b)
    OBVIOUS
  <1>3. s \in Seq(Buffers) /\ DOMAIN s = 1..(n + 1) /\ s[n + 1] = b
        /\ \A j \in 1..n : s[j] = list[l][j]
    <2>1. list[l] \in Seq(Buffers)
      BY BufferIs
    <2> QED BY <1>1, <1>2, <2>1
  <1>4. list \in [Levels -> Seq(Buffers)]
    BY DEF Typed
  <1>5. new \in [Levels -> Seq(Buffers)] /\ new[l] = s
        /\ \A m \in Levels : m # l => new[m] = list[m]
    BY <1>2, <1>3, <1>4
  <1>6. 1..(n + 1) = 1..n \cup {n + 1} /\ n + 1 \notin 1..n
    OBVIOUS
  <1> QED BY <1>1, <1>3, <1>5, <1>6 DEF Wrote

\* The list node for a destination, and the one without a buffer.
LEMMA NodeIs ==
  /\ NULL \in Buffers /\ NULL.data = <<>> /\ NULL.ip = "null"
  /\ \A ip \in {Dst[p] : p \in Packets} : \A d \in Parts :
       /\ [ip |-> ip, data |-> d] \in Buffers
       /\ [ip |-> ip, data |-> d].ip # "null" /\ [ip |-> ip, data |-> d].data = d
  BY NoParts, AggregationAssumption DEF NULL, Buffers

\* No buffer is taken away.
Kept ==
  \A m \in Levels : \A j \in DOMAIN list[m] :
    j \in DOMAIN list'[m] /\ list'[m][j].ip = list[m][j].ip

\* The failures and races so far are not forgotten.
Later == /\ faults \in Nat /\ faults' \in Nat /\ faults <= faults'
         /\ raced \in BOOLEAN /\ raced' \in BOOLEAN /\ (raced => raced')

\* What a buffer of level l may be.
GoodNode(l, b) ==
  /\ b.ip = "null" => b = NULL /\ faults' > 0
  /\ l = "app" => Singles(b.data)

\* Writing one buffer keeps the others.
LEMMA WroteKeeps ==
  ASSUME BufferInv, Later, NEW l, NEW k, NEW b, Wrote(list', l, k, b), GoodNode(l, b)
  PROVE  Kept /\ BufferInv'
  <1>1. Kept
    <2> SUFFICES ASSUME NEW m \in Levels, NEW j \in DOMAIN list[m]
                 PROVE  j \in DOMAIN list'[m] /\ list'[m][j].ip = list[m][j].ip
      BY DEF Kept
    <2>1. CASE m # l
      BY <2>1 DEF Wrote
    <2>2. CASE m = l /\ j # k
      BY <2>2 DEF Wrote
    <2>3. CASE m = l /\ j = k
      BY <2>3 DEF Wrote
    <2> QED BY <2>1, <2>2, <2>3
  <1>2. BufferInv'
    <2> SUFFICES ASSUME NEW m \in Levels, NEW j \in DOMAIN list'[m]
                 PROVE  /\ list'[m][j].ip = "null" => list'[m][j] = NULL /\ faults' > 0
                        /\ m = "app" => Singles(list'[m][j].data)
      BY DEF BufferInv
    <2>1. CASE m = l /\ j = k
      BY <2>1 DEF Wrote, GoodNode
    <2>2. CASE ~(m = l /\ j = k)
      <3>1. j \in DOMAIN list[m] /\ list'[m][j] = list[m][j]
        BY <2>2 DEF Wrote
      <3> QED BY <3>1 DEF BufferInv, Later
    <2> QED BY <2>1, <2>2
  <1> QED BY <1>1, <1>2

\* Nothing is written.
LEMMA ListKept ==
  ASSUME BufferInv, Later, list' = list
  PROVE  Kept /\ BufferInv'
  BY DEF BufferInv, Later, Kept

\* A hook that runs on, or waits, with the frame, level and buffer it had.
LEMMA ProcGoesOn ==
  ASSUME ProcInv, Later, Kept, Running, proc'.pc # "idle",
         proc'.level = L, proc'.skb = proc.skb, proc'.buf = proc.buf,
         proc'.pc = "peek" \/ InUse' => proc.pc = "peek" \/ InUse,
         InUse' => proc.skb.proto # "ip",
         proc'.copied = proc.copied \/ (L = "app" => Singles(proc'.copied))
  PROVE  ProcInv'
  <1>1. L' = L /\ Part' = Part /\ Running'
    BY DEF L, Part, Running
  <1>2. L \in Levels /\ proc.skb \in Frames
        /\ (proc.skb.proto # "ip" => Len(proc.skb.parts) = 1)
        /\ (L = "app" => proc.skb.proto # "ip" /\ Len(Part) = 1)
        /\ (proc.skb.torn => faults' > 0 \/ raced')
        /\ (L = "app" => Singles(proc'.copied))
    BY DEF ProcInv, Later
  <1>3. ASSUME proc'.pc = "peek" \/ InUse'
        PROVE  proc.buf \in DOMAIN list'[L] /\ list'[L][proc.buf].ip # "null"
    <2>1. proc.buf \in DOMAIN list[L] /\ list[L][proc.buf].ip # "null"
      BY <1>3 DEF ProcInv
    <2> QED BY <2>1, <1>2 DEF Kept
  <1> QED BY <1>1, <1>2, <1>3 DEF ProcInv

\* A hook that stays where it is.
LEMMA ProcWaits ==
  ASSUME ProcInv, Later, Kept, proc' = proc
  PROVE  ProcInv'
  <1>1. CASE Running
    <2>1. Running' /\ (InUse' <=> InUse) /\ proc'.pc = proc.pc
      BY <1>1 DEF Running, InUse
    <2> QED BY <2>1, <1>1, ProcGoesOn DEF ProcInv, Running, L
  <1>2. CASE ~Running
    BY <1>2 DEF ProcInv, Running, InUse, Idle, L
  <1> QED BY <1>1, <1>2

\* A hook that is done.
LEMMA ProcDone ==
  ASSUME proc' = Idle
  PROVE  ProcInv' /\ ~Running' /\ ~InUse' /\ ReadInv' /\ proc' \in ProcType
  <1>1. proc'.pc = "idle" /\ Singles(proc'.copied)
    BY IdleIs
  <1> QED BY <1>1, IdleIs DEF ProcInv, Running, InUse, ReadInv

\* A hook that starts.
LEMMA ProcStarts ==
  ASSUME NEW l \in Levels, NEW skb \in Frames, proc' = Enter(l, skb),
         skb.proto # "ip" => Len(skb.parts) = 1,
         l = "app" => skb.proto # "ip" /\ Len(skb.parts[1]) = 1,
         skb.torn => faults' > 0 \/ raced'
  PROVE  ProcInv' /\ Running' /\ ~InUse' /\ ReadInv' /\ proc' \in ProcType
  <1>1. l \in {"app", "ip"}
    BY AggregationAssumption
  <1>2. proc' \in ProcType /\ proc'.pc = "lookup" /\ proc'.level = l /\ proc'.skb = skb
        /\ Singles(proc'.copied)
    BY <1>1, EnterIs
  <1>3. Running' /\ ~InUse' /\ L' = l /\ Part' = skb.parts[1]
    BY <1>2 DEF Running, InUse, L, Part
  <1> QED BY <1>2, <1>3 DEF ProcInv, ReadInv

\* consuela, while others work.
LEMMA ConsuelaWaits ==
  ASSUME ConsuelaInv, Later, Kept, consuela' = consuela
  PROVE  ConsuelaInv'
  BY DEF ConsuelaInv, Later, Kept

-----------------------------------------------------------------------------
(* What a step does to the packets.                                        *)

\* The packets of S leave the node and those of D are lost.
Moved(S, D) ==
  /\ gone' \in [Packets -> Nat] /\ lost' \subseteq Packets
  /\ \A p \in Packets :
       /\ gone'[p] = gone[p] + (IF p \in S THEN 1 ELSE 0)
       /\ p \in lost' <=> p \in lost \/ p \in D

\* None of them does.
LEMMA StaysIs ==
  ASSUME Typed, Stays
  PROVE  Moved({}, {}) /\ leaving' = None
  BY DEF Typed, Stays, Moved

\* Packets are lost.
LEMMA LosesIs ==
  ASSUME Typed, NEW D, D \subseteq Packets, lost' = lost \cup D, gone' = gone
  PROVE  Moved({}, D)
  BY DEF Typed, Moved

\* Packets leave.
LEMMA LeavesIs ==
  ASSUME Typed, NEW S, NEW D, D \subseteq Packets, lost' = lost \cup D,
         gone' = [p \in Packets |-> gone[p] + (IF p \in S THEN 1 ELSE 0)]
  PROVE  Moved(S, D)
  <1>1. \A p \in Packets : gone[p] \in Nat
    BY DEF Typed
  <1>2. \A p \in Packets : gone[p] + (IF p \in S THEN 1 ELSE 0) \in Nat
    BY <1>1
  <1>3. gone' \in [Packets -> Nat]
    BY <1>2
  <1>4. lost' \subseteq Packets
    BY DEF Typed
  <1> QED BY <1>3, <1>4 DEF Moved

\* A frame leaves, or goes where nobody can read it.
LEMMA OutIs ==
  ASSUME Typed, NEW skb \in Frames, Out(skb)
  PROVE  /\ leaving' \in {skb, None}
         /\ skb.torn => Moved({}, PacketsIn(skb.parts))
         /\ ~skb.torn => Moved(PacketsIn(skb.parts), {})
  <1>1. PICK S : S = PacketsIn(skb.parts)
    OBVIOUS
  <1>2. S \subseteq Packets
    BY <1>1, FrameIs
  <1>3. CASE skb.torn
    <2>1. lost' = lost \cup S /\ gone' = gone /\ leaving' = None
      BY <1>1, <1>3 DEF Out
    <2> QED BY <1>1, <1>2, <1>3, <2>1, LosesIs
  <1>4. CASE ~skb.torn
    <2>1. lost' = lost \cup {} /\ leaving' = skb
          /\ gone' = [p \in Packets |-> gone[p] + (IF p \in S THEN 1 ELSE 0)]
      BY <1>1, <1>4 DEF Out
    <2>2. Moved(S, {})
      BY <2>1, LeavesIs
    <2> QED BY <1>1, <1>4, <2>1, <2>2
  <1> QED BY <1>3, <1>4

\* What a hook may accept.
Whole(skb) ==
  /\ skb \in Frames
  /\ skb.proto # "ip" => Len(skb.parts) = 1
  /\ skb.torn => faults' > 0 \/ raced'

\* A frame with the packets S is handed on; those of D are lost.
Handed(skb, S, D) ==
  /\ ProcInv' /\ ReadInv' /\ proc' \in ProcType /\ ~InUse'
  /\ leaving' \in {skb, None}
  /\ \/ Running' /\ proc'.skb = skb /\ leaving' = None /\ Moved({}, D)
     \/ ~Running' /\ skb.torn /\ Moved({}, S \cup D)
     \/ ~Running' /\ ~skb.torn /\ Moved(S, D)

\* NF_ACCEPT.
LEMMA AcceptIs ==
  ASSUME Typed, NEW skb, Whole(skb), Accept(skb)
  PROVE  Handed(skb, PacketsIn(skb.parts), {})
  <1>0. skb \in Frames
    BY DEF Whole
  <1>1. CASE L = "app" /\ "ip" \in Levels
    <2>1. proc' = Enter("ip", skb) /\ Stays
      BY <1>1 DEF Accept
    <2>2. ProcInv' /\ Running' /\ ~InUse' /\ ReadInv' /\ proc' \in ProcType
      BY <2>1, <1>0, <1>1, ProcStarts DEF Whole
    <2>3. proc'.skb = skb
      BY <2>1, <1>0, EnterIs
    <2>4. Moved({}, {}) /\ leaving' = None
      BY <2>1, StaysIs
    <2> QED BY <2>2, <2>3, <2>4 DEF Handed
  <1>2. CASE ~(L = "app" /\ "ip" \in Levels)
    <2>1. proc' = Idle /\ Out(skb)
      BY <1>2 DEF Accept
    <2>2. ProcInv' /\ ~Running' /\ ~InUse' /\ ReadInv' /\ proc' \in ProcType
      BY <2>1, ProcDone
    <2>3. /\ leaving' \in {skb, None}
          /\ skb.torn => Moved({}, PacketsIn(skb.parts))
          /\ ~skb.torn => Moved(PacketsIn(skb.parts), {})
      BY <2>1, <1>0, OutIs
    <2>4. PacketsIn(skb.parts) \cup {} = PacketsIn(skb.parts)
      OBVIOUS
    <2> QED BY <2>2, <2>3, <2>4 DEF Handed
  <1> QED BY <1>1, <1>2

\* The packets of a buffer that is written.
LEMMA WroteMoves ==
  ASSUME NEW l, NEW k, NEW b, Wrote(list', l, k, b), NEW p
  PROVE  /\ Inside(p, l, k) => Buffered(p)
         /\ p \in PacketsIn(b.data) =>
              /\ Buffered(p)'
              /\ ~Buffered(p) \/ (OneBuffer(p) /\ Inside(p, l, k)) => OneBuffer(p)'
         /\ p \notin PacketsIn(b.data) /\ Inside(p, l, k) /\ OneBuffer(p) =>
              ~Buffered(p)' /\ OneBuffer(p)'
         /\ p \notin PacketsIn(b.data) /\ ~Inside(p, l, k) =>
              /\ Buffered(p)' <=> Buffered(p)
              /\ OneBuffer(p) => OneBuffer(p)'
  <1>1. l \in Levels /\ k \in DOMAIN list'[l] /\ list'[l][k] = b
    BY DEF Wrote
  <1>2. Inside(p, l, k)' <=> p \in PacketsIn(b.data)
    BY <1>1 DEF Inside
  <1>3. ASSUME NEW m \in Levels, NEW j, ~(m = l /\ j = k)
        PROVE  /\ j \in DOMAIN list'[m] <=> j \in DOMAIN list[m]
               /\ Inside(p, m, j)' <=> Inside(p, m, j)
    <2>1. j \in DOMAIN list'[m] <=> j \in DOMAIN list[m]
      BY <1>3 DEF Wrote
    <2>2. j \in DOMAIN list[m] => list'[m][j] = list[m][j]
      BY <1>3 DEF Wrote
    <2> QED BY <2>1, <2>2 DEF Inside
  <1>4. Inside(p, l, k) => Buffered(p)
    BY <1>1 DEF Buffered, Inside
  <1>5. p \in PacketsIn(b.data) => Buffered(p)'
    BY <1>1, <1>2 DEF Buffered
  <1>6. \A m \in Levels : \A j \in DOMAIN list[m] : Inside(p, m, j) => Buffered(p)
    BY DEF Buffered
  <1>7. ASSUME p \in PacketsIn(b.data), ~Buffered(p) \/ (OneBuffer(p) /\ Inside(p, l, k))
        PROVE  OneBuffer(p)'
    <2>1. ASSUME NEW m \in Levels, NEW j \in DOMAIN list'[m], Inside(p, m, j)'
          PROVE  m = l /\ j = k
      <3> SUFFICES ASSUME ~(m = l /\ j = k) PROVE FALSE
        OBVIOUS
      <3>1. j \in DOMAIN list[m] /\ Inside(p, m, j)
        BY <2>1, <1>3
      <3>2. OneBuffer(p) /\ Inside(p, l, k) /\ k \in DOMAIN list[l]
        BY <3>1, <1>6, <1>7 DEF Inside
      <3> QED BY <3>1, <3>2, <1>1 DEF OneBuffer
    <2> QED BY <2>1 DEF OneBuffer
  <1>8. ASSUME p \notin PacketsIn(b.data), Inside(p, l, k), OneBuffer(p)
        PROVE  ~Buffered(p)' /\ OneBuffer(p)'
    <2>1. ASSUME NEW m \in Levels, NEW j \in DOMAIN list'[m], Inside(p, m, j)'
          PROVE  FALSE
      <3>0. ~(m = l /\ j = k)
        BY <2>1, <1>2, <1>8
      <3>1. j \in DOMAIN list[m] /\ Inside(p, m, j)
        BY <3>0, <2>1, <1>3
      <3>2. k \in DOMAIN list[l]
        BY <1>8 DEF Inside
      <3> QED BY <3>0, <3>1, <3>2, <1>1, <1>8 DEF OneBuffer
    <2> QED BY <2>1 DEF OneBuffer, Buffered
  <1>9. ASSUME p \notin PacketsIn(b.data), ~Inside(p, l, k)
        PROVE  /\ Buffered(p)' <=> Buffered(p)
               /\ OneBuffer(p) => OneBuffer(p)'
    <2>1. ASSUME NEW m \in Levels, NEW j \in DOMAIN list'[m], Inside(p, m, j)'
          PROVE  j \in DOMAIN list[m] /\ Inside(p, m, j)
      <3>0. ~(m = l /\ j = k)
        BY <2>1, <1>2, <1>9
      <3> QED BY <3>0, <2>1, <1>3
    <2>2. ASSUME NEW m \in Levels, NEW j \in DOMAIN list[m], Inside(p, m, j)
          PROVE  j \in DOMAIN list'[m] /\ Inside(p, m, j)'
      <3>0. ~(m = l /\ j = k)
        BY <2>2, <1>9
      <3> QED BY <3>0, <2>2, <1>3
    <2>3. Buffered(p)' <=> Buffered(p)
      BY <2>1, <2>2 DEF Buffered
    <2>4. OneBuffer(p) => OneBuffer(p)'
      BY <2>1 DEF OneBuffer
    <2> QED BY <2>3, <2>4
  <1> QED BY <1>4, <1>5, <1>7, <1>8, <1>9

-----------------------------------------------------------------------------
(* What the steps have in common.                                          *)

\* The parts of the type invariant.
LEMMA TypeParts ==
  ASSUME Typed
  PROVE  /\ todo \subseteq Packets /\ lost \subseteq Packets
         /\ list \in [Levels -> Seq(Buffers)]
         /\ proc \in ProcType /\ consuela \in ConsuelaType
         /\ leaving \in Frames \cup {None}
         /\ module \in {"running", "stopping", "stopped", "freed", "gone"}
         /\ crashed \in {"no", "null", "panic", "freed", "kfree", "unlock"}
         /\ gone \in [Packets -> Nat] /\ raced \in BOOLEAN /\ faults \in 0..MaxFaults
         /\ faults \in Nat /\ MaxFaults \in Nat
  BY AggregationAssumption DEF Typed, ProcType, ConsuelaType

\* And after a step.
LEMMA TypeBack ==
  ASSUME todo' \subseteq Packets, list' \in [Levels -> Seq(Buffers)],
         proc' \in ProcType, consuela' \in ConsuelaType,
         leaving' \in Frames \cup {None},
         module' \in {"running", "stopping", "stopped", "freed", "gone"},
         crashed' \in {"no", "null", "panic", "freed", "kfree", "unlock"},
         NEW S, NEW D, Moved(S, D), raced' \in BOOLEAN, faults' \in 0..MaxFaults
  PROVE  Typed'
  BY DEF Typed, ProcType, ConsuelaType, Moved

\* The history grows.
LEMMA LaterIs ==
  ASSUME Typed, raced' \in BOOLEAN, raced => raced', faults' = faults \/ Fault
  PROVE  /\ Later /\ faults' \in 0..MaxFaults
         /\ Fault => faults' > 0
  BY TypeParts DEF Later, Fault

\* The packets in the hands of a hook.
LEMMA CarriedIs ==
  ASSUME NEW p
  PROVE  /\ ProcInv => (Carried(p) <=> Running /\ p \in PacketsIn(proc.skb.parts))
         /\ ProcInv' => (Carried(p)' <=> Running' /\ p \in PacketsIn(proc'.skb.parts))
  BY IdleIs DEF Carried, ProcInv, Running

\* The packets of V, and no others, are taken out of their buffer.
Vacated(V) ==
  \A p : /\ p \in V =>
              /\ Buffered(p)
              /\ OneBuffer(p) => ~Buffered(p)' /\ OneBuffer(p)'
         /\ p \notin V => /\ Buffered(p)' <=> Buffered(p)
                          /\ OneBuffer(p) => OneBuffer(p)'

\* No buffer changes.
LEMMA SameBuffers ==
  ASSUME list' = list
  PROVE  Vacated({})
  BY DEF Vacated, Buffered, OneBuffer, Inside

\* Nothing to take account of.
LEMMA QuietPlaces ==
  ASSUME PlaceInv, Typed, ProcInv, ProcInv', Later, Alive, Vacated({}),
         todo' = todo, Moved({}, {}), Running' <=> Running, proc'.skb = proc.skb,
         consuela'.hold = consuela.hold,
         module \in {"freed", "gone"} => module' \in {"freed", "gone"}
  PROVE  PlaceInv'
  <1>1. crashed = "no"
    BY DEF Alive
  <1>2. lost' = lost
    BY TypeParts DEF Moved
  <1>3. ASSUME NEW p \in Packets
        PROVE  IF p \in todo' THEN Absent(p)' ELSE OncePresent(p)'
    <2>1. Carried(p)' <=> Carried(p)
      BY CarriedIs
    <2>2. Collected(p)' <=> Collected(p)
      BY DEF Collected
    <2>3. (Buffered(p)' <=> Buffered(p)) /\ (OneBuffer(p) => OneBuffer(p)')
      BY DEF Vacated
    <2>4. gone'[p] = gone[p]
      BY TypeParts DEF Moved
    <2>5. IF p \in todo THEN Absent(p) ELSE OncePresent(p)
      BY <1>1 DEF PlaceInv
    <2> QED BY <1>2, <2>1, <2>2, <2>3, <2>4, <2>5 DEF Absent, OncePresent
  <1> QED BY <1>2, <1>3 DEF PlaceInv, Later

\* Nothing to stamp.
LEMMA QuietStamps ==
  ASSUME StampInv, list' = list, leaving' = None, consuela'.hold = consuela.hold,
         Running' => Running, proc'.skb = proc.skb,
         \A l, k : Awaiting(l, k)' <=> Awaiting(l, k)
  PROVE  StampInv'
  <1>1. Part' = Part
    BY DEF Part
  <1>2. BuffersCoded'
    BY <1>1 DEF StampInv, BuffersCoded
  <1> QED BY <1>2 DEF StampInv

\* The other buffers are coded as before when one is written and no hook waits
\* for its own afterwards.
LEMMA WroteStamps ==
  ASSUME BuffersCoded, NEW l, NEW k, NEW b, Wrote(list', l, k, b), Coded(b.data),
         ~InUse', \A m, j : Awaiting(m, j) => m = l /\ j = k
  PROVE  BuffersCoded'
  <1>1. \A m, j : ~Awaiting(m, j)'
    BY DEF Awaiting
  <1> SUFFICES ASSUME NEW m \in Levels, NEW j \in DOMAIN list'[m]
               PROVE  Coded(list'[m][j].data)
    BY <1>1 DEF BuffersCoded
  <1>2. CASE m = l /\ j = k
    BY <1>2 DEF Wrote
  <1>3. CASE ~(m = l /\ j = k)
    <2>1. j \in DOMAIN list[m] /\ list'[m][j] = list[m][j]
      BY <1>3 DEF Wrote
    <2> QED BY <2>1, <1>3 DEF BuffersCoded
  <1> QED BY <1>2, <1>3

\* A hook at work.
LEMMA HookIs ==
  ASSUME Basis, Running
  PROVE  /\ L \in Levels /\ L \in {"app", "ip"} /\ proc \in ProcType
         /\ proc.skb \in Frames /\ Part \in NonEmpty
         /\ proc.skb.proto # "ip" => proc.skb.parts = <<Part>>
         /\ proc.skb.proto # "ip" => Len(proc.skb.parts) = 1
         /\ L = "app" => proc.skb.proto # "ip" /\ Len(Part) = 1
         /\ proc.skb.torn => faults > 0 \/ raced
         /\ proc.pc = "peek" \/ InUse =>
              /\ proc.buf \in DOMAIN list[L] /\ list[L][proc.buf].ip # "null"
              /\ Data \in Parts /\ Joins(L, Part, Data)
         /\ InUse => proc.skb.parts = <<Part>> /\ proc.skb.proto # "ip"
         /\ InUse => Joins(L, Part, proc.copied)
  <1>1. /\ L \in Levels /\ proc.skb \in Frames
        /\ proc.skb.proto # "ip" => Len(proc.skb.parts) = 1
        /\ L = "app" => proc.skb.proto # "ip" /\ Len(Part) = 1
        /\ proc.skb.torn => faults > 0 \/ raced
        /\ InUse => proc.skb.proto # "ip"
    BY DEF Basis, ProcInv
  <1>2. Part \in NonEmpty
    BY <1>1, FrameIs DEF Part
  <1>3. proc.skb.proto # "ip" => proc.skb.parts = <<Part>>
    BY <1>1, FrameIs DEF Part
  <1>4. L \in {"app", "ip"} /\ proc \in ProcType
    BY <1>1, AggregationAssumption, TypeParts DEF Basis
  <1>5. ASSUME proc.pc = "peek" \/ InUse
        PROVE  /\ proc.buf \in DOMAIN list[L] /\ list[L][proc.buf].ip # "null"
               /\ Data \in Parts /\ Joins(L, Part, Data)
    <2>1. proc.buf \in DOMAIN list[L] /\ list[L][proc.buf].ip # "null"
      BY <1>5 DEF Basis, ProcInv
    <2>2. Data \in Parts
      BY <2>1, <1>1, BufferIs DEF Basis, Data
    <2>3. L = "app" => Singles(Data)
      BY <2>1, <1>1 DEF Basis, BufferInv, Data
    <2> QED BY <2>1, <2>2, <2>3, <1>1, <1>2, <1>4 DEF Joins
  <1>6. Joins(L, Part, proc.copied)
    <2>1. proc.copied \in Parts
      BY <1>4 DEF ProcType
    <2> QED BY <2>1, <1>1, <1>2, <1>4 DEF Joins, Basis, ProcInv
  <1> QED BY <1>1, <1>2, <1>3, <1>4, <1>5, <1>6

\* A step of a hook that only reads.
LEMMA QuietHook ==
  ASSUME Core, Alive, Running, list' = list, todo' = todo, consuela' = consuela,
         module' = module, raced' = raced, Stays, faults' = faults \/ Fault,
         crashed' \in {"no", "null", "panic", "freed", "kfree", "unlock"}, CrashNeedsCause',
         proc' \in ProcType, proc'.pc # "idle", proc'.level = L,
         proc'.skb = proc.skb, ProcInv', ~raced => ReadInv',
         \A l, k : Awaiting(l, k)' <=> Awaiting(l, k)
  PROVE  Core'
  <1>1. Basis /\ Typed /\ ProcInv /\ BufferInv /\ ConsuelaInv
    BY DEF Core, Basis
  <1>2. Later /\ faults' \in 0..MaxFaults
    BY <1>1, TypeParts, LaterIs
  <1>3. Moved({}, {}) /\ leaving' = None
    BY <1>1, StaysIs
  <1>4. Kept /\ BufferInv'
    BY <1>1, <1>2, ListKept
  <1>5. ConsuelaInv'
    BY <1>1, <1>2, <1>4, ConsuelaWaits
  <1>6. Typed'
    BY <1>1, <1>2, <1>3, TypeParts, TypeBack
  <1>7. Basis'
    BY <1>4, <1>5, <1>6 DEF Basis
  <1>8. ASSUME ~raced' PROVE PlaceInv' /\ StampInv'
    <2>1. PlaceInv /\ StampInv
      BY <1>8 DEF Core
    <2>2. Running'
      BY DEF Running
    <2>3. PlaceInv'
      BY <2>1, <2>2, <1>1, <1>2, <1>3, SameBuffers, QuietPlaces
    <2>4. StampInv'
      BY <2>1, <2>2, <1>3, QuietStamps
    <2> QED BY <2>3, <2>4
  <1> QED BY <1>7, <1>8 DEF Core

\* The search ends at a buffer of the destination or at a node without one.
LEMMA PlaceIs ==
  ASSUME Typed, NEW l \in Levels, NEW ip, Place(l, ip) # 0
  PROVE  Place(l, ip) \in DOMAIN list[l] /\ list[l][Place(l, ip)].ip \in {ip, "null"}
  <1>1. PICK at : at = Walk(l)
    OBVIOUS
  <1>2. PICK T : T = {n \in DOMAIN list[l] : /\ at[n] \in DOMAIN list[l]
                                             /\ list[l][at[n]].ip \in {ip, "null"}}
    OBVIOUS
  <1>3. Place(l, ip) = IF T = {} THEN 0 ELSE at[Min(T)]
    BY <1>1, <1>2 DEF Place
  <1>4. T \subseteq Nat /\ T # {}
    BY <1>2, <1>3, BufferIs
  <1>5. PICK x \in T : \A y \in T : x <= y
    BY <1>4, LeastNat
  <1>6. Min(T) \in T
    BY <1>5 DEF Min
  <1> QED BY <1>2, <1>3, <1>4, <1>6

\* A node without a buffer stands for a failure.
LEMMA MeetsNullIs ==
  ASSUME Typed, BufferInv, NEW l \in Levels, NEW ip, ip # "null", Place(l, ip) # 0
  PROVE  /\ MeetsNull(l, ip) => faults > 0
         /\ ~MeetsNull(l, ip) => list[l][Place(l, ip)].ip = ip
  <1>1. PICK k \in DOMAIN list[l] : k = Place(l, ip) /\ list[l][k].ip \in {ip, "null"}
    BY PlaceIs
  <1>2. list[l][k].ip = "null" => list[l][k] = NULL /\ faults > 0
    BY DEF BufferInv
  <1>3. NULL.ip = "null"
    BY NodeIs
  <1> QED BY <1>1, <1>2, <1>3 DEF MeetsNull

\* get_app_buffer_for, get_ip_buffer_for.
LEMMA LookupStep ==
  ASSUME Core, Lookup
  PROVE  Core'
  <1>1. Basis /\ Typed /\ ProcInv /\ BufferInv
    BY DEF Core, Basis
  <1>2. Alive /\ Running /\ proc.pc = "lookup" /\ crashed = "no"
    BY DEF Lookup, Working, Running, Alive
  <1>3. list' = list /\ todo' = todo /\ consuela' = consuela /\ module' = module
        /\ raced' = raced /\ Stays
    BY DEF Lookup
  <1>4. L \in Levels /\ L \in {"app", "ip"} /\ proc \in ProcType /\ proc.skb \in Frames
    BY <1>1, <1>2, HookIs
  <1>5. PICK ip : ip = DstOf(proc.skb) /\ ip # "null"
    BY <1>4, FrameIs
  <1>6. ~InUse /\ \A l, k : ~Awaiting(l, k)
    BY <1>2 DEF InUse, Awaiting
  <1>7. faults' = faults \/ Fault
    BY DEF Lookup
  <1>8. Later /\ (Fault => faults' > 0)
    BY <1>1, <1>3, <1>7, TypeParts, LaterIs
  <1>9. Kept
    BY <1>1, <1>3, <1>8, ListKept
  <1>10. CASE MeetsNull(L, ip) /\ crashed' = "null" /\ proc' = proc /\ faults' = faults
    <2>1. faults' > 0
      <3>1. Place(L, ip) # 0
        BY <1>10 DEF MeetsNull
      <3> QED BY <3>1, <1>1, <1>4, <1>5, <1>10, MeetsNullIs
    <2>2. CrashNeedsCause'
      BY <2>1, <1>10 DEF CrashNeedsCause
    <2>3. ProcInv'
      BY <1>1, <1>8, <1>9, <1>10, ProcWaits
    <2>4. ReadInv' /\ \A l, k : ~Awaiting(l, k)'
      BY <1>2, <1>10 DEF ReadInv, Awaiting, InUse
    <2> QED BY <1>2, <1>3, <1>4, <1>6, <1>7, <1>10, <2>2, <2>3, <2>4, QuietHook
            DEF Core, L
  <1>11. CASE /\ crashed' = crashed
              /\ proc' = [proc EXCEPT !.pc = "create"]
    <2>1. proc' \in ProcType /\ proc'.pc = "create" /\ proc'.level = L
          /\ proc'.skb = proc.skb /\ proc'.buf = proc.buf
          /\ proc'.copied = proc.copied
      BY <1>4, <1>11 DEF ProcType, L
    <2>2. CrashNeedsCause'
      BY <1>2, <1>11 DEF CrashNeedsCause
    <2>3. ~InUse'
      BY <2>1 DEF InUse
    <2>4. ProcInv'
      BY <1>1, <1>2, <1>8, <1>9, <2>1, <2>3, ProcGoesOn
    <2>5. ReadInv' /\ \A l, k : ~Awaiting(l, k)'
      BY <2>1, <2>3 DEF ReadInv, Awaiting
    <2> QED BY <1>2, <1>3, <1>6, <1>7, <1>11, <2>1, <2>2, <2>4, <2>5, QuietHook
            DEF Core
  <1>12. CASE /\ ~MeetsNull(L, ip) /\ Place(L, ip) # 0 /\ crashed' = crashed
              /\ proc' = [proc EXCEPT !.pc = "peek", !.buf = Place(L, ip)]
    <2>0. PICK k : k = Place(L, ip)
      OBVIOUS
    <2>1. k \in DOMAIN list[L] /\ list[L][k].ip = ip
      BY <2>0, <1>1, <1>4, <1>5, <1>12, PlaceIs, MeetsNullIs
    <2>2. k \in Nat
      BY <2>1, <1>1, <1>4, BufferIs
    <2>3. proc' \in ProcType /\ proc'.pc = "peek" /\ proc'.level = L
          /\ proc'.skb = proc.skb /\ proc'.buf = k /\ proc'.copied = proc.copied
      BY <1>4, <1>12, <2>0, <2>2 DEF ProcType, L
    <2>4. CrashNeedsCause'
      BY <1>2, <1>12 DEF CrashNeedsCause
    <2>5. ~InUse' /\ Running' /\ L' = L /\ Part' = Part
      BY <2>3 DEF InUse, Running, L, Part
    <2>6. ProcInv'
      BY <1>1, <1>2, <1>3, <1>5, <1>8, <2>1, <2>3, <2>5 DEF ProcInv, Later
    <2>7. ReadInv' /\ \A l, k_1 : ~Awaiting(l, k_1)'
      BY <2>3, <2>5 DEF ReadInv, Awaiting
    <2> QED BY <1>2, <1>3, <1>6, <1>7, <1>12, <2>3, <2>4, <2>6, <2>7, QuietHook
            DEF Core
  <1> QED BY <1>5, <1>10, <1>11, <1>12 DEF Lookup

\* What a step does to the buffers, when it puts nothing into them.
Cleared(V) ==
  /\ list' \in [Levels -> Seq(Buffers)] /\ Kept /\ BufferInv' /\ Vacated(V)
  /\ ~raced => BuffersCoded'

\* No buffer changes.
LEMMA ClearsNothing ==
  ASSUME Core, Later, list' = list, ~InUse, ~InUse'
  PROVE  Cleared({})
  <1>1. Typed /\ BufferInv
    BY DEF Core, Basis
  <1>2. list' \in [Levels -> Seq(Buffers)]
    BY <1>1, TypeParts
  <1>3. Kept /\ BufferInv'
    BY <1>1, ListKept
  <1>4. Vacated({})
    BY SameBuffers
  <1>5. ASSUME ~raced PROVE BuffersCoded'
    <2>1. BuffersCoded
      BY <1>5 DEF Core, StampInv
    <2>2. \A l, k : ~Awaiting(l, k) /\ ~Awaiting(l, k)'
      BY DEF Awaiting
    <2> QED BY <2>1, <2>2 DEF BuffersCoded
  <1> QED BY <1>2, <1>3, <1>4, <1>5 DEF Cleared

\* A new node without data.
LEMMA ClearsNew ==
  ASSUME Core, Later, ~InUse, ~InUse', NEW l, NEW k, NEW b, Wrote(list', l, k, b),
         GoodNode(l, b), b.data = <<>>, k \notin DOMAIN list[l]
  PROVE  Cleared({})
  <1>1. BufferInv
    BY DEF Core, Basis
  <1>2. list' \in [Levels -> Seq(Buffers)]
    BY DEF Wrote
  <1>3. Kept /\ BufferInv'
    BY <1>1, WroteKeeps
  <1>4. Vacated({})
    <2> SUFFICES ASSUME NEW p
                 PROVE  /\ Buffered(p)' <=> Buffered(p)
                        /\ OneBuffer(p) => OneBuffer(p)'
      BY DEF Vacated
    <2>1. p \notin PacketsIn(b.data) /\ ~Inside(p, l, k)
      BY NoParts DEF Inside
    <2> QED BY <2>1, WroteMoves
  <1>5. ASSUME ~raced PROVE BuffersCoded'
    <2>1. BuffersCoded
      BY <1>5 DEF Core, StampInv
    <2>2. \A m, j : ~Awaiting(m, j)
      BY DEF Awaiting
    <2>3. Coded(b.data)
      BY CodedNone
    <2> QED BY <2>1, <2>2, <2>3, WroteStamps
  <1> QED BY <1>2, <1>3, <1>4, <1>5 DEF Cleared

\* A buffer is emptied, by the hook that uses it or when no hook does.
LEMMA ClearsBuffer ==
  ASSUME Core, Later, ~InUse', NEW l, NEW k, NEW b, Wrote(list', l, k, b),
         b.data = <<>>, k \in DOMAIN list[l], b.ip # "null",
         \A m, j : Awaiting(m, j) => m = l /\ j = k
  PROVE  Cleared(PacketsIn(list[l][k].data))
  <1>1. BufferInv
    BY DEF Core, Basis
  <1>2. list' \in [Levels -> Seq(Buffers)]
    BY DEF Wrote
  <1>3. Kept /\ BufferInv'
    <2>1. GoodNode(l, b)
      BY NoParts DEF GoodNode
    <2> QED BY <2>1, <1>1, WroteKeeps
  <1>4. Vacated(PacketsIn(list[l][k].data))
    <2> SUFFICES ASSUME NEW p
                 PROVE  /\ Inside(p, l, k) =>
                             /\ Buffered(p)
                             /\ OneBuffer(p) => ~Buffered(p)' /\ OneBuffer(p)'
                        /\ ~Inside(p, l, k) =>
                             /\ Buffered(p)' <=> Buffered(p)
                             /\ OneBuffer(p) => OneBuffer(p)'
      BY DEF Vacated, Inside
    <2>1. p \notin PacketsIn(b.data)
      BY NoParts
    <2> QED BY <2>1, WroteMoves
  <1>5. ASSUME ~raced PROVE BuffersCoded'
    <2>1. BuffersCoded
      BY <1>5 DEF Core, StampInv
    <2>2. Coded(b.data)
      BY CodedNone
    <2> QED BY <2>1, <2>2, WroteStamps
  <1> QED BY <1>2, <1>3, <1>4, <1>5 DEF Cleared

\* The packets handed on or lost are those the hook had and those taken out of
\* the buffers.
Balanced(S, D, V) ==
  /\ \A p : p \in S => Carried(p) \/ p \in V
  /\ \A p : Carried(p) => p \in S
  /\ \A p \in V : p \in S \/ p \in D
  /\ \A p \in D : p \in V /\ (p \in S => Carried(p))

\* The hook hands its frame on.
LEMMA HandedStep ==
  ASSUME Core, Alive, Running, todo' = todo, consuela' = consuela,
         module' = module, raced' = raced, faults' = faults \/ Fault,
         crashed' = crashed, NEW skb \in Frames, NEW D, NEW V,
         Handed(skb, PacketsIn(skb.parts), D), Cleared(V),
         ~raced => Coded(skb.parts) /\ Balanced(PacketsIn(skb.parts), D, V),
         D # {} => Fault, skb.torn => faults' > 0 \/ raced'
  PROVE  Core'
  <1>0. PICK S : S = PacketsIn(skb.parts)
    OBVIOUS
  <1>1. Basis /\ Typed /\ ProcInv /\ ConsuelaInv
    BY DEF Core, Basis
  <1>2. Later /\ faults' \in 0..MaxFaults /\ (Fault => faults' > 0)
    BY <1>1, TypeParts, LaterIs
  <1>3. ProcInv' /\ ReadInv' /\ proc' \in ProcType /\ leaving' \in {skb, None}
    BY DEF Handed
  <1>4. Handed(skb, S, D) /\ (~raced => Balanced(S, D, V))
    BY <1>0
  <1>5. ConsuelaInv' /\ BufferInv'
    BY <1>1, <1>2, ConsuelaWaits DEF Cleared
  <1>6. crashed = "no" /\ CrashNeedsCause'
    BY DEF Alive, CrashNeedsCause
  <1>7. Typed'
    <2>1. PICK S1, D1 : Moved(S1, D1)
      BY <1>4 DEF Handed
    <2> QED BY <2>1, <1>1, <1>2, <1>3, <1>6, TypeParts, TypeBack DEF Cleared
  <1>8. Basis'
    BY <1>3, <1>5, <1>6, <1>7 DEF Basis
  <1>9. ASSUME ~raced' PROVE PlaceInv' /\ StampInv'
    <2>1. PlaceInv /\ StampInv /\ ~raced
      BY <1>9 DEF Core
    <2>2. StampInv'
      <3>1. leaving' # None => Coded(leaving'.parts)
        BY <1>3, <2>1
      <3>2. Running' => Coded(proc'.skb.parts)
        BY <1>4, <2>1 DEF Handed
      <3> QED BY <3>1, <3>2, <2>1 DEF StampInv, Cleared
    <2>3. ASSUME NEW p \in Packets
          PROVE  IF p \in todo' THEN Absent(p)' ELSE OncePresent(p)'
      <3>1. IF p \in todo THEN Absent(p) ELSE OncePresent(p)
        BY <1>6, <2>1 DEF PlaceInv
      <3>2. gone[p] \in Nat
        BY <1>1, TypeParts
      <3>3. Collected(p)' <=> Collected(p)
        BY DEF Collected
      <3>4. /\ p \in S => Carried(p) \/ p \in V
            /\ Carried(p) => p \in S
            /\ p \in V => p \in S \/ p \in D
            /\ p \in D => p \in V /\ (p \in S => Carried(p))
        BY <1>4, <2>1 DEF Balanced
      <3>5. /\ p \in V =>
                 /\ Buffered(p)
                 /\ OneBuffer(p) => ~Buffered(p)' /\ OneBuffer(p)'
            /\ p \notin V => /\ Buffered(p)' <=> Buffered(p)
                             /\ OneBuffer(p) => OneBuffer(p)'
        BY DEF Cleared, Vacated
      <3>6. CASE Running' /\ proc'.skb = skb /\ Moved({}, D)
        <4>1. Carried(p)' <=> p \in S
          BY <1>0, <1>3, <3>6, CarriedIs
        <4>2. gone'[p] = gone[p] /\ (p \in lost' <=> p \in lost \/ p \in D)
          BY <3>2, <3>6 DEF Moved
        <4> QED BY <3>1, <3>3, <3>4, <3>5, <4>1, <4>2 DEF Absent, OncePresent
      <3>7. CASE ~Running' /\ Moved({}, S \cup D)
        <4>1. ~Carried(p)'
          BY <1>3, <3>7, CarriedIs
        <4>2. gone'[p] = gone[p] /\ (p \in lost' <=> p \in lost \/ p \in S \/ p \in D)
          BY <3>2, <3>7 DEF Moved
        <4> QED BY <3>1, <3>3, <3>4, <3>5, <4>1, <4>2 DEF Absent, OncePresent
      <3>8. CASE ~Running' /\ Moved(S, D)
        <4>1. ~Carried(p)'
          BY <1>3, <3>8, CarriedIs
        <4>2. /\ p \in S => gone'[p] = gone[p] + 1
              /\ p \notin S => gone'[p] = gone[p]
              /\ p \in lost' <=> p \in lost \/ p \in D
          BY <3>2, <3>8 DEF Moved
        <4> QED BY <3>1, <3>2, <3>3, <3>4, <3>5, <4>1, <4>2 DEF Absent, OncePresent
      <3> QED BY <1>4, <3>6, <3>7, <3>8 DEF Handed
    <2>4. ASSUME lost' # {} PROVE faults' > 0 \/ module' \in {"freed", "gone"}
      <3>1. CASE lost # {}
        BY <3>1, <2>1, <1>2 DEF PlaceInv, Later
      <3>2. CASE lost = {}
        <4>1. D # {} \/ skb.torn
          <5> SUFFICES ASSUME D = {}, ~skb.torn PROVE FALSE
            OBVIOUS
          <5>1. Moved({}, {}) \/ Moved(S, {})
            BY <1>4 DEF Handed
          <5> QED BY <5>1, <3>2, <2>4 DEF Moved
        <4> QED BY <4>1, <1>2, <1>9
      <3> QED BY <3>1, <3>2
    <2>5. PlaceInv'
      BY <2>3, <2>4 DEF PlaceInv
    <2> QED BY <2>2, <2>5
  <1> QED BY <1>8, <1>9 DEF Core

-----------------------------------------------------------------------------
(* The steps of a hook.                                                    *)

\* A hook that accepts the frame it has, or one with the same packets.
LEMMA AcceptsStep ==
  ASSUME Core, Alive, Running, ~InUse, todo' = todo, consuela' = consuela,
         module' = module, raced' = raced, faults' = faults \/ Fault,
         crashed' = crashed, NEW skb, Whole(skb), Accept(skb), Cleared({}),
         PacketsIn(skb.parts) = PacketsIn(proc.skb.parts),
         ~raced => Coded(skb.parts)
  PROVE  Core'
  <1>1. Typed /\ ProcInv
    BY DEF Core, Basis
  <1>2. skb \in Frames /\ (skb.torn => faults' > 0 \/ raced')
    BY DEF Whole
  <1>3. Handed(skb, PacketsIn(skb.parts), {})
    BY <1>1, AcceptIs
  <1>4. Balanced(PacketsIn(skb.parts), {}, {})
    BY <1>1, CarriedIs DEF Balanced
  <1> QED BY <1>2, <1>3, <1>4, HandedStep

\* peek_packet.
LEMMA PeekStep ==
  ASSUME Core, Peek
  PROVE  Core'
  <1>1. Basis /\ Typed /\ ProcInv /\ BufferInv
    BY DEF Core, Basis
  <1>2. Alive /\ Running /\ proc.pc = "peek" /\ crashed = "no" /\ ~InUse
    BY DEF Peek, Working, Running, Alive, InUse
  <1>3. list' = list /\ todo' = todo /\ consuela' = consuela /\ module' = module
        /\ raced' = raced /\ faults' = faults /\ crashed' = crashed
    BY DEF Peek
  <1>4. /\ L \in Levels /\ proc \in ProcType /\ proc.skb \in Frames
        /\ proc.skb.proto # "ip" => Len(proc.skb.parts) = 1
        /\ proc.skb.torn => faults > 0 \/ raced
        /\ Data \in Parts
    BY <1>1, <1>2, HookIs
  <1>5. Later
    BY <1>1, <1>3, TypeParts, LaterIs
  <1>6. Kept
    BY <1>1, <1>3, <1>5, ListKept
  <1>7. CASE proc.skb.proto = "ip"
    <2>1. Accept(proc.skb)
      BY <1>7 DEF Peek
    <2>2. Whole(proc.skb)
      BY <1>3, <1>4 DEF Whole
    <2>3. ~InUse'
      BY <2>1, <2>2, <1>1, AcceptIs DEF Handed
    <2>4. Cleared({})
      BY <1>2, <1>3, <1>5, <2>3, ClearsNothing
    <2>5. ~raced => Coded(proc.skb.parts)
      BY <1>2 DEF Core, StampInv
    <2> QED BY <1>2, <1>3, <2>1, <2>2, <2>4, <2>5, AcceptsStep
  <1>8. CASE proc.skb.proto # "ip"
    <2>0. PICK n \in Nat : n = DataLen(L, Data)
      BY <1>4, LengthIs
    <2>1. proc' = [proc EXCEPT !.pc = "stamp", !.off = n] /\ Stays
      BY <1>8, <2>0 DEF Peek
    <2>2. proc' \in ProcType /\ proc'.pc = "stamp" /\ proc'.level = L
          /\ proc'.skb = proc.skb /\ proc'.buf = proc.buf /\ proc'.off = n
          /\ proc'.copied = proc.copied
      BY <1>4, <2>1 DEF ProcType, L
    <2>3. CrashNeedsCause'
      BY <1>2, <1>3 DEF CrashNeedsCause
    <2>4. ProcInv'
      BY <1>1, <1>2, <1>5, <1>6, <1>8, <2>2, ProcGoesOn
    <2>5. L' = L /\ Data' = Data
      BY <1>3, <2>2 DEF L, Data
    <2>6. ReadInv'
      BY <2>0, <2>2, <2>5 DEF ReadInv
    <2>7. \A l, k : ~Awaiting(l, k)' /\ ~Awaiting(l, k)
      BY <1>2, <2>2 DEF Awaiting
    <2> QED BY <1>2, <1>3, <2>1, <2>2, <2>3, <2>4, <2>6, <2>7, QuietHook
  <1> QED BY <1>7, <1>8

\* The steps of a hook that has a buffer and only reads it.
LEMMA ReadsStep ==
  ASSUME Core, Alive, InUse, proc.pc # "stamp", list' = list, todo' = todo,
         consuela' = consuela, module' = module, raced' = raced, Stays,
         faults' = faults,
         crashed' = crashed \/ (crashed' = "panic" /\ raced),
         proc' \in ProcType, InUse', proc'.pc # "stamp", proc'.level = L,
         proc'.skb = proc.skb, proc'.buf = proc.buf,
         proc'.copied \in {proc.copied, Data},
         ~raced => /\ proc'.pc = "push" =>
                        DataLen(L, Data) + Size(L, Part) <= BufferLen[L]
                   /\ proc'.pc \in {"put", "copy", "total", "reset"} =>
                        proc'.put = DataLen(L, Data)
                   /\ proc'.pc \in {"total", "reset"} =>
                        proc'.copied = Data /\ ~proc'.torn
  PROVE  Core'
  <1>1. Basis /\ Typed /\ ProcInv /\ BufferInv
    BY DEF Core, Basis
  <1>2. Running /\ proc'.pc # "idle" /\ crashed = "no"
    BY DEF Running, InUse, Alive
  <1>3. Later
    BY <1>1, TypeParts, LaterIs
  <1>4. Kept
    BY <1>1, <1>3, ListKept
  <1>5. ProcInv'
    <2>1. proc.skb.proto # "ip"
      BY <1>1 DEF ProcInv
    <2>2. L = "app" => Singles(Data)
      BY <1>1, <1>2, HookIs DEF Joins
    <2> QED BY <1>1, <1>2, <1>3, <1>4, <2>1, <2>2, ProcGoesOn
  <1>6. L' = L /\ Data' = Data /\ Part' = Part
    BY DEF L, Data, Part
  <1>7. ~raced => ReadInv'
    BY <1>6 DEF ReadInv
  <1>8. \A l, k : Awaiting(l, k)' <=> Awaiting(l, k)
    BY <1>6 DEF Awaiting
  <1>9. CrashNeedsCause' /\ crashed' \in {"no", "null", "panic", "freed", "kfree", "unlock"}
    BY <1>2 DEF CrashNeedsCause
  <1> QED BY <1>2, <1>5, <1>7, <1>8, <1>9, QuietHook

\* The length check.
LEMMA DecideStep ==
  ASSUME Core, Decide
  PROVE  Core'
  <1>1. Basis /\ Typed
    BY DEF Core, Basis
  <1>2. Alive /\ Running /\ proc.pc = "decide" /\ InUse
    BY DEF Decide, Working, Running, InUse
  <1>3. list' = list /\ todo' = todo /\ consuela' = consuela /\ module' = module
        /\ raced' = raced /\ faults' = faults /\ crashed' = crashed /\ Stays
    BY DEF Decide
  <1>4. L \in Levels /\ proc \in ProcType /\ Data \in Parts /\ Part \in NonEmpty
    BY <1>1, <1>2, HookIs
  <1>5. PICK pc : pc = IF NoRoom(L, Data, Part) THEN "expand" ELSE "push"
    OBVIOUS
  <1>6. proc' = [proc EXCEPT !.pc = pc]
    BY <1>5 DEF Decide
  <1>7. proc' \in ProcType /\ proc'.pc = pc /\ proc'.level = L
        /\ proc'.skb = proc.skb /\ proc'.buf = proc.buf
        /\ proc'.copied = proc.copied
    BY <1>4, <1>5, <1>6 DEF ProcType, L
  <1>8. pc = "push" => DataLen(L, Data) + Size(L, Part) <= BufferLen[L]
    <2>1. DataLen(L, Data) \in Nat /\ Size(L, Part) \in Nat /\ BufferLen[L] \in Nat
      BY <1>4, LengthIs, SizeType, AggregationAssumption
    <2> QED BY <2>1, <1>5 DEF NoRoom
  <1>9. InUse' /\ proc'.pc \in {"push", "expand"}
    BY <1>5, <1>7 DEF InUse
  <1> QED BY <1>2, <1>3, <1>7, <1>8, <1>9, ReadsStep

\* skb_put.
LEMMA PutStep ==
  ASSUME Core, Put
  PROVE  Core'
  <1>1. Basis /\ Typed
    BY DEF Core, Basis
  <1>2. Alive /\ Running /\ proc.pc = "put" /\ InUse /\ crashed = "no"
    BY DEF Put, Working, Running, InUse, Alive
  <1>3. list' = list /\ todo' = todo /\ consuela' = consuela /\ module' = module
        /\ raced' = raced /\ faults' = faults /\ Stays
    BY DEF Put
  <1>4. L \in Levels /\ proc \in ProcType /\ Data \in Parts
    BY <1>1, <1>2, HookIs
  <1>5. PICK n \in Nat : n = DataLen(L, Data)
    BY <1>4, LengthIs
  <1>6. proc' = [proc EXCEPT !.pc = "copy", !.put = n]
    BY <1>5 DEF Put
  <1>7. proc' \in ProcType /\ proc'.pc = "copy" /\ proc'.level = L
        /\ proc'.skb = proc.skb /\ proc'.buf = proc.buf /\ proc'.put = n
        /\ proc'.copied = proc.copied
    BY <1>4, <1>6 DEF ProcType, L
  <1>8. crashed' = crashed \/ (crashed' = "panic" /\ raced)
    <2>1. ~raced => ~(n > proc.put)
      BY <1>1, <1>2, <1>5 DEF Basis, ReadInv
    <2> QED BY <2>1, <1>2, <1>5 DEF Put
  <1>9. InUse'
    BY <1>7 DEF InUse
  <1> QED BY <1>2, <1>3, <1>5, <1>7, <1>8, <1>9, ReadsStep

\* The copy.
LEMMA CopyStep ==
  ASSUME Core, Copy
  PROVE  Core'
  <1>1. Basis /\ Typed
    BY DEF Core, Basis
  <1>2. Alive /\ Running /\ proc.pc = "copy" /\ InUse
    BY DEF Copy, Working, Running, InUse
  <1>3. list' = list /\ todo' = todo /\ consuela' = consuela /\ module' = module
        /\ raced' = raced /\ faults' = faults /\ crashed' = crashed /\ Stays
    BY DEF Copy
  <1>4. L \in Levels /\ proc \in ProcType /\ Data \in Parts
    BY <1>1, <1>2, HookIs
  <1>5. PICK d, t : d = Data /\ t = (DataLen(L, Data) # proc.put)
    OBVIOUS
  <1>6. proc' = [proc EXCEPT !.pc = "total", !.copied = d, !.torn = t]
    BY <1>5 DEF Copy
  <1>7. proc' \in ProcType /\ proc'.pc = "total" /\ proc'.level = L
        /\ proc'.skb = proc.skb /\ proc'.buf = proc.buf /\ proc'.put = proc.put
        /\ proc'.copied = d /\ proc'.torn = t
    BY <1>4, <1>5, <1>6 DEF ProcType, L
  <1>8. ~raced => proc.put = DataLen(L, Data)
    BY <1>1, <1>2 DEF Basis, ReadInv
  <1>9. InUse'
    BY <1>7 DEF InUse
  <1> QED BY <1>2, <1>3, <1>5, <1>7, <1>8, <1>9, ReadsStep

\* The previous packet is stamped relative to the new one.
LEMMA StampPreviousStep ==
  ASSUME Core, StampPrevious
  PROVE  Core'
  <1>1. Basis /\ Typed /\ ProcInv /\ BufferInv /\ ConsuelaInv
    BY DEF Core, Basis
  <1>2. Alive /\ Running /\ proc.pc = "stamp" /\ InUse /\ crashed = "no"
    BY DEF StampPrevious, Working, Running, InUse, Alive
  <1>3. todo' = todo /\ consuela' = consuela /\ module' = module /\ raced' = raced
        /\ faults' = faults /\ crashed' = crashed /\ Stays
    BY DEF StampPrevious
  <1>4. /\ L \in Levels /\ proc \in ProcType /\ Data \in Parts /\ Part \in NonEmpty
        /\ proc.buf \in DOMAIN list[L] /\ list[L][proc.buf].ip # "null"
        /\ proc.skb.parts = <<Part>> /\ proc.skb.proto # "ip" /\ Joins(L, Part, Data)
    BY <1>1, <1>2, HookIs
  <1>5. PICK l \in Levels, k \in DOMAIN list[L] : l = L /\ k = proc.buf
    BY <1>4
  <1>6. PICK d : d = Relative(L, Data, proc.off, Part)
    OBVIOUS
  <1>7. d \in Parts /\ PacketsIn(d) = PacketsIn(Data) /\ (Singles(Data) => Singles(d))
    BY <1>4, <1>6, RelativeType, RelativePackets
  <1>8. PICK b : b = [ip |-> list[l][k].ip, data |-> d]
    OBVIOUS
  <1>9. Wrote(list', l, k, b)
    <2>1. list' = [list EXCEPT ![l][k].data = d]
      BY <1>5, <1>6 DEF StampPrevious, SetData
    <2> QED BY <2>1, <1>1, <1>5, <1>7, <1>8, StoreIs
  <1>10. b.data = d /\ b.ip # "null"
    BY <1>4, <1>5, <1>8
  <1>11. Later /\ faults' \in 0..MaxFaults
    BY <1>1, <1>3, TypeParts, LaterIs
  <1>12. Kept /\ BufferInv'
    <2>1. GoodNode(l, b)
      BY <1>4, <1>5, <1>7, <1>10 DEF GoodNode, Joins
    <2> QED BY <2>1, <1>1, <1>9, <1>11, WroteKeeps
  <1>13. proc' = [proc EXCEPT !.pc = "decide"]
    BY DEF StampPrevious
  <1>14. proc' \in ProcType /\ proc'.pc = "decide" /\ proc'.level = L
         /\ proc'.skb = proc.skb /\ proc'.buf = proc.buf
         /\ proc'.copied = proc.copied
    BY <1>4, <1>13 DEF ProcType, L
  <1>15. ProcInv'
    BY <1>1, <1>2, <1>4, <1>11, <1>12, <1>14, ProcGoesOn
  <1>16. Moved({}, {}) /\ leaving' = None
    BY <1>1, <1>3, StaysIs
  <1>17. Basis'
    <2>1. ConsuelaInv'
      BY <1>1, <1>3, <1>11, <1>12, ConsuelaWaits
    <2>2. Typed'
      BY <1>1, <1>3, <1>9, <1>11, <1>14, <1>16, TypeParts, TypeBack DEF Wrote
    <2>3. ReadInv' /\ CrashNeedsCause'
      BY <1>2, <1>3, <1>14 DEF ReadInv, CrashNeedsCause
    <2> QED BY <1>12, <1>15, <2>1, <2>2, <2>3 DEF Basis
  <1>18. ASSUME ~raced' PROVE PlaceInv' /\ StampInv'
    <2>1. PlaceInv /\ StampInv /\ ~raced
      BY <1>3, <1>18 DEF Core
    <2>2. Vacated({})
      <3> SUFFICES ASSUME NEW p
                   PROVE  /\ Buffered(p)' <=> Buffered(p)
                          /\ OneBuffer(p) => OneBuffer(p)'
        BY DEF Vacated
      <3>1. p \in PacketsIn(b.data) <=> Inside(p, l, k)
        BY <1>5, <1>7, <1>10 DEF Inside, Data
      <3> QED BY <3>1, <1>9, WroteMoves
    <2>3. PlaceInv'
      <3>1. Running'
        BY <1>14 DEF Running
      <3> QED BY <1>1, <1>2, <1>3, <1>11, <1>14, <1>15, <1>16, <2>1, <2>2, <3>1,
                 QuietPlaces
    <2>4. proc.off = DataLen(L, Data)
      BY <1>1, <1>2, <2>1 DEF Basis, ReadInv
    <2>5. \A m, j : ~Awaiting(m, j)
      BY <1>2 DEF Awaiting
    <2>6. Coded(Data) /\ Coded(<<Part>>)
      <3>1. Coded(list[l][k].data)
        BY <1>5, <2>1, <2>5 DEF StampInv, BuffersCoded
      <3> QED BY <3>1, <1>2, <1>4, <1>5, <2>1 DEF Data, StampInv
    <2>7. Coded(<<Part>> \o d)
      BY <1>4, <1>6, <2>4, <2>6, CodedPush
    <2>8. Part' = Part /\ \A m, j : Awaiting(m, j)' <=> m = l /\ j = k
      BY <1>5, <1>14 DEF Part, Awaiting, InUse, L
    <2>9. BuffersCoded'
      <3> SUFFICES ASSUME NEW m \in Levels, NEW j \in DOMAIN list'[m]
                   PROVE  Coded(IF m = l /\ j = k THEN <<Part>> \o list'[m][j].data
                                                  ELSE list'[m][j].data)
        BY <2>8 DEF BuffersCoded
      <3>1. CASE m = l /\ j = k
        BY <3>1, <1>9, <1>10, <2>7 DEF Wrote
      <3>2. CASE ~(m = l /\ j = k)
        <4>1. j \in DOMAIN list[m] /\ list'[m][j] = list[m][j]
          BY <3>2, <1>9 DEF Wrote
        <4> QED BY <4>1, <3>2, <2>1, <2>5 DEF StampInv, BuffersCoded
      <3> QED BY <3>1, <3>2
    <2>10. StampInv'
      BY <1>2, <1>3, <1>14, <1>16, <2>1, <2>9 DEF StampInv
    <2> QED BY <2>3, <2>10
  <1> QED BY <1>17, <1>18 DEF Core

\* push_bytes.
LEMMA PushStep ==
  ASSUME Core, Push
  PROVE  Core'
  <1>1. Basis /\ Typed /\ ProcInv /\ BufferInv /\ ConsuelaInv
    BY DEF Core, Basis
  <1>2. Alive /\ Running /\ proc.pc = "push" /\ InUse /\ crashed = "no"
    BY DEF Push, Working, Running, InUse, Alive
  <1>3. todo' = todo /\ consuela' = consuela /\ module' = module /\ raced' = raced
        /\ faults' = faults /\ Stays
    BY DEF Push
  <1>4. /\ L \in Levels /\ proc \in ProcType /\ Data \in Parts /\ Part \in NonEmpty
        /\ proc.buf \in DOMAIN list[L] /\ list[L][proc.buf].ip # "null"
        /\ proc.skb.parts = <<Part>> /\ proc.skb.proto # "ip" /\ Joins(L, Part, Data)
    BY <1>1, <1>2, HookIs
  <1>5. Later /\ faults' \in 0..MaxFaults
    BY <1>1, <1>3, TypeParts, LaterIs
  <1>6. CASE list' = list /\ proc' = proc /\ crashed' = "panic"
             /\ ~(DataLen(L, Data) + Size(L, Part) <= BufferLen[L])
    <2>1. raced
      BY <1>1, <1>2, <1>6 DEF Basis, ReadInv
    <2>2. ProcInv'
      <3>1. Kept
        BY <1>1, <1>5, <1>6, ListKept
      <3> QED BY <3>1, <1>1, <1>5, <1>6, ProcWaits
    <2>3. CrashNeedsCause'
      BY <1>3, <1>6, <2>1 DEF CrashNeedsCause
    <2>4. \A m, j : Awaiting(m, j)' <=> Awaiting(m, j)
      BY <1>6 DEF Awaiting, InUse, L
    <2> QED BY <1>2, <1>3, <1>4, <1>6, <2>1, <2>2, <2>3, <2>4, QuietHook DEF L
  <1>7. CASE SetData(<<Part>> \o Data) /\ proc' = Idle /\ crashed' = crashed
    <2>1. PICK l \in Levels, k \in DOMAIN list[L] : l = L /\ k = proc.buf
      BY <1>4
    <2>2. PICK d : d = <<Part>> \o Data
      OBVIOUS
    <2>3. d \in Parts /\ PacketsIn(d) = PacketsIn(<<Part>>) \cup PacketsIn(Data)
      BY <1>4, <2>2, Pushed
    <2>4. PICK b : b = [ip |-> list[l][k].ip, data |-> d]
      OBVIOUS
    <2>5. Wrote(list', l, k, b)
      <3>1. list' = [list EXCEPT ![l][k].data = d]
        BY <1>7, <2>1, <2>2 DEF SetData
      <3> QED BY <3>1, <1>1, <2>1, <2>3, <2>4, StoreIs
    <2>6. b.data = d /\ b.ip # "null"
      BY <1>4, <2>1, <2>4
    <2>7. Kept /\ BufferInv'
      <3>1. l = "app" => Singles(d)
        BY <1>4, <2>1, <2>2, FlattenedPush DEF Joins
      <3>2. GoodNode(l, b)
        BY <3>1, <2>6 DEF GoodNode
      <3> QED BY <3>2, <1>1, <1>5, <2>5, WroteKeeps
    <2>8. ProcInv' /\ ~Running' /\ ~InUse' /\ ReadInv' /\ proc' \in ProcType
      BY <1>7, ProcDone
    <2>9. Moved({}, {}) /\ leaving' = None
      BY <1>1, <1>3, StaysIs
    <2>10. Basis'
      <3>1. ConsuelaInv'
        BY <1>1, <1>3, <1>5, <2>7, ConsuelaWaits
      <3>2. Typed'
        BY <1>1, <1>3, <1>5, <1>7, <2>5, <2>8, <2>9, TypeParts, TypeBack DEF Wrote
      <3>3. CrashNeedsCause'
        BY <1>2, <1>7 DEF CrashNeedsCause
      <3> QED BY <2>7, <2>8, <3>1, <3>2, <3>3 DEF Basis
    <2>11. ASSUME ~raced' PROVE PlaceInv' /\ StampInv'
      <3>1. PlaceInv /\ StampInv /\ ~raced
        BY <1>3, <2>11 DEF Core
      <3>2. ASSUME NEW p \in Packets
            PROVE  IF p \in todo' THEN Absent(p)' ELSE OncePresent(p)'
        <4>1. IF p \in todo THEN Absent(p) ELSE OncePresent(p)
          BY <1>2, <3>1 DEF PlaceInv
        <4>2. p \in PacketsIn(b.data) <=> Carried(p) \/ Inside(p, l, k)
          <5>1. Carried(p) <=> p \in PacketsIn(<<Part>>)
            BY <1>1, <1>2, <1>4, CarriedIs
          <5>2. Inside(p, l, k) <=> p \in PacketsIn(Data)
            BY <2>1 DEF Inside, Data
          <5> QED BY <5>1, <5>2, <2>3, <2>6
        <4>3. ~Carried(p)' /\ (Collected(p)' <=> Collected(p))
          BY <1>3, <2>8, CarriedIs DEF Collected
        <4>4. gone'[p] = gone[p] /\ (p \in lost' <=> p \in lost)
          BY <1>3 DEF Stays
        <4>5. ~Buffered(p) => ~Inside(p, l, k)
          BY <2>5, WroteMoves
        <4> QED BY <1>3, <2>5, <4>1, <4>2, <4>3, <4>4, <4>5, WroteMoves
                DEF Absent, OncePresent
      <3>3. PlaceInv'
        BY <1>3, <1>5, <3>1, <3>2 DEF PlaceInv, Later, Stays
      <3>4. Awaiting(l, k) /\ \A m, j : Awaiting(m, j) => m = l /\ j = k
        BY <1>2, <2>1 DEF Awaiting
      <3>5. Coded(b.data)
        BY <2>1, <2>2, <2>6, <3>1, <3>4 DEF StampInv, BuffersCoded, Data
      <3>6. BuffersCoded'
        BY <2>5, <2>8, <3>1, <3>4, <3>5, WroteStamps DEF StampInv
      <3>7. StampInv'
        BY <1>3, <2>8, <2>9, <3>1, <3>6 DEF StampInv
      <3> QED BY <3>3, <3>7
    <2> QED BY <2>10, <2>11 DEF Core
  <1> QED BY <1>6, <1>7 DEF Push

\* The buffer of the hook is emptied.
LEMMA SetNoData ==
  ASSUME Core, InUse, Later, SetData(<<>>), ~InUse'
  PROVE  Cleared(PacketsIn(Data))
  <1>1. Basis /\ Typed
    BY DEF Core, Basis
  <1>2. Running
    BY DEF InUse, Running
  <1>3. L \in Levels /\ proc.buf \in DOMAIN list[L] /\ list[L][proc.buf].ip # "null"
    BY <1>1, <1>2, HookIs
  <1>4. PICK l \in Levels, k \in DOMAIN list[L] : l = L /\ k = proc.buf
    BY <1>3
  <1>5. PICK b : b = [ip |-> list[l][k].ip, data |-> <<>>]
    OBVIOUS
  <1>6. Wrote(list', l, k, b)
    <2>1. list' = [list EXCEPT ![l][k].data = <<>>]
      BY <1>4 DEF SetData
    <2>2. <<>> \in Parts
      BY NoParts
    <2> QED BY <2>1, <2>2, <1>1, <1>4, <1>5, StoreIs
  <1>7. b.data = <<>> /\ b.ip # "null"
    BY <1>3, <1>4, <1>5
  <1>8. \A m, j : Awaiting(m, j) => m = l /\ j = k
    BY <1>4 DEF Awaiting
  <1>9. Cleared(PacketsIn(list[l][k].data))
    BY <1>4, <1>6, <1>7, <1>8, ClearsBuffer
  <1> QED BY <1>4, <1>9 DEF Data

\* A failed expansion.
LEMMA ExpandFailsStep ==
  ASSUME Core, Alive, InUse, proc.pc # "stamp", ExpandFails, todo' = todo,
         consuela' = consuela, module' = module, crashed' = crashed, raced' = raced
  PROVE  Core'
  <1>1. Basis /\ Typed /\ ProcInv
    BY DEF Core, Basis
  <1>2. Running
    BY DEF InUse, Running
  <1>3. /\ L \in Levels /\ L \in {"app", "ip"} /\ Data \in Parts /\ Part \in NonEmpty
        /\ proc.skb \in Frames /\ proc.skb.proto # "ip" /\ Len(proc.skb.parts) = 1
    BY <1>1, <1>2, HookIs
  <1>4. Fault /\ SetData(<<>>)
    BY DEF ExpandFails
  <1>5. Later /\ faults' \in 0..MaxFaults /\ faults' > 0
    BY <1>1, <1>4, TypeParts, LaterIs
  <1>6. PICK skb : skb = [proc.skb EXCEPT !.torn = L = "app" \/ proc.skb.torn]
    OBVIOUS
  <1>7. skb \in Frames /\ skb.parts = proc.skb.parts /\ skb.proto = proc.skb.proto
    BY <1>3, <1>6 DEF Frames
  <1>8. PICK S, D : S = PacketsIn(skb.parts) /\ D = PacketsIn(Data)
    OBVIOUS
  <1>9. S \subseteq Packets /\ D \subseteq Packets
    BY <1>3, <1>7, <1>8, FrameIs, PacketsType
  <1>10. Handed(skb, S, D)
    <2>1. CASE L = "app" /\ "ip" \in Levels
      <3>1. proc' = Enter("ip", skb) /\ lost' = lost \cup D /\ leaving' = None
            /\ gone' = gone
        BY <1>6, <1>8, <2>1 DEF ExpandFails
      <3>2. Moved({}, D)
        BY <1>1, <1>9, <3>1, LosesIs
      <3>3. ProcInv' /\ Running' /\ ~InUse' /\ ReadInv' /\ proc' \in ProcType
        BY <1>3, <1>5, <1>7, <2>1, <3>1, ProcStarts
      <3>4. proc'.skb = skb
        BY <1>7, <3>1, EnterIs
      <3> QED BY <3>1, <3>2, <3>3, <3>4 DEF Handed
    <2>2. CASE ~(L = "app" /\ "ip" \in Levels)
      <3>1. /\ proc' = Idle
            /\ lost' = lost \cup D \cup (IF skb.torn THEN S ELSE {})
            /\ IF skb.torn THEN leaving' = None /\ gone' = gone
               ELSE /\ leaving' = skb
                    /\ gone' = [p \in Packets |-> gone[p] + (IF p \in S THEN 1 ELSE 0)]
        BY <1>6, <1>8, <2>2 DEF ExpandFails
      <3>2. ProcInv' /\ ~Running' /\ ~InUse' /\ ReadInv' /\ proc' \in ProcType
        BY <3>1, ProcDone
      <3>3. CASE skb.torn
        <4>1. lost' = lost \cup (S \cup D) /\ gone' = gone /\ S \cup D \subseteq Packets
          BY <3>1, <3>3, <1>9
        <4>2. Moved({}, S \cup D)
          BY <4>1, <1>1, LosesIs
        <4> QED BY <3>1, <3>2, <3>3, <4>2 DEF Handed
      <3>4. CASE ~skb.torn
        <4>1. lost' = lost \cup D
          BY <3>1, <3>4
        <4>2. Moved(S, D)
          BY <4>1, <3>1, <3>4, <1>1, <1>9, LeavesIs
        <4> QED BY <3>1, <3>2, <3>4, <4>2 DEF Handed
      <3> QED BY <3>3, <3>4
    <2> QED BY <2>1, <2>2
  <1>11. Cleared(D)
    <2>1. ~InUse'
      BY <1>10 DEF Handed
    <2> QED BY <2>1, <1>4, <1>5, <1>8, SetNoData
  <1>12. ~raced => Coded(skb.parts) /\ Balanced(S, D, D)
    <2>1. ~raced => Coded(skb.parts)
      BY <1>2, <1>7 DEF Core, StampInv
    <2>2. \A p : p \in S <=> Carried(p)
      BY <1>1, <1>2, <1>7, <1>8, CarriedIs
    <2> QED BY <2>1, <2>2 DEF Balanced
  <1>13. Handed(skb, PacketsIn(skb.parts), D)
         /\ (~raced => Balanced(PacketsIn(skb.parts), D, D))
    BY <1>8, <1>10, <1>12
  <1> QED BY <1>2, <1>4, <1>5, <1>7, <1>11, <1>12, <1>13, HandedStep

\* Room for the buffered data.
LEMMA ExpandStep ==
  ASSUME Core, Expand
  PROVE  Core'
  <1>1. Basis /\ Typed
    BY DEF Core, Basis
  <1>2. Alive /\ Running /\ proc.pc = "expand" /\ InUse
    BY DEF Expand, Working, Running, InUse
  <1>3. todo' = todo /\ consuela' = consuela /\ module' = module
        /\ raced' = raced /\ crashed' = crashed
    BY DEF Expand
  <1>4. L \in Levels /\ proc \in ProcType /\ Data \in Parts
    BY <1>1, <1>2, HookIs
  <1>5. CASE ExpandFails
    BY <1>2, <1>3, <1>5, ExpandFailsStep
  <1>6. CASE /\ proc' = [proc EXCEPT !.pc = "put", !.put = DataLen(L, Data)]
             /\ Stays /\ list' = list /\ faults' = faults
    <2>1. PICK n \in Nat : n = DataLen(L, Data)
      BY <1>4, LengthIs
    <2>2. proc' = [proc EXCEPT !.pc = "put", !.put = n]
      BY <1>6, <2>1
    <2>3. proc' \in ProcType /\ proc'.pc = "put" /\ proc'.level = L
          /\ proc'.skb = proc.skb /\ proc'.buf = proc.buf /\ proc'.put = n
          /\ proc'.copied = proc.copied
      BY <1>4, <2>2 DEF ProcType, L
    <2>4. InUse'
      BY <2>3 DEF InUse
    <2> QED BY <1>2, <1>3, <1>6, <2>1, <2>3, <2>4, ReadsStep
  <1> QED BY <1>5, <1>6 DEF Expand

\* The new header.
LEMMA TotalStep ==
  ASSUME Core, Total
  PROVE  Core'
  <1>1. Basis /\ Typed
    BY DEF Core, Basis
  <1>2. Alive /\ Running /\ proc.pc = "total" /\ InUse
    BY DEF Total, Working, Running, InUse
  <1>3. todo' = todo /\ consuela' = consuela /\ module' = module
        /\ raced' = raced /\ crashed' = crashed
    BY DEF Total
  <1>4. L \in Levels /\ proc \in ProcType
    BY <1>1, <1>2, HookIs
  <1>5. CASE ExpandFails
    BY <1>2, <1>3, <1>5, ExpandFailsStep
  <1>6. CASE /\ proc' = [proc EXCEPT !.pc = "reset",
                                     !.torn = @ \/ DataLen(L, Data) # proc.put]
             /\ Stays /\ list' = list /\ faults' = faults
    <2>1. PICK t : t = (proc.torn \/ DataLen(L, Data) # proc.put)
      OBVIOUS
    <2>2. proc' = [proc EXCEPT !.pc = "reset", !.torn = t] /\ t \in BOOLEAN
      BY <1>6, <2>1
    <2>3. proc' \in ProcType /\ proc'.pc = "reset" /\ proc'.level = L
          /\ proc'.skb = proc.skb /\ proc'.buf = proc.buf /\ proc'.put = proc.put
          /\ proc'.copied = proc.copied /\ proc'.torn = t
      BY <1>4, <2>2 DEF ProcType, L
    <2>4. InUse'
      BY <2>3 DEF InUse
    <2>5. ~raced => proc.put = DataLen(L, Data) /\ proc.copied = Data /\ ~proc.torn
      BY <1>1, <1>2 DEF Basis, ReadInv
    <2> QED BY <1>2, <1>3, <1>6, <2>1, <2>3, <2>4, <2>5, ReadsStep
  <1> QED BY <1>5, <1>6 DEF Total

\* reset_buffer.
LEMMA ResetStep ==
  ASSUME Core, Reset
  PROVE  Core'
  <1>1. Basis /\ Typed /\ ProcInv
    BY DEF Core, Basis
  <1>2. Alive /\ Running /\ proc.pc = "reset" /\ InUse
    BY DEF Reset, Working, Running, InUse
  <1>3. todo' = todo /\ consuela' = consuela /\ module' = module /\ raced' = raced
        /\ faults' = faults /\ crashed' = crashed /\ SetData(<<>>)
    BY DEF Reset
  <1>4. /\ L \in Levels /\ proc \in ProcType /\ Data \in Parts /\ Part \in NonEmpty
        /\ proc.buf \in DOMAIN list[L]
        /\ proc.skb.parts = <<Part>> /\ proc.skb.proto # "ip" /\ Joins(L, Part, Data)
        /\ (proc.skb.torn => faults > 0 \/ raced) /\ proc.skb \in Frames
    BY <1>1, <1>2, HookIs
  <1>5. Later
    BY <1>1, <1>3, TypeParts, LaterIs
  <1>6. PICK skb : skb = [Aggregate(L, Part, proc.copied) EXCEPT
                            !.torn = proc.torn \/ proc.skb.torn]
    OBVIOUS
  <1>7. Accept(skb)
    BY <1>6 DEF Reset
  <1>8. ~raced => proc.copied = Data /\ ~proc.torn
    BY <1>1, <1>2 DEF Basis, ReadInv
  <1>9. PICK fr : fr = Aggregate(L, Part, proc.copied)
    OBVIOUS
  <1>10. /\ fr \in Frames /\ fr.proto = L
         /\ PacketsIn(fr.parts) = PacketsIn(<<Part>>) \cup PacketsIn(proc.copied)
         /\ L = "app" => Len(fr.parts) = 1
         /\ Coded(<<Part>> \o proc.copied) => Coded(fr.parts)
    <2>1. Joins(L, Part, proc.copied)
      BY <1>1, <1>2, HookIs
    <2> QED BY <2>1, <1>9, AggregateIs
  <1>11. PICK t \in BOOLEAN : t = (proc.torn \/ proc.skb.torn)
    OBVIOUS
  <1>12. skb \in Frames /\ skb.proto = L /\ skb.parts = fr.parts /\ skb.torn = t
    <2>1. skb = [fr EXCEPT !.torn = t]
      BY <1>6, <1>9, <1>11
    <2> QED BY <2>1, <1>10 DEF Frames
  <1>13. Whole(skb)
    <2>1. skb.torn => faults' > 0 \/ raced'
      BY <1>3, <1>4, <1>8, <1>11, <1>12
    <2>2. skb.proto # "ip" => Len(skb.parts) = 1
      BY <1>1, <1>2, <1>10, <1>12, HookIs
    <2> QED BY <2>1, <2>2, <1>12 DEF Whole
  <1>14. Handed(skb, PacketsIn(skb.parts), {})
    BY <1>1, <1>7, <1>13, AcceptIs
  <1>15. Cleared(PacketsIn(Data))
    <2>1. ~InUse'
      BY <1>14 DEF Handed
    <2> QED BY <2>1, <1>2, <1>3, <1>5, SetNoData
  <1>16. ASSUME ~raced
         PROVE  Coded(skb.parts) /\ Balanced(PacketsIn(skb.parts), {}, PacketsIn(Data))
    <2>1. Coded(<<Part>> \o Data)
      <3>1. BuffersCoded /\ Awaiting(L, proc.buf)
        BY <1>2, <1>16 DEF Core, StampInv, Awaiting
      <3> QED BY <3>1, <1>4 DEF BuffersCoded, Data
    <2>2. Coded(skb.parts)
      BY <2>1, <1>8, <1>10, <1>12, <1>16
    <2>3. PacketsIn(skb.parts) = PacketsIn(<<Part>>) \cup PacketsIn(Data)
      BY <1>8, <1>10, <1>12, <1>16
    <2>4. \A p : Carried(p) <=> p \in PacketsIn(<<Part>>)
      BY <1>1, <1>2, <1>4, CarriedIs
    <2> QED BY <2>2, <2>3, <2>4 DEF Balanced
  <1>17. skb.torn => faults' > 0 \/ raced'
    BY <1>13 DEF Whole
  <1> QED BY <1>2, <1>3, <1>12, <1>14, <1>15, <1>16, <1>17, HandedStep

\* The new node, or the failure to make one.
LEMMA CreateStep ==
  ASSUME Core, LinkInv, Create
  PROVE  Core'
  <1>1. Basis /\ Typed /\ ProcInv /\ BufferInv /\ ConsuelaInv
    BY DEF Core, Basis
  <1>2. Alive /\ Running /\ proc.pc = "create" /\ ~InUse /\ crashed = "no"
    BY DEF Create, Working, Running, InUse, Alive
  <1>3. todo' = todo /\ consuela' = consuela /\ module' = module /\ raced' = raced
        /\ (faults' = faults \/ Fault)
    BY DEF Create
  <1>4. /\ L \in Levels /\ L \in {"app", "ip"} /\ proc \in ProcType
        /\ proc.skb \in Frames /\ Part \in NonEmpty
        /\ proc.skb.proto # "ip" => proc.skb.parts = <<Part>>
        /\ proc.skb.proto # "ip" => Len(proc.skb.parts) = 1
        /\ L = "app" => proc.skb.proto # "ip" /\ Len(Part) = 1
        /\ proc.skb.torn => faults > 0 \/ raced
    BY <1>1, <1>2, HookIs
  <1>5. Later /\ faults' \in 0..MaxFaults /\ (Fault => faults' > 0)
    BY <1>1, <1>3, TypeParts, LaterIs
  <1>6. Whole(proc.skb)
    BY <1>4, <1>5 DEF Whole, Later
  <1>7. ~raced => Coded(proc.skb.parts)
    BY <1>2 DEF Core, StampInv
  <1>8. PICK ip \in {Dst[p] : p \in Packets} : ip = DstOf(proc.skb) /\ ip # "null"
    BY <1>4, FrameIs
  <1>a. links[L] \in LinkType /\ (Broken(links[L]) => faults > 0)
    <2>1. PICK l \in Levels : l = L
      BY <1>4
    <2>2. links[l] \in LinkType /\ (Broken(links[l]) => faults > 0)
      BY DEF LinkInv
    <2> QED BY <2>1, <2>2
  <1>b. PICK q \in Nat : q = IF links[L].first = 0 THEN 0 ELSE links[L].last
    BY <1>a DEF LinkType
  <1>9. ASSUME NEW b, b = [ip |-> ip, data |-> <<>>] \/ (b = NULL /\ Fault),
               list' = [list EXCEPT ![L] = Append(@, b)],
               proc' = [proc EXCEPT !.pc = "link", !.buf = Len(list[L]) + 1, !.prev = q],
               Stays, crashed' = crashed
        PROVE  Core'
    <2>2. b \in Buffers /\ b.data = <<>> /\ (b.ip = "null" => b = NULL /\ faults' > 0)
      <3>1. CASE b = [ip |-> ip, data |-> <<>>]
        BY <1>8, <3>1, NodeIs, NoParts
      <3>2. CASE b = NULL /\ Fault
        BY <1>5, <3>2, NodeIs
      <3> QED BY <1>9, <3>1, <3>2
    <2>3. PICK l, k : l = L /\ k = Len(list[L]) + 1
      OBVIOUS
    <2>4. Wrote(list', l, k, b) /\ k \notin DOMAIN list[l] /\ k \in Nat
      BY <1>1, <1>4, <1>9, <2>2, <2>3, AppendIs
    <2>5. proc' \in ProcType /\ proc'.pc = "link" /\ proc'.level = L
          /\ proc'.skb = proc.skb /\ proc'.buf = k /\ proc'.copied = proc.copied
      BY <1>4, <1>9, <2>3, <2>4 DEF ProcType, L
    <2>6. ~InUse' /\ Running' /\ L' = L /\ Part' = Part
      BY <2>5 DEF InUse, Running, L, Part
    <2>7. Cleared({})
      <3>1. GoodNode(l, b)
        BY <2>2, NoParts DEF GoodNode
      <3> QED BY <3>1, <1>2, <1>5, <2>2, <2>4, <2>6, ClearsNew
    <2>8. ProcInv'
      <3>1. L = "app" => Singles(proc.copied)
        BY <1>1 DEF ProcInv
      <3> QED BY <1>4, <1>5, <1>6, <2>5, <2>6, <3>1
              DEF ProcInv, Whole
    <2>9. Moved({}, {}) /\ leaving' = None
      BY <1>1, <1>9, StaysIs
    <2>10. Basis'
      <3>1. ConsuelaInv' /\ BufferInv'
        BY <1>1, <1>3, <1>5, <2>7, ConsuelaWaits DEF Cleared
      <3>2. Typed'
        BY <1>1, <1>3, <1>5, <1>9, <2>5, <2>7, <2>9, TypeParts, TypeBack DEF Cleared
      <3>3. CrashNeedsCause'
        BY <1>2, <1>9 DEF CrashNeedsCause
      <3>4. ReadInv'
        BY <2>5 DEF ReadInv
      <3> QED BY <2>8, <3>1, <3>2, <3>3, <3>4 DEF Basis
    <2>11. ASSUME ~raced' PROVE PlaceInv' /\ StampInv'
      <3>1. PlaceInv /\ StampInv /\ ~raced
        BY <1>3, <2>11 DEF Core
      <3>2. PlaceInv'
        BY <1>1, <1>2, <1>3, <1>5, <2>5, <2>6, <2>7, <2>8, <2>9, <3>1, QuietPlaces
           DEF Cleared
      <3>3. StampInv'
        BY <1>2, <1>3, <2>5, <2>7, <2>9, <3>1 DEF StampInv, Cleared
      <3> QED BY <3>2, <3>3
    <2> QED BY <2>10, <2>11 DEF Core
  <1>10. CASE /\ Fault /\ list' = list /\ crashed' = crashed /\ Stays
              /\ proc' = [proc EXCEPT !.pc = "link", !.buf = 0, !.prev = q]
    <2>1. proc' \in ProcType /\ proc'.pc = "link" /\ proc'.level = L
          /\ proc'.skb = proc.skb /\ proc'.copied = proc.copied
      BY <1>4, <1>10 DEF ProcType, L
    <2>2. ~InUse' /\ Running' /\ L' = L /\ Part' = Part
      BY <2>1 DEF InUse, Running, L, Part
    <2>3. ProcInv'
      <3>1. L = "app" => Singles(proc.copied)
        BY <1>1 DEF ProcInv
      <3> QED BY <1>4, <1>5, <1>6, <2>1, <2>2, <3>1 DEF ProcInv, Whole
    <2>4. ReadInv' /\ \A l, k : ~Awaiting(l, k)' /\ ~Awaiting(l, k)
      BY <1>2, <2>1, <2>2 DEF ReadInv, Awaiting
    <2>5. CrashNeedsCause'
      BY <1>2, <1>10 DEF CrashNeedsCause
    <2> QED BY <1>2, <1>3, <1>10, <2>1, <2>3, <2>4, <2>5, QuietHook
  <1>11. CASE /\ Fault \/ (Broken(links[L]) /\ faults' = faults)
              /\ crashed' = "null" /\ Stays /\ list' = list /\ proc' = proc
    <2>1. Kept
      BY <1>1, <1>5, <1>11, ListKept
    <2>2. ProcInv'
      BY <1>1, <1>5, <1>11, <2>1, ProcWaits
    <2>3. ReadInv' /\ \A l, k : ~Awaiting(l, k)' /\ ~Awaiting(l, k)
      BY <1>2, <1>11 DEF ReadInv, Awaiting, InUse
    <2>4. CrashNeedsCause'
      BY <1>5, <1>11, <1>a DEF CrashNeedsCause
    <2> QED BY <1>2, <1>3, <1>4, <1>11, <2>2, <2>3, <2>4, QuietHook DEF L
  <1> QED BY <1>3, <1>8, <1>9, <1>10, <1>11, <1>b DEF Create

\* The first store.
LEMMA LinkStep ==
  ASSUME Core, Link
  PROVE  Core'
  <1>1. Basis /\ Typed /\ ProcInv /\ BufferInv
    BY DEF Core, Basis
  <1>2. Alive /\ Running /\ proc.pc = "link" /\ ~InUse /\ crashed = "no"
    BY DEF Link, Working, Running, InUse, Alive
  <1>3. list' = list /\ todo' = todo /\ consuela' = consuela /\ module' = module
        /\ raced' = raced /\ Stays /\ faults' = faults /\ crashed' = crashed
        /\ proc' = [proc EXCEPT !.pc = "last"]
    BY DEF Link
  <1>4. Later /\ Kept
    BY <1>1, <1>3, TypeParts, LaterIs, ListKept
  <1>5. proc' \in ProcType /\ proc'.pc = "last" /\ proc'.level = L
        /\ proc'.skb = proc.skb /\ proc'.buf = proc.buf /\ proc'.copied = proc.copied
    BY <1>1, <1>3, TypeParts DEF ProcType, L
  <1>6. ~InUse'
    BY <1>5 DEF InUse
  <1>7. ProcInv'
    BY <1>1, <1>2, <1>4, <1>5, <1>6, ProcGoesOn
  <1>8. ReadInv' /\ \A l, k : ~Awaiting(l, k)' /\ ~Awaiting(l, k)
    BY <1>2, <1>5, <1>6 DEF ReadInv, Awaiting
  <1>9. CrashNeedsCause'
    BY <1>2, <1>3 DEF CrashNeedsCause
  <1> QED BY <1>2, <1>3, <1>5, <1>7, <1>8, <1>9, QuietHook

\* The second store, after which a packet without a buffer goes on.
LEMMA LinkLastStep ==
  ASSUME Core, LinkInv, LinkLast
  PROVE  Core'
  <1>1. Basis /\ Typed /\ ProcInv /\ BufferInv /\ ConsuelaInv
    BY DEF Core, Basis
  <1>2. Alive /\ Running /\ proc.pc = "last" /\ ~InUse /\ crashed = "no"
    BY DEF LinkLast, Working, Running, InUse, Alive
  <1>3. todo' = todo /\ consuela' = consuela /\ module' = module /\ raced' = raced
        /\ faults' = faults /\ crashed' = crashed /\ list' = list
    BY DEF LinkLast
  <1>4. /\ L \in Levels /\ L \in {"app", "ip"} /\ proc \in ProcType
        /\ proc.skb \in Frames /\ Part \in NonEmpty
        /\ proc.skb.proto # "ip" => proc.skb.parts = <<Part>>
        /\ proc.skb.proto # "ip" => Len(proc.skb.parts) = 1
        /\ L = "app" => proc.skb.proto # "ip" /\ Len(Part) = 1
        /\ proc.skb.torn => faults > 0 \/ raced
    BY <1>1, <1>2, HookIs
  <1>5. Later /\ faults' \in 0..MaxFaults /\ (Fault => faults' > 0)
    BY <1>1, <1>3, TypeParts, LaterIs
  <1>6. Whole(proc.skb)
    BY <1>4, <1>5 DEF Whole, Later
  <1>7. ~raced => Coded(proc.skb.parts)
    BY <1>2 DEF Core, StampInv
  <1>8. proc.buf = 0 => faults' > 0
    BY <1>2, <1>3 DEF LinkInv, ExtendInv
  <1>9. CASE /\ proc.buf # 0 /\ list[L][proc.buf] # NULL /\ Stays
             /\ proc' = [proc EXCEPT !.pc = "peek", !.prev = 0]
    <2>1. proc' \in ProcType /\ proc'.pc = "peek" /\ proc'.level = L
          /\ proc'.skb = proc.skb /\ proc'.buf = proc.buf /\ proc'.copied = proc.copied
      BY <1>4, <1>9 DEF ProcType, L
    <2>2. ~InUse' /\ Running' /\ L' = L /\ Part' = Part
      BY <2>1 DEF InUse, Running, L, Part
    <2>3. proc.buf \in DOMAIN list[L] /\ list[L][proc.buf].ip # "null"
      <3>1. proc.buf \in DOMAIN list[L]
        BY <1>2, <1>9 DEF LinkInv, ExtendInv
      <3> QED BY <1>1, <1>4, <1>9, <3>1 DEF BufferInv
    <2>4. ProcInv'
      <3>1. L = "app" => Singles(proc.copied)
        BY <1>1 DEF ProcInv
      <3> QED BY <1>3, <1>4, <1>5, <1>6, <2>1, <2>2, <2>3, <3>1 DEF ProcInv, Whole
    <2>5. ReadInv' /\ \A l, k : ~Awaiting(l, k)' /\ ~Awaiting(l, k)
      BY <1>2, <2>1, <2>2 DEF ReadInv, Awaiting
    <2>6. CrashNeedsCause'
      BY <1>2, <1>3 DEF CrashNeedsCause
    <2> QED BY <1>2, <1>3, <1>9, <2>1, <2>4, <2>5, <2>6, QuietHook
  <1>10. CASE Accept(proc.skb)
    <2>1. ~InUse'
      BY <1>1, <1>6, <1>10, AcceptIs DEF Handed
    <2>2. Cleared({})
      BY <1>2, <1>3, <1>5, <2>1, ClearsNothing
    <2> QED BY <1>2, <1>3, <1>6, <1>7, <1>10, <2>2, AcceptsStep
  <1>11. CASE /\ proc.skb.proto # "ip"
              /\ Accept([Aggregate(L, Part, <<>>) EXCEPT !.torn = proc.skb.torn])
    <2>0. PICK d : d = <<>>
      OBVIOUS
    <2>1. PICK ag : ag = Aggregate(L, Part, d)
      OBVIOUS
    <2>a. /\ ag \in Frames /\ ag.proto = L /\ ~ag.torn
          /\ PacketsIn(ag.parts) = PacketsIn(<<Part>>) \cup PacketsIn(d)
          /\ L = "app" => Len(ag.parts) = 1
          /\ Coded(<<Part>> \o d) => Coded(ag.parts)
      <3>1. Joins(L, Part, d)
        BY <1>4, <2>0, NoParts DEF Joins
      <3> QED BY <3>1, <2>1, AggregateIs
    <2>b. PICK fr : fr = [ag EXCEPT !.torn = proc.skb.torn]
      OBVIOUS
    <2>c. fr \in Frames /\ fr.proto = ag.proto /\ fr.parts = ag.parts
          /\ fr.torn = proc.skb.torn
      BY <1>4, <2>a, <2>b, FrameIs DEF Frames
    <2>2. /\ fr \in Frames /\ fr.proto = L
          /\ PacketsIn(fr.parts) = PacketsIn(<<Part>>) \cup PacketsIn(d)
          /\ L = "app" => Len(fr.parts) = 1
          /\ Coded(<<Part>> \o d) => Coded(fr.parts)
      BY <2>a, <2>c
    <2>3. Whole(fr)
      BY <1>4, <1>6, <2>2, <2>c DEF Whole
    <2>4. PacketsIn(fr.parts) = PacketsIn(proc.skb.parts)
      BY <1>4, <1>11, <2>0, <2>2, NoParts
    <2>5. ~raced => Coded(fr.parts)
      <3>1. <<Part>> \o d = <<Part>>
        BY <2>0
      <3> QED BY <3>1, <1>4, <1>7, <1>11, <2>2
    <2>6. ~InUse'
      BY <1>1, <1>11, <2>0, <2>1, <2>b, <2>3, AcceptIs DEF Handed
    <2>7. Cleared({})
      BY <1>2, <1>3, <1>5, <2>6, ClearsNothing
    <2> QED BY <1>2, <1>3, <1>11, <2>0, <2>1, <2>b, <2>3, <2>4, <2>5, <2>7, AcceptsStep
  <1>12. CASE /\ proc.buf = 0 /\ proc' = Idle
              /\ lost' = lost \cup PacketsIn(proc.skb.parts) /\ leaving' = None
              /\ gone' = gone
    \* As if the frame had been torn and sent.
    <2>1. PICK skb : skb = [proc.skb EXCEPT !.torn = TRUE]
      OBVIOUS
    <2>2. skb \in Frames /\ skb.parts = proc.skb.parts /\ skb.torn
      BY <1>4, <2>1 DEF Frames
    <2>3. ProcInv' /\ ~Running' /\ ~InUse' /\ ReadInv' /\ proc' \in ProcType
      BY <1>12, ProcDone
    <2>4. Moved({}, PacketsIn(skb.parts) \cup {})
      <3>1. PacketsIn(skb.parts) \cup {} = PacketsIn(proc.skb.parts)
        BY <2>2
      <3> QED BY <3>1, <1>1, <1>4, <1>12, FrameIs, LosesIs
    <2>5. Handed(skb, PacketsIn(skb.parts), {})
      BY <1>12, <2>2, <2>3, <2>4 DEF Handed
    <2>6. Cleared({})
      BY <1>2, <1>3, <1>5, <2>3, ClearsNothing
    <2>7. Balanced(PacketsIn(skb.parts), {}, {})
      BY <1>1, <1>2, <2>2, CarriedIs DEF Balanced
    <2> QED BY <1>2, <1>3, <1>7, <1>8, <1>12, <2>2, <2>5, <2>6, <2>7, HandedStep
  <1> QED BY <1>9, <1>10, <1>11, <1>12 DEF LinkLast

\* All steps of a hook.
LEMMA HookStep ==
  ASSUME Core, LinkInv, Hook
  PROVE  Core'
  BY LookupStep, CreateStep, LinkStep, LinkLastStep, PeekStep, StampPreviousStep,
     DecideStep, PushStep, ExpandStep, PutStep, CopyStep, TotalStep, ResetStep DEF Hook

-----------------------------------------------------------------------------
(* The steps of others.                                                    *)

\* The node's process sends a packet.
LEMMA SendStep ==
  ASSUME Core, NEW p \in Own, Send(p)
  PROVE  Core'
  <1>1. Basis /\ Typed /\ ProcInv /\ BufferInv /\ ConsuelaInv
    BY DEF Core, Basis
  <1>2. Alive /\ ~Running /\ ~InUse /\ crashed = "no" /\ p \in todo /\ p \in Packets
    BY DEF Send, Working, Running, InUse, Alive, Packets
  <1>3. todo' = todo \ {p} /\ list' = list /\ consuela' = consuela /\ module' = module
        /\ crashed' = crashed /\ raced' = raced /\ faults' = faults /\ Stays
    BY DEF Send
  <1>4. Later /\ faults' \in 0..MaxFaults
    BY <1>1, <1>3, TypeParts, LaterIs
  <1>5. PICK l \in Levels : l = IF "app" \in Levels THEN "app" ELSE "ip"
    BY AggregationAssumption
  <1>6. PICK skb \in Frames : skb = Frame("udp", <<Plain(p)>>)
    BY <1>2, PlainIs
  <1>7. skb.proto = "udp" /\ skb.parts = <<Plain(p)>> /\ ~skb.torn
    BY <1>6 DEF Frame
  <1>8. PICK x \in NonEmpty : x = Plain(p) /\ Len(x) = 1
    BY <1>2, PlainIs
  <1>9. Len(skb.parts) = 1 /\ Len(skb.parts[1]) = 1 /\ PacketsIn(skb.parts) = {p}
    BY <1>2, <1>7, <1>8, PlainIs
  <1>10. proc' = Enter(l, skb)
    BY <1>5, <1>6 DEF Send
  <1>11. ProcInv' /\ Running' /\ ~InUse' /\ ReadInv' /\ proc' \in ProcType
    BY <1>7, <1>9, <1>10, ProcStarts
  <1>12. proc'.skb = skb
    BY <1>10, AggregationAssumption, EnterIs
  <1>13. Cleared({})
    BY <1>2, <1>3, <1>4, <1>11, ClearsNothing
  <1>14. Moved({}, {}) /\ leaving' = None
    BY <1>1, <1>3, StaysIs
  <1>15. Basis'
    <2>1. ConsuelaInv' /\ BufferInv'
      BY <1>1, <1>3, <1>4, <1>13, ConsuelaWaits DEF Cleared
    <2>2. todo' \subseteq Packets
      BY <1>1, <1>3, TypeParts
    <2>3. Typed'
      BY <2>2, <1>1, <1>3, <1>4, <1>11, <1>13, <1>14, TypeParts, TypeBack DEF Cleared
    <2>4. CrashNeedsCause'
      BY <1>2, <1>3 DEF CrashNeedsCause
    <2> QED BY <1>11, <2>1, <2>3, <2>4 DEF Basis
  <1>16. ASSUME ~raced' PROVE PlaceInv' /\ StampInv'
    <2>1. PlaceInv /\ StampInv /\ ~raced
      BY <1>3, <1>16 DEF Core
    <2>2. ASSUME NEW q \in Packets
          PROVE  IF q \in todo' THEN Absent(q)' ELSE OncePresent(q)'
      <3>1. IF q \in todo THEN Absent(q) ELSE OncePresent(q)
        BY <1>2, <2>1 DEF PlaceInv
      <3>2. ~Carried(q) /\ (Carried(q)' <=> q = p)
        BY <1>1, <1>2, <1>9, <1>11, <1>12, CarriedIs
      <3>3. Collected(q)' <=> Collected(q)
        BY <1>3 DEF Collected
      <3>4. gone'[q] = gone[q] /\ (q \in lost' <=> q \in lost)
        BY <1>3 DEF Stays
      <3>5. (Buffered(q)' <=> Buffered(q)) /\ (OneBuffer(q) => OneBuffer(q)')
        BY <1>13 DEF Cleared, Vacated
      <3>6. ~Buffered(q) => OneBuffer(q)
        BY DEF Buffered, OneBuffer
      <3> QED BY <1>2, <1>3, <3>1, <3>2, <3>3, <3>4, <3>5, <3>6
              DEF Absent, OncePresent
    <2>3. PlaceInv'
      BY <1>3, <2>1, <2>2 DEF PlaceInv, Stays
    <2>4. Coded(proc'.skb.parts)
      BY <1>2, <1>7, <1>12, CodedPlain
    <2>5. StampInv'
      BY <1>3, <1>13, <1>14, <2>1, <2>4 DEF StampInv, Cleared
    <2> QED BY <2>3, <2>5
  <1> QED BY <1>15, <1>16 DEF Core

\* The basis after a step in which the hook waits.
LEMMA WaitsBasis ==
  ASSUME Basis, proc' = proc, consuela' \in ConsuelaType, ConsuelaInv', Later,
         module' \in {"running", "stopping", "stopped", "freed", "gone"},
         faults' \in 0..MaxFaults, todo' \subseteq Packets,
         crashed' \in {"no", "null", "panic", "freed", "kfree", "unlock"}, CrashNeedsCause',
         NEW S, NEW D, Moved(S, D), leaving' \in Frames \cup {None},
         list' \in [Levels -> Seq(Buffers)], BufferInv',
         Kept \/ ~Running, ~raced' => ReadInv'
  PROVE  Basis'
  <1>1. Typed /\ ProcInv
    BY DEF Basis
  <1>2. ProcInv'
    <2>1. CASE Kept
      BY <2>1, <1>1, ProcWaits
    <2>2. CASE ~Running
      <3>1. proc' = Idle
        BY <2>2, <1>1 DEF ProcInv
      <3> QED BY <3>1, ProcDone
    <2> QED BY <2>1, <2>2
  <1>3. proc' \in ProcType /\ raced' \in BOOLEAN
    BY <1>1, TypeParts DEF Later
  <1>4. Typed'
    BY <1>3, TypeBack
  <1> QED BY <1>2, <1>4 DEF Basis

\* A buffer that is emptied.
LEMMA VacatedBy ==
  ASSUME NEW l, NEW k, NEW b, Wrote(list', l, k, b), b.data = <<>>, NEW V,
         \A p : p \in V <=> Inside(p, l, k)
  PROVE  Vacated(V)
  <1> SUFFICES ASSUME NEW p
               PROVE  /\ Inside(p, l, k) =>
                           /\ Buffered(p)
                           /\ OneBuffer(p) => ~Buffered(p)' /\ OneBuffer(p)'
                      /\ ~Inside(p, l, k) =>
                           /\ Buffered(p)' <=> Buffered(p)
                           /\ OneBuffer(p) => OneBuffer(p)'
    BY DEF Vacated
  <1>1. p \notin PacketsIn(b.data)
    BY NoParts
  <1> QED BY <1>1, WroteMoves

\* A forwarded packet goes out or is lost, and so do those of a buffer.
LEMMA ForwardPlaces ==
  ASSUME PlaceInv, Typed, crashed = "no", NEW f \in Packets, f \in todo,
         todo' = todo \ {f}, proc' = proc, consuela' = consuela, module' = module,
         Later, NEW V, Vacated(V), NEW S, NEW D, Moved(S, D), D # {} => faults' > 0,
         \/ S = {f} \cup V /\ D = {}
         \/ S = {f} /\ D = V
         \/ S = {} /\ D = {f} /\ V = {}
  PROVE  PlaceInv'
  <1>1. ASSUME NEW p \in Packets
        PROVE  IF p \in todo' THEN Absent(p)' ELSE OncePresent(p)'
    <2>1. IF p \in todo THEN Absent(p) ELSE OncePresent(p)
      BY DEF PlaceInv
    <2>2. (Carried(p)' <=> Carried(p)) /\ (Collected(p)' <=> Collected(p))
      BY DEF Carried, Collected
    <2>3. gone[p] \in Nat
      BY TypeParts
    <2>4. /\ p \in S => gone'[p] = gone[p] + 1
          /\ p \notin S => gone'[p] = gone[p]
          /\ p \in lost' <=> p \in lost \/ p \in D
      BY <2>3 DEF Moved
    <2>5. /\ p \in V =>
               /\ Buffered(p)
               /\ OneBuffer(p) => ~Buffered(p)' /\ OneBuffer(p)'
          /\ p \notin V => /\ Buffered(p)' <=> Buffered(p)
                           /\ OneBuffer(p) => OneBuffer(p)'
      BY DEF Vacated
    <2>6. ~Buffered(p) => OneBuffer(p)
      BY DEF Buffered, OneBuffer
    <2>7. CASE p = f
      <3>1. Absent(p) /\ p \notin V
        BY <2>1, <2>5, <2>7 DEF Absent
      <3>2. (p \in S /\ p \notin D) \/ (p \notin S /\ p \in D)
        BY <2>7, <3>1
      <3> QED BY <2>2, <2>4, <2>5, <2>6, <2>7, <3>1, <3>2 DEF Absent, OncePresent
    <2>8. CASE p # f
      <3>1. \/ p \notin S /\ p \notin D /\ p \notin V
            \/ p \in S /\ p \notin D /\ p \in V
            \/ p \notin S /\ p \in D /\ p \in V
        BY <2>8
      <3>2. p \in todo' <=> p \in todo
        BY <2>8
      <3> QED BY <2>1, <2>2, <2>3, <2>4, <2>5, <3>1, <3>2 DEF Absent, OncePresent
    <2> QED BY <2>7, <2>8
  <1>2. lost' # {} => lost # {} \/ D # {}
    BY TypeParts DEF Moved
  <1> QED BY <1>1, <1>2 DEF PlaceInv, Later

\* What a hook has read stays true while its buffer does not change.
LEMMA ReadKept ==
  ASSUME ReadInv, proc' = proc, InUse => list'[L][proc.buf] = list[L][proc.buf]
  PROVE  ReadInv'
  <1>1. L' = L /\ Part' = Part
    BY DEF L, Part
  <1>2. InUse => Data' = Data
    BY <1>1 DEF Data
  <1>3. proc.pc \in {"stamp", "push", "put", "copy", "total", "reset"} => InUse
    BY DEF InUse
  <1> QED BY <1>1, <1>2, <1>3 DEF ReadInv

\* The buffers stay coded when one that no hook waits for is written.
LEMMA OthersCoded ==
  ASSUME BuffersCoded, proc' = proc, NEW l, NEW k, NEW b, Wrote(list', l, k, b),
         Coded(b.data), ~Awaiting(l, k)
  PROVE  BuffersCoded'
  <1>1. Part' = Part /\ \A m, j : Awaiting(m, j)' <=> Awaiting(m, j)
    BY DEF Part, Awaiting, InUse, L
  <1> SUFFICES ASSUME NEW m \in Levels, NEW j \in DOMAIN list'[m]
               PROVE  Coded(IF Awaiting(m, j) THEN <<Part>> \o list'[m][j].data
                                              ELSE list'[m][j].data)
    BY <1>1 DEF BuffersCoded
  <1>2. CASE m = l /\ j = k
    BY <1>2 DEF Wrote
  <1>3. CASE ~(m = l /\ j = k)
    <2>1. j \in DOMAIN list[m] /\ list'[m][j] = list[m][j]
      BY <1>3 DEF Wrote
    <2> QED BY <2>1 DEF BuffersCoded
  <1> QED BY <1>2, <1>3

\* The buffers of the post-routing hook: the list, or the list and a new node.
Grown(bufs, k, ip) ==
  \/ /\ bufs = list["ip"] /\ k \in DOMAIN list["ip"] /\ bufs[k].ip = ip
  \/ /\ bufs = Append(list["ip"], [ip |-> ip, data |-> <<>>])
     /\ k = Len(list["ip"]) + 1

\* The softirq writes one of them.
LEMMA InsertIs ==
  ASSUME Typed, "ip" \in Levels, NEW bufs, NEW k,
         NEW ip \in {Dst[p] : p \in Packets}, Grown(bufs, k, ip),
         NEW d \in Parts, NEW new,
         new = [list EXCEPT !["ip"] = [bufs EXCEPT ![k].data = d]]
  PROVE  /\ Wrote(new, "ip", k, [ip |-> ip, data |-> d])
         /\ bufs[k].data \in Parts
         /\ \A p : Inside(p, "ip", k) <=> p \in PacketsIn(bufs[k].data)
         /\ k \in DOMAIN list["ip"] => bufs[k] = list["ip"][k]
         /\ k \notin DOMAIN list["ip"] => bufs[k].data = <<>>
  <1>1. PICK old \in Seq(Buffers) : old = list["ip"] /\ Len(old) \in Nat
                                    /\ DOMAIN old = 1..Len(old)
    BY BufferIs
  <1>2. CASE bufs = old /\ k \in DOMAIN old /\ bufs[k].ip = ip
    <2>1. new = [list EXCEPT !["ip"][k].data = d]
      BY <1>1, <1>2
    <2>2. Wrote(new, "ip", k, [ip |-> list["ip"][k].ip, data |-> d])
      BY <1>1, <1>2, <2>1, StoreIs
    <2>3. bufs[k].data \in Parts
      BY <1>1, <1>2, BufferIs
    <2> QED BY <1>1, <1>2, <2>2, <2>3 DEF Inside
  <1>3. CASE bufs = Append(old, [ip |-> ip, data |-> <<>>]) /\ k = Len(old) + 1
    <2>1. PICK e : e = [ip |-> ip, data |-> <<>>]
      OBVIOUS
    <2>2. PICK b : b = [ip |-> ip, data |-> d]
      OBVIOUS
    <2>3. e \in Buffers /\ b \in Buffers /\ b = [e EXCEPT !.data = d] /\ e.data = <<>>
      <3>1. b = [e EXCEPT !.data = d] /\ e.data = <<>>
        BY <2>1, <2>2
      <3>2. e \in Buffers /\ b \in Buffers
        BY <2>1, <2>2, NoParts, NodeIs
      <3> QED BY <3>1, <3>2
    <2>4. PICK n \in Nat : n = Len(old) /\ DOMAIN old = 1..n
      BY <1>1
    <2>5. bufs = Append(old, e) /\ k = n + 1
      BY <1>3, <2>1, <2>4
    <2>6. bufs[k] = e /\ k \in DOMAIN bufs
      BY <2>4, <2>5
    <2>7. [bufs EXCEPT ![k].data = d] = Append(old, b)
      <3>1. [bufs EXCEPT ![k].data = d] = [bufs EXCEPT ![k] = b]
        BY <2>3, <2>6
      <3>2. [bufs EXCEPT ![k] = b] = Append(old, b)
        <4>1. PICK s, t : s = [bufs EXCEPT ![k] = b] /\ t = Append(old, b)
          OBVIOUS
        <4>2. bufs \in Seq(Buffers) /\ Len(bufs) = n + 1 /\ DOMAIN bufs = 1..(n + 1)
              /\ \A j \in 1..n : bufs[j] = old[j]
          BY <2>3, <2>4, <2>5
        <4>3. s \in Seq(Buffers) /\ Len(s) = n + 1 /\ s[n + 1] = b
              /\ \A j \in 1..n : s[j] = old[j]
          <5>1. b \in Buffers /\ s = [bufs EXCEPT ![n + 1] = b]
            BY <4>1, <2>3, <2>5
          <5>2. s \in [1..(n + 1) -> Buffers] /\ s[n + 1] = b
                /\ \A j \in 1..n : s[j] = bufs[j]
            BY <5>1, <4>2
          <5>3. PICK m \in Nat : m = n + 1
            OBVIOUS
          <5>4. s \in [1..m -> Buffers]
            BY <5>2, <5>3
          <5>5. s \in Seq(Buffers) /\ Len(s) = m
            BY <5>4
          <5>6. \A j \in 1..n : s[j] = old[j]
            BY <5>2, <4>2
          <5> QED BY <5>2, <5>3, <5>5, <5>6
        <4>4. t \in Seq(Buffers) /\ Len(t) = n + 1 /\ t[n + 1] = b
              /\ \A j \in 1..n : t[j] = old[j]
          BY <4>1, <2>3, <2>4
        <4>5. Len(s) = Len(t) /\ \A j \in 1..Len(s) : s[j] = t[j]
          BY <4>3, <4>4
        <4>6. s = t
          BY <4>3, <4>4, <4>5
        <4> QED BY <4>1, <4>6
      <3> QED BY <3>1, <3>2
    <2>8. new = [list EXCEPT !["ip"] = Append(@, b)]
      BY <1>1, <2>7
    <2>9. Wrote(new, "ip", k, b) /\ k \notin DOMAIN list["ip"]
      BY <1>1, <1>3, <2>3, <2>8, AppendIs
    <2>10. bufs[k].data = <<>>
      BY <2>3, <2>6
    <2>11. \A p : Inside(p, "ip", k) <=> p \in PacketsIn(bufs[k].data)
      BY <2>9, <2>10, NoParts DEF Inside
    <2> QED BY <2>2, <2>9, <2>10, <2>11, NoParts
  <1> QED BY <1>1, <1>2, <1>3 DEF Grown

\* What the softirq leaves alone.
Softirq(f) ==
  /\ Alive /\ "ip" \in Levels /\ f \in Packets /\ f \in todo /\ todo' = todo \ {f}
  /\ proc' = proc /\ consuela' = consuela /\ module' = module

\* The softirq wrote a buffer.
LEMMA ForwardWrote ==
  ASSUME Core, NEW f, Softirq(f), NEW k, NEW b, Wrote(list', "ip", k, b),
         b.ip = "null" => b = NULL /\ faults' > 0,
         raced' = (raced \/ Using(k)), crashed' = crashed,
         faults' \in 0..MaxFaults, faults <= faults', NEW S, NEW D, Moved(S, D),
         leaving' \in Frames \cup {None},
         ~raced' => /\ Coded(b.data) /\ PlaceInv'
                    /\ leaving' # None => Coded(leaving'.parts)
  PROVE  Core'
  <1>1. Basis /\ Typed /\ BufferInv /\ ConsuelaInv /\ crashed = "no"
    BY DEF Core, Basis, Softirq, Alive
  <1>2. Later
    BY <1>1, TypeParts DEF Later, Using
  <1>3. Kept /\ BufferInv'
    <2>1. GoodNode("ip", b)
      BY DEF GoodNode
    <2> QED BY <2>1, <1>1, <1>2, WroteKeeps
  <1>4. consuela' \in ConsuelaType /\ ConsuelaInv'
    BY <1>1, <1>2, <1>3, TypeParts, ConsuelaWaits DEF Softirq
  <1>5. ASSUME ~raced' PROVE ReadInv' /\ ~Awaiting("ip", k) /\ ~raced
    <2>1. ~raced /\ ReadInv /\ ~(InUse /\ L = "ip" /\ proc.buf = k)
      BY <1>1, <1>5 DEF Basis, Using, InUse, L
    <2>2. InUse => list'[L][proc.buf] = list[L][proc.buf]
      <3> SUFFICES ASSUME InUse PROVE list'[L][proc.buf] = list[L][proc.buf]
        OBVIOUS
      <3>1. L \in Levels /\ proc.buf \in DOMAIN list[L]
        BY <1>1, HookIs DEF InUse, Running
      <3> QED BY <3>1, <2>1 DEF Wrote
    <2>3. ReadInv'
      BY <2>1, <2>2, ReadKept DEF Softirq
    <2> QED BY <2>1, <2>3 DEF Awaiting
  <1>6. Basis'
    <2>1. CrashNeedsCause' /\ crashed' = "no"
      BY <1>1 DEF CrashNeedsCause
    <2>2. todo' \subseteq Packets
      BY <1>1, TypeParts DEF Softirq
    <2>3. list' \in [Levels -> Seq(Buffers)]
      BY DEF Wrote
    <2>4. module' \in {"running", "stopping", "stopped", "freed", "gone"}
      BY <1>1, TypeParts DEF Softirq
    <2> QED BY <1>1, <1>2, <1>3, <1>4, <1>5, <2>1, <2>2, <2>3, <2>4, WaitsBasis
            DEF Softirq
  <1>7. ASSUME ~raced' PROVE PlaceInv' /\ StampInv'
    <2>1. StampInv
      BY <1>5, <1>7 DEF Core
    <2>2. BuffersCoded'
      BY <1>5, <1>7, <2>1, OthersCoded DEF StampInv, Softirq
    <2>3. StampInv'
      BY <1>7, <2>1, <2>2 DEF StampInv, Softirq, Running
    <2> QED BY <1>7, <2>3
  <1> QED BY <1>6, <1>7 DEF Core

\* __push_ip_packet.
LEMMA ForwardIntoStep ==
  ASSUME Core, NEW f, Softirq(f), NEW bufs, NEW k,
         NEW ip \in {Dst[p] : p \in Packets}, Grown(bufs, k, ip),
         NEW n \in Nat, faults <= n, n <= MaxFaults, ForwardInto(f, bufs, k, n)
  PROVE  Core'
  <1>1. Typed /\ crashed = "no" /\ "ip" \in Levels /\ f \in Packets /\ f \in todo
    BY DEF Core, Basis, Softirq, Alive
  <1>2. MaxFaults \in Nat /\ faults \in Nat /\ raced \in BOOLEAN /\ gone \in [Packets -> Nat]
    BY <1>1, TypeParts
  <1>3. PICK new : new = Plain(f)
    OBVIOUS
  <1>4. new \in NonEmpty /\ PacketsIn(<<new>>) = {f} /\ Coded(<<new>>)
    BY <1>1, <1>3, PlainIs, CodedPlain
  <1>5. PICK old : old = bufs[k].data
    OBVIOUS
  <1>6. /\ old \in Parts
        /\ \A p : Inside(p, "ip", k) <=> p \in PacketsIn(old)
        /\ k \in DOMAIN list["ip"] => bufs[k] = list["ip"][k]
        /\ k \notin DOMAIN list["ip"] => old = <<>>
    <2>1. <<>> \in Parts
      BY NoParts
    <2>2. PICK x : x = [list EXCEPT !["ip"] = [bufs EXCEPT ![k].data = <<>>]]
      OBVIOUS
    <2> QED BY <1>1, <1>5, <2>1, <2>2, InsertIs
  <1>7. PICK data : data = Relative("ip", old, DataLen("ip", old), new)
    OBVIOUS
  <1>8. data \in Parts /\ PacketsIn(data) = PacketsIn(old)
    BY <1>4, <1>6, <1>7, RelativeType, RelativePackets
  <1>9. PacketsIn(data) \subseteq Packets
    BY <1>8, PacketsType
  <1>10. raced' = (raced \/ Using(k)) /\ crashed' = crashed
    BY DEF ForwardInto
  <1>11. ASSUME ~raced' PROVE PlaceInv /\ Coded(<<new>> \o data) /\ ~raced
    <2>1. ~raced /\ ~Awaiting("ip", k)
      BY <1>2, <1>10, <1>11 DEF Awaiting, Using, InUse, L
    <2>2. PlaceInv /\ BuffersCoded
      BY <2>1 DEF Core, StampInv
    <2>3. Coded(old)
      <3>1. CASE k \in DOMAIN list["ip"]
        BY <3>1, <1>1, <1>5, <1>6, <2>1, <2>2 DEF BuffersCoded
      <3>2. CASE k \notin DOMAIN list["ip"]
        BY <3>2, <1>6, CodedNone
      <3> QED BY <3>1, <3>2
    <2>4. Coded(<<new>> \o data)
      BY <1>4, <1>6, <1>7, <2>3, CodedPush
    <2> QED BY <2>1, <2>2, <2>4
  <1>12. ASSUME NEW d \in Parts,
                list' = [list EXCEPT !["ip"] = [bufs EXCEPT ![k].data = d]]
         PROVE  \E b : Wrote(list', "ip", k, b) /\ b.data = d /\ b.ip # "null"
    <2>1. PICK b : b = [ip |-> ip, data |-> d]
      OBVIOUS
    <2>2. Wrote(list', "ip", k, b)
      BY <1>1, <1>12, <2>1, InsertIs
    <2>3. b.data = d /\ b.ip # "null"
      BY <2>1, NodeIs
    <2> QED BY <2>2, <2>3
  <1>13. ASSUME NEW b, Wrote(list', "ip", k, b), b.data = <<>>
         PROVE  Vacated(PacketsIn(data))
    BY <1>6, <1>8, <1>13, VacatedBy
  <1>14. ASSUME faults' \in Nat, n <= faults', faults' <= MaxFaults
         PROVE  Later /\ faults' \in 0..MaxFaults /\ faults <= faults'
    <2>1. raced' \in BOOLEAN /\ (raced => raced')
      BY <1>2, <1>10 DEF Using
    <2> QED BY <2>1, <1>2, <1>14 DEF Later
  <1>a. CASE /\ list' = [list EXCEPT !["ip"] = [bufs EXCEPT ![k].data = <<new>> \o data]]
             /\ Stays /\ faults' = n
    <2>1. PICK d \in Parts : d = <<new>> \o data
                             /\ PacketsIn(d) = PacketsIn(<<new>>) \cup PacketsIn(data)
      BY <1>4, <1>8, Pushed
    <2>2. PICK b : Wrote(list', "ip", k, b) /\ b.data = d /\ b.ip # "null"
      BY <1>a, <1>12, <2>1
    <2>3. Moved({}, {}) /\ leaving' = None
      BY <1>1, <1>a, StaysIs
    <2>4. Later /\ faults' \in 0..MaxFaults /\ faults <= faults'
      BY <1>14, <1>a
    <2>5. ASSUME ~raced' PROVE PlaceInv'
      <3>1. PlaceInv
        BY <1>11, <2>5
      <3>2. ASSUME NEW p \in Packets
            PROVE  IF p \in todo' THEN Absent(p)' ELSE OncePresent(p)'
        <4>1. IF p \in todo THEN Absent(p) ELSE OncePresent(p)
          BY <1>1, <3>1 DEF PlaceInv
        <4>2. (Carried(p)' <=> Carried(p)) /\ (Collected(p)' <=> Collected(p))
          BY DEF Carried, Collected, Softirq
        <4>3. gone'[p] = gone[p] /\ (p \in lost' <=> p \in lost)
          BY <1>a DEF Stays
        <4>4. p \in PacketsIn(b.data) <=> p = f \/ Inside(p, "ip", k)
          BY <1>4, <1>6, <1>8, <2>1, <2>2
        <4>5. p \in todo' <=> p \in todo /\ p # f
          BY DEF Softirq
        <4>6. /\ Inside(p, "ip", k) => Buffered(p)
              /\ p \in PacketsIn(b.data) =>
                   /\ Buffered(p)'
                   /\ ~Buffered(p) \/ (OneBuffer(p) /\ Inside(p, "ip", k)) => OneBuffer(p)'
              /\ p \notin PacketsIn(b.data) /\ ~Inside(p, "ip", k) =>
                   /\ Buffered(p)' <=> Buffered(p)
                   /\ OneBuffer(p) => OneBuffer(p)'
          BY <2>2, WroteMoves
        <4>7. CASE p = f
          BY <1>1, <4>1, <4>2, <4>3, <4>4, <4>5, <4>6, <4>7 DEF Absent, OncePresent
        <4>8. CASE p # f
          BY <4>1, <4>2, <4>3, <4>4, <4>5, <4>6, <4>8 DEF Absent, OncePresent
        <4> QED BY <4>7, <4>8
      <3> QED BY <1>a, <2>4, <3>1, <3>2 DEF PlaceInv, Later, Stays, Softirq
    <2> QED BY <1>10, <1>11, <2>1, <2>2, <2>3, <2>4, <2>5, ForwardWrote
  <1>b. CASE /\ list' = [list EXCEPT !["ip"] = [bufs EXCEPT ![k].data = <<>>]]
             /\ Out(Aggregate("ip", new, data)) /\ faults' = n
    <2>1. PICK b : Wrote(list', "ip", k, b) /\ b.data = <<>> /\ b.ip # "null"
      BY <1>b, <1>12, NoParts
    <2>2. PICK fr : fr = Aggregate("ip", new, data)
      OBVIOUS
    <2>3. /\ fr \in Frames /\ ~fr.torn
          /\ PacketsIn(fr.parts) = {f} \cup PacketsIn(data)
          /\ Coded(<<new>> \o data) => Coded(fr.parts)
      <3>1. PICK l : l = "ip"
        OBVIOUS
      <3>2. Joins(l, new, data) /\ fr = Aggregate(l, new, data)
        BY <1>4, <1>8, <2>2, <3>1 DEF Joins
      <3>3. /\ fr \in Frames /\ ~fr.torn
            /\ PacketsIn(fr.parts) = PacketsIn(<<new>>) \cup PacketsIn(data)
            /\ Coded(<<new>> \o data) => Coded(fr.parts)
        BY <3>2, AggregateIs
      <3> QED BY <3>3, <1>4
    <2>4. Moved({f} \cup PacketsIn(data), {}) /\ leaving' \in {fr, None}
      BY <1>1, <1>b, <2>2, <2>3, OutIs
    <2>5. Later /\ faults' \in 0..MaxFaults /\ faults <= faults'
      BY <1>14, <1>b
    <2>6. ASSUME ~raced' PROVE PlaceInv'
      <3>1. PlaceInv /\ Vacated(PacketsIn(data))
        BY <1>11, <1>13, <2>1, <2>6
      <3> QED BY <1>1, <2>4, <2>5, <3>1, ForwardPlaces DEF Softirq
    <2>7. Coded(b.data) /\ (~raced' /\ leaving' # None => Coded(leaving'.parts))
      BY <1>11, <2>1, <2>3, <2>4, CodedNone
    <2>8. leaving' \in Frames \cup {None}
      BY <2>3, <2>4
    <2> QED BY <1>10, <2>1, <2>4, <2>5, <2>6, <2>7, <2>8, ForwardWrote
  <1>c. CASE /\ list' = [list EXCEPT !["ip"] = [bufs EXCEPT ![k].data = <<>>]]
             /\ n < MaxFaults /\ faults' = n + 1
             /\ lost' = lost \cup PacketsIn(data)
             /\ gone' = [gone EXCEPT ![f] = @ + 1]
             /\ leaving' = Frame("udp", <<new>>)
    <2>1. PICK b : Wrote(list', "ip", k, b) /\ b.data = <<>> /\ b.ip # "null"
      BY <1>c, <1>12, NoParts
    <2>2. Moved({f}, PacketsIn(data))
      <3>1. gone' = [p \in Packets |-> gone[p] + (IF p \in {f} THEN 1 ELSE 0)]
        <4>1. gone' = [gone EXCEPT ![f] = gone[f] + 1]
          BY <1>c
        <4>2. gone' = [p \in Packets |-> IF p = f THEN gone[f] + 1 ELSE gone[p]]
          BY <4>1, <1>1, <1>2
        <4>3. \A p \in Packets : (IF p = f THEN gone[f] + 1 ELSE gone[p])
                                  = gone[p] + (IF p \in {f} THEN 1 ELSE 0)
          BY <1>2
        <4> QED BY <4>2, <4>3
      <3> QED BY <3>1, <1>1, <1>9, <1>c, LeavesIs
    <2>3. Later /\ faults' \in 0..MaxFaults /\ faults <= faults' /\ faults' > 0
      <3>1. faults' \in Nat /\ n <= faults' /\ faults' <= MaxFaults /\ faults' > 0
        BY <1>2, <1>c
      <3> QED BY <3>1, <1>14
    <2>4. ASSUME ~raced' PROVE PlaceInv'
      <3>1. PlaceInv /\ Vacated(PacketsIn(data))
        BY <1>11, <1>13, <2>1, <2>4
      <3> QED BY <1>1, <2>2, <2>3, <3>1, ForwardPlaces DEF Softirq
    <2>5. leaving' \in Frames /\ leaving'.parts = <<new>>
      BY <1>1, <1>3, <1>c, PlainIs DEF Frame
    <2>6. Coded(b.data) /\ Coded(leaving'.parts)
      BY <1>4, <2>1, <2>5, CodedNone
    <2> QED BY <1>10, <2>1, <2>2, <2>3, <2>4, <2>5, <2>6, ForwardWrote
  <1> QED BY <1>3, <1>5, <1>7, <1>a, <1>b, <1>c DEF ForwardInto

\* The softirq wrote no buffer.
LEMMA ForwardSame ==
  ASSUME Core, NEW f, Softirq(f), list' = list, raced' = raced,
         crashed' \in {"no", "null", "panic", "freed", "kfree", "unlock"}, CrashNeedsCause',
         faults' \in 0..MaxFaults, faults <= faults', NEW S, NEW D, Moved(S, D),
         leaving' \in Frames \cup {None},
         ~raced => /\ PlaceInv'
                   /\ leaving' # None => Coded(leaving'.parts)
  PROVE  Core'
  <1>1. Basis /\ Typed /\ BufferInv /\ ConsuelaInv
    BY DEF Core, Basis
  <1>2. Later
    BY <1>1, TypeParts DEF Later
  <1>3. Kept /\ BufferInv'
    BY <1>1, <1>2, ListKept
  <1>4. consuela' \in ConsuelaType /\ ConsuelaInv'
    BY <1>1, <1>2, <1>3, TypeParts, ConsuelaWaits DEF Softirq
  <1>5. ~raced' => ReadInv'
    BY <1>1, ReadKept DEF Basis, Softirq
  <1>6. Basis'
    <2>1. todo' \subseteq Packets /\ list' \in [Levels -> Seq(Buffers)]
          /\ module' \in {"running", "stopping", "stopped", "freed", "gone"}
      BY <1>1, TypeParts DEF Softirq
    <2> QED BY <1>1, <1>2, <1>3, <1>4, <1>5, <2>1, WaitsBasis DEF Softirq
  <1>7. ASSUME ~raced' PROVE PlaceInv' /\ StampInv'
    <2>1. StampInv
      BY <1>7 DEF Core
    <2>2. Part' = Part /\ \A m, j : Awaiting(m, j)' <=> Awaiting(m, j)
      BY DEF Part, Awaiting, InUse, L, Softirq
    <2>3. BuffersCoded'
      BY <2>1, <2>2 DEF StampInv, BuffersCoded
    <2>4. StampInv'
      BY <1>7, <2>1, <2>3 DEF StampInv, Softirq, Running
    <2> QED BY <1>7, <2>4
  <1> QED BY <1>6, <1>7 DEF Core

\* The softirq finds what a failure or the unload left behind.
LEMMA ForwardDies ==
  ASSUME Core, NEW f, Softirq(f), list' = list, raced' = raced,
         crashed' \in {"null", "freed"}, CrashNeedsCause', Stays,
         faults' \in 0..MaxFaults, faults <= faults'
  PROVE  Core'
  <1>1. Typed
    BY DEF Core, Basis
  <1>2. Moved({}, {}) /\ leaving' = None
    BY <1>1, StaysIs
  <1>3. ASSUME ~raced PROVE PlaceInv'
    <2>1. PlaceInv
      BY <1>3 DEF Core
    <2>2. faults \in Nat /\ faults' \in Nat
      BY <1>1, TypeParts
    <2> QED BY <2>1, <2>2 DEF PlaceInv, Stays, Softirq
  <1> QED BY <1>2, <1>3, ForwardSame

\* get_ip_buffer_for makes a buffer, or fails to.
LEMMA ForwardCreatesStep ==
  ASSUME Core, LinkInv, NEW f, Softirq(f), NEW n \in Nat, faults <= n, n <= MaxFaults,
         ForwardCreates(f, n)
  PROVE  Core'
  <1>1. Basis /\ Typed /\ "ip" \in Levels /\ f \in Packets /\ f \in todo /\ crashed = "no"
    BY DEF Core, Basis, Softirq, Alive
  <1>2. MaxFaults \in Nat /\ faults \in Nat /\ raced \in BOOLEAN
    BY <1>1, TypeParts
  <1>3. PICK new : new = Plain(f)
    OBVIOUS
  <1>4. new \in NonEmpty /\ PacketsIn(<<new>>) = {f} /\ Coded(<<new>>)
        /\ Frame("udp", <<new>>) \in Frames
    BY <1>1, <1>3, PlainIs, CodedPlain
  <1>5. CASE ForwardInto(f, Append(list["ip"], [ip |-> Dst[f], data |-> <<>>]),
                         Len(list["ip"]) + 1, n)
    <2>1. PICK bufs, k : bufs = Append(list["ip"], [ip |-> Dst[f], data |-> <<>>])
                         /\ k = Len(list["ip"]) + 1
      OBVIOUS
    <2>2. Grown(bufs, k, Dst[f]) /\ Dst[f] \in {Dst[p] : p \in Packets}
      BY <1>1, <2>1 DEF Grown
    <2> QED BY <1>5, <2>1, <2>2, ForwardIntoStep
  <1>6. ASSUME n < MaxFaults, faults' = n + 1, raced' = raced
        PROVE  /\ Later /\ faults' \in 0..MaxFaults /\ faults <= faults' /\ faults' > 0
    BY <1>2, <1>6 DEF Later
  <1>7. CASE /\ n < MaxFaults /\ faults' = n + 1 /\ raced' = raced
             /\ list' = [list EXCEPT !["ip"] = Append(@, NULL)]
             /\ Out(Frame("udp", <<new>>)) /\ crashed' = crashed
    <2>1. PICK k : k = Len(list["ip"]) + 1
      OBVIOUS
    <2>2. Wrote(list', "ip", k, NULL) /\ k \notin DOMAIN list["ip"]
      BY <1>1, <1>7, <2>1, NodeIs, AppendIs
    <2>3. raced' = (raced \/ Using(k))
      <3>1. ~Using(k)
        <4> SUFFICES ASSUME Using(k) PROVE FALSE
          OBVIOUS
        <4>1. InUse /\ Running /\ L = "ip" /\ proc.buf = k
          BY DEF Using, InUse, Running, L
        <4> QED BY <4>1, <2>2, <1>1, HookIs
      <3> QED BY <3>1, <1>2, <1>7
    <2>4. PICK fr \in Frames : fr = Frame("udp", <<new>>)
      BY <1>4
    <2>5. ~fr.torn /\ fr.parts = <<new>>
      BY <2>4 DEF Frame
    <2>6. Moved({f}, {}) /\ leaving' \in {fr, None}
      BY <1>1, <1>4, <1>7, <2>4, <2>5, OutIs
    <2>7. Vacated({})
      <3>1. \A p : p \in {} <=> Inside(p, "ip", k)
        BY <2>2 DEF Inside
      <3>2. NULL.data = <<>>
        BY NodeIs
      <3> QED BY <3>1, <3>2, <2>2, VacatedBy
    <2>8. ASSUME ~raced' PROVE PlaceInv'
      <3>1. PlaceInv
        BY <1>7, <2>8 DEF Core
      <3>2. {f} = {f} \cup {}
        OBVIOUS
      <3> QED BY <1>1, <1>6, <1>7, <2>6, <2>7, <3>1, <3>2, ForwardPlaces DEF Softirq
    <2>9. Coded(NULL.data) /\ (leaving' # None => Coded(leaving'.parts))
      BY <1>4, <2>5, <2>6, NodeIs, CodedNone
    <2>10. leaving' \in Frames \cup {None}
      BY <2>6
    <2> QED BY <1>6, <1>7, <2>2, <2>3, <2>6, <2>8, <2>9, <2>10, ForwardWrote
  <1>8. CASE /\ n < MaxFaults /\ faults' = n + 1 /\ raced' = raced
             /\ lost' = lost \cup {f} /\ leaving' = None /\ list' = list
             /\ gone' = gone /\ crashed' = crashed
    <2>1. Moved({}, {f})
      <3>1. {f} \subseteq Packets
        BY <1>1
      <3> QED BY <3>1, <1>1, <1>8, LosesIs
    <2>2. ASSUME ~raced PROVE PlaceInv'
      <3>1. PlaceInv /\ Vacated({})
        BY <1>8, <2>2, SameBuffers DEF Core
      <3> QED BY <1>1, <1>6, <1>8, <2>1, <3>1, ForwardPlaces DEF Softirq
    <2>3. CrashNeedsCause'
      BY <1>1, <1>8 DEF CrashNeedsCause
    <2> QED BY <1>1, <1>6, <1>8, <2>1, <2>2, <2>3, ForwardSame
  <1>9. CASE /\ n < MaxFaults /\ faults' = n + 1 /\ raced' = raced
             /\ Out(Aggregate("ip", new, <<>>)) /\ list' = list /\ crashed' = crashed
    <2>1. PICK l, d : l = "ip" /\ d = <<>>
      OBVIOUS
    <2>2. PICK fr : fr = Aggregate(l, new, d)
      OBVIOUS
    <2>3. /\ fr \in Frames /\ ~fr.torn
          /\ PacketsIn(fr.parts) = PacketsIn(<<new>>) \cup PacketsIn(d)
          /\ Coded(<<new>> \o d) => Coded(fr.parts)
      <3>1. Joins(l, new, d)
        BY <1>4, <2>1, NoParts DEF Joins
      <3> QED BY <2>2, <3>1, AggregateIs
    <2>4. PacketsIn(fr.parts) = {f}
      BY <1>4, <2>1, <2>3, NoParts
    <2>5. Coded(fr.parts)
      <3>1. <<new>> \o d = <<new>>
        BY <2>1
      <3> QED BY <3>1, <2>3, <1>4
    <2>6. Moved({f}, {}) /\ leaving' \in {fr, None}
      BY <1>1, <1>9, <2>1, <2>2, <2>3, <2>4, OutIs
    <2>7. ASSUME ~raced PROVE PlaceInv'
      <3>1. PlaceInv /\ Vacated({})
        BY <1>9, <2>7, SameBuffers DEF Core
      <3>2. {f} = {f} \cup {}
        OBVIOUS
      <3> QED BY <1>1, <1>6, <1>9, <2>6, <3>1, <3>2, ForwardPlaces DEF Softirq
    <2>8. leaving' \in Frames \cup {None} /\ (leaving' # None => Coded(leaving'.parts))
      BY <2>3, <2>5, <2>6
    <2>9. CrashNeedsCause'
      BY <1>1, <1>9 DEF CrashNeedsCause
    <2> QED BY <1>1, <1>6, <1>9, <2>6, <2>7, <2>8, <2>9, ForwardSame
  <1>10. CASE /\ n < MaxFaults /\ faults' = n + 1 /\ raced' = raced
              /\ crashed' = "null" /\ Stays /\ list' = list
    <2>1. CrashNeedsCause'
      BY <1>6, <1>10 DEF CrashNeedsCause
    <2> QED BY <1>6, <1>10, <2>1, ForwardDies
  <1>11. CASE /\ Broken(links["ip"]) /\ faults' = n /\ raced' = raced
              /\ crashed' = "null" /\ Stays /\ list' = list
    <2>1. faults > 0
      BY <1>1, <1>11 DEF LinkInv
    <2>2. faults' > 0 /\ faults' \in 0..MaxFaults /\ faults <= faults'
      BY <1>2, <1>11, <2>1
    <2>3. CrashNeedsCause'
      BY <1>11, <2>2 DEF CrashNeedsCause
    <2> QED BY <1>11, <2>2, <2>3, ForwardDies
  <1> QED BY <1>3, <1>5, <1>7, <1>8, <1>9, <1>10, <1>11 DEF ForwardCreates

\* The softirq.
LEMMA ForwardStep ==
  ASSUME Core, LinkInv, NEW f \in Forwarded, Forward(f)
  PROVE  Core'
  <1>1. Softirq(f)
    BY DEF Forward, Softirq, Packets
  <1>2. Typed /\ BufferInv /\ "ip" \in Levels /\ f \in Packets
    BY <1>1 DEF Core, Basis, Softirq
  <1>3. MaxFaults \in Nat /\ faults \in Nat /\ faults \in 0..MaxFaults
        /\ module \in {"running", "stopping", "stopped", "freed", "gone"}
    BY <1>2, TypeParts
  <1>4. PICK ip \in {Dst[p] : p \in Packets} : ip = Dst[f] /\ ip # "null"
    BY <1>2, AggregationAssumption
  <1>5. CASE /\ module = "freed" /\ crashed' = "freed" /\ Stays
             /\ list' = list /\ raced' = raced /\ faults' = faults
    <2>1. CrashNeedsCause'
      BY <1>1, <1>5 DEF CrashNeedsCause, Softirq
    <2> QED BY <1>1, <1>3, <1>5, <2>1, ForwardDies
  <1>6. CASE /\ MeetsNull("ip", ip) /\ crashed' = "null" /\ Stays
             /\ list' = list /\ raced' = raced /\ faults' = faults
    <2>1. Place("ip", ip) # 0
      BY <1>6 DEF MeetsNull
    <2>2. faults > 0
      BY <1>2, <1>4, <1>6, <2>1, MeetsNullIs
    <2>3. CrashNeedsCause'
      BY <1>6, <2>2 DEF CrashNeedsCause
    <2> QED BY <1>1, <1>3, <1>6, <2>3, ForwardDies
  <1>7. CASE /\ Place("ip", ip) # 0 /\ ~MeetsNull("ip", ip)
             /\ ForwardInto(f, list["ip"], Place("ip", ip), faults)
    <2>1. PICK bufs, k : bufs = list["ip"] /\ k = Place("ip", ip)
      OBVIOUS
    <2>2. Grown(bufs, k, ip)
      BY <1>2, <1>4, <1>7, <2>1, PlaceIs, MeetsNullIs DEF Grown
    <2>3. ForwardInto(f, bufs, k, faults)
      BY <1>7, <2>1
    <2>4. faults <= faults /\ faults <= MaxFaults
      BY <1>3
    <2> QED BY <1>1, <1>3, <2>2, <2>3, <2>4, ForwardIntoStep
  <1>8. CASE ForwardCreates(f, faults)
    <2>1. faults <= faults /\ faults <= MaxFaults
      BY <1>3
    <2> QED BY <1>1, <1>3, <1>8, <2>1, ForwardCreatesStep
  <1>9. CASE faults < MaxFaults /\ ForwardCreates(f, faults + 1)
    <2>1. faults <= faults + 1 /\ faults + 1 <= MaxFaults /\ faults + 1 \in Nat
      BY <1>3, <1>9
    <2> QED BY <1>1, <1>3, <1>9, <2>1, ForwardCreatesStep
  <1> QED BY <1>4, <1>5, <1>6, <1>7, <1>8, <1>9 DEF Forward

\* A step in which no packet moves, while no hook runs.
LEMMA QuietStep ==
  ASSUME Core, Alive, ~Running, proc' = proc, todo' = todo, list' = list,
         raced' = raced, Stays, faults' = faults \/ Fault,
         consuela' \in ConsuelaType, ConsuelaInv', consuela'.hold = consuela.hold,
         module' \in {"running", "stopping", "stopped", "freed", "gone"},
         module \in {"freed", "gone"} => module' \in {"freed", "gone"},
         crashed' \in {"no", "null", "panic", "freed", "kfree", "unlock"}, CrashNeedsCause'
  PROVE  Core'
  <1>1. Basis /\ Typed /\ ProcInv /\ BufferInv
    BY DEF Core, Basis
  <1>2. Later /\ faults' \in 0..MaxFaults
    BY <1>1, TypeParts, LaterIs
  <1>3. Moved({}, {}) /\ leaving' = None
    BY <1>1, StaysIs
  <1>4. BufferInv'
    BY <1>1, <1>2, ListKept
  <1>5. ReadInv' /\ ~Running' /\ \A l, k : ~Awaiting(l, k) /\ ~Awaiting(l, k)'
    BY DEF ReadInv, Running, Awaiting, InUse
  <1>6. Basis'
    <2>1. todo' \subseteq Packets /\ list' \in [Levels -> Seq(Buffers)]
      BY <1>1, TypeParts
    <2> QED BY <1>1, <1>2, <1>3, <1>4, <1>5, <2>1, WaitsBasis
  <1>7. ProcInv'
    BY <1>6 DEF Basis
  <1>8. ASSUME ~raced' PROVE PlaceInv' /\ StampInv'
    <2>1. PlaceInv /\ StampInv
      BY <1>8 DEF Core
    <2>2. PlaceInv'
      BY <2>1, <1>1, <1>2, <1>3, <1>5, <1>7, SameBuffers, QuietPlaces
    <2>3. StampInv'
      BY <2>1, <1>3, <1>5, QuietStamps
    <2> QED BY <2>2, <2>3
  <1> QED BY <1>6, <1>8 DEF Core

\* What consuela's steps rely on.
LEMMA CleaningIs ==
  ASSUME Core, NEW pc, Cleaning(pc)
  PROVE  /\ Alive /\ ~Running /\ ~InUse /\ crashed = "no" /\ consuela.pc = pc
         /\ Typed /\ ProcInv /\ BufferInv /\ ConsuelaInv /\ Basis
         /\ consuela \in ConsuelaType /\ proc = Idle
         /\ module \in {"running", "stopping", "stopped", "freed", "gone"}
  <1>1. Basis /\ Typed /\ ProcInv /\ BufferInv /\ ConsuelaInv
    BY DEF Core, Basis
  <1>2. Alive /\ ~Running /\ ~InUse /\ crashed = "no" /\ consuela.pc = pc
    BY DEF Cleaning, Working, Running, InUse, Alive
  <1> QED BY <1>1, <1>2, TypeParts DEF ProcInv

\* start_consuela.
LEMMA ConsuelaStartsStep ==
  ASSUME Core, ConsuelaStarts
  PROVE  Core'
  <1>1. /\ Alive /\ ~Running /\ crashed = "no" /\ consuela.pc = "start"
        /\ Typed /\ ConsuelaInv /\ consuela \in ConsuelaType
        /\ module \in {"running", "stopping", "stopped", "freed", "gone"}
    BY CleaningIs DEF ConsuelaStarts
  <1>2. proc' = proc /\ todo' = todo /\ list' = list /\ raced' = raced /\ Stays
        /\ module' = module /\ (faults' = faults \/ Fault)
    BY DEF ConsuelaStarts
  <1>3. Later /\ (Fault => faults' > 0)
    BY <1>1, <1>2, TypeParts, LaterIs
  <1>4. CASE /\ \E pc \in {"loop", "dead"} : /\ consuela' = [consuela EXCEPT !.pc = pc]
                                             /\ pc = "dead" => Fault
             /\ crashed' = crashed
    <2>1. PICK pc \in {"loop", "dead"} : /\ consuela' = [consuela EXCEPT !.pc = pc]
                                         /\ pc = "dead" => Fault
      BY <1>4
    <2>2. consuela' \in ConsuelaType /\ consuela'.pc = pc /\ consuela'.it = consuela.it
          /\ consuela'.hold = consuela.hold /\ consuela'.dangling = consuela.dangling
      BY <1>1, <2>1 DEF ConsuelaType
    <2>3. ConsuelaInv'
      BY <1>1, <1>3, <2>1, <2>2 DEF ConsuelaInv, Later
    <2>4. CrashNeedsCause'
      BY <1>1, <1>4 DEF CrashNeedsCause
    <2> QED BY <1>1, <1>2, <1>4, <2>2, <2>3, <2>4, QuietStep
  <1>5. CASE Fault /\ crashed' = "kfree" /\ consuela' = consuela
    <2>1. ConsuelaInv'
      BY <1>1, <1>3, <1>5 DEF ConsuelaInv, Later
    <2>2. CrashNeedsCause'
      BY <1>3, <1>5 DEF CrashNeedsCause
    <2> QED BY <1>1, <1>2, <1>5, <2>1, <2>2, QuietStep
  <1> QED BY <1>4, <1>5 DEF ConsuelaStarts

\* consuela turns to the next level, or to sleep or its end.
LEMMA TurnsStep ==
  ASSUME Core, LinkInv, NEW old, Cleaning(old), old \in {"loop", "take"}, NEW l \in {"app", "ip"},
         \/ Begin(l)
         \/ /\ \E pc \in {"loop", "ended"} : consuela' = [consuela EXCEPT !.pc = pc]
            /\ faults' = faults,
         Stays, proc' = proc, todo' = todo, list' = list, raced' = raced,
         module' = module, crashed' = crashed
  PROVE  Core'
  <1>1. /\ Alive /\ ~Running /\ crashed = "no" /\ consuela.pc = old
        /\ Typed /\ ConsuelaInv /\ consuela \in ConsuelaType
        /\ module \in {"running", "stopping", "stopped", "freed", "gone"}
    BY CleaningIs
  <1>2. faults' = faults \/ Fault
    BY DEF Begin
  <1>3. Later
    BY <1>1, <1>2, TypeParts, LaterIs
  <1>4. CrashNeedsCause' /\ crashed' = "no"
    BY <1>1 DEF CrashNeedsCause
  <1>5. consuela.hold = <<>>
    BY <1>1 DEF ConsuelaInv
  <1>6. CASE \E pc \in {"loop", "ended"} : consuela' = [consuela EXCEPT !.pc = pc]
    <2>1. PICK pc \in {"loop", "ended"} : consuela' = [consuela EXCEPT !.pc = pc]
      BY <1>6
    <2>2. consuela' \in ConsuelaType /\ consuela'.pc = pc
          /\ consuela'.hold = consuela.hold /\ consuela'.dangling = consuela.dangling
      BY <1>1, <2>1 DEF ConsuelaType
    <2>3. ConsuelaInv'
      BY <1>1, <1>3, <1>5, <2>1, <2>2 DEF ConsuelaInv, Later
    <2> QED BY <1>1, <1>2, <1>4, <2>2, <2>3, QuietStep
  <1>7. CASE Begin(l)
    <2>1. PICK it : /\ it = 0 \/ (l \in Levels /\ it = links[l].first)
                    /\ consuela' = [consuela EXCEPT !.pc = "take", !.level = l,
                                      !.dangling = FALSE, !.it = it]
      <3>1. PICK one : one = IF l \in Levels THEN links[l].first ELSE 0
        OBVIOUS
      <3>2. At("take", l) = [consuela EXCEPT !.pc = "take", !.level = l,
                               !.dangling = FALSE, !.it = one]
        BY <3>1 DEF At
      <3>3. [At("take", l) EXCEPT !.it = 0]
              = [consuela EXCEPT !.pc = "take", !.level = l, !.dangling = FALSE, !.it = 0]
        BY <1>1, <3>2 DEF ConsuelaType
      <3> QED BY <1>7, <3>1, <3>2, <3>3 DEF Begin
    <2>2. consuela' \in ConsuelaType /\ consuela'.pc = "take" /\ consuela'.level = l
          /\ consuela'.it = it /\ consuela'.hold = consuela.hold /\ ~consuela'.dangling
      <3>1. it \in Nat
        BY <2>1 DEF LinkInv, LinkType
      <3> QED BY <1>1, <2>1, <3>1 DEF ConsuelaType
    <2>3. it # 0 => l \in Levels /\ it \in DOMAIN list[l]
      <3> SUFFICES ASSUME it # 0 PROVE l \in Levels /\ it \in DOMAIN list[l]
        OBVIOUS
      <3>1. l \in Levels /\ it = links[l].first
        BY <2>1
      <3> QED BY <3>1 DEF LinkInv, Pointers
    <2>4. ConsuelaInv'
      BY <1>5, <2>2, <2>3 DEF ConsuelaInv
    <2> QED BY <1>1, <1>2, <1>4, <2>2, <2>4, QuietStep
  <1> QED BY <1>6, <1>7

\* kthread_should_stop, or the application level.
LEMMA ConsuelaLoopsStep ==
  ASSUME Core, LinkInv, ConsuelaLoops
  PROVE  Core'
  <1>1. Cleaning("loop") /\ proc' = proc /\ todo' = todo /\ list' = list
        /\ raced' = raced /\ module' = module /\ crashed' = crashed /\ Stays
    BY DEF ConsuelaLoops
  <1>2. \/ Begin("app")
        \/ /\ \E pc \in {"loop", "ended"} : consuela' = [consuela EXCEPT !.pc = pc]
           /\ faults' = faults
    BY DEF ConsuelaLoops
  <1> QED BY <1>1, <1>2, TurnsStep

\* The end of a list.
LEMMA LevelDoneStep ==
  ASSUME Core, LinkInv, LevelDone
  PROVE  Core'
  <1>1. Cleaning("take") /\ proc' = proc /\ todo' = todo /\ list' = list
        /\ raced' = raced /\ module' = module /\ crashed' = crashed /\ Stays
    BY DEF LevelDone
  <1>2. \/ Begin("ip")
        \/ /\ \E pc \in {"loop", "ended"} : consuela' = [consuela EXCEPT !.pc = pc]
           /\ faults' = faults
    BY DEF LevelDone
  <1> QED BY <1>1, <1>2, TurnsStep

\* klist_iterator_next and mv_data.
LEMMA TakeStep ==
  ASSUME Core, LinkInv, Take
  PROVE  Core'
  <1>1. /\ Alive /\ ~Running /\ ~InUse /\ crashed = "no" /\ consuela.pc = "take"
        /\ Typed /\ ProcInv /\ BufferInv /\ ConsuelaInv /\ Basis
        /\ consuela \in ConsuelaType /\ proc = Idle
        /\ module \in {"running", "stopping", "stopped", "freed", "gone"}
    BY CleaningIs DEF Take
  <1>2. proc' = proc /\ todo' = todo /\ module' = module /\ raced' = raced /\ Stays
        /\ (faults' = faults \/ Fault)
    BY DEF Take
  <1>3. Later /\ faults' \in 0..MaxFaults /\ (Fault => faults' > 0)
    BY <1>1, <1>2, TypeParts, LaterIs
  <1>4. PICK l, k : l = consuela.level /\ k = consuela.it
    OBVIOUS
  <1>5. l \in Levels /\ k \in DOMAIN list[l] /\ k # 0 /\ consuela.hold = <<>>
        /\ (consuela.dangling => faults > 0)
    BY <1>1, <1>4 DEF ConsuelaInv, Take
  <1>6. PICK b : b = list[l][k]
    OBVIOUS
  <1>7. b \in Buffers /\ b.data \in Parts /\ (b = NULL => faults > 0)
        /\ (b # NULL => b.ip # "null")
    BY <1>1, <1>5, <1>6, BufferIs, NodeIs DEF BufferInv
  <1>8. PICK next : next = links[l].front[k]
    OBVIOUS
  <1>9. next \in Nat /\ (next # 0 => next \in DOMAIN list[l])
    <2>1. DOMAIN list[l] \subseteq Nat
      BY <1>1, <1>5, BufferIs
    <2>2. next \in DOMAIN list[l] \cup {0}
      BY <1>5, <1>8 DEF LinkInv, Pointers
    <2> QED BY <2>1, <2>2
  <1>10. CASE b = NULL /\ crashed' = "null" /\ list' = list /\ consuela' = consuela
              /\ faults' = faults
    <2>1. CrashNeedsCause'
      BY <1>7, <1>10 DEF CrashNeedsCause
    <2>2. ConsuelaInv'
      BY <1>1, <1>10 DEF ConsuelaInv
    <2> QED BY <1>1, <1>2, <1>10, <2>1, <2>2, QuietStep
  <1>11. CASE /\ consuela.dangling /\ crashed' = "kfree" /\ consuela' = consuela
              /\ list' = list
    <2>1. CrashNeedsCause'
      BY <1>3, <1>5, <1>11 DEF CrashNeedsCause, Later
    <2>2. ConsuelaInv'
      BY <1>1, <1>3, <1>11 DEF ConsuelaInv, Later
    <2> QED BY <1>1, <1>2, <1>11, <2>1, <2>2, QuietStep
  <1>12. CASE /\ consuela' = [consuela EXCEPT !.it = next] /\ crashed' = crashed
              /\ list' = list
    <2>1. consuela' \in ConsuelaType /\ consuela'.pc = consuela.pc
          /\ consuela'.level = l /\ consuela'.it = next
          /\ consuela'.hold = consuela.hold /\ consuela'.dangling = consuela.dangling
      BY <1>1, <1>4, <1>9, <1>12 DEF ConsuelaType
    <2>2. ConsuelaInv'
      BY <1>1, <1>3, <1>5, <1>9, <1>12, <2>1 DEF ConsuelaInv, Later
    <2>3. CrashNeedsCause'
      BY <1>1, <1>12 DEF CrashNeedsCause
    <2> QED BY <1>1, <1>2, <1>12, <2>1, <2>2, <2>3, QuietStep
  <1>13. CASE /\ b # NULL /\ b.data # <<>>
              /\ list' = [list EXCEPT ![l][k].data = <<>>]
              /\ consuela' = [consuela EXCEPT !.pc = "send", !.it = next, !.hold = b.data]
              /\ crashed' = crashed /\ faults' = faults
    <2>1. consuela' \in ConsuelaType /\ consuela'.pc = "send"
          /\ consuela'.level = l /\ consuela'.it = next
          /\ consuela'.hold = b.data /\ consuela'.dangling = consuela.dangling
      BY <1>1, <1>4, <1>7, <1>9, <1>13 DEF ConsuelaType
    <2>2. PICK e : e = [ip |-> list[l][k].ip, data |-> <<>>]
      OBVIOUS
    <2>3. Wrote(list', l, k, e) /\ e.data = <<>> /\ e.ip # "null"
      <3>1. <<>> \in Parts
        BY NoParts
      <3>2. Wrote(list', l, k, e)
        BY <1>1, <1>5, <1>13, <2>2, <3>1, StoreIs
      <3> QED BY <3>2, <2>2, <1>6, <1>7, <1>13
    <2>4. ~InUse' /\ \A m, j : ~Awaiting(m, j)
      BY <1>1, <1>2 DEF InUse, Awaiting
    <2>5. Cleared(PacketsIn(b.data))
      BY <1>3, <1>5, <1>6, <2>3, <2>4, ClearsBuffer
    <2>6. ConsuelaInv'
      <3>1. next # 0 => next \in DOMAIN list'[l]
        BY <1>5, <1>9, <2>5 DEF Cleared, Kept
      <3>2. l = "app" => Singles(b.data)
        BY <1>1, <1>5, <1>6 DEF BufferInv
      <3> QED BY <1>3, <1>5, <1>13, <2>1, <3>1, <3>2 DEF ConsuelaInv, Later
    <2>7. Moved({}, {}) /\ leaving' = None
      BY <1>1, <1>2, StaysIs
    <2>8. ReadInv' /\ ~Running'
      BY <1>1, <1>2 DEF ReadInv, Running
    <2>9. Basis'
      <3>1. CrashNeedsCause'
        BY <1>1, <1>13 DEF CrashNeedsCause
      <3>2. todo' \subseteq Packets
        BY <1>1, <1>2, TypeParts
      <3> QED BY <1>1, <1>2, <1>3, <1>13, <2>1, <2>5, <2>6, <2>7, <2>8, <3>1, <3>2,
                 WaitsBasis DEF Cleared
    <2>10. ASSUME ~raced' PROVE PlaceInv' /\ StampInv'
      <3>1. PlaceInv /\ StampInv /\ ~raced
        BY <1>2, <2>10 DEF Core
      <3>2. ASSUME NEW p \in Packets
            PROVE  IF p \in todo' THEN Absent(p)' ELSE OncePresent(p)'
        <4>1. IF p \in todo THEN Absent(p) ELSE OncePresent(p)
          BY <1>1, <3>1 DEF PlaceInv
        <4>2. (Carried(p)' <=> Carried(p)) /\ ~Collected(p)
              /\ (Collected(p)' <=> p \in PacketsIn(b.data))
          BY <1>2, <1>5, <2>1, NoParts DEF Carried, Collected
        <4>3. gone'[p] = gone[p] /\ (p \in lost' <=> p \in lost)
          BY <1>2 DEF Stays
        <4>4. /\ p \in PacketsIn(b.data) =>
                   /\ Buffered(p)
                   /\ OneBuffer(p) => ~Buffered(p)' /\ OneBuffer(p)'
              /\ p \notin PacketsIn(b.data) =>
                   /\ Buffered(p)' <=> Buffered(p)
                   /\ OneBuffer(p) => OneBuffer(p)'
          BY <2>5 DEF Cleared, Vacated
        <4> QED BY <1>2, <4>1, <4>2, <4>3, <4>4 DEF Absent, OncePresent
      <3>3. PlaceInv'
        BY <1>2, <1>3, <3>1, <3>2 DEF PlaceInv, Stays, Later
      <3>4. Coded(b.data)
        BY <1>5, <1>6, <2>4, <3>1 DEF StampInv, BuffersCoded
      <3>5. StampInv'
        BY <2>1, <2>5, <2>7, <2>8, <3>1, <3>4 DEF StampInv, Cleared
      <3> QED BY <3>3, <3>5
    <2> QED BY <2>9, <2>10 DEF Core
  <1> QED BY <1>4, <1>6, <1>8, <1>10, <1>11, <1>12, <1>13 DEF Take

\* What consuela collected is sent, or lost.
LEMMA SendItStep ==
  ASSUME Core, SendIt
  PROVE  Core'
  <1>1. /\ Alive /\ ~Running /\ ~InUse /\ crashed = "no" /\ consuela.pc = "send"
        /\ Typed /\ ProcInv /\ BufferInv /\ ConsuelaInv /\ Basis
        /\ consuela \in ConsuelaType /\ proc = Idle
        /\ module \in {"running", "stopping", "stopped", "freed", "gone"}
    BY CleaningIs DEF SendIt
  <1>2. list' = list /\ todo' = todo /\ module' = module /\ raced' = raced
        /\ crashed' = crashed /\ (faults' = faults \/ Fault)
    BY DEF SendIt
  <1>3. Later /\ faults' \in 0..MaxFaults /\ (Fault => faults' > 0)
    BY <1>1, <1>2, TypeParts, LaterIs
  <1>4. PICK l, hold : l = consuela.level /\ hold = consuela.hold
    OBVIOUS
  <1>5. l \in Levels /\ hold # <<>> /\ (l = "app" => Singles(hold)) /\ hold \in Parts
    BY <1>1, <1>4 DEF ConsuelaInv, ConsuelaType
  <1>6. PICK skb : skb = Aggregate(l, Head(hold), Tail(hold))
    OBVIOUS
  <1>7. /\ skb \in Frames /\ skb.proto = l /\ ~skb.torn
        /\ PacketsIn(skb.parts) = PacketsIn(hold) /\ PacketsIn(hold) \subseteq Packets
        /\ l = "app" => Len(skb.parts) = 1
        /\ Coded(hold) => Coded(skb.parts)
    <2>1. PICK h \in NonEmpty, t \in Parts : h = Head(hold) /\ t = Tail(hold)
                                             /\ hold = <<h>> \o t
                                             /\ (Singles(hold) => Len(h) = 1 /\ Singles(t))
      BY <1>5, Peeled
    <2>2. Joins(l, h, t)
      BY <1>5, <2>1, AggregationAssumption DEF Joins
    <2>3. /\ skb \in Frames /\ skb.proto = l /\ ~skb.torn
          /\ PacketsIn(skb.parts) = PacketsIn(<<h>>) \cup PacketsIn(t)
          /\ l = "app" => Len(skb.parts) = 1
          /\ Coded(<<h>> \o t) => Coded(skb.parts)
      <3>1. skb = Aggregate(l, h, t)
        BY <1>6, <2>1
      <3> QED BY <3>1, <2>2, AggregateIs
    <2>4. PacketsIn(<<h>> \o t) = PacketsIn(<<h>>) \cup PacketsIn(t)
      BY Pushed
    <2> QED BY <1>5, <2>1, <2>3, <2>4, PacketsType
  <1>8. PICK d : consuela' = [consuela EXCEPT !.pc = "take", !.hold = <<>>, !.dangling = d]
                 /\ d \in BOOLEAN /\ (d => faults' > 0)
    BY <1>3 DEF SendIt
  <1>9. consuela' \in ConsuelaType /\ consuela'.pc = "take" /\ consuela'.hold = <<>>
        /\ consuela'.level = l /\ consuela'.it = consuela.it /\ consuela'.dangling = d
    BY <1>1, <1>4, <1>8, NoParts DEF ConsuelaType
  <1>10. ConsuelaInv'
    BY <1>1, <1>2, <1>4, <1>5, <1>8, <1>9 DEF ConsuelaInv
  <1>11. /\ ProcInv' /\ ~InUse' /\ ReadInv' /\ proc' \in ProcType
         /\ leaving' \in {skb, None}
         /\ \/ Running' /\ proc'.skb = skb /\ Moved({}, {})
            \/ ~Running' /\ Moved(PacketsIn(hold), {})
            \/ ~Running' /\ Fault /\ Moved({}, PacketsIn(hold))
    <2>1. CASE "ip" \in Levels /\ proc' = Enter("ip", skb) /\ Stays
      <3>1. ProcInv' /\ Running' /\ ~InUse' /\ ReadInv' /\ proc' \in ProcType
        BY <1>5, <1>7, <2>1, AggregationAssumption, ProcStarts
      <3>2. proc'.skb = skb
        BY <1>7, <2>1, EnterIs
      <3>3. Moved({}, {}) /\ leaving' = None
        BY <1>1, <2>1, StaysIs
      <3> QED BY <3>1, <3>2, <3>3
    <2>2. CASE Out(skb) /\ proc' = proc
      <3>1. ProcInv' /\ ~Running' /\ ~InUse' /\ ReadInv' /\ proc' \in ProcType
        BY <1>1, <2>2, ProcDone
      <3>2. Moved(PacketsIn(hold), {}) /\ leaving' \in {skb, None}
        BY <1>1, <1>7, <2>2, OutIs
      <3> QED BY <3>1, <3>2
    <2>3. CASE /\ Fault /\ lost' = lost \cup PacketsIn(hold) /\ leaving' = None
               /\ proc' = proc /\ gone' = gone
      <3>1. ProcInv' /\ ~Running' /\ ~InUse' /\ ReadInv' /\ proc' \in ProcType
        BY <1>1, <2>3, ProcDone
      <3>2. Moved({}, PacketsIn(hold))
        BY <1>1, <1>7, <2>3, LosesIs
      <3> QED BY <2>3, <3>1, <3>2
    <2> QED BY <1>4, <1>6, <2>1, <2>2, <2>3 DEF SendIt
  <1>12. Cleared({})
    BY <1>1, <1>2, <1>3, <1>11, ClearsNothing
  <1>13. Basis'
    <2>1. CrashNeedsCause'
      BY <1>1, <1>2 DEF CrashNeedsCause
    <2>2. leaving' \in Frames \cup {None}
      BY <1>7, <1>11
    <2>3. PICK S, D : Moved(S, D)
      BY <1>11
    <2>4. Typed'
      BY <1>1, <1>2, <1>3, <1>9, <1>11, <2>2, <2>3, TypeParts, TypeBack
    <2> QED BY <1>10, <1>11, <1>12, <2>1, <2>4 DEF Basis, Cleared
  <1>14. ASSUME ~raced' PROVE PlaceInv' /\ StampInv'
    <2>1. PlaceInv /\ StampInv /\ ~raced
      BY <1>2, <1>14 DEF Core
    <2>2. ASSUME NEW p \in Packets
          PROVE  IF p \in todo' THEN Absent(p)' ELSE OncePresent(p)'
      <3>1. IF p \in todo THEN Absent(p) ELSE OncePresent(p)
        BY <1>1, <2>1 DEF PlaceInv
      <3>2. ~Carried(p) /\ (Collected(p) <=> p \in PacketsIn(hold)) /\ ~Collected(p)'
        BY <1>1, <1>4, <1>9, NoParts DEF Carried, Collected
      <3>3. (Buffered(p)' <=> Buffered(p)) /\ (OneBuffer(p) => OneBuffer(p)')
        BY <1>12 DEF Cleared, Vacated
      <3>4. gone[p] \in Nat
        BY <1>1, TypeParts
      <3>5. CASE Running' /\ proc'.skb = skb /\ Moved({}, {})
        <4>1. Carried(p)' <=> p \in PacketsIn(hold)
          BY <1>7, <1>11, <3>5, CarriedIs
        <4>2. gone'[p] = gone[p] /\ (p \in lost' <=> p \in lost)
          BY <3>4, <3>5 DEF Moved
        <4> QED BY <1>2, <3>1, <3>2, <3>3, <4>1, <4>2 DEF Absent, OncePresent
      <3>6. CASE ~Running' /\ Moved(PacketsIn(hold), {})
        <4>1. ~Carried(p)'
          BY <1>11, <3>6, CarriedIs
        <4>2. /\ p \in PacketsIn(hold) => gone'[p] = gone[p] + 1
              /\ p \notin PacketsIn(hold) => gone'[p] = gone[p]
              /\ p \in lost' <=> p \in lost
          BY <3>4, <3>6 DEF Moved
        <4> QED BY <1>2, <3>1, <3>2, <3>3, <3>4, <4>1, <4>2 DEF Absent, OncePresent
      <3>7. CASE ~Running' /\ Moved({}, PacketsIn(hold))
        <4>1. ~Carried(p)'
          BY <1>11, <3>7, CarriedIs
        <4>2. gone'[p] = gone[p] /\ (p \in lost' <=> p \in lost \/ p \in PacketsIn(hold))
          BY <3>4, <3>7 DEF Moved
        <4> QED BY <1>2, <3>1, <3>2, <3>3, <4>1, <4>2 DEF Absent, OncePresent
      <3> QED BY <1>11, <3>5, <3>6, <3>7
    <2>3. lost' # {} => lost # {} \/ Fault
      BY <1>1, <1>11, TypeParts DEF Moved
    <2>4. PlaceInv'
      BY <1>2, <1>3, <2>1, <2>2, <2>3 DEF PlaceInv, Later
    <2>5. Coded(skb.parts)
      BY <1>4, <1>7, <2>1 DEF StampInv
    <2>6. Coded(consuela'.hold) /\ (Running' => Coded(proc'.skb.parts))
          /\ (leaving' # None => Coded(leaving'.parts))
      BY <1>9, <1>11, <2>5, CodedNone
    <2>7. StampInv'
      BY <1>12, <2>1, <2>6 DEF StampInv, Cleared
    <2> QED BY <2>4, <2>7
  <1> QED BY <1>13, <1>14 DEF Core

-----------------------------------------------------------------------------
(* cleanup_module.                                                         *)

\* kthread_stop.
LEMMA StopConsuelaStep ==
  ASSUME Core, StopConsuela
  PROVE  Core'
  <1>1. Alive /\ ~Running /\ crashed = "no" /\ Typed /\ ConsuelaInv /\ module = "running"
    BY DEF StopConsuela, Working, Running, Alive, Core, Basis
  <1>2. proc' = proc /\ todo' = todo /\ list' = list /\ raced' = raced /\ Stays
        /\ consuela' = consuela /\ faults' = faults
    BY DEF StopConsuela
  <1>3. consuela' \in ConsuelaType /\ ConsuelaInv'
    BY <1>1, <1>2, TypeParts DEF ConsuelaInv
  <1>4. CASE consuela.pc = "dead" /\ crashed' = "freed" /\ module' = module
    <2>1. CrashNeedsCause'
      BY <1>1, <1>2, <1>4 DEF CrashNeedsCause, ConsuelaInv
    <2> QED BY <1>1, <1>2, <1>3, <1>4, <2>1, QuietStep
  <1>5. CASE module' = "stopping" /\ crashed' = crashed
    <2>1. CrashNeedsCause'
      BY <1>1, <1>5 DEF CrashNeedsCause
    <2> QED BY <1>1, <1>2, <1>3, <1>5, <2>1, QuietStep
  <1> QED BY <1>4, <1>5 DEF StopConsuela

\* kthread_stop returns.
LEMMA FreeConsuelaStep ==
  ASSUME Core, FreeConsuela
  PROVE  Core'
  <1>1. Alive /\ ~Running /\ crashed = "no" /\ Typed /\ ConsuelaInv
        /\ module = "stopping"
    BY DEF FreeConsuela, Working, Running, Alive, Core, Basis
  <1>2. proc' = proc /\ todo' = todo /\ list' = list /\ raced' = raced /\ Stays
        /\ consuela' = consuela /\ faults' = faults /\ module' = "stopped"
        /\ crashed' \in {"no", "kfree"}
    BY DEF FreeConsuela
  <1>3. consuela' \in ConsuelaType /\ ConsuelaInv'
    BY <1>1, <1>2, TypeParts DEF ConsuelaInv
  <1>4. CrashNeedsCause'
    BY <1>2 DEF CrashNeedsCause
  <1> QED BY <1>1, <1>2, <1>3, <1>4, QuietStep

\* The packets in some buffer.
LEMMA AllBufferedIs ==
  ASSUME Typed
  PROVE  /\ \A p : p \in AllBuffered <=> Buffered(p)
         /\ AllBuffered \subseteq Packets
  <1>1. \A l \in Levels : \A k \in DOMAIN list[l] : list[l][k].data \in Parts
    BY TypeParts, BufferIs
  <1>2. ASSUME NEW p PROVE p \in AllBuffered <=> Buffered(p)
    BY DEF AllBuffered, Buffered, Inside, Range
  <1>3. ASSUME NEW p, Buffered(p) PROVE p \in Packets
    BY <1>1, <1>3, PacketsType DEF Buffered, Inside
  <1> QED BY <1>2, <1>3

\* free_buffers.
LEMMA FreeBuffersStep ==
  ASSUME Core, StopInv, FreeBuffers
  PROVE  Core'
  <1>1. /\ Alive /\ ~Running /\ crashed = "no" /\ Typed /\ ConsuelaInv /\ BufferInv
        /\ ProcInv /\ Basis /\ module = "stopped"
    BY DEF FreeBuffers, Working, Running, Alive, Core, Basis
  <1>2. proc' = proc /\ todo' = todo /\ consuela' = consuela /\ raced' = raced
        /\ faults' = faults
    BY DEF FreeBuffers
  <1>3. consuela' \in ConsuelaType /\ consuela.pc = "ended" /\ consuela.hold = <<>>
        /\ (consuela.dangling => faults > 0)
    BY <1>1, <1>2, TypeParts DEF ConsuelaInv, StopInv
  <1>4. CASE /\ crashed' \in {"null", "unlock"}
             /\ crashed' = "null" => \E l \in Levels : \E k \in DOMAIN list[l] :
                                        list[l][k] = NULL
             /\ Stays /\ list' = list /\ module' = module
    <2>1. crashed' = "null" => faults > 0
      BY <1>1, <1>4 DEF BufferInv, NULL
    <2>2. CrashNeedsCause'
      BY <1>1, <1>2, <1>4, <2>1 DEF CrashNeedsCause
    <2>3. ConsuelaInv'
      BY <1>1, <1>2, <1>4 DEF ConsuelaInv
    <2> QED BY <1>1, <1>2, <1>3, <1>4, <2>2, <2>3, QuietStep
  <1>5. CASE /\ module' = "freed" /\ lost' = lost \cup AllBuffered
             /\ list' = [l \in Levels |-> <<>>] /\ leaving' = None
             /\ gone' = gone /\ crashed' = crashed
    <2>1. Moved({}, AllBuffered)
      BY <1>1, <1>5, AllBufferedIs, LosesIs
    <2>2. \A l \in Levels : DOMAIN list'[l] = {}
      BY <1>5
    <2>3. list' \in [Levels -> Seq(Buffers)]
      BY <1>5
    <2>4. BufferInv'
      BY <2>2 DEF BufferInv
    <2>5. ReadInv' /\ ~Running'
      BY <1>1, <1>2 DEF ReadInv, Running
    <2>6. CrashNeedsCause'
      BY <1>1, <1>5 DEF CrashNeedsCause
    <2>7. Later /\ faults' \in 0..MaxFaults /\ todo' \subseteq Packets
      BY <1>1, <1>2, TypeParts, LaterIs
    <2>8. Basis'
      <3>0. ConsuelaInv'
        BY <1>2, <1>3 DEF ConsuelaInv
      <3>1. /\ module' \in {"running", "stopping", "stopped", "freed", "gone"}
            /\ crashed' \in {"no", "null", "panic", "freed", "kfree", "unlock"}
            /\ leaving' \in Frames \cup {None}
        BY <1>1, <1>5
      <3> QED BY <1>1, <1>2, <1>3, <2>1, <2>3, <2>4, <2>5, <2>6, <2>7, <3>0, <3>1,
                 WaitsBasis
    <2>9. ASSUME ~raced' PROVE PlaceInv' /\ StampInv'
      <3>1. PlaceInv /\ StampInv
        BY <1>2, <2>9 DEF Core
      <3>2. ASSUME NEW p \in Packets
            PROVE  IF p \in todo' THEN Absent(p)' ELSE OncePresent(p)'
        <4>1. IF p \in todo THEN Absent(p) ELSE OncePresent(p)
          BY <1>1, <3>1 DEF PlaceInv
        <4>2. (Carried(p)' <=> Carried(p)) /\ (Collected(p)' <=> Collected(p))
          BY <1>2 DEF Carried, Collected
        <4>3. ~Buffered(p)' /\ OneBuffer(p)'
          BY <2>2 DEF Buffered, OneBuffer
        <4>4. p \in lost' <=> p \in lost \/ Buffered(p)
          BY <1>1, <1>5, AllBufferedIs
        <4> QED BY <1>2, <1>5, <4>1, <4>2, <4>3, <4>4 DEF Absent, OncePresent
      <3>3. PlaceInv'
        BY <1>5, <3>2 DEF PlaceInv
      <3>4. BuffersCoded'
        BY <2>2 DEF BuffersCoded
      <3>5. StampInv'
        BY <1>2, <1>5, <2>5, <3>1, <3>4 DEF StampInv
      <3> QED BY <3>3, <3>5
    <2> QED BY <2>8, <2>9 DEF Core
  <1>6. PICK nodes : nodes = UNION {{list[l][k] : k \in Reached(l)} : l \in Levels}
    OBVIOUS
  <1>7. NULL \in nodes => \E l \in Levels : \E k \in DOMAIN list[l] : list[l][k] = NULL
    BY <1>6 DEF Reached
  <1>8. /\ crashed' \in {IF NULL \in nodes THEN "null" ELSE "no"} \cup
                       (IF nodes \ {NULL} # {} THEN {"unlock"} ELSE {})
        /\ IF crashed' = "no"
           THEN /\ module' = "freed" /\ lost' = lost \cup AllBuffered
                /\ list' = [l \in Levels |-> <<>>] /\ leaving' = None /\ gone' = gone
           ELSE Stays /\ list' = list /\ module' = module
    BY <1>6 DEF FreeBuffers
  <1>9. crashed' \in {"no", "null", "unlock"} /\ (crashed' = "null" => NULL \in nodes)
    BY <1>8
  <1> QED BY <1>1, <1>4, <1>5, <1>7, <1>8, <1>9

\* The hooks are unregistered.
LEMMA UnregisterInterceptorStep ==
  ASSUME Core, UnregisterInterceptor
  PROVE  Core'
  <1>1. Alive /\ ~Running /\ crashed = "no" /\ Typed /\ ConsuelaInv
    BY DEF UnregisterInterceptor, Working, Running, Alive, Core, Basis
  <1>2. proc' = proc /\ todo' = todo /\ list' = list /\ raced' = raced /\ Stays
        /\ consuela' = consuela /\ faults' = faults /\ crashed' = crashed
        /\ module' = "gone"
    BY DEF UnregisterInterceptor
  <1>3. consuela' \in ConsuelaType /\ ConsuelaInv'
    BY <1>1, <1>2, TypeParts DEF ConsuelaInv
  <1>4. CrashNeedsCause'
    BY <1>1, <1>2 DEF CrashNeedsCause
  <1> QED BY <1>1, <1>2, <1>3, <1>4, QuietStep

-----------------------------------------------------------------------------
(* The lists, and the end of consuela.                                     *)

\* consuela has ended when the buffers are freed.
LEMMA StopKept ==
  ASSUME StopInv, [Next]_vars
  PROVE  StopInv'
  <1>1. ASSUME consuela' = consuela, module' = module PROVE StopInv'
    BY <1>1 DEF StopInv
  <1>2. ASSUME NEW p, Send(p) PROVE StopInv'
    BY <1>2, <1>1 DEF Send
  <1>3. ASSUME NEW p, Forward(p) PROVE StopInv'
    BY <1>3, <1>1 DEF Forward
  <1>4. CASE Hook
    BY <1>4, <1>1 DEF Hook, Lookup, Create, Link, LinkLast, Peek, StampPrevious, Decide,
       Push, Expand, Put, Copy, Total, Reset
  <1>5. CASE Consuela
    <2>1. consuela.pc # "ended" /\ module' = module
      BY <1>5 DEF Consuela, ConsuelaStarts, ConsuelaLoops, LevelDone, Take, SendIt, Cleaning
    <2> QED BY <2>1 DEF StopInv
  <1>6. CASE StopConsuela
    BY <1>6 DEF StopConsuela, StopInv
  <1>7. CASE Cleanup
    BY <1>7 DEF Cleanup, FreeConsuela, FreeBuffers, UnregisterInterceptor, StopInv
  <1>8. CASE UNCHANGED vars
    BY <1>8, <1>1 DEF vars
  <1> QED BY <1>2, <1>3, <1>4, <1>5, <1>6, <1>7, <1>8 DEF Next

\* No list changes, and no hook starts to extend one.
LEMMA LinksKept ==
  ASSUME LinkInv, Later, links' = links,
         \A l \in Levels : DOMAIN list'[l] = DOMAIN list[l],
         proc' = proc \/ proc'.pc \notin {"link", "last"},
         proc.pc \in {"link", "last"} => L \in Levels
  PROVE  LinkInv'
  <1>1. links' \in [Levels -> LinkType]
    BY DEF LinkInv
  <1>2. ASSUME NEW l \in Levels
        PROVE  Pointers(links[l], DOMAIN list'[l]) /\ (Broken(links[l]) => faults' > 0)
    BY DEF LinkInv, Later
  <1>3. ExtendInv'
    <2> SUFFICES ASSUME proc' = proc, proc.pc \in {"link", "last"} PROVE ExtendInv'
      BY DEF ExtendInv
    <2>1. L' = L /\ L \in Levels /\ DOMAIN list'[L] = DOMAIN list[L]
      BY DEF L
    <2> QED BY <2>1 DEF LinkInv, ExtendInv, Later
  <1> QED BY <1>1, <1>2, <1>3 DEF LinkInv

\* One list changes.
LEMMA LinksChange ==
  ASSUME LinkInv, Later, NEW l \in Levels, NEW kl, links' = [links EXCEPT ![l] = kl],
         \A m \in Levels : m # l => DOMAIN list'[m] = DOMAIN list[m],
         Pointers(kl, DOMAIN list'[l]), Broken(kl) => faults' > 0, ExtendInv'
  PROVE  LinkInv'
  <1>1. kl \in LinkType /\ links \in [Levels -> LinkType]
    BY DEF Pointers, LinkInv
  <1>2. links' \in [Levels -> LinkType] /\ links'[l] = kl
        /\ \A m \in Levels : m # l => links'[m] = links[m]
    BY <1>1
  <1>3. ASSUME NEW m \in Levels
        PROVE  Pointers(links'[m], DOMAIN list'[m]) /\ (Broken(links'[m]) => faults' > 0)
    <2>1. CASE m = l
      BY <1>2, <2>1
    <2>2. CASE m # l
      BY <1>2, <2>2 DEF LinkInv, Later
    <2> QED BY <2>1, <2>2
  <1> QED BY <1>2, <1>3 DEF LinkInv

\* New data for a buffer leaves the nodes as they are.
LEMMA SameNodes ==
  ASSUME Typed, NEW l \in Levels, NEW k, NEW d, list' = [list EXCEPT ![l][k].data = d]
  PROVE  \A m \in Levels : DOMAIN list'[m] = DOMAIN list[m]
  BY TypeParts

\* A node is added to the list, or to its end.
LEMMA PointersGrow ==
  ASSUME NEW n \in Nat, NEW kl, Pointers(kl, 1..n), NEW new,
         new = [kl EXCEPT !.front = Append(@, 0)]
  PROVE  Pointers(new, 1..(n + 1)) /\ new.first = kl.first /\ new.last = kl.last
         /\ new.made = kl.made /\ (Broken(new) <=> Broken(kl))
  <1>1. kl \in LinkType /\ DOMAIN kl.front = 1..n /\ kl.front \in Seq(Nat)
    BY DEF Pointers, LinkType
  <1>2. PICK s : s = Append(kl.front, 0)
    OBVIOUS
  <1>3. Len(kl.front) = n
    BY <1>1
  <1>4. s \in Seq(Nat) /\ DOMAIN s = 1..(n + 1) /\ s[n + 1] = 0
        /\ \A k \in 1..n : s[k] = kl.front[k]
    BY <1>1, <1>2, <1>3
  <1>5. new \in LinkType /\ new.front = s /\ new.first = kl.first /\ new.last = kl.last
        /\ new.made = kl.made
    BY <1>1, <1>2, <1>4 DEF LinkType
  <1>6. \A k \in 1..(n + 1) : s[k] \in 1..(n + 1) \cup {0}
    <2> SUFFICES ASSUME NEW k \in 1..(n + 1) PROVE s[k] \in 1..(n + 1) \cup {0}
      OBVIOUS
    <2>1. CASE k = n + 1
      BY <1>4, <2>1
    <2>2. CASE k # n + 1
      <3>1. k \in 1..n
        BY <2>2
      <3>2. s[k] \in 1..n \cup {0}
        BY <1>4, <3>1 DEF Pointers
      <3> QED BY <3>2
    <2> QED BY <2>1, <2>2
  <1>7. kl.first \in 1..(n + 1) \cup {0} /\ kl.last \in 1..(n + 1) \cup {0}
    BY DEF Pointers
  <1> QED BY <1>4, <1>5, <1>6, <1>7 DEF Pointers, Broken

\* add_klist_node_to_klist, for a node k or none.
LEMMA ExtendedIs ==
  ASSUME NEW D, D \subseteq Nat, NEW kl, Pointers(kl, D), ~Broken(kl), NEW k \in D \cup {0}
  PROVE  /\ Pointers(Extended(kl, k), D) /\ Extended(kl, k).last = k
         /\ k # 0 => ~Broken(Extended(kl, k))
  <1>1. kl \in LinkType /\ DOMAIN kl.front = D /\ kl.front \in Seq(Nat) /\ kl.made
        /\ k \in Nat /\ kl.first \in D \cup {0} /\ kl.last \in D \cup {0}
        /\ \A j \in D : kl.front[j] \in D \cup {0}
    BY DEF Pointers, LinkType, Broken
  <1>2. PICK new : new = IF kl.first = 0 THEN [kl EXCEPT !.first = k, !.last = k]
                         ELSE [kl EXCEPT !.front[kl.last] = k, !.last = k]
    OBVIOUS
  <1>3. new \in LinkType /\ new.last = k /\ new.first \in D \cup {0} /\ new.made
        /\ DOMAIN new.front = D /\ (k # 0 => new.first # 0 /\ new.last # 0)
        /\ \A j \in D : new.front[j] \in D \cup {0}
    <2>1. CASE kl.first = 0
      <3>1. new = [kl EXCEPT !.first = k, !.last = k]
        BY <1>2, <2>1
      <3>2. new \in LinkType /\ new.last = k /\ new.first = k /\ new.made = kl.made
            /\ new.front = kl.front
        BY <1>1, <3>1 DEF LinkType
      <3> QED BY <1>1, <3>2
    <2>2. CASE kl.first # 0
      <3>1. PICK s : s = [kl.front EXCEPT ![kl.last] = k]
        OBVIOUS
      <3>2. s \in Seq(Nat) /\ DOMAIN s = D
        <4>1. PICK m \in Nat : DOMAIN kl.front = 1..m /\ kl.front \in [1..m -> Nat]
          BY <1>1, SMTT(30)
        <4>2. s \in [1..m -> Nat]
          BY <1>1, <3>1, <4>1
        <4>3. s \in Seq(Nat)
          BY <4>1, <4>2
        <4>4. DOMAIN s = 1..m
          BY <4>2
        <4> QED BY <1>1, <4>1, <4>3, <4>4
      <3>3. \A j \in D : s[j] \in D \cup {0}
        BY <1>1, <3>1
      <3>4. new = [kl EXCEPT !.front = s, !.last = k]
        BY <1>2, <2>2, <3>1
      <3>5. new \in LinkType /\ new.last = k /\ new.first = kl.first
            /\ new.made = kl.made /\ new.front = s
        BY <1>1, <3>2, <3>4 DEF LinkType
      <3> QED BY <1>1, <2>2, <3>2, <3>3, <3>5
    <2> QED BY <2>1, <2>2
  <1>4. PICK c \in BOOLEAN : c = (new.cut \/ Extending)
    OBVIOUS
  <1>5. Extended(kl, k) = [new EXCEPT !.cut = c]
    BY <1>2, <1>4 DEF Extended
  <1>6. PICK e : e = [new EXCEPT !.cut = c]
    OBVIOUS
  <1>7. e \in LinkType /\ e.last = new.last /\ e.first = new.first /\ e.made = new.made
        /\ e.front = new.front
    BY <1>3, <1>6 DEF LinkType
  <1>8. Pointers(e, D) /\ e.last = k /\ (k # 0 => ~Broken(e))
    BY <1>1, <1>3, <1>7 DEF Pointers, Broken
  <1> QED BY <1>5, <1>6, <1>8

\* The nodes are numbered.
LEMMA NodesAre ==
  ASSUME Typed, LinkInv, NEW l \in Levels
  PROVE  \E n \in Nat : /\ n = Len(list[l]) /\ DOMAIN list[l] = 1..n
                        /\ Pointers(links[l], 1..n) /\ links[l] \in LinkType
                        /\ Broken(links[l]) => faults > 0
  <1>1. PICK n \in Nat : n = Len(list[l]) /\ DOMAIN list[l] = 1..n
    BY BufferIs
  <1>2. Pointers(links[l], 1..n) /\ (Broken(links[l]) => faults > 0)
    BY <1>1 DEF LinkInv
  <1>3. links[l] \in LinkType
    BY DEF LinkInv
  <1> QED BY <1>1, <1>2, <1>3

\* A hook that does not run, and one that starts.
LEMMA EnterPc == Idle.pc = "idle" /\ \A l, skb : Enter(l, skb).pc = "lookup"
  BY DEF Idle, Enter

\* A hook that accepts a frame is done with its level.
LEMMA AcceptedPc ==
  ASSUME NEW skb, Accept(skb)
  PROVE  proc'.pc \in {"idle", "lookup"}
  BY EnterPc DEF Accept

\* So is one that has extended its list, or it uses the new buffer.
LEMMA LastPc ==
  ASSUME proc \in ProcType, LinkLast
  PROVE  proc'.pc \notin {"link", "last"}
  <1>1. CASE \E skb : Accept(skb)
    BY <1>1, AcceptedPc
  <1>2. CASE proc' = [proc EXCEPT !.pc = "peek", !.prev = 0]
    BY <1>2 DEF ProcType
  <1>3. CASE proc' = Idle
    BY <1>3 DEF Idle
  <1> QED BY <1>1, <1>2, <1>3 DEF LinkLast

\* The steps of a hook that extends no list.
LEMMA HookLinks ==
  ASSUME IInv, \/ Lookup \/ Peek \/ StampPrevious \/ Decide \/ Push \/ Expand \/ Put
               \/ Copy \/ Total \/ Reset
  PROVE  LinkInv'
  <1>1. Basis /\ Typed /\ LinkInv /\ proc \in ProcType
    BY TypeParts DEF IInv, Core, Basis
  <1>2. proc.pc \notin {"link", "last", "idle"} /\ links' = links /\ raced' = raced
        /\ (faults' = faults \/ Fault)
    BY DEF Lookup, Peek, StampPrevious, Decide, Push, Expand, Put, Copy, Total, Reset,
           Working, ExpandFails
  <1>3. Later
    BY <1>1, <1>2, TypeParts, LaterIs
  <1>4. L \in Levels
    BY <1>1, <1>2, HookIs DEF Running
  <1>5. list' = list \/ \E d : list' = [list EXCEPT ![L][proc.buf].data = d]
    BY DEF Lookup, Peek, StampPrevious, Decide, Push, Expand, Put, Copy, Total, Reset,
           ExpandFails, SetData
  <1>6. \A l \in Levels : DOMAIN list'[l] = DOMAIN list[l]
    <2>1. CASE list' = list
      BY <2>1
    <2>2. CASE \E d : list' = [list EXCEPT ![L][proc.buf].data = d]
      BY <1>1, <1>4, <2>2, SameNodes
    <2> QED BY <1>5, <2>1, <2>2
  <1>7. proc' = proc \/ proc'.pc \notin {"link", "last"}
    <2>1. CASE Lookup
      BY <1>1, <2>1 DEF Lookup, ProcType
    <2>2. CASE Peek
      <3>1. CASE Accept(proc.skb)
        BY <3>1, AcceptedPc
      <3>2. CASE proc' = [proc EXCEPT !.pc = "stamp", !.off = DataLen(L, Data)]
        BY <1>1, <3>2 DEF ProcType
      <3> QED BY <2>2, <3>1, <3>2 DEF Peek
    <2>3. CASE StampPrevious \/ Decide \/ Copy
      BY <1>1, <2>3 DEF StampPrevious, Decide, Copy, ProcType
    <2>4. CASE Push
      BY <2>4 DEF Push, Idle
    <2>5. CASE ExpandFails
      <3>1. proc' = Idle \/ \E skb : proc' = Enter("ip", skb)
        BY <2>5 DEF ExpandFails
      <3> QED BY <3>1, EnterPc
    <2>6. CASE Expand
      BY <1>1, <2>5, <2>6 DEF Expand, ProcType
    <2>7. CASE Put
      BY <1>1, <2>7 DEF Put, ProcType
    <2>8. CASE Total
      BY <1>1, <2>5, <2>8 DEF Total, ProcType
    <2>9. CASE Reset
      BY <2>9, AcceptedPc DEF Reset
    <2> QED BY <2>1, <2>2, <2>3, <2>4, <2>6, <2>7, <2>8, <2>9
  <1> QED BY <1>1, <1>2, <1>3, <1>6, <1>7, LinksKept

\* A new node, or none.
LEMMA CreateLinks ==
  ASSUME IInv, Create
  PROVE  LinkInv'
  <1>1. Basis /\ Typed /\ LinkInv /\ proc \in ProcType
    BY TypeParts DEF IInv, Core, Basis
  <1>2. proc.pc = "create" /\ Running /\ raced' = raced /\ (faults' = faults \/ Fault)
    BY DEF Create, Working, Running
  <1>3. Later /\ (Fault => faults' > 0)
    BY <1>1, <1>2, TypeParts, LaterIs
  <1>4. PICK l \in Levels : l = L
    BY <1>1, <1>2, HookIs
  <1>5. PICK n \in Nat : /\ n = Len(list[l]) /\ DOMAIN list[l] = 1..n
                         /\ Pointers(links[l], 1..n) /\ links[l] \in LinkType
                         /\ Broken(links[l]) => faults > 0
    BY <1>1, NodesAre
  <1>6. PICK q : q = IF links[l].first = 0 THEN 0 ELSE links[l].last
    OBVIOUS
  <1>7. q \in 1..n \cup {0} /\ q \in Nat
    BY <1>5, <1>6 DEF Pointers
  <1>8. CASE list' = list /\ links' = links /\ proc' = proc
    BY <1>1, <1>2, <1>3, <1>8, LinksKept
  <1>9. CASE /\ Fault /\ list' = list /\ links' = links
             /\ proc' = [proc EXCEPT !.pc = "link", !.buf = 0, !.prev = q]
    <2>1. proc'.pc = "link" /\ proc'.buf = 0 /\ proc'.prev = q /\ L' = l
      BY <1>1, <1>4, <1>9 DEF ProcType, L
    <2>2. ExtendInv'
      BY <1>3, <1>5, <1>7, <1>9, <2>1 DEF ExtendInv
    <2>3. \A m \in Levels : Broken(links[m]) => faults' > 0
      BY <1>1, <1>3 DEF LinkInv, Later
    <2> QED BY <1>1, <1>9, <2>2, <2>3 DEF LinkInv
  <1>10. ASSUME NEW b \in Buffers, list' = [list EXCEPT ![l] = Append(@, b)],
                links' = [links EXCEPT ![l].front = Append(@, 0)],
                proc' = [proc EXCEPT !.pc = "link", !.buf = n + 1, !.prev = q]
         PROVE  LinkInv'
    <2>1. proc'.pc = "link" /\ proc'.buf = n + 1 /\ proc'.prev = q /\ L' = l
      BY <1>1, <1>4, <1>10 DEF ProcType, L
    <2>2. DOMAIN list'[l] = 1..n \cup {n + 1}
          /\ \A m \in Levels : m # l => DOMAIN list'[m] = DOMAIN list[m]
      BY <1>1, <1>5, <1>10, AppendIs DEF Wrote
    <2>3. DOMAIN list'[l] = 1..(n + 1)
      BY <2>2
    <2>a. PICK old : old = links[l]
      OBVIOUS
    <2>4. PICK kl : kl = [old EXCEPT !.front = Append(@, 0)]
      OBVIOUS
    <2>5. links' = [links EXCEPT ![l] = kl]
      BY <1>10, <2>4, <2>a
    <2>6. Pointers(kl, 1..(n + 1)) /\ (Broken(kl) <=> Broken(links[l]))
      <3>1. Pointers(old, 1..n)
        BY <1>5, <2>a
      <3>2. Pointers(kl, 1..(n + 1)) /\ (Broken(kl) <=> Broken(old))
        BY <2>4, <3>1, PointersGrow
      <3> QED BY <2>a, <3>2
    <2>7. ExtendInv'
      <3>1. n + 1 \in 1..(n + 1) /\ q \in 1..(n + 1) \cup {0} /\ n + 1 # 0
        BY <1>7
      <3> QED BY <2>1, <2>3, <3>1 DEF ExtendInv
    <2>8. Broken(kl) => faults' > 0
      BY <1>3, <1>5, <2>6 DEF Later
    <2> QED BY <1>1, <1>3, <2>2, <2>3, <2>5, <2>6, <2>7, <2>8, LinksChange
  <1>11. [ip |-> DstOf(proc.skb), data |-> <<>>] \in Buffers /\ NULL \in Buffers
    <2>1. DstOf(proc.skb) \in {Dst[p] : p \in Packets}
      BY <1>1, <1>2, HookIs, FrameIs
    <2> QED BY <2>1, NoParts, NodeIs
  <1> QED BY <1>4, <1>5, <1>6, <1>8, <1>9, <1>10, <1>11 DEF Create

\* The two stores.
LEMMA LinkLinks ==
  ASSUME IInv, Link \/ LinkLast
  PROVE  LinkInv'
  <1>1. Basis /\ Typed /\ LinkInv /\ proc \in ProcType
    BY TypeParts DEF IInv, Core, Basis
  <1>2. /\ proc.pc \in {"link", "last"} /\ Running /\ raced' = raced
        /\ faults' = faults /\ list' = list
    BY DEF Link, LinkLast, Working, Running
  <1>3. Later
    BY <1>1, <1>2, TypeParts, LaterIs
  <1>4. PICK l \in Levels : l = L
    BY <1>1, <1>2, HookIs
  <1>5. PICK n \in Nat : /\ n = Len(list[l]) /\ DOMAIN list[l] = 1..n
                         /\ Pointers(links[l], 1..n) /\ links[l] \in LinkType
                         /\ Broken(links[l]) => faults > 0
    BY <1>1, NodesAre
  <1>6. PICK k, q : k = proc.buf /\ q = proc.prev
    OBVIOUS
  <1>7. /\ k \in 1..n \cup {0} /\ q \in 1..n \cup {0} /\ (k = 0 => faults > 0)
        /\ proc.pc = "last" /\ q = 0 => links[l].last # 0 \/ faults > 0
    BY <1>1, <1>2, <1>4, <1>5, <1>6 DEF LinkInv, ExtendInv
  <1>8. PICK old : old = links[l]
    OBVIOUS
  <1>9. /\ old \in LinkType /\ DOMAIN old.front = 1..n /\ old.front \in Seq(Nat)
        /\ old.first \in 1..n \cup {0} /\ old.last \in 1..n \cup {0}
        /\ \A j \in 1..n : old.front[j] \in 1..n \cup {0}
    BY <1>5, <1>8 DEF Pointers, LinkType
  <1>10. k \in Nat /\ q \in Nat
    BY <1>7
  <1>11. ASSUME NEW kl, links' = [links EXCEPT ![l] = kl], kl \in LinkType,
                kl.front = old.front, kl.made = old.made,
                \/ Link /\ q = 0 /\ kl.first = old.first /\ kl.last = k
                \/ LinkLast /\ q = 0 /\ kl.first = k /\ kl.last = old.last
                \/ LinkLast /\ q # 0 /\ kl.first = old.first /\ kl.last = k
         PROVE  LinkInv'
    <2>1. Pointers(kl, 1..n)
      BY <1>7, <1>9, <1>11 DEF Pointers
    <2>2. Broken(kl) => faults' > 0
      <3>1. LinkLast => proc.pc = "last"
        BY DEF LinkLast, Working
      <3> QED BY <1>2, <1>5, <1>7, <1>8, <1>11, <3>1 DEF Broken
    <2>3. ExtendInv'
      <3>1. CASE Link /\ q = 0 /\ kl.last = k
        <4>1. proc' = [proc EXCEPT !.pc = "last"]
          BY <3>1 DEF Link
        <4>2. proc'.pc = "last" /\ proc'.buf = k /\ proc'.prev = q /\ L' = l
          BY <1>1, <1>4, <1>6, <4>1 DEF ProcType, L
        <4>3. links'[l] = kl
          BY <1>1, <1>11 DEF LinkInv
        <4> QED BY <1>2, <1>5, <1>7, <3>1, <4>2, <4>3 DEF ExtendInv
      <3>2. CASE LinkLast
        <4>1. proc'.pc \notin {"link", "last"}
          BY <3>2, LastPc, <1>1
        <4> QED BY <4>1 DEF ExtendInv
      <3> QED BY <1>11, <3>1, <3>2
    <2> QED BY <1>1, <1>2, <1>3, <1>5, <1>11, <2>1, <2>2, <2>3, LinksChange
  <1>12. ASSUME NEW kl, links' = [links EXCEPT ![l] = kl], Link, q # 0,
                kl = [old EXCEPT !.front[q] = k]
         PROVE  LinkInv'
    <2>1. PICK s : s = [old.front EXCEPT ![q] = k]
      OBVIOUS
    <2>2. s \in Seq(Nat) /\ DOMAIN s = 1..n
      <3>1. old.front \in [1..n -> Nat]
        BY <1>9
      <3>2. s \in [1..n -> Nat]
        BY <1>10, <2>1, <3>1
      <3> QED BY <3>2
    <2>3. \A j \in 1..n : s[j] \in 1..n \cup {0}
      BY <1>7, <1>9, <2>1
    <2>4. kl = [old EXCEPT !.front = s]
      BY <1>12, <2>1
    <2>5. kl \in LinkType /\ kl.last = old.last /\ kl.first = old.first
          /\ kl.made = old.made /\ kl.front = s
      BY <1>9, <2>2, <2>4 DEF LinkType
    <2>6. Pointers(kl, 1..n)
      BY <1>9, <2>2, <2>3, <2>5 DEF Pointers
    <2>7. Broken(kl) => faults' > 0
      BY <1>2, <1>5, <1>8, <2>5 DEF Broken
    <2>8. proc' = [proc EXCEPT !.pc = "last"]
      BY <1>12 DEF Link
    <2>9. proc'.pc = "last" /\ proc'.buf = k /\ proc'.prev = q /\ L' = l
      BY <1>1, <1>4, <1>6, <2>8 DEF ProcType, L
    <2>10. ExtendInv'
      BY <1>2, <1>5, <1>7, <1>12, <2>9 DEF ExtendInv
    <2> QED BY <1>1, <1>2, <1>3, <1>5, <1>12, <2>6, <2>7, <2>10, LinksChange
  <1>13. CASE Link
    <2>1. links' = [links EXCEPT ![l] = IF q = 0 THEN [old EXCEPT !.last = k]
                                        ELSE [old EXCEPT !.front[q] = k]]
      BY <1>4, <1>6, <1>8, <1>13 DEF Link
    <2>2. CASE q = 0
      <3>1. PICK kl : kl = [old EXCEPT !.last = k]
        OBVIOUS
      <3>2. kl \in LinkType /\ kl.front = old.front /\ kl.made = old.made
            /\ kl.first = old.first /\ kl.last = k
        BY <1>9, <1>10, <3>1 DEF LinkType
      <3>3. links' = [links EXCEPT ![l] = kl]
        BY <2>1, <2>2, <3>1
      <3> QED BY <1>11, <1>13, <2>2, <3>2, <3>3
    <2>3. CASE q # 0
      <3>1. PICK kl : kl = [old EXCEPT !.front[q] = k]
        OBVIOUS
      <3>2. links' = [links EXCEPT ![l] = kl]
        BY <2>1, <2>3, <3>1
      <3> QED BY <1>12, <1>13, <2>3, <3>1, <3>2
    <2> QED BY <2>2, <2>3
  <1>14. CASE LinkLast
    <2>1. links' = [links EXCEPT ![l] = IF q = 0 THEN [old EXCEPT !.first = k]
                                        ELSE [old EXCEPT !.last = k]]
      BY <1>4, <1>6, <1>8, <1>14 DEF LinkLast
    <2>2. PICK kl : kl = IF q = 0 THEN [old EXCEPT !.first = k]
                         ELSE [old EXCEPT !.last = k]
      OBVIOUS
    <2>3. kl \in LinkType /\ kl.front = old.front /\ kl.made = old.made
          /\ (q = 0 => kl.first = k /\ kl.last = old.last)
          /\ (q # 0 => kl.first = old.first /\ kl.last = k)
      BY <1>9, <1>10, <2>2 DEF LinkType
    <2>4. links' = [links EXCEPT ![l] = kl]
      BY <2>1, <2>2
    <2> QED BY <1>11, <1>14, <2>3, <2>4
  <1> QED BY <1>13, <1>14

\* An empty list.
LEMMA NoNodesAre ==
  /\ NoNodes \in LinkType /\ ~Broken(NoNodes) /\ Pointers(NoNodes, DOMAIN <<>>)
  /\ \A b \in BOOLEAN : LET kl == [NoNodes EXCEPT !.made = b]
                         IN  /\ kl \in LinkType /\ Pointers(kl, DOMAIN <<>>)
                             /\ Broken(kl) => ~b
  <1>1. NoNodes \in LinkType /\ NoNodes.front = <<>> /\ NoNodes.first = 0
        /\ NoNodes.last = 0 /\ NoNodes.made
    BY DEF NoNodes, LinkType
  <1>2. ASSUME NEW b \in BOOLEAN, NEW kl, kl = [NoNodes EXCEPT !.made = b]
        PROVE  /\ kl \in LinkType /\ Pointers(kl, DOMAIN <<>>) /\ (Broken(kl) => ~b)
    <2>1. kl \in LinkType /\ kl.front = <<>> /\ kl.first = 0 /\ kl.last = 0 /\ kl.made = b
      BY <1>1, <1>2 DEF LinkType
    <2> QED BY <2>1 DEF Pointers, Broken
  <1>3. ~Broken(NoNodes) /\ Pointers(NoNodes, DOMAIN <<>>)
    BY <1>1 DEF Pointers, Broken
  <1> QED BY <1>1, <1>2, <1>3

\* __push_ip_packet writes one buffer.
LEMMA ForwardData ==
  ASSUME Typed, "ip" \in Levels, NEW f \in Packets, NEW bufs, NEW k,
         NEW ip \in {Dst[p] : p \in Packets}, Grown(bufs, k, ip),
         NEW n, ForwardInto(f, bufs, k, n)
  PROVE  \E b : Wrote(list', "ip", k, b)
  <1>1. PICK old \in Parts : old = bufs[k].data
    <2>1. PICK d \in Parts : d = <<>>
      BY NoParts
    <2>2. PICK new : new = [list EXCEPT !["ip"] = [bufs EXCEPT ![k].data = d]]
      OBVIOUS
    <2> QED BY <2>2, InsertIs
  <1>2. PICK new \in NonEmpty : new = Plain(f)
    BY PlainIs
  <1>3. PICK data : data = Relative("ip", old, DataLen("ip", old), new)
    OBVIOUS
  <1>4. data \in Parts
    BY <1>1, <1>2, <1>3, RelativeType
  <1>5. <<new>> \o data \in Parts /\ <<>> \in Parts
    BY <1>2, <1>4, Pushed, NoParts
  <1>6. PICK d : /\ d \in {<<new>> \o data, <<>>}
                 /\ list' = [list EXCEPT !["ip"] = [bufs EXCEPT ![k].data = d]]
    BY <1>1, <1>2, <1>3 DEF ForwardInto
  <1>7. d \in Parts
    BY <1>5, <1>6
  <1>8. Wrote(list', "ip", k, [ip |-> ip, data |-> d])
    BY <1>6, <1>7, InsertIs
  <1> QED BY <1>8

\* The softirq extends the list, with the node of a new buffer or with nothing.
LEMMA ForwardExtends ==
  ASSUME IInv, "ip" \in Levels, Later, proc' = proc, NEW n \in Nat,
         DOMAIN list["ip"] = 1..n, NEW m \in Nat, n <= m, DOMAIN list'["ip"] = 1..m,
         \A l \in Levels : l # "ip" => DOMAIN list'[l] = DOMAIN list[l],
         NEW kl, Pointers(kl, 1..m), ~Broken(kl), NEW k \in 1..m \cup {0},
         k = 0 => faults' > 0, links' = [links EXCEPT !["ip"] = Extended(kl, k)]
  PROVE  LinkInv'
  <1>1. Basis /\ Typed /\ LinkInv
    BY DEF IInv, Core, Basis
  <1>2. PICK new : new = Extended(kl, k)
    OBVIOUS
  <1>3. Pointers(new, 1..m) /\ new.last = k /\ (k # 0 => ~Broken(new))
    <2>1. 1..m \subseteq Nat
      OBVIOUS
    <2> QED BY <1>2, <2>1, ExtendedIs
  <1>4. links' = [links EXCEPT !["ip"] = new]
    BY <1>2
  <1>5. ExtendInv'
    <2> SUFFICES ASSUME proc.pc \in {"link", "last"} PROVE ExtendInv'
      BY DEF ExtendInv
    <2>1. PICK l \in Levels : l = L /\ L' = l
      BY <1>1, HookIs DEF Running, L
    <2>2. /\ proc.buf \in DOMAIN list[l] \cup {0} /\ proc.prev \in DOMAIN list[l] \cup {0}
          /\ proc.buf = 0 => faults > 0
          /\ proc.pc = "last" /\ proc.prev = 0 => links[l].last # 0 \/ faults > 0
      BY <1>1, <2>1 DEF LinkInv, ExtendInv
    <2>3. links \in [Levels -> LinkType]
      BY <1>1 DEF LinkInv
    <2>4. CASE l = "ip"
      <3>1. links'[l].last = k
        BY <1>3, <1>4, <2>3, <2>4
      <3>2. DOMAIN list[l] \subseteq DOMAIN list'[l]
        BY <2>4
      <3>3. links'[l].last # 0 \/ faults' > 0
        BY <3>1
      <3>4. proc.buf = 0 => faults' > 0
        BY <2>2 DEF Later
      <3> QED BY <2>1, <2>2, <3>2, <3>3, <3>4 DEF ExtendInv
    <2>5. CASE l # "ip"
      <3>1. links'[l] = links[l] /\ DOMAIN list'[l] = DOMAIN list[l]
        BY <1>4, <2>3, <2>5
      <3>2. faults > 0 => faults' > 0
        BY DEF Later
      <3> QED BY <2>1, <2>2, <3>1, <3>2 DEF ExtendInv
    <2> QED BY <2>4, <2>5
  <1>6. Broken(new) => faults' > 0
    BY <1>3
  <1>7. Pointers(new, DOMAIN list'["ip"])
    BY <1>3
  <1> QED BY <1>1, <1>4, <1>5, <1>6, <1>7, LinksChange

\* get_ip_buffer_for makes a buffer, or fails to.
LEMMA ForwardCreatesLinks ==
  ASSUME IInv, NEW f, Softirq(f), NEW n \in Nat, faults <= n, n <= MaxFaults,
         ForwardCreates(f, n)
  PROVE  LinkInv'
  <1>1. Basis /\ Typed /\ LinkInv /\ "ip" \in Levels /\ proc' = proc
    BY DEF IInv, Core, Basis, Softirq
  <1>2. MaxFaults \in Nat /\ faults \in Nat /\ raced \in BOOLEAN
    BY <1>1, TypeParts
  <1>3. Later
    <2>1. faults' \in Nat /\ faults <= faults'
      BY <1>2, SMTT(30) DEF ForwardCreates, ForwardInto
    <2>2. raced' \in BOOLEAN /\ (raced => raced')
      BY <1>2 DEF ForwardCreates, ForwardInto, Using
    <2> QED BY <1>2, <2>1, <2>2 DEF Later
  <1>4. PICK m \in Nat : /\ m = Len(list["ip"]) /\ DOMAIN list["ip"] = 1..m
                         /\ Pointers(links["ip"], 1..m) /\ links["ip"] \in LinkType
                         /\ Broken(links["ip"]) => faults > 0
    BY <1>1, NodesAre
  <1>5. PICK kl : kl = links["ip"]
    OBVIOUS
  <1>6. proc.pc \in {"link", "last"} => L \in Levels
    BY <1>1, HookIs DEF Running
  <1>7. CASE list' = list /\ links' = links
    BY <1>1, <1>3, <1>6, <1>7, LinksKept
  <1>8. CASE /\ ~Broken(kl) /\ n < MaxFaults /\ faults' = n + 1 /\ list' = list
             /\ links' = [links EXCEPT !["ip"] = Extended(kl, 0)]
    <2>1. faults' > 0 /\ m <= m /\ Pointers(kl, 1..m) /\ 0 \in 1..m \cup {0}
      BY <1>4, <1>5, <1>8
    <2> QED BY <1>1, <1>3, <1>4, <1>8, <2>1, ForwardExtends
  <1>9. ASSUME ~Broken(kl), NEW b, Wrote(list', "ip", m + 1, b),
               links' = [links EXCEPT !["ip"] =
                           Extended([kl EXCEPT !.front = Append(@, 0)], m + 1)]
        PROVE  LinkInv'
    <2>1. DOMAIN list'["ip"] = 1..m \cup {m + 1}
          /\ \A l \in Levels : l # "ip" => DOMAIN list'[l] = DOMAIN list[l]
      BY <1>4, <1>9 DEF Wrote
    <2>2. PICK j \in Nat : j = m + 1
      OBVIOUS
    <2>3. DOMAIN list'["ip"] = 1..j /\ m <= j /\ j \in 1..j \cup {0} /\ j # 0
      BY <2>1, <2>2
    <2>4. PICK new : new = [kl EXCEPT !.front = Append(@, 0)]
      OBVIOUS
    <2>5. Pointers(new, 1..j) /\ ~Broken(new)
      <3>1. Pointers(kl, 1..m)
        BY <1>4, <1>5
      <3>2. Pointers(new, 1..(m + 1)) /\ (Broken(new) <=> Broken(kl))
        BY <2>4, <3>1, PointersGrow
      <3> QED BY <1>9, <2>2, <3>2
    <2>6. links' = [links EXCEPT !["ip"] = Extended(new, j)]
      BY <1>9, <2>2, <2>4
    <2> QED BY <1>1, <1>3, <1>4, <2>1, <2>3, <2>5, <2>6, ForwardExtends
  <1>10. CASE /\ ~Broken(kl)
              /\ links' = [links EXCEPT !["ip"] =
                            Extended([kl EXCEPT !.front = Append(@, 0)], m + 1)]
              /\ ForwardInto(f, Append(list["ip"], [ip |-> Dst[f], data |-> <<>>]),
                             m + 1, n)
    <2>1. PICK bufs, k : bufs = Append(list["ip"], [ip |-> Dst[f], data |-> <<>>])
                         /\ k = m + 1
      OBVIOUS
    <2>2. Grown(bufs, k, Dst[f]) /\ Dst[f] \in {Dst[p] : p \in Packets}
      BY <1>4, <2>1 DEF Grown, Softirq
    <2>3. ForwardInto(f, bufs, k, n) /\ f \in Packets
      BY <1>10, <2>1 DEF Softirq
    <2>4. \E b : Wrote(list', "ip", k, b)
      BY <1>1, <2>2, <2>3, ForwardData
    <2> QED BY <1>9, <1>10, <2>1, <2>4
  <1>11. CASE /\ ~Broken(kl) /\ list' = [list EXCEPT !["ip"] = Append(@, NULL)]
              /\ links' = [links EXCEPT !["ip"] =
                            Extended([kl EXCEPT !.front = Append(@, 0)], m + 1)]
    <2>1. Wrote(list', "ip", m + 1, NULL)
      BY <1>1, <1>4, <1>11, NodeIs, AppendIs
    <2> QED BY <1>9, <1>11, <2>1
  <1> QED BY <1>4, <1>5, <1>7, <1>8, <1>10, <1>11 DEF ForwardCreates

\* The softirq.
LEMMA ForwardLinks ==
  ASSUME IInv, NEW f \in Forwarded, Forward(f)
  PROVE  LinkInv'
  <1>1. Softirq(f)
    BY DEF Forward, Softirq, Packets
  <1>2. Core /\ Basis /\ Typed /\ BufferInv /\ LinkInv /\ "ip" \in Levels /\ f \in Packets
        /\ proc' = proc
    BY <1>1 DEF IInv, Core, Basis, Softirq
  <1>3. MaxFaults \in Nat /\ faults \in Nat /\ faults \in 0..MaxFaults
        /\ raced \in BOOLEAN
    BY <1>2, TypeParts
  <1>4. PICK ip \in {Dst[p] : p \in Packets} : ip = Dst[f] /\ ip # "null"
    BY <1>2, AggregationAssumption
  <1>5. proc.pc \in {"link", "last"} => L \in Levels
    BY <1>2, HookIs DEF Running
  <1>6. CASE list' = list /\ links' = links /\ raced' = raced /\ faults' = faults
    <2>1. Later
      BY <1>3, <1>6 DEF Later
    <2> QED BY <1>2, <1>5, <1>6, <2>1, LinksKept
  <1>7. CASE /\ Place("ip", ip) # 0 /\ ~MeetsNull("ip", ip)
             /\ ForwardInto(f, list["ip"], Place("ip", ip), faults) /\ links' = links
    <2>1. PICK bufs, k : bufs = list["ip"] /\ k = Place("ip", ip)
      OBVIOUS
    <2>2. k \in DOMAIN list["ip"] /\ Grown(bufs, k, ip)
      BY <1>2, <1>4, <1>7, <2>1, PlaceIs, MeetsNullIs DEF Grown
    <2>3. ForwardInto(f, bufs, k, faults)
      BY <1>7, <2>1
    <2>5. PICK b : Wrote(list', "ip", k, b)
      BY <1>2, <2>2, <2>3, ForwardData
    <2>6. \A l \in Levels : DOMAIN list'[l] = DOMAIN list[l]
      BY <2>2, <2>5 DEF Wrote
    <2>7. Later
      <3>1. faults' \in Nat /\ faults <= faults'
        BY <1>3, <2>3 DEF ForwardInto
      <3>2. raced' \in BOOLEAN /\ (raced => raced')
        BY <1>3, <2>3 DEF ForwardInto, Using
      <3> QED BY <1>3, <3>1, <3>2 DEF Later
    <2> QED BY <1>2, <1>5, <1>7, <2>6, <2>7, LinksKept
  <1>8. CASE ForwardCreates(f, faults)
    <2>1. faults <= faults /\ faults <= MaxFaults
      BY <1>3
    <2> QED BY <1>1, <1>3, <1>8, <2>1, ForwardCreatesLinks
  <1>9. CASE faults < MaxFaults /\ ForwardCreates(f, faults + 1)
    <2>1. faults <= faults + 1 /\ faults + 1 <= MaxFaults /\ faults + 1 \in Nat
      BY <1>3, <1>9
    <2> QED BY <1>1, <1>3, <1>9, <2>1, ForwardCreatesLinks
  <1> QED BY <1>4, <1>6, <1>7, <1>8, <1>9 DEF Forward

\* The steps that need no hook: the process, consuela and cleanup_module.
LEMMA OtherLinks ==
  ASSUME IInv, (\E p \in Own : Send(p)) \/ Consuela \/ StopConsuela \/ Cleanup
  PROVE  LinkInv'
  <1>1. Basis /\ Typed /\ LinkInv /\ ConsuelaInv
    BY DEF IInv, Core, Basis
  <1>2. proc.pc = "idle" /\ raced' = raced
    BY DEF Send, Consuela, ConsuelaStarts, ConsuelaLoops, LevelDone, Take, SendIt,
           StopConsuela, Cleanup, FreeConsuela, FreeBuffers, UnregisterInterceptor,
           Cleaning, Working
  <1>3. faults' = faults \/ Fault
    BY DEF Send, Consuela, ConsuelaStarts, ConsuelaLoops, LevelDone, Take, SendIt,
           StopConsuela, Cleanup, FreeConsuela, FreeBuffers, UnregisterInterceptor, Begin
  <1>4. Later
    BY <1>1, <1>2, <1>3, TypeParts, LaterIs
  <1>5. ASSUME list' = list, links' = links,
               proc' = proc \/ \E l, skb : proc' = Enter(l, skb)
        PROVE  LinkInv'
    <2>1. proc' = proc \/ proc'.pc \notin {"link", "last"}
      BY <1>5, EnterPc
    <2> QED BY <1>1, <1>2, <1>4, <1>5, <2>1, LinksKept
  <1>6. CASE \E p \in Own : Send(p)
    BY <1>5, <1>6 DEF Send
  <1>7. CASE ConsuelaStarts \/ ConsuelaLoops \/ LevelDone \/ SendIt
    BY <1>5, <1>7 DEF ConsuelaStarts, ConsuelaLoops, LevelDone, SendIt
  <1>8. CASE Take
    <2>1. consuela.level \in Levels
      BY <1>1, <1>8 DEF Take, Cleaning, ConsuelaInv
    <2>2. proc' = proc /\ links' = links
      BY <1>8 DEF Take
    <2>3. list' = list \/ list' = [list EXCEPT ![consuela.level][consuela.it].data = <<>>]
      BY <1>8 DEF Take
    <2>4. \A l \in Levels : DOMAIN list'[l] = DOMAIN list[l]
      BY <1>1, <2>1, <2>3, SameNodes
    <2> QED BY <1>1, <1>2, <1>4, <2>2, <2>4, LinksKept
  <1>9. CASE StopConsuela \/ FreeConsuela \/ UnregisterInterceptor
    BY <1>5, <1>9 DEF StopConsuela, FreeConsuela, UnregisterInterceptor
  <1>10. CASE FreeBuffers
    <2>1. proc' = proc
      BY <1>10 DEF FreeBuffers
    <2>2. CASE list' = list /\ links' = links
      BY <1>5, <2>1, <2>2
    <2>3. CASE list' = [l \in Levels |-> <<>>] /\ links' = [l \in Levels |-> NoNodes]
      BY <1>2, <2>1, <2>3, NoNodesAre DEF LinkInv, ExtendInv
    <2> QED BY <1>10, <2>2, <2>3 DEF FreeBuffers
  <1> QED BY <1>6, <1>7, <1>8, <1>9, <1>10 DEF Consuela, Cleanup

-----------------------------------------------------------------------------
(* The theorems.                                                           *)

\* The invariant holds when the module has been loaded.
LEMMA InitInv ==
  ASSUME Init
  PROVE  IInv
  <1>1. proc.pc = "idle" /\ proc \in ProcType /\ Singles(proc.copied)
    BY IdleIs DEF Init
  <1>2. consuela \in ConsuelaType /\ consuela.pc = "start" /\ consuela.hold = <<>>
        /\ ~consuela.dangling
    BY NoParts DEF Init, Started, ConsuelaType
  <1>3. \A l \in Levels : DOMAIN list[l] = {}
    BY DEF Init
  <1>a. PICK failed \in SUBSET Levels :
             /\ links = [l \in Levels |-> [NoNodes EXCEPT !.made = l \notin failed]]
             /\ faults = Cardinality(failed) /\ faults <= MaxFaults
    BY DEF Init
  <1>b. faults \in Nat /\ faults \in 0..MaxFaults /\ (failed # {} => faults > 0)
    <2>1. IsFiniteSet({"app", "ip"})
      <3>1. IsFiniteSet({} \cup {"app"})
        BY FS_EmptySet, FS_AddElement
      <3>2. IsFiniteSet(({} \cup {"app"}) \cup {"ip"})
        BY <3>1, FS_AddElement
      <3>3. ({} \cup {"app"}) \cup {"ip"} = {"app", "ip"}
        OBVIOUS
      <3> QED BY <3>2, <3>3
    <2>2. IsFiniteSet(failed)
      BY <2>1, FS_Subset, AggregationAssumption
    <2>3. Cardinality(failed) \in Nat /\ (Cardinality(failed) = 0 <=> failed = {})
      BY <2>2, FS_CardinalityType, FS_EmptySet
    <2> QED BY <1>a, <2>3, AggregationAssumption
  <1>c. LinkInv
    <2>1. ASSUME NEW l \in Levels, NEW b, b = (l \notin failed), NEW kl,
                 kl = [NoNodes EXCEPT !.made = b]
          PROVE  /\ links[l] = kl /\ kl \in LinkType /\ Pointers(kl, DOMAIN <<>>)
                 /\ Broken(kl) => faults > 0
      <3>1. links[l] = kl
        BY <1>a, <2>1
      <3>2. b \in BOOLEAN
        BY <2>1
      <3>3. kl \in LinkType /\ Pointers(kl, DOMAIN <<>>) /\ (Broken(kl) => ~b)
        BY <2>1, <3>2, NoNodesAre
      <3>4. ~b => faults > 0
        BY <1>b, <2>1
      <3> QED BY <3>1, <3>3, <3>4
    <2>2. ASSUME NEW l \in Levels
          PROVE  /\ links[l] \in LinkType /\ Pointers(links[l], DOMAIN list[l])
                 /\ Broken(links[l]) => faults > 0
      <3>1. list[l] = <<>>
        BY DEF Init
      <3>2. PICK b : b = (l \notin failed)
        OBVIOUS
      <3>3. PICK kl : kl = [NoNodes EXCEPT !.made = b]
        OBVIOUS
      <3> QED BY <2>1, <3>1, <3>2, <3>3
    <2>3. links \in [Levels -> LinkType]
      <3>1. DOMAIN links = Levels /\ links = [l \in Levels |-> links[l]]
        BY <1>a
      <3> QED BY <2>2, <3>1
    <2>4. ExtendInv
      BY <1>1 DEF ExtendInv
    <2> QED BY <2>2, <2>3, <2>4 DEF LinkInv
  <1>d. StopInv
    BY DEF Init, StopInv
  <1>4. Typed
    <2>1. list \in [Levels -> Seq(Buffers)] /\ gone \in [Packets -> Nat]
      BY DEF Init
    <2> QED BY <1>1, <1>2, <1>b, <2>1 DEF Typed, Init
  <1>5. ProcInv /\ ReadInv /\ ~Running
    BY <1>1 DEF ProcInv, ReadInv, Running, InUse, Init
  <1>6. BufferInv
    BY <1>3 DEF BufferInv
  <1>7. ConsuelaInv
    BY <1>2 DEF ConsuelaInv
  <1>8. CrashNeedsCause
    BY DEF CrashNeedsCause, Init
  <1>9. PlaceInv
    <2>1. ASSUME NEW p \in Packets PROVE p \in todo /\ Absent(p)
      <3>1. ~Carried(p) /\ ~Collected(p)
        BY <1>2, NoParts DEF Init, Carried, Collected
      <3>2. ~Buffered(p)
        BY <1>3 DEF Buffered
      <3> QED BY <3>1, <3>2 DEF Init, Absent
    <2> QED BY <2>1 DEF PlaceInv, Init
  <1>10. StampInv
    <2>1. BuffersCoded
      BY <1>3 DEF BuffersCoded
    <2> QED BY <1>2, <1>5, <2>1, CodedNone DEF StampInv, Init
  <1> QED BY <1>4, <1>5, <1>6, <1>7, <1>8, <1>9, <1>10, <1>c, <1>d DEF IInv, Core, Basis

\* Every step of the hooks, the softirq, consuela and cleanup_module keeps the
\* inductive invariant.
THEOREM Invariant == Spec => []IInv
  <1>1. Init => IInv
    BY InitInv
  <1>2. IInv /\ [Next]_vars => IInv'
    <2> SUFFICES ASSUME IInv, [Next]_vars
                 PROVE  IInv'
      OBVIOUS
    <2>0. Core /\ LinkInv /\ StopInv /\ StopInv'
      BY StopKept DEF IInv
    <2> SUFFICES Core' /\ LinkInv'
      BY <2>0 DEF IInv
    <2>1. ASSUME NEW p \in Own, Send(p) PROVE Core' /\ LinkInv'
      BY <2>0, <2>1, SendStep, OtherLinks
    <2>2. ASSUME NEW p \in Forwarded, Forward(p) PROVE Core' /\ LinkInv'
      BY <2>0, <2>2, ForwardStep, ForwardLinks
    <2>3. CASE Hook
      <3>1. Core'
        BY <2>0, <2>3, HookStep
      <3>2. LinkInv'
        BY <2>3, HookLinks, CreateLinks, LinkLinks DEF Hook
      <3> QED BY <3>1, <3>2
    <2>4. CASE Consuela
      <3>1. Core'
        BY <2>0, <2>4, ConsuelaStartsStep, ConsuelaLoopsStep, LevelDoneStep, TakeStep,
           SendItStep DEF Consuela
      <3> QED BY <2>4, <3>1, OtherLinks
    <2>5. CASE StopConsuela
      BY <2>0, <2>5, StopConsuelaStep, OtherLinks
    <2>6. CASE Cleanup
      <3>1. Core'
        BY <2>0, <2>6, FreeConsuelaStep, FreeBuffersStep, UnregisterInterceptorStep
           DEF Cleanup
      <3> QED BY <2>6, <3>1, OtherLinks
    <2>7. CASE UNCHANGED vars
      <3>1. todo' = todo /\ list' = list /\ proc' = proc /\ consuela' = consuela
            /\ module' = module /\ crashed' = crashed /\ gone' = gone /\ lost' = lost
            /\ leaving' = leaving /\ raced' = raced /\ faults' = faults /\ links' = links
        BY <2>7 DEF vars
      <3>2. Basis'
        BY <2>0, <3>1 DEF Core, Basis, Typed, ProcInv, BufferInv, ConsuelaInv, ReadInv,
               CrashNeedsCause, Running, InUse, L, Part, Data
      <3>3. PlaceInv' <=> PlaceInv
        BY <3>1 DEF PlaceInv, Absent, OncePresent, OneBuffer, Buffered, Carried,
               Collected, Inside
      <3>4. StampInv' <=> StampInv
        BY <3>1 DEF StampInv, BuffersCoded, Awaiting, Running, InUse, L, Part
      <3>5. LinkInv'
        BY <2>0, <3>1 DEF LinkInv, ExtendInv, L
      <3> QED BY <2>0, <3>1, <3>2, <3>3, <3>4, <3>5 DEF Core
    <2> QED BY <2>1, <2>2, <2>3, <2>4, <2>5, <2>6, <2>7 DEF Next
  <1> QED BY <1>1, <1>2, PTL DEF Spec

\* Type correctness: frames have parts, parts have packets, and the lists of
\* buffers, the hook in progress and consuela have the form the code gives them.
THEOREM TypeCorrect == Spec => []TypeOK
  <1>1. IInv => TypeOK
    BY DEF IInv, Core, Basis, Typed, LinkInv, TypeOK, ProcType, ConsuelaType, LinkType
  <1> QED BY <1>1, Invariant, PTL

\* The kernel goes down only after a failure or a race with the softirq, by what
\* stop_consuela and free_buffers do at an unload, or for a packet that came
\* between free_buffers and the unregistration of the hooks.
THEOREM CrashNeedsCauseAlways == Spec => []CrashNeedsCause
  <1>1. IInv => CrashNeedsCause
    BY DEF IInv, Core, Basis
  <1> QED BY <1>1, Invariant, PTL

\* The places of a packet that is in one place are as many as that.
LEMMA OnePlace ==
  ASSUME Typed, NEW p \in Packets, OncePresent(p)
  PROVE  gone[p] + Cardinality(Places(p)) = 1
  <1>1. PICK S : S = Places(p)
    OBVIOUS
  <1>2. \A x : x \in S <=> \/ \E l \in Levels : \E k \in DOMAIN list[l] :
                                 x = <<l, k>> /\ Inside(p, l, k)
                           \/ x = <<"proc", 0>> /\ Carried(p)
                           \/ x = <<"consuela", 0>> /\ Collected(p)
                           \/ x = <<"lost", 0>> /\ p \in lost
    <2> DEFINE A == UNION {{<<l, k>> : k \in {j \in DOMAIN list[l] :
                              p \in PacketsIn(list[l][j].data)}} : l \in Levels}
               B == {h \in {<<"proc", 0>>} : proc # Idle /\ p \in PacketsIn(proc.skb.parts)}
               C == {h \in {<<"consuela", 0>>} : p \in PacketsIn(consuela.hold)}
               D == {h \in {<<"lost", 0>>} : p \in lost}
    <2>1. S = A \cup B \cup C \cup D
      BY <1>1 DEF Places
    <2>2. \A x : x \in A <=> \E l \in Levels : \E k \in DOMAIN list[l] :
                               x = <<l, k>> /\ Inside(p, l, k)
      <3> SUFFICES ASSUME NEW x
                   PROVE  x \in A <=> \E l \in Levels : \E k \in DOMAIN list[l] :
                                        x = <<l, k>> /\ Inside(p, l, k)
        OBVIOUS
      <3>1. x \in A <=> \E l \in Levels :
                          x \in {<<l, k>> : k \in {j \in DOMAIN list[l] :
                                     p \in PacketsIn(list[l][j].data)}}
        OBVIOUS
      <3>2. ASSUME NEW l \in Levels
            PROVE  x \in {<<l, k>> : k \in {j \in DOMAIN list[l] :
                              p \in PacketsIn(list[l][j].data)}}
                   <=> \E k \in DOMAIN list[l] : x = <<l, k>> /\ Inside(p, l, k)
        BY DEF Inside
      <3> QED BY <3>1, <3>2, Zenon
    <2>3. \A x : x \in B <=> x = <<"proc", 0>> /\ Carried(p)
      BY DEF Carried
    <2>4. \A x : x \in C <=> x = <<"consuela", 0>> /\ Collected(p)
      BY DEF Collected
    <2>5. \A x : x \in D <=> x = <<"lost", 0>> /\ p \in lost
      OBVIOUS
    <2> HIDE DEF A, B, C, D
    <2> QED BY <2>1, <2>2, <2>3, <2>4, <2>5, Zenon
  <1>3. CASE gone[p] = 1
    <2>1. S = {}
      BY <1>2, <1>3 DEF OncePresent, Buffered
    <2> QED BY <1>1, <1>3, <2>1, FS_EmptySet
  <1>4. CASE gone[p] # 1
    <2>1. gone[p] = 0
      BY <1>4 DEF OncePresent
    <2>2. \E x : S = {x}
      <3>1. CASE p \in lost /\ ~Carried(p) /\ ~Collected(p) /\ ~Buffered(p)
        <4>1. S = {<<"lost", 0>>}
          BY <1>2, <3>1 DEF Buffered
        <4> QED BY <4>1
      <3>2. CASE p \notin lost /\ Carried(p) /\ ~Collected(p) /\ ~Buffered(p)
        <4>1. S = {<<"proc", 0>>}
          BY <1>2, <3>2 DEF Buffered
        <4> QED BY <4>1
      <3>3. CASE p \notin lost /\ ~Carried(p) /\ Collected(p) /\ ~Buffered(p)
        <4>1. S = {<<"consuela", 0>>}
          BY <1>2, <3>3 DEF Buffered
        <4> QED BY <4>1
      <3>4. CASE p \notin lost /\ ~Carried(p) /\ ~Collected(p) /\ Buffered(p)
        <4>0. PICK l \in Levels : \E k \in DOMAIN list[l] : Inside(p, l, k)
          BY <3>4 DEF Buffered
        <4>1. PICK k \in DOMAIN list[l] : Inside(p, l, k)
          BY <4>0
        <4>2. \A m \in Levels : \A j \in DOMAIN list[m] :
                 Inside(p, m, j) => m = l /\ j = k
          BY <4>1 DEF OncePresent, OneBuffer
        <4>3. S = {<<l, k>>}
          BY <1>2, <3>4, <4>1, <4>2
        <4> QED BY <4>3
      <3>5. \/ p \in lost /\ ~Carried(p) /\ ~Collected(p) /\ ~Buffered(p)
            \/ p \notin lost /\ Carried(p) /\ ~Collected(p) /\ ~Buffered(p)
            \/ p \notin lost /\ ~Carried(p) /\ Collected(p) /\ ~Buffered(p)
            \/ p \notin lost /\ ~Carried(p) /\ ~Collected(p) /\ Buffered(p)
        BY <1>4 DEF OncePresent
      <3> QED BY <3>1, <3>2, <3>3, <3>4, <3>5
    <2>3. PICK x : S = {x}
      BY <2>2
    <2>4. Cardinality(S) = 1
      BY <2>3, FS_Singleton
    <2> QED BY <1>1, <2>1, <2>4
  <1> QED BY <1>3, <1>4

\* Every packet that was handed in is in one place, and it is dropped only after
\* a failure or by an unload, as long as nobody raced with a hook.
THEOREM ConservedAlways == Spec => []Conserved
  <1>1. IInv => Conserved
    <2> SUFFICES ASSUME IInv, ~raced, NEW p \in Packets \ todo
                 PROVE  /\ crashed = "no" => gone[p] + Cardinality(Places(p)) = 1
                        /\ p \in lost => faults > 0 \/ module \in {"freed", "gone"}
      BY DEF Conserved
    <2>1. Typed /\ PlaceInv
      BY DEF IInv, Core, Basis
    <2>2. ASSUME crashed = "no" PROVE gone[p] + Cardinality(Places(p)) = 1
      <3>1. OncePresent(p)
        BY <2>1, <2>2 DEF PlaceInv
      <3> QED BY <2>1, <3>1, OnePlace
    <2>3. ASSUME p \in lost PROVE faults > 0 \/ module \in {"freed", "gone"}
      BY <2>1, <2>3 DEF PlaceInv
    <2> QED BY <2>2, <2>3
  <1> QED BY <1>1, Invariant, PTL

\* The stamps of all packets of a frame that leaves can be recovered from it.
THEOREM StampsRecoverableAlways == Spec => []StampsRecoverable
  <1>1. IInv => StampsRecoverable
    <2> SUFFICES ASSUME IInv, ~raced, leaving # None
                 PROVE  Recoverable(leaving)
      BY DEF StampsRecoverable
    <2>1. leaving \in Frames /\ Coded(leaving.parts)
      BY TypeParts DEF IInv, Core, Basis, StampInv
    <2> QED BY <2>1, CodedRecoverable
  <1> QED BY <1>1, Invariant, PTL
=============================================================================
