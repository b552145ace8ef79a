------------------------ MODULE DeaggregationProofs ------------------------
(***************************************************************************)
(* Proofs about the deaggregation interceptor, for any frames, any size of *)
(* the array and any memory.                                               *)
(***************************************************************************)
EXTENDS Deaggregation, TLAPS, FiniteSetTheorems, WellFoundedInduction

\* path is the order of the queue's m nodes, from last to first: every allocated
\* node is on it once, and before leads from each to the one after it.
Chain(q, path, m) ==
  /\ \A i, j \in 1..m : path[i] = path[j] => i = j
  /\ \A i \in 1..m : path[i] \in DOMAIN q.heap /\ path[i] \in Addr
  /\ \A a \in DOMAIN q.heap : \E i \in 1..m : a = path[i]
  /\ m = 0 => q.first = NULL /\ q.last = NULL
  /\ m > 0 => q.last = path[1] /\ q.first = path[m]
  /\ \A i \in 1..m : i < m => q.heap[path[i]].before = path[i + 1]

Linked(q, path) == path \in Seq(Addr) /\ Chain(q, path, Len(path))

Items(q, path) == [i \in 1..Len(path) |-> q.heap[path[i]].data]

\* A queue whose pointers are all good.
Sound(q) == QueueType(q) /\ ~q.stale /\ \E path : Linked(q, path)

-----------------------------------------------------------------------------
(* Induction, from the library's fact that < is well founded.              *)

\* A set of numbers that is not empty has a least element.
LEMMA LeastNat ==
  ASSUME NEW T, T \subseteq Nat, T # {}
  PROVE  \E x \in T : \A y \in T : x <= y
  <1>1. \E x \in T : \A y \in T : ~ (<<y, x>> \in OpToRel(<, Nat))
    BY NatLessThanWellFounded, WFMin
  <1>2. \A x, y \in Nat : <<y, x>> \in OpToRel(<, Nat) <=> y < x
    BY DEF OpToRel
  <1>3. \E x \in T : \A y \in T : ~(y < x)
    BY <1>1, <1>2, Zenon
  <1> QED BY <1>3

\* A set with 0 and the successor of each of its numbers has all of them.
LEMMA SetInduction ==
  ASSUME NEW S, 0 \in S, \A n \in Nat : n \in S => n + 1 \in S
  PROVE  Nat \subseteq S
  <1> SUFFICES ASSUME NEW T, T = Nat \ S, T # {} PROVE FALSE
    OBVIOUS
  <1>1. PICK x \in T : \A y \in T : x <= y
    BY LeastNat
  <1>2. x # 0 /\ x - 1 \in Nat /\ x - 1 \notin T
    BY <1>1
  <1> QED BY <1>1, <1>2

-----------------------------------------------------------------------------
(* spin_lock_queue.c.                                                      *)

\* kmalloc returns an address that is free.
LEMMA FreeAddress ==
  ASSUME NEW q, QueueType(q), DOMAIN q.heap # Addr
  PROVE  Min(Addr \ DOMAIN q.heap) \in Addr \ DOMAIN q.heap
  <1> DEFINE T == Addr \ DOMAIN q.heap
  <1>1. T # {} /\ T \subseteq Nat
    BY DeaggregationAssumption DEF QueueType
  <1>2. \E x \in T : \A y \in T : x <= y
    BY <1>1, LeastNat
  <1> QED BY <1>2 DEF Min

\* The length of the queue, named.
LEMMA LinkedFacts ==
  ASSUME NEW q, NEW path, Linked(q, path)
  PROVE  \E m \in Nat : m = Len(path) /\ DOMAIN path = 1..m /\ Chain(q, path, m)
  BY DEF Linked

\* A queue made of typed fields is typed.
LEMMA QueueTypeBy ==
  ASSUME NEW f \in Addr \cup {NULL}, NEW l \in Addr \cup {NULL}, NEW h,
         h = [a \in DOMAIN h |-> h[a]], DOMAIN h \subseteq Addr,
         \A a \in DOMAIN h : h[a] \in NodeType
  PROVE  QueueType([first |-> f, last |-> l, heap |-> h, stale |-> FALSE])
  <1> DEFINE r == [first |-> f, last |-> l, heap |-> h, stale |-> FALSE]
  <1>1. r.first = f /\ r.last = l /\ r.heap = h /\ r.stale = FALSE
    OBVIOUS
  <1>2. r = [first |-> r.first, last |-> r.last,
             heap |-> [a \in DOMAIN r.heap |-> r.heap[a]], stale |-> r.stale]
    BY <1>1
  <1> HIDE DEF r
  <1> QED BY <1>1, <1>2 DEF QueueType

\* enqueue puts a packet behind the others.
LEMMA EnqueueLinked ==
  ASSUME NEW q, QueueType(q), ~q.stale, NEW path, Linked(q, path),
         NEW d \in FrameType, DOMAIN q.heap # Addr
  PROVE  /\ QueueType(Enqueue(q, d)) /\ ~Enqueue(q, d).stale
         /\ \E new : /\ Linked(Enqueue(q, d), new)
                     /\ Len(new) = Len(path) + 1
                     /\ \A i \in 1..Len(path) :
                          Items(Enqueue(q, d), new)[i] = Items(q, path)[i]
                     /\ Items(Enqueue(q, d), new)[Len(new)] = d
  <1>1. PICK n \in Addr : n = Min(Addr \ DOMAIN q.heap) /\ n \notin DOMAIN q.heap
    BY FreeAddress
  <1>2. n # NULL /\ NULL \notin Addr
    BY <1>1, DeaggregationAssumption DEF NULL
  <1>0. q = [first |-> q.first, last |-> q.last, heap |-> q.heap,
             stale |-> q.stale] /\ q.stale = FALSE
        /\ q.first \in Addr \cup {NULL} /\ q.last \in Addr \cup {NULL}
    BY DEF QueueType
  <1>3. PICK m \in Nat : m = Len(path) /\ DOMAIN path = 1..m /\ Chain(q, path, m)
    BY LinkedFacts
  <1>30. /\ \A i, j \in 1..m : path[i] = path[j] => i = j
         /\ \A i \in 1..m : path[i] \in DOMAIN q.heap /\ path[i] \in Addr
         /\ \A a \in DOMAIN q.heap : \E i \in 1..m : a = path[i]
         /\ m = 0 => q.first = NULL /\ q.last = NULL
         /\ m > 0 => q.last = path[1] /\ q.first = path[m]
         /\ \A i \in 1..m : i < m => q.heap[path[i]].before = path[i + 1]
    BY <1>3 DEF Chain
  <1>4. PICK new \in Seq(Addr) : Len(new) = m + 1 /\ new[m + 1] = n
                                 /\ \A i \in 1..m : new[i] = path[i]
    <2>1. Append(path, n) \in Seq(Addr) /\ Len(Append(path, n)) = m + 1
          /\ Append(path, n)[m + 1] = n
          /\ \A i \in 1..m : Append(path, n)[i] = path[i]
      BY <1>1, <1>3 DEF Linked
    <2> QED BY <2>1
  <1>5. PICK node \in NodeType :
           node = [data |-> d, next |-> q.first, before |-> NULL] /\ node.data = d
    <2>1. q.first \in Addr \cup {NULL} /\ NULL \in Addr \cup {NULL}
      BY <1>0
    <2>2. [data |-> d, next |-> q.first, before |-> NULL] \in NodeType
      BY <2>1 DEF NodeType
    <2>3. [data |-> d, next |-> q.first, before |-> NULL].data = d
      OBVIOUS
    <2> QED BY <2>2, <2>3
  <1>6. PICK old : /\ DOMAIN old = DOMAIN q.heap
                   /\ \A a \in DOMAIN q.heap : old[a] \in NodeType
                   /\ \A a \in DOMAIN q.heap : old[a].data = q.heap[a].data
                   /\ \A i \in 1..m :
                        old[path[i]].before = IF i = m THEN n ELSE path[i + 1]
                   /\ old = IF m = 0 THEN q.heap
                            ELSE [q.heap EXCEPT ![q.first].before = n]
    <2>1. CASE m = 0
      BY <1>3, <1>30, <2>1 DEF QueueType
    <2>2. CASE m # 0
      <3> DEFINE old == [q.heap EXCEPT ![q.first].before = n]
      <3>1. \A a \in DOMAIN q.heap :
               old[a] = IF a = q.first THEN [q.heap[a] EXCEPT !.before = n]
                                       ELSE q.heap[a]
        BY <1>3, <1>30, <2>2
      <3>2. DOMAIN old = DOMAIN q.heap
        OBVIOUS
      <3> HIDE DEF old
      <3>3. \A a \in DOMAIN q.heap :
               old[a] \in NodeType /\ old[a].data = q.heap[a].data
               /\ old[a].before = IF a = q.first THEN n ELSE q.heap[a].before
        <4> SUFFICES ASSUME NEW a \in DOMAIN q.heap
                     PROVE  /\ old[a] \in NodeType /\ old[a].data = q.heap[a].data
                            /\ old[a].before = IF a = q.first THEN n
                                              ELSE q.heap[a].before
          OBVIOUS
        <4>1. q.heap[a] \in NodeType
          BY DEF QueueType
        <4>2. /\ [q.heap[a] EXCEPT !.before = n] \in NodeType
              /\ [q.heap[a] EXCEPT !.before = n].data = q.heap[a].data
              /\ [q.heap[a] EXCEPT !.before = n].before = n
          BY <1>1, <4>1 DEF NodeType
        <4> QED BY <3>1, <4>1, <4>2
      <3>4. ASSUME NEW i \in 1..m
            PROVE  old[path[i]].before = IF i = m THEN n ELSE path[i + 1]
        <4>1. path[i] = q.first <=> i = m
          BY <1>3, <1>30, <2>2
        <4>2. path[i] \in DOMAIN q.heap
          BY <1>30
        <4>3. i # m => q.heap[path[i]].before = path[i + 1]
          BY <1>30
        <4> QED BY <3>3, <4>1, <4>2, <4>3
      <3> QED BY <2>2, <3>2, <3>3, <3>4 DEF old
    <2> QED BY <2>1, <2>2
  <1>7. PICK h : h = Set(old, n, node)
    OBVIOUS
  <1>8. /\ h = [a \in DOMAIN h |-> h[a]] /\ DOMAIN h = DOMAIN q.heap \cup {n}
        /\ h[n] = node /\ \A a \in DOMAIN q.heap : h[a] = old[a]
    BY <1>1, <1>6, <1>7 DEF Set
  <1>9. PICK r : r = [first |-> n, last |-> IF m = 0 THEN n ELSE q.last,
                      heap |-> h, stale |-> FALSE]
    OBVIOUS
  <1>10. Enqueue(q, d) = r
    <2>1. CASE m = 0
      <3>1. q.first = NULL
        BY <1>30, <2>1
      <3> QED BY <1>1, <1>5, <1>6, <1>7, <1>9, <2>1, <1>0, <3>1 DEF Enqueue
    <2>2. CASE m # 0
      <3>1. q.first # NULL /\ q.first \in DOMAIN q.heap
        BY <1>2, <1>3, <1>30, <2>2
      <3> QED BY <1>1, <1>5, <1>6, <1>7, <1>9, <2>2, <1>0, <3>1 DEF Enqueue
    <2> QED BY <2>1, <2>2
  <1>11. r.first = n /\ r.last = (IF m = 0 THEN n ELSE q.last) /\ r.heap = h
         /\ r.stale = FALSE
    BY <1>9
  <1>12. QueueType(r)
    <2>1. DOMAIN h \subseteq Addr /\ \A a \in DOMAIN h : h[a] \in NodeType
      BY <1>5, <1>6, <1>8 DEF QueueType
    <2>2. (IF m = 0 THEN n ELSE q.last) \in Addr \cup {NULL}
      BY DEF QueueType
    <2> QED BY <1>8, <1>9, <2>1, <2>2, QueueTypeBy
  <1>13. \A i \in 1..(m + 1) : i # m + 1 => i \in 1..m
    OBVIOUS
  <1>14. \A i \in 1..m : path[i] # n
    BY <1>1, <1>30
  <1>15. \A i, j \in 1..(m + 1) : new[i] = new[j] => i = j
    BY <1>3, <1>30, <1>4, <1>13, <1>14
  <1>16. \A i \in 1..(m + 1) : new[i] \in DOMAIN r.heap
    BY <1>3, <1>30, <1>4, <1>8, <1>11, <1>13
  <1>17. \A a \in DOMAIN r.heap : \E i \in 1..(m + 1) : a = new[i]
    <2> SUFFICES ASSUME NEW a \in DOMAIN h PROVE \E i \in 1..(m + 1) : a = new[i]
      BY <1>11
    <2>1. CASE a = n
      BY <1>4, <2>1
    <2>2. CASE a \in DOMAIN q.heap
      <3>1. PICK i \in 1..m : a = path[i]
        BY <1>3, <1>30, <2>2
      <3>2. i \in 1..(m + 1) /\ new[i] = a
        BY <1>4, <3>1
      <3> QED BY <3>2
    <2> QED BY <1>8, <2>1, <2>2
  <1>18. \A i \in 1..(m + 1) : i < m + 1 => r.heap[new[i]].before = new[i + 1]
    <2> SUFFICES ASSUME NEW i \in 1..m PROVE h[path[i]].before = new[i + 1]
      BY <1>4, <1>11
    <2>1. h[path[i]].before = IF i = m THEN n ELSE path[i + 1]
      <3>1. path[i] \in DOMAIN q.heap /\ h[path[i]] = old[path[i]]
        BY <1>30, <1>8
      <3> QED BY <1>6, <3>1
    <2>2. i # m => i + 1 \in 1..m
      OBVIOUS
    <2> QED BY <1>4, <2>1, <2>2
  <1>19. r.last = new[1] /\ r.first = new[m + 1]
    BY <1>3, <1>30, <1>4, <1>11
  <1>20. Linked(r, new)
    <2>1. m + 1 \in Nat /\ m + 1 # 0 /\ m + 1 > 0
      OBVIOUS
    <2>2. Chain(r, new, m + 1)
      <3>1. \A i \in 1..(m + 1) : new[i] \in Addr
        BY <1>4
      <3> QED BY <1>15, <1>16, <1>17, <1>18, <1>19, <2>1, <3>1 DEF Chain
    <2> QED BY <1>4, <2>2 DEF Linked
  <1>21. \A i \in 1..m : Items(r, new)[i] = Items(q, path)[i]
    <2> SUFFICES ASSUME NEW i \in 1..m PROVE Items(r, new)[i] = Items(q, path)[i]
      OBVIOUS
    <2>1. i \in 1..Len(new) /\ i \in 1..Len(path)
      BY <1>3, <1>30, <1>4
    <2>2. h[path[i]].data = q.heap[path[i]].data
      BY <1>3, <1>30, <1>6, <1>8
    <2> QED BY <1>4, <1>11, <2>1, <2>2 DEF Items
  <1>22. Items(r, new)[m + 1] = d
    BY <1>4, <1>5, <1>8, <1>11 DEF Items
  <1> QED BY <1>3, <1>30, <1>4, <1>10, <1>11, <1>12, <1>20, <1>21, <1>22

\* dequeue takes the first packet away and hands it out.
LEMMA DequeueLinked ==
  ASSUME NEW q, QueueType(q), ~q.stale, NEW path, Linked(q, path), q.first # NULL
  PROVE  /\ QueueType(Dequeue(q)) /\ ~Dequeue(q).stale
         /\ Linked(Dequeue(q), Tail(path)) /\ Len(path) > 0
         /\ q.heap[q.last].data = Items(q, path)[1]
         /\ \A i \in 1..(Len(path) - 1) :
              Items(Dequeue(q), Tail(path))[i] = Items(q, path)[i + 1]
  <1>1. PICK m \in Nat : m = Len(path) /\ DOMAIN path = 1..m /\ Chain(q, path, m)
    BY LinkedFacts
  <1>30. /\ \A i, j \in 1..m : path[i] = path[j] => i = j
         /\ \A i \in 1..m : path[i] \in DOMAIN q.heap /\ path[i] \in Addr
         /\ \A a \in DOMAIN q.heap : \E i \in 1..m : a = path[i]
         /\ m = 0 => q.first = NULL /\ q.last = NULL
         /\ m > 0 => q.last = path[1] /\ q.first = path[m]
         /\ \A i \in 1..m : i < m => q.heap[path[i]].before = path[i + 1]
    BY <1>1 DEF Chain
  <1>2. m > 0 /\ q.last \in DOMAIN q.heap /\ 1 \in 1..m /\ m - 1 \in Nat
    BY <1>30
  <1>3. PICK rest \in Seq(Addr) : rest = Tail(path) /\ Len(rest) = m - 1
                                  /\ \A i \in 1..(m - 1) : rest[i] = path[i + 1]
    <2>1. path \in Seq(Addr) /\ path # <<>>
      BY <1>1, <1>2 DEF Linked
    <2>2. Tail(path) \in Seq(Addr) /\ Len(Tail(path)) = Len(path) - 1
      BY <2>1
    <2>3. \A i \in 1..(Len(path) - 1) : Tail(path)[i] = path[i + 1]
      BY <2>1
    <2> QED BY <1>1, <2>2, <2>3
  <1>4. PICK h : h = Free(q.heap, q.last)
    OBVIOUS
  <1>5. DOMAIN h = DOMAIN q.heap \ {q.last} /\ h = [a \in DOMAIN h |-> h[a]]
        /\ \A a \in DOMAIN h : h[a] = q.heap[a]
    BY <1>4 DEF Free
  <1>6. q.first = q.last <=> m = 1
    BY <1>1, <1>30, <1>2
  <1>7. m # 1 => q.heap[q.last].before = path[2] /\ path[2] \in Addr
    BY <1>1, <1>30, <1>2
  <1>8. PICK r : r = [first |-> IF m = 1 THEN NULL ELSE q.first,
                      last |-> IF m = 1 THEN NULL ELSE path[2],
                      heap |-> h, stale |-> FALSE]
    OBVIOUS
  <1>9. Dequeue(q) = r
    <2>1. q.stale = FALSE
      BY DEF QueueType
    <2> QED BY <1>2, <1>4, <1>6, <1>7, <1>8, <2>1 DEF Dequeue
  <1>10. /\ r.first = (IF m = 1 THEN NULL ELSE q.first) /\ r.heap = h
         /\ r.last = (IF m = 1 THEN NULL ELSE path[2]) /\ r.stale = FALSE
    BY <1>8
  <1>11. QueueType(r)
    <2>1. DOMAIN h \subseteq Addr /\ \A a \in DOMAIN h : h[a] \in NodeType
      BY <1>5 DEF QueueType
    <2>2. /\ (IF m = 1 THEN NULL ELSE q.first) \in Addr \cup {NULL}
          /\ (IF m = 1 THEN NULL ELSE path[2]) \in Addr \cup {NULL}
      BY <1>7 DEF QueueType
    <2> QED BY <1>5, <1>8, <2>1, <2>2, QueueTypeBy
  <1>12. \A i \in 1..(m - 1) : i \in 1..m /\ i + 1 \in 1..m /\ i < m
    OBVIOUS
  <1>13. \A i \in 1..(m - 1) : rest[i] \in DOMAIN h
    BY <1>1, <1>30, <1>2, <1>3, <1>5, <1>12
  <1>14. \A a \in DOMAIN r.heap : \E i \in 1..(m - 1) : a = rest[i]
    <2> SUFFICES ASSUME NEW a \in DOMAIN h PROVE \E i \in 1..(m - 1) : a = rest[i]
      BY <1>10
    <2>1. PICK j \in 1..m : a = path[j]
      BY <1>1, <1>30, <1>5
    <2>2. j # 1
      BY <1>1, <1>30, <1>2, <1>5, <2>1
    <2>3. j - 1 \in 1..(m - 1) /\ (j - 1) + 1 = j
      BY <2>2
    <2> QED BY <1>3, <2>1, <2>3
  <1>15. \A i, j \in 1..(m - 1) : rest[i] = rest[j] => i = j
    <2> SUFFICES ASSUME NEW i \in 1..(m - 1), NEW j \in 1..(m - 1), rest[i] = rest[j]
                 PROVE  i = j
      OBVIOUS
    <2>1. i + 1 = j + 1
      BY <1>1, <1>30, <1>3, <1>12
    <2> QED BY <2>1
  <1>16. \A i \in 1..(m - 1) : i < m - 1 => r.heap[rest[i]].before = rest[i + 1]
    <2> SUFFICES ASSUME NEW i \in 1..(m - 1), i < m - 1
                 PROVE  h[rest[i]].before = rest[i + 1]
      BY <1>10
    <2>1. i + 1 \in 1..(m - 1) /\ i + 1 \in 1..m /\ i + 1 < m
      OBVIOUS
    <2>2. h[rest[i]].before = path[(i + 1) + 1]
      BY <1>1, <1>30, <1>3, <1>5, <1>13, <2>1
    <2> QED BY <1>3, <2>1, <2>2
  <1>17. /\ m - 1 = 0 => r.first = NULL /\ r.last = NULL
         /\ m - 1 > 0 => r.last = rest[1] /\ r.first = rest[m - 1]
    BY <1>1, <1>30, <1>2, <1>3, <1>10
  <1>18. Linked(r, rest)
    <2>1. \A i \in 1..(m - 1) : rest[i] \in Addr
      BY <1>3
    <2>2. Chain(r, rest, m - 1)
      BY <1>10, <1>13, <1>14, <1>15, <1>16, <1>17, <2>1 DEF Chain
    <2> QED BY <1>3, <2>2 DEF Linked
  <1>19. \A i \in 1..(m - 1) : Items(r, rest)[i] = Items(q, path)[i + 1]
    <2> SUFFICES ASSUME NEW i \in 1..(m - 1)
                 PROVE  Items(r, rest)[i] = Items(q, path)[i + 1]
      OBVIOUS
    <2>1. Items(r, rest)[i] = h[rest[i]].data
      BY <1>3, <1>10 DEF Items
    <2>2. Items(q, path)[i + 1] = q.heap[path[i + 1]].data
      BY <1>1, <1>30, <1>12 DEF Items
    <2> QED BY <1>3, <1>5, <1>13, <2>1, <2>2
  <1>20. q.heap[q.last].data = Items(q, path)[1]
    BY <1>1, <1>30, <1>2 DEF Items
  <1> QED BY <1>1, <1>30, <1>2, <1>3, <1>9, <1>10, <1>11, <1>18, <1>19, <1>20

\* An empty queue.
LEMMA EmptyLinked == QueueType(Empty) /\ ~Empty.stale /\ Linked(Empty, <<>>)
  BY DEF QueueType, Empty, Linked, Chain, NULL

\* A path has as many nodes as are allocated.
LEMMA LinkedSize ==
  ASSUME NEW q, NEW path, Linked(q, path)
  PROVE  Cardinality(DOMAIN q.heap) = Len(path)
  <1>1. PICK m \in Nat : m = Len(path) /\ DOMAIN path = 1..m /\ Chain(q, path, m)
    BY LinkedFacts
  <1>2. path \in Bijection(1..m, DOMAIN q.heap)
    <2>1. path \in [1..m -> DOMAIN q.heap]
      <3>1. path = [i \in 1..m |-> path[i]]
        BY <1>1 DEF Linked
      <3> QED BY <1>1, <3>1 DEF Chain
    <2>2. \A i, j \in 1..m : path[i] = path[j] => i = j
      BY <1>1 DEF Chain
    <2>3. \A a \in DOMAIN q.heap : \E i \in 1..m : path[i] = a
      BY <1>1 DEF Chain
    <2> QED BY <2>1, <2>2, <2>3 DEF Bijection, Injection, Surjection, IsInjective
  <1>3. IsFiniteSet(1..m) /\ Cardinality(1..m) = m
    BY FS_Interval
  <1>4. Cardinality(DOMAIN q.heap) = Cardinality(1..m)
    BY <1>2, <1>3, FS_Bijection DEF ExistsBijection
  <1> QED BY <1>1, <1>3, <1>4

\* The walk follows the path.
LEMMA WalkPath ==
  ASSUME NEW q, NEW path, Linked(q, path)
  PROVE  /\ Cardinality(DOMAIN q.heap) = Len(path)
         /\ \A k \in 1..Len(path) : Walk(q)[k] = path[k]
  <1>1. PICK m \in Nat : m = Len(path) /\ DOMAIN path = 1..m /\ Chain(q, path, m)
    BY LinkedFacts
  <1>2. Cardinality(DOMAIN q.heap) = m
    BY <1>1, LinkedSize
  <1> DEFINE Step(f, k) ==
               IF k = 1 THEN q.last
               ELSE IF f[k - 1] \in DOMAIN q.heap THEN q.heap[f[k - 1]].before ELSE NULL
             Good(f) == f = [k \in 1..m |-> Step(f, k)]
  <1>3. Good(path)
    <2>1. path = [i \in 1..m |-> path[i]]
      BY <1>1 DEF Linked
    <2>2. ASSUME NEW k \in 1..m PROVE path[k] = Step(path, k)
      <3>1. k = 1 => path[k] = q.last
        BY <1>1 DEF Chain
      <3>2. CASE k # 1
        <4>1. k - 1 \in 1..m /\ k - 1 < m /\ (k - 1) + 1 = k
          BY <3>2
        <4>2. path[k - 1] \in DOMAIN q.heap /\ q.heap[path[k - 1]].before = path[k]
          BY <1>1, <4>1 DEF Chain
        <4> QED BY <3>2, <4>2
      <3> QED BY <3>1, <3>2
    <2> QED BY <2>1, <2>2
  <1>4. Good(Walk(q))
    <2>1. Walk(q) = CHOOSE f : Good(f)
      BY <1>2 DEF Walk
    <2> QED BY <1>3, <2>1
  <1>5. \A k \in 1..m : Walk(q)[k] = Step(Walk(q), k) /\ path[k] = Step(path, k)
    BY <1>3, <1>4
  <1> HIDE DEF Good
  <1>6. \A k \in 1..m : Walk(q)[k] = path[k]
    <2> SUFFICES ASSUME NEW T, T = {k \in 1..m : Walk(q)[k] # path[k]}, T # {}
                 PROVE  FALSE
      OBVIOUS
    <2>1. PICK x \in T : \A y \in T : x <= y
      BY LeastNat
    <2>2. x \in 1..m /\ Walk(q)[x] # path[x]
      BY <2>1
    <2>3. x # 1
      BY <1>5, <2>2
    <2>4. x - 1 \in 1..m /\ x - 1 \notin T
      BY <2>1, <2>2, <2>3
    <2>5. Walk(q)[x - 1] = path[x - 1]
      BY <2>4
    <2> QED BY <1>5, <2>2, <2>3, <2>5
  <1> QED BY <1>1, <1>2, <1>6

\* Contents is what is on the path.
ContentsOnPath ==
  \A path : Linked(queue, path) => /\ Contents = Items(queue, path)
                                   /\ Contents \in Seq(Range(Contents))
LEMMA ContentsPath == ContentsOnPath
  <1> SUFFICES ASSUME NEW path, Linked(queue, path)
               PROVE  /\ Contents = Items(queue, path)
                      /\ Contents \in Seq(Range(Contents))
    BY DEF ContentsOnPath
  <1>1. PICK m \in Nat : /\ m = Len(path) /\ DOMAIN path = 1..m
                         /\ Chain(queue, path, m)
    BY LinkedFacts
  <1>2. Cardinality(DOMAIN queue.heap) = m /\ \A k \in 1..m : Walk(queue)[k] = path[k]
    BY <1>1, WalkPath
  <1>3. \A k \in 1..m : path[k] \in DOMAIN queue.heap
    BY <1>1 DEF Chain
  <1>4. Contents = [k \in 1..m |-> queue.heap[path[k]].data]
    BY <1>2, <1>3 DEF Contents
  <1> QED BY <1>1, <1>4 DEF Items, Range

-----------------------------------------------------------------------------
(* The hook.                                                               *)

\* new is old, m long, followed by the pieces of inj that were not dropped
\* among its first k, in their order.
Grown(old, m, new, l, inj, dropped, k) ==
  \E c \in Nat : \E e \in [1..c -> 1..k] :
    /\ l = m + c
    /\ \A i, j \in 1..c : i < j => e[i] < e[j]
    /\ \A i \in 1..c : e[i] \notin dropped /\ new[m + i] = inj[e[i]]
    /\ \A i \in 1..m : new[i] = old[i]

\* One more call of inject_packet, with memory for the piece.
LEMMA GrownStep ==
  ASSUME NEW old, NEW m \in Nat, NEW new, NEW l \in Nat, NEW inj, NEW dropped,
         NEW k \in Nat, Grown(old, m, new, l, inj, dropped, k),
         NEW new1, \A i \in 1..l : new1[i] = new[i],
         new1[l + 1] = inj[k + 1], k + 1 \notin dropped
  PROVE  Grown(old, m, new1, l + 1, inj, dropped, k + 1)
  <1>1. PICK c \in Nat : \E e \in [1..c -> 1..k] :
          /\ l = m + c
          /\ \A i, j \in 1..c : i < j => e[i] < e[j]
          /\ \A i \in 1..c : e[i] \notin dropped /\ new[m + i] = inj[e[i]]
          /\ \A i \in 1..m : new[i] = old[i]
    BY DEF Grown
  <1>2. PICK e \in [1..c -> 1..k] :
          /\ l = m + c
          /\ \A i, j \in 1..c : i < j => e[i] < e[j]
          /\ \A i \in 1..c : e[i] \notin dropped /\ new[m + i] = inj[e[i]]
          /\ \A i \in 1..m : new[i] = old[i]
    BY <1>1
  <1>3. PICK g : g = [i \in 1..(c + 1) |-> IF i <= c THEN e[i] ELSE k + 1]
    OBVIOUS
  <1>4. \A i \in 1..c : g[i] = e[i] /\ e[i] \in 1..k
    BY <1>3
  <1>5. g[c + 1] = k + 1 /\ g \in [1..(c + 1) -> 1..(k + 1)]
    BY <1>3, <1>4
  <1>6. \A i \in 1..(c + 1) : i # c + 1 => i \in 1..c
    OBVIOUS
  <1>7. \A i, j \in 1..(c + 1) : i < j => g[i] < g[j]
    <2> SUFFICES ASSUME NEW i \in 1..(c + 1), NEW j \in 1..(c + 1), i < j
                 PROVE  g[i] < g[j]
      OBVIOUS
    <2>1. i \in 1..c
      OBVIOUS
    <2>2. CASE j = c + 1
      <3>1. g[i] \in 1..k
        BY <1>4, <2>1
      <3> QED BY <1>5, <2>2, <3>1
    <2>3. CASE j # c + 1
      BY <1>2, <1>4, <1>6, <2>1, <2>3
    <2> QED BY <2>2, <2>3
  <1>8. \A i \in 1..(c + 1) : g[i] \notin dropped /\ new1[m + i] = inj[g[i]]
    <2> SUFFICES ASSUME NEW i \in 1..(c + 1)
                 PROVE  g[i] \notin dropped /\ new1[m + i] = inj[g[i]]
      OBVIOUS
    <2>1. CASE i = c + 1
      <3>1. m + i = l + 1
        BY <1>2, <2>1
      <3> QED BY <1>5, <2>1, <3>1
    <2>2. CASE i # c + 1
      <3>1. i \in 1..c /\ m + i \in 1..l
        BY <1>2, <2>2
      <3>2. new1[m + i] = new[m + i]
        BY <3>1
      <3> QED BY <1>2, <1>4, <3>1, <3>2
    <2> QED BY <2>1, <2>2
  <1>9. \A i \in 1..m : new1[i] = old[i]
    <2>1. \A i \in 1..m : i \in 1..l
      BY <1>2
    <2> QED BY <1>2, <2>1
  <1>10. l + 1 = m + (c + 1) /\ c + 1 \in Nat
    BY <1>2
  <1> QED BY <1>5, <1>7, <1>8, <1>9, <1>10 DEF Grown

\* Queues is what its definition says: one call of inject_packet after another.
LEMMA QueuesSteps ==
  ASSUME NEW inj, NEW n \in Nat, Len(inj) = n, NEW dropped
  PROVE  /\ Queues(inj, dropped)[0] = queue
         /\ \A k \in 1..n : Queues(inj, dropped)[k] =
              IF k \in dropped THEN Queues(inj, dropped)[k - 1]
              ELSE Enqueue(Queues(inj, dropped)[k - 1], inj[k])
  <1> DEFINE Step(f, k) == IF k = 0 THEN queue
                           ELSE IF k \in dropped THEN f[k - 1]
                           ELSE Enqueue(f[k - 1], inj[k])
             Good(f, m) == f = [k \in 0..m |-> Step(f, k)]
             S == {m \in Nat : \E f : Good(f, m)}
  <1>1. 0 \in S
    <2>1. Good([k \in 0..0 |-> queue], 0)
      OBVIOUS
    <2> QED BY <2>1
  <1>2. ASSUME NEW m \in Nat, m \in S PROVE m + 1 \in S
    <2>1. PICK f : Good(f, m)
      BY <1>2
    <2>2. PICK g : g = [k \in 0..(m + 1) |-> IF k <= m THEN f[k] ELSE Step(f, k)]
      OBVIOUS
    <2>3. \A k \in 0..m : g[k] = f[k] /\ f[k] = Step(f, k)
      BY <2>1, <2>2
    <2>4. \A k \in 0..(m + 1) : g[k] = Step(g, k)
      <3> SUFFICES ASSUME NEW k \in 0..(m + 1) PROVE g[k] = Step(g, k)
        OBVIOUS
      <3>1. g[k] = Step(f, k)
        <4>1. g[k] = IF k <= m THEN f[k] ELSE Step(f, k)
          BY <2>2
        <4>2. k <= m => f[k] = Step(f, k)
          BY <2>3
        <4> QED BY <4>1, <4>2
      <3>2. k # 0 => k - 1 \in 0..m
        OBVIOUS
      <3> QED BY <2>3, <3>1, <3>2
    <2>5. Good(g, m + 1)
      <3>1. DOMAIN g = 0..(m + 1) /\ g = [k \in 0..(m + 1) |-> g[k]]
        BY <2>2
      <3> QED BY <2>4, <3>1
    <2> QED BY <2>5
  <1>3. Nat \subseteq S
    <2> HIDE DEF S
    <2> QED BY <1>1, <1>2, SetInduction
  <1>4. \E f : Good(f, n)
    BY <1>3
  <1>5. Queues(inj, dropped) = CHOOSE f : Good(f, n)
    BY DEF Queues
  <1>6. Good(Queues(inj, dropped), n)
    BY <1>4, <1>5
  <1> QED BY <1>6

\* After any number of calls of inject_packet the pointers are good, and the
\* pieces kept stand behind what was in the queue.
LEMMA Injected ==
  ASSUME QueueType(queue), ~queue.stale, NEW path, Linked(queue, path),
         NEW inj, NEW n \in Nat, Len(inj) = n, \A k \in 1..n : inj[k] \in FrameType,
         NEW dropped,
         \A k \in 1..n : k \notin dropped =>
                           DOMAIN Queues(inj, dropped)[k - 1].heap # Addr
  PROVE  /\ QueueType(Queues(inj, dropped)[n]) /\ ~Queues(inj, dropped)[n].stale
         /\ \E new : /\ Linked(Queues(inj, dropped)[n], new)
                     /\ Grown(Items(queue, path), Len(path),
                              Items(Queues(inj, dropped)[n], new), Len(new),
                              inj, dropped, n)
  <1>0. PICK Q : Q = Queues(inj, dropped)
    OBVIOUS
  <1>1. /\ Q[0] = queue
        /\ \A k \in 1..n : Q[k] = IF k \in dropped THEN Q[k - 1]
                                  ELSE Enqueue(Q[k - 1], inj[k])
    BY <1>0, QueuesSteps
  <1>2. PICK m \in Nat : m = Len(path)
    BY LinkedFacts
  <1> DEFINE Good(k) ==
        /\ QueueType(Q[k]) /\ ~Q[k].stale
        /\ \E new : /\ Linked(Q[k], new)
                    /\ Grown(Items(queue, path), m, Items(Q[k], new), Len(new),
                             inj, dropped, k)
             S == {k \in Nat : k <= n => Good(k)}
  <1>3. Good(0)
    <2>1. Grown(Items(queue, path), m, Items(queue, path), m, inj, dropped, 0)
      <3>1. PICK e : e = [i \in 1..0 |-> 0]
        OBVIOUS
      <3>2. e \in [1..0 -> 1..0] /\ m = m + 0 /\ 0 \in Nat
        BY <3>1
      <3>3. \A i \in 1..0 : FALSE
        OBVIOUS
      <3> QED BY <3>2, <3>3, Zenon DEF Grown
    <2> QED BY <1>1, <1>2, <2>1
  <1>4. ASSUME NEW k \in Nat, k \in S PROVE k + 1 \in S
    <2> SUFFICES ASSUME k + 1 <= n PROVE Good(k + 1)
      OBVIOUS
    <2>1. Good(k) /\ k + 1 \in 1..n /\ (k + 1) - 1 = k
      BY <1>4
    <2>2. PICK old : /\ Linked(Q[k], old)
                     /\ Grown(Items(queue, path), m, Items(Q[k], old), Len(old),
                              inj, dropped, k)
      BY <2>1
    <2>3. PICK l \in Nat : l = Len(old)
      BY <2>2, LinkedFacts
    <2>4. CASE k + 1 \in dropped
      <3>1. Q[k + 1] = Q[k]
        BY <1>1, <2>1, <2>4
      <3>2. Grown(Items(queue, path), m, Items(Q[k], old), l, inj, dropped, k + 1)
        <4>1. \A c \in Nat : \A e \in [1..c -> 1..k] : e \in [1..c -> 1..(k + 1)]
          OBVIOUS
        <4> QED BY <2>2, <2>3, <4>1 DEF Grown
      <3> QED BY <2>1, <2>2, <2>3, <3>1, <3>2
    <2>5. CASE k + 1 \notin dropped
      <3>1. Q[k + 1] = Enqueue(Q[k], inj[k + 1])
        BY <1>1, <2>1, <2>5
      <3>2. DOMAIN Q[k].heap # Addr /\ inj[k + 1] \in FrameType
        BY <1>0, <2>1, <2>5
      <3>3. /\ QueueType(Q[k + 1]) /\ ~Q[k + 1].stale
            /\ \E new : /\ Linked(Q[k + 1], new) /\ Len(new) = Len(old) + 1
                        /\ \A i \in 1..Len(old) :
                             Items(Q[k + 1], new)[i] = Items(Q[k], old)[i]
                        /\ Items(Q[k + 1], new)[Len(new)] = inj[k + 1]
        BY <2>1, <2>2, <3>1, <3>2, EnqueueLinked
      <3>4. PICK new : /\ Linked(Q[k + 1], new) /\ Len(new) = Len(old) + 1
                       /\ \A i \in 1..Len(old) :
                            Items(Q[k + 1], new)[i] = Items(Q[k], old)[i]
                       /\ Items(Q[k + 1], new)[Len(new)] = inj[k + 1]
        BY <3>3
      <3>5. /\ Len(new) = l + 1
            /\ \A i \in 1..l : Items(Q[k + 1], new)[i] = Items(Q[k], old)[i]
            /\ Items(Q[k + 1], new)[l + 1] = inj[k + 1]
        BY <2>3, <3>4
      <3>6. Grown(Items(queue, path), m, Items(Q[k + 1], new), l + 1,
                  inj, dropped, k + 1)
        BY <2>2, <2>3, <2>5, <3>5, GrownStep
      <3> QED BY <3>3, <3>4, <3>5, <3>6
    <2> QED BY <2>4, <2>5
  <1>5. 0 \in S
    BY <1>3
  <1>6. Nat \subseteq S
    <2> HIDE DEF S
    <2> QED BY <1>4, <1>5, SetInduction
  <1>7. Good(n)
    BY <1>6
  <1> QED BY <1>0, <1>2, <1>7

\* The array gives back the first pieces, last one first.
LEMMA ScatteredPieces ==
  ASSUME NEW s \in Seq(FrameType)
  PROVE  \E n \in Nat :
           /\ Len(Scattered(s)) = n /\ DOMAIN Scattered(s) = 1..n /\ n <= Len(s)
           /\ Scattered(s) \in Seq(FrameType)
           /\ \A j \in 1..n : Scattered(s)[j] = s[n - j + 1] /\ n - j + 1 \in DOMAIN s
  <1>1. PICK l \in Nat : l = Len(s) /\ DOMAIN s = 1..l
    OBVIOUS
  <1>2. PICK start : start = (MAX_SCATTERS - l) % 256
    OBVIOUS
  <1>3. MAX_SCATTERS \in 1..255
    BY DeaggregationAssumption
  <1>4. start \in 0..255 /\ (l <= MAX_SCATTERS => start = MAX_SCATTERS - l)
    <2>1. \A x \in Int : x % 256 \in 0..255
      OBVIOUS
    <2>2. \A x \in 0..255 : x % 256 = x
      OBVIOUS
    <2>3. MAX_SCATTERS - l \in Int
          /\ (l <= MAX_SCATTERS => MAX_SCATTERS - l \in 0..255)
      BY <1>3
    <2> QED BY <1>2, <2>1, <2>2, <2>3
  <1>5. PICK n \in Nat : n = IF MAX_SCATTERS - start <= 0 THEN 0 ELSE MAX_SCATTERS - start
    <2>1. MAX_SCATTERS - start \in Int
      BY <1>3, <1>4
    <2>2. (IF MAX_SCATTERS - start <= 0 THEN 0 ELSE MAX_SCATTERS - start) \in Nat
      BY <2>1
    <2> QED BY <2>2
  <1>6. n <= l
    BY <1>1, <1>3, <1>4, <1>5
  <1>7. PICK w : w = [j \in 1..n |-> s[n - j + 1]]
    OBVIOUS
  <1>8. Scattered(s) = w
    <2>1. CASE MAX_SCATTERS - start <= 0
      <3>1. Scattered(s) = <<>>
        BY <1>1, <1>2, <2>1 DEF Scattered
      <3>2. w = <<>>
        BY <1>5, <1>7, <2>1
      <3> QED BY <3>1, <3>2
    <2>2. CASE ~(MAX_SCATTERS - start <= 0)
      BY <1>1, <1>2, <1>5, <1>7, <2>2 DEF Scattered
    <2> QED BY <2>1, <2>2
  <1>9. \A j \in 1..n : n - j + 1 \in 1..l
    BY <1>1, <1>6
  <1>10. w \in Seq(FrameType) /\ Len(w) = n /\ DOMAIN w = 1..n
    <2>1. \A i \in 1..l : s[i] \in FrameType
      BY <1>1
    <2>2. \A j \in 1..n : s[n - j + 1] \in FrameType
      BY <1>9, <2>1
    <2>3. w \in [1..n -> FrameType]
      BY <1>7, <2>2
    <2> QED BY <2>3
  <1> QED BY <1>1, <1>6, <1>7, <1>8, <1>9, <1>10

\* ts_acc is a number.
LEMMA TsAccType ==
  ASSUME NEW n \in Nat, NEW ts \in Int
  PROVE  \A k \in 1..n : TsAcc(n, ts)[k] \in Int
  <1> DEFINE Step(f, k) == IF k <= 2 THEN 0 ELSE f[k - 1] + (ts - f[k - 1])
             Good(f) == f = [k \in 1..n |-> Step(f, k)]
  <1>1. PICK f : f = [k \in 1..n |-> IF k <= 2 THEN 0 ELSE ts]
    OBVIOUS
  <1>2. Good(f)
    <2>1. ASSUME NEW k \in 1..n PROVE f[k] = Step(f, k)
      <3>1. k > 2 => k - 1 \in 1..n
        OBVIOUS
      <3>2. k > 2 => f[k - 1] \in Int
        BY <1>1, <3>1
      <3>3. f[k] = IF k <= 2 THEN 0 ELSE ts
        BY <1>1
      <3> QED BY <3>2, <3>3
    <2>2. f = [k \in 1..n |-> f[k]]
      BY <1>1
    <2> QED BY <2>1, <2>2
  <1>3. PICK a : a = TsAcc(n, ts)
    OBVIOUS
  <1>4. Good(a)
    <2>1. TsAcc(n, ts) = CHOOSE g : Good(g)
      BY DEF TsAcc
    <2> QED BY <1>2, <1>3, <2>1
  <1>5. \A k \in 1..n : a[k] = Step(a, k)
    BY <1>4
  <1> HIDE DEF Good
  <1> SUFFICES ASSUME NEW T, T = {k \in 1..n : a[k] \notin Int}, T # {}
               PROVE  FALSE
    BY <1>3
  <1>6. PICK x \in T : \A y \in T : x <= y
    BY LeastNat
  <1>7. x \in 1..n /\ a[x] \notin Int
    BY <1>6
  <1>8. x > 2
    BY <1>5, <1>7
  <1>9. x - 1 \in 1..n /\ x - 1 \notin T
    BY <1>6, <1>7, <1>8
  <1>10. a[x - 1] \in Int
    BY <1>9
  <1> QED BY <1>5, <1>7, <1>8, <1>10

\* l3_deaggregate changes stamps and nothing else.
LEMMA RestampedParts ==
  ASSUME NEW parts \in Some(Some(PacketType))
  PROVE  /\ DOMAIN Restamped(parts) = DOMAIN parts
         /\ \A k \in DOMAIN parts :
              /\ Restamped(parts)[k] \in Some(PacketType)
              /\ DOMAIN Restamped(parts)[k] = DOMAIN parts[k]
              /\ Len(Restamped(parts)[k]) = Len(parts[k])
              /\ \A j \in DOMAIN parts[k] : Restamped(parts)[k][j].p = parts[k][j].p
  <1>1. PICK n \in Nat : n = Len(parts) /\ n > 0 /\ DOMAIN parts = 1..n
    BY DEF Some
  <1>2. \A k \in 1..n : parts[k] \in Some(PacketType)
    BY <1>1 DEF Some
  <1>3. PICK ts \in Int : ts = parts[1][1].ts
    <2>1. parts[1] \in Some(PacketType)
      BY <1>1, <1>2
    <2>2. parts[1][1] \in PacketType
      BY <2>1 DEF Some
    <2> QED BY <2>2 DEF PacketType
  <1>4. PICK a : a = TsAcc(n, ts) /\ \A k \in 1..n : a[k] \in Int
    BY TsAccType
  <1>5. Restamped(parts) = [k \in 1..n |-> [parts[k] EXCEPT ![1].ts = ts - a[k]]]
    BY <1>1, <1>3, <1>4 DEF Restamped
  <1>6. ASSUME NEW k \in 1..n
        PROVE  /\ Restamped(parts)[k] \in Some(PacketType)
               /\ DOMAIN Restamped(parts)[k] = DOMAIN parts[k]
               /\ Len(Restamped(parts)[k]) = Len(parts[k])
               /\ \A j \in DOMAIN parts[k] :
                    Restamped(parts)[k][j].p = parts[k][j].p
    <2>1. PICK x \in PacketType :
             x = [parts[k][1] EXCEPT !.ts = ts - a[k]] /\ x.p = parts[k][1].p
      <3>1. parts[k][1] \in PacketType /\ ts - a[k] \in Int
        BY <1>2, <1>4 DEF Some
      <3>2. [parts[k][1] EXCEPT !.ts = ts - a[k]] \in PacketType
            /\ [parts[k][1] EXCEPT !.ts = ts - a[k]].p = parts[k][1].p
        BY <3>1 DEF PacketType
      <3> QED BY <3>2
    <2>2. Restamped(parts)[k] = [parts[k] EXCEPT ![1] = x]
      BY <1>5, <2>1
    <2>3. PICK s \in Seq(PacketType) : s = parts[k] /\ s # <<>>
      BY <1>2 DEF Some
    <2>4. PICK l \in Nat : l = Len(s) /\ l > 0 /\ DOMAIN s = 1..l
      BY <2>3
    <2>5. PICK r : r = [s EXCEPT ![1] = x]
      OBVIOUS
    <2>6. DOMAIN r = 1..l /\ \A j \in 1..l : r[j] = IF j = 1 THEN x ELSE s[j]
      BY <2>4, <2>5
    <2>7. r \in Seq(PacketType) /\ Len(r) = l /\ r # <<>>
      BY <2>3, <2>4, <2>5, <2>6
    <2> QED BY <2>1, <2>2, <2>3, <2>4, <2>5, <2>6, <2>7 DEF Some
  <1> QED BY <1>1, <1>5, <1>6

\* A frame of one part.
LEMMA FrameIn ==
  ASSUME NEW proto \in {"udp", "app", "ip"}, NEW t \in Some(PacketType)
  PROVE  /\ Frame(proto, << t >>) \in FrameType
         /\ Frame(proto, << t >>).proto = proto
         /\ Frame(proto, << t >>).parts = << t >>
         /\ Len(<< t >>) = 1 /\ << t >>[1] = t
  <1>1. << t >> \in Some(Some(PacketType))
    BY DEF Some
  <1> QED BY <1>1 DEF Frame, FrameType

\* One packet as a part.
LEMMA OnePart ==
  ASSUME NEW x \in PacketType
  PROVE  << x >> \in Some(PacketType) /\ Len(<< x >>) = 1 /\ << x >>[1] = x
         /\ DOMAIN << x >> = 1..1
  BY DEF Some

\* What a frame is taken apart into are frames of one part, in its order.
LEMMA PiecesParts ==
  ASSUME NEW f \in FrameType, f.proto # "udp", f.proto # "ip" => Len(f.parts) = 1
  PROVE  /\ Pieces(f) \in Seq(FrameType)
         /\ \A k \in DOMAIN Pieces(f) : Len(Pieces(f)[k].parts) = 1
         /\ f.proto = "ip" =>
              /\ DOMAIN Pieces(f) = DOMAIN f.parts
              /\ \A k \in DOMAIN f.parts :
                   /\ Pieces(f)[k].proto = Inner(f.parts[k]).proto
                   /\ Pieces(f)[k].proto \in {"udp", "app"}
                   /\ Len(Pieces(f)[k].parts[1]) = Len(f.parts[k])
                   /\ DOMAIN Pieces(f)[k].parts[1] = DOMAIN f.parts[k]
                   /\ \A j \in DOMAIN f.parts[k] :
                        Pieces(f)[k].parts[1][j].p = f.parts[k][j].p
         /\ f.proto = "app" =>
              /\ DOMAIN Pieces(f) = DOMAIN f.parts[1]
              /\ \A k \in DOMAIN f.parts[1] :
                   /\ Pieces(f)[k].proto = "udp"
                   /\ Len(Pieces(f)[k].parts[1]) = 1
                   /\ DOMAIN Pieces(f)[k].parts[1] = 1..1
                   /\ Pieces(f)[k].parts[1][1] = f.parts[1][k]
  <1>1. PICK parts \in Some(Some(PacketType)) : parts = f.parts
    BY DEF FrameType
  <1>2. f.proto \in {"app", "ip"}
    BY DEF FrameType
  <1>3. PICK n \in Nat : n = Len(parts) /\ n > 0 /\ DOMAIN parts = 1..n
    BY DEF Some
  <1>4. \A k \in 1..n : parts[k] \in Some(PacketType)
    BY <1>3 DEF Some
  <1>5. CASE f.proto = "ip"
    <2>1. PICK r : r = Restamped(parts)
      OBVIOUS
    <2>2. /\ DOMAIN r = 1..n
          /\ \A k \in 1..n :
               /\ r[k] \in Some(PacketType)
               /\ DOMAIN r[k] = DOMAIN parts[k]
               /\ Len(r[k]) = Len(parts[k])
               /\ \A j \in DOMAIN parts[k] : r[k][j].p = parts[k][j].p
      BY <1>3, <2>1, RestampedParts
    <2>3. PICK w : w = [k \in 1..n |-> Inner(r[k])]
      OBVIOUS
    <2>4. Pieces(f) = w
      BY <1>1, <1>3, <1>5, <2>1, <2>3 DEF Pieces
    <2>5. ASSUME NEW k \in 1..n
          PROVE  /\ w[k] \in FrameType /\ w[k].parts = << r[k] >>
                 /\ w[k].proto = Inner(parts[k]).proto
                 /\ w[k].proto \in {"udp", "app"}
      <3>1. r[k] \in Some(PacketType) /\ parts[k] \in Some(PacketType)
        BY <1>4, <2>2
      <3>2. r[k][1].p = parts[k][1].p /\ Len(r[k]) = Len(parts[k])
        <4>1. 1 \in DOMAIN parts[k]
          BY <3>1 DEF Some
        <4> QED BY <2>2, <4>1
      <3>3. PICK a \in {"udp", "app"} :
               a = IF Len(r[k]) > 1 \/ r[k][1].p \in Alone THEN "app" ELSE "udp"
        OBVIOUS
      <3>4. Inner(r[k]) = Frame(a, << r[k] >>) /\ Inner(parts[k]) = Frame(a, << parts[k] >>)
        BY <3>2, <3>3 DEF Inner
      <3>5. a \in {"udp", "app", "ip"}
        BY <3>3
      <3> QED BY <2>3, <3>1, <3>4, <3>5, FrameIn
    <2>6. w \in Seq(FrameType) /\ DOMAIN w = 1..n
      <3>1. w \in [1..n -> FrameType]
        BY <2>3, <2>5
      <3> QED BY <3>1
    <2>7. \A k \in 1..n : Len(w[k].parts) = 1 /\ w[k].parts[1] = r[k]
      BY <2>5
    <2>8. \A k \in 1..n :
             /\ w[k].proto = Inner(f.parts[k]).proto
             /\ w[k].proto \in {"udp", "app"}
             /\ Len(w[k].parts[1]) = Len(f.parts[k])
             /\ DOMAIN w[k].parts[1] = DOMAIN f.parts[k]
             /\ \A j \in DOMAIN f.parts[k] : w[k].parts[1][j].p = f.parts[k][j].p
      BY <1>1, <2>2, <2>5, <2>7
    <2> QED BY <1>1, <1>3, <1>5, <2>4, <2>6, <2>7, <2>8
  <1>6. CASE f.proto = "app"
    <2>1. PICK s \in Some(PacketType) : s = f.parts[1]
      BY <1>1, <1>3, <1>4
    <2>2. PICK l \in Nat : l = Len(s) /\ DOMAIN s = 1..l
      BY DEF Some
    <2>3. PICK w : w = [k \in 1..l |-> Frame("udp", << <<s[k]>> >>)]
      OBVIOUS
    <2>4. Pieces(f) = w
      BY <1>6, <2>1, <2>2, <2>3 DEF Pieces
    <2>5. ASSUME NEW k \in 1..l
          PROVE  /\ w[k] \in FrameType /\ w[k].parts = << <<s[k]>> >>
                 /\ w[k].proto = "udp" /\ Len(<< <<s[k]>> >>) = 1
                 /\ << <<s[k]>> >>[1] = <<s[k]>> /\ Len(<<s[k]>>) = 1
                 /\ <<s[k]>>[1] = s[k] /\ DOMAIN <<s[k]>> = 1..1
      <3>1. s[k] \in PacketType
        BY <2>2 DEF Some
      <3>2. <<s[k]>> \in Some(PacketType) /\ Len(<<s[k]>>) = 1 /\ <<s[k]>>[1] = s[k]
            /\ DOMAIN <<s[k]>> = 1..1
        BY <3>1, OnePart
      <3> QED BY <2>3, <3>2, FrameIn
    <2>6. w \in Seq(FrameType) /\ DOMAIN w = 1..l
      <3>1. w \in [1..l -> FrameType]
        BY <2>3, <2>5
      <3> QED BY <3>1
    <2>7. \A k \in 1..l : /\ Len(w[k].parts) = 1 /\ w[k].proto = "udp"
                          /\ Len(w[k].parts[1]) = 1 /\ DOMAIN w[k].parts[1] = 1..1
                          /\ w[k].parts[1][1] = s[k]
      BY <2>5
    <2> QED BY <1>6, <2>1, <2>2, <2>4, <2>6, <2>7
  <1> QED BY <1>2, <1>5, <1>6

\* The packets of typed parts are packets.
LEMMA PacketsInType ==
  ASSUME NEW parts \in Some(Some(PacketType))
  PROVE  PacketsIn(parts) \subseteq DOMAIN Stamp
  <1> SUFFICES ASSUME NEW t \in Range(parts), NEW x \in Range(t)
               PROVE  x.p \in DOMAIN Stamp
    BY DEF PacketsIn
  <1>1. t \in Seq(PacketType)
    BY DEF Range, Some
  <1>2. x \in PacketType
    BY <1>1 DEF Range
  <1> QED BY <1>2 DEF PacketType

\* A frame the hook takes apart.
Whole(f) == f \in FrameType /\ f.proto # "udp" /\ (f.proto # "ip" => Len(f.parts) = 1)

\* The queue q1 is q with pieces of f behind the others.
Fed(q, path, f, q1, new) ==
  \E dropped : Grown(Items(q, path), Len(path), Items(q1, new), Len(new),
                     Scattered(Pieces(f)), dropped, Len(Scattered(Pieces(f))))

\* The hook feeds the queue and keeps it in order.
LEMMA InjectsFeeds ==
  ASSUME NEW f, Whole(f), TypeOK, ~queue.stale, NEW path, Linked(queue, path),
         Injects(f)
  PROVE  /\ QueueType(queue') /\ ~queue'.stale /\ crashed' = "no"
         /\ faults' \in 0..MaxFaults /\ lost' \subseteq DOMAIN Stamp
         /\ \E new : Linked(queue', new) /\ Fed(queue, path, f, queue', new)
  <1>1. PICK inj : inj = Scattered(Pieces(f))
    OBVIOUS
  <1>2. PICK dropped \in SUBSET DOMAIN inj :
          /\ \A k \in DOMAIN inj \ dropped : DOMAIN Queues(inj, dropped)[k - 1].heap # Addr
          /\ faults + Cardinality(dropped) <= MaxFaults
          /\ faults' = faults + Cardinality(dropped)
          /\ queue' = Queues(inj, dropped)[Len(inj)]
          /\ crashed' = IF queue'.stale THEN "freed" ELSE "no"
          /\ lost' = lost \cup (PacketsIn(f.parts) \
                       UNION {PacketsIn(inj[k].parts) : k \in DOMAIN inj \ dropped})
    BY <1>1 DEF Injects
  <1>3. Pieces(f) \in Seq(FrameType)
    BY PiecesParts DEF Whole
  <1>4. PICK n \in Nat : Len(inj) = n /\ DOMAIN inj = 1..n /\ inj \in Seq(FrameType)
    BY <1>1, <1>3, ScatteredPieces
  <1>5. \A k \in 1..n : inj[k] \in FrameType
    BY <1>4
  <1>6. QueueType(queue)
    BY DEF TypeOK
  <1>7. \A k \in 1..n : k \notin dropped =>
                          DOMAIN Queues(inj, dropped)[k - 1].heap # Addr
    BY <1>2, <1>4
  <1>8. /\ QueueType(Queues(inj, dropped)[n]) /\ ~Queues(inj, dropped)[n].stale
        /\ \E new : /\ Linked(Queues(inj, dropped)[n], new)
                    /\ Grown(Items(queue, path), Len(path),
                             Items(Queues(inj, dropped)[n], new), Len(new),
                             inj, dropped, n)
    BY <1>4, <1>5, <1>6, <1>7, Injected
  <1>9. QueueType(queue') /\ ~queue'.stale /\ crashed' = "no"
    BY <1>2, <1>4, <1>8
  <1>10. \E new : Linked(queue', new) /\ Fed(queue, path, f, queue', new)
    BY <1>1, <1>2, <1>4, <1>8 DEF Fed
  <1>11. faults' \in 0..MaxFaults
    <2>1. IsFiniteSet(1..n)
      BY FS_Interval
    <2>2. Cardinality(dropped) \in Nat
      BY <1>4, <2>1, FS_Subset, FS_CardinalityType
    <2>3. faults \in Nat /\ MaxFaults \in Nat
      BY DeaggregationAssumption DEF TypeOK
    <2> QED BY <1>2, <2>2, <2>3
  <1>12. lost' \subseteq DOMAIN Stamp
    <2>1. PacketsIn(f.parts) \subseteq DOMAIN Stamp
      BY PacketsInType DEF Whole, FrameType
    <2> QED BY <1>2, <2>1 DEF TypeOK
  <1> QED BY <1>9, <1>10, <1>11, <1>12

\* What the hook may do with a frame.
Delivers(f) == /\ f.proto = "udp" /\ delivered' = Append(delivered, f.parts[1][1])
               /\ UNCHANGED <<queue, crashed, lost, faults>>
Stops == /\ crashed' \in {"pdu", "memory", "scatters", "freed"}
         /\ faults' \in 0..MaxFaults /\ UNCHANGED <<queue, delivered, lost>>
Feeds(f) ==
  /\ f.proto # "udp" /\ QueueType(queue') /\ ~queue'.stale /\ crashed' = "no"
  /\ faults' \in 0..MaxFaults /\ lost' \subseteq DOMAIN Stamp
  /\ UNCHANGED delivered
  /\ \A path : Linked(queue, path) =>
       \E new : Linked(queue', new) /\ Fed(queue, path, f, queue', new)

\* These are all.
LEMMA HookCases ==
  ASSUME NEW f \in FrameType, f.proto # "ip" => Len(f.parts) = 1,
         TypeOK, Sound(queue), Hook(f)
  PROVE  Delivers(f) \/ Stops \/ Feeds(f)
  <1>1. CASE f.proto = "udp"
    BY <1>1 DEF Hook, Delivers
  <1>2. CASE f.proto # "udp" /\ Dies(f) /\ UNCHANGED <<queue, delivered, lost>>
    <2>1. faults \in 0..MaxFaults /\ MaxFaults \in Nat
      BY DeaggregationAssumption DEF TypeOK
    <2>2. faults' \in 0..MaxFaults
      BY <1>2, <2>1 DEF Dies, Fault
    <2>3. crashed' \in {"pdu", "memory", "scatters", "freed"}
      BY <1>2 DEF Dies
    <2> QED BY <1>2, <2>2, <2>3 DEF Stops
  <1>3. CASE f.proto # "udp" /\ Injects(f) /\ UNCHANGED delivered
    <2>1. Whole(f) /\ ~queue.stale /\ \E path : Linked(queue, path)
      BY <1>3 DEF Whole, Sound
    <2>2. ASSUME NEW path, Linked(queue, path)
          PROVE  /\ QueueType(queue') /\ ~queue'.stale /\ crashed' = "no"
                 /\ faults' \in 0..MaxFaults /\ lost' \subseteq DOMAIN Stamp
                 /\ \E new : Linked(queue', new) /\ Fed(queue, path, f, queue', new)
      BY <1>3, <2>1, <2>2, InjectsFeeds
    <2> QED BY <1>3, <2>1, <2>2 DEF Feeds
  <1> QED BY <1>1, <1>2, <1>3 DEF Hook

-----------------------------------------------------------------------------
(* The way of the packets.  What was delivered, what is in the loopback    *)
(* device, in the thread's hands and in the queue is one line of units: a  *)
(* packet, or an aggregate that was inside an aggregate.                   *)

Units == {u \in FrameType : /\ u.proto # "ip" /\ Len(u.parts) = 1
                            /\ u.proto = "udp" => Len(u.parts[1]) = 1}

\* The packets of a unit.
Of(u) == {u.parts[1][j].p : j \in DOMAIN u.parts[1]}

\* line, n long, is made of the d delivered, the l in the loopback device, the
\* thread's packet and the m items of the queue.
Line(line, n, deliv, d, lp, l, packet, items, m) ==
  /\ line \in [1..n -> Units]
  /\ n = IF packet = None THEN d + l + m ELSE d + l + 1 + m
  /\ \A i \in 1..d : line[i].proto = "udp" /\ line[i].parts[1][1] = deliv[i]
  /\ \A i \in 1..l : line[d + i] = lp[i]
  /\ packet # None => line[d + l + 1] = packet
  /\ \A i \in 1..m :
       line[IF packet = None THEN d + l + i ELSE d + l + 1 + i] = items[i]

\* A unit whose frame has arrived.  The packets of an aggregate are nested, of
\* one frame and in the order of the frame.
Valid(u, fs) ==
  /\ u \in Units /\ \A p \in Of(u) : p \in Packets /\ FrameOf(p) \notin fs
  /\ u.proto = "app" =>
       /\ \A p, q \in Of(u) : FrameOf(p) = FrameOf(q) /\ Nested(p)
       /\ \A i, j \in DOMAIN u.parts[1] : i < j =>
            /\ u.parts[1][i].p # u.parts[1][j].p
            /\ PushedBefore(u.parts[1][j].p, u.parts[1][i].p)

\* Two units anywhere in the line.  Packets of an aggregate that are on their
\* way lie behind those of an aggregate that still has to go round.
Apart(u, v) ==
  \A p \in Of(u), q \in Of(v) :
    /\ p # q
    /\ /\ u.proto = "udp" /\ v.proto = "app"
       /\ FrameOf(p) = FrameOf(q) /\ Nested(p) = Nested(q)
       => PushedBefore(p, q)

\* Two units, the first before the second.
InTurn(u, v) ==
  u.proto = v.proto =>
    \A p \in Of(u), q \in Of(v) :
      FrameOf(p) = FrameOf(q) /\ Nested(p) = Nested(q) => PushedBefore(p, q)

Ordered(line, n, fs) ==
  /\ \A i \in 1..n : Valid(line[i], fs)
  /\ \A i, j \in 1..n : i # j => Apart(line[i], line[j])
  /\ \A i, j \in 1..n : i < j => InTurn(line[i], line[j])

Flow(q, fs, deliv, lp, packet) ==
  \E path : /\ Linked(q, path)
            /\ \E n \in Nat : \E line :
                 /\ Line(line, n, deliv, Len(deliv), lp, Len(lp), packet,
                         Items(q, path), Len(path))
                 /\ Ordered(line, n, fs)

IInv ==
  /\ TypeOK /\ ~queue.stale
  /\ thread.pc = "send" <=> thread.packet # None
  /\ Flow(queue, frames, delivered, loop, thread.packet)

\* The line without one of its units.
Cut(line1, line, n, x) ==
  \A i \in 1..(n - 1) : line1[i] = IF i < x THEN line[i] ELSE line[i + 1]

\* It is in order too.
LEMMA LineWithout ==
  ASSUME NEW n \in Nat, NEW x \in 1..n, NEW fs, NEW line, Ordered(line, n, fs),
         NEW line1, Cut(line1, line, n, x)
  PROVE  /\ Ordered(line1, n - 1, fs)
         /\ \A i \in 1..(n - 1) : \E j \in 1..n : j # x /\ line1[i] = line[j]
  <1>1. PICK e : e = [i \in 1..(n - 1) |-> IF i < x THEN i ELSE i + 1]
    OBVIOUS
  <1>2. \A i \in 1..(n - 1) : e[i] \in 1..n /\ e[i] # x /\ line1[i] = line[e[i]]
    BY <1>1 DEF Cut
  <1>3. \A i, j \in 1..(n - 1) : (i < j => e[i] < e[j]) /\ (i # j => e[i] # e[j])
    BY <1>1
  <1>4. \A i \in 1..(n - 1) : Valid(line1[i], fs)
    BY <1>2 DEF Ordered
  <1>5. \A i, j \in 1..(n - 1) : i # j => Apart(line1[i], line1[j])
    BY <1>2, <1>3 DEF Ordered
  <1>6. \A i, j \in 1..(n - 1) : i < j => InTurn(line1[i], line1[j])
    BY <1>2, <1>3 DEF Ordered
  <1> QED BY <1>2, <1>4, <1>5, <1>6 DEF Ordered

\* The line up to one of its units.
LEMMA LineUpTo ==
  ASSUME NEW n \in Nat, NEW k \in 0..n, NEW fs, NEW line, Ordered(line, n, fs),
         NEW line1, \A i \in 1..k : line1[i] = line[i]
  PROVE  Ordered(line1, k, fs)
  <1>1. \A i \in 1..k : i \in 1..n
    OBVIOUS
  <1> QED BY <1>1 DEF Ordered

\* A unit that has nothing to do with those in the line.
Foreign(line, n, u) ==
  \A i \in 1..n : /\ Apart(line[i], u) /\ Apart(u, line[i])
                  /\ InTurn(line[i], u) /\ InTurn(u, line[i])

\* The line with u after place d.
Joined(line1, line, n, d, u) ==
  \A i \in 1..(n + 1) : line1[i] = IF i <= d THEN line[i]
                                   ELSE IF i = d + 1 THEN u ELSE line[i - 1]

\* Such a unit may be put in anywhere.
LEMMA LineWith ==
  ASSUME NEW n \in Nat, NEW d \in 0..n, NEW fs, NEW line, Ordered(line, n, fs),
         NEW u, Valid(u, fs), Foreign(line, n, u),
         NEW line1, Joined(line1, line, n, d, u)
  PROVE  Ordered(line1, n + 1, fs)
  <1>1. PICK e : e = [i \in 1..(n + 1) |-> IF i <= d THEN i ELSE i - 1]
    OBVIOUS
  <1>2. \A i \in 1..(n + 1) : i # d + 1 => e[i] \in 1..n /\ line1[i] = line[e[i]]
    BY <1>1 DEF Joined
  <1>3. \A i, j \in 1..(n + 1) : i # d + 1 /\ j # d + 1 =>
           (i < j => e[i] < e[j]) /\ (i # j => e[i] # e[j])
    BY <1>1
  <1>4. d + 1 \in 1..(n + 1) /\ line1[d + 1] = u
    BY DEF Joined
  <1>5. \A i \in 1..(n + 1) : Valid(line1[i], fs)
    BY <1>2, <1>4 DEF Ordered
  <1>6. \A i, j \in 1..(n + 1) : i # j => Apart(line1[i], line1[j])
    BY <1>2, <1>3, <1>4 DEF Ordered, Foreign
  <1>7. \A i, j \in 1..(n + 1) : i < j => InTurn(line1[i], line1[j])
    BY <1>2, <1>3, <1>4 DEF Ordered, Foreign
  <1> QED BY <1>5, <1>6, <1>7 DEF Ordered

\* Pieces that may go behind one another, the last first.
Stackable(s, fs) ==
  /\ \A k \in DOMAIN s : Valid(s[k], fs)
  /\ \A k, l \in DOMAIN s : k < l => /\ Apart(s[k], s[l]) /\ Apart(s[l], s[k])
                                     /\ InTurn(s[l], s[k])

\* Pieces that may go behind those in the line.
Behind(line, n, s) ==
  \A i \in 1..n : \A k \in DOMAIN s :
     Apart(line[i], s[k]) /\ Apart(s[k], line[i]) /\ InTurn(line[i], s[k])

\* The line with pieces the hook has put into the queue.
LEMMA LineGrows ==
  ASSUME NEW n \in Nat, NEW fs, NEW line, Ordered(line, n, fs),
         NEW s \in Seq(FrameType), Stackable(s, fs), Behind(line, n, s),
         NEW deliv, NEW d \in Nat, NEW lp, NEW l \in Nat, NEW packet,
         NEW items, NEW m \in Nat, NEW items1, NEW m1,
         Line(line, n, deliv, d, lp, l, packet, items, m),
         NEW dropped,
         Grown(items, m, items1, m1, Scattered(s), dropped, Len(Scattered(s)))
  PROVE  \E n1 \in Nat : \E line1 :
           /\ Line(line1, n1, deliv, d, lp, l, packet, items1, m1)
           /\ Ordered(line1, n1, fs)
  <1>1. PICK w \in Nat : /\ Len(Scattered(s)) = w
                         /\ \A j \in 1..w : /\ Scattered(s)[j] = s[w - j + 1]
                                            /\ w - j + 1 \in DOMAIN s
    BY ScatteredPieces
  <1>2. PICK c \in Nat : \E e \in [1..c -> 1..w] :
          /\ m1 = m + c
          /\ \A i, j \in 1..c : i < j => e[i] < e[j]
          /\ \A i \in 1..c : items1[m + i] = Scattered(s)[e[i]]
          /\ \A i \in 1..m : items1[i] = items[i]
    BY <1>1 DEF Grown
  <1>3. PICK e \in [1..c -> 1..w] :
          /\ m1 = m + c
          /\ \A i, j \in 1..c : i < j => e[i] < e[j]
          /\ \A i \in 1..c : items1[m + i] = Scattered(s)[e[i]]
          /\ \A i \in 1..m : items1[i] = items[i]
    BY <1>2
  <1>4. PICK g : g = [i \in 1..c |-> w - e[i] + 1]
    OBVIOUS
  <1>5. \A i \in 1..c : e[i] \in 1..w /\ g[i] = w - e[i] + 1
    BY <1>4
  <1>6. \A i \in 1..c : g[i] \in DOMAIN s /\ items1[m + i] = s[g[i]]
    <2> SUFFICES ASSUME NEW i \in 1..c
                 PROVE  g[i] \in DOMAIN s /\ items1[m + i] = s[g[i]]
      OBVIOUS
    <2>1. PICK x \in 1..w : x = e[i] /\ g[i] = w - x + 1
      BY <1>5
    <2>2. Scattered(s)[x] = s[w - x + 1] /\ w - x + 1 \in DOMAIN s
      BY <1>1, <2>1
    <2>3. items1[m + i] = Scattered(s)[x]
      BY <1>3, <2>1
    <2> QED BY <2>1, <2>2, <2>3
  <1>7. \A i, j \in 1..c : i < j => g[j] < g[i]
    BY <1>3, <1>5
  <1>8. PICK line1 : line1 = [i \in 1..(n + c) |-> IF i <= n THEN line[i] ELSE s[g[i - n]]]
    OBVIOUS
  <1>9. \A i \in 1..n : i \in 1..(n + c) /\ line1[i] = line[i]
    BY <1>8
  <1>10. \A i \in 1..(n + c) : ~(i <= n) => /\ i - n \in 1..c /\ line1[i] = s[g[i - n]]
                                            /\ g[i - n] \in DOMAIN s
    BY <1>6, <1>8
  <1>11. \A i \in 1..(n + c) : i <= n => i \in 1..n
    OBVIOUS
  <1>12. \A i \in 1..(n + c) : Valid(line1[i], fs)
    BY <1>9, <1>10, <1>11 DEF Ordered, Stackable
  <1>13. ASSUME NEW i \in 1..(n + c), NEW j \in 1..(n + c), i < j
         PROVE  /\ Apart(line1[i], line1[j]) /\ Apart(line1[j], line1[i])
                /\ InTurn(line1[i], line1[j])
    <2>1. CASE j <= n
      <3>1. i \in 1..n /\ j \in 1..n /\ line1[i] = line[i] /\ line1[j] = line[j]
        BY <1>9, <1>13, <2>1
      <3> QED BY <1>13, <3>1 DEF Ordered
    <2>2. CASE i <= n /\ ~(j <= n)
      BY <1>9, <1>10, <1>11, <2>2 DEF Behind
    <2>3. CASE ~(i <= n) /\ ~(j <= n)
      <3>1. /\ line1[i] = s[g[i - n]] /\ line1[j] = s[g[j - n]]
            /\ i - n \in 1..c /\ j - n \in 1..c
            /\ g[i - n] \in DOMAIN s /\ g[j - n] \in DOMAIN s
        BY <1>10, <2>3
      <3>2. i - n < j - n
        BY <1>13
      <3>3. g[j - n] < g[i - n]
        BY <1>7, <3>1, <3>2
      <3> QED BY <3>1, <3>3 DEF Stackable
    <2> QED BY <1>13, <2>1, <2>2, <2>3
  <1>14. Ordered(line1, n + c, fs)
    <2>1. \A i, j \in 1..(n + c) : i # j => i < j \/ j < i
      OBVIOUS
    <2> QED BY <1>12, <1>13, <2>1 DEF Ordered
  <1>15. Line(line1, n + c, deliv, d, lp, l, packet, items1, m1)
    <2>1. line1 \in [1..(n + c) -> Units]
      <3>1. \A i \in 1..(n + c) : line1[i] \in Units
        BY <1>12 DEF Valid
      <3> QED BY <1>8, <3>1
    <2>2. PICK b \in Nat : /\ b = (IF packet = None THEN d + l ELSE d + l + 1)
                           /\ (packet # None => d + l + 1 = b)
                           /\ n = b + m /\ d + l <= b
      BY DEF Line
    <2>3. \A i \in 1..d : i \in 1..n
      BY <2>2
    <2>4. \A i \in 1..l : d + i \in 1..n
      BY <2>2
    <2>5. packet # None => b \in 1..n
      BY <2>2
    <2>6. ASSUME NEW i \in 1..m1 PROVE line1[b + i] = items1[i]
      <3>1. CASE i <= m
        <4>1. b + i \in 1..n /\ i \in 1..m
          BY <2>2, <3>1
        <4>2. line[b + i] = items[i]
          BY <2>2, <4>1 DEF Line
        <4> QED BY <1>3, <1>9, <4>1, <4>2
      <3>2. CASE ~(i <= m)
        <4>0. i - m \in 1..c /\ i = m + (i - m)
          <5>1. m1 = m + c
            BY <1>3
          <5> QED BY <3>2, <5>1
        <4>1. PICK h \in 1..c : i = m + h
          BY <4>0
        <4>2. b + i = n + h /\ n + h \in 1..(n + c) /\ (n + h) - n = h /\ ~(n + h <= n)
          BY <2>2, <4>1
        <4>3. line1[n + h] = s[g[h]]
          BY <1>10, <4>2
        <4> QED BY <1>6, <4>1, <4>2, <4>3
      <3> QED BY <3>1, <3>2
    <2>7. \A i \in 1..d : line1[i].proto = "udp" /\ line1[i].parts[1][1] = deliv[i]
      BY <1>9, <2>3 DEF Line
    <2>8. \A i \in 1..l : line1[d + i] = lp[i]
      BY <1>9, <2>4 DEF Line
    <2>9. packet # None => line1[d + l + 1] = packet
      BY <1>9, <2>2, <2>5 DEF Line
    <2>10. n + c = IF packet = None THEN d + l + m1 ELSE d + l + 1 + m1
      BY <1>3, <2>2
    <2> QED BY <2>1, <2>2, <2>6, <2>7, <2>8, <2>9, <2>10 DEF Line
  <1> QED BY <1>14, <1>15

-----------------------------------------------------------------------------
(* The frames that arrive.                                                 *)

\* A packet of a frame, by its place in it.
LEMMA PacketPlace ==
  ASSUME NEW f \in FrameType, NEW k \in DOMAIN f.parts, NEW j \in DOMAIN f.parts[k]
  PROVE  f.parts[k][j].p \in PacketsIn(f.parts)
  BY DEF PacketsIn, Range

\* A packet knows its frame, because no two frames share one.
LEMMA FrameKnown ==
  ASSUME NEW f \in Frames, NEW p \in PacketsIn(f.parts)
  PROVE  p \in Packets /\ FrameOf(p) = f
  <1>1. \A g \in Frames : p \in PacketsIn(g.parts) => g = f
    BY DeaggregationAssumption
  <1> QED BY <1>1 DEF Packets, FrameOf

\* A packet is nested if its part of a network level aggregate is an aggregate.
LEMMA NestedKnown ==
  ASSUME NEW f \in Frames, NEW k \in DOMAIN f.parts, NEW j \in DOMAIN f.parts[k]
  PROVE  Nested(f.parts[k][j].p) <=>
           f.proto = "ip" /\ Inner(f.parts[k]).proto = "app"
  <1>1. PICK p : p = f.parts[k][j].p
    OBVIOUS
  <1>2. f \in FrameType /\ OnePlaceEach(f.parts)
    BY DeaggregationAssumption
  <1>3. FrameOf(p) = f
    BY <1>1, <1>2, PacketPlace, FrameKnown
  <1>4. PICK n \in Nat : DOMAIN f.parts = 1..n
    BY <1>2 DEF FrameType, Some
  <1>5. ASSUME NEW part \in Range(f.parts), p \in PacketsIn(<< part >>)
        PROVE  part = f.parts[k]
    <2>1. PICK l \in 1..n : part = f.parts[l]
      BY <1>4 DEF Range
    <2>2. PICK x \in Range(part) : p = x.p
      BY <1>5 DEF PacketsIn, Range
    <2>3. PICK i \in DOMAIN part : x = part[i]
      BY <2>2 DEF Range
    <2>4. /\ l \in DOMAIN f.parts /\ i \in DOMAIN f.parts[l]
          /\ f.parts[l][i].p = f.parts[k][j].p
      BY <1>1, <1>4, <2>1, <2>2, <2>3
    <2>5. l = k
      BY <1>2, <2>4, Zenon DEF OnePlaceEach
    <2> QED BY <2>1, <2>5
  <1>6. f.parts[k] \in Range(f.parts) /\ p \in PacketsIn(<< f.parts[k] >>)
    BY <1>1 DEF PacketsIn, Range
  <1>7. PartOf(p) = f.parts[k]
    BY <1>3, <1>5, <1>6 DEF PartOf
  <1> QED BY <1>1, <1>3, <1>7 DEF Nested

\* Of two packets of a frame the one that comes later was pushed earlier.
LEMMA EarlierBehind ==
  ASSUME NEW f \in Frames, NEW k \in DOMAIN f.parts, NEW l \in DOMAIN f.parts,
         NEW i \in DOMAIN f.parts[k], NEW j \in DOMAIN f.parts[l],
         k < l \/ (k = l /\ i < j)
  PROVE  /\ f.parts[k][i].p # f.parts[l][j].p
         /\ PushedBefore(f.parts[l][j].p, f.parts[k][i].p)
  <1>1. OnePlaceEach(f.parts) /\ f \in FrameType
    BY DeaggregationAssumption
  <1>2. DOMAIN f.parts \subseteq Int /\ DOMAIN f.parts[k] \subseteq Int
    BY <1>1 DEF FrameType, Some
  <1>3. f.parts[k][i].p # f.parts[l][j].p
    BY <1>1, <1>2 DEF OnePlaceEach
  <1>4. FrameOf(f.parts[k][i].p) = f
    BY <1>1, PacketPlace, FrameKnown
  <1>5. l > k \/ (l = k /\ j > i)
    BY <1>2
  <1> QED BY <1>3, <1>4, <1>5 DEF PushedBefore

\* A part taken for a frame is an aggregate, or one packet.
LEMMA InnerKinds ==
  ASSUME NEW part \in Some(PacketType)
  PROVE  Inner(part).proto = "udp" => Len(part) = 1
  <1>1. Len(part) \in Nat /\ Len(part) > 0
    BY DEF Some
  <1>2. Len(part) > 1 => Inner(part).proto = "app"
    BY DEF Inner, Frame
  <1> QED BY <1>1, <1>2

\* The pieces of a network level aggregate fit into the line, the last first.
LEMMA IpPieces ==
  ASSUME NEW f \in Frames, f.proto = "ip", NEW fs, f \notin fs
  PROVE  /\ Stackable(Pieces(f), fs)
         /\ \A k \in DOMAIN Pieces(f) : \A p \in Of(Pieces(f)[k]) : FrameOf(p) = f
  <1>1. f \in FrameType
    BY DeaggregationAssumption
  <1>2. PICK s \in Seq(FrameType) : s = Pieces(f)
    BY <1>1, PiecesParts
  <1>3. /\ DOMAIN s = DOMAIN f.parts
        /\ \A k \in DOMAIN f.parts :
             /\ Len(s[k].parts) = 1
             /\ s[k].proto = Inner(f.parts[k]).proto
             /\ s[k].proto \in {"udp", "app"}
             /\ Len(s[k].parts[1]) = Len(f.parts[k])
             /\ DOMAIN s[k].parts[1] = DOMAIN f.parts[k]
             /\ \A j \in DOMAIN f.parts[k] : s[k].parts[1][j].p = f.parts[k][j].p
    BY <1>1, <1>2, PiecesParts
  <1>4. ASSUME NEW k \in DOMAIN s, NEW p \in Of(s[k])
        PROVE  /\ \E j \in DOMAIN f.parts[k] : p = f.parts[k][j].p
               /\ p \in Packets /\ FrameOf(p) = f /\ (Nested(p) <=> s[k].proto = "app")
    <2>1. PICK j \in DOMAIN f.parts[k] : p = f.parts[k][j].p
      BY <1>3 DEF Of
    <2>2. p \in PacketsIn(f.parts)
      BY <1>1, <1>3, <2>1, PacketPlace
    <2>3. Nested(p) <=> s[k].proto = "app"
      BY <1>3, <2>1, NestedKnown
    <2> QED BY <2>1, <2>2, <2>3, FrameKnown
  <1>5. ASSUME NEW k \in DOMAIN s PROVE Valid(s[k], fs)
    <2>1. s[k] \in FrameType /\ s[k].proto # "ip" /\ Len(s[k].parts) = 1
      BY <1>2, <1>3
    <2>2. s[k].proto = "udp" => Len(s[k].parts[1]) = 1
      <3>1. f.parts[k] \in Some(PacketType)
        BY <1>1, <1>3 DEF FrameType, Some
      <3> QED BY <1>3, <3>1, InnerKinds
    <2>3. s[k] \in Units
      BY <2>1, <2>2 DEF Units
    <2>4. \A i, j \in DOMAIN s[k].parts[1] : i < j =>
            /\ s[k].parts[1][i].p # s[k].parts[1][j].p
            /\ PushedBefore(s[k].parts[1][j].p, s[k].parts[1][i].p)
      <3> SUFFICES ASSUME NEW i \in DOMAIN f.parts[k], NEW j \in DOMAIN f.parts[k], i < j
                   PROVE  /\ f.parts[k][i].p # f.parts[k][j].p
                          /\ PushedBefore(f.parts[k][j].p, f.parts[k][i].p)
        BY <1>3
      <3> QED BY <1>3, EarlierBehind
    <2> QED BY <1>4, <2>3, <2>4 DEF Valid
  <1>6. ASSUME NEW k \in DOMAIN s, NEW l \in DOMAIN s, k < l
        PROVE  Apart(s[k], s[l]) /\ Apart(s[l], s[k]) /\ InTurn(s[l], s[k])
    <2>1. \A p \in Of(s[k]), q \in Of(s[l]) : p # q /\ PushedBefore(q, p)
      <3> SUFFICES ASSUME NEW p \in Of(s[k]), NEW q \in Of(s[l])
                   PROVE  p # q /\ PushedBefore(q, p)
        OBVIOUS
      <3>1. PICK i \in DOMAIN f.parts[k] : p = f.parts[k][i].p
        BY <1>4
      <3>2. PICK j \in DOMAIN f.parts[l] : q = f.parts[l][j].p
        BY <1>4
      <3> QED BY <1>3, <1>6, <3>1, <3>2, EarlierBehind
    <2>2. Apart(s[k], s[l])
      BY <1>4, <2>1, Zenon DEF Apart
    <2>3. Apart(s[l], s[k])
      BY <1>4, <2>1, Zenon DEF Apart
    <2>4. InTurn(s[l], s[k])
      BY <2>1, Zenon DEF InTurn
    <2> QED BY <2>2, <2>3, <2>4
  <1> QED BY <1>2, <1>4, <1>5, <1>6 DEF Stackable

\* So do those of an application level aggregate.
LEMMA AppPieces ==
  ASSUME NEW f \in Frames, f.proto = "app", NEW fs, f \notin fs
  PROVE  /\ Stackable(Pieces(f), fs)
         /\ \A k \in DOMAIN Pieces(f) : \A p \in Of(Pieces(f)[k]) : FrameOf(p) = f
  <1>1. f \in FrameType /\ Len(f.parts) = 1
    BY DeaggregationAssumption
  <1>2. PICK s \in Seq(FrameType) : s = Pieces(f)
    BY <1>1, PiecesParts
  <1>3. /\ DOMAIN s = DOMAIN f.parts[1]
        /\ \A k \in DOMAIN f.parts[1] :
             /\ Len(s[k].parts) = 1 /\ s[k].proto = "udp"
             /\ Len(s[k].parts[1]) = 1 /\ DOMAIN s[k].parts[1] = 1..1
             /\ s[k].parts[1][1] = f.parts[1][k]
    BY <1>1, <1>2, PiecesParts
  <1>4. 1 \in DOMAIN f.parts
    BY <1>1 DEF FrameType, Some
  <1>5. ASSUME NEW k \in DOMAIN s, NEW p \in Of(s[k])
        PROVE  p = f.parts[1][k].p /\ p \in Packets /\ FrameOf(p) = f
    <2>1. p = f.parts[1][k].p
      BY <1>3 DEF Of
    <2>2. p \in PacketsIn(f.parts)
      BY <1>1, <1>3, <1>4, <2>1, PacketPlace
    <2> QED BY <2>1, <2>2, FrameKnown
  <1>6. ASSUME NEW k \in DOMAIN s PROVE Valid(s[k], fs)
    <2>1. s[k] \in Units
      BY <1>2, <1>3 DEF Units
    <2> QED BY <1>3, <1>5, <2>1 DEF Valid
  <1>7. ASSUME NEW k \in DOMAIN s, NEW l \in DOMAIN s, k < l
        PROVE  Apart(s[k], s[l]) /\ Apart(s[l], s[k]) /\ InTurn(s[l], s[k])
    <2>1. /\ f.parts[1][k].p # f.parts[1][l].p
          /\ PushedBefore(f.parts[1][l].p, f.parts[1][k].p)
      BY <1>3, <1>4, <1>7, EarlierBehind
    <2>2. s[k].proto = "udp" /\ s[l].proto = "udp"
      BY <1>3
    <2>3. \A p \in Of(s[k]), q \in Of(s[l]) : p # q /\ PushedBefore(q, p)
      BY <1>5, <2>1
    <2>4. Apart(s[k], s[l]) /\ Apart(s[l], s[k])
      BY <2>2, <2>3 DEF Apart
    <2>5. InTurn(s[l], s[k])
      BY <2>3, Zenon DEF InTurn
    <2> QED BY <2>4, <2>5
  <1> QED BY <1>2, <1>5, <1>6, <1>7 DEF Stackable

\* And those of an aggregate that was inside an aggregate: they take its place
\* behind everything that was pushed earlier.
LEMMA NestedPieces ==
  ASSUME NEW fs, NEW u, Valid(u, fs), u.proto = "app"
  PROVE  /\ Stackable(Pieces(u), fs)
         /\ \A k \in DOMAIN Pieces(u) :
              Pieces(u)[k].proto = "udp" /\ Of(Pieces(u)[k]) \subseteq Of(u)
  <1>1. u \in FrameType /\ Len(u.parts) = 1
    BY DEF Valid, Units
  <1>2. PICK s \in Seq(FrameType) : s = Pieces(u)
    BY <1>1, PiecesParts
  <1>3. /\ DOMAIN s = DOMAIN u.parts[1]
        /\ \A k \in DOMAIN u.parts[1] :
             /\ Len(s[k].parts) = 1 /\ s[k].proto = "udp"
             /\ Len(s[k].parts[1]) = 1 /\ DOMAIN s[k].parts[1] = 1..1
             /\ s[k].parts[1][1] = u.parts[1][k]
    BY <1>1, <1>2, PiecesParts
  <1>4. ASSUME NEW k \in DOMAIN s, NEW p \in Of(s[k])
        PROVE  p = u.parts[1][k].p /\ p \in Of(u)
    BY <1>3 DEF Of
  <1>5. ASSUME NEW k \in DOMAIN s PROVE Valid(s[k], fs)
    <2>1. s[k] \in Units
      BY <1>2, <1>3 DEF Units
    <2>2. \A p \in Of(s[k]) : p \in Packets /\ FrameOf(p) \notin fs
      BY <1>4 DEF Valid
    <2> QED BY <1>3, <2>1, <2>2 DEF Valid
  <1>6. ASSUME NEW k \in DOMAIN s, NEW l \in DOMAIN s, k < l
        PROVE  Apart(s[k], s[l]) /\ Apart(s[l], s[k]) /\ InTurn(s[l], s[k])
    <2>1. /\ u.parts[1][k].p # u.parts[1][l].p
          /\ PushedBefore(u.parts[1][l].p, u.parts[1][k].p)
      BY <1>3, <1>6 DEF Valid
    <2>5. s[k].proto = "udp" /\ s[l].proto = "udp"
      BY <1>3
    <2>6. \A p \in Of(s[k]), q \in Of(s[l]) : p # q /\ PushedBefore(q, p)
      BY <1>4, <2>1
    <2>7. Apart(s[k], s[l]) /\ Apart(s[l], s[k])
      BY <2>5, <2>6 DEF Apart
    <2>8. InTurn(s[l], s[k])
      BY <2>6, Zenon DEF InTurn
    <2> QED BY <2>7, <2>8
  <1> QED BY <1>2, <1>3, <1>4, <1>5, <1>6 DEF Stackable

-----------------------------------------------------------------------------
(* How each step moves the line.                                           *)

\* Fewer frames that have not arrived.
LEMMA OrderedLess ==
  ASSUME NEW n, NEW line, NEW fs, NEW fs1 \in SUBSET fs, Ordered(line, n, fs)
  PROVE  Ordered(line, n, fs1)
  <1>1. \A u : Valid(u, fs) => Valid(u, fs1)
    BY DEF Valid
  <1> QED BY <1>1 DEF Ordered

\* Units of different frames have nothing to do with each other.
LEMMA Strangers ==
  ASSUME NEW u, NEW v, \A p \in Of(u), q \in Of(v) : FrameOf(p) # FrameOf(q)
  PROVE  Apart(u, v) /\ Apart(v, u) /\ InTurn(u, v) /\ InTurn(v, u)
  <1>1. \A p \in Of(u), q \in Of(v) : p # q
    OBVIOUS
  <1> QED BY <1>1, Zenon DEF Apart, InTurn

\* A frame is not the empty hand of the thread.
LEMMA NotNone ==
  ASSUME NEW f \in FrameType
  PROVE  f # None
  <1>1. "proto" \in DOMAIN f
    BY DEF FrameType
  <1>2. DOMAIN <<>> = {}
    OBVIOUS
  <1> QED BY <1>1, <1>2 DEF None

\* The queue begins after place b of the line.
LineAt(line, n, deliv, d, lp, l, packet, items, m, b) ==
  /\ packet = None => b = d + l
  /\ packet # None => b = d + l + 1 /\ line[b] = packet
  /\ n = b + m /\ d + l <= b /\ line \in [1..n -> Units]
  /\ \A i \in 1..d : line[i].proto = "udp" /\ line[i].parts[1][1] = deliv[i]
  /\ \A i \in 1..l : line[d + i] = lp[i]
  /\ \A i \in 1..m : line[b + i] = items[i]

\* The line, with the place where the queue begins named.
LEMMA LineParts ==
  ASSUME NEW line, NEW n, NEW deliv, NEW d \in Nat, NEW lp, NEW l \in Nat,
         NEW packet, NEW items, NEW m \in Nat,
         Line(line, n, deliv, d, lp, l, packet, items, m)
  PROVE  \E b \in Nat : LineAt(line, n, deliv, d, lp, l, packet, items, m, b)
  <1>1. PICK b \in Nat : /\ packet = None => b = d + l
                         /\ packet # None => b = d + l + 1
                         /\ n = b + m /\ d + l <= b
    <2>1. CASE packet = None
      BY <2>1 DEF Line
    <2>2. CASE packet # None
      BY <2>2 DEF Line
    <2> QED BY <2>1, <2>2
  <1>2. \A i \in 1..m : line[b + i] = items[i]
    <2>1. CASE packet = None
      BY <1>1, <2>1 DEF Line
    <2>2. CASE packet # None
      BY <1>1, <2>2 DEF Line
    <2> QED BY <2>1, <2>2
  <1>3. packet # None => line[b] = packet
    BY <1>1 DEF Line
  <1>4. /\ line \in [1..n -> Units]
        /\ \A i \in 1..d : line[i].proto = "udp" /\ line[i].parts[1][1] = deliv[i]
        /\ \A i \in 1..l : line[d + i] = lp[i]
    BY DEF Line
  <1> QED BY <1>1, <1>2, <1>3, <1>4 DEF LineAt

\* A line, from its parts.
LEMMA LineFrom ==
  ASSUME NEW line, NEW n, NEW deliv, NEW d \in Nat, NEW lp, NEW l \in Nat,
         NEW packet, NEW items, NEW m \in Nat, NEW b \in Nat,
         LineAt(line, n, deliv, d, lp, l, packet, items, m, b)
  PROVE  Line(line, n, deliv, d, lp, l, packet, items, m)
  <1>1. CASE packet = None
    BY <1>1 DEF Line, LineAt
  <1>2. CASE packet # None
    BY <1>2 DEF Line, LineAt
  <1> QED BY <1>1, <1>2

\* The flow a line stands for.
LEMMA FlowBy ==
  ASSUME NEW q, NEW fs, NEW deliv, NEW lp, NEW packet, NEW path, Linked(q, path),
         NEW line, NEW n \in Nat, NEW d \in Nat, NEW l \in Nat, NEW items,
         NEW m \in Nat, NEW b \in Nat,
         d = Len(deliv), l = Len(lp), m = Len(path), items = Items(q, path),
         LineAt(line, n, deliv, d, lp, l, packet, items, m, b),
         Ordered(line, n, fs)
  PROVE  Flow(q, fs, deliv, lp, packet)
  <1>1. Line(line, n, deliv, d, lp, l, packet, items, m)
    BY LineFrom
  <1> QED BY <1>1 DEF Flow

\* The units of an ordered line are units.
LEMMA OrderedUnits ==
  ASSUME NEW line, NEW n, NEW fs, Ordered(line, n, fs)
  PROVE  \A i \in 1..n : line[i] \in Units
  BY DEF Ordered, Valid

\* The state of the line: what Flow says, with everything named.
InLine(q, fs, deliv, lp, packet, path, n, line, d, l, m, b) ==
  /\ Linked(q, path) /\ n \in Nat /\ d \in Nat /\ l \in Nat /\ m \in Nat /\ b \in Nat
  /\ d = Len(deliv) /\ l = Len(lp) /\ m = Len(path)
  /\ Line(line, n, deliv, d, lp, l, packet, Items(q, path), m)
  /\ Ordered(line, n, fs)
  /\ packet = None => b = d + l
  /\ packet # None => b = d + l + 1 /\ line[b] = packet
  /\ n = b + m /\ d + l <= b
  /\ \A i \in 1..n : line[i] \in Units
  /\ \A i \in 1..d : line[i].proto = "udp" /\ line[i].parts[1][1] = deliv[i]
  /\ \A i \in 1..l : line[d + i] = lp[i]
  /\ \A i \in 1..m : line[b + i] = Items(q, path)[i]

\* There is such a line.
LEMMA FlowInLine ==
  ASSUME NEW q, NEW fs, NEW deliv \in Seq(PacketType), NEW lp \in Seq(FrameType),
         NEW packet, Flow(q, fs, deliv, lp, packet)
  PROVE  \E path, n, line, d, l, m, b :
            InLine(q, fs, deliv, lp, packet, path, n, line, d, l, m, b)
  <1>1. PICK path : /\ Linked(q, path)
                    /\ \E n \in Nat : \E line :
                         /\ Line(line, n, deliv, Len(deliv), lp, Len(lp), packet,
                                 Items(q, path), Len(path))
                         /\ Ordered(line, n, fs)
    BY DEF Flow
  <1>2. PICK n \in Nat : \E line :
                         /\ Line(line, n, deliv, Len(deliv), lp, Len(lp), packet,
                                 Items(q, path), Len(path))
                         /\ Ordered(line, n, fs)
    BY <1>1
  <1>3. PICK line : /\ Line(line, n, deliv, Len(deliv), lp, Len(lp), packet,
                            Items(q, path), Len(path))
                    /\ Ordered(line, n, fs)
    BY <1>2
  <1>4. PICK d \in Nat : d = Len(deliv)
    OBVIOUS
  <1>5. PICK l \in Nat : l = Len(lp)
    OBVIOUS
  <1>6. PICK m \in Nat : m = Len(path)
    BY <1>1, LinkedFacts
  <1>7. PICK items : /\ items = Items(q, path)
                     /\ Line(line, n, deliv, d, lp, l, packet, items, m)
    BY <1>3, <1>4, <1>5, <1>6
  <1>8. PICK b \in Nat : LineAt(line, n, deliv, d, lp, l, packet, items, m, b)
    BY <1>7, LineParts
  <1>9. \A i \in 1..n : line[i] \in Units
    BY <1>3, OrderedUnits
  <1>10. InLine(q, fs, deliv, lp, packet, path, n, line, d, l, m, b)
    BY <1>1, <1>3, <1>4, <1>5, <1>6, <1>7, <1>8, <1>9 DEF InLine, LineAt
  <1> QED BY <1>10

\* An arriving packet goes straight to the receiver.
LEMMA FlowDelivers ==
  ASSUME NEW q, NEW fs \in SUBSET Frames, NEW deliv \in Seq(PacketType),
         NEW lp \in Seq(FrameType), NEW packet, Flow(q, fs, deliv, lp, packet),
         NEW f \in fs, f.proto = "udp"
  PROVE  Flow(q, fs \ {f}, Append(deliv, f.parts[1][1]), lp, packet)
  <1>0. f \in Frames /\ f \in FrameType /\ Len(f.parts) = 1 /\ Len(f.parts[1]) = 1
    BY DeaggregationAssumption
  <1>1. PICK path, n, line, d, l, m, b :
           InLine(q, fs, deliv, lp, packet, path, n, line, d, l, m, b)
    BY FlowInLine
  <1>2. n \in Nat /\ d \in Nat /\ l \in Nat /\ m \in Nat /\ b \in Nat
        /\ n = b + m /\ d + l <= b
    BY <1>1 DEF InLine
  <1>3. \A p \in Of(f) : p \in Packets /\ FrameOf(p) = f
    <2> SUFFICES ASSUME NEW j \in DOMAIN f.parts[1]
                 PROVE  f.parts[1][j].p \in PacketsIn(f.parts)
      BY <1>0, FrameKnown DEF Of
    <2>1. 1 \in DOMAIN f.parts
      BY <1>0 DEF FrameType, Some
    <2> QED BY <1>0, <2>1, PacketPlace
  <1>4. Valid(f, fs \ {f})
    BY <1>0, <1>3 DEF Valid, Units
  <1>5. Ordered(line, n, fs \ {f})
    BY <1>1, OrderedLess DEF InLine
  <1>6. Foreign(line, n, f)
    <2> SUFFICES ASSUME NEW i \in 1..n
                 PROVE  \A p \in Of(line[i]), r \in Of(f) : FrameOf(p) # FrameOf(r)
      BY Strangers DEF Foreign
    <2>1. Valid(line[i], fs)
      BY <1>1 DEF InLine, Ordered
    <2> QED BY <1>3, <2>1 DEF Valid
  <1>7. PICK line1 : line1 = [i \in 1..(n + 1) |-> IF i <= d THEN line[i]
                               ELSE IF i = d + 1 THEN f ELSE line[i - 1]]
    OBVIOUS
  <1>8. \A i \in 1..(n + 1) : line1[i] = IF i <= d THEN line[i]
                               ELSE IF i = d + 1 THEN f ELSE line[i - 1]
    BY <1>7
  <1>9. Ordered(line1, n + 1, fs \ {f})
    <2>1. d \in 0..n
      BY <1>2
    <2>2. Joined(line1, line, n, d, f)
      BY <1>8 DEF Joined
    <2> QED BY <1>2, <1>4, <1>5, <1>6, <2>1, <2>2, LineWith
  <1>10. PICK deliv1 : deliv1 = Append(deliv, f.parts[1][1])
    OBVIOUS
  <1>11. Len(deliv1) = d + 1 /\ deliv1[d + 1] = f.parts[1][1]
         /\ \A i \in 1..d : deliv1[i] = deliv[i]
    BY <1>1, <1>10 DEF InLine
  <1>12. PICK items : items = Items(q, path)
    OBVIOUS
  <1>13. LineAt(line1, n + 1, deliv1, d + 1, lp, l, packet, items, m, b + 1)
    <2>1. line1 \in [1..(n + 1) -> Units]
      <3>1. \A i \in 1..(n + 1) : line1[i] \in Units
        BY <1>9, OrderedUnits
      <3> QED BY <1>7, <3>1
    <2>2. (packet = None => b + 1 = d + 1 + l)
          /\ (packet # None => b + 1 = d + 1 + l + 1)
          /\ n + 1 = b + 1 + m /\ d + 1 + l <= b + 1
      BY <1>1, <1>2 DEF InLine
    <2>3. ASSUME packet # None PROVE line1[b + 1] = packet
      <3>1. b = d + l + 1 /\ line[b] = packet
        BY <1>1, <2>3 DEF InLine
      <3>2. b + 1 \in 1..(n + 1) /\ ~(b + 1 <= d) /\ b + 1 # d + 1 /\ (b + 1) - 1 = b
        BY <1>2, <3>1
      <3> QED BY <1>8, <3>1, <3>2
    <2>4. ASSUME NEW i \in 1..(d + 1)
          PROVE  line1[i].proto = "udp" /\ line1[i].parts[1][1] = deliv1[i]
      <3>1. i \in 1..(n + 1)
        BY <1>2
      <3>2. CASE i <= d
        <4>1. i \in 1..d
          BY <1>2, <3>2
        <4>2. line1[i] = line[i] /\ deliv1[i] = deliv[i]
          BY <1>8, <1>11, <3>1, <3>2, <4>1
        <4> QED BY <1>1, <4>1, <4>2 DEF InLine
      <3>3. CASE i = d + 1
        <4>1. line1[i] = f
          BY <1>2, <1>8, <3>1, <3>3
        <4> QED BY <1>11, <3>3, <4>1
      <3> QED BY <1>2, <3>2, <3>3
    <2>5. ASSUME NEW i \in 1..l PROVE line1[(d + 1) + i] = lp[i]
      <3>1. (d + 1) + i \in 1..(n + 1) /\ ~((d + 1) + i <= d) /\ (d + 1) + i # d + 1
            /\ ((d + 1) + i) - 1 = d + i
        BY <1>2
      <3>2. line1[(d + 1) + i] = line[d + i]
        BY <1>8, <3>1
      <3> QED BY <1>1, <3>2 DEF InLine
    <2>6. ASSUME NEW i \in 1..m PROVE line1[(b + 1) + i] = items[i]
      <3>1. (b + 1) + i \in 1..(n + 1) /\ ~((b + 1) + i <= d) /\ (b + 1) + i # d + 1
            /\ ((b + 1) + i) - 1 = b + i
        BY <1>2
      <3>2. line1[(b + 1) + i] = line[b + i]
        BY <1>8, <3>1
      <3> QED BY <1>1, <1>12, <3>2 DEF InLine
    <2> QED BY <2>1, <2>2, <2>3, <2>4, <2>5, <2>6 DEF LineAt
  <1>14. Linked(q, path) /\ l = Len(lp) /\ m = Len(path)
    BY <1>1 DEF InLine
  <1>15. n + 1 \in Nat /\ d + 1 \in Nat /\ b + 1 \in Nat
    BY <1>2
  <1> QED BY <1>2, <1>9, <1>10, <1>11, <1>12, <1>13, <1>14, <1>15, FlowBy

\* Pieces of a frame that has just arrived go behind the others.
LEMMA FlowFed ==
  ASSUME NEW q, NEW fs \in SUBSET Frames, NEW deliv \in Seq(PacketType),
         NEW lp \in Seq(FrameType), NEW packet, Flow(q, fs, deliv, lp, packet),
         NEW f \in fs, f.proto # "udp", NEW q1,
         \A path : Linked(q, path) =>
            \E new : Linked(q1, new) /\ Fed(q, path, f, q1, new)
  PROVE  Flow(q1, fs \ {f}, deliv, lp, packet)
  <1>0. f \in Frames /\ f \in FrameType /\ (f.proto # "ip" => Len(f.parts) = 1)
    BY DeaggregationAssumption
  <1>1. PICK path, n, line, d, l, m, b :
           InLine(q, fs, deliv, lp, packet, path, n, line, d, l, m, b)
    BY FlowInLine
  <1>2. n \in Nat /\ d \in Nat /\ l \in Nat /\ m \in Nat
        /\ Line(line, n, deliv, d, lp, l, packet, Items(q, path), m)
    BY <1>1 DEF InLine
  <1>3. PICK s \in Seq(FrameType) : s = Pieces(f)
    BY <1>0, PiecesParts
  <1>4. /\ Stackable(s, fs \ {f})
        /\ \A k \in DOMAIN s : \A p \in Of(s[k]) : FrameOf(p) = f
    <2>1. CASE f.proto = "ip"
      BY <1>0, <1>3, <2>1, IpPieces
    <2>2. CASE f.proto = "app"
      BY <1>0, <1>3, <2>2, AppPieces
    <2> QED BY <1>0, <2>1, <2>2 DEF FrameType
  <1>5. Ordered(line, n, fs \ {f})
    BY <1>1, OrderedLess DEF InLine
  <1>6. Behind(line, n, s)
    <2> SUFFICES ASSUME NEW i \in 1..n, NEW k \in DOMAIN s
                 PROVE  \A p \in Of(line[i]), r \in Of(s[k]) : FrameOf(p) # FrameOf(r)
      BY Strangers DEF Behind
    <2>1. Valid(line[i], fs)
      BY <1>1 DEF InLine, Ordered
    <2> QED BY <1>4, <2>1 DEF Valid
  <1>7. PICK new : Linked(q1, new) /\ Fed(q, path, f, q1, new)
    BY <1>1 DEF InLine
  <1>8. PICK dropped : Grown(Items(q, path), m, Items(q1, new), Len(new),
                             Scattered(s), dropped, Len(Scattered(s)))
    BY <1>1, <1>3, <1>7 DEF Fed, InLine
  <1>9. \E n1 \in Nat : \E line1 :
           /\ Line(line1, n1, deliv, d, lp, l, packet, Items(q1, new), Len(new))
           /\ Ordered(line1, n1, fs \ {f})
    BY <1>2, <1>4, <1>5, <1>6, <1>8, LineGrows
  <1>10. d = Len(deliv) /\ l = Len(lp)
    BY <1>1 DEF InLine
  <1> QED BY <1>7, <1>9, <1>10 DEF Flow

\* The line when the loopback device has handed out its first unit and the unit
\* is gone.
LEMMA LoopCut ==
  ASSUME NEW q, NEW fs, NEW deliv, NEW lp \in Seq(FrameType), lp # <<>>, NEW packet,
         NEW path, NEW n, NEW line, NEW d, NEW l, NEW m, NEW b,
         InLine(q, fs, deliv, lp, packet, path, n, line, d, l, m, b)
  PROVE  /\ d + 1 \in 1..n /\ line[d + 1] = Head(lp) /\ n - 1 \in Nat
         /\ l - 1 \in Nat /\ b - 1 \in Nat /\ Len(Tail(lp)) = l - 1
         /\ \E line1 :
              /\ Cut(line1, line, n, d + 1) /\ Ordered(line1, n - 1, fs)
              /\ LineAt(line1, n - 1, deliv, d, Tail(lp), l - 1, packet,
                        Items(q, path), m, b - 1)
  <1>1. n \in Nat /\ d \in Nat /\ l \in Nat /\ m \in Nat /\ b \in Nat
        /\ n = b + m /\ d + l <= b /\ l = Len(lp)
    BY DEF InLine
  <1>2. PICK rest \in Seq(FrameType) : rest = Tail(lp)
    <2>1. Tail(lp) \in Seq(FrameType)
      OBVIOUS
    <2> QED BY <2>1
  <1>3. l > 0 /\ Len(rest) = l - 1 /\ Head(lp) = lp[1]
        /\ \A i \in 1..(l - 1) : rest[i] = lp[i + 1]
    BY <1>1, <1>2
  <1>4. d + 1 \in 1..n /\ 1 \in 1..l /\ n - 1 \in Nat /\ l - 1 \in Nat /\ b - 1 \in Nat
    <2>1. l > 0
      BY <1>3
    <2> QED BY <1>1, <2>1
  <1>5. line[d + 1] = Head(lp)
    BY <1>3, <1>4 DEF InLine
  <1>6. PICK line1 : line1 = [i \in 1..(n - 1) |-> IF i < d + 1 THEN line[i] ELSE line[i + 1]]
    OBVIOUS
  <1>7. Cut(line1, line, n, d + 1)
    BY <1>6 DEF Cut
  <1>8. Ordered(line1, n - 1, fs)
    BY <1>1, <1>4, <1>7, LineWithout DEF InLine
  <1>9. PICK items : items = Items(q, path)
    OBVIOUS
  <1>10. LineAt(line1, n - 1, deliv, d, rest, l - 1, packet, items, m, b - 1)
    <2>1. line1 \in [1..(n - 1) -> Units]
      <3>1. \A i \in 1..(n - 1) : line1[i] \in Units
        BY <1>8, OrderedUnits
      <3> QED BY <1>6, <3>1
    <2>2. (packet = None => b - 1 = d + (l - 1))
          /\ (packet # None => b - 1 = d + (l - 1) + 1)
          /\ n - 1 = (b - 1) + m /\ d + (l - 1) <= b - 1
      <3>1. (packet = None => b = d + l) /\ (packet # None => b = d + l + 1)
        BY DEF InLine
      <3> QED BY <1>1, <3>1
    <2>3. ASSUME packet # None PROVE line1[b - 1] = packet
      <3>1. b = d + l + 1 /\ line[b] = packet
        BY <2>3 DEF InLine
      <3>2. l > 0
        BY <1>3
      <3>3. b - 1 \in 1..(n - 1) /\ ~(b - 1 < d + 1) /\ (b - 1) + 1 = b
        BY <1>1, <3>1, <3>2
      <3> QED BY <1>7, <3>1, <3>3 DEF Cut
    <2>4. ASSUME NEW i \in 1..d
          PROVE  line1[i].proto = "udp" /\ line1[i].parts[1][1] = deliv[i]
      <3>1. i \in 1..(n - 1) /\ i < d + 1
        BY <1>1, <1>4
      <3>2. line1[i] = line[i]
        BY <1>7, <3>1 DEF Cut
      <3> QED BY <3>2 DEF InLine
    <2>5. ASSUME NEW i \in 1..(l - 1) PROVE line1[d + i] = rest[i]
      <3>1. d + i \in 1..(n - 1) /\ ~(d + i < d + 1) /\ (d + i) + 1 = d + (i + 1)
            /\ i + 1 \in 1..l
        BY <1>1
      <3>2. line1[d + i] = line[d + (i + 1)]
        BY <1>7, <3>1 DEF Cut
      <3>3. rest[i] = lp[i + 1]
        BY <1>3
      <3> QED BY <3>1, <3>2, <3>3 DEF InLine
    <2>6. ASSUME NEW i \in 1..m PROVE line1[(b - 1) + i] = items[i]
      <3>1. l > 0
        BY <1>3
      <3>2. (b - 1) + i \in 1..(n - 1) /\ ~((b - 1) + i < d + 1) /\ ((b - 1) + i) + 1 = b + i
        BY <1>1, <3>1
      <3>3. line1[(b - 1) + i] = line[b + i]
        BY <1>7, <3>2 DEF Cut
      <3> QED BY <1>9, <3>3 DEF InLine
    <2> QED BY <2>1, <2>2, <2>3, <2>4, <2>5, <2>6 DEF LineAt
  <1> QED BY <1>2, <1>3, <1>4, <1>5, <1>7, <1>8, <1>9, <1>10

\* The hook has dropped, or is halted at, what came back.
LEMMA FlowLoopLost ==
  ASSUME NEW q, NEW fs, NEW deliv \in Seq(PacketType), NEW lp \in Seq(FrameType),
         lp # <<>>, NEW packet, Flow(q, fs, deliv, lp, packet)
  PROVE  Flow(q, fs, deliv, Tail(lp), packet)
  <1>1. PICK path, n, line, d, l, m, b :
           InLine(q, fs, deliv, lp, packet, path, n, line, d, l, m, b)
    BY FlowInLine
  <1>2. n - 1 \in Nat /\ l - 1 \in Nat /\ b - 1 \in Nat /\ Len(Tail(lp)) = l - 1
    BY <1>1, LoopCut
  <1>3. PICK line1 :
          /\ Ordered(line1, n - 1, fs)
          /\ LineAt(line1, n - 1, deliv, d, Tail(lp), l - 1, packet, Items(q, path),
                    m, b - 1)
    BY <1>1, LoopCut
  <1>4. d \in Nat /\ m \in Nat /\ Linked(q, path) /\ d = Len(deliv) /\ m = Len(path)
    BY <1>1 DEF InLine
  <1> QED BY <1>2, <1>3, <1>4, FlowBy

\* A packet that came back goes to the receiver.
LEMMA FlowLoopDelivers ==
  ASSUME NEW q, NEW fs, NEW deliv \in Seq(PacketType), NEW lp \in Seq(FrameType),
         lp # <<>>, NEW packet, Flow(q, fs, deliv, lp, packet), Head(lp).proto = "udp"
  PROVE  Flow(q, fs, Append(deliv, Head(lp).parts[1][1]), Tail(lp), packet)
  <1>1. PICK path, n, line, d, l, m, b :
           InLine(q, fs, deliv, lp, packet, path, n, line, d, l, m, b)
    BY FlowInLine
  <1>2. n \in Nat /\ d \in Nat /\ l \in Nat /\ m \in Nat /\ b \in Nat
        /\ n = b + m /\ d + l <= b /\ d = Len(deliv)
    BY <1>1 DEF InLine
  <1>3. l - 1 \in Nat /\ Len(Tail(lp)) = l - 1 /\ line[d + 1] = Head(lp) /\ d + 1 \in Nat
    BY SMTT(30), <1>1, <1>2, LoopCut
  <1>4. PICK deliv1 : deliv1 = Append(deliv, Head(lp).parts[1][1])
    OBVIOUS
  <1>5. Len(deliv1) = d + 1 /\ deliv1[d + 1] = Head(lp).parts[1][1]
        /\ \A i \in 1..d : deliv1[i] = deliv[i]
    BY <1>2, <1>4
  <1>6. PICK items : items = Items(q, path)
    OBVIOUS
  <1>7. PICK rest : rest = Tail(lp) /\ \A i \in 1..(l - 1) : rest[i] = lp[i + 1]
    <2>1. l = Len(lp)
      BY <1>1 DEF InLine
    <2>2. \A i \in 1..(l - 1) : Tail(lp)[i] = lp[i + 1]
      BY <2>1
    <2> QED BY <2>2
  <1>8. LineAt(line, n, deliv1, d + 1, rest, l - 1, packet, items, m, b)
    <2>1. line \in [1..n -> Units]
      BY <1>1 DEF InLine, Line
    <2>2. (packet = None => b = (d + 1) + (l - 1))
          /\ (packet # None => b = (d + 1) + (l - 1) + 1 /\ line[b] = packet)
          /\ n = b + m /\ (d + 1) + (l - 1) <= b
      <3>1. (packet = None => b = d + l)
            /\ (packet # None => b = d + l + 1 /\ line[b] = packet)
        BY <1>1 DEF InLine
      <3> QED BY <1>2, <3>1
    <2>3. ASSUME NEW i \in 1..(d + 1)
          PROVE  line[i].proto = "udp" /\ line[i].parts[1][1] = deliv1[i]
      <3>1. CASE i = d + 1
        BY <1>3, <1>5, <3>1
      <3>2. CASE i # d + 1
        <4>1. i \in 1..d
          BY <1>2, <3>2
        <4> QED BY <1>1, <1>5, <4>1 DEF InLine
      <3> QED BY <3>1, <3>2
    <2>4. ASSUME NEW i \in 1..(l - 1) PROVE line[(d + 1) + i] = rest[i]
      <3>1. (d + 1) + i = d + (i + 1) /\ i + 1 \in 1..l
        BY <1>2
      <3>2. line[d + (i + 1)] = lp[i + 1]
        BY <1>1, <3>1 DEF InLine
      <3> QED BY <1>7, <3>1, <3>2
    <2>5. \A i \in 1..m : line[b + i] = items[i]
      BY <1>1, <1>6 DEF InLine
    <2> QED BY <2>1, <2>2, <2>3, <2>4, <2>5 DEF LineAt
  <1>9. Linked(q, path) /\ m = Len(path) /\ Ordered(line, n, fs)
    BY <1>1 DEF InLine
  <1> QED BY <1>2, <1>3, <1>4, <1>5, <1>6, <1>7, <1>8, <1>9, FlowBy

\* An aggregate that came back is taken apart, and its packets go behind the
\* others.
LEMMA FlowLoopFed ==
  ASSUME NEW q, NEW fs, NEW deliv \in Seq(PacketType), NEW lp \in Seq(FrameType),
         lp # <<>>, NEW packet, Flow(q, fs, deliv, lp, packet), Head(lp).proto # "udp",
         NEW q1,
         \A path : Linked(q, path) =>
            \E new : Linked(q1, new) /\ Fed(q, path, Head(lp), q1, new)
  PROVE  Flow(q1, fs, deliv, Tail(lp), packet)
  <1>1. PICK path, n, line, d, l, m, b :
           InLine(q, fs, deliv, lp, packet, path, n, line, d, l, m, b)
    BY FlowInLine
  <1>2. PICK u : u = Head(lp)
    OBVIOUS
  <1>3. d + 1 \in 1..n /\ line[d + 1] = u /\ n - 1 \in Nat /\ l - 1 \in Nat
        /\ b - 1 \in Nat /\ Len(Tail(lp)) = l - 1
    BY <1>1, <1>2, LoopCut
  <1>4. PICK line1 :
          /\ Cut(line1, line, n, d + 1) /\ Ordered(line1, n - 1, fs)
          /\ LineAt(line1, n - 1, deliv, d, Tail(lp), l - 1, packet, Items(q, path),
                    m, b - 1)
    BY <1>1, LoopCut
  <1>5. n \in Nat /\ d \in Nat /\ m \in Nat /\ Linked(q, path) /\ Ordered(line, n, fs)
        /\ d = Len(deliv) /\ m = Len(path)
    BY <1>1 DEF InLine
  <1>6. Valid(u, fs) /\ u.proto = "app" /\ u \in FrameType /\ Len(u.parts) = 1
    <2>1. Valid(u, fs)
      BY <1>3, <1>5 DEF Ordered
    <2> QED BY <1>2, <2>1 DEF Valid, Units, FrameType
  <1>7. PICK s \in Seq(FrameType) : s = Pieces(u)
    BY <1>6, PiecesParts
  <1>8. Stackable(s, fs) /\ \A k \in DOMAIN s : s[k].proto = "udp" /\ Of(s[k]) \subseteq Of(u)
    BY <1>6, <1>7, NestedPieces
  <1>9. Behind(line1, n - 1, s)
    <2> SUFFICES ASSUME NEW i \in 1..(n - 1), NEW k \in DOMAIN s
                 PROVE  /\ Apart(line1[i], s[k]) /\ Apart(s[k], line1[i])
                        /\ InTurn(line1[i], s[k])
      BY DEF Behind
    <2>1. PICK j \in 1..n : line1[i] = line[j] /\ j # d + 1
                            /\ (j < d + 1 => j \in 1..d)
      <3>1. CASE i < d + 1
        <4>1. i \in 1..n /\ i # d + 1 /\ i \in 1..d
          BY <1>5, <3>1
        <4> QED BY <1>4, <3>1, <4>1 DEF Cut
      <3>2. CASE ~(i < d + 1)
        <4>1. i + 1 \in 1..n /\ i + 1 # d + 1 /\ ~(i + 1 < d + 1)
          BY <1>5, <3>2
        <4> QED BY <1>4, <3>2, <4>1 DEF Cut
      <3> QED BY <3>1, <3>2
    <2>2. PICK v : v = line[j]
      OBVIOUS
    <2>3. Apart(v, u) /\ Apart(u, v)
      BY <1>3, <1>5, <2>1, <2>2 DEF Ordered
    <2>4. v.proto = "app" => InTurn(u, v)
      <3>1. CASE j < d + 1
        BY <1>1, <2>1, <2>2, <3>1 DEF InLine
      <3>2. CASE ~(j < d + 1)
        <4>1. d + 1 < j
          BY <1>5, <2>1, <3>2
        <4> QED BY <1>3, <1>5, <2>2, <4>1 DEF Ordered
      <3> QED BY <3>1, <3>2
    <2>5. s[k].proto = "udp" /\ \A p \in Of(s[k]) : p \in Of(u)
      BY <1>8
    <2>6. Apart(v, s[k])
      BY <2>3, <2>5 DEF Apart
    <2>7. Apart(s[k], v)
      <3> SUFFICES ASSUME NEW p \in Of(s[k]), NEW r \in Of(v)
                   PROVE  /\ p # r
                          /\ /\ v.proto = "app" /\ FrameOf(p) = FrameOf(r)
                             /\ Nested(p) = Nested(r)
                             => PushedBefore(p, r)
        BY DEF Apart
      <3>1. p # r
        BY <2>3, <2>5 DEF Apart
      <3> QED BY <1>6, <2>4, <2>5, <3>1 DEF InTurn
    <2>8. InTurn(v, s[k])
      <3> SUFFICES ASSUME v.proto = "udp", NEW r \in Of(v), NEW p \in Of(s[k]),
                          FrameOf(r) = FrameOf(p), Nested(r) = Nested(p)
                   PROVE  PushedBefore(r, p)
        BY <2>5 DEF InTurn
      <3> QED BY <1>6, <2>3, <2>5 DEF Apart
    <2> QED BY <2>1, <2>2, <2>6, <2>7, <2>8
  <1>10. PICK new : Linked(q1, new) /\ Fed(q, path, u, q1, new)
    BY <1>2, <1>5
  <1>11. PICK dropped : Grown(Items(q, path), m, Items(q1, new), Len(new),
                              Scattered(s), dropped, Len(Scattered(s)))
    BY <1>5, <1>7, <1>10 DEF Fed
  <1>12. Line(line1, n - 1, deliv, d, Tail(lp), l - 1, packet, Items(q, path), m)
    BY <1>3, <1>4, <1>5, LineFrom
  <1>13. \E n1 \in Nat : \E line2 :
           /\ Line(line2, n1, deliv, d, Tail(lp), l - 1, packet, Items(q1, new), Len(new))
           /\ Ordered(line2, n1, fs)
    BY <1>3, <1>4, <1>5, <1>8, <1>9, <1>11, <1>12, LineGrows
  <1> QED BY <1>3, <1>5, <1>10, <1>13 DEF Flow

\* The thread takes the next packet out of the queue.
LEMMA FlowTaken ==
  ASSUME NEW q, QueueType(q), ~q.stale, q.first # NULL, NEW fs,
         NEW deliv \in Seq(PacketType), NEW lp \in Seq(FrameType),
         Flow(q, fs, deliv, lp, None)
  PROVE  /\ QueueType(Dequeue(q)) /\ ~Dequeue(q).stale
         /\ q.heap[q.last].data \in FrameType
         /\ Flow(Dequeue(q), fs, deliv, lp, q.heap[q.last].data)
  <1>1. PICK path, n, line, d, l, m, b :
           InLine(q, fs, deliv, lp, None, path, n, line, d, l, m, b)
    BY FlowInLine
  <1>2. n \in Nat /\ d \in Nat /\ l \in Nat /\ m \in Nat /\ b \in Nat
        /\ n = b + m /\ b = d + l /\ d = Len(deliv) /\ l = Len(lp)
        /\ m = Len(path) /\ Linked(q, path) /\ Ordered(line, n, fs)
    BY <1>1 DEF InLine
  <1>3. /\ QueueType(Dequeue(q)) /\ ~Dequeue(q).stale
        /\ Linked(Dequeue(q), Tail(path)) /\ m > 0
        /\ q.heap[q.last].data = Items(q, path)[1]
        /\ \A i \in 1..(m - 1) : Items(Dequeue(q), Tail(path))[i] = Items(q, path)[i + 1]
    BY <1>2, DequeueLinked
  <1>4. PICK x : x = q.heap[q.last].data /\ line[b + 1] = x
    <2>1. 1 \in 1..m
      BY <1>2, <1>3
    <2> QED BY <1>1, <1>3, <2>1 DEF InLine
  <1>5. x \in FrameType /\ x # None
    <2>1. b + 1 \in 1..n
      BY <1>2, <1>3
    <2>2. x \in Units
      BY <1>1, <1>4, <2>1 DEF InLine
    <2>3. x \in FrameType
      BY <2>2 DEF Units
    <2> QED BY <2>3, NotNone
  <1>6. PICK items : /\ items = Items(Dequeue(q), Tail(path))
                     /\ \A i \in 1..(m - 1) : items[i] = Items(q, path)[i + 1]
    BY <1>3
  <1>7. Len(Tail(path)) = m - 1 /\ m - 1 \in Nat /\ b + 1 \in Nat
    <2>1. path \in Seq(Addr) /\ path # <<>>
      BY <1>2, <1>3 DEF Linked
    <2> QED BY <1>2, <1>3, <2>1
  <1>8. LineAt(line, n, deliv, d, lp, l, x, items, m - 1, b + 1)
    <2>1. line \in [1..n -> Units]
      BY <1>1 DEF InLine, Line
    <2>2. /\ x # None => b + 1 = d + l + 1 /\ line[b + 1] = x
          /\ n = (b + 1) + (m - 1) /\ d + l <= b + 1
      BY <1>2, <1>4
    <2>3. /\ \A i \in 1..d : line[i].proto = "udp" /\ line[i].parts[1][1] = deliv[i]
          /\ \A i \in 1..l : line[d + i] = lp[i]
      BY <1>1 DEF InLine
    <2>4. ASSUME NEW i \in 1..(m - 1) PROVE line[(b + 1) + i] = items[i]
      <3>1. (b + 1) + i = b + (i + 1) /\ i + 1 \in 1..m
        BY <1>2
      <3>2. line[b + (i + 1)] = Items(q, path)[i + 1]
        BY <1>1, <3>1 DEF InLine
      <3> QED BY <1>6, <3>1, <3>2
    <2> QED BY <1>5, <2>1, <2>2, <2>3, <2>4 DEF LineAt
  <1>9. Flow(Dequeue(q), fs, deliv, lp, x)
    BY <1>2, <1>3, <1>6, <1>7, <1>8, FlowBy
  <1> QED BY <1>3, <1>4, <1>5, <1>9

\* The thread sends it.
LEMMA FlowSent ==
  ASSUME NEW q, NEW fs, NEW deliv \in Seq(PacketType), NEW lp \in Seq(FrameType),
         NEW packet \in FrameType, packet # None, Flow(q, fs, deliv, lp, packet)
  PROVE  Flow(q, fs, deliv, Append(lp, packet), None)
  <1>1. PICK path, n, line, d, l, m, b :
           InLine(q, fs, deliv, lp, packet, path, n, line, d, l, m, b)
    BY FlowInLine
  <1>2. n \in Nat /\ d \in Nat /\ l \in Nat /\ m \in Nat /\ b \in Nat
        /\ n = b + m /\ b = d + l + 1 /\ line[b] = packet
        /\ d = Len(deliv) /\ l = Len(lp)
        /\ m = Len(path) /\ Linked(q, path) /\ Ordered(line, n, fs)
    BY <1>1 DEF InLine
  <1>3. PICK lp1 : lp1 = Append(lp, packet) /\ Len(lp1) = l + 1 /\ lp1[l + 1] = packet
                   /\ \A i \in 1..l : lp1[i] = lp[i]
    <2>1. Len(Append(lp, packet)) = l + 1 /\ Append(lp, packet)[l + 1] = packet
          /\ \A i \in 1..l : Append(lp, packet)[i] = lp[i]
      BY <1>2
    <2> QED BY <2>1
  <1>4. PICK items : items = Items(q, path)
    OBVIOUS
  <1>5. LineAt(line, n, deliv, d, lp1, l + 1, None, items, m, b)
    <2>1. line \in [1..n -> Units]
      BY <1>1 DEF InLine, Line
    <2>2. b = d + (l + 1) /\ n = b + m /\ d + (l + 1) <= b
      BY <1>2
    <2>3. /\ \A i \in 1..d : line[i].proto = "udp" /\ line[i].parts[1][1] = deliv[i]
          /\ \A i \in 1..m : line[b + i] = items[i]
      BY <1>1, <1>4 DEF InLine
    <2>4. ASSUME NEW i \in 1..(l + 1) PROVE line[d + i] = lp1[i]
      <3>1. CASE i = l + 1
        <4>1. d + i = b
          BY <1>2, <3>1
        <4> QED BY <1>2, <1>3, <3>1, <4>1
      <3>2. CASE i # l + 1
        <4>1. i \in 1..l
          BY <1>2, <3>2
        <4> QED BY <1>1, <1>3, <4>1 DEF InLine
      <3> QED BY <3>1, <3>2
    <2> QED BY <2>1, <2>2, <2>3, <2>4 DEF LineAt
  <1>6. l + 1 \in Nat
    BY <1>2
  <1> QED BY <1>2, <1>3, <1>4, <1>5, <1>6, FlowBy

\* Or it fails to.
LEMMA FlowUnsent ==
  ASSUME NEW q, NEW fs, NEW deliv \in Seq(PacketType), NEW lp \in Seq(FrameType),
         NEW packet \in FrameType, packet # None, Flow(q, fs, deliv, lp, packet)
  PROVE  Flow(q, fs, deliv, lp, None)
  <1>1. PICK path, n, line, d, l, m, b :
           InLine(q, fs, deliv, lp, packet, path, n, line, d, l, m, b)
    BY FlowInLine
  <1>2. n \in Nat /\ d \in Nat /\ l \in Nat /\ m \in Nat /\ b \in Nat
        /\ n = b + m /\ b = d + l + 1
        /\ d = Len(deliv) /\ l = Len(lp)
        /\ m = Len(path) /\ Linked(q, path) /\ Ordered(line, n, fs)
    BY <1>1 DEF InLine
  <1>3. b \in 1..n /\ n - 1 \in Nat /\ b - 1 \in Nat
    BY <1>2
  <1>4. PICK line1 : line1 = [i \in 1..(n - 1) |-> IF i < b THEN line[i] ELSE line[i + 1]]
    OBVIOUS
  <1>5. Cut(line1, line, n, b)
    BY <1>4 DEF Cut
  <1>6. Ordered(line1, n - 1, fs)
    BY <1>2, <1>3, <1>5, LineWithout
  <1>7. PICK items : items = Items(q, path)
    OBVIOUS
  <1>8. LineAt(line1, n - 1, deliv, d, lp, l, None, items, m, b - 1)
    <2>1. line1 \in [1..(n - 1) -> Units]
      <3>1. \A i \in 1..(n - 1) : line1[i] \in Units
        BY <1>6, OrderedUnits
      <3> QED BY <1>4, <3>1
    <2>2. b - 1 = d + l /\ n - 1 = (b - 1) + m /\ d + l <= b - 1
      BY <1>2
    <2>3. \A i \in 1..(d + l) : i \in 1..(n - 1) /\ i < b
      BY <1>2
    <2>4. \A i \in 1..(d + l) : line1[i] = line[i]
      BY <1>5, <2>3 DEF Cut
    <2>5. ASSUME NEW i \in 1..d
          PROVE  line1[i].proto = "udp" /\ line1[i].parts[1][1] = deliv[i]
      <3>1. i \in 1..(d + l)
        BY <1>2
      <3> QED BY <1>1, <2>4, <3>1 DEF InLine
    <2>6. ASSUME NEW i \in 1..l PROVE line1[d + i] = lp[i]
      <3>1. d + i \in 1..(d + l)
        BY <1>2
      <3> QED BY <1>1, <2>4, <3>1 DEF InLine
    <2>7. ASSUME NEW i \in 1..m PROVE line1[(b - 1) + i] = items[i]
      <3>1. (b - 1) + i \in 1..(n - 1) /\ ~((b - 1) + i < b) /\ ((b - 1) + i) + 1 = b + i
        BY <1>2
      <3>2. line1[(b - 1) + i] = line[b + i]
        BY <1>5, <3>1 DEF Cut
      <3> QED BY <1>1, <1>7, <3>2 DEF InLine
    <2> QED BY <2>1, <2>2, <2>5, <2>6, <2>7 DEF LineAt
  <1> QED BY <1>2, <1>3, <1>6, <1>7, <1>8, FlowBy

\* The unload frees the queue.
LEMMA FlowEmptied ==
  ASSUME NEW q, NEW fs, NEW deliv \in Seq(PacketType), NEW lp \in Seq(FrameType),
         NEW packet, Flow(q, fs, deliv, lp, packet)
  PROVE  Flow(Empty, fs, deliv, lp, packet)
  <1>1. PICK path, n, line, d, l, m, b :
           InLine(q, fs, deliv, lp, packet, path, n, line, d, l, m, b)
    BY FlowInLine
  <1>2. n \in Nat /\ d \in Nat /\ l \in Nat /\ m \in Nat /\ b \in Nat
        /\ n = b + m /\ d + l <= b /\ d = Len(deliv) /\ l = Len(lp)
        /\ Ordered(line, n, fs)
    BY <1>1 DEF InLine
  <1>3. PICK line1 : line1 = [i \in 1..b |-> line[i]]
    OBVIOUS
  <1>4. \A i \in 1..b : line1[i] = line[i] /\ i \in 1..n
    BY <1>2, <1>3
  <1>5. Ordered(line1, b, fs)
    <2>1. b \in 0..n
      BY <1>2
    <2> QED BY <1>2, <1>4, <2>1, LineUpTo
  <1>6. PICK items : items = Items(Empty, <<>>)
    OBVIOUS
  <1>7. LineAt(line1, b, deliv, d, lp, l, packet, items, 0, b)
    <2>1. line1 \in [1..b -> Units]
      <3>1. \A i \in 1..b : line1[i] \in Units
        BY <1>5, OrderedUnits
      <3> QED BY <1>3, <3>1
    <2>2. /\ packet = None => b = d + l
          /\ packet # None => b = d + l + 1 /\ line[b] = packet
      BY <1>1 DEF InLine
    <2>3. packet # None => b = d + l + 1 /\ line1[b] = packet
      BY <1>2, <1>4, <2>2
    <2>4. ASSUME NEW i \in 1..d
          PROVE  line1[i].proto = "udp" /\ line1[i].parts[1][1] = deliv[i]
      <3>1. i \in 1..b
        BY <1>2
      <3> QED BY <1>1, <1>4, <3>1 DEF InLine
    <2>5. ASSUME NEW i \in 1..l PROVE line1[d + i] = lp[i]
      <3>1. d + i \in 1..b
        BY <1>2
      <3> QED BY <1>1, <1>4, <3>1 DEF InLine
    <2>6. b = b + 0 /\ d + l <= b /\ \A i \in 1..0 : line1[b + i] = items[i]
      BY <1>2
    <2> QED BY <2>1, <2>2, <2>3, <2>4, <2>5, <2>6 DEF LineAt
  <1>8. Linked(Empty, <<>>) /\ 0 = Len(<<>>)
    BY EmptyLinked
  <1> QED BY <1>2, <1>5, <1>6, <1>7, <1>8, FlowBy

-----------------------------------------------------------------------------
(* The invariant.                                                          *)

\* A frame has a first packet.
LEMMA FirstPacket ==
  ASSUME NEW f \in FrameType
  PROVE  f.parts[1][1] \in PacketType
  <1>1. f.parts \in Some(Some(PacketType))
    BY DEF FrameType
  <1>2. f.parts[1] \in Some(PacketType)
    BY <1>1 DEF Some
  <1> QED BY <1>2 DEF Some

\* What comes back through the loopback device is a unit.
LEMMA HeadUnit ==
  ASSUME NEW q, NEW fs, NEW deliv \in Seq(PacketType), NEW lp \in Seq(FrameType),
         lp # <<>>, NEW packet, Flow(q, fs, deliv, lp, packet)
  PROVE  Head(lp) \in FrameType /\ Head(lp).proto # "ip" /\ Len(Head(lp).parts) = 1
  <1>1. PICK path, n, line, d, l, m, b :
           InLine(q, fs, deliv, lp, packet, path, n, line, d, l, m, b)
    BY FlowInLine
  <1>2. d + 1 \in 1..n /\ line[d + 1] = Head(lp)
    BY <1>1, LoopCut
  <1>3. Head(lp) \in Units
    BY <1>1, <1>2 DEF InLine
  <1> QED BY <1>3 DEF Units

\* The queue is sound.
LEMMA IInvSound == IInv => Sound(queue)
  BY DEF IInv, TypeOK, Flow, Sound

\* The load.
LEMMA IInvInit == Init => IInv
  <1> SUFFICES ASSUME Init PROVE IInv
    OBVIOUS
  <1>1. TypeOK
    <2>1. QueueType(queue)
      BY EmptyLinked DEF Init
    <2>2. faults \in 0..MaxFaults
      BY DeaggregationAssumption DEF Init
    <2>3. loop \in Seq(FrameType) /\ delivered \in Seq(PacketType)
      BY DEF Init
    <2>4. thread \in [pc : {"start", "top", "send", "dead", "ended"},
                      packet : FrameType \cup {None}]
      BY DEF Init
    <2> QED BY <2>1, <2>2, <2>3, <2>4 DEF TypeOK, Init
  <1>2. Flow(Empty, Frames, <<>>, <<>>, None)
    <2>1. PICK line : line = [i \in 1..0 |-> Empty]
      OBVIOUS
    <2>2. PICK items : items = Items(Empty, <<>>)
      OBVIOUS
    <2>3. LineAt(line, 0, <<>>, 0, <<>>, 0, None, items, 0, 0)
      BY <2>1 DEF LineAt
    <2>4. Ordered(line, 0, Frames)
      BY DEF Ordered
    <2>5. Linked(Empty, <<>>) /\ 0 = Len(<<>>)
      BY EmptyLinked
    <2> QED BY <2>2, <2>3, <2>4, <2>5, FlowBy
  <1>3. ~queue.stale
    BY EmptyLinked DEF Init
  <1> QED BY <1>1, <1>2, <1>3 DEF IInv, Init

\* The hook, for a frame that arrives.
LEMMA IInvArrive ==
  ASSUME IInv, NEW f \in Frames, Arrive(f)
  PROVE  IInv'
  <1>0. /\ TypeOK /\ ~queue.stale /\ Flow(queue, frames, delivered, loop, thread.packet)
        /\ f \in frames /\ frames' = frames \ {f} /\ UNCHANGED <<thread, loop, module>>
    BY DEF IInv, Arrive
  <1>1. f \in FrameType /\ (f.proto # "ip" => Len(f.parts) = 1)
    BY DeaggregationAssumption
  <1>2. Delivers(f) \/ Stops \/ Feeds(f)
    BY <1>0, <1>1, IInvSound, HookCases DEF Arrive
  <1>3. /\ frames \in SUBSET Frames /\ delivered \in Seq(PacketType)
        /\ loop \in Seq(FrameType) /\ frames' \subseteq Frames
    BY <1>0 DEF TypeOK
  <1>4. CASE Delivers(f)
    <2>1. Flow(queue, frames \ {f}, Append(delivered, f.parts[1][1]), loop, thread.packet)
      BY <1>0, <1>3, <1>4, FlowDelivers DEF Delivers
    <2>2. Flow(queue, frames, delivered, loop, thread.packet)'
      BY <1>0, <1>4, <2>1 DEF Delivers
    <2>3. delivered' \in Seq(PacketType)
      BY <1>1, <1>3, <1>4, FirstPacket DEF Delivers
    <2>4. TypeOK'
      BY <1>0, <1>3, <1>4, <2>3 DEF TypeOK, Delivers, QueueType
    <2> QED BY <1>0, <1>4, <2>2, <2>4 DEF IInv, Delivers
  <1>5. CASE Stops
    <2>1. Flow(queue, frames \ {f}, delivered, loop, thread.packet)
      <3>1. PICK path : /\ Linked(queue, path)
                        /\ \E n \in Nat : \E line :
                             /\ Line(line, n, delivered, Len(delivered), loop, Len(loop),
                                     thread.packet, Items(queue, path), Len(path))
                             /\ Ordered(line, n, frames)
        BY <1>0 DEF Flow
      <3>2. \A n, line : Ordered(line, n, frames) => Ordered(line, n, frames \ {f})
        BY OrderedLess
      <3> QED BY <3>1, <3>2 DEF Flow
    <2>2. Flow(queue, frames, delivered, loop, thread.packet)'
      BY <1>0, <1>5, <2>1 DEF Stops
    <2>3. TypeOK'
      BY <1>0, <1>3, <1>5 DEF TypeOK, Stops, QueueType
    <2> QED BY <1>0, <1>5, <2>2, <2>3 DEF IInv, Stops
  <1>6. CASE Feeds(f)
    <2>1. Flow(queue', frames \ {f}, delivered, loop, thread.packet)
      BY <1>0, <1>3, <1>6, FlowFed DEF Feeds
    <2>2. Flow(queue, frames, delivered, loop, thread.packet)'
      BY <1>0, <1>6, <2>1 DEF Feeds
    <2>3. QueueType(queue')
      BY <1>6 DEF Feeds
    <2>4. TypeOK'
      BY <1>0, <1>3, <1>6, <2>3 DEF TypeOK, Feeds
    <2> QED BY <1>0, <1>6, <2>2, <2>4 DEF IInv, Feeds
  <1> QED BY <1>2, <1>4, <1>5, <1>6

\* The hook, for what comes back through the loopback device.
LEMMA IInvLoopBack ==
  ASSUME IInv, LoopBack
  PROVE  IInv'
  <1>0. /\ TypeOK /\ ~queue.stale /\ Flow(queue, frames, delivered, loop, thread.packet)
        /\ loop # <<>> /\ loop' = Tail(loop) /\ UNCHANGED <<thread, frames, module>>
    BY DEF IInv, LoopBack
  <1>3. /\ delivered \in Seq(PacketType) /\ loop \in Seq(FrameType)
    BY <1>0 DEF TypeOK
  <1>30. loop' \in Seq(FrameType)
    BY <1>0, <1>3
  <1>1. PICK f \in FrameType : f = Head(loop) /\ f.proto # "ip" /\ Len(f.parts) = 1
    BY <1>0, <1>3, HeadUnit
  <1>2. Delivers(f) \/ Stops \/ Feeds(f)
    BY <1>0, <1>1, IInvSound, HookCases DEF LoopBack
  <1>4. CASE Delivers(f)
    <2>1. Flow(queue, frames, Append(delivered, f.parts[1][1]), Tail(loop), thread.packet)
      BY <1>0, <1>1, <1>3, <1>4, FlowLoopDelivers DEF Delivers
    <2>2. Flow(queue, frames, delivered, loop, thread.packet)'
      BY <1>0, <1>4, <2>1 DEF Delivers
    <2>3. delivered' \in Seq(PacketType)
      BY <1>1, <1>3, <1>4, FirstPacket DEF Delivers
    <2>4. TypeOK'
      BY <1>0, <1>30, <1>4, <2>3 DEF TypeOK, Delivers, QueueType
    <2> QED BY <1>0, <1>4, <2>2, <2>4 DEF IInv, Delivers
  <1>5. CASE Stops
    <2>1. Flow(queue, frames, delivered, Tail(loop), thread.packet)
      BY <1>0, <1>3, FlowLoopLost
    <2>2. Flow(queue, frames, delivered, loop, thread.packet)'
      BY <1>0, <1>5, <2>1 DEF Stops
    <2>3. TypeOK'
      BY <1>0, <1>30, <1>5 DEF TypeOK, Stops, QueueType
    <2> QED BY <1>0, <1>5, <2>2, <2>3 DEF IInv, Stops
  <1>6. CASE Feeds(f)
    <2>1. Flow(queue', frames, delivered, Tail(loop), thread.packet)
      BY <1>0, <1>1, <1>3, <1>6, FlowLoopFed DEF Feeds
    <2>2. Flow(queue, frames, delivered, loop, thread.packet)'
      BY <1>0, <1>6, <2>1 DEF Feeds
    <2>3. QueueType(queue')
      BY <1>6 DEF Feeds
    <2>4. TypeOK'
      BY <1>0, <1>30, <1>6, <2>3 DEF TypeOK, Feeds
    <2> QED BY <1>0, <1>6, <2>2, <2>4 DEF IInv, Feeds
  <1> QED BY <1>2, <1>4, <1>5, <1>6

\* The start of the thread.
LEMMA IInvThreadStarts ==
  ASSUME IInv, ThreadStarts
  PROVE  IInv'
  <1>1. /\ thread'.packet = thread.packet /\ thread.pc = "start" /\ thread'.pc # "send"
        /\ thread' \in [pc : {"start", "top", "send", "dead", "ended"},
                        packet : FrameType \cup {None}]
    BY DEF IInv, TypeOK, ThreadStarts
  <1>2. UNCHANGED <<frames, queue, loop, module, crashed, delivered, lost>>
    BY DEF ThreadStarts
  <1>3. faults' \in 0..MaxFaults
    BY DeaggregationAssumption DEF IInv, TypeOK, ThreadStarts, Fault
  <1>4. TypeOK'
    BY <1>1, <1>2, <1>3 DEF IInv, TypeOK, QueueType
  <1>5. Flow(queue, frames, delivered, loop, thread.packet)'
    BY <1>1, <1>2 DEF IInv
  <1> QED BY <1>1, <1>2, <1>4, <1>5 DEF IInv

\* What the thread does at the top of its loop.
LEMMA TurnTakes ==
  ASSUME IInv, Turn, module # "stopping"
  PROVE  /\ thread.packet = None /\ queue.first # NULL /\ queue' = Dequeue(queue)
         /\ QueueType(queue') /\ ~queue'.stale /\ crashed' = "no"
         /\ thread' = [pc |-> "send", packet |-> queue.heap[queue.last].data]
         /\ queue.heap[queue.last].data \in FrameType
         /\ Flow(queue', frames, delivered, loop, queue.heap[queue.last].data)
  <1>1. /\ thread.packet = None /\ queue.first # NULL /\ queue' = Dequeue(queue)
        /\ crashed' = IF Dequeue(queue).stale THEN "freed" ELSE "no"
        /\ thread' = IF Dequeue(queue).stale THEN thread
                     ELSE [pc |-> "send", packet |-> queue.heap[queue.last].data]
    BY DEF IInv, Turn
  <1>2. /\ QueueType(queue) /\ ~queue.stale /\ delivered \in Seq(PacketType)
        /\ loop \in Seq(FrameType) /\ Flow(queue, frames, delivered, loop, None)
    BY <1>1 DEF IInv, TypeOK
  <1>3. /\ QueueType(Dequeue(queue)) /\ ~Dequeue(queue).stale
        /\ queue.heap[queue.last].data \in FrameType
        /\ Flow(Dequeue(queue), frames, delivered, loop, queue.heap[queue.last].data)
    BY <1>1, <1>2, FlowTaken
  <1> QED BY <1>1, <1>3

\* The top of the loop.
LEMMA IInvTurn ==
  ASSUME IInv, Turn
  PROVE  IInv'
  <1>1. UNCHANGED <<frames, loop, module, delivered, lost, faults>> /\ thread.pc = "top"
    BY DEF Turn
  <1>2. CASE module = "stopping"
    <2>1. /\ UNCHANGED <<queue, crashed>> /\ thread'.packet = thread.packet
          /\ thread'.pc = "ended"
          /\ thread' \in [pc : {"start", "top", "send", "dead", "ended"},
                          packet : FrameType \cup {None}]
      BY <1>2 DEF IInv, TypeOK, Turn
    <2>2. TypeOK'
      BY <1>1, <2>1 DEF IInv, TypeOK, QueueType
    <2>3. Flow(queue, frames, delivered, loop, thread.packet)'
      BY <1>1, <2>1 DEF IInv
    <2> QED BY <1>1, <2>1, <2>2, <2>3 DEF IInv
  <1>3. CASE module # "stopping"
    <2>1. PICK x \in FrameType :
            /\ QueueType(queue') /\ ~queue'.stale /\ crashed' = "no"
            /\ thread' = [pc |-> "send", packet |-> x]
            /\ Flow(queue', frames, delivered, loop, x)
      BY <1>3, TurnTakes
    <2>2. /\ thread'.pc = "send" /\ thread'.packet = x /\ x # None
          /\ thread' \in [pc : {"start", "top", "send", "dead", "ended"},
                          packet : FrameType \cup {None}]
      BY <2>1, NotNone
    <2>3. TypeOK'
      BY <1>1, <2>1, <2>2 DEF IInv, TypeOK
    <2>4. Flow(queue, frames, delivered, loop, thread.packet)'
      BY <1>1, <2>1, <2>2
    <2> QED BY <2>1, <2>2, <2>3, <2>4 DEF IInv
  <1> QED BY <1>2, <1>3

\* The thread sends.
LEMMA IInvSendIt ==
  ASSUME IInv, SendIt
  PROVE  IInv'
  <1>1. /\ UNCHANGED <<frames, queue, module, crashed, delivered>>
        /\ thread' = [pc |-> "top", packet |-> None]
    BY DEF SendIt
  <1>2. PICK x \in FrameType : x = thread.packet /\ x # None
    BY DEF IInv, TypeOK, SendIt
  <1>3. /\ delivered \in Seq(PacketType) /\ loop \in Seq(FrameType)
        /\ Flow(queue, frames, delivered, loop, x)
    BY <1>2 DEF IInv, TypeOK
  <1>4. thread'.pc = "top" /\ thread'.packet = None
        /\ thread' \in [pc : {"start", "top", "send", "dead", "ended"},
                        packet : FrameType \cup {None}]
    BY <1>1
  <1>5. CASE loop' = Append(loop, thread.packet) /\ UNCHANGED <<lost, faults>>
    <2>1. Flow(queue, frames, delivered, Append(loop, x), None)
      BY <1>2, <1>3, FlowSent
    <2>2. Flow(queue, frames, delivered, loop, thread.packet)'
      BY <1>1, <1>2, <1>4, <1>5, <2>1
    <2>3. loop' \in Seq(FrameType)
      BY <1>2, <1>3, <1>5
    <2>4. TypeOK'
      BY <1>1, <1>4, <1>5, <2>3 DEF IInv, TypeOK, QueueType
    <2> QED BY <1>1, <1>4, <2>2, <2>4 DEF IInv
  <1>6. CASE /\ Fault /\ lost' = lost \cup PacketsIn(thread.packet.parts)
             /\ UNCHANGED loop
    <2>1. Flow(queue, frames, delivered, loop, None)
      BY <1>2, <1>3, FlowUnsent
    <2>2. Flow(queue, frames, delivered, loop, thread.packet)'
      BY <1>1, <1>4, <1>6, <2>1
    <2>3. faults' \in 0..MaxFaults
      BY <1>6, DeaggregationAssumption DEF IInv, TypeOK, Fault
    <2>4. lost' \subseteq DOMAIN Stamp
      <3>1. PacketsIn(x.parts) \subseteq DOMAIN Stamp
        BY <1>2, PacketsInType DEF FrameType
      <3> QED BY <1>2, <1>6, <3>1 DEF IInv, TypeOK
    <2>5. TypeOK'
      BY <1>1, <1>4, <1>6, <2>3, <2>4 DEF IInv, TypeOK, QueueType
    <2> QED BY <1>1, <1>4, <2>2, <2>5 DEF IInv
  <1> QED BY <1>5, <1>6 DEF SendIt

\* The unload.
LEMMA IInvUnload ==
  ASSUME IInv, StopInjectionThread \/ UnregisterInterceptor
  PROVE  IInv'
  <1>0. delivered \in Seq(PacketType) /\ loop \in Seq(FrameType)
    BY DEF IInv, TypeOK
  <1>1. CASE StopInjectionThread
    <2>1. UNCHANGED <<frames, thread, loop, delivered, faults>>
      BY <1>1 DEF StopInjectionThread
    <2>2. CASE /\ module' = "stopping" /\ queue' = Empty /\ UNCHANGED crashed
               /\ lost' = lost \cup UNION {PacketsIn(queue.heap[a].data.parts) :
                                             a \in DOMAIN queue.heap}
      <3>1. Flow(Empty, frames, delivered, loop, thread.packet)
        BY <1>0, FlowEmptied DEF IInv
      <3>2. Flow(queue, frames, delivered, loop, thread.packet)'
        BY <2>1, <2>2, <3>1
      <3>3. lost' \subseteq DOMAIN Stamp
        <4> SUFFICES ASSUME NEW a \in DOMAIN queue.heap
                     PROVE  PacketsIn(queue.heap[a].data.parts) \subseteq DOMAIN Stamp
          BY <2>2 DEF IInv, TypeOK
        <4>1. queue.heap[a] \in NodeType
          BY DEF IInv, TypeOK, QueueType
        <4>2. queue.heap[a].data.parts \in Some(Some(PacketType))
          BY <4>1 DEF NodeType, FrameType
        <4> QED BY <4>2, PacketsInType
      <3>4. QueueType(queue') /\ ~queue'.stale
        BY <2>2, EmptyLinked
      <3>5. TypeOK'
        BY <2>1, <2>2, <3>3, <3>4 DEF IInv, TypeOK
      <3> QED BY <2>1, <3>2, <3>4, <3>5 DEF IInv
    <2>3. CASE crashed' = "freed" /\ UNCHANGED <<module, queue, lost>>
      <3>1. Flow(queue, frames, delivered, loop, thread.packet)'
        BY <2>1, <2>3 DEF IInv
      <3>2. TypeOK'
        BY <2>1, <2>3 DEF IInv, TypeOK, QueueType
      <3> QED BY <2>1, <2>3, <3>1, <3>2 DEF IInv
    <2> QED BY <1>1, <2>2, <2>3 DEF StopInjectionThread
  <1>2. CASE UnregisterInterceptor
    <2>1. /\ UNCHANGED <<frames, queue, thread, loop, crashed, delivered, lost, faults>>
          /\ module' = "gone"
      BY <1>2 DEF UnregisterInterceptor
    <2>2. Flow(queue, frames, delivered, loop, thread.packet)'
      BY <2>1 DEF IInv
    <2>3. TypeOK'
      BY <2>1 DEF IInv, TypeOK, QueueType
    <2> QED BY <2>1, <2>2, <2>3 DEF IInv
  <1> QED BY <1>1, <1>2

\* IInv holds whatever the hook, the thread and the unload do (deaggregation.c,
\* injection_thread.c and spin_lock_queue.c).
THEOREM Invariant == Spec => []IInv
  <1>1. IInv /\ [Next]_vars => IInv'
    <2> SUFFICES ASSUME IInv, [Next]_vars PROVE IInv'
      OBVIOUS
    <2>1. CASE \E f \in Frames : Arrive(f)
      BY <2>1, IInvArrive
    <2>2. CASE LoopBack
      BY <2>2, IInvLoopBack
    <2>3. CASE Thread
      BY <2>3, IInvThreadStarts, IInvTurn, IInvSendIt DEF Thread
    <2>4. CASE StopInjectionThread \/ UnregisterInterceptor
      BY <2>4, IInvUnload
    <2>5. CASE UNCHANGED vars
      <3>1. Flow(queue, frames, delivered, loop, thread.packet)'
        BY <2>5 DEF IInv, vars
      <3>2. TypeOK'
        BY <2>5 DEF IInv, TypeOK, QueueType, vars
      <3> QED BY <2>5, <3>1, <3>2 DEF IInv, vars
    <2> QED BY <2>1, <2>2, <2>3, <2>4, <2>5 DEF Next
  <1> QED BY <1>1, IInvInit, PTL DEF Spec

\* The variables have their types (the structures of spin_lock_queue.h, the
\* packets of injection_thread.c).
THEOREM TypeCorrect == Spec => []TypeOK
  <1>1. IInv => TypeOK
    BY DEF IInv
  <1> QED BY <1>1, Invariant, PTL

\* Neither enqueue nor dequeue ever follows a pointer to a freed node, whatever
\* frames arrive and whatever memory there is (spin_lock_queue.c).
THEOREM NoStalePointers == Spec => []NoStalePointer
  <1>1. IInv => NoStalePointer
    BY DEF IInv, NoStalePointer
  <1> QED BY <1>1, Invariant, PTL

\* The packets of a frame reach the receiver once, in the order in which they
\* were pushed into it, whatever their stamps (the array of deaggregation.c, the
\* queue, the thread and the loopback device).
THEOREM OrderKept == Spec => []PushOrder
  <1>1. IInv => PushOrder
    <2> SUFFICES ASSUME IInv, NEW i \in DOMAIN delivered, NEW j \in DOMAIN delivered,
                        i < j, FrameOf(delivered[i].p) = FrameOf(delivered[j].p)
                 PROVE  /\ delivered[i].p # delivered[j].p
                        /\ Nested(delivered[i].p) = Nested(delivered[j].p) =>
                             PushedBefore(delivered[i].p, delivered[j].p)
      BY DEF PushOrder
    <2>1. delivered \in Seq(PacketType) /\ loop \in Seq(FrameType)
          /\ Flow(queue, frames, delivered, loop, thread.packet)
      BY DEF IInv, TypeOK
    <2>2. PICK path, n, line, d, l, m, b :
             InLine(queue, frames, delivered, loop, thread.packet,
                    path, n, line, d, l, m, b)
      BY <2>1, FlowInLine
    <2>3. n \in Nat /\ d \in Nat /\ l \in Nat /\ m \in Nat /\ b \in Nat
          /\ n = b + m /\ d + l <= b /\ Ordered(line, n, frames) /\ d = Len(delivered)
      BY <2>2 DEF InLine
    <2>4. i \in 1..d /\ j \in 1..d
      BY <2>1, <2>3
    <2>5. i \in 1..n /\ j \in 1..n /\ i # j
      BY <2>3, <2>4
    <2>6. ASSUME NEW k \in 1..d, k \in 1..n
          PROVE  line[k].proto = "udp" /\ delivered[k].p \in Of(line[k])
      <3>1. line[k].proto = "udp" /\ line[k].parts[1][1] = delivered[k]
        BY <2>2 DEF InLine
      <3>2. line[k] \in FrameType
        BY <2>2, <2>6 DEF InLine, Units
      <3>3. line[k].parts \in Some(Some(PacketType))
        BY <3>2 DEF FrameType
      <3>4. line[k].parts[1] \in Some(PacketType)
        BY <3>3 DEF Some
      <3>5. 1 \in DOMAIN line[k].parts[1]
        BY <3>4 DEF Some
      <3> QED BY <3>1, <3>5 DEF Of
    <2>7. Apart(line[i], line[j]) /\ InTurn(line[i], line[j])
      BY <2>3, <2>5 DEF Ordered
    <2>8. /\ line[i].proto = line[j].proto /\ delivered[i].p \in Of(line[i])
          /\ delivered[j].p \in Of(line[j])
      BY <2>4, <2>5, <2>6
    <2> QED BY <2>7, <2>8 DEF Apart, InTurn
  <1> QED BY <1>1, Invariant, PTL

-----------------------------------------------------------------------------
(* Refinement of the queue.                                                *)

\* What is on a path is a sequence of frames.
LEMMA ItemsSeq ==
  ASSUME NEW q, QueueType(q), NEW path, Linked(q, path)
  PROVE  Items(q, path) \in Seq(FrameType) /\ Len(Items(q, path)) = Len(path)
  <1>1. PICK m \in Nat : m = Len(path) /\ Chain(q, path, m)
    BY LinkedFacts
  <1>2. \A i \in 1..m : q.heap[path[i]].data \in FrameType
    <2>1. \A i \in 1..m : q.heap[path[i]] \in NodeType
      BY <1>1 DEF Chain, QueueType
    <2> QED BY <2>1 DEF NodeType
  <1>3. PICK s : s = [i \in 1..m |-> q.heap[path[i]].data] /\ s = Items(q, path)
    BY <1>1 DEF Items
  <1>4. s \in [1..m -> FrameType]
    BY <1>2, <1>3
  <1> QED BY <1>1, <1>3, <1>4

\* Two sequences, the second longer or not, that agree on the first.
LEMMA PrefixBy ==
  ASSUME NEW S, NEW s \in Seq(S), NEW t \in Seq(S), NEW c \in Nat,
         Len(t) = Len(s) + c, \A i \in 1..Len(s) : t[i] = s[i]
  PROVE  t = s \/ IsStrictPrefix(s, t)
  <1>1. PICK m \in Nat : m = Len(s)
    OBVIOUS
  <1>2. CASE c = 0
    BY <1>1, <1>2
  <1>3. CASE c > 0
    <2>1. m <= Len(t) /\ m # Len(t)
      BY <1>1, <1>3
    <2>2. SubSeq(s, 1, m) = s
      BY <1>1
    <2>3. SubSeq(t, 1, m) = s
      BY <1>1, <2>1
    <2> QED BY <1>1, <2>1, <2>2, <2>3 DEF IsStrictPrefix, IsPrefix
  <1> QED BY <1>2, <1>3

\* If neither the queue nor the thread's packet changes, nor does what they
\* stand for.
LEMMA QueueStutters ==
  ASSUME IInv, UNCHANGED <<queue, thread.packet>>
  PROVE  UNCHANGED <<Contents, thread.packet>>
  <1>1. PICK path : Linked(queue, path)
    BY DEF IInv, Flow
  <1>2. ContentsOnPath /\ ContentsOnPath'
    BY ContentsPath, PTL
  <1>3. Contents = Items(queue, path)
    BY <1>1, <1>2 DEF ContentsOnPath
  <1>4. Linked(queue', path)
    BY <1>1
  <1>5. Contents' = Items(queue', path)
    BY <1>2, <1>4 DEF ContentsOnPath
  <1> QED BY <1>3, <1>5

\* The hook adds to the end or leaves the queue alone.
LEMMA HookPuts ==
  ASSUME IInv, NEW f \in FrameType, f.proto # "ip" => Len(f.parts) = 1, Hook(f),
         UNCHANGED thread
  PROVE  [Abstract!Next]_<<Contents, thread.packet>>
  <1>1. Delivers(f) \/ Stops \/ Feeds(f)
    BY IInvSound, HookCases DEF IInv
  <1>2. CASE Delivers(f) \/ Stops
    BY <1>2, QueueStutters DEF Delivers, Stops
  <1>3. CASE Feeds(f)
    <2>1. PICK path : Linked(queue, path)
      BY DEF IInv, Flow
    <2>2. PICK new : Linked(queue', new) /\ Fed(queue, path, f, queue', new)
      BY <1>3, <2>1 DEF Feeds
    <2>3. ContentsOnPath /\ ContentsOnPath'
      BY ContentsPath, PTL
    <2>4. PICK s : s = Contents /\ s = Items(queue, path)
      BY <2>1, <2>3 DEF ContentsOnPath
    <2>5. PICK t : t = Contents' /\ t = Items(queue', new)
      BY <2>2, <2>3 DEF ContentsOnPath
    <2>6. s \in Seq(FrameType) /\ Len(s) = Len(path)
      BY <2>1, <2>4, ItemsSeq DEF IInv, TypeOK
    <2>7. t \in Seq(FrameType) /\ Len(t) = Len(new)
      BY <1>3, <2>2, <2>5, ItemsSeq DEF Feeds
    <2>8. PICK c \in Nat : Len(new) = Len(path) + c /\ \A i \in 1..Len(path) : t[i] = s[i]
      BY <2>2, <2>4, <2>5 DEF Fed, Grown
    <2>9. t = s \/ IsStrictPrefix(s, t)
      BY <2>6, <2>7, <2>8, PrefixBy
    <2>10. Abstract!IsStrictPrefix(s, t) <=> IsStrictPrefix(s, t)
      BY DEF IsStrictPrefix, IsPrefix, Abstract!IsStrictPrefix, Abstract!IsPrefix
    <2>11. thread'.packet = thread.packet
      OBVIOUS
    <2>12. CASE t = s
      BY <2>4, <2>5, <2>11, <2>12
    <2>13. CASE IsStrictPrefix(s, t)
      <3>1. Abstract!IsStrictPrefix(Contents, Contents')
        BY <2>4, <2>5, <2>10, <2>13
      <3> QED BY <2>11, <3>1 DEF Abstract!Next, Abstract!Put
    <2> QED BY <2>9, <2>12, <2>13
  <1> QED BY <1>1, <1>2, <1>3

\* The thread takes the front one.
LEMMA TurnGets ==
  ASSUME IInv, Turn
  PROVE  [Abstract!Next]_<<Contents, thread.packet>>
  <1>1. CASE module = "stopping"
    <2>1. UNCHANGED queue /\ thread'.packet = thread.packet
      BY <1>1 DEF IInv, TypeOK, Turn
    <2> QED BY <2>1, QueueStutters
  <1>2. CASE module # "stopping"
    <2>1. /\ thread.packet = None /\ queue.first # NULL /\ queue' = Dequeue(queue)
          /\ QueueType(queue') /\ thread'.packet = queue.heap[queue.last].data
      BY <1>2, TurnTakes
    <2>2. QueueType(queue) /\ ~queue.stale
      BY DEF IInv, TypeOK
    <2>3. PICK path : Linked(queue, path)
      BY DEF IInv, Flow
    <2>4. /\ Linked(queue', Tail(path)) /\ Len(path) > 0
          /\ queue.heap[queue.last].data = Items(queue, path)[1]
          /\ \A i \in 1..(Len(path) - 1) :
               Items(queue', Tail(path))[i] = Items(queue, path)[i + 1]
      BY <2>1, <2>2, <2>3, DequeueLinked
    <2>5. ContentsOnPath /\ ContentsOnPath'
      BY ContentsPath, PTL
    <2>6. PICK s : s = Contents /\ s = Items(queue, path)
      BY <2>3, <2>5 DEF ContentsOnPath
    <2>7. PICK t : t = Contents' /\ t = Items(queue', Tail(path))
      BY <2>4, <2>5 DEF ContentsOnPath
    <2>8. s \in Seq(FrameType) /\ Len(s) = Len(path)
      BY <2>2, <2>3, <2>6, ItemsSeq
    <2>9. t \in Seq(FrameType) /\ Len(t) = Len(Tail(path))
      <3>1. PICK q, rest : /\ q = queue' /\ rest = Tail(path) /\ QueueType(q)
                           /\ Linked(q, rest) /\ t = Items(q, rest)
        BY <2>1, <2>4, <2>7
      <3>2. Items(q, rest) \in Seq(FrameType) /\ Len(Items(q, rest)) = Len(rest)
        BY <3>1, ItemsSeq
      <3> QED BY <3>1, <3>2
    <2>10. PICK m \in Nat : m = Len(path) /\ m > 0 /\ Len(Tail(path)) = m - 1
      <3>1. path \in Seq(Addr) /\ path # <<>>
        BY <2>3, <2>4 DEF Linked
      <3> QED BY <2>4, <3>1
    <2>11. s # <<>> /\ Head(s) = s[1] /\ Tail(s) \in Seq(FrameType)
           /\ Len(Tail(s)) = m - 1 /\ \A i \in 1..(m - 1) : Tail(s)[i] = s[i + 1]
      BY <2>8, <2>10
    <2>12. \A i \in 1..(m - 1) : t[i] = s[i + 1]
      BY <2>4, <2>6, <2>7, <2>10
    <2>13. t = Tail(s)
      BY <2>9, <2>10, <2>11, <2>12
    <2>14. thread'.packet = Head(s)
      BY <2>1, <2>4, <2>6, <2>11
    <2> QED BY <2>1, <2>6, <2>7, <2>11, <2>13, <2>14 DEF Abstract!Next, Abstract!Get
  <1> QED BY <1>1, <1>2

\* It gives up what it holds, sent or not.
LEMMA SendItSends ==
  ASSUME IInv, SendIt
  PROVE  [Abstract!Next]_<<Contents, thread.packet>>
  <1>1. UNCHANGED queue /\ thread.packet # None /\ thread'.packet = None
    BY DEF IInv, SendIt
  <1>2. PICK path : Linked(queue, path)
    BY DEF IInv, Flow
  <1>3. ContentsOnPath /\ ContentsOnPath'
    BY ContentsPath, PTL
  <1>4. Contents = Items(queue, path)
    BY <1>2, <1>3 DEF ContentsOnPath
  <1>5. Linked(queue', path)
    BY <1>1, <1>2
  <1>6. Contents' = Items(queue', path)
    BY <1>3, <1>5 DEF ContentsOnPath
  <1> QED BY <1>1, <1>4, <1>6 DEF Abstract!Next, Abstract!Sent

\* The unload empties the queue or leaves it alone.
LEMMA StopDrops ==
  ASSUME IInv, StopInjectionThread
  PROVE  [Abstract!Next]_<<Contents, thread.packet>>
  <1>1. CASE UNCHANGED queue
    BY <1>1, QueueStutters DEF StopInjectionThread
  <1>2. CASE queue' = Empty
    <2>1. ContentsOnPath'
      BY ContentsPath, PTL
    <2>2. Linked(queue', <<>>)
      BY <1>2, EmptyLinked
    <2>3. Contents' = Items(queue', <<>>)
      BY <2>1, <2>2 DEF ContentsOnPath
    <2>4. Contents' = <<>>
      BY <2>3 DEF Items
    <2> QED BY <2>4 DEF StopInjectionThread, Abstract!Next, Abstract!Drop
  <1> QED BY <1>1, <1>2 DEF StopInjectionThread

\* Every step is one of the queue's, or changes nothing it can tell.
LEMMA QueueStep == IInv /\ [Next]_vars => [Abstract!Next]_<<Contents, thread.packet>>
  <1> SUFFICES ASSUME IInv, [Next]_vars
               PROVE  [Abstract!Next]_<<Contents, thread.packet>>
    OBVIOUS
  <1>1. ASSUME NEW f \in Frames, Arrive(f)
        PROVE  [Abstract!Next]_<<Contents, thread.packet>>
    <2>1. f \in FrameType /\ (f.proto # "ip" => Len(f.parts) = 1)
      BY DeaggregationAssumption
    <2> QED BY <1>1, <2>1, HookPuts DEF Arrive
  <1>2. CASE LoopBack
    <2>1. /\ loop # <<>> /\ loop \in Seq(FrameType) /\ delivered \in Seq(PacketType)
          /\ Flow(queue, frames, delivered, loop, thread.packet)
      BY <1>2 DEF IInv, TypeOK, LoopBack
    <2>2. Head(loop) \in FrameType /\ Len(Head(loop).parts) = 1
      BY <2>1, HeadUnit
    <2> QED BY <1>2, <2>2, HookPuts DEF LoopBack
  <1>3. CASE ThreadStarts
    <2>1. UNCHANGED queue /\ thread'.packet = thread.packet
      BY <1>3 DEF IInv, TypeOK, ThreadStarts
    <2> QED BY <2>1, QueueStutters
  <1>4. CASE UnregisterInterceptor \/ UNCHANGED vars
    BY <1>4, QueueStutters DEF UnregisterInterceptor, vars
  <1> QED BY <1>1, <1>2, <1>3, <1>4, TurnGets, SendItSends, StopDrops DEF Next, Thread

\* The linked nodes, with memory that is used again, are a queue between the
\* hook and the thread: whatever the hook puts in comes out once and in order
\* (spin_lock_queue.c).
THEOREM QueueRefinement == Spec => RefinesQueue
  <1>1. Init => Abstract!Init
    <2> SUFFICES ASSUME Init PROVE Abstract!Init
      OBVIOUS
    <2>1. Linked(queue, <<>>)
      BY EmptyLinked DEF Init
    <2>2. Contents = Items(queue, <<>>)
      BY <2>1, ContentsPath DEF ContentsOnPath
    <2>3. Contents = <<>>
      BY <2>2 DEF Items
    <2> QED BY <2>3 DEF Init, Abstract!Init
  <1> QED BY <1>1, QueueStep, Invariant, PTL
          DEF Spec, RefinesQueue, Abstract!Spec, Abstract!queueVars
=============================================================================
