--------------------- MODULE InterceptorFrameworkProofs ---------------------
(***************************************************************************)
(* Proofs about the interception framework, for any interceptors, chains,  *)
(* filters, priorities and number of rules.                                *)
(*                                                                         *)
(* The invariant gives every chain the sequence of filters it stands for,  *)
(* and says for each store of an operation which of the pointers first,    *)
(* last, front and back, and whether len, are ahead of that sequence.      *)
(***************************************************************************)
EXTENDS InterceptorFramework, FiniteSetTheorems, WellFoundedInduction, TLAPS

Adding == op.pc \in {"register", "insert_front", "insert_link", "count", "append"}
Removing == op.pc \in {"unregister", "uncount", "free"}
Inserting == op.pc \in {"insert_front", "insert_link"}

\* The rules whose filters may be in a chain.
Present(r) == r \in Range(manager_rule_list) \/ (Removing /\ r = op.rule)

\* How far the operation in progress has come with the filters of its rule.
Reached(f) ==
  f[1] = op.rule =>
    /\ Adding => f[2] < op.n \/ (op.pc = "count" /\ f[2] = op.n)
    /\ Removing => f[2] > op.n \/ (op.pc = "unregister" /\ f[2] = op.n)

\* The filters a chain holds.
Expected(c) ==
  {f \in Nodes : /\ Present(f[1]) /\ f[2] <= NumberOfFilters(f[1])
                 /\ At(f) = c /\ f \notin refused /\ Reached(f)}

OneToOne(s) == \A j, k \in DOMAIN s : s[j] = s[k] => j = k

\* The rules: numbered in the order of their creation, listed once, each with
\* an interceptor that is registered.
RulesOK ==
  /\ \A r \in Ids : r < id => owner[r] \in Interceptors
  /\ OneToOne(int_list) /\ OneToOne(manager_rule_list)
  /\ \A r \in Ids : Present(r) => r < id /\ owner[r] \in Range(int_list)

\* The operation: what it works on.
OpOK ==
  /\ op.pc = "idle" => op = Idle
  /\ Adding => /\ op.rule = id - 1 /\ op.rule \in Range(manager_rule_list)
               /\ op.n >= 1
               /\ op.pc # "register" => op.n <= NumberOfFilters(op.rule)
  /\ Removing => /\ op.rule < id /\ op.rule \notin Range(manager_rule_list)
                 /\ op.n >= 1
                 /\ op.pc # "unregister" => op.n <= NumberOfFilters(op.rule)

\* Nodes that no list has had yet.
Fresh(f) == f[1] >= id \/ (Adding /\ f[1] = op.rule /\ f[2] >= op.n
                           /\ ~(op.pc = "count" /\ f[2] = op.n))
FreshOK ==
  \A f \in Nodes : Fresh(f) =>
    /\ f \notin refused /\ back[f] = NULL
    /\ front[f] = (IF op.pc = "insert_link" /\ f = New THEN op.cur ELSE NULL)

\* Memory is given back only behind the filters that are still in a chain.
MemoryOK ==
  /\ \A f \in freed : /\ f[1] < id /\ f[1] \notin Range(manager_rule_list)
                      /\ Removing /\ f[1] = op.rule => f[2] < op.n
  /\ \A r \in freed_specs : r < id /\ r \notin Range(manager_rule_list)

\* x, or NULL for an end of the empty list.
EndOf(s, k) == IF s = <<>> THEN NULL ELSE s[k]

\* The pointers of chain c link the sequence s.
Linked(c, s) ==
  /\ \A k \in 1..(Len(s) - 1) : front[s[k]] = s[k + 1] /\ back[s[k + 1]] = s[k]
  /\ s # <<>> => back[s[1]] = NULL /\ front[s[Len(s)]] = NULL
  /\ last[c] = EndOf(s, Len(s))

\* A new head is stored in first before it is linked to the rest.
Heads(c, s) ==
  first[c] = IF Inserting /\ c = Chain /\ op.cur = s[1] THEN New ELSE EndOf(s, 1)

\* The counter is changed after an insertion and a removal, before an append.
Counts(c, s) ==
  len[c] = Len(s) + (IF op.pc \in {"append", "uncount"} /\ c = Chain THEN 1
                     ELSE IF op.pc = "count" /\ c = Chain THEN -1 ELSE 0)

\* Where the new filter goes.
Slot(s) ==
  /\ Inserting => \E k \in DOMAIN s :
                    /\ op.cur = s[k] /\ Outranks(New, s[k])
                    /\ \A j \in DOMAIN s : j < k => ~Outranks(New, s[j])
  /\ op.pc = "append" => \A k \in DOMAIN s : ~Outranks(New, s[k])
  /\ op.pc \in {"insert_front", "insert_link", "count"}
       => len[Chain] \in 1..(MAX_FILTERS_PER_CHAIN - 1)

Holds(c, s) ==
  /\ s \in Seq(Nodes) /\ Range(s) = Expected(c) /\ Ordered(s)
  /\ Linked(c, s) /\ Heads(c, s) /\ Counts(c, s)
  /\ op.pc \in {"insert_front", "insert_link", "count", "append"} /\ c = Chain
       => Slot(s)

ChainsOK == \A c \in Chains : \E s \in Seq(Nodes) : Holds(c, s)

IInv ==
  /\ TypeOK /\ RulesOK /\ OpOK /\ FreshOK /\ MemoryOK /\ ChainsOK
  /\ HooksReadLiveMemory /\ ListingFresh

-----------------------------------------------------------------------------
(* Induction, from the library's fact that < is well founded.              *)

\* A set of numbers that is not empty has a least element.
LEMMA LeastNat ==
  ASSUME NEW T, T \subseteq Nat, T # {}
  PROVE  \E x \in T : \A y \in T : x <= y
  <1>1. \E x \in T : \A y \in T : ~ (<<y, x>> \in OpToRel(<, Nat))
    BY NatLessThanWellFounded, WFMin
  <1>2. \A x, y \in Nat : <<y, x>> \in OpToRel(<, Nat) <=> y < x
    BY DEF OpToRel
  <1>3. \E x \in T : \A y \in T : ~(y < x)
    BY <1>1, <1>2, Zenon
  <1> QED BY <1>3

\* A set with 0 and the successor of each of its numbers has all of them.
LEMMA SetInduction ==
  ASSUME NEW S, 0 \in S, \A n \in Nat : n \in S => n + 1 \in S
  PROVE  Nat \subseteq S
  <1> SUFFICES ASSUME NEW T, T = Nat \ S, T # {} PROVE FALSE
    OBVIOUS
  <1>1. PICK x \in T : \A y \in T : x <= y
    BY LeastNat
  <1>2. x # 0 /\ x - 1 \in Nat /\ x - 1 \notin T
    BY <1>1
  <1> QED BY <1>1, <1>2

-----------------------------------------------------------------------------
(* Nodes and paths.                                                        *)

\* There are finitely many nodes.
LEMMA NodesFinite == IsFiniteSet(Nodes) /\ Cardinality(Nodes) \in Nat
  <1> DEFINE D == {DOMAIN FiltersOf[i] : i \in Interceptors}
             f == [i \in Interceptors |-> DOMAIN FiltersOf[i]]
  <1>1. IsFiniteSet(Ids)
    BY FS_Interval, FrameworkAssumption DEF Ids
  <1>2. f \in Surjection(Interceptors, D)
    BY DEF Surjection
  <1>3. IsFiniteSet(D)
    BY <1>2, FS_Surjection, FrameworkAssumption
  <1>4. \A T \in D : IsFiniteSet(T)
    <2> SUFFICES ASSUME NEW i \in Interceptors PROVE IsFiniteSet(DOMAIN FiltersOf[i])
      OBVIOUS
    <2>1. FiltersOf[i] \in Seq([at : Chains, priority : 0..255])
      BY FrameworkAssumption
    <2>2. PICK m \in Nat : DOMAIN FiltersOf[i] = 1..m
      BY <2>1
    <2> QED BY <2>2, FS_Interval
  <1>5. IsFiniteSet(Numbers)
    BY <1>3, <1>4, FS_UNION DEF Numbers
  <1>6. IsFiniteSet(Nodes)
    BY <1>1, <1>5, FS_Product DEF Nodes
  <1> QED BY <1>6, FS_CardinalityType

\* NULL is no node.
LEMMA NullNoNode == NULL \notin Nodes
  BY DEF NULL, Nodes

\* A sequence without repetition is no longer than there are nodes.
LEMMA ShortEnough ==
  ASSUME NEW s \in Seq(Nodes), OneToOne(s)
  PROVE  Len(s) <= Cardinality(Nodes)
  <1>1. s \in Injection(1..Len(s), Nodes)
    BY DEF Injection, IsInjective, OneToOne
  <1>2. PICK n \in Nat : n = Len(s)
    OBVIOUS
  <1>3. Cardinality(1..n) <= Cardinality(Nodes)
    BY <1>1, <1>2, NodesFinite, FS_Injection
  <1>4. Cardinality(1..n) = n
    <2>1. 1 \in Int /\ n \in Int
      OBVIOUS
    <2>2. Cardinality(1..n) = IF 1 > n THEN 0 ELSE n - 1 + 1
      BY <2>1, FS_Interval, Zenon
    <2> QED BY <2>2
  <1> QED BY <1>2, <1>3, <1>4

\* next leads through s and then nowhere.
Leads(next, s) ==
  /\ \A k \in 1..(Len(s) - 1) : next[s[k]] = s[k + 1]
  /\ s # <<>> => next[s[Len(s)]] = NULL

StepOf(p, next, k, y) ==
  IF k = 0 \/ y = NULL THEN <<>> ELSE <<y>> \o p[k - 1][next[y]]
Steps(next, m) ==
  {p \in [0..m -> [MaybeNode -> Seq(Nodes)]] :
     \A k \in 0..m : \A y \in MaybeNode : p[k][y] = StepOf(p, next, k, y)}

\* The recursion of Path has a solution.
LEMMA StepsExist ==
  ASSUME NEW next \in [Nodes -> MaybeNode], NEW m \in Nat
  PROVE  Steps(next, m) # {}
  <1> DEFINE S == {j \in Nat : Steps(next, j) # {}}
  <1>1. 0 \in S
    <2> DEFINE p == [k \in 0..0 |-> [y \in MaybeNode |-> <<>>]]
    <2>1. p \in [0..0 -> [MaybeNode -> Seq(Nodes)]]
      OBVIOUS
    <2>2. p \in Steps(next, 0)
      BY <2>1 DEF Steps, StepOf
    <2> QED BY <2>2
  <1>2. ASSUME NEW j \in Nat, j \in S PROVE j + 1 \in S
    <2>1. PICK q : q \in Steps(next, j)
      BY <1>2
    <2> DEFINE g == [y \in MaybeNode |-> IF y = NULL THEN <<>>
                                         ELSE <<y>> \o q[j][next[y]]]
               p == [k \in 0..(j + 1) |-> IF k <= j THEN q[k] ELSE g]
    <2>2. q \in [0..j -> [MaybeNode -> Seq(Nodes)]]
      BY <2>1 DEF Steps
    <2>3. g \in [MaybeNode -> Seq(Nodes)]
      <3> SUFFICES ASSUME NEW y \in Nodes PROVE <<y>> \o q[j][next[y]] \in Seq(Nodes)
        BY DEF MaybeNode
      <3>1. q[j] \in [MaybeNode -> Seq(Nodes)] /\ next[y] \in MaybeNode
        BY <2>2
      <3> QED BY <3>1
    <2>4. p \in [0..(j + 1) -> [MaybeNode -> Seq(Nodes)]]
      BY <2>2, <2>3
    <2>5. ASSUME NEW k \in 0..(j + 1), NEW y \in MaybeNode
          PROVE  p[k][y] = StepOf(p, next, k, y)
      <3>1. CASE k <= j
        <4>1. p[k] = q[k] /\ (k # 0 => p[k - 1] = q[k - 1])
          BY <3>1
        <4>2. q[k][y] = StepOf(q, next, k, y)
          BY <2>1, <3>1 DEF Steps
        <4> HIDE DEF p
        <4> QED BY <4>1, <4>2 DEF StepOf
      <3>2. CASE k = j + 1
        <4>1. p[k] = g /\ p[k - 1] = q[j]
          BY <3>2
        <4> HIDE DEF p
        <4> QED BY <4>1, <3>2 DEF StepOf
      <3> QED BY <3>1, <3>2
    <2>6. p \in Steps(next, j + 1)
      <3> HIDE DEF p
      <3> QED BY <2>4, <2>5 DEF Steps
    <2> QED BY <2>6
  <1>3. Nat \subseteq S
    <2> HIDE DEF S
    <2> QED BY <1>1, <1>2, SetInduction
  <1> QED BY <1>3

\* An iterator that starts at the first node of a linked sequence meets the
\* nodes of the sequence, whichever solution of the recursion is taken.
LEMMA PathIs ==
  ASSUME NEW next \in [Nodes -> MaybeNode], NEW s \in Seq(Nodes), OneToOne(s),
         Leads(next, s)
  PROVE  Path(next, EndOf(s, 1)) = s
  <1>1. PICK M \in Nat : M = Cardinality(Nodes) + 1 /\ Len(s) < M
    BY NodesFinite, ShortEnough
  <1> DEFINE Good(p) == p = [k \in 0..M |->
                                    [y \in MaybeNode |-> StepOf(p, next, k, y)]]
  <1>2. PICK p : p = CHOOSE f : Good(f)
    OBVIOUS
  <1>3. Path(next, EndOf(s, 1)) = p[M][EndOf(s, 1)]
    BY <1>1, <1>2 DEF Path, StepOf
  <1>4. \E f : Good(f)
    <2>1. PICK f : f \in Steps(next, M)
      BY StepsExist
    <2>2. Good(f)
      BY <2>1 DEF Steps
    <2> QED BY <2>2
  <1>5. Good(p)
    <2> HIDE DEF Good
    <2> QED BY <1>2, <1>4
  <1>6. ASSUME NEW k \in 0..M PROVE p[k][NULL] = <<>>
    BY <1>5 DEF MaybeNode, StepOf
  <1>7. ASSUME NEW k \in 1..M, NEW y \in Nodes
        PROVE  p[k][y] = <<y>> \o p[k - 1][next[y]]
    <2>1. p[k][y] = StepOf(p, next, k, y)
      <3>1. k \in 0..M /\ y \in MaybeNode
        BY DEF MaybeNode
      <3>2. p[k] = [z \in MaybeNode |-> StepOf(p, next, k, z)]
        BY <1>5, <3>1
      <3> QED BY <3>1, <3>2
    <2>2. k # 0 /\ y # NULL
      BY NullNoNode
    <2> QED BY <2>1, <2>2 DEF StepOf
  <1> HIDE DEF Good
  <1>8. PICK n \in Nat : n = Len(s)
    OBVIOUS
  <1> DEFINE Rest(j) == SubSeq(s, (n - j) + 1, n)
             From(j) == IF j = 0 THEN NULL ELSE s[(n - j) + 1]
             S == {j \in Nat : j <= n => \A k \in 0..M : k >= j =>
                                           p[k][From(j)] = Rest(j)}
  <1>9. 0 \in S
    <2>1. Rest(0) = <<>>
      BY <1>8
    <2> QED BY <2>1, <1>6
  <1>10. ASSUME NEW j \in Nat, j \in S PROVE j + 1 \in S
    <2> SUFFICES ASSUME j + 1 <= n, NEW k \in 0..M, k >= j + 1
                 PROVE  p[k][From(j + 1)] = Rest(j + 1)
      OBVIOUS
    <2>1. PICK y \in Nodes : y = s[n - j] /\ From(j + 1) = y
      BY <1>8
    <2>2. next[y] = From(j)
      <3>1. CASE j = 0
        BY <2>1, <3>1, <1>8 DEF Leads
      <3>2. CASE j # 0
        <4>1. n - j \in 1..(Len(s) - 1)
          BY <3>2, <1>8
        <4> QED BY <4>1, <2>1, <3>2 DEF Leads
      <3> QED BY <3>1, <3>2
    <2>3. p[k - 1][From(j)] = Rest(j)
      BY <1>10
    <2>4. p[k][y] = <<y>> \o Rest(j)
      <3> HIDE DEF From, Rest
      <3>1. k \in 1..M
        OBVIOUS
      <3>2. p[k][y] = <<y>> \o p[k - 1][next[y]]
        BY <3>1, <1>7
      <3> QED BY <2>2, <2>3, <3>2
    <2>5. <<y>> \o Rest(j) = Rest(j + 1)
      <3>1. Rest(j) \in Seq(Nodes) /\ Len(Rest(j)) = j
            /\ \A i \in 1..j : Rest(j)[i] = s[((n - j) + i)]
        BY <1>8
      <3>2. Rest(j + 1) \in Seq(Nodes) /\ Len(Rest(j + 1)) = j + 1
            /\ \A i \in 1..(j + 1) : Rest(j + 1)[i] = s[(n - (j + 1)) + i]
        BY <1>8
      <3> HIDE DEF Rest
      <3>3. PICK a \in Seq(Nodes) : a = <<y>> \o Rest(j)
        <4>1. <<y>> \o Rest(j) \in Seq(Nodes)
          BY <3>1
        <4> QED BY <4>1
      <3>4. Len(a) = j + 1 /\ a[1] = y /\ \A i \in 2..(j + 1) : a[i] = Rest(j)[i - 1]
        BY <3>1, <3>3
      <3>5. ASSUME NEW i \in 1..(j + 1) PROVE a[i] = Rest(j + 1)[i]
        <4>1. CASE i = 1
          BY <3>4, <3>2, <2>1, <4>1
        <4>2. CASE i # 1
          <5>1. a[i] = s[(n - j) + (i - 1)]
            BY <3>4, <3>1, <4>2
          <5> QED BY <5>1, <3>2
        <4> QED BY <4>1, <4>2
      <3>6. PICK b \in Seq(Nodes) : b = Rest(j + 1)
        BY <3>2
      <3>7. Len(a) = Len(b) /\ \A i \in 1..Len(a) : a[i] = b[i]
        BY <3>2, <3>4, <3>5, <3>6
      <3>8. a = b
        BY <3>7
      <3> QED BY <3>3, <3>6, <3>8
    <2> QED BY <2>1, <2>4, <2>5
  <1>11. n \in S
    <2> HIDE DEF S
    <2> QED BY <1>9, <1>10, SetInduction
  <1>12. p[M][From(n)] = Rest(n)
    BY <1>11, <1>1, <1>8
  <1>13. Rest(n) = s
    BY <1>8
  <1>14. From(n) = EndOf(s, 1)
    BY <1>8 DEF EndOf
  <1> QED BY <1>3, <1>12, <1>13, <1>14

-----------------------------------------------------------------------------
(* Sequences without repetition.                                           *)

\* One element more at the end.
LEMMA Appended ==
  ASSUME NEW S, NEW s \in Seq(S), NEW e \in S, OneToOne(s), e \notin Range(s)
  PROVE  /\ Append(s, e) \in Seq(S) /\ OneToOne(Append(s, e))
         /\ Range(Append(s, e)) = Range(s) \cup {e}
  <1>0. Append(s, e) \in Seq(S)
    OBVIOUS
  <1>1. PICK t \in Seq(S) : t = Append(s, e)
    BY <1>0
  <1>2. PICK n \in Nat : n = Len(s)
    OBVIOUS
  <1>3. /\ Len(t) = n + 1 /\ t[n + 1] = e /\ DOMAIN s = 1..n
        /\ DOMAIN t = 1..(n + 1) /\ \A k \in 1..n : t[k] = s[k]
    BY <1>1, <1>2
  <1>4. Range(t) = Range(s) \cup {e}
    <2>1. Range(t) \subseteq Range(s) \cup {e}
      BY <1>3 DEF Range
    <2>2. e \in Range(t)
      BY <1>3 DEF Range
    <2>3. Range(s) \subseteq Range(t)
      <3> SUFFICES ASSUME NEW k \in 1..n PROVE s[k] \in Range(t)
        BY <1>3 DEF Range
      <3>1. k \in DOMAIN t /\ t[k] = s[k]
        BY <1>3
      <3> QED BY <3>1 DEF Range
    <2> QED BY <2>1, <2>2, <2>3
  <1>5. OneToOne(t)
    BY <1>3 DEF Range, OneToOne
  <1> QED BY <1>1, <1>4, <1>5

\* t is s without the element at place k.
IsCut(t, s, k) ==
  /\ Len(t) = Len(s) - 1
  /\ \A j \in 1..(Len(s) - 1) : t[j] = IF j < k THEN s[j] ELSE s[j + 1]

\* RemoveAt takes the element at place k out.
LEMMA CutOut ==
  ASSUME NEW S, NEW s \in Seq(S), NEW k \in 1..Len(s)
  PROVE  RemoveAt(s, k) \in Seq(S) /\ IsCut(RemoveAt(s, k), s, k)
  <1>1. PICK n \in Nat : n = Len(s)
    OBVIOUS
  <1>0. SubSeq(s, 1, k - 1) \in Seq(S) /\ SubSeq(s, k + 1, n) \in Seq(S)
    BY <1>1
  <1>2. PICK a \in Seq(S) : a = SubSeq(s, 1, k - 1)
    BY <1>0
  <1>3. PICK b \in Seq(S) : b = SubSeq(s, k + 1, n)
    BY <1>0
  <1>4. Len(a) = k - 1 /\ \A j \in 1..(k - 1) : a[j] = s[j]
    BY <1>1, <1>2
  <1>5. Len(b) = n - k /\ \A j \in 1..(n - k) : b[j] = s[k + j]
    BY <1>1, <1>3
  <1>6. PICK t \in Seq(S) : t = a \o b
    <2>1. a \o b \in Seq(S)
      OBVIOUS
    <2> QED BY <2>1
  <1>7. RemoveAt(s, k) = t
    BY <1>1, <1>2, <1>3, <1>6 DEF RemoveAt
  <1>8. Len(t) = n - 1
    BY <1>1, <1>4, <1>5, <1>6
  <1>9. ASSUME NEW j \in 1..(n - 1) PROVE t[j] = IF j < k THEN s[j] ELSE s[j + 1]
    <2>1. CASE j < k
      BY <2>1, <1>1, <1>4, <1>6, <1>8
    <2>2. CASE ~(j < k)
      <3>1. t[j] = b[(j - k) + 1]
        BY <2>2, <1>1, <1>4, <1>5, <1>6, <1>8
      <3>2. (j - k) + 1 \in 1..(n - k) /\ k + ((j - k) + 1) = j + 1
        BY <2>2, <1>1
      <3>3. b[(j - k) + 1] = s[k + ((j - k) + 1)]
        BY <3>2, <1>5
      <3> QED BY <3>1, <3>2, <3>3, <2>2
    <2> QED BY <2>1, <2>2
  <1> QED BY <1>1, <1>7, <1>8, <1>9 DEF IsCut

\* What is left is the rest.
LEMMA CutRange ==
  ASSUME NEW S, NEW s \in Seq(S), NEW k \in 1..Len(s), OneToOne(s),
         NEW t \in Seq(S), IsCut(t, s, k)
  PROVE  OneToOne(t) /\ Range(t) = Range(s) \ {s[k]}
  <1>1. PICK n \in Nat : n = Len(s)
    OBVIOUS
  <1>2. /\ DOMAIN s = 1..n /\ DOMAIN t = 1..(n - 1) /\ k \in 1..n
        /\ \A j \in 1..(n - 1) : t[j] = IF j < k THEN s[j] ELSE s[j + 1]
    BY <1>1 DEF IsCut
  <1>3. OneToOne(t)
    <2> SUFFICES ASSUME NEW i \in 1..(n - 1), NEW j \in 1..(n - 1), t[i] = t[j]
                 PROVE  i = j
      BY <1>2 DEF OneToOne
    <2>1. PICK x \in 1..n : t[i] = s[x] /\ x = IF i < k THEN i ELSE i + 1
      BY <1>2
    <2>2. PICK y \in 1..n : t[j] = s[y] /\ y = IF j < k THEN j ELSE j + 1
      BY <1>2
    <2>3. x = y
      BY <2>1, <2>2, <1>2 DEF OneToOne
    <2> QED BY <2>1, <2>2, <2>3, <1>2
  <1>4. ASSUME NEW x \in Range(t) PROVE x \in Range(s) \ {s[k]}
    <2>1. PICK j \in 1..(n - 1) : x = t[j]
      BY <1>2 DEF Range
    <2>2. PICK i \in 1..n : x = s[i] /\ i # k
      BY <2>1, <1>2
    <2>3. s[i] # s[k]
      BY <2>2, <1>2 DEF OneToOne
    <2> QED BY <2>2, <2>3, <1>2 DEF Range
  <1>5. ASSUME NEW x \in Range(s) \ {s[k]} PROVE x \in Range(t)
    <2>1. PICK i \in 1..n : x = s[i] /\ i # k
      BY <1>2 DEF Range
    <2>2. PICK j \in 1..(n - 1) : j = IF i < k THEN i ELSE i - 1
      BY <2>1, <1>2
    <2>3. t[j] = s[i]
      BY <2>1, <2>2, <1>2
    <2> QED BY <2>1, <2>3, <1>2 DEF Range
  <1> QED BY <1>3, <1>4, <1>5

\* Where the first element that is e is.
LEMMA PlaceOf ==
  ASSUME NEW S, NEW s \in Seq(S), NEW e \in Range(s)
  PROVE  LET k == SelectInSeq(s, LAMBDA v : v = e)
         IN  k \in 1..Len(s) /\ s[k] = e
  <1> DEFINE I == {i \in 1..Len(s) : s[i] = e}
  <1>1. I # {} /\ I \subseteq Nat
    BY DEF Range
  <1>2. \E x \in I : \A y \in I : x <= y
    BY <1>1, LeastNat
  <1>3. Min(I) \in I
    BY <1>2 DEF Min
  <1> QED BY <1>1, <1>3 DEF SelectInSeq

\* RemoveFirst takes an element out of a list in which it is once.
LEMMA Without ==
  ASSUME NEW S, NEW s \in Seq(S), OneToOne(s), NEW e \in Range(s)
  PROVE  /\ RemoveFirst(s, e) \in Seq(S) /\ OneToOne(RemoveFirst(s, e))
         /\ Range(RemoveFirst(s, e)) = Range(s) \ {e}
  <1>1. PICK k \in 1..Len(s) : k = SelectInSeq(s, LAMBDA v : v = e) /\ s[k] = e
    BY PlaceOf
  <1>2. RemoveFirst(s, e) = RemoveAt(s, k)
    BY <1>1 DEF RemoveFirst
  <1>3. PICK t \in Seq(S) : t = RemoveAt(s, k)
    BY CutOut
  <1>4. IsCut(t, s, k)
    BY <1>3, CutOut
  <1>5. OneToOne(t) /\ Range(t) = Range(s) \ {s[k]}
    BY <1>4, CutRange
  <1> QED BY <1>1, <1>2, <1>3, <1>5

\* The rest of a list behind its head.
LEMMA Beheaded ==
  ASSUME NEW S, NEW s \in Seq(S), OneToOne(s), s # <<>>
  PROVE  /\ Head(s) \in Range(s)
         /\ Tail(s) \in Seq(S) /\ OneToOne(Tail(s))
         /\ Range(Tail(s)) = Range(s) \ {Head(s)}
  <1>0. Tail(s) \in Seq(S)
    OBVIOUS
  <1>1. PICK t \in Seq(S) : t = Tail(s)
    BY <1>0
  <1>2. 1 \in 1..Len(s) /\ Head(s) = s[1]
    OBVIOUS
  <1>3. IsCut(t, s, 1)
    BY <1>1 DEF IsCut
  <1>4. OneToOne(t) /\ Range(t) = Range(s) \ {s[1]}
    BY <1>2, <1>3, CutRange
  <1>5. s[1] \in Range(s)
    BY <1>2 DEF Range
  <1> QED BY <1>1, <1>2, <1>4, <1>5

\* t is s with e at place k.
IsPut(t, s, k, e) ==
  /\ Len(t) = Len(s) + 1 /\ t[k] = e
  /\ \A j \in 1..(Len(s) + 1) : j < k => t[j] = s[j]
  /\ \A j \in 1..(Len(s) + 1) : j > k => t[j] = s[j - 1]

\* A new element before place k, or at the end.
LEMMA PutIn ==
  ASSUME NEW S, NEW s \in Seq(S)
  PROVE  \A k \in 1..(Len(s) + 1) : \A e \in S :
           \E t \in Seq(S) : IsPut(t, s, k, e) /\ Range(t) = Range(s) \cup {e}
  <1> TAKE k \in 1..(Len(s) + 1)
  <1> TAKE e \in S
  <1>1. PICK n \in Nat : n = Len(s)
    OBVIOUS
  <1> DEFINE w == [j \in 1..(n + 1) |-> IF j < k THEN s[j] ELSE IF j = k THEN e
                                        ELSE s[j - 1]]
  <1>2. w \in Seq(S) /\ Len(w) = n + 1
    <2>1. \A j \in 1..(n + 1) : w[j] \in S
      BY <1>1
    <2>2. w \in [1..(n + 1) -> S]
      BY <2>1
    <2> HIDE DEF w
    <2>3. n + 1 \in Nat
      OBVIOUS
    <2> QED BY <2>2, <2>3
  <1>3. PICK t \in Seq(S) : t = w
    BY <1>2
  <1>4. /\ DOMAIN t = 1..(n + 1) /\ DOMAIN s = 1..n /\ k \in 1..(n + 1) /\ t[k] = e
        /\ \A j \in 1..(n + 1) : j < k => t[j] = s[j]
        /\ \A j \in 1..(n + 1) : j > k => t[j] = s[j - 1]
    BY <1>1, <1>2, <1>3
  <1>5. ASSUME NEW x \in Range(t) PROVE x \in Range(s) \cup {e}
    <2>1. PICK j \in 1..(n + 1) : x = t[j]
      BY <1>4 DEF Range
    <2>2. x = e \/ \E i \in 1..n : x = s[i]
      <3>1. CASE j < k
        BY <3>1, <2>1, <1>4
      <3>2. CASE j > k
        <4>1. j - 1 \in 1..n /\ x = s[j - 1]
          BY <3>2, <2>1, <1>4
        <4> QED BY <4>1
      <3>3. CASE j = k
        BY <3>3, <2>1, <1>4
      <3> QED BY <3>1, <3>2, <3>3
    <2> QED BY <2>2, <1>4 DEF Range
  <1>6. ASSUME NEW x \in Range(s) PROVE x \in Range(t)
    <2>1. PICK i \in 1..n : x = s[i]
      BY <1>4 DEF Range
    <2>2. PICK j \in 1..(n + 1) : j = IF i < k THEN i ELSE i + 1
      BY <1>4
    <2>3. t[j] = s[i]
      <3>1. CASE i < k
        BY <3>1, <2>2, <1>4
      <3>2. CASE ~(i < k)
        <4>1. j > k /\ j - 1 = i
          BY <3>2, <2>2, <1>4
        <4>2. t[j] = s[j - 1]
          BY <4>1, <1>4
        <4> QED BY <4>1, <4>2
      <3> QED BY <3>1, <3>2
    <2> QED BY <2>1, <2>3, <1>4 DEF Range
  <1>7. e \in Range(t)
    BY <1>4 DEF Range
  <1>8. Len(t) = Len(s) + 1
    BY <1>1, <1>2, <1>3
  <1> QED BY <1>1, <1>4, <1>5, <1>6, <1>7, <1>8 DEF IsPut

-----------------------------------------------------------------------------
(* What a state of the framework looks like.                               *)

Frame == TypeOK /\ RulesOK /\ OpOK

\* The filters of a rule that has been created are nodes with a chain and a
\* priority.
LEMMA RuleFilters ==
  ASSUME Frame, NEW r \in Ids, r < id
  PROVE  /\ owner[r] \in Interceptors /\ NumberOfFilters(r) \in Nat
         /\ \A n \in 1..NumberOfFilters(r) :
              /\ <<r, n>> \in Nodes /\ At(<<r, n>>) \in Chains
              /\ Priority(<<r, n>>) \in 0..255
  <1>1. owner[r] \in Interceptors
    BY DEF Frame, RulesOK
  <1>0. PICK R : R = [at : Chains, priority : 0..255]
    OBVIOUS
  <1>2. PICK F \in Seq(R) : F = FiltersOf[owner[r]]
    <2>1. FiltersOf[owner[r]] \in Seq(R)
      BY <1>0, <1>1, FrameworkAssumption
    <2> QED BY <2>1
  <1>3. NumberOfFilters(r) = Len(F) /\ Len(F) \in Nat
    BY <1>2 DEF NumberOfFilters
  <1>4. ASSUME NEW n \in 1..Len(F)
        PROVE  /\ <<r, n>> \in Nodes /\ At(<<r, n>>) \in Chains
               /\ Priority(<<r, n>>) \in 0..255
    <2>0. n \in DOMAIN F /\ F[n] \in R
      OBVIOUS
    <2>1. n \in DOMAIN FiltersOf[owner[r]] /\ F[n] \in [at : Chains, priority : 0..255]
      BY <1>0, <1>2, <2>0
    <2>2. n \in Numbers
      BY <2>1, <1>1 DEF Numbers
    <2>3. At(<<r, n>>) = F[n].at /\ Priority(<<r, n>>) = F[n].priority
      BY <1>2 DEF At, Priority
    <2> QED BY <2>1, <2>2, <2>3 DEF Nodes
  <1> QED BY <1>1, <1>3, <1>4

\* The components of a node.
LEMMA NodeParts ==
  ASSUME NEW f \in Nodes
  PROVE  f[1] \in Ids /\ f[2] \in Nat /\ f[2] >= 1 /\ f = <<f[1], f[2]>>
         /\ f[1] \in Int
  <1>1. f[1] \in Ids /\ f[2] \in Numbers /\ f = <<f[1], f[2]>>
    BY DEF Nodes
  <1>2. PICK i \in Interceptors : f[2] \in DOMAIN FiltersOf[i]
    BY <1>1 DEF Numbers
  <1>3. FiltersOf[i] \in Seq([at : Chains, priority : 0..255])
    BY FrameworkAssumption
  <1>4. f[2] \in Nat /\ f[2] >= 1
    BY <1>2, <1>3
  <1> QED BY <1>1, <1>4 DEF Ids

\* The filters of a chain have numbers and priorities.
LEMMA ChainFilters ==
  ASSUME Frame, NEW c, NEW f \in Expected(c)
  PROVE  f \in Nodes /\ f[1] < id /\ At(f) = c /\ Priority(f) \in Int
         /\ owner[f[1]] \in Range(int_list)
  <1>1. f \in Nodes /\ Present(f[1]) /\ f[2] <= NumberOfFilters(f[1]) /\ At(f) = c
    BY DEF Expected
  <1>2. f[1] \in Ids /\ f[2] \in Nat /\ f[2] >= 1 /\ f = <<f[1], f[2]>>
    BY <1>1, NodeParts
  <1>3. f[1] < id /\ owner[f[1]] \in Range(int_list)
    BY <1>1, <1>2 DEF Frame, RulesOK
  <1>4. NumberOfFilters(f[1]) \in Nat
        /\ \A n \in 1..NumberOfFilters(f[1]) : Priority(<<f[1], n>>) \in 0..255
    BY <1>2, <1>3, RuleFilters
  <1>5. Priority(<<f[1], f[2]>>) \in 0..255
    BY <1>1, <1>2, <1>4
  <1> QED BY <1>1, <1>2, <1>3, <1>5

\* The filter an operation works on.
LEMMA NewNode ==
  ASSUME Frame, Adding \/ Removing, op.n <= NumberOfFilters(op.rule)
  PROVE  New \in Nodes /\ Chain \in Chains /\ Priority(New) \in Int
         /\ op.rule \in Ids /\ op.rule < id /\ op.n \in Nat /\ op.n >= 1
  <1>1. op.rule \in Ids /\ op.n \in Nat /\ id \in Nat
    BY DEF Frame, TypeOK
  <1>2. op.rule < id /\ op.n >= 1
    BY <1>1 DEF Frame, OpOK, Adding, Removing
  <1>3. NumberOfFilters(op.rule) \in Nat
        /\ \A n \in 1..NumberOfFilters(op.rule) :
              /\ <<op.rule, n>> \in Nodes /\ At(<<op.rule, n>>) \in Chains
              /\ Priority(<<op.rule, n>>) \in 0..255
    BY <1>1, <1>2, RuleFilters
  <1>4. op.n \in 1..NumberOfFilters(op.rule)
    BY <1>1, <1>2, <1>3
  <1>5. <<op.rule, op.n>> \in Nodes /\ At(<<op.rule, op.n>>) \in Chains
        /\ Priority(<<op.rule, op.n>>) \in 0..255
    BY <1>3, <1>4
  <1> QED BY <1>1, <1>2, <1>5 DEF New, Chain

\* A chain in order has no filter twice.
LEMMA OrderedOneToOne ==
  ASSUME Frame, NEW c, NEW s \in Seq(Nodes), Range(s) = Expected(c), Ordered(s)
  PROVE  OneToOne(s)
  <1> SUFFICES ASSUME NEW j \in DOMAIN s, NEW k \in DOMAIN s, s[j] = s[k], j < k
               PROVE  FALSE
    BY DEF OneToOne
  <1>1. PICK f \in Nodes : f = s[j] /\ f \in Expected(c)
    BY DEF Range
  <1>2. Before(f, f)
    BY <1>1 DEF Ordered
  <1>3. Priority(f) \in Int
    BY <1>1, ChainFilters
  <1>4. f[1] \in Int /\ f[2] \in Nat
    BY NodeParts
  <1> QED BY <1>2, <1>3, <1>4 DEF Before

\* Whether first is ahead of the chain's sequence.
HeadIsNew(c, s) == Inserting /\ c = Chain /\ op.cur = s[1]

\* What an iterator meets on a chain, in both directions.
LEMMA ChainIs ==
  ASSUME Frame, NEW c \in Chains, NEW s, Holds(c, s)
  PROVE  /\ ~HeadIsNew(c, s) => Filters(c) = s
         /\ Path(back, last[c]) = Reverse(s)
         /\ OneToOne(s)
  <1>1. s \in Seq(Nodes) /\ Linked(c, s) /\ Heads(c, s) /\ OneToOne(s)
    BY OrderedOneToOne DEF Holds
  <1>2. front \in [Nodes -> MaybeNode] /\ back \in [Nodes -> MaybeNode]
    BY DEF Frame, TypeOK
  <1>3. ~HeadIsNew(c, s) => Filters(c) = s
    <2>1. Leads(front, s)
      BY <1>1 DEF Linked, Leads
    <2>2. Path(front, EndOf(s, 1)) = s
      BY <1>1, <1>2, <2>1, PathIs
    <2> QED BY <1>1, <2>2 DEF Heads, Filters, HeadIsNew
  <1>4. PICK n \in Nat : n = Len(s)
    BY <1>1
  <1>5. Reverse(s) \in Seq(Nodes) /\ Len(Reverse(s)) = n
        /\ \A j \in 1..n : Reverse(s)[j] = s[(n - j) + 1]
    BY <1>1, <1>4 DEF Reverse
  <1>6. PICK t \in Seq(Nodes) : t = Reverse(s)
    BY <1>5
  <1>7. DOMAIN t = 1..n /\ DOMAIN s = 1..n /\ \A j \in 1..n : t[j] = s[(n - j) + 1]
    BY <1>1, <1>4, <1>5, <1>6
  <1>8. OneToOne(t)
    <2> SUFFICES ASSUME NEW j \in 1..n, NEW k \in 1..n, t[j] = t[k] PROVE j = k
      BY <1>7 DEF OneToOne
    <2>1. (n - j) + 1 \in 1..n /\ (n - k) + 1 \in 1..n
      OBVIOUS
    <2>2. s[(n - j) + 1] = s[(n - k) + 1]
      BY <1>7
    <2>3. (n - j) + 1 = (n - k) + 1
      BY <2>1, <2>2, <1>1, <1>7 DEF OneToOne
    <2> QED BY <2>3
  <1>9. Leads(back, t)
    <2>1. ASSUME NEW k \in 1..(n - 1) PROVE back[t[k]] = t[k + 1]
      <3>1. PICK j \in 1..(n - 1) : j = n - k
        OBVIOUS
      <3>2. back[s[j + 1]] = s[j]
        BY <1>1, <1>4 DEF Linked
      <3>3. t[k] = s[j + 1] /\ t[k + 1] = s[j]
        BY <1>7, <3>1
      <3> QED BY <3>2, <3>3
    <2>2. t # <<>> => back[t[n]] = NULL
      <3> SUFFICES ASSUME n # 0 PROVE back[t[n]] = NULL
        BY <1>7
      <3>1. t[n] = s[1]
        BY <1>7
      <3>2. s # <<>>
        BY <1>4
      <3> QED BY <3>1, <3>2, <1>1 DEF Linked
    <2>3. Len(t) = n
      BY <1>5, <1>6
    <2> QED BY <2>1, <2>2, <2>3 DEF Leads
  <1>10. Path(back, EndOf(t, 1)) = t
    BY <1>2, <1>8, <1>9, PathIs
  <1>11. EndOf(t, 1) = last[c]
    <2>1. last[c] = EndOf(s, n)
      BY <1>1, <1>4 DEF Linked
    <2>2. CASE n = 0
      <3>1. s = <<>> /\ t = <<>>
        BY <2>2, <1>7
      <3> QED BY <3>1, <2>1 DEF EndOf
    <2>3. CASE n # 0
      <3>1. s # <<>> /\ t # <<>> /\ t[1] = s[n]
        BY <2>3, <1>7
      <3> QED BY <3>1, <2>1 DEF EndOf
    <2> QED BY <2>2, <2>3
  <1> QED BY <1>1, <1>3, <1>6, <1>10, <1>11

\* Where __register_filter stops.
LEMMA BehindIs ==
  ASSUME Frame, op.pc = "register", op.n <= NumberOfFilters(op.rule),
         NEW s, Holds(Chain, s)
  PROVE  /\ Filters(Chain) = s /\ Behind \in 0..Len(s)
         /\ Behind = 0 => \A k \in DOMAIN s : ~Outranks(New, s[k])
         /\ Behind # 0 => /\ Outranks(New, s[Behind])
                          /\ \A j \in DOMAIN s : j < Behind => ~Outranks(New, s[j])
  <1>1. Chain \in Chains
    BY NewNode DEF Adding
  <1>2. Filters(Chain) = s
    BY <1>1, ChainIs DEF HeadIsNew, Inserting
  <1>3. PICK n \in Nat : n = Len(s) /\ DOMAIN s = 1..n
    BY DEF Holds
  <1> DEFINE I == {k \in 1..n : Outranks(New, s[k])}
  <1>4. Behind = IF I # {} THEN Min(I) ELSE 0
    BY <1>2, <1>3 DEF Behind, SelectInSeq
  <1>5. I # {} => Min(I) \in I /\ \A k \in I : Min(I) <= k
    <2>1. I \subseteq Nat
      OBVIOUS
    <2>2. I # {} => \E x \in I : \A y \in I : x <= y
      BY <2>1, LeastNat
    <2> HIDE DEF I
    <2> QED BY <2>2 DEF Min
  <1>6. CASE I = {}
    BY <1>2, <1>3, <1>4, <1>6
  <1>7. CASE I # {}
    <2>1. PICK m \in 1..n : m = Behind /\ Outranks(New, s[m]) /\ \A k \in I : m <= k
      BY <1>4, <1>5, <1>7
    <2>2. \A j \in 1..n : j < m => ~Outranks(New, s[j])
      BY <2>1
    <2> QED BY <1>2, <1>3, <2>1, <2>2
  <1> QED BY <1>6, <1>7

-----------------------------------------------------------------------------
(* Types.                                                                  *)

\* Nothing is registered and no operation in progress.
LEMMA TypeInit == Init => TypeOK
  <1> SUFFICES ASSUME Init PROVE TypeOK
    OBVIOUS
  <1>1. 0 \in Ids /\ 0 \in 0..MaxRules
    BY FrameworkAssumption DEF Ids
  <1>2. op \in [pc : Labels, rule : Ids, n : Nat, cur : MaybeNode,
                name : Interceptors \cup {None}]
    BY <1>1 DEF Init, Idle, Labels, MaybeNode
  <1>3. 0 \in 0..MAX_FILTERS_PER_CHAIN
    BY FrameworkAssumption
  <1>4. dirty \in BOOLEAN
    BY DEF Init
  <1> QED BY <1>1, <1>2, <1>3, <1>4 DEF Init, TypeOK, MaybeNode

OpType == [pc : Labels, rule : Ids, n : Nat, cur : MaybeNode,
           name : Interceptors \cup {None}]

\* No operation in progress has the type of one.
LEMMA IdleType == Idle \in OpType
  <1>1. 0 \in Ids
    BY FrameworkAssumption DEF Ids
  <1> QED BY <1>1 DEF Idle, OpType, Labels, MaybeNode

\* The loops over the filters of a rule go on with the next one.
LEMMA Advanced ==
  ASSUME op \in OpType, NEW pc \in Labels, NextFilter(pc)
  PROVE  /\ op' \in OpType /\ op'.pc = pc /\ op'.n = op.n + 1
         /\ op'.rule = op.rule /\ op'.cur = NULL
  <1>1. op.n \in Nat
    BY DEF OpType
  <1>2. PICK m \in Nat : m = op.n + 1
    BY <1>1
  <1>3. PICK e \in MaybeNode : e = NULL
    BY DEF MaybeNode
  <1>4. op' = [op EXCEPT !.pc = pc, !.n = m, !.cur = e]
    BY <1>2, <1>3 DEF NextFilter, OpType
  <1> QED BY <1>2, <1>3, <1>4 DEF OpType

-----------------------------------------------------------------------------
(* The lists of interceptors and rules.                                    *)

ListTypes ==
  /\ int_list \in Seq(Interceptors) /\ manager_rule_list \in Seq(Ids)
  /\ owner \in [Ids -> Interceptors \cup {None}] /\ id \in 0..MaxRules

\* The steps that leave the lists alone.
Quiet ==
  \/ \E i \in Interceptors : unregister_interceptor(i)
  \/ SweepSpins
  \/ ChainFull \/ InsertFirst \/ InsertFront \/ InsertLink \/ InsertCount
  \/ AppendCount \/ add_klist_node_to_klist \/ Registered
  \/ unregister_filter \/ Uncount \/ FreeFilter \/ RuleRemoved
  \/ \E c \in Chains, m \in SUBSET Ids : nf_hook(c, m)
  \/ procfile_read
  \/ UNCHANGED vars

\* Every step is one of these or one of the five that change a list.
LEMMA StepKinds ==
  ASSUME [Next]_vars
  PROVE  \/ Quiet
         \/ \E i \in Interceptors : register_interceptor(i) \/ create_rule(i)
         \/ \E r \in Ids : remove_rule(r)
         \/ SweepRemoves \/ SweepEnds
  BY DEF Quiet, Next, Continue

\* A step that leaves the lists alone takes up no new rule to remove or to add.
LEMMA QuietLists ==
  ASSUME Frame, Quiet
  PROVE  /\ UNCHANGED listVars
         /\ Removing' => Removing /\ op'.rule = op.rule
         /\ Adding' => Adding /\ op'.rule = op.rule
  <1> USE DEF Frame, TypeOK, listVars, vars, Adding, Removing, Idle, Registering,
              Unregistering, NextFilter, Removed
  <1>1. CASE \E i \in Interceptors : unregister_interceptor(i)
    BY <1>1 DEF unregister_interceptor
  <1>2. CASE SweepSpins
    BY <1>2 DEF SweepSpins
  <1>3. CASE ChainFull
    BY <1>3 DEF ChainFull
  <1>4. CASE InsertFirst
    BY <1>4 DEF InsertFirst
  <1>5. CASE InsertFront
    BY <1>5 DEF InsertFront
  <1>6. CASE InsertLink
    BY <1>6 DEF InsertLink
  <1>7. CASE InsertCount
    BY <1>7 DEF InsertCount
  <1>8. CASE AppendCount
    BY <1>8 DEF AppendCount
  <1>9. CASE add_klist_node_to_klist
    BY <1>9 DEF add_klist_node_to_klist
  <1>10. CASE Registered
    BY <1>10 DEF Registered
  <1>11. CASE unregister_filter
    BY <1>11 DEF unregister_filter
  <1>12. CASE Uncount
    BY <1>12 DEF Uncount
  <1>13. CASE FreeFilter
    BY <1>13 DEF FreeFilter
  <1>14. CASE RuleRemoved
    BY <1>14 DEF RuleRemoved
  <1>15. CASE \E c \in Chains, m \in SUBSET Ids : nf_hook(c, m)
    BY <1>15 DEF nf_hook
  <1>16. CASE procfile_read
    BY <1>16 DEF procfile_read
  <1>17. CASE UNCHANGED vars
    BY <1>17
  <1> QED BY <1>1, <1>2, <1>3, <1>4, <1>5, <1>6, <1>7, <1>8, <1>9, <1>10, <1>11,
             <1>12, <1>13, <1>14, <1>15, <1>16, <1>17 DEF Quiet

\* Every step keeps the lists of interceptors and rules in order.
LEMMA RulesStep ==
  ASSUME Frame, [Next]_vars
  PROVE  ListTypes' /\ RulesOK'
  <1> USE DEF Frame
  <1>1. CASE Quiet
    <2>1. UNCHANGED listVars /\ (Removing' => Removing /\ op'.rule = op.rule)
      BY <1>1, QuietLists
    <2>2. \A r : Present(r)' => Present(r)
      BY <2>1 DEF Present, listVars
    <2> QED BY <2>1, <2>2 DEF ListTypes, TypeOK, RulesOK, listVars
  <1>2. ASSUME NEW i \in Interceptors, register_interceptor(i)
        PROVE  ListTypes' /\ RulesOK'
    <2>1. /\ int_list' = Append(int_list, i) /\ i \notin Range(int_list)
          /\ UNCHANGED <<manager_rule_list, owner, id, op>>
      BY <1>2 DEF register_interceptor
    <2>2. /\ int_list' \in Seq(Interceptors) /\ OneToOne(int_list')
          /\ Range(int_list') = Range(int_list) \cup {i}
      BY <2>1, Appended DEF TypeOK, RulesOK
    <2>3. \A r : Present(r)' => Present(r)
      BY <2>1 DEF Present, Removing
    <2> QED BY <2>1, <2>2, <2>3 DEF ListTypes, TypeOK, RulesOK
  <1>3. ASSUME NEW i \in Interceptors, create_rule(i) PROVE ListTypes' /\ RulesOK'
    <2>1. /\ op = Idle /\ i \in Range(int_list) /\ id < MaxRules
          /\ owner' = [owner EXCEPT ![id] = i] /\ id' = id + 1
          /\ manager_rule_list' = Append(manager_rule_list, id)
          /\ op'.pc = "register" /\ UNCHANGED int_list
      BY <1>3 DEF create_rule, Idle
    <2>2. id \in Ids /\ id \in Nat /\ id' \in 0..MaxRules
      BY <2>1, FrameworkAssumption DEF Ids, TypeOK
    <2>3. id \notin Range(manager_rule_list)
      BY <2>2 DEF RulesOK, Present
    <2>4. /\ manager_rule_list' \in Seq(Ids) /\ OneToOne(manager_rule_list')
          /\ Range(manager_rule_list') = Range(manager_rule_list) \cup {id}
      BY <2>1, <2>2, <2>3, Appended DEF TypeOK, RulesOK
    <2>5. \A r : Present(r)' => Present(r) \/ r = id
      BY <2>1, <2>4 DEF Present, Removing
    <2>6. owner' \in [Ids -> Interceptors \cup {None}] /\ owner'[id] = i
          /\ \A r \in Ids : r # id => owner'[r] = owner[r]
      BY <2>1, <2>2 DEF TypeOK
    <2>7. \A r \in Ids : r < id' => r < id \/ r = id
      BY <2>1, <2>2 DEF Ids
    <2>8. \A r \in Ids : r < id' => owner'[r] \in Interceptors
      BY <2>6, <2>7 DEF RulesOK
    <2>9. \A r \in Ids : r < id \/ r = id => r < id'
      BY <2>1, <2>2 DEF Ids
    <2> HIDE DEF Frame
    <2>10. ASSUME NEW r \in Ids, Present(r)'
           PROVE  r < id' /\ owner'[r] \in Range(int_list')
      BY <2>1, <2>5, <2>6, <2>9, <2>10 DEF RulesOK, Frame
    <2> QED BY <2>1, <2>2, <2>4, <2>6, <2>8, <2>10 DEF ListTypes, TypeOK, RulesOK, Frame
  <1>4. ASSUME NEW r \in Ids, remove_rule(r) PROVE ListTypes' /\ RulesOK'
    <2>1. /\ r \in Range(manager_rule_list)
          /\ manager_rule_list' = RemoveFirst(manager_rule_list, r)
          /\ op'.pc = "unregister" /\ op'.rule = r /\ UNCHANGED <<int_list, owner, id>>
      BY <1>4 DEF remove_rule, Idle
    <2>2. /\ manager_rule_list' \in Seq(Ids) /\ OneToOne(manager_rule_list')
          /\ Range(manager_rule_list') = Range(manager_rule_list) \ {r}
      BY <2>1, Without DEF TypeOK, RulesOK
    <2>3. \A q : Present(q)' => Present(q)
      BY <2>1, <2>2 DEF Present
    <2> QED BY <2>1, <2>2, <2>3 DEF ListTypes, TypeOK, RulesOK
  <1>5. CASE SweepRemoves
    <2>1. /\ manager_rule_list # <<>>
          /\ manager_rule_list' = Tail(manager_rule_list)
          /\ op'.pc = "unregister" /\ op'.rule = Head(manager_rule_list)
          /\ UNCHANGED <<int_list, owner, id>>
      BY <1>5 DEF SweepRemoves, TypeOK
    <2>2. /\ manager_rule_list' \in Seq(Ids) /\ OneToOne(manager_rule_list')
          /\ Head(manager_rule_list) \in Range(manager_rule_list)
          /\ Range(manager_rule_list')
               = Range(manager_rule_list) \ {Head(manager_rule_list)}
      BY <2>1, Beheaded DEF TypeOK, RulesOK
    <2>3. \A q : Present(q)' => Present(q)
      BY <2>1, <2>2 DEF Present
    <2> QED BY <2>1, <2>2, <2>3 DEF ListTypes, TypeOK, RulesOK
  <1>6. CASE SweepEnds
    <2>1. /\ op.pc = "sweep" /\ manager_rule_list = <<>>
          /\ int_list' = RemoveFirst(int_list, op.name)
          /\ op' = Idle /\ UNCHANGED <<manager_rule_list, owner, id>>
      BY <1>6 DEF SweepEnds
    <2>2. int_list' \in Seq(Interceptors) /\ OneToOne(int_list')
      <3>1. CASE op.name \in Range(int_list)
        BY <2>1, <3>1, Without DEF TypeOK, RulesOK
      <3>2. CASE op.name \notin Range(int_list)
        <4>1. int_list' = int_list
          BY <2>1, <3>2 DEF RemoveFirst, Range, TypeOK
        <4> QED BY <4>1 DEF TypeOK, RulesOK
      <3> QED BY <3>1, <3>2
    <2>3. \A r : ~Present(r)'
      BY <2>1 DEF Present, Removing, Idle, Range
    <2> QED BY <2>1, <2>2, <2>3 DEF ListTypes, TypeOK, RulesOK
  <1> QED BY <1>1, <1>2, <1>3, <1>4, <1>5, <1>6, StepKinds

-----------------------------------------------------------------------------
(* The operation in progress.                                              *)

\* While a filter is registered its chain has a sequence, and the iterator's
\* place is in it.
LEMMA PlaceInChain ==
  ASSUME Frame, ChainsOK, op.pc = "register", op.n <= NumberOfFilters(op.rule),
         Behind # 0
  PROVE  Filters(Chain)[Behind] \in Nodes
  <1>1. Chain \in Chains
    BY NewNode DEF Adding
  <1>2. PICK s \in Seq(Nodes) : Holds(Chain, s)
    BY <1>1 DEF ChainsOK
  <1>3. Filters(Chain) = s /\ Behind \in 0..Len(s)
    BY <1>2, BehindIs
  <1> QED BY <1>3

\* The operation keeps its type and its rule.
LEMMA OpStep ==
  ASSUME Frame, ChainsOK, [Next]_vars
  PROVE  op' \in OpType /\ OpOK'
  <1> USE DEF Frame
  <1>0. /\ op \in OpType /\ id \in Nat /\ op.n \in Nat /\ op.rule \in Ids
        /\ op.pc \in Labels
    BY DEF TypeOK, OpType
  <1>1. CASE op' = Idle
    BY <1>1, IdleType DEF OpOK, Idle, Adding, Removing
  <1>2. CASE UNCHANGED <<listVars, op>>
    BY <1>2, <1>0 DEF listVars, OpOK, Adding, Removing, NumberOfFilters
  <1>3. ASSUME NEW i \in Interceptors, register_interceptor(i)
        PROVE  op' \in OpType /\ OpOK'
    <2>1. op' = Idle
      BY <1>3 DEF register_interceptor
    <2> QED BY <1>1, <2>1
  <1>4. ASSUME NEW i \in Interceptors, create_rule(i)
        PROVE  op' \in OpType /\ OpOK'
    <2>1. /\ id < MaxRules /\ id' = id + 1
          /\ manager_rule_list' = Append(manager_rule_list, id)
          /\ op' = [Idle EXCEPT !.pc = "register", !.rule = id, !.n = 1]
      BY <1>4 DEF create_rule
    <2>2. id \in Ids
      BY <2>1, <1>0, FrameworkAssumption DEF Ids
    <2>3. op'.pc = "register" /\ op'.rule = id /\ op'.n = 1
      BY <2>1 DEF Idle
    <2>4. op' \in OpType
      BY <2>1, <2>2, IdleType DEF OpType, Labels
    <2>5. id \in Range(manager_rule_list')
      <3>1. manager_rule_list \in Seq(Ids)
        BY DEF TypeOK
      <3>2. Len(manager_rule_list) + 1 \in DOMAIN manager_rule_list'
            /\ manager_rule_list'[Len(manager_rule_list) + 1] = id
        BY <2>1, <3>1
      <3> QED BY <3>2 DEF Range
    <2> QED BY <2>1, <2>3, <2>4, <2>5, <1>0 DEF OpOK, Adding, Removing
  <1>5. ASSUME NEW r \in Ids, remove_rule(r) PROVE op' \in OpType /\ OpOK'
    <2>1. /\ r \in Range(manager_rule_list) /\ UNCHANGED id
          /\ manager_rule_list' = RemoveFirst(manager_rule_list, r)
          /\ op' = [Idle EXCEPT !.pc = "unregister", !.rule = r, !.n = 1]
      BY <1>5 DEF remove_rule
    <2>2. Range(manager_rule_list') = Range(manager_rule_list) \ {r}
      BY <2>1, Without DEF TypeOK, RulesOK
    <2>3. op'.pc = "unregister" /\ op'.rule = r /\ op'.n = 1
      BY <2>1 DEF Idle
    <2>4. op' \in OpType
      BY <2>1, IdleType DEF OpType, Labels
    <2>5. r < id
      BY <2>1 DEF RulesOK, Present
    <2> QED BY <2>1, <2>2, <2>3, <2>4, <2>5 DEF OpOK, Adding, Removing
  <1>6. CASE SweepRemoves
    <2>1. /\ manager_rule_list # <<>> /\ UNCHANGED id
          /\ manager_rule_list' = Tail(manager_rule_list)
          /\ op' = [op EXCEPT !.pc = "unregister", !.rule = Head(manager_rule_list),
                              !.n = 1]
      BY <1>6 DEF SweepRemoves
    <2>2. /\ Head(manager_rule_list) \in Range(manager_rule_list)
          /\ Range(manager_rule_list')
               = Range(manager_rule_list) \ {Head(manager_rule_list)}
      BY <2>1, Beheaded DEF TypeOK, RulesOK
    <2>3. PICK r \in Ids : r = Head(manager_rule_list)
      <3>1. Head(manager_rule_list) \in Ids
        BY <2>1 DEF TypeOK
      <3> QED BY <3>1
    <2>4. op'.pc = "unregister" /\ op'.rule = r /\ op'.n = 1 /\ op' \in OpType
      BY <2>1, <2>3, <1>0 DEF OpType, Labels
    <2>5. r < id
      BY <2>2, <2>3 DEF RulesOK, Present
    <2> QED BY <2>1, <2>2, <2>3, <2>4, <2>5 DEF OpOK, Adding, Removing
  <1>7. ASSUME NEW i \in Interceptors, unregister_interceptor(i)
        PROVE  op' \in OpType /\ OpOK'
    <2>1. op' = [Idle EXCEPT !.pc = "sweep", !.name = i]
      BY <1>7 DEF unregister_interceptor
    <2>2. op'.pc = "sweep" /\ op' \in OpType
      BY <2>1, IdleType DEF OpType, Labels, Idle
    <2> QED BY <2>2 DEF OpOK, Adding, Removing
  <1>8. CASE SweepSpins
    BY <1>8, <1>2 DEF SweepSpins, vars
  <1>9. CASE SweepEnds
    BY <1>9, <1>1 DEF SweepEnds
  <1>10. ASSUME NEW pc \in {"register", "insert_front", "insert_link", "count",
                            "append"},
                Registering(pc), NextFilter("register")
         PROVE  op' \in OpType /\ OpOK'
    <2>1. op.pc = pc /\ UNCHANGED listVars
      BY <1>10 DEF Registering
    <2>2. op' \in OpType /\ op'.pc = "register" /\ op'.n = op.n + 1
          /\ op'.rule = op.rule
      BY <1>10, <1>0, Advanced DEF Labels
    <2> QED BY <1>0, <2>1, <2>2 DEF OpOK, Adding, Removing, listVars
  <1>11. CASE ChainFull
    BY <1>11, <1>10 DEF ChainFull
  <1>12. ASSUME NEW pc \in {"register", "insert_front", "insert_link"},
                NEW qc \in {"insert_front", "insert_link", "count", "append"},
                Registering(pc), NEW x \in MaybeNode,
                op' = [op EXCEPT !.pc = qc, !.cur = x]
         PROVE  op' \in OpType /\ OpOK'
    <2>1. op.pc = pc /\ UNCHANGED listVars /\ op.n <= NumberOfFilters(op.rule)
      BY <1>12 DEF Registering
    <2>2. op' \in OpType /\ op'.pc = qc /\ op'.n = op.n /\ op'.rule = op.rule
      BY <1>12, <1>0 DEF OpType, Labels
    <2> QED BY <1>0, <2>1, <2>2 DEF OpOK, Adding, Removing, listVars,
               NumberOfFilters
  <1>13. CASE InsertFirst
    <2>1. Filters(Chain)[Behind] \in MaybeNode
      BY <1>13, PlaceInChain DEF InsertFirst, Registering, MaybeNode
    <2> QED BY <1>12, <1>13, <2>1 DEF InsertFirst
  <1>14. CASE InsertFront
    <2>1. op' = [op EXCEPT !.pc = "insert_link", !.cur = op.cur]
      BY <1>14, <1>0 DEF InsertFront, OpType
    <2>2. op.cur \in MaybeNode
      BY <1>0 DEF OpType
    <2> QED BY <1>12, <1>14, <2>1, <2>2 DEF InsertFront
  <1>15. CASE InsertLink
    <2>1. op' = [op EXCEPT !.pc = "count", !.cur = op.cur]
      BY <1>15, <1>0 DEF InsertLink, OpType
    <2>2. op.cur \in MaybeNode
      BY <1>0 DEF OpType
    <2> QED BY <1>12, <1>15, <2>1, <2>2 DEF InsertLink
  <1>16. CASE InsertCount
    BY <1>16, <1>10 DEF InsertCount
  <1>17. CASE AppendCount
    <2>1. op' = [op EXCEPT !.pc = "append", !.cur = op.cur]
      BY <1>17, <1>0 DEF AppendCount, OpType
    <2>2. op.cur \in MaybeNode
      BY <1>0 DEF OpType
    <2> QED BY <1>12, <1>17, <2>1, <2>2 DEF AppendCount
  <1>18. CASE add_klist_node_to_klist
    BY <1>18, <1>10 DEF add_klist_node_to_klist
  <1>19. CASE Registered
    BY <1>19, <1>1 DEF Registered
  <1>20. CASE unregister_filter \/ Uncount
    <2>1. /\ op.pc \in {"unregister", "uncount"} /\ op.n <= NumberOfFilters(op.rule)
          /\ UNCHANGED listVars
          /\ op' = [op EXCEPT !.pc = "uncount"] \/ op' = [op EXCEPT !.pc = "free"]
      BY <1>20 DEF unregister_filter, Uncount, Unregistering
    <2>2. op' \in OpType /\ op'.pc \in {"uncount", "free"} /\ op'.n = op.n
          /\ op'.rule = op.rule
      BY <2>1, <1>0 DEF OpType, Labels
    <2> QED BY <1>0, <2>1, <2>2 DEF OpOK, Adding, Removing, listVars,
               NumberOfFilters
  <1>21. CASE FreeFilter
    <2>1. op.pc = "free" /\ UNCHANGED listVars
      BY <1>21 DEF FreeFilter, Unregistering
    <2>2. op' \in OpType /\ op'.pc = "unregister" /\ op'.n = op.n + 1
          /\ op'.rule = op.rule
      BY <1>21, <1>0, Advanced DEF FreeFilter, Labels
    <2> QED BY <1>0, <2>1, <2>2 DEF OpOK, Adding, Removing, listVars
  <1>22. CASE RuleRemoved
    <2>1. op' = Idle \/ op' = [Idle EXCEPT !.pc = "sweep", !.name = op.name]
      BY <1>22 DEF RuleRemoved, Removed
    <2>2. CASE op' = [Idle EXCEPT !.pc = "sweep", !.name = op.name]
      <3>1. op'.pc = "sweep" /\ op' \in OpType
        BY <2>2, IdleType, <1>0 DEF OpType, Labels, Idle
      <3> QED BY <3>1 DEF OpOK, Adding, Removing
    <2> QED BY <1>1, <2>1, <2>2
  <1>23. ASSUME NEW c \in Chains, NEW m \in SUBSET Ids, nf_hook(c, m)
         PROVE  op' \in OpType /\ OpOK'
    BY <1>23, <1>2 DEF nf_hook
  <1>24. CASE procfile_read
    BY <1>24, <1>2 DEF procfile_read
  <1>25. CASE UNCHANGED vars
    BY <1>25, <1>2 DEF vars
  <1> QED BY <1>3, <1>4, <1>5, <1>6, <1>7, <1>8, <1>9, <1>11, <1>13, <1>14, <1>15,
             <1>16, <1>17, <1>18, <1>19, <1>20, <1>21, <1>22, <1>23, <1>24, <1>25
          DEF Next, Continue

-----------------------------------------------------------------------------
(* What the chains hold, from one state to the next.                       *)

\* Whether a chain is to hold a filter.
Due(f) == Present(f[1]) /\ f \notin refused /\ Reached(f)

\* The chains are to hold the same filters as before.
LEMMA SameContent ==
  ASSUME UNCHANGED owner,
         \A f \in Nodes : f[2] <= NumberOfFilters(f[1]) => (Due(f)' <=> Due(f))
  PROVE  \A c : Expected(c)' = Expected(c)
  <1> SUFFICES ASSUME NEW c, NEW f \in Nodes
               PROVE  f \in Expected(c)' <=> f \in Expected(c)
    BY DEF Expected
  <1>1. NumberOfFilters(f[1])' = NumberOfFilters(f[1]) /\ At(f)' = At(f)
    BY DEF NumberOfFilters, At
  <1>2. f \in Expected(c) <=> f[2] <= NumberOfFilters(f[1]) /\ At(f) = c /\ Due(f)
    BY DEF Expected, Due
  <1>3. f \in Expected(c)' <=> /\ f[2] <= NumberOfFilters(f[1])'
                               /\ At(f)' = c /\ Due(f)'
    BY DEF Expected, Due
  <1> QED BY <1>1, <1>2, <1>3

\* A chain whose filters, their order and their links stay holds the same
\* sequence.
LEMMA Kept ==
  ASSUME NEW c, NEW s, Holds(c, s), Expected(c)' = Expected(c),
         \A f \in Expected(c) : /\ Priority(f)' = Priority(f)
                                /\ front'[f] = front[f] /\ back'[f] = back[f],
         last'[c] = last[c], Heads(c, s)', Counts(c, s)',
         (op.pc \in {"insert_front", "insert_link", "count", "append"} /\ c = Chain
            => Slot(s))'
  PROVE  Holds(c, s)'
  <1>1. s \in Seq(Nodes) /\ Range(s) = Expected(c) /\ Ordered(s) /\ Linked(c, s)
    BY DEF Holds
  <1>2. PICK n \in Nat : n = Len(s) /\ DOMAIN s = 1..n
    BY <1>1
  <1>3. \A k \in 1..n : s[k] \in Expected(c)
    BY <1>1, <1>2 DEF Range
  <1>4. Ordered(s)'
    <2> SUFFICES ASSUME NEW j \in 1..n, NEW k \in 1..n, j < k
                 PROVE  Before(s[j], s[k])'
      BY <1>2 DEF Ordered
    <2>1. Before(s[j], s[k])
      BY <1>1, <1>2 DEF Ordered
    <2>2. Priority(s[j])' = Priority(s[j]) /\ Priority(s[k])' = Priority(s[k])
      BY <1>3
    <2> QED BY <2>1, <2>2 DEF Before
  <1>5. Linked(c, s)'
    <2>1. \A k \in 1..n : front'[s[k]] = front[s[k]] /\ back'[s[k]] = back[s[k]]
      BY <1>3
    <2>2. ASSUME NEW k \in 1..(n - 1)
          PROVE  front'[s[k]] = s[k + 1] /\ back'[s[k + 1]] = s[k]
      <3>1. k \in 1..n /\ k + 1 \in 1..n
        OBVIOUS
      <3>2. front[s[k]] = s[k + 1] /\ back[s[k + 1]] = s[k]
        BY <1>1, <1>2 DEF Linked
      <3> QED BY <2>1, <3>1, <3>2
    <2>3. s # <<>> => back'[s[1]] = NULL /\ front'[s[n]] = NULL
      <3> SUFFICES ASSUME s # <<>> PROVE back'[s[1]] = NULL /\ front'[s[n]] = NULL
        OBVIOUS
      <3>1. 1 \in 1..n /\ n \in 1..n
        BY <1>1, <1>2
      <3>2. back[s[1]] = NULL /\ front[s[n]] = NULL
        BY <1>1, <1>2 DEF Linked
      <3> QED BY <2>1, <3>1, <3>2
    <2>4. last'[c] = EndOf(s, n)
      BY <1>1, <1>2 DEF Linked
    <2> QED BY <1>2, <2>2, <2>3, <2>4 DEF Linked
  <1> QED BY <1>1, <1>4, <1>5 DEF Holds

\* Between the stores of an operation on a filter.
Calm == op.pc \in {"idle", "register", "unregister", "free", "sweep"}

\* What calm means for the ends and the counters of the chains.
LEMMA CalmChains ==
  ASSUME Calm
  PROVE  /\ \A c, s : Heads(c, s) <=> first[c] = EndOf(s, 1)
         /\ \A c : \A s \in Seq(Nodes) : Counts(c, s) <=> len[c] = Len(s)
  BY DEF Calm, Heads, Counts, Inserting

\* From one calm state to another with the same chains.
LEMMA CalmStep ==
  ASSUME Frame, ChainsOK, Calm, Calm', UNCHANGED chainVars,
         \A c : Expected(c)' = Expected(c),
         \A f \in Nodes : f[1] < id => Priority(f)' = Priority(f)
  PROVE  ChainsOK'
  <1> SUFFICES ASSUME NEW c \in Chains PROVE \E s \in Seq(Nodes) : Holds(c, s)'
    BY DEF ChainsOK
  <1>1. PICK s \in Seq(Nodes) : Holds(c, s)
    BY DEF ChainsOK
  <1>2. \A f \in Expected(c) : f \in Nodes /\ f[1] < id
    BY ChainFilters
  <1>3. Heads(c, s)' /\ Counts(c, s)'
    <2>1. first[c] = EndOf(s, 1) /\ len[c] = Len(s)
      BY <1>1, CalmChains DEF Holds
    <2>2. first'[c] = EndOf(s, 1) /\ len'[c] = Len(s)
      BY <2>1 DEF chainVars
    <2> QED BY <2>2 DEF Calm, Heads, Counts, Inserting
  <1>4. Holds(c, s)'
    BY <1>1, <1>2, <1>3, Kept DEF chainVars, Calm
  <1> QED BY <1>4

\* The chains depend on nothing that a hook or a listing changes.
LEMMA ChainsElse ==
  ASSUME ChainsOK, UNCHANGED <<manager_rule_list, owner, chainVars, op, refused>>
  PROVE  ChainsOK'
  <1>1. \A f : Due(f)' <=> Due(f)
    BY DEF Due, Present, Reached, Adding, Removing
  <1>2. \A c : Expected(c)' = Expected(c)
    BY <1>1, SameContent
  <1> SUFFICES ASSUME NEW c \in Chains PROVE \E s \in Seq(Nodes) : Holds(c, s)'
    BY DEF ChainsOK
  <1>3. PICK s \in Seq(Nodes) : Holds(c, s)
    BY DEF ChainsOK
  <1>4. Priority(New)' = Priority(New) /\ \A f : Priority(f)' = Priority(f)
        /\ New' = New /\ Chain' = Chain
    BY DEF Priority, New, Chain, At
  <1>5. \A f : Outranks(New, f)' <=> Outranks(New, f)
    BY <1>4 DEF Outranks
  <1>6. Heads(c, s)' /\ Counts(c, s)'
    BY <1>3, <1>4 DEF Holds, Heads, Counts, chainVars, Inserting
  <1>7. (op.pc \in {"insert_front", "insert_link", "count", "append"} /\ c = Chain
            => Slot(s))'
    BY <1>3, <1>4, <1>5 DEF Holds, Slot, chainVars, Inserting
  <1>8. Holds(c, s)'
    BY <1>2, <1>3, <1>4, <1>6, <1>7, Kept DEF chainVars
  <1> QED BY <1>8

\* The steps that start or end an operation, or go on to the next filter, leave
\* the chains as they are.
LEMMA CreateChains ==
  ASSUME Frame, ChainsOK, NEW i \in Interceptors, create_rule(i)
  PROVE  ChainsOK'
  <1>1. /\ op = Idle /\ i \in Range(int_list) /\ id < MaxRules
        /\ owner' = [owner EXCEPT ![id] = i] /\ id' = id + 1
        /\ manager_rule_list' = Append(manager_rule_list, id)
        /\ op'.pc = "register" /\ op'.rule = id /\ op'.n = 1
        /\ UNCHANGED <<chainVars, refused>>
    BY DEF create_rule, Idle, memVars
  <1>2. id \in Ids /\ id \in Nat
    BY <1>1, FrameworkAssumption DEF Ids, Frame, TypeOK
  <1>3. id \notin Range(manager_rule_list)
    BY <1>2 DEF Frame, RulesOK, Present
  <1>4. Range(manager_rule_list') = Range(manager_rule_list) \cup {id}
    BY <1>1, <1>2, <1>3, Appended DEF Frame, TypeOK, RulesOK
  <1>5. op.pc = "idle"
    BY <1>1 DEF Idle
  <1>6. \A r \in Ids : r # id => owner'[r] = owner[r]
    BY <1>1, <1>2 DEF Frame, TypeOK
  <1>7. ASSUME NEW f \in Nodes, f[1] # id
        PROVE  /\ Priority(f)' = Priority(f) /\ At(f)' = At(f)
               /\ NumberOfFilters(f[1])' = NumberOfFilters(f[1])
    BY <1>6, <1>7, NodeParts DEF Priority, At, NumberOfFilters
  <1>8. ASSUME NEW c, NEW f \in Nodes
        PROVE  f \in Expected(c)' <=> f \in Expected(c)
    <2>1. CASE f[1] = id
      <3>1. ~Reached(f)'
        BY <2>1, <1>1, NodeParts DEF Reached, Adding
      <3>2. ~Present(f[1])
        BY <2>1, <1>3, <1>5 DEF Present, Removing
      <3> QED BY <3>1, <3>2 DEF Expected
    <2>2. CASE f[1] # id
      <3>1. Reached(f)' /\ Reached(f)
        BY <2>2, <1>1, <1>5 DEF Reached, Adding, Removing
      <3>2. Present(f[1])' <=> Present(f[1])
        BY <2>2, <1>1, <1>4, <1>5 DEF Present, Removing
      <3>3. UNCHANGED refused
        BY <1>1
      <3> QED BY <2>2, <1>7, <3>1, <3>2, <3>3 DEF Expected
    <2> QED BY <2>1, <2>2
  <1>9. \A c : Expected(c)' = Expected(c)
    BY <1>8 DEF Expected
  <1>10. \A f \in Nodes : f[1] < id => Priority(f)' = Priority(f)
    BY <1>2, <1>7
  <1>11. Calm /\ Calm' /\ UNCHANGED chainVars
    BY <1>1, <1>5 DEF Calm
  <1> QED BY <1>9, <1>10, <1>11, CalmStep

\* The same for steps that create no rule.
LEMMA CalmDue ==
  ASSUME Frame, ChainsOK, Calm, Calm', UNCHANGED <<chainVars, owner>>,
         \A f \in Nodes : f[2] <= NumberOfFilters(f[1]) => (Due(f)' <=> Due(f))
  PROVE  ChainsOK'
  <1>1. \A c : Expected(c)' = Expected(c)
    BY SameContent
  <1>2. \A f : Priority(f)' = Priority(f)
    BY DEF Priority
  <1> QED BY <1>1, <1>2, CalmStep

\* A rule is taken off the list: its filters stay until they are unregistered.
LEMMA RemoveChains ==
  ASSUME Frame, ChainsOK, op.pc \in {"idle", "sweep"}, NEW r \in Ids,
         Range(manager_rule_list') = Range(manager_rule_list) \ {r},
         r \in Range(manager_rule_list),
         op'.pc = "unregister", op'.rule = r, op'.n = 1,
         UNCHANGED <<chainVars, owner, refused>>
  PROVE  ChainsOK'
  <1>1. ASSUME NEW f \in Nodes PROVE Due(f)' <=> Due(f)
    <2>1. Present(f[1])' <=> Present(f[1])
      BY DEF Present, Removing
    <2>2. Reached(f)
      BY DEF Reached, Adding, Removing
    <2>3. Reached(f)'
      BY NodeParts DEF Reached, Adding, Removing
    <2> QED BY <2>1, <2>2, <2>3 DEF Due
  <1> QED BY <1>1, CalmDue DEF Calm

\* The loop of unregister_interceptor starts or ends.
LEMMA SweepChains ==
  ASSUME Frame, ChainsOK, op.pc \in {"idle", "sweep"}, op'.pc \in {"idle", "sweep"},
         UNCHANGED <<chainVars, owner, refused, manager_rule_list>>
  PROVE  ChainsOK'
  <1>1. \A f : Due(f)' <=> Due(f)
    BY DEF Due, Present, Removing, Reached, Adding
  <1> QED BY <1>1, CalmDue DEF Calm

\* A filter that finds its chain full is in no chain.
LEMMA ChainFullChains ==
  ASSUME Frame, ChainsOK, ChainFull PROVE ChainsOK'
  <1>1. /\ op.pc = "register" /\ op.n <= NumberOfFilters(op.rule)
        /\ refused' = refused \cup {New}
        /\ UNCHANGED <<chainVars, owner, manager_rule_list>>
    BY DEF ChainFull, Registering, listVars
  <1>2. op'.pc = "register" /\ op'.n = op.n + 1 /\ op'.rule = op.rule
    BY Advanced DEF ChainFull, Frame, TypeOK, OpType, Labels
  <1>3. op.n \in Nat
    BY DEF Frame, TypeOK
  <1>4. ASSUME NEW f \in Nodes PROVE Due(f)' <=> Due(f)
    <2>1. Present(f[1])' <=> Present(f[1])
      BY <1>1, <1>2 DEF Present, Removing
    <2>2. CASE f = New
      <3>1. f[1] = op.rule /\ f[2] = op.n
        BY <2>2 DEF New
      <3>2. ~Reached(f)
        BY <3>1, <1>1, <1>3 DEF Reached, Adding
      <3> QED BY <2>2, <3>2, <1>1 DEF Due
    <2>3. CASE f # New
      <3>1. f[2] \in Nat /\ ~(f[1] = op.rule /\ f[2] = op.n)
        BY <2>3, NodeParts DEF New
      <3>2. Reached(f)' <=> Reached(f)
        BY <3>1, <1>1, <1>2, <1>3 DEF Reached, Adding, Removing
      <3> QED BY <2>1, <2>3, <3>2, <1>1 DEF Due
    <2> QED BY <2>2, <2>3
  <1> QED BY <1>1, <1>2, <1>4, CalmDue DEF Calm

\* All filters of the new rule are in.
LEMMA RegisteredChains ==
  ASSUME Frame, ChainsOK, Registered PROVE ChainsOK'
  <1>1. /\ op.pc = "register" /\ op.n > NumberOfFilters(op.rule) /\ op'.pc = "idle"
        /\ UNCHANGED <<chainVars, owner, manager_rule_list, refused>>
    BY DEF Registered, Idle, listVars, memVars
  <1>2. op.n \in Nat /\ op.rule \in Ids /\ op.rule < id
    BY <1>1 DEF Frame, TypeOK, OpOK, Adding
  <1>3. NumberOfFilters(op.rule) \in Nat
    BY <1>2, RuleFilters
  <1>4. ASSUME NEW f \in Nodes, f[2] <= NumberOfFilters(f[1])
        PROVE  Due(f)' <=> Due(f)
    <2>1. Present(f[1])' <=> Present(f[1])
      BY <1>1 DEF Present, Removing
    <2>2. Reached(f)'
      BY <1>1 DEF Reached, Adding, Removing
    <2>3. Reached(f)
      BY <1>1, <1>2, <1>3, <1>4, NodeParts DEF Reached, Adding, Removing
    <2> QED BY <2>1, <2>2, <2>3, <1>1 DEF Due
  <1> QED BY <1>1, <1>4, CalmDue DEF Calm

\* A filter that is freed is out of its chain already.
LEMMA FreeChains ==
  ASSUME Frame, ChainsOK, FreeFilter PROVE ChainsOK'
  <1>1. /\ op.pc = "free"
        /\ UNCHANGED <<chainVars, owner, manager_rule_list, refused>>
    BY DEF FreeFilter, Unregistering, listVars
  <1>2. op'.pc = "unregister" /\ op'.n = op.n + 1 /\ op'.rule = op.rule
    BY Advanced DEF FreeFilter, Frame, TypeOK, OpType, Labels
  <1>3. op.n \in Nat
    BY DEF Frame, TypeOK
  <1>4. ASSUME NEW f \in Nodes PROVE Due(f)' <=> Due(f)
    <2>1. Present(f[1])' <=> Present(f[1])
      BY <1>1, <1>2 DEF Present, Removing
    <2>2. f[2] \in Nat
      BY NodeParts
    <2>3. Reached(f)' <=> Reached(f)
      BY <2>2, <1>1, <1>2, <1>3 DEF Reached, Adding, Removing
    <2> QED BY <2>1, <2>3, <1>1 DEF Due
  <1> QED BY <1>1, <1>2, <1>4, CalmDue DEF Calm

\* All filters of the removed rule are out.
LEMMA RuleRemovedChains ==
  ASSUME Frame, ChainsOK, RuleRemoved PROVE ChainsOK'
  <1>1. /\ op.pc = "unregister" /\ op.n > NumberOfFilters(op.rule)
        /\ op'.pc \in {"idle", "sweep"}
        /\ UNCHANGED <<chainVars, owner, manager_rule_list, refused>>
    BY DEF RuleRemoved, Removed, Idle, listVars, memVars
  <1>2. op.n \in Nat /\ op.rule \in Ids /\ op.rule < id
        /\ op.rule \notin Range(manager_rule_list)
    BY <1>1 DEF Frame, TypeOK, OpOK, Removing
  <1>3. NumberOfFilters(op.rule) \in Nat
    BY <1>2, RuleFilters
  <1>4. ASSUME NEW f \in Nodes, f[2] <= NumberOfFilters(f[1])
        PROVE  Due(f)' <=> Due(f)
    <2>1. Reached(f)'
      BY <1>1 DEF Reached, Adding, Removing
    <2>2. CASE f[1] = op.rule
      <3>1. ~Reached(f)
        BY <2>2, <1>1, <1>2, <1>3, <1>4, NodeParts DEF Reached, Adding, Removing
      <3>2. ~Present(f[1])'
        BY <2>2, <1>1, <1>2 DEF Present, Removing
      <3> QED BY <3>1, <3>2 DEF Due
    <2>3. CASE f[1] # op.rule
      <3>1. Reached(f)
        BY <2>3 DEF Reached
      <3>2. Present(f[1])' <=> Present(f[1])
        BY <2>3, <1>1 DEF Present, Removing
      <3> QED BY <2>1, <3>1, <3>2, <1>1 DEF Due
    <2> QED BY <2>2, <2>3
  <1> QED BY <1>1, <1>4, CalmDue DEF Calm

\* The stores that put a filter into its chain, before it is in.
Ready == op.pc \in {"register", "insert_front", "insert_link", "append"}

\* From one of them to the next nothing changes in what the chains are to hold.
LEMMA Steady ==
  ASSUME UNCHANGED <<owner, manager_rule_list, refused>>, Ready, Ready',
         op'.rule = op.rule, op'.n = op.n
  PROVE  /\ New' = New /\ Chain' = Chain /\ \A f : Priority(f)' = Priority(f)
         /\ \A f : Outranks(New, f)' <=> Outranks(New, f)
         /\ \A c : Expected(c)' = Expected(c)
  <1>1. New' = New
    BY DEF New
  <1>2. Chain' = Chain /\ \A f : Priority(f)' = Priority(f)
    BY <1>1 DEF Chain, At, Priority
  <1>3. \A f : Outranks(New, f)' <=> Outranks(New, f)
    BY <1>1, <1>2 DEF Outranks
  <1>4. \A f : Due(f)' <=> Due(f)
    BY DEF Due, Present, Reached, Adding, Removing, Ready
  <1>5. \A c : Expected(c)' = Expected(c)
    BY <1>4, SameContent
  <1> QED BY <1>1, <1>2, <1>3, <1>5

\* A filter that is being put in is in no chain yet.
LEMMA NotYet ==
  ASSUME Frame, Ready
  PROVE  \A c : New \notin Expected(c)
  <1>1. New[1] = op.rule /\ New[2] = op.n /\ op.n \in Nat
    BY DEF New, Frame, TypeOK
  <1>2. ~Reached(New)
    BY <1>1 DEF Reached, Ready, Adding
  <1> QED BY <1>2 DEF Expected

\* first is stored: the chain is the same behind it.
LEMMA InsertFirstChains ==
  ASSUME Frame, ChainsOK, InsertFirst PROVE ChainsOK'
  <1>1. /\ op.pc = "register" /\ op.n <= NumberOfFilters(op.rule) /\ ~Full
        /\ Behind # 0 /\ UNCHANGED <<owner, manager_rule_list, refused>>
        /\ UNCHANGED <<last, front, back, len>>
        /\ first' = IF Filters(Chain)[Behind] = first[Chain]
                    THEN [first EXCEPT ![Chain] = New] ELSE first
    BY DEF InsertFirst, Registering, listVars
  <1>2. op'.pc = "insert_front" /\ op'.cur = Filters(Chain)[Behind]
        /\ op'.rule = op.rule /\ op'.n = op.n
    BY DEF InsertFirst, Frame, TypeOK
  <1>3. /\ New' = New /\ Chain' = Chain /\ \A f : Priority(f)' = Priority(f)
        /\ \A f : Outranks(New, f)' <=> Outranks(New, f)
        /\ \A c : Expected(c)' = Expected(c)
    BY <1>1, <1>2, Steady DEF Ready
  <1>4. New \in Nodes /\ Chain \in Chains
    BY <1>1, NewNode DEF Adding
  <1> SUFFICES ASSUME NEW c \in Chains PROVE \E s \in Seq(Nodes) : Holds(c, s)'
    BY DEF ChainsOK
  <1>5. PICK s \in Seq(Nodes) : Holds(c, s)
    BY DEF ChainsOK
  <1>6. first[c] = EndOf(s, 1) /\ len[c] = Len(s)
    <2>1. Calm
      BY <1>1 DEF Calm
    <2> QED BY <2>1, <1>5, CalmChains DEF Holds
  <1>7. first \in [Chains -> MaybeNode]
    BY DEF Frame, TypeOK
  <1>8. CASE c # Chain
    <2>1. Heads(c, s)' /\ Counts(c, s)'
      BY <1>1, <1>2, <1>3, <1>4, <1>6, <1>7, <1>8 DEF Heads, Counts
    <2> QED BY <1>1, <1>3, <1>5, <1>8, <2>1, Kept
  <1>9. CASE c = Chain
    <2>1. /\ Filters(Chain) = s /\ Behind \in 0..Len(s) /\ Outranks(New, s[Behind])
          /\ \A j \in DOMAIN s : j < Behind => ~Outranks(New, s[j])
      BY <1>1, <1>5, <1>9, BehindIs
    <2>2. PICK k \in 1..Len(s) : k = Behind
      BY <1>1, <2>1
    <2>3. op'.cur = s[k] /\ EndOf(s, 1) = s[1] /\ Len(s) \in Nat \ {0} /\ k \in DOMAIN s
      BY <1>2, <2>1, <2>2 DEF EndOf
    <2>4. Heads(c, s)'
      <3>1. first'[c] = IF s[k] = s[1] THEN New ELSE s[1]
        BY <1>1, <1>4, <1>6, <1>7, <1>9, <2>1, <2>2, <2>3
      <3> QED BY <3>1, <1>2, <1>3, <1>9, <2>3 DEF Heads, Inserting
    <2>5. Counts(c, s)'
      BY <1>1, <1>2, <1>6 DEF Counts
    <2>6. Slot(s)'
      <3>1. len[Chain] \in 1..(MAX_FILTERS_PER_CHAIN - 1)
        <4>1. len[Chain] \in 0..MAX_FILTERS_PER_CHAIN
          BY <1>4 DEF Frame, TypeOK
        <4> QED BY <4>1, <1>1, <1>6, <1>9, <2>3, FrameworkAssumption DEF Full
      <3>2. len'[Chain'] \in 1..(MAX_FILTERS_PER_CHAIN - 1)
        BY <3>1, <1>1, <1>3
      <3>3. /\ op'.cur = s[k] /\ Outranks(New, s[k])'
            /\ \A j \in DOMAIN s : j < k => ~Outranks(New, s[j])'
        BY <1>3, <2>1, <2>2, <2>3
      <3> QED BY <3>2, <3>3, <1>2, <2>3 DEF Slot, Inserting
    <2> QED BY <1>1, <1>3, <1>5, <2>4, <2>5, <2>6, Kept
  <1> QED BY <1>8, <1>9

\* The new node's front is stored: no chain has that node yet.
LEMMA InsertFrontChains ==
  ASSUME Frame, ChainsOK, InsertFront PROVE ChainsOK'
  <1>1. /\ op.pc = "insert_front" /\ op.n <= NumberOfFilters(op.rule)
        /\ UNCHANGED <<owner, manager_rule_list, refused>>
        /\ UNCHANGED <<first, last, back, len>>
        /\ front' = [front EXCEPT ![New] = op.cur]
    BY DEF InsertFront, Registering, listVars
  <1>2. op'.pc = "insert_link" /\ op'.cur = op.cur
        /\ op'.rule = op.rule /\ op'.n = op.n
    BY DEF InsertFront, Frame, TypeOK
  <1>3. /\ New' = New /\ Chain' = Chain /\ \A f : Priority(f)' = Priority(f)
        /\ \A f : Outranks(New, f)' <=> Outranks(New, f)
        /\ \A c : Expected(c)' = Expected(c)
    BY <1>1, <1>2, Steady DEF Ready
  <1> SUFFICES ASSUME NEW c \in Chains PROVE \E s \in Seq(Nodes) : Holds(c, s)'
    BY DEF ChainsOK
  <1>5. PICK s \in Seq(Nodes) : Holds(c, s)
    BY DEF ChainsOK
  <1>6. \A f \in Expected(c) : front'[f] = front[f]
    <2>1. New \notin Expected(c) /\ \A f \in Expected(c) : f \in Nodes
      BY <1>1, NotYet DEF Ready, Expected
    <2> QED BY <1>1, <2>1 DEF Frame, TypeOK
  <1>7. Heads(c, s)' /\ Counts(c, s)'
    BY <1>1, <1>2, <1>3, <1>5 DEF Holds, Heads, Counts, Inserting
  <1>8. ASSUME c = Chain PROVE Slot(s)'
    <2>1. Slot(s)
      BY <1>1, <1>5, <1>8 DEF Holds
    <2> QED BY <2>1, <1>1, <1>2, <1>3 DEF Slot, Inserting
  <1>9. Holds(c, s)'
    BY <1>1, <1>3, <1>5, <1>6, <1>7, <1>8, Kept
  <1> QED BY <1>9

\* len runs ahead of an append.
LEMMA AppendCountChains ==
  ASSUME Frame, ChainsOK, AppendCount PROVE ChainsOK'
  <1>1. /\ op.pc = "register" /\ op.n <= NumberOfFilters(op.rule) /\ Behind = 0
        /\ UNCHANGED <<owner, manager_rule_list, refused>>
        /\ UNCHANGED <<first, last, front, back>>
        /\ len' = [len EXCEPT ![Chain] = @ + 1]
    BY DEF AppendCount, Registering, listVars
  <1>2. op'.pc = "append" /\ op'.rule = op.rule /\ op'.n = op.n
    BY DEF AppendCount, Frame, TypeOK
  <1>3. /\ New' = New /\ Chain' = Chain /\ \A f : Priority(f)' = Priority(f)
        /\ \A f : Outranks(New, f)' <=> Outranks(New, f)
        /\ \A c : Expected(c)' = Expected(c)
    BY <1>1, <1>2, Steady DEF Ready
  <1> SUFFICES ASSUME NEW c \in Chains PROVE \E s \in Seq(Nodes) : Holds(c, s)'
    BY DEF ChainsOK
  <1>5. PICK s \in Seq(Nodes) : Holds(c, s)
    BY DEF ChainsOK
  <1>6. first[c] = EndOf(s, 1) /\ len[c] = Len(s)
    <2>1. Calm
      BY <1>1 DEF Calm
    <2> QED BY <2>1, <1>5, CalmChains DEF Holds
  <1>7. Heads(c, s)'
    BY <1>1, <1>2, <1>6 DEF Heads, Inserting
  <1>8. Counts(c, s)'
    <2>1. len \in [Chains -> 0..MAX_FILTERS_PER_CHAIN] /\ Len(s) \in Nat
      BY DEF Frame, TypeOK
    <2>2. len'[c] = Len(s) + (IF c = Chain THEN 1 ELSE 0)
      BY <2>1, <1>1, <1>6
    <2> QED BY <2>2, <1>2, <1>3 DEF Counts
  <1>9. ASSUME c = Chain PROVE Slot(s)'
    <2>1. \A k \in DOMAIN s : ~Outranks(New, s[k])
      BY <1>1, <1>5, <1>9, BehindIs
    <2> QED BY <2>1, <1>2, <1>3 DEF Slot, Inserting
  <1>10. Holds(c, s)'
    BY <1>1, <1>3, <1>5, <1>7, <1>8, <1>9, Kept
  <1> QED BY <1>10

\* The end of an insertion: len catches up.
LEMMA InsertCountChains ==
  ASSUME Frame, ChainsOK, InsertCount PROVE ChainsOK'
  <1>1. /\ op.pc = "count" /\ op.n <= NumberOfFilters(op.rule)
        /\ UNCHANGED <<owner, manager_rule_list, refused>>
        /\ UNCHANGED <<first, last, front, back>>
        /\ len' = [len EXCEPT ![Chain] = @ + 1]
    BY DEF InsertCount, Registering, listVars
  <1>2. op'.pc = "register" /\ op'.n = op.n + 1 /\ op'.rule = op.rule
    BY Advanced DEF InsertCount, Frame, TypeOK, OpType, Labels
  <1>3. op.n \in Nat
    BY DEF Frame, TypeOK
  <1>4. ASSUME NEW f \in Nodes PROVE Due(f)' <=> Due(f)
    <2>1. Present(f[1])' <=> Present(f[1])
      BY <1>1, <1>2 DEF Present, Removing
    <2>2. f[2] \in Nat
      BY NodeParts
    <2>3. Reached(f)' <=> Reached(f)
      BY <2>2, <1>1, <1>2, <1>3 DEF Reached, Adding, Removing
    <2> QED BY <2>1, <2>3, <1>1 DEF Due
  <1>5. \A c : Expected(c)' = Expected(c)
    BY <1>1, <1>4, SameContent
  <1>6. \A f : Priority(f)' = Priority(f)
    BY <1>1 DEF Priority
  <1> SUFFICES ASSUME NEW c \in Chains PROVE \E s \in Seq(Nodes) : Holds(c, s)'
    BY DEF ChainsOK
  <1>7. PICK s \in Seq(Nodes) : Holds(c, s)
    BY DEF ChainsOK
  <1>8. Heads(c, s)'
    BY <1>1, <1>2, <1>7 DEF Holds, Heads, Inserting
  <1>9. Counts(c, s)'
    <2>1. len \in [Chains -> 0..MAX_FILTERS_PER_CHAIN] /\ Len(s) \in Nat
      BY DEF Frame, TypeOK
    <2>2. len[c] = Len(s) + (IF c = Chain THEN -1 ELSE 0)
      BY <1>1, <1>7 DEF Holds, Counts
    <2>3. len'[c] = Len(s)
      BY <2>1, <2>2, <1>1
    <2> QED BY <2>3, <1>2 DEF Counts
  <1>10. Holds(c, s)'
    BY <1>1, <1>2, <1>5, <1>6, <1>7, <1>8, <1>9, Kept
  <1> QED BY <1>10

\* The end of a removal: len catches up.
LEMMA UncountChains ==
  ASSUME Frame, ChainsOK, Uncount PROVE ChainsOK'
  <1>1. /\ op.pc = "uncount" /\ op.n <= NumberOfFilters(op.rule)
        /\ UNCHANGED <<owner, manager_rule_list, refused>>
        /\ UNCHANGED <<first, last, front, back>>
        /\ len' = [len EXCEPT ![Chain] = @ - 1]
    BY DEF Uncount, Unregistering, listVars
  <1>2. op'.pc = "free" /\ op'.n = op.n /\ op'.rule = op.rule
    BY DEF Uncount, Frame, TypeOK
  <1>3. \A f : Due(f)' <=> Due(f)
    BY <1>1, <1>2 DEF Due, Present, Reached, Adding, Removing
  <1>5. \A c : Expected(c)' = Expected(c)
    BY <1>1, <1>3, SameContent
  <1>6. \A f : Priority(f)' = Priority(f)
    BY <1>1 DEF Priority
  <1> SUFFICES ASSUME NEW c \in Chains PROVE \E s \in Seq(Nodes) : Holds(c, s)'
    BY DEF ChainsOK
  <1>7. PICK s \in Seq(Nodes) : Holds(c, s)
    BY DEF ChainsOK
  <1>8. Heads(c, s)'
    BY <1>1, <1>2, <1>7 DEF Holds, Heads, Inserting
  <1>9. Counts(c, s)'
    <2>1. len \in [Chains -> 0..MAX_FILTERS_PER_CHAIN] /\ Len(s) \in Nat
      BY DEF Frame, TypeOK
    <2>2. len[c] = Len(s) + (IF c = Chain THEN 1 ELSE 0)
      BY <1>1, <1>7 DEF Holds, Counts
    <2>3. len'[c] = Len(s)
      BY <2>1, <2>2, <1>1
    <2> QED BY <2>3, <1>2 DEF Counts
  <1>10. Holds(c, s)'
    BY <1>1, <1>2, <1>5, <1>6, <1>7, <1>8, <1>9, Kept
  <1> QED BY <1>10

-----------------------------------------------------------------------------
(* Linking and unlinking a node.                                           *)

\* F and B are the links of s, forwards and backwards.
Wired(F, B, s) ==
  /\ \A k \in 1..(Len(s) - 1) : F[s[k]] = s[k + 1] /\ B[s[k + 1]] = s[k]
  /\ s # <<>> => B[s[1]] = NULL /\ F[s[Len(s)]] = NULL

\* The neighbours of the node at place k.
LEMMA Neighbours ==
  ASSUME NEW F, NEW B, NEW s \in Seq(Nodes), Wired(F, B, s)
  PROVE  \A k \in 1..Len(s) :
           /\ B[s[k]] = IF k = 1 THEN NULL ELSE s[k - 1]
           /\ F[s[k]] = IF k = Len(s) THEN NULL ELSE s[k + 1]
  <1> TAKE k \in 1..Len(s)
  <1>1. PICK n \in Nat : n = Len(s)
    OBVIOUS
  <1>2. s # <<>>
    BY <1>1
  <1>3. B[s[k]] = IF k = 1 THEN NULL ELSE s[k - 1]
    <2>1. CASE k = 1
      BY <2>1, <1>2 DEF Wired
    <2>2. CASE k # 1
      <3>1. PICK j \in 1..(n - 1) : j = k - 1 /\ k = j + 1
        BY <2>2, <1>1
      <3>2. B[s[j + 1]] = s[j]
        BY <1>1 DEF Wired
      <3> QED BY <2>2, <3>1, <3>2
    <2> QED BY <2>1, <2>2
  <1>4. F[s[k]] = IF k = n THEN NULL ELSE s[k + 1]
    <2>1. CASE k = n
      BY <2>1, <1>1, <1>2 DEF Wired
    <2>2. CASE k # n
      BY <2>2, <1>1 DEF Wired
    <2> QED BY <2>1, <2>2
  <1> QED BY <1>1, <1>3, <1>4

\* The links when e has been inserted before x.
LinkedFront(F, B, x, e) == IF B[x] = NULL THEN F ELSE [F EXCEPT ![B[x]] = e]
LinkedBack(B, x, e) == [B EXCEPT ![e] = B[x], ![x] = e]

\* The links of s, and a sequence t that has e before the node at place k.
Links(F, B, s) ==
  /\ F \in [Nodes -> MaybeNode] /\ B \in [Nodes -> MaybeNode]
  /\ s \in Seq(Nodes) /\ OneToOne(s) /\ Wired(F, B, s)
LinkAt(F, B, s, k, e, t) ==
  /\ Links(F, B, s) /\ k \in 1..Len(s) /\ e \in Nodes /\ e \notin Range(s)
  /\ F[e] = s[k] /\ t \in Seq(Nodes) /\ IsPut(t, s, k, e)

\* The stores of an insertion before the node at place k.
LEMMA LinkIn ==
  ASSUME NEW F, NEW B, NEW s, NEW k, NEW e, NEW t, LinkAt(F, B, s, k, e, t)
  PROVE  Wired(LinkedFront(F, B, s[k], e), LinkedBack(B, s[k], e), t)
         /\ t[Len(t)] = s[Len(s)]
  <1> USE DEF LinkAt, Links
  <1>0. PICK G : G = LinkedFront(F, B, s[k], e)
    OBVIOUS
  <1>a. PICK C : C = LinkedBack(B, s[k], e)
    OBVIOUS
  <1>1. PICK n \in Nat : n = Len(s) /\ DOMAIN s = 1..n /\ n + 1 = Len(t) /\ k \in 1..n
    <2>1. s \in Seq(Nodes) /\ k \in 1..Len(s) /\ Len(t) = Len(s) + 1
      BY DEF IsPut
    <2> HIDE DEF LinkAt
    <2> QED BY <2>1
  <1>2. /\ t[k] = e
        /\ \A j \in 1..(n + 1) : j < k => t[j] = s[j]
        /\ \A j \in 1..(n + 1) : j > k => t[j] = s[j - 1]
    BY <1>1 DEF IsPut
  <1>3. /\ \A j \in 1..n : s[j] \in Nodes /\ s[j] # e
        /\ \A i, j \in 1..n : s[i] = s[j] => i = j
    <2>1. \A j \in 1..n : s[j] \in Nodes /\ s[j] \in Range(s)
      BY <1>1 DEF Range
    <2>2. \A i, j \in 1..n : s[i] = s[j] => i = j
      BY <1>1 DEF OneToOne
    <2> QED BY <2>1, <2>2
  <1>4. /\ \A j \in 1..n : B[s[j]] = IF j = 1 THEN NULL ELSE s[j - 1]
        /\ \A j \in 1..n : F[s[j]] = IF j = n THEN NULL ELSE s[j + 1]
    <2>1. \A j \in 1..Len(s) :
            /\ B[s[j]] = IF j = 1 THEN NULL ELSE s[j - 1]
            /\ F[s[j]] = IF j = Len(s) THEN NULL ELSE s[j + 1]
      BY Neighbours
    <2> QED BY <1>1, <2>1
  <1>5. /\ G[e] = s[k]
        /\ \A j \in 1..n : G[s[j]] = IF j + 1 = k THEN e ELSE F[s[j]]
    <2>1. CASE k = 1
      <3>1. G = F
        BY <2>1, <1>0, <1>1, <1>4 DEF LinkedFront
      <3> QED BY <3>1, <2>1
    <2>2. CASE k # 1
      <3>1. PICK i \in 1..n : i + 1 = k /\ i = k - 1
        BY <2>2, <1>1
      <3>2. B[s[k]] = s[i] /\ s[i] # NULL
        BY <2>2, <3>1, <1>1, <1>3, <1>4, NullNoNode
      <3>3. G = [F EXCEPT ![s[i]] = e]
        BY <3>2, <1>0 DEF LinkedFront
      <3>4. G[e] = s[k]
        BY <3>3, <1>3
      <3>5. ASSUME NEW j \in 1..n PROVE G[s[j]] = IF j + 1 = k THEN e ELSE F[s[j]]
        <4>1. s[j] = s[i] <=> j + 1 = k
          BY <3>1, <1>3
        <4> QED BY <3>3, <4>1, <1>3
      <3> QED BY <3>4, <3>5
    <2> QED BY <2>1, <2>2
  <1>6. /\ C[e] = B[s[k]]
        /\ \A j \in 1..n : C[s[j]] = IF j = k THEN e ELSE B[s[j]]
    <2>1. s[k] # e /\ s[k] \in Nodes
      BY <1>1, <1>3
    <2>2. C[e] = B[s[k]] /\ C[s[k]] = e
      BY <2>1, <1>a DEF LinkedBack
    <2>3. ASSUME NEW j \in 1..n, j # k PROVE C[s[j]] = B[s[j]]
      <3>1. s[j] # s[k] /\ s[j] # e /\ s[j] \in Nodes
        BY <2>3, <1>1, <1>3
      <3> QED BY <3>1, <1>a DEF LinkedBack
    <2> QED BY <2>2, <2>3
  <1>7. ASSUME NEW j \in 1..n PROVE G[t[j]] = t[j + 1] /\ C[t[j + 1]] = t[j]
    <2>1. CASE j + 1 < k
      <3>1. t[j] = s[j] /\ t[j + 1] = s[j + 1] /\ j + 1 \in 1..n /\ j # n
        BY <2>1, <1>1, <1>2
      <3>2. G[s[j]] = s[j + 1]
        BY <3>1, <2>1, <1>1, <1>4, <1>5
      <3>3. C[s[j + 1]] = s[j]
        BY <3>1, <2>1, <1>1, <1>4, <1>6
      <3> QED BY <3>1, <3>2, <3>3
    <2>2. CASE j + 1 = k
      <3>1. t[j] = s[j] /\ t[j + 1] = e
        BY <2>2, <1>1, <1>2
      <3>2. C[e] = s[j]
        BY <2>2, <1>1, <1>4, <1>6
      <3> QED BY <3>1, <3>2, <2>2, <1>5
    <2>3. CASE j = k
      <3>1. t[j] = e /\ t[j + 1] = s[k]
        BY <2>3, <1>1, <1>2
      <3> QED BY <3>1, <1>1, <1>5, <1>6
    <2>4. CASE j > k
      <3>1. PICK i \in 1..n : i = j - 1 /\ j = i + 1
        BY <2>4, <1>1
      <3> HIDE DEF LinkAt, Links
      <3>2. t[j] = s[i] /\ t[j + 1] = s[j]
        <4>1. t[j] = s[j - 1]
          BY <2>4, <1>2
        <4>2. t[j + 1] = s[(j + 1) - 1]
          BY <2>4, <1>1, <1>2
        <4> QED BY <4>1, <4>2, <3>1
      <3>3. G[s[i]] = s[j]
        <4>1. G[s[i]] = F[s[i]]
          BY <2>4, <3>1, <1>5
        <4>2. i # n /\ F[s[i]] = s[i + 1]
          BY <3>1, <1>4
        <4> QED BY <4>1, <4>2, <3>1
      <3>4. C[s[j]] = s[i]
        BY <2>4, <3>1, <1>1, <1>4, <1>6
      <3> QED BY <3>2, <3>3, <3>4
    <2> QED BY <2>1, <2>2, <2>3, <2>4, <1>1
  <1>8. t[n + 1] = s[n] /\ G[t[n + 1]] = NULL
    <2>1. t[n + 1] = s[n]
      BY <1>1, <1>2
    <2>2. G[s[n]] = NULL
      BY <1>1, <1>4, <1>5
    <2> QED BY <2>1, <2>2
  <1>9. C[t[1]] = NULL
    <2>1. CASE k = 1
      BY <2>1, <1>1, <1>2, <1>4, <1>6
    <2>2. CASE k # 1
      <3>1. t[1] = s[1]
        BY <2>2, <1>1, <1>2
      <3> QED BY <3>1, <2>2, <1>1, <1>4, <1>6
    <2> QED BY <2>1, <2>2
  <1>10. Len(t) - 1 = n
    BY <1>1
  <1>11. Wired(G, C, t)
    BY <1>1, <1>7, <1>8, <1>9, <1>10 DEF Wired
  <1> QED BY <1>0, <1>a, <1>1, <1>8, <1>11

\* The links of s, which is not empty, and a sequence t that has e behind it.
LinkLast(F, B, s, e, t) ==
  /\ Links(F, B, s) /\ s # <<>> /\ e \in Nodes /\ e \notin Range(s)
  /\ F[e] = NULL /\ t \in Seq(Nodes) /\ IsPut(t, s, Len(s) + 1, e)

\* The links when e has been appended to x.
AppendedFront(F, x, e) == [F EXCEPT ![x] = e]
AppendedBack(B, x, e) == [B EXCEPT ![e] = x]

\* The stores of an append to a list that is not empty.
LEMMA LinkEnd ==
  ASSUME NEW F, NEW B, NEW s, NEW e, NEW t, LinkLast(F, B, s, e, t)
  PROVE  /\ Wired(AppendedFront(F, s[Len(s)], e), AppendedBack(B, s[Len(s)], e), t)
         /\ t[Len(t)] = e /\ t[1] = s[1]
  <1> USE DEF LinkLast, Links
  <1>0. PICK G : G = AppendedFront(F, s[Len(s)], e)
    OBVIOUS
  <1>a. PICK C : C = AppendedBack(B, s[Len(s)], e)
    OBVIOUS
  <1>1. PICK n \in Nat \ {0} : n = Len(s) /\ DOMAIN s = 1..n /\ n + 1 = Len(t)
    <2>1. s \in Seq(Nodes) /\ s # <<>> /\ Len(t) = Len(s) + 1
      BY DEF IsPut
    <2> HIDE DEF LinkLast
    <2> QED BY <2>1
  <1>2. t[n + 1] = e /\ \A j \in 1..n : t[j] = s[j]
    BY <1>1 DEF IsPut
  <1>3. /\ \A j \in 1..n : s[j] \in Nodes /\ s[j] # e
        /\ \A i, j \in 1..n : s[i] = s[j] => i = j
    <2>1. \A j \in 1..n : s[j] \in Nodes /\ s[j] \in Range(s)
      BY <1>1 DEF Range
    <2>2. \A i, j \in 1..n : s[i] = s[j] => i = j
      BY <1>1 DEF OneToOne
    <2> QED BY <2>1, <2>2
  <1>4. /\ \A j \in 1..n : B[s[j]] = IF j = 1 THEN NULL ELSE s[j - 1]
        /\ \A j \in 1..n : F[s[j]] = IF j = n THEN NULL ELSE s[j + 1]
    <2>1. \A j \in 1..Len(s) :
            /\ B[s[j]] = IF j = 1 THEN NULL ELSE s[j - 1]
            /\ F[s[j]] = IF j = Len(s) THEN NULL ELSE s[j + 1]
      BY Neighbours
    <2> QED BY <1>1, <2>1
  <1>5. n \in 1..n /\ s[n] \in Nodes /\ s[n] # e
    BY <1>3
  <1>6. G[e] = NULL /\ G[s[n]] = e /\ \A j \in 1..n : j # n => G[s[j]] = F[s[j]]
    BY <1>0, <1>1, <1>3, <1>5 DEF AppendedFront
  <1>7. C[e] = s[n] /\ \A j \in 1..n : C[s[j]] = B[s[j]]
    BY <1>a, <1>1, <1>3, <1>5 DEF AppendedBack
  <1>8. ASSUME NEW j \in 1..n PROVE G[t[j]] = t[j + 1] /\ C[t[j + 1]] = t[j]
    <2>1. CASE j = n
      BY <2>1, <1>2, <1>5, <1>6, <1>7
    <2>2. CASE j # n
      <3>1. j + 1 \in 1..n /\ t[j] = s[j] /\ t[j + 1] = s[j + 1]
        BY <2>2, <1>1, <1>2
      <3>2. G[s[j]] = s[j + 1]
        BY <2>2, <1>4, <1>6
      <3>3. C[s[j + 1]] = s[j]
        BY <3>1, <1>4, <1>7
      <3> QED BY <3>1, <3>2, <3>3
    <2> QED BY <2>1, <2>2
  <1>9. t[1] = s[1] /\ C[t[1]] = NULL
    BY <1>2, <1>4, <1>7
  <1>10. Len(t) - 1 = n
    BY <1>1
  <1>11. Wired(G, C, t)
    BY <1>1, <1>2, <1>6, <1>8, <1>9, <1>10 DEF Wired
  <1> QED BY <1>0, <1>a, <1>1, <1>2, <1>9, <1>11

\* The links when e has been taken out.
UnlinkedFront(F, B, e) == IF B[e] = NULL THEN F ELSE [F EXCEPT ![B[e]] = F[e]]
UnlinkedBack(F, B, e) == IF F[e] = NULL THEN B ELSE [B EXCEPT ![F[e]] = B[e]]

\* The links of s, and the sequence t without its node at place k.
LinkGone(F, B, s, k, t) ==
  Links(F, B, s) /\ k \in 1..Len(s) /\ t \in Seq(Nodes) /\ IsCut(t, s, k)

\* The stores of remove_klist_node_from_klist, for the node at place k.
LEMMA LinkOut ==
  ASSUME NEW F, NEW B, NEW s, NEW k, NEW t, LinkGone(F, B, s, k, t)
  PROVE  /\ Wired(UnlinkedFront(F, B, s[k]), UnlinkedBack(F, B, s[k]), t)
         /\ EndOf(t, 1) = IF k = 1 THEN F[s[k]] ELSE s[1]
         /\ EndOf(t, Len(t)) = IF k = Len(s) THEN B[s[k]] ELSE s[Len(s)]
  <1> USE DEF LinkGone, Links
  <1>0. PICK e : e = s[k]
    OBVIOUS
  <1>a. PICK G : G = UnlinkedFront(F, B, e)
    OBVIOUS
  <1>b. PICK C : C = UnlinkedBack(F, B, e)
    OBVIOUS
  <1>1. PICK n \in Nat \ {0} : n = Len(s) /\ DOMAIN s = 1..n /\ n - 1 = Len(t)
                               /\ k \in 1..n
    <2>1. s \in Seq(Nodes) /\ k \in 1..Len(s) /\ Len(t) = Len(s) - 1
      BY DEF IsCut
    <2> HIDE DEF LinkGone
    <2> QED BY <2>1
  <1>2. \A j \in 1..(n - 1) : t[j] = IF j < k THEN s[j] ELSE s[j + 1]
    BY <1>1 DEF IsCut
  <1>3. /\ \A j \in 1..n : s[j] \in Nodes /\ s[j] # NULL
        /\ \A i, j \in 1..n : s[i] = s[j] => i = j
    <2>1. s \in Seq(Nodes) /\ OneToOne(s)
      OBVIOUS
    <2> HIDE DEF LinkGone, Links
    <2>2. \A j \in 1..n : s[j] \in Nodes
      BY <1>1, <2>1
    <2>3. \A i, j \in 1..n : s[i] = s[j] => i = j
      BY <1>1, <2>1 DEF OneToOne
    <2> QED BY <2>2, <2>3, NullNoNode
  <1>4. /\ \A j \in 1..n : B[s[j]] = IF j = 1 THEN NULL ELSE s[j - 1]
        /\ \A j \in 1..n : F[s[j]] = IF j = n THEN NULL ELSE s[j + 1]
    <2>1. \A j \in 1..Len(s) :
            /\ B[s[j]] = IF j = 1 THEN NULL ELSE s[j - 1]
            /\ F[s[j]] = IF j = Len(s) THEN NULL ELSE s[j + 1]
      BY Neighbours
    <2> QED BY <1>1, <2>1
  <1>5. /\ B[e] = IF k = 1 THEN NULL ELSE s[k - 1]
        /\ F[e] = IF k = n THEN NULL ELSE s[k + 1]
    BY <1>0, <1>1, <1>4
  <1>6. ASSUME NEW j \in 1..n PROVE G[s[j]] = IF j + 1 = k THEN F[e] ELSE F[s[j]]
    <2>1. CASE k = 1
      <3>1. G = F
        BY <2>1, <1>a, <1>5 DEF UnlinkedFront
      <3> QED BY <3>1, <2>1
    <2>2. CASE k # 1
      <3>1. PICK i \in 1..n : i + 1 = k /\ i = k - 1
        BY <2>2, <1>1
      <3>2. B[e] = s[i] /\ s[i] # NULL
        BY <2>2, <3>1, <1>3, <1>5
      <3>3. G = [F EXCEPT ![s[i]] = F[e]]
        BY <3>2, <1>a DEF UnlinkedFront
      <3>4. s[j] = s[i] <=> j + 1 = k
        BY <3>1, <1>3
      <3> QED BY <3>3, <3>4, <1>3
    <2> QED BY <2>1, <2>2
  <1>7. ASSUME NEW j \in 1..n PROVE C[s[j]] = IF j - 1 = k THEN B[e] ELSE B[s[j]]
    <2>1. CASE k = n
      <3>1. C = B
        BY <2>1, <1>b, <1>5 DEF UnlinkedBack
      <3> QED BY <3>1, <2>1
    <2>2. CASE k # n
      <3>1. PICK i \in 1..n : i = k + 1
        BY <2>2, <1>1
      <3>2. F[e] = s[i] /\ s[i] # NULL
        BY <2>2, <3>1, <1>3, <1>5
      <3>3. C = [B EXCEPT ![s[i]] = B[e]]
        BY <3>2, <1>b DEF UnlinkedBack
      <3>4. s[j] = s[i] <=> j - 1 = k
        BY <3>1, <1>3
      <3> QED BY <3>3, <3>4, <1>3
    <2> QED BY <2>1, <2>2
  <1>8. ASSUME NEW j \in 1..((n - 1) - 1)
        PROVE  G[t[j]] = t[j + 1] /\ C[t[j + 1]] = t[j]
    <2>0. j \in 1..n /\ j + 1 \in 1..n /\ (j + 1) + 1 \in 1..n
          /\ j \in 1..(n - 1) /\ j + 1 \in 1..(n - 1)
      OBVIOUS
    <2>1. CASE j + 1 < k
      <3>1. t[j] = s[j] /\ t[j + 1] = s[j + 1]
        BY <2>0, <2>1, <1>1, <1>2
      <3>2. G[s[j]] = s[j + 1]
        BY <2>0, <2>1, <1>1, <1>4, <1>6
      <3>3. C[s[j + 1]] = s[j]
        BY <2>0, <2>1, <1>1, <1>4, <1>7
      <3> QED BY <3>1, <3>2, <3>3
    <2>2. CASE j + 1 = k
      <3>1. t[j] = s[j] /\ t[j + 1] = s[(j + 1) + 1]
        BY <2>0, <2>2, <1>1, <1>2
      <3>2. G[s[j]] = s[(j + 1) + 1]
        BY <2>0, <2>2, <1>1, <1>5, <1>6
      <3>3. C[s[(j + 1) + 1]] = s[j]
        BY <2>0, <2>2, <1>1, <1>5, <1>7
      <3> QED BY <3>1, <3>2, <3>3
    <2>3. CASE j + 1 > k
      <3>1. t[j] = s[j + 1] /\ t[j + 1] = s[(j + 1) + 1]
        BY <2>0, <2>3, <1>1, <1>2
      <3>2. G[s[j + 1]] = s[(j + 1) + 1]
        BY <2>0, <2>3, <1>1, <1>4, <1>6
      <3>3. C[s[(j + 1) + 1]] = s[j + 1]
        BY <2>0, <2>3, <1>1, <1>4, <1>7
      <3> QED BY <3>1, <3>2, <3>3
    <2> QED BY <2>1, <2>2, <2>3, <1>1
  <1>9. ASSUME n # 1
        PROVE  /\ t[1] = (IF k = 1 THEN s[2] ELSE s[1]) /\ C[t[1]] = NULL
               /\ t[n - 1] = (IF k = n THEN s[n - 1] ELSE s[n]) /\ G[t[n - 1]] = NULL
    <2>0. 1 \in 1..(n - 1) /\ n - 1 \in 1..(n - 1) /\ 2 \in 1..n /\ n - 1 \in 1..n
          /\ (n - 1) + 1 = n /\ n \in 1..n /\ 1 \in 1..n
      BY <1>9
    <2>1. t[1] = IF k = 1 THEN s[2] ELSE s[1]
      BY <2>0, <1>1, <1>2
    <2>2. t[n - 1] = IF k = n THEN s[n - 1] ELSE s[n]
      <3>1. t[n - 1] = IF n - 1 < k THEN s[n - 1] ELSE s[(n - 1) + 1]
        BY <2>0, <1>2
      <3>2. n - 1 < k <=> k = n
        BY <1>1
      <3> QED BY <2>0, <3>1, <3>2
    <2>3. C[t[1]] = NULL
      <3>1. CASE k = 1
        <4>1. C[s[2]] = B[e]
          BY <2>0, <3>1, <1>7
        <4> QED BY <4>1, <3>1, <2>1, <1>5
      <3>2. CASE k # 1
        <4>1. C[s[1]] = B[s[1]]
          BY <2>0, <3>2, <1>1, <1>7
        <4> QED BY <4>1, <3>2, <2>0, <2>1, <1>4
      <3> QED BY <3>1, <3>2
    <2>4. G[t[n - 1]] = NULL
      <3>1. CASE k = n
        <4>1. G[s[n - 1]] = F[e]
          BY <2>0, <3>1, <1>6
        <4> QED BY <4>1, <3>1, <2>2, <1>5
      <3>2. CASE k # n
        <4>1. n + 1 # k
          BY <1>1
        <4>2. G[s[n]] = F[s[n]]
          BY <2>0, <4>1, <1>6
        <4> QED BY <4>2, <3>2, <2>0, <2>2, <1>4
      <3> QED BY <3>1, <3>2
    <2> QED BY <2>1, <2>2, <2>3, <2>4
  <1>10. CASE n = 1
    <2>1. t = <<>> /\ k = 1
      BY <1>1, <1>10
    <2>2. B[e] = NULL /\ F[e] = NULL
      BY <2>1, <1>5, <1>10
    <2>3. Len(t) = 0
      BY <2>1
    <2>4. Wired(G, C, t)
      BY <2>1, <2>3 DEF Wired
    <2> QED BY <1>0, <1>a, <1>b, <1>1, <1>10, <2>1, <2>2, <2>3, <2>4 DEF EndOf
  <1>11. CASE n # 1
    <2>1. t # <<>> /\ Len(t) = n - 1
      BY <1>1, <1>11
    <2>2. Wired(G, C, t)
      BY <2>1, <1>8, <1>9, <1>11 DEF Wired
    <2>3. EndOf(t, 1) = IF k = 1 THEN F[e] ELSE s[1]
      BY <2>1, <1>5, <1>9, <1>11 DEF EndOf
    <2>4. EndOf(t, n - 1) = IF k = n THEN B[e] ELSE s[n]
      BY <2>1, <1>1, <1>5, <1>9, <1>11 DEF EndOf
    <2> QED BY <1>0, <1>a, <1>b, <1>1, <2>1, <2>2, <2>3, <2>4
  <1> QED BY <1>10, <1>11

-----------------------------------------------------------------------------
(* The stores after which a chain has one filter more or less.             *)

\* The new filter is due in its chain and in no other.
LEMMA Arrives ==
  ASSUME Frame, FreshOK, Ready, op.n <= NumberOfFilters(op.rule),
         UNCHANGED <<owner, manager_rule_list, refused>>, op'.rule = op.rule,
         \/ op'.pc = "count" /\ op'.n = op.n
         \/ op'.pc = "register" /\ op'.n = op.n + 1
  PROVE  /\ \A c : Expected(c)' = Expected(c) \cup (IF c = Chain THEN {New} ELSE {})
         /\ \A f : Priority(f)' = Priority(f)
  <1>1. New \in Nodes /\ op.n \in Nat /\ New[1] = op.rule /\ New[2] = op.n
    BY NewNode DEF Adding, Ready, New
  <1>2. New \notin refused
    BY <1>1 DEF FreshOK, Fresh, Adding, Ready
  <1>3. op.rule \in Range(manager_rule_list)
    BY DEF Frame, OpOK, Adding, Ready
  <1>4. ASSUME NEW f \in Nodes PROVE Due(f)' <=> Due(f) \/ f = New
    <2>1. Present(f[1])' <=> Present(f[1])
      BY DEF Present, Removing, Ready
    <2>2. CASE f = New
      <3>1. Present(f[1])'
        BY <2>2, <1>1, <1>3 DEF Present
      <3>2. Reached(f)'
        BY <2>2, <1>1 DEF Reached, Adding, Removing
      <3> QED BY <2>2, <3>1, <3>2, <1>2 DEF Due
    <2>3. CASE f # New
      <3>1. f[2] \in Nat /\ ~(f[1] = op.rule /\ f[2] = op.n)
        BY <2>3, NodeParts DEF New
      <3>2. Reached(f)' <=> Reached(f)
        BY <3>1, <1>1 DEF Reached, Adding, Removing, Ready
      <3> QED BY <2>1, <2>3, <3>2 DEF Due
    <2> QED BY <2>2, <2>3
  <1>5. ASSUME NEW c, NEW f \in Nodes
        PROVE  f \in Expected(c)' <=> f \in Expected(c) \/ (f = New /\ c = Chain)
    <2>1. NumberOfFilters(f[1])' = NumberOfFilters(f[1]) /\ At(f)' = At(f)
      BY DEF NumberOfFilters, At
    <2>2. f \in Expected(c) <=> f[2] <= NumberOfFilters(f[1]) /\ At(f) = c /\ Due(f)
      BY DEF Expected, Due
    <2>3. f \in Expected(c)' <=> /\ f[2] <= NumberOfFilters(f[1])'
                                 /\ At(f)' = c /\ Due(f)'
      BY DEF Expected, Due
    <2>4. f = New => f[2] <= NumberOfFilters(f[1]) /\ At(f) = Chain
      BY <1>1 DEF Chain
    <2> QED BY <1>4, <2>1, <2>2, <2>3, <2>4
  <1>6. \A c : Expected(c) \subseteq Nodes /\ Expected(c)' \subseteq Nodes
    BY DEF Expected
  <1>7. ASSUME NEW c
        PROVE  Expected(c)' = Expected(c) \cup (IF c = Chain THEN {New} ELSE {})
    <2>1. \A f \in Nodes :
            f \in Expected(c)' <=> f \in Expected(c) \/ (f = New /\ c = Chain)
      BY <1>5
    <2> QED BY <2>1, <1>1, <1>6
  <1> QED BY <1>7 DEF Priority

\* The filter that is being put in is younger than the ones in the chains.
LEMMA Youngest ==
  ASSUME Frame, Ready, NEW c, NEW f \in Expected(c)
  PROVE  f[1] < New[1] \/ (f[1] = New[1] /\ f[2] < New[2])
  <1>1. f \in Nodes /\ f[1] < id /\ Reached(f)
    BY ChainFilters DEF Expected
  <1>2. f[1] \in Int /\ f[2] \in Nat
    BY <1>1, NodeParts
  <1>3. New[1] = op.rule /\ New[2] = op.n /\ op.rule = id - 1 /\ id \in Nat
    BY DEF New, Frame, OpOK, TypeOK, Adding, Ready
  <1>4. f[1] = op.rule => f[2] < op.n
    BY <1>1 DEF Reached, Adding, Ready
  <1> QED BY <1>1, <1>2, <1>3, <1>4

\* Before the first filter of lower priority, or at the end, the new filter is
\* in its order.
LEMMA OrderedIn ==
  ASSUME Frame, Ready, op.n <= NumberOfFilters(op.rule),
         NEW s \in Seq(Nodes), Range(s) = Expected(Chain), Ordered(s),
         NEW k \in 1..(Len(s) + 1),
         k \in DOMAIN s => Outranks(New, s[k]),
         \A j \in DOMAIN s : j < k => ~Outranks(New, s[j]),
         NEW t \in Seq(Nodes), IsPut(t, s, k, New)
  PROVE  Ordered(t)
  <1>1. PICK n \in Nat : n = Len(s) /\ DOMAIN s = 1..n /\ DOMAIN t = 1..(n + 1)
                         /\ k \in 1..(n + 1)
    BY DEF IsPut
  <1>2. /\ t[k] = New
        /\ \A j \in 1..(n + 1) : j < k => t[j] = s[j]
        /\ \A j \in 1..(n + 1) : j > k => t[j] = s[j - 1]
    BY <1>1 DEF IsPut
  <1>3. PICK p \in Int : p = Priority(New)
    BY NewNode DEF Adding, Ready
  <1>4. ASSUME NEW j \in 1..n
        PROVE  /\ Priority(s[j]) \in Int
               /\ s[j][1] < New[1] \/ (s[j][1] = New[1] /\ s[j][2] < New[2])
    <2>1. s[j] \in Expected(Chain)
      BY <1>1 DEF Range
    <2> QED BY <2>1, ChainFilters, Youngest
  <1>5. \A i, j \in 1..n : i < j => Before(s[i], s[j])
    BY <1>1 DEF Ordered
  <1>6. ASSUME NEW j \in 1..n, j < k PROVE Before(s[j], New)
    <2>1. ~(p > Priority(s[j]))
      BY <1>1, <1>3, <1>6 DEF Outranks
    <2>2. Priority(s[j]) \in Int
      BY <1>4
    <2>3. Priority(s[j]) > p \/ Priority(s[j]) = p
      BY <2>1, <2>2
    <2> QED BY <2>3, <1>3, <1>4 DEF Before
  <1>7. ASSUME NEW j \in 1..n, ~(j < k) PROVE Before(New, s[j])
    <2>1. k \in 1..n /\ p > Priority(s[k])
      BY <1>1, <1>3, <1>7 DEF Outranks
    <2>2. Priority(s[k]) \in Int /\ Priority(s[j]) \in Int
      BY <2>1, <1>4
    <2>3. j = k \/ Before(s[k], s[j])
      BY <2>1, <1>5, <1>7
    <2>4. Priority(s[k]) >= Priority(s[j])
      BY <2>2, <2>3 DEF Before
    <2>5. p > Priority(s[j])
      BY <2>1, <2>2, <2>4
    <2> QED BY <2>5, <1>3 DEF Before
  <1> SUFFICES ASSUME NEW i \in 1..(n + 1), NEW j \in 1..(n + 1), i < j
               PROVE  Before(t[i], t[j])
    BY <1>1 DEF Ordered
  <1>8. CASE j < k
    <2>1. i \in 1..n /\ j \in 1..n /\ t[i] = s[i] /\ t[j] = s[j]
      BY <1>8, <1>1, <1>2
    <2> QED BY <2>1, <1>5
  <1>9. CASE j = k
    <2>1. i \in 1..n /\ i < k /\ t[i] = s[i] /\ t[j] = New
      BY <1>9, <1>1, <1>2
    <2> QED BY <2>1, <1>6
  <1>10. CASE j > k
    <2>1. PICK m \in 1..n : m = j - 1 /\ ~(m < k)
      BY <1>10, <1>1
    <2>2. t[j] = s[m]
      BY <1>10, <2>1, <1>2
    <2>3. CASE i < k
      <3>1. i \in 1..n /\ i < m /\ t[i] = s[i]
        BY <2>1, <2>3, <1>1, <1>2
      <3> QED BY <3>1, <2>2, <1>5
    <2>4. CASE i = k
      BY <2>1, <2>2, <2>4, <1>2, <1>7
    <2>5. CASE i > k
      <3>1. PICK l \in 1..n : l = i - 1
        BY <2>5, <1>1
      <3>2. t[i] = s[l] /\ l < m
        BY <2>1, <2>5, <3>1, <1>2
      <3> QED BY <2>2, <3>2, <1>5
    <2> QED BY <2>3, <2>4, <2>5, <1>1
  <1> QED BY <1>8, <1>9, <1>10, <1>1

\* The filters of two chains are different nodes.
LEMMA Apart ==
  ASSUME NEW c, NEW d, c # d, NEW f \in Expected(c)
  PROVE  f \notin Expected(d) /\ (d = Chain => f # New)
  BY DEF Expected, Chain

\* The order of a sequence depends on the priorities only.
LEMMA OrderedNext ==
  ASSUME NEW s, Ordered(s), \A f : Priority(f)' = Priority(f)
  PROVE  Ordered(s)'
  BY DEF Ordered, Before

\* klist_iterator_insert_before, last stores: the filter is in.
LEMMA InsertLinkChains ==
  ASSUME Frame, FreshOK, ChainsOK, InsertLink PROVE ChainsOK'
  <1>1. /\ op.pc = "insert_link" /\ op.n <= NumberOfFilters(op.rule)
        /\ UNCHANGED <<owner, manager_rule_list, refused>>
        /\ UNCHANGED <<first, last, len>>
        /\ front' = IF back[op.cur] = NULL THEN front
                    ELSE [front EXCEPT ![back[op.cur]] = New]
        /\ back' = [back EXCEPT ![New] = back[op.cur], ![op.cur] = New]
    BY DEF InsertLink, Registering, listVars
  <1>2. op'.pc = "count" /\ op'.rule = op.rule /\ op'.n = op.n
    BY DEF InsertLink, Frame, TypeOK
  <1>3. Ready /\ Inserting /\ New' = New /\ Chain' = Chain
    BY <1>1, <1>2 DEF Ready, Inserting, New, Chain, At
  <1>4. /\ \A c : Expected(c)' = Expected(c) \cup (IF c = Chain THEN {New} ELSE {})
        /\ \A f : Priority(f)' = Priority(f)
    BY <1>1, <1>2, <1>3, Arrives
  <1>5. New \in Nodes /\ Chain \in Chains /\ \A c : New \notin Expected(c)
    BY <1>1, <1>3, NewNode, NotYet DEF Adding
  <1>6. front \in [Nodes -> MaybeNode] /\ back \in [Nodes -> MaybeNode]
    BY DEF Frame, TypeOK
  <1>7. PICK s \in Seq(Nodes) : Holds(Chain, s)
    BY <1>5 DEF ChainsOK
  <1>8. /\ Range(s) = Expected(Chain) /\ Ordered(s) /\ Linked(Chain, s)
        /\ Heads(Chain, s) /\ Counts(Chain, s) /\ Slot(s)
    BY <1>1, <1>7 DEF Holds
  <1>9. PICK k \in DOMAIN s : /\ op.cur = s[k] /\ Outranks(New, s[k])
                              /\ \A j \in DOMAIN s : j < k => ~Outranks(New, s[j])
    BY <1>3, <1>8 DEF Slot
  <1>10. PICK n \in Nat \ {0} : n = Len(s) /\ k \in 1..n /\ DOMAIN s = 1..n
    OBVIOUS
  <1>11. OneToOne(s)
    BY <1>8, OrderedOneToOne
  <1>12. /\ Wired(front, back, s) /\ last[Chain] = s[n]
         /\ first[Chain] = IF op.cur = s[1] THEN New ELSE s[1]
         /\ len[Chain] = n
    <2>1. s # <<>>
      BY <1>10
    <2> QED BY <2>1, <1>1, <1>3, <1>8, <1>10
            DEF Wired, Linked, EndOf, Heads, Counts
  <1>13. back[s[k]] = IF k = 1 THEN NULL ELSE s[k - 1]
    <2>1. \A j \in 1..Len(s) :
            /\ back[s[j]] = IF j = 1 THEN NULL ELSE s[j - 1]
            /\ front[s[j]] = IF j = Len(s) THEN NULL ELSE s[j + 1]
      BY <1>12, Neighbours
    <2> QED BY <2>1, <1>10
  <1>14. k \in 1..Len(s) /\ k \in 1..(Len(s) + 1)
    BY <1>10
  <1>15. ASSUME NEW c \in Chains, c = Chain PROVE \E t \in Seq(Nodes) : Holds(c, t)'
    <2>1. PICK t \in Seq(Nodes) : IsPut(t, s, k, New) /\ Range(t) = Range(s) \cup {New}
      <3>1. \A j \in 1..(Len(s) + 1) : \A e \in Nodes :
              \E t \in Seq(Nodes) : IsPut(t, s, j, e) /\ Range(t) = Range(s) \cup {e}
        BY PutIn
      <3> QED BY <1>5, <1>14, <3>1, Zenon
    <2>2. front[New] = s[k]
      <3>1. New[1] = op.rule /\ New[2] = op.n /\ op.n \in Nat
        BY DEF New, Frame, TypeOK
      <3>2. Fresh(New)
        BY <3>1, <1>1 DEF Fresh, Adding
      <3> QED BY <3>2, <1>1, <1>5, <1>9 DEF FreshOK
    <2>3. New \notin Range(s)
      BY <1>5, <1>8
    <2>4. Wired(front', back', t) /\ t[Len(t)] = s[Len(s)]
      <3>1. /\ front' = LinkedFront(front, back, s[k], New)
            /\ back' = LinkedBack(back, s[k], New)
        BY <1>1, <1>9 DEF LinkedFront, LinkedBack
      <3>2. Wired(LinkedFront(front, back, s[k], New), LinkedBack(back, s[k], New), t)
            /\ t[Len(t)] = s[Len(s)]
        <4>1. OneToOne(s) /\ Wired(front, back, s) /\ k \in 1..Len(s) /\ New \in Nodes
              /\ New \notin Range(s) /\ front[New] = s[k] /\ IsPut(t, s, k, New)
          BY <1>5, <1>11, <1>12, <1>14, <2>1, <2>2, <2>3
        <4>2. LinkAt(front, back, s, k, New, t)
          BY <4>1, <1>6 DEF LinkAt, Links
        <4> QED BY <4>2, LinkIn
      <3> QED BY <3>1, <3>2
    <2>5. Ordered(t)'
      <3>1. Ordered(t)
        BY <1>1, <1>3, <1>8, <1>9, <1>14, <2>1, OrderedIn
      <3> QED BY <3>1, <1>4, OrderedNext
    <2>6. Range(t) = Expected(c)'
      BY <2>1, <1>4, <1>8, <1>15
    <2>7. Len(t) = n + 1 /\ t # <<>>
      BY <2>1, <1>10 DEF IsPut
    <2>8. Linked(c, t)'
      <3>1. last'[c] = EndOf(t, Len(t))
        BY <2>4, <2>7, <1>1, <1>10, <1>12, <1>15 DEF EndOf
      <3> QED BY <3>1, <2>4 DEF Linked, Wired
    <2>9. Heads(c, t)'
      <3>1. op.cur = s[1] <=> k = 1
        BY <1>9, <1>10, <1>11 DEF OneToOne
      <3>2. t[1] = IF k = 1 THEN New ELSE s[1]
        BY <2>1, <1>10 DEF IsPut
      <3> QED BY <3>1, <3>2, <2>7, <1>1, <1>2, <1>12, <1>15 DEF Heads, Inserting, EndOf
    <2>10. Counts(c, t)'
      BY <2>7, <1>1, <1>2, <1>3, <1>12, <1>15 DEF Counts
    <2>11. Slot(t)'
      BY <1>1, <1>2, <1>3, <1>8 DEF Slot, Inserting
    <2> QED BY <2>1, <2>5, <2>6, <2>8, <2>9, <2>10, <2>11 DEF Holds
  <1>16. ASSUME NEW c \in Chains, c # Chain PROVE \E t \in Seq(Nodes) : Holds(c, t)'
    <2>1. PICK t \in Seq(Nodes) : Holds(c, t)
      BY DEF ChainsOK
    <2>2. s[k] \in Expected(Chain) /\ (k # 1 => s[k - 1] \in Expected(Chain))
      BY <1>8, <1>10 DEF Range
    <2>3. ASSUME NEW f \in Expected(c)
          PROVE  front'[f] = front[f] /\ back'[f] = back[f]
      <3>1. f \in Nodes /\ f \notin Expected(Chain) /\ f # New
        BY <1>16, Apart DEF Expected
      <3>2. f # s[k] /\ (k # 1 => f # s[k - 1])
        BY <2>2, <3>1
      <3>3. back'[f] = back[f]
        BY <3>1, <3>2, <1>1, <1>6, <1>9
      <3>4. front'[f] = front[f]
        BY <3>1, <3>2, <1>1, <1>6, <1>9, <1>13
      <3> QED BY <3>3, <3>4
    <2>4. Heads(c, t)' /\ Counts(c, t)'
      BY <2>1, <1>1, <1>2, <1>3, <1>16 DEF Holds, Heads, Counts, Inserting
    <2>5. Expected(c)' = Expected(c)
      BY <1>4, <1>16
    <2>6. Holds(c, t)'
      BY <2>1, <2>3, <2>4, <2>5, <1>1, <1>3, <1>4, <1>16, Kept
    <2> QED BY <2>6
  <1> QED BY <1>15, <1>16 DEF ChainsOK

\* add_klist_node_to_klist: the filter is in, at the end.
LEMMA AppendChains ==
  ASSUME Frame, FreshOK, ChainsOK, add_klist_node_to_klist PROVE ChainsOK'
  <1>1. /\ op.pc = "append" /\ op.n <= NumberOfFilters(op.rule)
        /\ UNCHANGED <<owner, manager_rule_list, refused>>
        /\ UNCHANGED len /\ last' = [last EXCEPT ![Chain] = New]
        /\ IF first[Chain] = NULL
           THEN first' = [first EXCEPT ![Chain] = New] /\ UNCHANGED <<front, back>>
           ELSE /\ back' = [back EXCEPT ![New] = last[Chain]]
                /\ front' = [front EXCEPT ![last[Chain]] = New]
                /\ UNCHANGED first
    BY DEF add_klist_node_to_klist, Registering, listVars
  <1>2. op'.pc = "register" /\ op'.n = op.n + 1 /\ op'.rule = op.rule
    BY Advanced DEF add_klist_node_to_klist, Frame, TypeOK, OpType, Labels
  <1>3. Ready /\ New[1] = op.rule /\ New[2] = op.n /\ op.n \in Nat
    BY <1>1 DEF Ready, New, Frame, TypeOK
  <1>4. /\ \A c : Expected(c)' = Expected(c) \cup (IF c = Chain THEN {New} ELSE {})
        /\ \A f : Priority(f)' = Priority(f)
    BY <1>1, <1>2, <1>3, Arrives
  <1>5. New \in Nodes /\ Chain \in Chains /\ \A c : New \notin Expected(c)
    BY <1>1, <1>3, NewNode, NotYet DEF Adding
  <1>6. /\ front \in [Nodes -> MaybeNode] /\ back \in [Nodes -> MaybeNode]
        /\ first \in [Chains -> MaybeNode] /\ last \in [Chains -> MaybeNode]
    BY DEF Frame, TypeOK
  <1>7. front[New] = NULL /\ back[New] = NULL
    <2>1. Fresh(New)
      BY <1>1, <1>3 DEF Fresh, Adding
    <2> QED BY <2>1, <1>1, <1>5 DEF FreshOK
  <1>8. PICK s \in Seq(Nodes) : Holds(Chain, s)
    BY <1>5 DEF ChainsOK
  <1>9. /\ Range(s) = Expected(Chain) /\ Ordered(s) /\ Linked(Chain, s)
        /\ Heads(Chain, s) /\ Counts(Chain, s)
        /\ \A j \in DOMAIN s : ~Outranks(New, s[j])
    BY <1>1, <1>8 DEF Holds, Slot
  <1>10. PICK n \in Nat : n = Len(s) /\ DOMAIN s = 1..n
    OBVIOUS
  <1>11. OneToOne(s)
    BY <1>9, OrderedOneToOne
  <1>12. /\ Wired(front, back, s) /\ last[Chain] = EndOf(s, n)
         /\ first[Chain] = EndOf(s, 1) /\ len[Chain] = n + 1
    BY <1>1, <1>9, <1>10 DEF Wired, Linked, Heads, Counts, Inserting
  <1>13. ASSUME NEW c \in Chains, c = Chain PROVE \E t \in Seq(Nodes) : Holds(c, t)'
    <2>1. PICK t \in Seq(Nodes) : /\ IsPut(t, s, Len(s) + 1, New)
                                  /\ Range(t) = Range(s) \cup {New}
      <3>1. \A j \in 1..(Len(s) + 1) : \A e \in Nodes :
              \E t \in Seq(Nodes) : IsPut(t, s, j, e) /\ Range(t) = Range(s) \cup {e}
        BY PutIn
      <3>2. Len(s) + 1 \in 1..(Len(s) + 1)
        BY <1>10
      <3> QED BY <1>5, <3>1, <3>2, Zenon
    <2>2. Len(t) = n + 1 /\ t # <<>> /\ t[n + 1] = New
      BY <2>1, <1>10 DEF IsPut
    <2>3. Ordered(t)'
      <3>1. Len(s) + 1 \in 1..(Len(s) + 1) /\ Len(s) + 1 \notin DOMAIN s
        BY <1>10
      <3>2. Ordered(t)
        BY <1>1, <1>3, <1>9, <2>1, <3>1, OrderedIn
      <3> QED BY <3>2, <1>4, OrderedNext
    <2>4. Range(t) = Expected(c)'
      BY <2>1, <1>4, <1>9, <1>13
    <2>5. Wired(front', back', t) /\ first'[c] = t[1]
      <3>1. CASE s = <<>>
        <4>1. first[Chain] = NULL /\ n = 0
          BY <3>1, <1>10, <1>12 DEF EndOf
        <4>2. front' = front /\ back' = back /\ first'[Chain] = New
          BY <4>1, <1>1, <1>5, <1>6
        <4>3. Len(t) = 1 /\ t[1] = New
          BY <4>1, <2>2
        <4> QED BY <4>2, <4>3, <1>7, <1>13 DEF Wired
      <3>2. CASE s # <<>>
        <4>1. s[1] \in Nodes /\ first[Chain] = s[1] /\ last[Chain] = s[Len(s)]
          BY <3>2, <1>10, <1>12 DEF EndOf
        <4>2. first[Chain] # NULL
          BY <4>1, NullNoNode
        <4>3. /\ front' = AppendedFront(front, s[Len(s)], New)
              /\ back' = AppendedBack(back, s[Len(s)], New) /\ UNCHANGED first
          BY <4>1, <4>2, <1>1 DEF AppendedFront, AppendedBack
        <4>4. LinkLast(front, back, s, New, t)
          BY <3>2, <1>5, <1>6, <1>7, <1>9, <1>11, <1>12, <2>1 DEF LinkLast, Links
        <4>5. /\ Wired(AppendedFront(front, s[Len(s)], New),
                       AppendedBack(back, s[Len(s)], New), t)
              /\ t[1] = s[1]
          BY <4>4, LinkEnd
        <4> QED BY <4>1, <4>3, <4>5, <1>13
      <3> QED BY <3>1, <3>2
    <2>6. Linked(c, t)'
      <3>1. last'[c] = EndOf(t, Len(t))
        BY <2>2, <1>1, <1>5, <1>6, <1>13 DEF EndOf
      <3> QED BY <3>1, <2>5 DEF Linked, Wired
    <2>7. Heads(c, t)'
      BY <2>2, <2>5, <1>2 DEF Heads, Inserting, EndOf
    <2>8. Counts(c, t)'
      BY <2>2, <1>1, <1>2, <1>12, <1>13 DEF Counts
    <2> QED BY <2>1, <2>3, <2>4, <2>6, <2>7, <2>8, <1>2 DEF Holds
  <1>14. ASSUME NEW c \in Chains, c # Chain PROVE \E t \in Seq(Nodes) : Holds(c, t)'
    <2>1. PICK t \in Seq(Nodes) : Holds(c, t)
      BY DEF ChainsOK
    <2>2. ASSUME NEW f \in Expected(c)
          PROVE  front'[f] = front[f] /\ back'[f] = back[f]
      <3>1. f \in Nodes /\ f \notin Expected(Chain) /\ f # New
        BY <1>14, Apart DEF Expected
      <3>2. CASE first[Chain] = NULL
        BY <3>2, <1>1
      <3>3. CASE first[Chain] # NULL
        <4>1. s # <<>>
          BY <3>3, <1>12 DEF EndOf
        <4>2. last[Chain] \in Expected(Chain)
          BY <4>1, <1>9, <1>10, <1>12 DEF EndOf, Range
        <4>3. f # last[Chain]
          BY <4>2, <3>1
        <4> QED BY <3>1, <3>3, <4>3, <1>1, <1>6
      <3> QED BY <3>2, <3>3
    <2>3. first'[c] = first[c] /\ last'[c] = last[c] /\ len'[c] = len[c]
      BY <1>1, <1>6, <1>14
    <2>4. Heads(c, t)' /\ Counts(c, t)'
      BY <2>1, <2>3, <1>1, <1>2, <1>14 DEF Holds, Heads, Counts, Inserting
    <2>5. Expected(c)' = Expected(c)
      BY <1>4, <1>14
    <2>6. Holds(c, t)'
      BY <2>1, <2>2, <2>3, <2>4, <2>5, <1>2, <1>4, Kept
    <2> QED BY <2>6
  <1> QED BY <1>13, <1>14 DEF ChainsOK

\* A chain in order stays in order without the filter at place k.
LEMMA OrderedOut ==
  ASSUME NEW s \in Seq(Nodes), Ordered(s), NEW k \in 1..Len(s),
         NEW t \in Seq(Nodes), IsCut(t, s, k)
  PROVE  Ordered(t)
  <1>1. PICK n \in Nat : n = Len(s) /\ DOMAIN s = 1..n /\ DOMAIN t = 1..(n - 1)
                         /\ k \in 1..n
    BY DEF IsCut
  <1>2. \A j \in 1..(n - 1) : t[j] = IF j < k THEN s[j] ELSE s[j + 1]
    BY <1>1 DEF IsCut
  <1> SUFFICES ASSUME NEW i \in 1..(n - 1), NEW j \in 1..(n - 1), i < j
               PROVE  Before(t[i], t[j])
    BY <1>1 DEF Ordered
  <1>3. PICK x \in 1..n : t[i] = s[x] /\ x = IF i < k THEN i ELSE i + 1
    BY <1>2
  <1>4. PICK y \in 1..n : t[j] = s[y] /\ y = IF j < k THEN j ELSE j + 1
    BY <1>2
  <1>5. x < y
    BY <1>1, <1>3, <1>4
  <1> QED BY <1>1, <1>3, <1>4, <1>5 DEF Ordered

\* unregister_filter: the filter is out of its chain if it was in it.
LEMMA UnregisterChains ==
  ASSUME Frame, ChainsOK, unregister_filter PROVE ChainsOK'
  <1>1. /\ op.pc = "unregister" /\ op.n <= NumberOfFilters(op.rule)
        /\ UNCHANGED <<owner, manager_rule_list, refused>> /\ UNCHANGED len
    BY DEF unregister_filter, Unregistering, listVars
  <1>2. op'.pc \in {"uncount", "free"} /\ op'.rule = op.rule /\ op'.n = op.n
        /\ (New \in Range(Filters(Chain)) <=> op'.pc = "uncount")
    BY DEF unregister_filter, Frame, TypeOK
  <1>3. Calm /\ New \in Nodes /\ Chain \in Chains /\ New[1] = op.rule
        /\ New[2] = op.n /\ op.n \in Nat
    BY <1>1, NewNode DEF Calm, Removing, New
  <1>4. New' = New /\ Chain' = Chain /\ \A f : Priority(f)' = Priority(f)
    BY <1>1, <1>2 DEF New, Chain, At, Priority
  <1>5. ASSUME NEW f \in Nodes PROVE Due(f)' <=> Due(f) /\ f # New
    <2>1. Present(f[1])' <=> Present(f[1])
      BY <1>1, <1>2 DEF Present, Removing
    <2>2. f[2] \in Nat /\ (f = New <=> f[1] = op.rule /\ f[2] = op.n)
      BY NodeParts DEF New
    <2>3. Reached(f)' <=> Reached(f) /\ f # New
      BY <2>2, <1>1, <1>2, <1>3 DEF Reached, Adding, Removing
    <2> QED BY <2>1, <2>3, <1>1 DEF Due
  <1>6. ASSUME NEW c PROVE Expected(c)' = Expected(c) \ {New}
    <2>1. ASSUME NEW f \in Nodes PROVE f \in Expected(c)' <=> f \in Expected(c) \ {New}
      <3>1. NumberOfFilters(f[1])' = NumberOfFilters(f[1]) /\ At(f)' = At(f)
        BY <1>1 DEF NumberOfFilters, At
      <3>2. f \in Expected(c) <=> f[2] <= NumberOfFilters(f[1]) /\ At(f) = c /\ Due(f)
        BY DEF Expected, Due
      <3>3. f \in Expected(c)' <=> /\ f[2] <= NumberOfFilters(f[1])'
                                   /\ At(f)' = c /\ Due(f)'
        BY DEF Expected, Due
      <3> QED BY <1>5, <3>1, <3>2, <3>3
    <2> QED BY <2>1 DEF Expected
  <1>7. /\ front \in [Nodes -> MaybeNode] /\ back \in [Nodes -> MaybeNode]
        /\ first \in [Chains -> MaybeNode] /\ last \in [Chains -> MaybeNode]
    BY DEF Frame, TypeOK
  <1>8. PICK s \in Seq(Nodes) : Holds(Chain, s)
    BY <1>3 DEF ChainsOK
  <1>9. Filters(Chain) = s /\ OneToOne(s)
    BY <1>3, <1>8, ChainIs DEF HeadIsNew, Inserting, Calm
  <1>10. Range(s) = Expected(Chain)
    BY <1>8 DEF Holds
  <1>11. CASE New \notin Range(s)
    <2>1. UNCHANGED <<first, last, front, back>> /\ op'.pc = "free"
      BY <1>11, <1>9, <1>2 DEF unregister_filter
    <2>2. ASSUME NEW c PROVE New \notin Expected(c)
      BY <1>10, <1>11 DEF Expected, Chain
    <2>3. \A c : Expected(c)' = Expected(c)
      BY <2>2, <1>6
    <2>4. Calm' /\ UNCHANGED chainVars
      BY <2>1, <1>1 DEF Calm, chainVars
    <2> QED BY <2>3, <2>4, <1>3, <1>4, CalmStep
  <1>12. CASE New \in Range(s)
    <2>1. Unlink(New) /\ op'.pc = "uncount"
      BY <1>12, <1>9, <1>2 DEF unregister_filter
    <2>2. /\ first' = IF first[Chain] = New THEN [first EXCEPT ![Chain] = front[New]]
                      ELSE first
          /\ last' = IF last[Chain] = New THEN [last EXCEPT ![Chain] = back[New]]
                     ELSE last
          /\ front' = UnlinkedFront(front, back, New)
          /\ back' = UnlinkedBack(front, back, New)
      BY <2>1 DEF Unlink, UnlinkedFront, UnlinkedBack
    <2>3. PICK k \in 1..Len(s) : s[k] = New
      BY <1>12 DEF Range
    <2>4. PICK n \in Nat \ {0} : n = Len(s) /\ DOMAIN s = 1..n /\ k \in 1..n /\ s # <<>>
      OBVIOUS
    <2>5. /\ Ordered(s) /\ Wired(front, back, s) /\ last[Chain] = s[n]
          /\ first[Chain] = s[1] /\ len[Chain] = n
      <3>1. first[Chain] = EndOf(s, 1) /\ len[Chain] = Len(s)
        BY <1>3, <1>8, CalmChains DEF Holds
      <3> QED BY <3>1, <1>8, <2>4 DEF Holds, Linked, Wired, EndOf
    <2>6. PICK t \in Seq(Nodes) : t = RemoveAt(s, k)
      BY CutOut
    <2>7. IsCut(t, s, k)
      BY <2>6, CutOut
    <2>8. Range(t) = Range(s) \ {New}
      BY <2>3, <2>7, <1>9, CutRange
    <2>9. Ordered(t)'
      BY <2>5, <2>7, <1>4, OrderedOut, OrderedNext
    <2>10. /\ Wired(front', back', t)
           /\ EndOf(t, 1) = IF k = 1 THEN front[New] ELSE s[1]
           /\ EndOf(t, Len(t)) = IF k = n THEN back[New] ELSE s[n]
      <3>1. LinkGone(front, back, s, k, t)
        BY <2>5, <2>7, <1>7, <1>9 DEF LinkGone, Links
      <3>2. /\ Wired(UnlinkedFront(front, back, s[k]), UnlinkedBack(front, back, s[k]), t)
            /\ EndOf(t, 1) = IF k = 1 THEN front[s[k]] ELSE s[1]
            /\ EndOf(t, Len(t)) = IF k = Len(s) THEN back[s[k]] ELSE s[Len(s)]
        BY <3>1, LinkOut
      <3> QED BY <3>2, <2>2, <2>3, <2>4
    <2>11. (s[1] = New <=> k = 1) /\ (s[n] = New <=> k = n)
      BY <1>9, <2>3, <2>4 DEF OneToOne
    <2>12. Len(t) = n - 1
      BY <2>4, <2>7 DEF IsCut
    <2>13. ASSUME NEW c \in Chains, c = Chain PROVE \E u \in Seq(Nodes) : Holds(c, u)'
      <3>1. first'[c] = EndOf(t, 1) /\ last'[c] = EndOf(t, Len(t))
        BY <2>2, <2>5, <2>10, <2>11, <2>13, <1>7
      <3>2. Linked(c, t)' /\ Heads(c, t)'
        BY <3>1, <2>1, <2>10 DEF Linked, Wired, Heads, Inserting
      <3>3. Counts(c, t)'
        BY <2>1, <2>5, <2>12, <2>13, <1>1, <1>4 DEF Counts
      <3>4. Range(t) = Expected(c)'
        BY <2>8, <2>13, <1>6, <1>10
      <3> QED BY <3>2, <3>3, <3>4, <2>1, <2>9 DEF Holds
    <2>14. ASSUME NEW c \in Chains, c # Chain PROVE \E u \in Seq(Nodes) : Holds(c, u)'
      <3>1. PICK u \in Seq(Nodes) : Holds(c, u)
        BY DEF ChainsOK
      <3>2. \A j \in 1..Len(s) :
              /\ back[s[j]] = IF j = 1 THEN NULL ELSE s[j - 1]
              /\ front[s[j]] = IF j = Len(s) THEN NULL ELSE s[j + 1]
        BY <2>5, Neighbours
      <3>3. (back[New] = NULL \/ back[New] \in Range(s))
            /\ (front[New] = NULL \/ front[New] \in Range(s))
        <4>1. \A j \in 1..n : s[j] \in Range(s)
          BY <2>4 DEF Range
        <4>2. back[New] = (IF k = 1 THEN NULL ELSE s[k - 1])
              /\ front[New] = (IF k = n THEN NULL ELSE s[k + 1])
          BY <2>3, <2>4, <3>2
        <4>3. (k # 1 => k - 1 \in 1..n) /\ (k # n => k + 1 \in 1..n)
          BY <2>4
        <4> QED BY <4>1, <4>2, <4>3
      <3>4. ASSUME NEW f \in Expected(c)
            PROVE  front'[f] = front[f] /\ back'[f] = back[f]
        <4>1. f \in Nodes /\ f \notin Range(s)
          BY <2>14, <1>10, Apart DEF Expected
        <4> QED BY <4>1, <3>3, <2>2, <1>7 DEF UnlinkedFront, UnlinkedBack
      <3>5. first'[c] = first[c] /\ last'[c] = last[c] /\ len'[c] = len[c]
        BY <2>2, <2>14, <1>1, <1>7
      <3>6. Heads(c, u)' /\ Counts(c, u)'
        BY <3>1, <3>5, <2>1, <2>14, <1>1, <1>4 DEF Holds, Heads, Counts, Inserting
      <3>7. Expected(c)' = Expected(c)
        BY <2>14, <1>6, Apart
      <3>8. Holds(c, u)'
        BY <3>1, <3>4, <3>5, <3>6, <3>7, <2>1, <1>4, Kept
      <3> QED BY <3>8
    <2> QED BY <2>13, <2>14 DEF ChainsOK
  <1> QED BY <1>11, <1>12

\* Every step leaves each chain with the sequence it is to hold.
LEMMA ChainsStep ==
  ASSUME Frame, FreshOK, ChainsOK, [Next]_vars
  PROVE  ChainsOK'
  <1>1. ASSUME NEW i \in Interceptors, register_interceptor(i) PROVE ChainsOK'
    BY <1>1, ChainsElse DEF register_interceptor, memVars
  <1>2. ASSUME NEW i \in Interceptors, unregister_interceptor(i) PROVE ChainsOK'
    <2>1. op.pc = "idle" /\ op'.pc = "sweep"
          /\ UNCHANGED <<chainVars, owner, refused, manager_rule_list>>
      BY <1>2 DEF unregister_interceptor, Idle, listVars, memVars
    <2> QED BY <2>1, SweepChains
  <1>3. ASSUME NEW r \in Ids, remove_rule(r) PROVE ChainsOK'
    <2>1. /\ r \in Range(manager_rule_list) /\ op.pc = "idle"
          /\ manager_rule_list' = RemoveFirst(manager_rule_list, r)
          /\ op'.pc = "unregister" /\ op'.rule = r /\ op'.n = 1
          /\ UNCHANGED <<chainVars, owner, refused>>
      BY <1>3 DEF remove_rule, Idle, memVars
    <2>2. Range(manager_rule_list') = Range(manager_rule_list) \ {r}
      BY <2>1, Without DEF Frame, TypeOK, RulesOK
    <2> QED BY <2>1, <2>2, RemoveChains
  <1>4. CASE SweepRemoves
    <2>1. /\ manager_rule_list # <<>> /\ op.pc = "sweep"
          /\ manager_rule_list' = Tail(manager_rule_list)
          /\ op'.pc = "unregister" /\ op'.rule = Head(manager_rule_list) /\ op'.n = 1
          /\ UNCHANGED <<chainVars, owner, refused>>
      BY <1>4 DEF SweepRemoves, Frame, TypeOK, memVars
    <2>2. /\ Head(manager_rule_list) \in Range(manager_rule_list)
          /\ Range(manager_rule_list')
               = Range(manager_rule_list) \ {Head(manager_rule_list)}
      BY <2>1, Beheaded DEF Frame, TypeOK, RulesOK
    <2>3. Head(manager_rule_list) \in Ids
      BY <2>1 DEF Frame, TypeOK
    <2> QED BY <2>1, <2>2, <2>3, RemoveChains
  <1>5. CASE SweepSpins
    BY <1>5, ChainsElse DEF SweepSpins, vars, listVars, memVars
  <1>6. CASE SweepEnds
    <2>1. op.pc = "sweep" /\ op'.pc = "idle"
          /\ UNCHANGED <<chainVars, owner, refused, manager_rule_list>>
      BY <1>6 DEF SweepEnds, Idle, memVars
    <2> QED BY <2>1, SweepChains
  <1>7. ASSUME NEW c \in Chains, NEW m \in SUBSET Ids, nf_hook(c, m) PROVE ChainsOK'
    BY <1>7, ChainsElse DEF nf_hook, listVars, memVars
  <1>8. CASE procfile_read
    BY <1>8, ChainsElse DEF procfile_read, listVars, memVars
  <1>9. CASE UNCHANGED vars
    BY <1>9, ChainsElse DEF vars, listVars, memVars
  <1> QED BY <1>1, <1>2, <1>3, <1>4, <1>5, <1>6, <1>7, <1>8, <1>9, CreateChains,
             ChainFullChains, InsertFirstChains, InsertFrontChains, InsertLinkChains,
             InsertCountChains, AppendCountChains, AppendChains, RegisteredChains,
             UnregisterChains, UncountChains, FreeChains, RuleRemovedChains
          DEF Next, Continue

-----------------------------------------------------------------------------
(* The nodes that have not been used, and the types of the pointers.       *)

\* The neighbours of a filter in a chain are in that chain.
LEMMA Inside ==
  ASSUME Frame, ChainsOK, NEW c \in Chains, NEW f \in Expected(c)
  PROVE  /\ back[f] = NULL \/ back[f] \in Expected(c)
         /\ front[f] = NULL \/ front[f] \in Expected(c)
  <1>1. PICK s \in Seq(Nodes) : Holds(c, s)
    BY DEF ChainsOK
  <1>2. Range(s) = Expected(c) /\ Wired(front, back, s)
    BY <1>1 DEF Holds, Linked, Wired
  <1>3. PICK n \in Nat : n = Len(s) /\ DOMAIN s = 1..n
    OBVIOUS
  <1>4. PICK k \in 1..n : s[k] = f
    BY <1>2, <1>3 DEF Range
  <1>5. \A j \in 1..Len(s) : /\ back[s[j]] = IF j = 1 THEN NULL ELSE s[j - 1]
                             /\ front[s[j]] = IF j = Len(s) THEN NULL ELSE s[j + 1]
    BY <1>2, Neighbours
  <1>6. back[f] = (IF k = 1 THEN NULL ELSE s[k - 1])
        /\ front[f] = (IF k = n THEN NULL ELSE s[k + 1])
    BY <1>3, <1>4, <1>5
  <1>7. (k # 1 => k - 1 \in 1..n) /\ (k # n => k + 1 \in 1..n)
    OBVIOUS
  <1>8. \A j \in 1..n : s[j] \in Expected(c)
    BY <1>2, <1>3 DEF Range
  <1> QED BY <1>6, <1>7, <1>8

\* The place where a filter is being inserted is in the chain.
LEMMA CurInside ==
  ASSUME Frame, ChainsOK, op.pc = "insert_link", op.n <= NumberOfFilters(op.rule)
  PROVE  /\ op.cur \in Expected(Chain) /\ len[Chain] \in 1..(MAX_FILTERS_PER_CHAIN - 1)
         /\ back[op.cur] = NULL \/ back[op.cur] \in Expected(Chain)
  <1>1. Chain \in Chains
    BY NewNode DEF Adding
  <1>2. PICK s \in Seq(Nodes) : Holds(Chain, s)
    BY <1>1 DEF ChainsOK
  <1>3. Range(s) = Expected(Chain) /\ Slot(s)
    BY <1>2 DEF Holds
  <1>4. op.cur \in Range(s)
    BY <1>3 DEF Slot, Inserting, Range
  <1> QED BY <1>1, <1>3, <1>4, Inside DEF Slot

\* A chain that has a first filter has a last one.
LEMMA LastInside ==
  ASSUME Frame, ChainsOK, op.pc = "append", op.n <= NumberOfFilters(op.rule),
         first[Chain] # NULL
  PROVE  last[Chain] \in Expected(Chain)
  <1>1. Chain \in Chains
    BY NewNode DEF Adding
  <1>2. PICK s \in Seq(Nodes) : Holds(Chain, s)
    BY <1>1 DEF ChainsOK
  <1>3. /\ Range(s) = Expected(Chain) /\ first[Chain] = EndOf(s, 1)
        /\ last[Chain] = EndOf(s, Len(s))
    BY <1>2 DEF Holds, Heads, Linked, Inserting
  <1>4. s # <<>> /\ Len(s) \in DOMAIN s
    BY <1>3 DEF EndOf
  <1> QED BY <1>3, <1>4 DEF EndOf, Range

\* A filter that unregister_filter finds is in its chain.
LEMMA FoundInside ==
  ASSUME Frame, ChainsOK, op.pc = "unregister", op.n <= NumberOfFilters(op.rule)
  PROVE  New \in Range(Filters(Chain)) <=> New \in Expected(Chain)
  <1>1. Chain \in Chains
    BY NewNode DEF Removing
  <1>2. PICK s \in Seq(Nodes) : Holds(Chain, s)
    BY <1>1 DEF ChainsOK
  <1>3. Filters(Chain) = s
    BY <1>1, <1>2, ChainIs DEF HeadIsNew, Inserting
  <1> QED BY <1>2, <1>3 DEF Holds

\* A node of a chain is not fresh.
LEMMA NotFresh ==
  ASSUME Frame, NEW c, NEW f \in Expected(c)
  PROVE  ~Fresh(f)
  <1>1. f \in Nodes /\ f[1] < id /\ Reached(f)
    BY ChainFilters DEF Expected
  <1>2. f[1] \in Int /\ f[2] \in Nat /\ id \in Nat /\ op.n \in Nat
    BY <1>1, NodeParts DEF Frame, TypeOK
  <1> QED BY <1>1, <1>2 DEF Fresh, Reached

ChainTypes ==
  /\ first \in [Chains -> MaybeNode] /\ last \in [Chains -> MaybeNode]
  /\ front \in [Nodes -> MaybeNode] /\ back \in [Nodes -> MaybeNode]
  /\ len \in [Chains -> 0..MAX_FILTERS_PER_CHAIN]

\* The steps that change a chain.
ChainStores ==
  \/ InsertFirst \/ InsertFront \/ InsertLink \/ InsertCount
  \/ AppendCount \/ add_klist_node_to_klist \/ unregister_filter \/ Uncount

\* The other steps leave the chains alone.
LEMMA NoStore ==
  ASSUME [Next]_vars, ~ChainStores
  PROVE  UNCHANGED chainVars
  <1> USE DEF vars, chainVars
  <1>1. ASSUME NEW i \in Interceptors,
               register_interceptor(i) \/ create_rule(i) \/ unregister_interceptor(i)
        PROVE  UNCHANGED chainVars
    BY <1>1 DEF register_interceptor, create_rule, unregister_interceptor
  <1>2. ASSUME NEW r \in Ids, remove_rule(r) PROVE UNCHANGED chainVars
    BY <1>2 DEF remove_rule
  <1>3. CASE SweepRemoves \/ SweepSpins \/ SweepEnds
    BY <1>3 DEF SweepRemoves, SweepSpins, SweepEnds
  <1>4. CASE ChainFull \/ Registered \/ FreeFilter \/ RuleRemoved
    BY <1>4 DEF ChainFull, Registered, FreeFilter, RuleRemoved
  <1>5. ASSUME NEW c \in Chains, NEW m \in SUBSET Ids, nf_hook(c, m)
        PROVE  UNCHANGED chainVars
    BY <1>5 DEF nf_hook
  <1>6. CASE procfile_read
    BY <1>6 DEF procfile_read
  <1> QED BY <1>1, <1>2, <1>3, <1>4, <1>5, <1>6 DEF Next, Continue, ChainStores

\* The pointers stay pointers and len within its bounds.
LEMMA ChainTypesStep ==
  ASSUME Frame, ChainsOK, [Next]_vars
  PROVE  ChainTypes'
  <1>1. ChainTypes
    BY DEF ChainTypes, Frame, TypeOK
  <1>2. CASE ~ChainStores
    BY <1>1, <1>2, NoStore DEF ChainTypes, chainVars
  <1>3. CASE InsertFirst
    <2>1. New \in MaybeNode
      BY <1>3, NewNode DEF InsertFirst, Registering, Adding, MaybeNode
    <2> QED BY <1>1, <1>3, <2>1 DEF InsertFirst, ChainTypes
  <1>4. CASE InsertFront
    <2>1. op.cur \in MaybeNode
      BY DEF Frame, TypeOK
    <2> QED BY <1>1, <1>4, <2>1 DEF InsertFront, ChainTypes
  <1>5. CASE InsertLink
    <2>1. op.pc = "insert_link" /\ op.n <= NumberOfFilters(op.rule)
      BY <1>5 DEF InsertLink, Registering
    <2>2. New \in MaybeNode
      BY <2>1, NewNode DEF Adding, MaybeNode
    <2>3. op.cur \in Nodes
      BY <2>1, CurInside DEF Expected
    <2>4. back[op.cur] \in MaybeNode
      BY <1>1, <2>3 DEF ChainTypes
    <2>5. front' \in [Nodes -> MaybeNode]
      BY <1>1, <1>5, <2>2 DEF InsertLink, ChainTypes
    <2>6. back' \in [Nodes -> MaybeNode]
      BY <1>1, <1>5, <2>2, <2>4 DEF InsertLink, ChainTypes
    <2> QED BY <1>1, <1>5, <2>5, <2>6 DEF InsertLink, ChainTypes
  <1>6. CASE InsertCount
    <2>1. op.pc = "count" /\ op.n <= NumberOfFilters(op.rule)
      BY <1>6 DEF InsertCount, Registering
    <2>2. Chain \in Chains
      BY <2>1, NewNode DEF Adding
    <2>3. PICK s \in Seq(Nodes) : Holds(Chain, s)
      BY <2>2 DEF ChainsOK
    <2>4. len[Chain] \in 1..(MAX_FILTERS_PER_CHAIN - 1)
      BY <2>1, <2>3 DEF Holds, Slot
    <2>5. len[Chain] + 1 \in 0..MAX_FILTERS_PER_CHAIN
      BY <2>4, FrameworkAssumption
    <2> QED BY <1>1, <1>6, <2>5 DEF InsertCount, ChainTypes
  <1>7. CASE AppendCount
    <2>1. op.pc = "register" /\ op.n <= NumberOfFilters(op.rule) /\ ~Full
      BY <1>7 DEF AppendCount, Registering
    <2>2. Chain \in Chains
      BY <2>1, NewNode DEF Adding
    <2>3. len[Chain] \in 0..MAX_FILTERS_PER_CHAIN
      BY <1>1, <2>2 DEF ChainTypes
    <2>4. len[Chain] + 1 \in 0..MAX_FILTERS_PER_CHAIN
      BY <2>1, <2>3, FrameworkAssumption DEF Full
    <2> QED BY <1>1, <1>7, <2>4 DEF AppendCount, ChainTypes
  <1>8. CASE add_klist_node_to_klist
    <2>1. New \in MaybeNode /\ Chain \in Chains
      BY <1>8, NewNode DEF add_klist_node_to_klist, Registering, Adding, MaybeNode
    <2>2. last[Chain] \in MaybeNode
      BY <1>1, <2>1 DEF ChainTypes
    <2> QED BY <1>1, <1>8, <2>1, <2>2 DEF add_klist_node_to_klist, ChainTypes
  <1>9. CASE unregister_filter
    <2>1. New \in Nodes
      BY <1>9, NewNode DEF unregister_filter, Unregistering, Removing
    <2>2. front[New] \in MaybeNode /\ back[New] \in MaybeNode
      BY <1>1, <2>1 DEF ChainTypes
    <2>3. CASE UNCHANGED <<first, last, front, back>>
      BY <1>1, <1>9, <2>3 DEF unregister_filter, ChainTypes
    <2>4. CASE Unlink(New)
      BY <1>1, <1>9, <2>2, <2>4 DEF unregister_filter, Unlink, ChainTypes
    <2> QED BY <1>9, <2>3, <2>4 DEF unregister_filter
  <1>10. CASE Uncount
    <2>1. op.pc = "uncount" /\ op.n <= NumberOfFilters(op.rule)
      BY <1>10 DEF Uncount, Unregistering
    <2>2. Chain \in Chains
      BY <2>1, NewNode DEF Removing
    <2>3. PICK s \in Seq(Nodes) : Holds(Chain, s)
      BY <2>2 DEF ChainsOK
    <2>4. len[Chain] = Len(s) + 1 /\ Len(s) \in Nat
      BY <2>1, <2>3 DEF Holds, Counts
    <2>5. len[Chain] \in 0..MAX_FILTERS_PER_CHAIN
      BY <1>1, <2>2 DEF ChainTypes
    <2>6. len[Chain] - 1 \in 0..MAX_FILTERS_PER_CHAIN
      BY <2>4, <2>5, FrameworkAssumption
    <2> QED BY <1>1, <1>10, <2>6 DEF Uncount, ChainTypes
  <1> QED BY <1>2, <1>3, <1>4, <1>5, <1>6, <1>7, <1>8, <1>9, <1>10 DEF ChainStores

\* No step makes a node fresh.
LEMMA FreshShrinks ==
  ASSUME Frame, [Next]_vars, NEW f \in Nodes, Fresh(f)'
  PROVE  Fresh(f)
  <1>1. f[1] \in Int /\ f[2] \in Nat /\ f[2] >= 1 /\ id \in Nat /\ op \in OpType
        /\ op.n \in Nat
    BY NodeParts DEF Frame, TypeOK, OpType
  <1> USE DEF Fresh, Adding, listVars
  <1>2. CASE UNCHANGED <<id, op>>
    BY <1>2
  <1>3. CASE UNCHANGED id /\ op'.pc \notin {"register", "insert_front", "insert_link",
                                            "count", "append"}
    BY <1>3
  <1>4. ASSUME NEW i \in Interceptors, register_interceptor(i) PROVE Fresh(f)
    BY <1>4, <1>2 DEF register_interceptor
  <1>5. ASSUME NEW i \in Interceptors, create_rule(i) PROVE Fresh(f)
    <2>1. op'.pc = "register" /\ op'.rule = id /\ op'.n = 1 /\ id' = id + 1
      BY <1>5 DEF create_rule, Idle
    <2> QED BY <2>1, <1>1
  <1>6. ASSUME NEW i \in Interceptors, unregister_interceptor(i) PROVE Fresh(f)
    BY <1>6, <1>3 DEF unregister_interceptor, Idle
  <1>7. ASSUME NEW r \in Ids, remove_rule(r) PROVE Fresh(f)
    BY <1>7, <1>3 DEF remove_rule, Idle
  <1>8. CASE SweepRemoves
    BY <1>8, <1>3, <1>1 DEF SweepRemoves, OpType
  <1>9. CASE SweepSpins
    BY <1>9, <1>2 DEF SweepSpins, vars
  <1>10. CASE SweepEnds \/ Registered
    BY <1>10, <1>3 DEF SweepEnds, Registered, Idle
  <1>11. CASE InsertFirst \/ InsertFront \/ InsertLink \/ AppendCount
    <2>1. /\ op.pc \in {"register", "insert_front", "insert_link"} /\ UNCHANGED id
          /\ op'.pc \in {"insert_front", "insert_link", "count", "append"}
          /\ op'.rule = op.rule /\ op'.n = op.n
      BY <1>11, <1>1 DEF InsertFirst, InsertFront, InsertLink, AppendCount,
                         Registering, OpType
    <2> QED BY <2>1
  <1>12. CASE ChainFull \/ InsertCount \/ add_klist_node_to_klist
    <2>1. /\ op.pc \in {"register", "count", "append"} /\ UNCHANGED id
          /\ NextFilter("register")
      BY <1>12 DEF ChainFull, InsertCount, add_klist_node_to_klist, Registering
    <2>2. op'.pc = "register" /\ op'.n = op.n + 1 /\ op'.rule = op.rule
      BY <2>1, <1>1, Advanced DEF Labels
    <2> QED BY <2>1, <2>2, <1>1
  <1>13. CASE unregister_filter \/ Uncount
    BY <1>13, <1>3, <1>1 DEF unregister_filter, Uncount, Unregistering, OpType
  <1>14. CASE FreeFilter
    <2>1. UNCHANGED id /\ op'.pc = "unregister"
      BY <1>14, <1>1, Advanced DEF FreeFilter, Unregistering, Labels
    <2> QED BY <2>1, <1>3
  <1>15. CASE RuleRemoved
    BY <1>15, <1>3 DEF RuleRemoved, Removed, Idle
  <1>16. ASSUME NEW c \in Chains, NEW m \in SUBSET Ids, nf_hook(c, m) PROVE Fresh(f)
    BY <1>16, <1>2 DEF nf_hook
  <1>17. CASE procfile_read
    BY <1>17, <1>2 DEF procfile_read
  <1>18. CASE UNCHANGED vars
    BY <1>18, <1>2 DEF vars
  <1> HIDE DEF Fresh, Adding
  <1> QED BY <1>4, <1>5, <1>6, <1>7, <1>8, <1>9, <1>10, <1>11, <1>12, <1>13, <1>14,
             <1>15, <1>16, <1>17, <1>18 DEF Next, Continue

\* The filter that has just been dealt with is not fresh.
LEMMA NewUsed ==
  ASSUME Frame, Adding, UNCHANGED id, NEW f, f = New,
         NextFilter("register") \/ op' = [op EXCEPT !.pc = "count"]
  PROVE  ~Fresh(f)'
  <1>1. op \in OpType /\ id \in Nat /\ op.rule = id - 1 /\ op.n \in Nat
    BY DEF Frame, TypeOK, OpType, OpOK
  <1>2. f[1] = op.rule /\ f[2] = op.n
    BY DEF New
  <1>3. /\ op'.rule = op.rule
        /\ op'.n = op.n + 1 \/ (op'.n = op.n /\ op'.pc = "count")
    <2>1. CASE NextFilter("register")
      BY <2>1, <1>1, Advanced DEF Labels
    <2>2. CASE op' = [op EXCEPT !.pc = "count"]
      BY <2>2, <1>1 DEF OpType
    <2> QED BY <2>1, <2>2
  <1> QED BY <1>1, <1>2, <1>3 DEF Fresh

\* Every step leaves the nodes that are fresh as they were made.
LEMMA FreshStep ==
  ASSUME Frame, FreshOK, ChainsOK, [Next]_vars
  PROVE  FreshOK'
  <1> SUFFICES ASSUME NEW f \in Nodes, Fresh(f)'
               PROVE  /\ f \notin refused' /\ back'[f] = NULL
                      /\ front'[f] = (IF op'.pc = "insert_link" /\ f = New' THEN op'.cur
                                      ELSE NULL)
    BY DEF FreshOK
  <1>1. /\ Fresh(f) /\ f \notin refused /\ back[f] = NULL
        /\ front[f] = IF op.pc = "insert_link" /\ f = New THEN op.cur ELSE NULL
    BY FreshShrinks DEF FreshOK
  <1>2. \A c : f \notin Expected(c)
    BY <1>1, NotFresh
  <1>3. op \in OpType /\ front \in [Nodes -> MaybeNode] /\ back \in [Nodes -> MaybeNode]
    BY DEF Frame, TypeOK, OpType
  <1> DEFINE Goal == /\ f \notin refused' /\ back'[f] = NULL
                     /\ front'[f] = (IF op'.pc = "insert_link" /\ f = New' THEN op'.cur
                                     ELSE NULL)
  <1>4. CASE UNCHANGED <<op, refused, front, back>>
    BY <1>1, <1>4 DEF New
  <1>5. ASSUME op.pc # "insert_link", op'.pc # "insert_link",
               UNCHANGED <<refused, front, back>>
        PROVE  Goal
    BY <1>1, <1>5
  <1> USE DEF listVars, chainVars, memVars
  <1>6. ASSUME NEW i \in Interceptors, register_interceptor(i) PROVE Goal
    BY <1>6, <1>4 DEF register_interceptor
  <1>7. ASSUME NEW i \in Interceptors, create_rule(i) \/ unregister_interceptor(i)
        PROVE  Goal
    <2>1. /\ op.pc # "insert_link" /\ op'.pc # "insert_link"
          /\ UNCHANGED <<refused, front, back>>
      <3>1. CASE create_rule(i)
        BY <3>1 DEF create_rule, Idle
      <3>2. CASE unregister_interceptor(i)
        BY <3>2 DEF unregister_interceptor, Idle
      <3> QED BY <1>7, <3>1, <3>2
    <2> QED BY <2>1, <1>5
  <1>8. ASSUME NEW r \in Ids, remove_rule(r) PROVE Goal
    BY <1>8, <1>5 DEF remove_rule, Idle
  <1>9. CASE SweepRemoves
    BY <1>9, <1>5, <1>3 DEF SweepRemoves, OpType
  <1>10. CASE SweepSpins
    BY <1>10, <1>4 DEF SweepSpins, vars
  <1>11. CASE SweepEnds \/ Registered
    BY <1>11, <1>5 DEF SweepEnds, Registered, Idle
  <1>12. CASE ChainFull
    <2>1. op.pc = "register" /\ refused' = refused \cup {New}
          /\ UNCHANGED <<front, back, id>> /\ NextFilter("register")
      BY <1>12 DEF ChainFull, Registering
    <2>2. f # New
      BY <2>1, NewUsed DEF Adding
    <2>3. op'.pc = "register"
      BY <2>1, <1>3, Advanced DEF Labels
    <2> QED BY <2>1, <2>2, <2>3, <1>1
  <1>13. CASE InsertFirst \/ AppendCount \/ Uncount
    <2>1. /\ op.pc # "insert_link" /\ op'.pc # "insert_link"
          /\ UNCHANGED <<refused, front, back>>
      BY <1>13, <1>3 DEF InsertFirst, AppendCount, Uncount, Registering,
                         Unregistering, OpType
    <2> QED BY <2>1, <1>5
  <1>14. CASE InsertFront
    <2>1. /\ op.pc = "insert_front" /\ op'.pc = "insert_link" /\ op'.cur = op.cur
          /\ op'.rule = op.rule /\ op'.n = op.n
          /\ front' = [front EXCEPT ![New] = op.cur] /\ UNCHANGED <<refused, back>>
      BY <1>14, <1>3 DEF InsertFront, Registering, OpType
    <2>2. New' = New
      BY <2>1 DEF New
    <2> QED BY <2>1, <2>2, <1>1, <1>3
  <1>15. CASE InsertLink
    <2>1. /\ op.pc = "insert_link" /\ op.n <= NumberOfFilters(op.rule)
          /\ op' = [op EXCEPT !.pc = "count"] /\ UNCHANGED <<refused, id>>
          /\ front' = IF back[op.cur] = NULL THEN front
                      ELSE [front EXCEPT ![back[op.cur]] = New]
          /\ back' = [back EXCEPT ![New] = back[op.cur], ![op.cur] = New]
      BY <1>15 DEF InsertLink, Registering
    <2>2. f # New /\ op'.pc = "count"
      BY <2>1, <1>3, NewUsed DEF Adding, OpType
    <2>3. f # op.cur /\ (back[op.cur] # NULL => f # back[op.cur])
      BY <2>1, <1>2, CurInside
    <2> QED BY <2>1, <2>2, <2>3, <1>1, <1>3
  <1>16. CASE InsertCount
    <2>1. op.pc = "count" /\ UNCHANGED <<refused, front, back>> /\ NextFilter("register")
      BY <1>16 DEF InsertCount, Registering
    <2>2. op'.pc = "register"
      BY <2>1, <1>3, Advanced DEF Labels
    <2> QED BY <2>1, <2>2, <1>5
  <1>17. CASE add_klist_node_to_klist
    <2>1. /\ op.pc = "append" /\ op.n <= NumberOfFilters(op.rule)
          /\ UNCHANGED <<refused, id>> /\ NextFilter("register")
          /\ IF first[Chain] = NULL THEN UNCHANGED <<front, back>>
             ELSE /\ back' = [back EXCEPT ![New] = last[Chain]]
                  /\ front' = [front EXCEPT ![last[Chain]] = New]
      BY <1>17 DEF add_klist_node_to_klist, Registering
    <2>2. f # New /\ op'.pc = "register"
      BY <2>1, <1>3, NewUsed, Advanced DEF Adding, Labels
    <2>3. first[Chain] # NULL => f # last[Chain]
      BY <2>1, <1>2, LastInside
    <2> QED BY <2>1, <2>2, <2>3, <1>1, <1>3
  <1>18. CASE unregister_filter
    <2>1. /\ op.pc = "unregister" /\ op.n <= NumberOfFilters(op.rule)
          /\ op'.pc # "insert_link" /\ UNCHANGED refused
      BY <1>18, <1>3 DEF unregister_filter, Unregistering, OpType
    <2>2. CASE UNCHANGED <<front, back>>
      BY <2>1, <2>2, <1>5
    <2>3. CASE ~UNCHANGED <<front, back>>
      <3>1. New \in Range(Filters(Chain)) /\ Unlink(New)
        BY <1>18, <2>3 DEF unregister_filter
      <3>2. New \in Expected(Chain) /\ Chain \in Chains
        BY <2>1, <3>1, FoundInside, NewNode DEF Removing
      <3>3. /\ back[New] = NULL \/ f # back[New]
            /\ front[New] = NULL \/ f # front[New]
        BY <3>2, <1>2, Inside
      <3> QED BY <3>1, <3>3, <2>1, <1>1, <1>3 DEF Unlink
    <2> QED BY <2>2, <2>3
  <1>19. CASE FreeFilter
    <2>1. op.pc = "free" /\ UNCHANGED <<refused, front, back>> /\ NextFilter("unregister")
      BY <1>19 DEF FreeFilter, Unregistering
    <2>2. op'.pc = "unregister"
      BY <2>1, <1>3, Advanced DEF Labels
    <2> QED BY <2>1, <2>2, <1>5
  <1>20. CASE RuleRemoved
    BY <1>20, <1>5 DEF RuleRemoved, Removed, Idle
  <1>21. ASSUME NEW c \in Chains, NEW m \in SUBSET Ids, nf_hook(c, m) PROVE Goal
    BY <1>21, <1>4 DEF nf_hook
  <1>22. CASE procfile_read
    BY <1>22, <1>4 DEF procfile_read
  <1>23. CASE UNCHANGED vars
    BY <1>23, <1>4 DEF vars
  <1> QED
    BY <1>6, <1>7, <1>8, <1>9, <1>10, <1>11, <1>12, <1>13, <1>14, <1>15, <1>16, <1>17,
       <1>18, <1>19, <1>20, <1>21, <1>22, <1>23 DEF Next, Continue

-----------------------------------------------------------------------------
(* The memory that is given back.                                          *)

MemoryTypes ==
  freed_specs \subseteq Ids /\ freed \subseteq Nodes /\ refused \subseteq Nodes

\* Only a filter that has no room is refused, and only a filter that has been
\* unregistered is freed.
LEMMA MemorySteps ==
  ASSUME Frame, [Next]_vars
  PROVE  /\ MemoryTypes'
         /\ \/ UNCHANGED <<freed, freed_specs>>
            \/ /\ op.pc = "free" /\ freed' = freed \cup {New}
               /\ freed_specs' \in {freed_specs, freed_specs \cup {op.rule}}
               /\ UNCHANGED listVars /\ NextFilter("unregister")
  <1>1. MemoryTypes
    BY DEF MemoryTypes, Frame, TypeOK
  <1>2. CASE ChainFull
    <2>1. New \in Nodes /\ refused' = refused \cup {New} /\ UNCHANGED <<freed, freed_specs>>
      BY <1>2, NewNode DEF ChainFull, Registering, Adding
    <2> QED BY <1>1, <2>1 DEF MemoryTypes
  <1>3. CASE FreeFilter
    <2>1. New \in Nodes /\ op.rule \in Ids
      BY <1>3, NewNode DEF FreeFilter, Unregistering, Removing
    <2>2. /\ op.pc = "free" /\ freed' = freed \cup {New} /\ UNCHANGED refused
          /\ freed_specs' \in {freed_specs, freed_specs \cup {op.rule}}
          /\ UNCHANGED listVars /\ NextFilter("unregister")
      BY <1>3 DEF FreeFilter, Unregistering
    <2> QED BY <1>1, <2>1, <2>2 DEF MemoryTypes
  <1>4. ASSUME ~ChainFull, ~FreeFilter PROVE UNCHANGED memVars
    <2> USE DEF memVars, vars
    <2>1. ASSUME NEW i \in Interceptors,
                 register_interceptor(i) \/ create_rule(i) \/ unregister_interceptor(i)
          PROVE  UNCHANGED memVars
      BY <2>1 DEF register_interceptor, create_rule, unregister_interceptor
    <2>2. ASSUME NEW r \in Ids, remove_rule(r) PROVE UNCHANGED memVars
      BY <2>2 DEF remove_rule
    <2>3. CASE SweepRemoves \/ SweepSpins \/ SweepEnds \/ Registered \/ RuleRemoved
      BY <2>3 DEF SweepRemoves, SweepSpins, SweepEnds, Registered, RuleRemoved
    <2>4. CASE InsertFirst \/ InsertFront \/ InsertLink \/ InsertCount \/ AppendCount
               \/ add_klist_node_to_klist
      BY <2>4 DEF InsertFirst, InsertFront, InsertLink, InsertCount, AppendCount,
                  add_klist_node_to_klist, Registering
    <2>5. CASE unregister_filter \/ Uncount
      BY <2>5 DEF unregister_filter, Uncount, Unregistering
    <2>6. ASSUME NEW c \in Chains, NEW m \in SUBSET Ids, nf_hook(c, m)
          PROVE  UNCHANGED memVars
      BY <2>6 DEF nf_hook
    <2>7. CASE procfile_read
      BY <2>7 DEF procfile_read
    <2> QED BY <1>4, <2>1, <2>2, <2>3, <2>4, <2>5, <2>6, <2>7 DEF Next, Continue
  <1> QED BY <1>1, <1>2, <1>3, <1>4 DEF MemoryTypes, memVars

\* A step goes on with the rule that is being removed, with the same filter or
\* the next, or takes up a rule that was listed.
LEMMA RemovalGoesOn ==
  ASSUME Frame, [Next]_vars
  PROVE  /\ Range(manager_rule_list') \subseteq Range(manager_rule_list) \cup {id}
         /\ id \in Range(manager_rule_list') => id' = id + 1
         /\ id' >= id
         /\ Removing' => \/ op'.rule \in Range(manager_rule_list)
                         \/ Removing /\ op'.rule = op.rule /\ op'.n >= op.n
  <1>1. op \in OpType /\ op.n \in Nat /\ id \in Nat
    BY DEF Frame, TypeOK, OpType
  <1>2. id \notin Range(manager_rule_list)
    <2> SUFFICES ASSUME id \in Range(manager_rule_list) PROVE FALSE
      OBVIOUS
    <2>1. id \in Ids
      BY DEF Range, Frame, TypeOK
    <2> QED BY <2>1, <1>1 DEF Frame, RulesOK, Present
  <1>3. CASE Quiet
    <2>1. UNCHANGED listVars /\ (Removing' => Removing /\ op'.rule = op.rule)
      BY <1>3, QuietLists
    <2>2. ASSUME Removing' PROVE op'.n >= op.n
      <3>1. CASE UNCHANGED op
        BY <3>1, <1>1
      <3>2. CASE unregister_filter \/ Uncount
        BY <3>2, <1>1 DEF unregister_filter, Uncount, OpType
      <3>3. CASE FreeFilter
        BY <3>3, <1>1, Advanced DEF FreeFilter, Labels
      <3>4. CASE RuleRemoved
        BY <3>4, <2>2 DEF RuleRemoved, Removed, Idle, Removing
      <3>5. ASSUME NEW i \in Interceptors, unregister_interceptor(i) PROVE FALSE
        BY <3>5, <2>2 DEF unregister_interceptor, Idle, Removing
      <3>6. CASE SweepSpins \/ UNCHANGED vars
        BY <3>6, <3>1 DEF SweepSpins, vars
      <3>7. ASSUME NEW c \in Chains, NEW m \in SUBSET Ids, nf_hook(c, m)
            PROVE  UNCHANGED op
        BY <3>7 DEF nf_hook
      <3>8. CASE procfile_read
        BY <3>8, <3>1 DEF procfile_read
      <3>9. CASE Registered
        BY <3>9, <2>2 DEF Registered, Idle, Removing
      <3>10. CASE \/ ChainFull \/ InsertFirst \/ InsertFront \/ InsertLink
                  \/ InsertCount \/ AppendCount \/ add_klist_node_to_klist
        <4>1. ~Removing
          BY <3>10 DEF ChainFull, InsertFirst, InsertFront, InsertLink, InsertCount,
                       AppendCount, add_klist_node_to_klist, Registering, Removing
        <4> QED BY <4>1, <2>1, <2>2
      <3> QED BY <1>3, <3>1, <3>2, <3>3, <3>4, <3>5, <3>6, <3>7, <3>8, <3>9, <3>10
              DEF Quiet
    <2> QED BY <1>1, <1>2, <2>1, <2>2 DEF listVars
  <1>4. ASSUME NEW i \in Interceptors, register_interceptor(i)
        PROVE  UNCHANGED <<manager_rule_list, id, op>>
    BY <1>4 DEF register_interceptor
  <1>5. ASSUME NEW i \in Interceptors, create_rule(i)
        PROVE  /\ Range(manager_rule_list') \subseteq Range(manager_rule_list) \cup {id}
               /\ id' = id + 1 /\ op'.pc = "register"
    <2>1. id < MaxRules /\ manager_rule_list' = Append(manager_rule_list, id)
          /\ id' = id + 1 /\ op'.pc = "register"
      BY <1>5 DEF create_rule, Idle
    <2>2. id \in Ids
      BY <2>1, <1>1, FrameworkAssumption DEF Ids
    <2> QED BY <1>2, <2>1, <2>2, Appended DEF Frame, TypeOK, RulesOK
  <1>6. ASSUME NEW r \in Ids, remove_rule(r)
        PROVE  /\ Range(manager_rule_list') = Range(manager_rule_list) \ {r}
               /\ UNCHANGED id /\ op'.rule = r /\ r \in Range(manager_rule_list)
    BY <1>6, Without DEF remove_rule, Idle, Frame, TypeOK, RulesOK
  <1>7. ASSUME SweepRemoves
        PROVE  /\ Range(manager_rule_list') \subseteq Range(manager_rule_list)
               /\ UNCHANGED id /\ op'.rule \in Range(manager_rule_list)
    <2>1. /\ manager_rule_list # <<>> /\ op'.rule = Head(manager_rule_list)
          /\ manager_rule_list' = Tail(manager_rule_list) /\ UNCHANGED id
      BY <1>7, <1>1 DEF SweepRemoves, OpType
    <2>2. /\ Head(manager_rule_list) \in Range(manager_rule_list)
          /\ Range(Tail(manager_rule_list))
               = Range(manager_rule_list) \ {Head(manager_rule_list)}
      BY <2>1, Beheaded DEF Frame, TypeOK, RulesOK
    <2> QED BY <2>1, <2>2
  <1>8. ASSUME SweepEnds PROVE UNCHANGED <<manager_rule_list, id>> /\ op'.pc = "idle"
    BY <1>8 DEF SweepEnds, Idle
  <1>9. ASSUME NEW i \in Interceptors, register_interceptor(i)
        PROVE  /\ UNCHANGED <<manager_rule_list, id>>
               /\ Removing' => Removing /\ op'.rule = op.rule /\ op'.n >= op.n
    BY <1>1, <1>4, <1>9 DEF Removing
  <1> QED BY <1>1, <1>2, <1>3, <1>5, <1>6, <1>7, <1>8, <1>9, StepKinds DEF Removing

\* Memory is given back only behind the filters in the chains.
LEMMA MemoryStep ==
  ASSUME Frame, ChainsOK, MemoryOK, [Next]_vars
  PROVE  MemoryOK'
  <1>1. /\ Range(manager_rule_list') \subseteq Range(manager_rule_list) \cup {id}
        /\ id \in Range(manager_rule_list') => id' = id + 1
        /\ id' >= id
        /\ Removing' => \/ op'.rule \in Range(manager_rule_list)
                        \/ Removing /\ op'.rule = op.rule /\ op'.n >= op.n
    BY RemovalGoesOn
  <1>2. id \in Nat /\ op.n \in Nat /\ op.rule \in Ids /\ freed \subseteq Nodes
        /\ freed_specs \subseteq Ids /\ op \in OpType
    BY DEF Frame, TypeOK, OpType
  <1>3. id' \in Nat /\ op'.n \in Nat
    BY RulesStep, OpStep DEF ListTypes, OpType
  <1>4. \A r \in Ids : r < id /\ r \notin Range(manager_rule_list)
                         => r < id' /\ r \notin Range(manager_rule_list')
    BY <1>1, <1>2, <1>3 DEF Ids
  <1>5. ASSUME NEW f \in freed
        PROVE  /\ f[1] < id' /\ f[1] \notin Range(manager_rule_list')
               /\ Removing' /\ f[1] = op'.rule => f[2] < op'.n
    <2>1. f[1] \in Ids /\ f[2] \in Nat
      BY <1>2, NodeParts
    <2>2. /\ f[1] < id /\ f[1] \notin Range(manager_rule_list)
          /\ Removing /\ f[1] = op.rule => f[2] < op.n
      BY DEF MemoryOK
    <2>3. ASSUME Removing', f[1] = op'.rule PROVE f[2] < op'.n
      <3>1. Removing /\ op'.rule = op.rule /\ op'.n >= op.n
        BY <2>2, <2>3, <1>1
      <3>2. f[2] < op.n
        BY <2>2, <2>3, <3>1
      <3> QED BY <2>1, <3>1, <3>2, <1>2, <1>3
    <2> QED BY <2>1, <2>2, <2>3, <1>4
  <1>6. ASSUME NEW r \in freed_specs PROVE r < id' /\ r \notin Range(manager_rule_list')
    BY <1>2, <1>4 DEF MemoryOK
  <1>7. CASE UNCHANGED <<freed, freed_specs>>
    BY <1>5, <1>6, <1>7 DEF MemoryOK
  <1>8. CASE /\ op.pc = "free" /\ freed' = freed \cup {New}
             /\ freed_specs' \in {freed_specs, freed_specs \cup {op.rule}}
             /\ UNCHANGED listVars /\ NextFilter("unregister")
    <2>1. op.rule < id /\ op.rule \notin Range(manager_rule_list)
      BY <1>8 DEF Frame, OpOK, Removing
    <2>2. op.rule < id' /\ op.rule \notin Range(manager_rule_list')
      BY <2>1, <1>8 DEF listVars
    <2>3. op'.n = op.n + 1 /\ New[1] = op.rule /\ New[2] = op.n
      BY <1>2, <1>8, Advanced DEF New, Labels
    <2>4. New[2] < op'.n
      BY <2>3, <1>2
    <2>5. ASSUME NEW f \in freed'
          PROVE  /\ f[1] < id' /\ f[1] \notin Range(manager_rule_list')
                 /\ Removing' /\ f[1] = op'.rule => f[2] < op'.n
      <3>1. CASE f \in freed
        BY <3>1, <1>5
      <3>2. CASE f = New
        BY <3>2, <2>2, <2>3, <2>4
      <3> QED BY <3>1, <3>2, <1>8
    <2>6. ASSUME NEW r \in freed_specs' PROVE r < id' /\ r \notin Range(manager_rule_list')
      BY <2>2, <1>6, <1>8
    <2> QED BY <2>5, <2>6 DEF MemoryOK
  <1> QED BY <1>7, <1>8, MemorySteps

-----------------------------------------------------------------------------
(* What a hook meets.                                                      *)

\* A hook walks through the sequence of the chain, except that a new head is
\* there, alone before its front is stored and with the whole chain after.
LEMMA WalkIs ==
  ASSUME Frame, FreshOK, NEW c \in Chains, NEW s \in Seq(Nodes), Holds(c, s)
  PROVE  \/ Walk(c) = s
         \/ op.pc = "insert_front" /\ first[c] = New /\ New \in Nodes
            /\ Walk(c) = <<New>>
         \/ op.pc = "insert_link" /\ Walk(c) \in Seq(Nodes)
            /\ IsPut(Walk(c), s, 1, New) /\ Range(Walk(c)) = Range(s) \cup {New}
  <1>1. PICK n \in Nat : n = Len(s) /\ DOMAIN s = 1..n
    OBVIOUS
  <1>2. op.pc \in {"insert_front", "insert_link", "count", "append"} /\ c = Chain
          => Slot(s)
    BY DEF Holds
  <1>3. CASE len[c] = 0
    <2>1. n = 0
      BY <1>1, <1>2, <1>3 DEF Holds, Counts, Slot
    <2>2. s = <<>>
      BY <2>1, <1>1
    <2> QED BY <2>2, <1>3 DEF Walk
  <1>4. CASE len[c] # 0 /\ ~HeadIsNew(c, s)
    BY <1>4, ChainIs DEF Walk
  <1>5. CASE len[c] # 0 /\ HeadIsNew(c, s)
    <2>1. Inserting /\ c = Chain /\ op.cur = s[1]
      BY <1>5 DEF HeadIsNew
    <2>2. first[c] = New
      BY <2>1 DEF Holds, Heads
    <2>3. op.n <= NumberOfFilters(op.rule)
      BY <2>1 DEF Frame, OpOK, Adding, Inserting
    <2>4. New \in Nodes /\ New[1] = op.rule /\ New[2] = op.n /\ op.n \in Nat
      BY <2>1, <2>3, NewNode DEF Adding, Inserting, New
    <2>5. Fresh(New)
      BY <2>1, <2>4 DEF Fresh, Adding, Inserting
    <2>6. front[New] = IF op.pc = "insert_link" THEN op.cur ELSE NULL
      BY <2>4, <2>5 DEF FreshOK
    <2>7. front \in [Nodes -> MaybeNode]
      BY DEF Frame, TypeOK
    <2>8. Walk(c) = Path(front, New)
      BY <1>5, <2>2 DEF Walk, Filters
    <2>9. CASE op.pc = "insert_front"
      <3>1. PICK t \in Seq(Nodes) : t = <<New>>
        <4>1. <<New>> \in Seq(Nodes)
          BY <2>4
        <4> QED BY <4>1
      <3>2. Len(t) = 1 /\ t[1] = New /\ DOMAIN t = 1..1 /\ t # <<>>
        BY <3>1
      <3>3. OneToOne(t)
        BY <3>2 DEF OneToOne
      <3>4. front[New] = NULL
        BY <2>6, <2>9
      <3>5. Leads(front, t)
        BY <3>2, <3>4 DEF Leads
      <3>6. EndOf(t, 1) = New
        BY <3>2 DEF EndOf
      <3>7. Path(front, EndOf(t, 1)) = t
        BY <2>7, <3>3, <3>5, PathIs
      <3> QED BY <2>2, <2>4, <2>8, <2>9, <3>1, <3>6, <3>7
    <2>10. CASE op.pc = "insert_link"
      <3>1. PICK t \in Seq(Nodes) : IsPut(t, s, 1, New) /\ Range(t) = Range(s) \cup {New}
        <4>1. \A j \in 1..(Len(s) + 1) : \A e \in Nodes :
                \E t \in Seq(Nodes) : IsPut(t, s, j, e) /\ Range(t) = Range(s) \cup {e}
          BY PutIn
        <4>2. 1 \in 1..(Len(s) + 1)
          BY <1>1
        <4> QED BY <2>4, <4>1, <4>2, Zenon
      <3>2. /\ Len(t) = n + 1 /\ t[1] = New /\ DOMAIN t = 1..(n + 1) /\ t # <<>>
            /\ \A j \in 1..(n + 1) : j > 1 => t[j] = s[j - 1]
        BY <3>1, <1>1 DEF IsPut
      <3>3. Range(s) = Expected(c) /\ OneToOne(s) /\ Linked(c, s)
        BY ChainIs DEF Holds
      <3>4. New \notin Range(s)
        BY <2>10, <3>3, NotYet DEF Ready
      <3>5. \A j \in 1..n : s[j] # New
        BY <3>4, <1>1 DEF Range
      <3>6. OneToOne(t)
        <4> SUFFICES ASSUME NEW i \in 1..(n + 1), NEW j \in 1..(n + 1), i < j,
                            t[i] = t[j]
                     PROVE  FALSE
          BY <3>2 DEF OneToOne
        <4>1. PICK y \in 1..n : y = j - 1 /\ t[j] = s[y]
          BY <3>2
        <4>2. CASE i = 1
          BY <4>1, <4>2, <3>2, <3>5
        <4>3. CASE i # 1
          <5>1. PICK x \in 1..n : x = i - 1 /\ t[i] = s[x]
            BY <4>3, <3>2
          <5> QED BY <4>1, <5>1, <3>3, <1>1 DEF OneToOne
        <4> QED BY <4>2, <4>3
      <3>7. n # 0 /\ s # <<>>
        <4>1. \E k \in DOMAIN s : op.cur = s[k]
          BY <1>2, <2>1, <2>10 DEF Slot, Inserting
        <4> QED BY <4>1, <1>1
      <3>8. front[New] = s[1]
        BY <2>1, <2>6, <2>10
      <3>9. Leads(front, t)
        <4>1. ASSUME NEW k \in 1..n PROVE front[t[k]] = t[k + 1]
          <5>1. CASE k = 1
            BY <5>1, <3>2, <3>8
          <5>2. CASE k # 1
            <6>1. PICK j \in 1..(n - 1) : j = k - 1 /\ k = j + 1
              BY <5>2
            <6>2. t[k] = s[j] /\ t[k + 1] = s[j + 1]
              BY <6>1, <3>2
            <6>3. front[s[j]] = s[j + 1]
              BY <3>3, <1>1 DEF Linked
            <6> QED BY <6>2, <6>3
          <5> QED BY <5>1, <5>2
        <4>2. t[n + 1] = s[n]
          BY <3>2, <3>7
        <4>3. front[t[n + 1]] = NULL
          BY <4>2, <3>3, <3>7, <1>1 DEF Linked
        <4>4. Len(t) - 1 = n
          BY <3>2
        <4> QED BY <4>1, <4>3, <4>4, <3>2 DEF Leads
      <3>10. EndOf(t, 1) = New
        BY <3>2 DEF EndOf
      <3>11. Path(front, EndOf(t, 1)) = t
        BY <2>7, <3>6, <3>9, PathIs
      <3> QED BY <2>8, <2>10, <3>1, <3>10, <3>11
    <2> QED BY <2>1, <2>9, <2>10 DEF Inserting
  <1> QED BY <1>3, <1>4, <1>5

\* Whatever a hook meets is due in the chain or the new head of it.
LEMMA WalkNodes ==
  ASSUME Frame, FreshOK, ChainsOK, NEW c \in Chains
  PROVE  /\ Walk(c) \in Seq(Nodes)
         /\ \A f \in Range(Walk(c)) :
              f \in Expected(c) \/ (f[1] = op.rule /\ Inserting)
  <1>1. PICK s \in Seq(Nodes) : Holds(c, s)
    BY DEF ChainsOK
  <1>2. Range(s) = Expected(c)
    BY <1>1 DEF Holds
  <1>3. New[1] = op.rule
    BY DEF New
  <1>4. CASE Walk(c) = s
    BY <1>2, <1>4
  <1>5. CASE op.pc = "insert_front" /\ New \in Nodes /\ Walk(c) = <<New>>
    BY <1>3, <1>5 DEF Inserting, Range
  <1>6. CASE op.pc = "insert_link" /\ Walk(c) \in Seq(Nodes)
             /\ Range(Walk(c)) = Range(s) \cup {New}
    BY <1>2, <1>3, <1>6 DEF Inserting
  <1> QED BY <1>1, <1>4, <1>5, <1>6, WalkIs

\* The memory of what a hook meets has not been given back, save the shared
\* specification of the rule that is being removed.
LEMMA WalkIsLive ==
  ASSUME Frame, FreshOK, ChainsOK, MemoryOK, NEW c \in Chains,
         NEW f \in Range(Walk(c))
  PROVE  f \notin freed /\ (f[1] \in freed_specs => Removing /\ op.rule = f[1])
  <1>1. f \in Expected(c) \/ (f[1] = op.rule /\ Inserting)
    BY WalkNodes
  <1>2. CASE f[1] = op.rule /\ Inserting
    <2>1. op.rule \in Range(manager_rule_list)
      BY <1>2 DEF Frame, OpOK, Adding, Inserting
    <2> QED BY <1>2, <2>1 DEF MemoryOK
  <1>3. CASE f \in Expected(c)
    <2>1. f \in Nodes /\ Present(f[1]) /\ Reached(f)
      BY <1>3 DEF Expected
    <2>2. f[2] \in Nat /\ op.n \in Nat
      BY <2>1, NodeParts DEF Frame, TypeOK
    <2>3. f[1] \in freed_specs => Removing /\ op.rule = f[1]
      BY <2>1 DEF MemoryOK, Present
    <2>4. f \notin freed
      <3> SUFFICES ASSUME f \in freed PROVE FALSE
        OBVIOUS
      <3>1. Removing /\ f[1] = op.rule
        BY <2>1 DEF MemoryOK, Present
      <3>2. f[2] < op.n
        BY <3>1 DEF MemoryOK
      <3> QED BY <3>1, <3>2, <2>1, <2>2 DEF Reached
    <2> QED BY <2>3, <2>4
  <1> QED BY <1>1, <1>2, <1>3

\* A hook examines a part of what it meets.
LEMMA HookExamines ==
  ASSUME Frame, FreshOK, ChainsOK, NEW c \in Chains, NEW m \in SUBSET Ids,
         nf_hook(c, m)
  PROVE  examined' \in Seq(Nodes) /\ Range(examined') \subseteq Range(Walk(c))
  <1>1. PICK w \in Seq(Nodes) : w = Walk(c)
    BY WalkNodes
  <1>2. PICK stops : stops = {k \in DOMAIN w : w[k][1] \in m /\ owner[w[k][1]] \in Steals}
    OBVIOUS
  <1>3. PICK n \in Nat : n = Len(w) /\ DOMAIN w = 1..n
    OBVIOUS
  <1>4. PICK T : T = stops \cup {n}
    OBVIOUS
  <1>5. T \subseteq 0..n /\ T \subseteq Nat /\ T # {}
    BY <1>2, <1>3, <1>4
  <1>6. \E x \in T : \A y \in T : x <= y
    BY <1>5, LeastNat
  <1>7. Min(T) \in T
    BY <1>6 DEF Min
  <1>8. PICK e \in 0..n : e = Min(T)
    BY <1>5, <1>7
  <1>9. examined' = SubSeq(w, 1, e)
    BY <1>1, <1>2, <1>3, <1>4, <1>8 DEF nf_hook
  <1>10. examined' \in Seq(Nodes) /\ \A k \in DOMAIN examined' : k \in 1..n /\ examined'[k] = w[k]
    BY <1>3, <1>8, <1>9
  <1> QED BY <1>1, <1>3, <1>10 DEF Range

\* Every other step forgets what the latest hook has examined, or changes
\* nothing.
LEMMA Forgets ==
  ASSUME [Next]_vars
  PROVE  \/ examined' = <<>> \/ UNCHANGED vars
         \/ \E c \in Chains, m \in SUBSET Ids : nf_hook(c, m)
  <1>1. ASSUME NEW i \in Interceptors,
               register_interceptor(i) \/ create_rule(i) \/ unregister_interceptor(i)
        PROVE  examined' = <<>>
    BY <1>1 DEF register_interceptor, create_rule, unregister_interceptor
  <1>2. ASSUME NEW r \in Ids, remove_rule(r) PROVE examined' = <<>>
    BY <1>2 DEF remove_rule
  <1>3. ASSUME SweepRemoves \/ SweepEnds \/ Registered \/ RuleRemoved
        PROVE  examined' = <<>>
    BY <1>3 DEF SweepRemoves, SweepEnds, Registered, RuleRemoved
  <1>4. ASSUME \/ ChainFull \/ InsertFirst \/ InsertFront \/ InsertLink \/ InsertCount
               \/ AppendCount \/ add_klist_node_to_klist
        PROVE  examined' = <<>>
    BY <1>4 DEF ChainFull, InsertFirst, InsertFront, InsertLink, InsertCount,
                AppendCount, add_klist_node_to_klist, Registering
  <1>5. ASSUME unregister_filter \/ Uncount \/ FreeFilter PROVE examined' = <<>>
    BY <1>5 DEF unregister_filter, Uncount, FreeFilter, Unregistering
  <1>6. ASSUME procfile_read PROVE examined' = <<>>
    BY <1>6 DEF procfile_read
  <1>7. ASSUME SweepSpins PROVE UNCHANGED vars
    BY <1>7 DEF SweepSpins
  <1> QED BY <1>1, <1>2, <1>3, <1>4, <1>5, <1>6, <1>7 DEF Next, Continue

\* A hook reads live memory, and what it has read is live as long as it is kept.
LEMMA HooksStep ==
  ASSUME Frame, FreshOK, ChainsOK, MemoryOK, HooksReadLiveMemory, [Next]_vars
  PROVE  examined' \in Seq(Nodes) /\ HooksReadLiveMemory'
  <1>1. CASE examined' = <<>>
    BY <1>1 DEF HooksReadLiveMemory, Range
  <1>2. CASE UNCHANGED vars
    BY <1>2 DEF HooksReadLiveMemory, vars, memVars, Frame, TypeOK
  <1>3. ASSUME NEW c \in Chains, NEW m \in SUBSET Ids, nf_hook(c, m)
        PROVE  examined' \in Seq(Nodes) /\ HooksReadLiveMemory'
    <2>1. examined' \in Seq(Nodes) /\ Range(examined') \subseteq Range(Walk(c))
      BY <1>3, HookExamines
    <2>2. UNCHANGED <<op, freed, freed_specs>>
      BY <1>3 DEF nf_hook, memVars
    <2>3. \A f \in Range(examined') :
            f \notin freed /\ (f[1] \in freed_specs => Removing /\ op.rule = f[1])
      BY <2>1, WalkIsLive
    <2> QED BY <2>1, <2>2, <2>3 DEF HooksReadLiveMemory, Removing
  <1> QED BY <1>1, <1>2, <1>3, Forgets

\* An operation that comes to its end marks the listing.
LEMMA ListingStep ==
  ASSUME Frame, ListingFresh, [Next]_vars
  PROVE  dirty' \in BOOLEAN /\ ListingFresh'
  <1>1. op \in OpType /\ dirty \in BOOLEAN
    BY DEF Frame, TypeOK, OpType
  <1>2. CASE UNCHANGED <<op, dirty, listing, int_list, manager_rule_list>>
    <2>1. dirty' \in BOOLEAN
      BY <1>1, <1>2
    <2> QED BY <1>2, <2>1 DEF ListingFresh
  <1>3. CASE dirty' = TRUE
    <2>1. dirty' \in BOOLEAN
      BY <1>3
    <2> QED BY <1>3, <2>1 DEF ListingFresh
  <1>4. CASE UNCHANGED dirty /\ op' # Idle
    <2>1. dirty' \in BOOLEAN
      BY <1>1, <1>4
    <2> QED BY <1>4, <2>1 DEF ListingFresh
  <1> USE DEF listVars, procVars
  <1>5. ASSUME NEW i \in Interceptors, register_interceptor(i) PROVE dirty' = TRUE
    BY <1>5 DEF register_interceptor
  <1>6. ASSUME NEW i \in Interceptors, create_rule(i) PROVE UNCHANGED dirty /\ op' # Idle
    BY <1>6 DEF create_rule, Idle
  <1>7. ASSUME NEW i \in Interceptors, unregister_interceptor(i)
        PROVE  UNCHANGED dirty /\ op' # Idle
    BY <1>7 DEF unregister_interceptor, Idle
  <1>8. ASSUME NEW r \in Ids, remove_rule(r) PROVE UNCHANGED dirty /\ op' # Idle
    BY <1>8 DEF remove_rule, Idle
  <1>9. ASSUME SweepRemoves PROVE UNCHANGED dirty /\ op' # Idle
    BY <1>9, <1>1 DEF SweepRemoves, Idle, OpType
  <1>10. ASSUME SweepEnds \/ Registered \/ RuleRemoved PROVE dirty' = TRUE
    BY <1>10 DEF SweepEnds, Registered, RuleRemoved, Removed
  <1>11. ASSUME ChainFull \/ InsertCount \/ add_klist_node_to_klist
         PROVE  UNCHANGED dirty /\ op' # Idle
    <2>1. UNCHANGED dirty /\ NextFilter("register")
      BY <1>11 DEF ChainFull, InsertCount, add_klist_node_to_klist, Registering
    <2>2. op'.pc = "register"
      BY <2>1, <1>1, Advanced DEF Labels
    <2> QED BY <2>1, <2>2 DEF Idle
  <1>12. ASSUME InsertFirst \/ InsertFront \/ InsertLink \/ AppendCount
         PROVE  UNCHANGED dirty /\ op' # Idle
    <2>1. UNCHANGED dirty
          /\ op'.pc \in {"insert_front", "insert_link", "count", "append"}
      BY <1>12, <1>1 DEF InsertFirst, InsertFront, InsertLink, AppendCount,
                         Registering, OpType
    <2> QED BY <2>1 DEF Idle
  <1>13. ASSUME unregister_filter \/ Uncount PROVE UNCHANGED dirty /\ op' # Idle
    <2>1. UNCHANGED dirty /\ op'.pc \in {"uncount", "free"}
      BY <1>13, <1>1 DEF unregister_filter, Uncount, Unregistering, OpType
    <2> QED BY <2>1 DEF Idle
  <1>14. ASSUME FreeFilter PROVE UNCHANGED dirty /\ op' # Idle
    <2>1. UNCHANGED dirty /\ NextFilter("unregister")
      BY <1>14 DEF FreeFilter, Unregistering
    <2>2. op'.pc = "unregister"
      BY <2>1, <1>1, Advanced DEF Labels
    <2> QED BY <2>1, <2>2 DEF Idle
  <1>15. CASE procfile_read
    <2>1. dirty' = FALSE /\ listing' = <<int_list', manager_rule_list'>>
      BY <1>15 DEF procfile_read
    <2>2. dirty' \in BOOLEAN
      BY <2>1
    <2> QED BY <2>1, <2>2 DEF ListingFresh
  <1>16. ASSUME NEW c \in Chains, NEW m \in SUBSET Ids, nf_hook(c, m)
         PROVE  UNCHANGED <<op, dirty, listing, int_list, manager_rule_list>>
    BY <1>16 DEF nf_hook
  <1>17. ASSUME SweepSpins \/ UNCHANGED vars
         PROVE  UNCHANGED <<op, dirty, listing, int_list, manager_rule_list>>
    BY <1>17 DEF SweepSpins, vars
  <1> HIDE DEF listVars, procVars
  <1> QED BY <1>2, <1>3, <1>4, <1>5, <1>6, <1>7, <1>8, <1>9, <1>10, <1>11, <1>12,
             <1>13, <1>14, <1>15, <1>16, <1>17 DEF Next, Continue

-----------------------------------------------------------------------------
(* The theorems.                                                           *)

\* Before the first operation.
LEMMA InitInv == Init => IInv
  <1> SUFFICES ASSUME Init PROVE IInv
    OBVIOUS
  <1>1. TypeOK
    BY TypeInit
  <1>2. /\ int_list = <<>> /\ manager_rule_list = <<>> /\ id = 0 /\ op = Idle
        /\ op.pc = "idle" /\ first = [c \in Chains |-> NULL]
        /\ last = [c \in Chains |-> NULL] /\ front = [f \in Nodes |-> NULL]
        /\ back = [f \in Nodes |-> NULL] /\ len = [c \in Chains |-> 0] /\ dirty = TRUE
        /\ freed_specs = {} /\ freed = {} /\ refused = {} /\ examined = <<>>
    BY DEF Init, Idle
  <1>3. \A r : ~Present(r)
    BY <1>2 DEF Present, Removing, Range
  <1>4. RulesOK /\ OpOK
    BY <1>2, <1>3 DEF RulesOK, OpOK, OneToOne, Adding, Removing, Ids
  <1>5. FreshOK
    BY <1>2 DEF FreshOK
  <1>6. MemoryOK
    BY <1>2 DEF MemoryOK
  <1>7. ASSUME NEW c \in Chains PROVE \E s \in Seq(Nodes) : Holds(c, s)
    <2>1. PICK s \in Seq(Nodes) : s = <<>>
      <3>1. <<>> \in Seq(Nodes)
        OBVIOUS
      <3> QED BY <3>1
    <2>2. Len(s) = 0 /\ DOMAIN s = {}
      BY <2>1
    <2>3. Expected(c) = {} /\ Range(s) = {}
      BY <1>3, <2>2 DEF Expected, Range
    <2>4. Ordered(s) /\ Linked(c, s)
      BY <1>2, <2>1, <2>2 DEF Ordered, Linked, EndOf
    <2>5. Heads(c, s) /\ Counts(c, s)
      BY <1>2, <2>1, <2>2 DEF Heads, Counts, EndOf, Inserting
    <2> QED BY <1>2, <2>3, <2>4, <2>5 DEF Holds
  <1>8. HooksReadLiveMemory /\ ListingFresh
    BY <1>2 DEF HooksReadLiveMemory, ListingFresh, Range
  <1> QED BY <1>1, <1>4, <1>5, <1>6, <1>7, <1>8 DEF IInv, ChainsOK

\* Every step keeps the inductive invariant.
LEMMA StepInv ==
  ASSUME IInv, [Next]_vars PROVE IInv'
  <1>1. Frame /\ FreshOK /\ MemoryOK /\ ChainsOK /\ HooksReadLiveMemory /\ ListingFresh
    BY DEF IInv, Frame
  <1>2. ListTypes' /\ RulesOK'
    BY <1>1, RulesStep
  <1>3. op' \in OpType /\ OpOK'
    BY <1>1, OpStep
  <1>4. ChainTypes'
    BY <1>1, ChainTypesStep
  <1>5. MemoryTypes'
    BY <1>1, MemorySteps
  <1>6. examined' \in Seq(Nodes) /\ HooksReadLiveMemory'
    BY <1>1, HooksStep
  <1>7. dirty' \in BOOLEAN /\ ListingFresh'
    BY <1>1, ListingStep
  <1>8. TypeOK'
    BY <1>2, <1>3, <1>4, <1>5, <1>6, <1>7
       DEF TypeOK, ListTypes, OpType, ChainTypes, MemoryTypes
  <1>9. FreshOK' /\ MemoryOK' /\ ChainsOK'
    BY <1>1, FreshStep, MemoryStep, ChainsStep
  <1> QED BY <1>2, <1>3, <1>6, <1>7, <1>8, <1>9 DEF IInv

\* The inductive invariant: at every store of every operation each chain is
\* linked through exactly the filters it is to hold, in order, up to the
\* pointers the operation has stored ahead.
THEOREM Invariant == Spec => []IInv
  <1>1. Init => IInv
    BY InitInv
  <1>2. IInv /\ [Next]_vars => IInv'
    BY StepInv
  <1> QED BY <1>1, <1>2, PTL DEF Spec

\* Type correctness: the klist pointers lead to nodes or nowhere, and len never
\* leaves 0..MAX_FILTERS_PER_CHAIN.
THEOREM TypeCorrect == Spec => []TypeOK
  <1>1. IInv => TypeOK
    BY DEF IInv
  <1> QED BY <1>1, Invariant, PTL

\* Between operations on single rules each chain holds exactly the filters of
\* the listed rules that had room, by priority and then by age, linked the same
\* way in both directions, and len counts them.
THEOREM ChainsMatchRulesAlways == Spec => []ChainsMatchRules
  <1>1. IInv => ChainsMatchRules
    <2> SUFFICES ASSUME IInv, op.pc \in {"idle", "sweep"}, NEW c \in Chains
                 PROVE  /\ Range(Filters(c)) = Registered_Filters(c)
                        /\ Ordered(Filters(c))
                        /\ Path(back, last[c]) = Reverse(Filters(c))
                        /\ len[c] = Len(Filters(c))
      BY DEF ChainsMatchRules
    <2>1. Frame /\ ChainsOK
      BY DEF IInv, Frame
    <2>2. PICK s \in Seq(Nodes) : Holds(c, s)
      BY <2>1 DEF ChainsOK
    <2>3. Filters(c) = s /\ Path(back, last[c]) = Reverse(s)
      BY <2>1, <2>2, ChainIs DEF HeadIsNew, Inserting
    <2>4. Calm
      BY DEF Calm
    <2>5. len[c] = Len(s) /\ Ordered(s) /\ Range(s) = Expected(c)
      BY <2>2, <2>4, CalmChains DEF Holds
    <2>6. Expected(c) = Registered_Filters(c)
      BY DEF Expected, Registered_Filters, Present, Reached, Adding, Removing
    <2> QED BY <2>3, <2>5, <2>6
  <1> QED BY <1>1, Invariant, PTL

\* A packet in the middle of an operation meets every filter of the other
\* rules, in their order, except between the two stores of an insertion at the
\* head.
THEOREM BystandersSeenAlways == Spec => []BystandersSeen
  <1>1. IInv => BystandersSeen
    <2> SUFFICES ASSUME IInv, NEW c \in Chains, op.pc \notin {"idle", "sweep"},
                        ~(op.pc = "insert_front" /\ first[c] = New)
                 PROVE  /\ {f \in Range(Walk(c)) : f[1] # op.rule}
                             = {f \in Registered_Filters(c) : f[1] # op.rule}
                        /\ \A j, k \in DOMAIN Walk(c) :
                             j < k /\ op.rule \notin {Walk(c)[j][1], Walk(c)[k][1]}
                               => Before(Walk(c)[j], Walk(c)[k])
      BY DEF BystandersSeen
    <2>1. Frame /\ FreshOK /\ ChainsOK
      BY DEF IInv, Frame
    <2>2. PICK s \in Seq(Nodes) : Holds(c, s)
      BY <2>1 DEF ChainsOK
    <2>3. Range(s) = Expected(c) /\ Ordered(s)
      BY <2>2 DEF Holds
    <2>4. {f \in Expected(c) : f[1] # op.rule}
            = {f \in Registered_Filters(c) : f[1] # op.rule}
      BY DEF Expected, Registered_Filters, Present, Reached
    <2>5. New[1] = op.rule
      BY DEF New
    <2>6. CASE Walk(c) = s
      BY <2>3, <2>4, <2>6 DEF Ordered
    <2>7. CASE Walk(c) \in Seq(Nodes) /\ IsPut(Walk(c), s, 1, New)
               /\ Range(Walk(c)) = Range(s) \cup {New}
      <3>1. PICK w \in Seq(Nodes) : w = Walk(c)
        BY <2>7
      <3>2. PICK n \in Nat : n = Len(s) /\ DOMAIN s = 1..n
        OBVIOUS
      <3>3. /\ DOMAIN w = 1..(n + 1) /\ w[1] = New
            /\ \A j \in 1..(n + 1) : j > 1 => w[j] = s[j - 1]
        BY <2>7, <3>1, <3>2 DEF IsPut
      <3>4. {f \in Range(w) : f[1] # op.rule} = {f \in Expected(c) : f[1] # op.rule}
        BY <2>3, <2>5, <2>7, <3>1
      <3>5. ASSUME NEW j \in 1..(n + 1), NEW k \in 1..(n + 1), j < k,
                   op.rule \notin {w[j][1], w[k][1]}
            PROVE  Before(w[j], w[k])
        <4>1. j # 1
          BY <2>5, <3>3, <3>5
        <4>2. PICK x \in 1..n : x = j - 1 /\ w[j] = s[x]
          BY <3>3, <4>1
        <4>3. PICK y \in 1..n : y = k - 1 /\ w[k] = s[y]
          BY <3>3, <3>5
        <4>4. x < y
          BY <4>2, <4>3, <3>5
        <4> QED BY <2>3, <3>2, <4>2, <4>3, <4>4 DEF Ordered
      <3> QED BY <2>4, <3>1, <3>3, <3>4, <3>5
    <2> QED BY <2>1, <2>2, <2>6, <2>7, WalkIs
  <1> QED BY <1>1, Invariant, PTL

\* No hook touches a freed filter, and a freed specification only while the
\* other filters of its rule are being unregistered.
THEOREM HooksReadLiveMemoryAlways == Spec => []HooksReadLiveMemory
  <1>1. IInv => HooksReadLiveMemory
    BY DEF IInv
  <1> QED BY <1>1, Invariant, PTL

\* No chain has a filter with the callback of an interceptor that is not
\* registered.
THEOREM NoDanglingCallbackAlways == Spec => []NoDanglingCallback
  <1>1. IInv => NoDanglingCallback
    <2> SUFFICES ASSUME IInv, NEW c \in Chains, NEW f \in Range(Walk(c))
                 PROVE  owner[f[1]] \in Range(int_list)
      BY DEF NoDanglingCallback
    <2>1. Frame /\ FreshOK /\ ChainsOK
      BY DEF IInv, Frame
    <2>2. f \in Expected(c) \/ (f[1] = op.rule /\ Inserting)
      BY <2>1, WalkNodes
    <2>3. CASE f \in Expected(c)
      BY <2>1, <2>3, ChainFilters
    <2>4. CASE f[1] = op.rule /\ Inserting
      <3>1. op.rule \in Ids /\ op.rule \in Range(manager_rule_list)
        BY <2>1, <2>4 DEF Frame, TypeOK, OpOK, Adding, Inserting
      <3> QED BY <2>1, <2>4, <3>1 DEF Frame, RulesOK, Present
    <2> QED BY <2>2, <2>3, <2>4
  <1> QED BY <1>1, Invariant, PTL

\* A listing that is not dirty is what a rebuild would give.
THEOREM ListingFreshAlways == Spec => []ListingFresh
  <1>1. IInv => ListingFresh
    BY DEF IInv
  <1> QED BY <1>1, Invariant, PTL

=============================================================================
