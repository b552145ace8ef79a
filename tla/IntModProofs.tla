---------------------------- MODULE IntModProofs ----------------------------
(***************************************************************************)
(* Proofs about int_mod, the kernel module that samples: the ring between  *)
(* its interrupt handler and the sender (CircBuffer), the time stamps of   *)
(* the handler (SampleClock), the bus it shares with the userland tools    *)
(* (FpgaBus) and the bytes of a sample (SampleCodec).  The parts are       *)
(* proved one after the other.                                             *)
(***************************************************************************)
EXTENDS CircBuffer, SampleClock, FpgaBus, SampleCodec, TLAPS

-----------------------------------------------------------------------------
(***************************************************************************)
(* Proofs about the sample ring, for every ring size, word size and number *)
(* of writes.  The invariant RingInv relates the indices, which only       *)
(* know positions modulo CIRC_BUF_SIZE, to the ordinals of the samples,    *)
(* and records what the reader's stale counts still guarantee.             *)
(***************************************************************************)

\* The samples waiting in the ring are the next ones to deliver.
RingHolds ==
  /\ written = Len(delivered) + Unread
  /\ \A k \in 1 .. Unread :
       CIRC_BUFFER[quick_module(last_read + k)] = Sample(Len(delivered) + k)

\* A count taken before some writes is still at most what is unread, or it is
\* a wrapped-around count that kmalloc refuses.
CountHolds ==
  /\ pc = "count_wrapped" => last_read > last_write
  /\ pc = "kmalloc" => samples_to_copy <= Unread \/ samples_to_copy > KMALLOC_MAX
  /\ pc \in {"copy", "copy_data"} => samples_to_copy <= Unread

\* The part of the batch copied so far is right.
BatchHolds ==
  /\ pc \in {"check_empty", "compare", "count_wrapped", "count_ahead", "kmalloc"}
       => be_samples = <<>>
  /\ pc = "copy" =>
       /\ Len(be_samples) <= samples_to_copy
       /\ \A k \in 1 .. Len(be_samples) :
            be_samples[k] = Sample(Len(delivered) + k)
  /\ pc = "copy_data" =>
       /\ Len(be_samples) \in 1 .. samples_to_copy
       /\ \A k \in 1 .. Len(be_samples) - 1 :
            be_samples[k] = Sample(Len(delivered) + k)
       /\ be_samples[Len(be_samples)].head = Len(delivered) + Len(be_samples)

\* The inductive invariant.
RingInv ==
  /\ RingTypeOK
  /\ InOrder
  /\ ~overrun => RingHolds /\ CountHolds /\ BatchHolds

-----------------------------------------------------------------------------
(* Arithmetic of the ring.                                                 *)

\* What the mask computes on the arguments proc_entry.c gives it: sums of at
\* most two indices.
LEMMA ModuleValue ==
  ASSUME NEW x \in Nat, x < 2 * CIRC_BUF_SIZE
  PROVE  quick_module(x) = IF x < CIRC_BUF_SIZE THEN x ELSE x - CIRC_BUF_SIZE
  BY SizeAssumption DEF quick_module

\* The mask always yields an index of the array.
LEMMA ModuleIndex ==
  ASSUME NEW x \in Nat
  PROVE  quick_module(x) \in Index
  BY SizeAssumption DEF quick_module, Index

\* Unsigned subtraction of indices: the difference, or a value that no
\* kmalloc can serve.
LEMMA MinusValue ==
  ASSUME NEW a \in Index, NEW b \in Index
  PROVE  /\ Minus32(a, b) \in 0 .. UINT32 - 1
         /\ a >= b => Minus32(a, b) = a - b
         /\ a < b => Minus32(a, b) > KMALLOC_MAX
  <1> DEFINE d == a - b
  <1>1. /\ d \in Int /\ UINT32 \in Nat /\ UINT32 > 0
        /\ d < UINT32 /\ -UINT32 <= d
        /\ UINT32 + d > KMALLOC_MAX
    BY SizeAssumption, WordAssumption DEF Index
  <1> HIDE DEF d
  <1>2. /\ d % UINT32 \in 0 .. UINT32 - 1
        /\ d >= 0 => d % UINT32 = d
        /\ d < 0 => d % UINT32 = d + UINT32
    BY <1>1
  <1>3. (a >= b <=> d >= 0) /\ d = a - b /\ a \in Int /\ b \in Int
    BY DEF d, Index
  <1> QED BY <1>1, <1>2, <1>3, WordAssumption DEF Minus32

-----------------------------------------------------------------------------
(* Type correctness.                                                       *)

\* Both indices start at zero, inside the array.
LEMMA TypeInit == RingInit => RingTypeOK
  BY SizeAssumption, WordAssumption
  DEF RingInit, RingTypeOK, Index, Sample, Samples, Labels

\* No step of the interrupt or of read_nsamples leaves the types.
LEMMA RingTypeStep == RingTypeOK /\ [RingNext]_ringVars => RingTypeOK'
  <1> SUFFICES ASSUME RingTypeOK, [RingNext]_ringVars PROVE RingTypeOK'
    OBVIOUS
  <1> USE DEF RingTypeOK, shared, locals, Step, Labels
  <1>1. CASE write_to_buffer
    <2>1. last_write' \in Index
      BY <1>1, ModuleIndex DEF write_to_buffer, Index
    <2>2. CIRC_BUFFER' \in [Index -> Samples]
      BY <1>1, <2>1 DEF write_to_buffer, Sample, Samples
    <2> QED BY <1>1, <2>1, <2>2 DEF write_to_buffer
  <1>2. CASE Enter
    BY <1>2, WordAssumption DEF Enter
  <1>3. CASE CheckEmpty
    BY <1>3 DEF CheckEmpty
  <1>4. CASE Compare
    BY <1>4 DEF Compare
  <1>5. CASE CountWrapped
    <2>1. samples_to_copy' \in 0 .. UINT32 - 1
      BY <1>5, SizeAssumption, WordAssumption
      DEF CountWrapped, Index, LAST_INDEX
    <2> QED BY <1>5, <2>1 DEF CountWrapped
  <1>6. CASE CountAhead
    <2>1. samples_to_copy' \in 0 .. UINT32 - 1
      BY <1>6, MinusValue DEF CountAhead
    <2> QED BY <1>6, <2>1 DEF CountAhead
  <1>7. CASE KmallocFails
    BY <1>7 DEF KmallocFails
  <1>8. CASE KmallocSucceeds
    BY <1>8 DEF KmallocSucceeds
  <1>9. CASE CopyHead
    <2> DEFINE idx == quick_module(last_read + 1 + Len(be_samples))
    <2>1. last_read + 1 + Len(be_samples) \in Nat
      BY SizeAssumption DEF Index
    <2>2. idx \in Index
      BY <2>1, ModuleIndex
    <2>3. [head |-> CIRC_BUFFER[idx].head, data |-> 0] \in Samples
      BY <2>2 DEF Samples
    <2>4. be_samples' \in Seq(Samples)
      BY <1>9, <2>3 DEF CopyHead
    <2> QED BY <1>9, <2>4 DEF CopyHead
  <1>10. CASE CopyData
    <2> DEFINE idx == quick_module(last_read + Len(be_samples))
    <2>1. last_read + Len(be_samples) \in Nat
      BY SizeAssumption DEF Index
    <2>2. idx \in Index
      BY <2>1, ModuleIndex
    <2>3. CIRC_BUFFER[idx].data \in Nat
      BY <2>2 DEF Samples
    <2>4. be_samples' \in Seq(Samples)
      <3> DEFINE n == Len(be_samples)
      <3>1. n \in Nat /\ be_samples \in [1 .. n -> Samples]
        OBVIOUS
      <3>2. be_samples' = [be_samples EXCEPT ![n] =
              [head |-> be_samples[n].head, data |-> CIRC_BUFFER[idx].data]]
        BY <1>10, <3>1 DEF CopyData, Samples
      <3>3. be_samples' \in [1 .. n -> Samples]
        BY <2>3, <3>1, <3>2 DEF Samples
      <3> QED BY <3>1, <3>3
    <2> QED BY <1>10, <2>4 DEF CopyData
  <1>11. CASE Commit
    <2>1. last_read + samples_to_copy \in Nat
      BY SizeAssumption DEF Index
    <2>2. last_read' \in Index
      BY <1>11, <2>1, ModuleIndex DEF Commit
    <2>3. delivered' \in Seq(Samples)
      BY <1>11 DEF Commit
    <2> QED BY <1>11, <2>2, <2>3 DEF Commit
  <1>12. CASE UNCHANGED ringVars
    BY <1>12 DEF ringVars
  <1> QED
    BY <1>1, <1>2, <1>3, <1>4, <1>5, <1>6, <1>7, <1>8, <1>9, <1>10, <1>11,
       <1>12 DEF RingNext, read_nsamples

\* Both indices of the ring stay inside the array and every count is a word,
\* for any interleaving of the interrupt with read_nsamples.
THEOREM RingTypeCorrect == RingSpec => []RingTypeOK
  BY TypeInit, RingTypeStep, PTL DEF RingSpec

-----------------------------------------------------------------------------
(* Order, completeness and integrity of the samples returned.              *)

\* The slot of the k-th unread sample, as a case split without the mask.
LEMMA SlotValue ==
  ASSUME RingTypeOK, NEW k \in 0 .. CIRC_BUF_SIZE - 1
  PROVE  /\ Unread \in 0 .. CIRC_BUF_SIZE - 1
         /\ quick_module(last_read + k) =
              IF last_read + k < CIRC_BUF_SIZE THEN last_read + k
              ELSE last_read + k - CIRC_BUF_SIZE
  <1>1. last_read + k \in Nat /\ last_read + k < 2 * CIRC_BUF_SIZE
        /\ last_read \in Nat
    BY SizeAssumption DEF RingTypeOK, Index
  <1>2. Unread \in 0 .. CIRC_BUF_SIZE - 1
    BY SizeAssumption DEF RingTypeOK, Index, Unread, Dist
  <1> QED BY <1>1, <1>2, ModuleValue, SizeAssumption

\* A write that does not lap the reader adds one unread sample.
LEMMA WriteStep ==
  ASSUME RingInv, write_to_buffer, ~overrun'
  PROVE  RingInv'
  <1>1. RingTypeOK'
    BY RingTypeStep DEF RingInv, RingNext
  <1>2. ~overrun /\ last_write' # last_read /\ RingHolds /\ CountHolds
        /\ BatchHolds /\ RingTypeOK
    BY DEF RingInv, write_to_buffer
  <1>3. last_write' = IF last_write + 1 < CIRC_BUF_SIZE THEN last_write + 1 ELSE 0
    <2>1. last_write + 1 \in Nat /\ last_write + 1 < 2 * CIRC_BUF_SIZE
          /\ last_write + 1 <= CIRC_BUF_SIZE
      BY <1>2, SizeAssumption DEF RingTypeOK, Index
    <2> QED BY <2>1, ModuleValue, SizeAssumption DEF write_to_buffer
  <1>4. last_read' = last_read /\ delivered' = delivered
        /\ samples_to_copy' = samples_to_copy /\ be_samples' = be_samples
        /\ pc' = pc /\ written' = written + 1
        /\ CIRC_BUFFER' = [CIRC_BUFFER EXCEPT ![last_write'] = Sample(written + 1)]
    BY DEF write_to_buffer
  <1>5. Unread' = Unread + 1
    BY <1>2, <1>3, <1>4, SizeAssumption DEF Unread, Dist, RingTypeOK, Index
  <1>6. RingHolds'
    <2>1. written' = Len(delivered') + Unread'
      <3>1. Unread \in Int /\ written \in Int /\ Len(delivered) \in Int
        BY <1>2, SizeAssumption DEF RingTypeOK, Unread, Dist, Index
      <3> QED BY <3>1, <1>2, <1>4, <1>5 DEF RingHolds
    <2>2. ASSUME NEW k \in 1 .. Unread + 1
          PROVE  CIRC_BUFFER'[quick_module(last_read + k)]
                   = Sample(Len(delivered) + k)
      <3>1. k \in 0 .. CIRC_BUF_SIZE - 1 /\ Unread \in Nat
        <4>1. Unread \in 0 .. CIRC_BUF_SIZE - 1
          BY <1>2, SizeAssumption DEF RingTypeOK, Index, Unread, Dist
        <4>2. Unread + 1 <= CIRC_BUF_SIZE - 1
          BY <1>2, <1>3, SizeAssumption DEF RingTypeOK, Index, Unread, Dist
        <4> QED BY <4>1, <4>2, SizeAssumption
      <3>2. quick_module(last_read + k) =
              IF last_read + k < CIRC_BUF_SIZE THEN last_read + k
              ELSE last_read + k - CIRC_BUF_SIZE
        BY <1>2, <3>1, SlotValue
      <3>3. CASE k = Unread + 1
        <4>1. quick_module(last_read + k) = last_write'
          BY <3>1, <3>2, <3>3, <1>2, <1>3, SizeAssumption
          DEF RingTypeOK, Index, Unread, Dist
        <4>2. written + 1 = Len(delivered) + k
          BY <1>2, <3>1, <3>3 DEF RingHolds, RingTypeOK
        <4> QED BY <4>1, <4>2, <1>1, <1>2, <1>4 DEF RingTypeOK
      <3>4. CASE k # Unread + 1
        <4>1. k \in 1 .. Unread
          BY <3>1, <3>4
        <4>2. quick_module(last_read + k) # last_write'
              /\ quick_module(last_read + k) \in Index
          BY <3>1, <3>2, <4>1, <1>2, <1>3, SizeAssumption
          DEF RingTypeOK, Index, Unread, Dist
        <4> QED BY <4>1, <4>2, <1>2, <1>4 DEF RingTypeOK, RingHolds
      <3> QED BY <3>3, <3>4
    <2> QED BY <2>1, <2>2, <1>4, <1>5 DEF RingHolds
  <1>7. CountHolds'
    <2>1. pc' = "count_wrapped" => last_read' > last_write'
      BY <1>2, <1>3, <1>4, SizeAssumption DEF CountHolds, RingTypeOK, Index
    <2>2. Unread \in Nat /\ samples_to_copy \in Nat
      BY <1>2, SizeAssumption DEF RingTypeOK, Index, Unread, Dist
    <2> QED BY <1>2, <1>4, <1>5, <2>1, <2>2, WordAssumption DEF CountHolds
  <1>8. BatchHolds'
    BY <1>2, <1>4 DEF BatchHolds
  <1>9. InOrder'
    BY <1>2, <1>4 DEF RingInv, InOrder
  <1> QED BY <1>1, <1>6, <1>7, <1>8, <1>9 DEF RingInv

\* Counting: whichever branch the stale comparison chose, the count is at most
\* what is unread, or too large to allocate.
LEMMA CountStep ==
  ASSUME RingInv, CountWrapped \/ CountAhead, ~overrun
  PROVE  samples_to_copy' <= Unread \/ samples_to_copy' > KMALLOC_MAX
  <1>1. RingTypeOK /\ CountHolds
    BY DEF RingInv
  <1>2. CASE CountWrapped
    BY <1>1, <1>2, SizeAssumption
    DEF CountWrapped, Step, CountHolds, Unread, Dist, RingTypeOK, Index, LAST_INDEX
  <1>3. CASE CountAhead
    <2>1. samples_to_copy' = Minus32(last_write, last_read)
      BY <1>3 DEF CountAhead
    <2>2. last_write \in Index /\ last_read \in Index
      BY <1>1 DEF RingTypeOK
    <2>3. /\ last_write >= last_read
             => Minus32(last_write, last_read) = last_write - last_read
          /\ last_write < last_read => Minus32(last_write, last_read) > KMALLOC_MAX
      BY <2>2, MinusValue
    <2> QED BY <2>1, <2>2, <2>3, SizeAssumption DEF Unread, Dist, Index
  <1> QED BY <1>2, <1>3

\* Copying the header words of one slot.
LEMMA CopyHeadStep ==
  ASSUME RingInv, CopyHead, ~overrun
  PROVE  BatchHolds'
  <1>1. RingTypeOK /\ RingHolds /\ CountHolds /\ BatchHolds /\ pc = "copy"
        /\ pc' = "copy_data"
    BY DEF RingInv, CopyHead, Step
  <1> DEFINE n == Len(be_samples)
             idx == quick_module(last_read + (n + 1))
  <1>2. n \in Nat /\ n < samples_to_copy /\ samples_to_copy <= Unread
        /\ \A k \in 1 .. n : be_samples[k] = Sample(Len(delivered) + k)
    BY <1>1 DEF CopyHead, CountHolds, BatchHolds, RingTypeOK
  <1>3. Unread \in Nat /\ samples_to_copy \in Nat
    BY <1>1, SizeAssumption DEF Unread, Dist, RingTypeOK, Index
  <1>4. CIRC_BUFFER[idx] = Sample(Len(delivered) + (n + 1))
    BY <1>1, <1>2, <1>3 DEF RingHolds
  <1>5. last_read + 1 + n = last_read + (n + 1)
    BY <1>1, <1>2 DEF RingTypeOK, Index
  <1>6. be_samples' = Append(be_samples, [head |-> Len(delivered) + (n + 1),
                                          data |-> 0])
    BY <1>4, <1>5 DEF CopyHead, Sample
  <1>7. /\ Len(be_samples') = n + 1
        /\ be_samples'[n + 1].head = Len(delivered) + (n + 1)
        /\ \A k \in 1 .. n : be_samples'[k] = be_samples[k]
    BY <1>1, <1>6 DEF RingTypeOK
  <1>8. delivered' = delivered /\ samples_to_copy' = samples_to_copy
    BY DEF CopyHead
  <1> HIDE DEF n
  <1> QED BY <1>1, <1>2, <1>3, <1>7, <1>8 DEF BatchHolds

\* Copying its data words.
LEMMA CopyDataStep ==
  ASSUME RingInv, CopyData, ~overrun
  PROVE  BatchHolds'
  <1>1. RingTypeOK /\ RingHolds /\ CountHolds /\ BatchHolds /\ pc = "copy_data"
        /\ pc' = "copy"
    BY DEF RingInv, CopyData, Step
  <1> DEFINE n == Len(be_samples)
             idx == quick_module(last_read + n)
  <1>2. /\ n \in 1 .. samples_to_copy /\ samples_to_copy <= Unread
        /\ samples_to_copy \in Nat
        /\ \A k \in 1 .. n - 1 : be_samples[k] = Sample(Len(delivered) + k)
        /\ be_samples[n].head = Len(delivered) + n
    BY <1>1 DEF CountHolds, BatchHolds, RingTypeOK
  <1>3. Unread \in Nat
    BY <1>1, SizeAssumption DEF Unread, Dist, RingTypeOK, Index
  <1>4. CIRC_BUFFER[idx] = Sample(Len(delivered) + n)
    BY <1>1, <1>2, <1>3 DEF RingHolds
  <1>5. be_samples' = [be_samples EXCEPT ![n] = Sample(Len(delivered) + n)]
    <2>1. be_samples' = [be_samples EXCEPT ![n] =
                           [head |-> be_samples[n].head,
                            data |-> CIRC_BUFFER[idx].data]]
      BY DEF CopyData
    <2>2. CIRC_BUFFER[idx].data = Len(delivered) + n
      BY <1>4 DEF Sample
    <2>3. be_samples[n].head = Len(delivered) + n
      BY <1>2
    <2> HIDE DEF n, idx
    <2>4. [head |-> be_samples[n].head, data |-> CIRC_BUFFER[idx].data]
            = Sample(Len(delivered) + n)
      BY <2>2, <2>3, Zenon DEF Sample
    <2> QED BY <2>1, <2>4
  <1>6. /\ Len(be_samples') = n
        /\ be_samples'[n] = Sample(Len(delivered) + n)
        /\ \A k \in 1 .. n - 1 : be_samples'[k] = be_samples[k]
    BY <1>1, <1>2, <1>5 DEF RingTypeOK
  <1>7. delivered' = delivered /\ samples_to_copy' = samples_to_copy
    BY DEF CopyData
  <1>8. \A k \in 1 .. n : be_samples'[k] = Sample(Len(delivered) + k)
    <2> SUFFICES ASSUME NEW k \in 1 .. n
                 PROVE  be_samples'[k] = Sample(Len(delivered) + k)
      OBVIOUS
    <2>1. k = n \/ k \in 1 .. n - 1
      BY <1>2
    <2> HIDE DEF n
    <2> QED BY <2>1, <1>2, <1>6
  <1> HIDE DEF n
  <1> QED BY <1>1, <1>2, <1>6, <1>7, <1>8 DEF BatchHolds

\* Returning the batch: what was at the front of the ring is now delivered.
LEMMA CommitStep ==
  ASSUME RingInv, Commit, ~overrun
  PROVE  InOrder' /\ RingHolds'
  <1>1. RingTypeOK /\ InOrder /\ RingHolds /\ CountHolds /\ BatchHolds /\ pc = "copy"
    BY DEF RingInv, Commit, Step
  <1> DEFINE n == samples_to_copy
             d == Len(delivered)
  <1>2. /\ n \in Nat /\ d \in Nat /\ n <= Unread /\ Len(be_samples) = n
        /\ \A k \in 1 .. n : be_samples[k] = Sample(d + k)
    <2>1. Len(be_samples) \in Nat /\ n \in Nat /\ d \in Nat
      BY <1>1 DEF RingTypeOK
    <2>2. Len(be_samples) >= n /\ Len(be_samples) <= n
      BY <1>1 DEF Commit, BatchHolds
    <2>3. Len(be_samples) = n
      BY <2>1, <2>2
    <2> QED BY <1>1, <2>1, <2>3 DEF CountHolds, BatchHolds
  <1>3. Unread \in 0 .. CIRC_BUF_SIZE - 1 /\ n \in 0 .. CIRC_BUF_SIZE - 1
        /\ last_read \in Nat /\ last_read < CIRC_BUF_SIZE
    BY <1>1, <1>2, SizeAssumption DEF Unread, Dist, RingTypeOK, Index
  <1>4. /\ delivered' = delivered \o be_samples
        /\ last_write' = last_write /\ CIRC_BUFFER' = CIRC_BUFFER
        /\ written' = written /\ overrun' = overrun
    BY DEF Commit, shared
  <1>5. last_read' = IF last_read + n < CIRC_BUF_SIZE THEN last_read + n
                     ELSE last_read + n - CIRC_BUF_SIZE
    BY <1>1, <1>3, SlotValue DEF Commit
  <1> HIDE DEF n
  <1>6. Unread' = Unread - n
    BY <1>1, <1>2, <1>3, <1>4, <1>5, SizeAssumption
    DEF Unread, Dist, RingTypeOK, Index
  <1>7. Len(delivered') = d + n
    <2>1. Len(delivered') = Len(delivered) + Len(be_samples)
      BY <1>1, <1>4 DEF RingTypeOK
    <2> QED BY <1>2, <2>1
  <1>8. \A k \in 1 .. d + n : delivered'[k] = Sample(k)
    <2> SUFFICES ASSUME NEW k \in 1 .. d + n PROVE delivered'[k] = Sample(k)
      OBVIOUS
    <2>1. CASE k <= d
      <3>1. k \in 1 .. d
        BY <2>1, <1>2
      <3>2. delivered'[k] = delivered[k]
        BY <3>1, <1>1, <1>4 DEF RingTypeOK
      <3> QED BY <3>1, <3>2, <1>1 DEF InOrder
    <2>2. CASE k > d
      <3>1. k - d \in 1 .. n /\ d + (k - d) = k
        BY <2>2, <1>2
      <3>2. delivered'[k] = be_samples[k - d]
        BY <2>2, <3>1, <1>1, <1>2, <1>4 DEF RingTypeOK
      <3> QED BY <3>1, <3>2, <1>2
    <2> QED BY <2>1, <2>2, <1>2
  <1>9. InOrder'
    BY <1>7, <1>8 DEF InOrder
  <1>10. written' = Len(delivered') + Unread'
    <2>1. written = d + Unread
      BY <1>1 DEF RingHolds
    <2> HIDE DEF d
    <2> QED BY <2>1, <1>2, <1>3, <1>4, <1>6, <1>7
  <1>11. ASSUME NEW k \in 1 .. Unread - n
         PROVE  CIRC_BUFFER[quick_module(last_read' + k)] = Sample(d + n + k)
    <2>1. n + k \in 1 .. Unread /\ n + k \in 0 .. CIRC_BUF_SIZE - 1
          /\ d + n + k = d + (n + k)
      <3> HIDE DEF d
      <3> QED BY <1>2, <1>3, SizeAssumption
    <2>2. CIRC_BUFFER[quick_module(last_read + (n + k))] = Sample(d + (n + k))
      BY <2>1, <1>1 DEF RingHolds
    <2>3. quick_module(last_read' + k) = quick_module(last_read + (n + k))
      <3>1. quick_module(last_read + (n + k)) =
              IF last_read + (n + k) < CIRC_BUF_SIZE THEN last_read + (n + k)
              ELSE last_read + (n + k) - CIRC_BUF_SIZE
        BY <2>1, <1>1, SlotValue
      <3>2. last_read' + k \in Nat /\ last_read' + k < 2 * CIRC_BUF_SIZE
            /\ last_read' \in Nat
        BY <1>2, <1>3, <1>5, SizeAssumption
      <3>3. quick_module(last_read' + k) =
              IF last_read' + k < CIRC_BUF_SIZE THEN last_read' + k
              ELSE (last_read' + k) - CIRC_BUF_SIZE
        <4> DEFINE x == last_read' + k
        <4>1. x \in Nat /\ x < 2 * CIRC_BUF_SIZE
          BY <3>2
        <4> HIDE DEF x
        <4>2. quick_module(x) = IF x < CIRC_BUF_SIZE THEN x ELSE x - CIRC_BUF_SIZE
          BY <4>1, ModuleValue
        <4> QED BY <4>2 DEF x
      <3> QED BY <3>1, <3>2, <3>3, <1>2, <1>3, <1>5, SizeAssumption
    <2> QED BY <2>1, <2>2, <2>3
  <1>12. RingHolds'
    BY <1>4, <1>6, <1>7, <1>10, <1>11 DEF RingHolds
  <1> QED BY <1>9, <1>12

\* An empty ring and an idle reader satisfy the inductive invariant.
LEMMA RingInvInit == RingInit => RingInv
  BY TypeInit, SizeAssumption
  DEF RingInit, RingInv, InOrder, RingHolds, CountHolds, BatchHolds, Unread, Dist

\* Every step of the interrupt and of read_nsamples keeps it.
LEMMA IInvStep == RingInv /\ [RingNext]_ringVars => RingInv'
  <1> SUFFICES ASSUME RingInv, [RingNext]_ringVars PROVE RingInv'
    OBVIOUS
  <1>1. RingTypeOK'
    BY RingTypeStep DEF RingInv
  <1>2. CASE overrun'
    BY <1>1, <1>2 DEF RingInv, InOrder
  <1>3. CASE ~overrun' /\ write_to_buffer
    BY <1>3, WriteStep
  <1>4. CASE ~overrun' /\ read_nsamples
    <2>1. ~overrun /\ RingTypeOK /\ InOrder /\ RingHolds /\ CountHolds /\ BatchHolds
          /\ last_write' = last_write /\ CIRC_BUFFER' = CIRC_BUFFER
          /\ written' = written
      BY <1>4 DEF RingInv, read_nsamples, Enter, CheckEmpty, Compare, CountWrapped,
         CountAhead, KmallocFails, KmallocSucceeds, CopyHead, CopyData, Commit,
         shared
    <2>2. CASE Commit
      <3>1. CountHolds' /\ BatchHolds'
        BY <2>2 DEF Commit, Step, CountHolds, BatchHolds
      <3> QED BY <1>1, <2>1, <2>2, <3>1, CommitStep DEF RingInv
    <2>3. CASE ~Commit
      <3>1. last_read' = last_read /\ delivered' = delivered
            /\ overrun' = overrun
        BY <1>4, <2>3 DEF read_nsamples, Enter, CheckEmpty, Compare,
           CountWrapped, CountAhead, KmallocFails, KmallocSucceeds, CopyHead,
           CopyData
      <3>2. RingHolds' /\ InOrder' /\ Unread' = Unread
        BY <2>1, <3>1 DEF RingHolds, InOrder, Unread
      <3>3. CASE Enter
        BY <1>1, <2>1, <3>2, <3>3
        DEF RingInv, Enter, Step, CountHolds, BatchHolds
      <3>4. CASE CheckEmpty
        BY <1>1, <2>1, <3>2, <3>4
        DEF RingInv, CheckEmpty, Step, CountHolds, BatchHolds, locals
      <3>5. CASE Compare
        BY <1>1, <2>1, <3>1, <3>2, <3>5
        DEF RingInv, Compare, Step, CountHolds, BatchHolds, locals
      <3>6. CASE CountWrapped \/ CountAhead
        <4>1. CountHolds'
          BY <2>1, <3>2, <3>6, CountStep
          DEF CountWrapped, CountAhead, Step, CountHolds
        <4>2. BatchHolds'
          BY <2>1, <3>6 DEF CountWrapped, CountAhead, Step, BatchHolds
        <4> QED BY <1>1, <3>2, <4>1, <4>2 DEF RingInv
      <3>7. CASE KmallocFails
        BY <1>1, <2>1, <3>2, <3>7
        DEF RingInv, KmallocFails, Step, CountHolds, BatchHolds, locals
      <3>8. CASE KmallocSucceeds
        <4>1. CountHolds'
          BY <2>1, <3>2, <3>8, WordAssumption
          DEF KmallocSucceeds, Step, CountHolds, locals, RingTypeOK
        <4>2. BatchHolds'
          BY <2>1, <3>1, <3>8
          DEF KmallocSucceeds, Step, BatchHolds, locals, RingTypeOK
        <4> QED BY <1>1, <3>2, <4>1, <4>2 DEF RingInv
      <3>9. CASE CopyHead
        <4>1. CountHolds'
          BY <2>1, <3>2, <3>9 DEF CopyHead, Step, CountHolds
        <4> QED BY <1>1, <2>1, <3>2, <3>9, <4>1, CopyHeadStep DEF RingInv
      <3>10. CASE CopyData
        <4>1. CountHolds'
          BY <2>1, <3>2, <3>10 DEF CopyData, Step, CountHolds
        <4> QED BY <1>1, <2>1, <3>2, <3>10, <4>1, CopyDataStep DEF RingInv
      <3> QED
        BY <1>4, <2>3, <3>3, <3>4, <3>5, <3>6, <3>7, <3>8, <3>9, <3>10
        DEF read_nsamples
    <2> QED BY <2>2, <2>3
  <1>5. CASE UNCHANGED ringVars
    BY <1>5 DEF ringVars, RingInv, RingTypeOK, InOrder, RingHolds, CountHolds, BatchHolds,
       Unread
  <1> QED BY <1>2, <1>3, <1>4, <1>5 DEF RingNext

\* At every point of read_nsamples the slots between the two indices hold the
\* samples not yet returned, the count covers only samples already written and
\* the copy made so far equals them, as long as the writer has not lapped it.
THEOREM RingInvariant == RingSpec => []RingInv
  BY RingInvInit, IInvStep, PTL DEF RingSpec

\* For every ring size: until the writer laps the reader, read_nsamples returns
\* every sample exactly once, in order and untorn, whatever the interleaving.
THEOREM InOrderDelivery == RingSpec => []InOrder
  <1>1. RingInv => InOrder
    BY DEF RingInv
  <1> QED BY <1>1, RingInvariant, PTL

\* The reader never overtakes the writer: no call moves last_read beyond the
\* samples that were unread, although its count may be stale.
THEOREM ReaderBehind == RingSpec => ReaderStaysBehind
  <1>1. RingInv /\ [RingNext]_ringVars
          => [~overrun => Dist(last_read, last_read') <= Unread]_ringVars
    <2> SUFFICES ASSUME RingInv, RingNext, ~overrun
                 PROVE  Dist(last_read, last_read') <= Unread
      OBVIOUS
    <2>1. RingTypeOK /\ CountHolds /\ BatchHolds
      BY DEF RingInv
    <2>2. Unread \in 0 .. CIRC_BUF_SIZE - 1 /\ last_read \in Nat
          /\ last_read < CIRC_BUF_SIZE
      BY <2>1, SizeAssumption DEF Unread, Dist, RingTypeOK, Index
    <2>3. CASE Commit
      <3>1. samples_to_copy \in Nat /\ samples_to_copy <= Unread
        BY <2>1, <2>3 DEF Commit, Step, CountHolds, RingTypeOK
      <3>2. samples_to_copy \in 0 .. CIRC_BUF_SIZE - 1
        BY <2>2, <3>1, SizeAssumption
      <3>3. last_read' =
              IF last_read + samples_to_copy < CIRC_BUF_SIZE
              THEN last_read + samples_to_copy
              ELSE last_read + samples_to_copy - CIRC_BUF_SIZE
        BY <2>1, <2>3, <3>2, SlotValue DEF Commit
      <3>4. Dist(last_read, last_read') = samples_to_copy
        BY <2>2, <3>2, <3>3, SizeAssumption DEF Dist
      <3> QED BY <3>1, <3>4
    <2>4. CASE ~Commit
      <3>1. last_read' = last_read
        BY <2>4 DEF RingNext, write_to_buffer, read_nsamples, Enter, CheckEmpty,
           Compare, CountWrapped, CountAhead, KmallocFails, KmallocSucceeds,
           CopyHead, CopyData
      <3> QED BY <2>2, <3>1, SizeAssumption DEF Dist
    <2> QED BY <2>3, <2>4
  <1> QED BY <1>1, RingInvariant, PTL DEF RingSpec, ReaderStaysBehind
-----------------------------------------------------------------------------
(* Refinement of the FIFO.                                                 *)

\* The n samples that follow the first d ones.
Following(d, n) == [k \in 1 .. n |-> Sample(d + k)]

\* Samples join such a run at its end and leave it at its front.
LEMMA FollowingSeq ==
  ASSUME NEW d \in Nat, NEW n \in Nat
  PROVE  /\ Following(d, n) \in Seq(Samples)
         /\ Len(Following(d, n)) = n
         /\ Following(d, n + 1) = Append(Following(d, n), Sample(d + n + 1))
         /\ \A k \in 0 .. n :
              /\ SubSeq(Following(d, n), 1, k) = Following(d, k)
              /\ SubSeq(Following(d, n), k + 1, n) = Following(d + k, n - k)
  <1> USE DEF Following
  <1>1. \A k \in 1 .. n + 1 : Sample(d + k) \in Samples
    BY DEF Sample, Samples
  <1>2. Following(d, n) \in Seq(Samples) /\ Len(Following(d, n)) = n
    BY <1>1
  <1>3. Following(d, n + 1) = Append(Following(d, n), Sample(d + n + 1))
    <2>1. d + n + 1 = d + (n + 1)
      OBVIOUS
    <2> QED BY <1>1, <1>2, <2>1
  <1>4. ASSUME NEW k \in 0 .. n
        PROVE  /\ SubSeq(Following(d, n), 1, k) = Following(d, k)
               /\ SubSeq(Following(d, n), k + 1, n) = Following(d + k, n - k)
    <2>1. SubSeq(Following(d, n), 1, k) = Following(d, k)
      BY <1>1, <1>2
    <2>2. SubSeq(Following(d, n), k + 1, n) = Following(d + k, n - k)
      BY <1>1, <1>2
    <2> QED BY <2>1, <2>2
  <1> QED BY <1>2, <1>3, <1>4

\* What waits in the ring, as the refinement mapping reads it.
Waiting == [k \in 1 .. Unread |-> CIRC_BUFFER[quick_module(last_read + k)]]

\* It is the run of samples that follows what has been delivered.
WaitingHolds ==
  /\ Len(delivered) \in Nat /\ Unread \in 0 .. CIRC_BUF_SIZE - 1
  /\ Waiting = Following(Len(delivered), Unread)

\* The invariant implies it while no overrun has happened.
LEMMA WaitingStep == RingInv /\ ~overrun => WaitingHolds
  <1> SUFFICES ASSUME RingInv, ~overrun PROVE WaitingHolds
    OBVIOUS
  <1>1. Len(delivered) \in Nat /\ Unread \in 0 .. CIRC_BUF_SIZE - 1
    BY SizeAssumption DEF RingInv, RingTypeOK, Unread, Dist, Index
  <1>2. \A k \in 1 .. Unread :
          CIRC_BUFFER[quick_module(last_read + k)] = Sample(Len(delivered) + k)
    BY DEF RingInv, RingHolds
  <1>3. Waiting = Following(Len(delivered), Unread)
    BY <1>2, Zenon DEF Following, Waiting
  <1> QED BY <1>1, <1>3 DEF WaitingHolds

\* Every step of the ring puts one sample, takes a batch, gives up or changes
\* nothing of the FIFO.
LEMMA FifoStep == RingInv /\ RingInv' /\ [RingNext]_ringVars => [Fifo!Next]_(Fifo!fifoVars)
  <1>a. WaitingHolds' \/ ~RingInv' \/ overrun'
    BY WaitingStep, PTL
  <1> SUFFICES ASSUME RingInv, RingInv', [RingNext]_ringVars
               PROVE  Fifo!Next \/ UNCHANGED Fifo!fifoVars
    OBVIOUS
  <1>1. RingTypeOK
    BY DEF RingInv
  <1>2. CASE overrun
    <2>1. overrun'
      BY <1>2, <1>1 DEF RingNext, ringVars, write_to_buffer, read_nsamples, Enter, CheckEmpty,
         Compare, CountWrapped, CountAhead, KmallocFails, KmallocSucceeds,
         CopyHead, CopyData, Commit
    <2> QED BY <1>2, <2>1 DEF Fifo!fifoVars
  <1>3. CASE ~overrun /\ overrun'
    <2>1. write_to_buffer /\ last_write' = last_read
      BY <1>1, <1>3 DEF RingNext, ringVars, write_to_buffer, read_nsamples, Enter,
         CheckEmpty, Compare, CountWrapped, CountAhead, KmallocFails,
         KmallocSucceeds, CopyHead, CopyData, Commit
    <2>2. last_write' = IF last_write + 1 < CIRC_BUF_SIZE THEN last_write + 1
                        ELSE last_write + 1 - CIRC_BUF_SIZE
      BY <1>1, <2>1, ModuleValue, SizeAssumption
      DEF write_to_buffer, RingTypeOK, Index
    <2>3. Unread = CIRC_BUF_SIZE - 1
      BY <1>1, <2>1, <2>2, SizeAssumption DEF Unread, Dist, RingTypeOK, Index
    <2>4. WaitingHolds
      BY <1>3, WaitingStep
    <2>5. Len(Waiting) = CIRC_BUF_SIZE - 1
      BY <2>3, <2>4, FollowingSeq DEF WaitingHolds
    <2>6. Fifo!GiveUp
      BY <1>3, <2>5 DEF Fifo!GiveUp, Waiting
    <2> QED BY <2>6 DEF Fifo!Next
  <1>4. CASE ~overrun /\ ~overrun' /\ write_to_buffer
    <2>1. WaitingHolds /\ WaitingHolds'
      BY <1>a, <1>4, WaitingStep
    <2>2. UNCHANGED <<last_read, delivered>> /\ last_write' # last_read
      BY <1>4, <1>1 DEF write_to_buffer, RingTypeOK
    <2>3. last_write' = IF last_write + 1 < CIRC_BUF_SIZE THEN last_write + 1
                        ELSE last_write + 1 - CIRC_BUF_SIZE
      BY <1>1, <1>4, ModuleValue, SizeAssumption
      DEF write_to_buffer, RingTypeOK, Index
    <2>4. Unread' = Unread + 1 /\ Unread < CIRC_BUF_SIZE - 1
      BY <1>1, <2>2, <2>3, SizeAssumption DEF Unread, Dist, RingTypeOK, Index
    <2>5. /\ Len(delivered) \in Nat /\ Unread \in Nat
          /\ Waiting = Following(Len(delivered), Unread)
          /\ Waiting' = Following(Len(delivered), Unread + 1)
      BY <2>1, <2>2, <2>4 DEF WaitingHolds
    <2>6. /\ Len(Waiting) = Unread
          /\ Waiting' = Append(Waiting, Sample(Len(delivered) + Unread + 1))
      BY <2>5, FollowingSeq
    <2>7. Fifo!Put
      BY <1>4, <2>2, <2>4, <2>6 DEF Fifo!Put, Waiting
    <2> QED BY <2>7 DEF Fifo!Next
  <1>5. CASE ~overrun /\ ~overrun' /\ Commit
    <2>1. WaitingHolds /\ WaitingHolds'
      BY <1>a, <1>5, WaitingStep
    <2> DEFINE n == samples_to_copy
               d == Len(delivered)
    <2>2. /\ n \in Nat /\ n <= Unread /\ be_samples \in Seq(Samples)
          /\ Len(be_samples) = n
          /\ \A k \in 1 .. n : be_samples[k] = Sample(d + k)
      BY <1>1, <1>5 DEF Commit, Step, RingInv, CountHolds, BatchHolds, RingTypeOK
    <2>3. be_samples = Following(d, n)
      BY <2>2 DEF Following
    <2>4. delivered' = delivered \o Following(d, n) /\ delivered \in Seq(Samples)
      BY <1>1, <1>5, <2>3 DEF Commit, RingTypeOK
    <2>5. d \in Nat /\ Unread \in Nat
      BY <2>1 DEF WaitingHolds
    <2>6. Len(delivered') = d + n
      BY <2>2, <2>3, <2>4, <2>5
    <2> HIDE DEF d, n
    <2>7. Unread' = Unread - n
      <3>1. written' = written /\ RingHolds /\ RingHolds'
        BY <1>5 DEF Commit, shared, RingInv
      <3>2. written = d + Unread /\ written = (d + n) + Unread'
        BY <3>1, <2>6 DEF RingHolds, d
      <3>3. Unread' \in Nat
        BY <2>1 DEF WaitingHolds
      <3>4. n \in Nat /\ d \in Nat /\ Unread \in Nat
        BY <2>2, <2>5
      <3>5. d + Unread = (d + n) + Unread'
        BY <3>2
      <3>6. PICK u \in Nat : u = Unread'
        BY <3>3
      <3>7. d + Unread = (d + n) + u
        BY <3>5, <3>6
      <3>8. u = Unread - n
        BY <3>4, <3>7
      <3> QED BY <3>6, <3>8
    <2>8. /\ Waiting = Following(d, Unread)
          /\ Waiting' = Following(d + n, Unread - n)
      BY <2>1, <2>6, <2>7 DEF WaitingHolds, d
    <2>9. /\ Len(Waiting) = Unread
          /\ SubSeq(Waiting, 1, n) = Following(d, n)
          /\ SubSeq(Waiting, n + 1, Len(Waiting)) = Waiting'
      <3>1. n \in 0 .. Unread /\ Unread \in Nat /\ d \in Nat
        BY <2>2, <2>5
      <3>2. /\ Len(Following(d, Unread)) = Unread
            /\ SubSeq(Following(d, Unread), 1, n) = Following(d, n)
            /\ SubSeq(Following(d, Unread), n + 1, Unread)
                 = Following(d + n, Unread - n)
        BY <3>1, FollowingSeq
      <3> QED BY <2>8, <3>2
    <2>10. CASE n = 0
      <3>1. Following(d, n) = <<>>
        BY <2>10 DEF Following
      <3>2. delivered' = delivered
        BY <2>4, <3>1
      <3>3. Waiting' = Waiting
        BY <2>2, <2>5, <2>8, <2>10
      <3> QED BY <1>5, <3>2, <3>3 DEF Fifo!fifoVars, Waiting
    <2>11. CASE n # 0
      <3>1. n \in 1 .. Len(Waiting)
        BY <2>2, <2>5, <2>9, <2>11
      <3>2. /\ delivered' = delivered \o SubSeq(Waiting, 1, n)
            /\ Waiting' = SubSeq(Waiting, n + 1, Len(Waiting))
        BY <2>4, <2>9
      <3>3. Fifo!Take
        BY <1>5, <3>1, <3>2 DEF Fifo!Take, Waiting
      <3> QED BY <3>3 DEF Fifo!Next
    <2> QED BY <2>10, <2>11
  <1>6. CASE ~overrun /\ ~overrun' /\ ~write_to_buffer /\ ~Commit
    <2>1. UNCHANGED <<last_read, last_write, CIRC_BUFFER, delivered>>
      BY <1>6 DEF RingNext, ringVars, write_to_buffer, read_nsamples, Enter, CheckEmpty,
         Compare, CountWrapped, CountAhead, KmallocFails, KmallocSucceeds,
         CopyHead, CopyData, Commit, shared
    <2> QED BY <1>6, <2>1 DEF Fifo!fifoVars, Unread
  <1> QED BY <1>2, <1>3, <1>4, <1>5, <1>6

\* proc_entry.c implements the FIFO main_loop of the sender relies on, for
\* every ring size: a write puts one sample, a call takes a batch from the
\* front, and no other step of read_nsamples shows.
THEOREM Refinement == RingSpec => RefinesFifo
  <1>1. RingInit => Fifo!Init
    <2> SUFFICES ASSUME RingInit PROVE Fifo!Init
      OBVIOUS
    <2>1. Unread = 0 /\ ~overrun /\ delivered = <<>>
      BY SizeAssumption DEF RingInit, Unread, Dist
    <2> QED BY <2>1 DEF Fifo!Init
  <1> QED BY <1>1, FifoStep, RingInvariant, PTL DEF RingSpec, RefinesFifo, Fifo!Spec
-----------------------------------------------------------------------------
(***************************************************************************)
(* Proofs about the time stamps, for every number of ticks in a second,    *)
(* every phase of the kernel clock and every length of the run.  The       *)
(* invariant counts time since the last pulse that the handler handled or  *)
(* lost, and relates the recorded kernel time to that pulse.               *)
(***************************************************************************)

\* A pulse has fallen that is neither handled nor lost yet.
PulsePending == ppsDue \/ (SDA \in status /\ handling # "gps")

\* Ticks since the last pulse that was handled or lost.
Since == now - (elapsed_secs + missed) * USECS

\* At most one pulse is under way, and a second is over exactly when it falls.
PulseInv ==
  /\ handling = "gps" => SDA \in status
  /\ SDA \in status => ~ppsDue
  /\ Since \in 0 .. USECS
  /\ PulsePending <=> Since = USECS

\* The recorded kernel time is that of some pulse, the latest when inStep; or
\* no pulse was ever handled.
BaseInv ==
  /\ inStep => sec_in_pps = BootSecs + elapsed_secs + missed
  /\ \/ sec_in_pps = 0
     \/ /\ sec_in_pps \in BootSecs .. BootSecs + elapsed_secs + missed
        /\ usec_in_pps = phase

\* The handler's copy never claims a selection that the pin does not show.
MuxInv == mux_state = 1 => dio26 = 1

IInv ==
  /\ TypeOK /\ PulseInv /\ BaseInv /\ MuxInv
  /\ StampExact /\ StampErrorBounded /\ MuxSelected

-----------------------------------------------------------------------------
(* Arithmetic with a symbolic second.                                      *)

\* The quotient and the remainder are the only ones.
LEMMA DivisionIs ==
  ASSUME NEW b \in Nat \ {0}, NEW q \in Nat, NEW r \in 0..(b - 1)
  PROVE  (q * b + r) \div b = q /\ (q * b + r) % b = r
  <1>1. PICK n \in Nat : n = q * b + r
    OBVIOUS
  <1>2. PICK y \in Int, z \in Int : y = n \div b /\ z = n % b /\ n = b * y + z /\ 0 <= z /\ z < b
    OBVIOUS
  <1>3. b * (q - y) = z - r
    BY <1>1, <1>2
  <1>4. ~(q - y >= 1)
    <2>1. ASSUME q - y >= 1 PROVE b * (q - y) >= b
      BY <2>1
    <2> QED BY <2>1, <1>2, <1>3
  <1>5. ~(y - q >= 1)
    <2>1. ASSUME y - q >= 1 PROVE b * (y - q) >= b
      BY <2>1
    <2>2. b * (y - q) = r - z
      BY <1>3
    <2> QED BY <2>1, <2>2, <1>2
  <1>6. q = y
    BY <1>2, <1>4, <1>5
  <1> QED BY <1>1, <1>2, <1>3, <1>6
\* Division of a time by the length of a second.
LEMMA DivMod ==
  ASSUME NEW q \in Nat, NEW r \in 0 .. USECS - 1
  PROVE  (q * USECS + r) \div USECS = q /\ (q * USECS + r) % USECS = r
  BY ClockAssumption, DivisionIs

\* A time less than two seconds after a whole number of them.
LEMMA DivModTwo ==
  ASSUME NEW q \in Nat, NEW r \in 0 .. 2 * USECS - 1
  PROVE  /\ (q * USECS + r) \div USECS = (IF r < USECS THEN q ELSE q + 1)
         /\ (q * USECS + r) % USECS = (IF r < USECS THEN r ELSE r - USECS)
  <1>1. USECS \in Nat /\ USECS > 0
    BY ClockAssumption
  <1>2. CASE r < USECS
    BY <1>1, <1>2, DivMod
  <1>3. CASE r >= USECS
    <2>1. q + 1 \in Nat /\ r - USECS \in 0 .. USECS - 1
      BY <1>1, <1>3
    <2>2. q * USECS + r = (q + 1) * USECS + (r - USECS)
      BY <1>1
    <2>3. /\ ((q + 1) * USECS + (r - USECS)) \div USECS = q + 1
          /\ ((q + 1) * USECS + (r - USECS)) % USECS = r - USECS
      BY <2>1, DivMod
    <2> QED BY <1>1, <1>3, <2>2, <2>3
  <1> QED BY <1>1, <1>2, <1>3

\* The next tick starts a second exactly when USECS ticks have passed.
LEMMA TickStartsSecond ==
  ASSUME NEW q \in Nat, NEW r \in 1 .. USECS
  PROVE  (q * USECS + r) % USECS = 0 <=> r = USECS
  <1>1. USECS \in Nat /\ USECS > 0 /\ r \in 0 .. 2 * USECS - 1
    BY ClockAssumption
  <1>2. (q * USECS + r) % USECS = (IF r < USECS THEN r ELSE r - USECS)
    BY <1>1, DivModTwo
  <1> QED BY <1>1, <1>2

\* The error of a stamp of e seconds and us microseconds at time n after m lost
\* pulses.
LEMMA StampError ==
  ASSUME NEW e \in Nat, NEW m \in Nat, NEW n \in Nat, NEW us \in 0 .. 2 * USECS - 1,
         n - (e + m) * USECS \in 0 .. USECS,
         us \in {0, n - (e + m) * USECS, n - (e + m) * USECS + USECS}
  PROVE  /\ e * USECS + us \in Nat /\ n - m * USECS \in Int
         /\ (e * USECS + us) - (n - m * USECS) \in (-USECS) .. USECS
         /\ us = n - (e + m) * USECS => e * USECS + us = n - m * USECS
  <1> DEFINE eU == e * USECS
             mU == m * USECS
  <1>1. USECS \in Nat /\ USECS > 0 /\ eU \in Nat /\ mU \in Nat
        /\ (e + m) * USECS = eU + mU
    BY ClockAssumption
  <1> HIDE DEF eU, mU
  <1> DEFINE s == n - (eU + mU)
  <1>2. s \in 0 .. USECS /\ us \in {0, s, s + USECS}
    BY <1>1
  <1>3. (eU + us) - (n - mU) = us - s
    BY <1>1
  <1>4. us - s \in (-USECS) .. USECS
    BY <1>1, <1>2
  <1>5. /\ eU + us \in Nat /\ n - mU \in Int
        /\ (eU + us) - (n - mU) \in (-USECS) .. USECS
        /\ us = s => eU + us = n - mU
    BY <1>1, <1>3, <1>4
  <1> QED BY <1>1, <1>5 DEF eU, mU

-----------------------------------------------------------------------------
(* The handler's view of the kernel clock.                                 *)

\* The pulses so far, and the ticks since the kernel second of the last one.
Pulses == BootSecs + elapsed_secs + missed
Past == phase + Since

\* do_gettimeofday, in terms of the last pulse handled or lost.
LEMMA KernelTime ==
  ASSUME TypeOK, PulseInv
  PROVE  /\ Pulses \in Nat /\ Past \in 0 .. 2 * USECS - 1 /\ Since \in 0 .. USECS
         /\ tv_sec = IF Past < USECS THEN Pulses ELSE Pulses + 1
         /\ tv_usec = IF Past < USECS THEN Past ELSE Past - USECS
  <1>1. /\ USECS \in Nat /\ USECS > 0 /\ BootSecs \in Nat
        /\ elapsed_secs \in Nat /\ missed \in Nat /\ now \in Nat
        /\ phase \in 0 .. USECS - 1 /\ Since \in 0 .. USECS
    BY ClockAssumption DEF TypeOK, PulseInv
  <1>2. Pulses \in Nat /\ Past \in 0 .. 2 * USECS - 1
    BY <1>1 DEF Pulses, Past
  <1>3. KernelTicks = Pulses * USECS + Past
    BY <1>1 DEF KernelTicks, Pulses, Past, Since
  <1> QED BY <1>1, <1>2, <1>3, DivModTwo DEF tv_sec, tv_usec

\* calculate_usecs returns the time since the last pulse when that pulse was
\* handled, and otherwise one second more, or nothing.
LEMMA UsecsValue ==
  ASSUME TypeOK, PulseInv, BaseInv
  PROVE  LET us == calculate_usecs(tv_sec, tv_usec, sec_in_pps, usec_in_pps)
         IN  /\ us \in 0 .. 2 * USECS - 1
             /\ us \in {0, Since, Since + USECS}
             /\ inStep => us = Since
  <1>1. /\ USECS \in Nat /\ USECS > 0 /\ BootSecs \in Nat /\ BootSecs > 1
        /\ phase \in 0 .. USECS - 1 /\ sec_in_pps \in Nat /\ usec_in_pps \in Nat
    BY ClockAssumption DEF TypeOK
  <1>2. /\ Pulses \in Nat /\ Past \in 0 .. 2 * USECS - 1 /\ Since \in 0 .. USECS
        /\ tv_sec = IF Past < USECS THEN Pulses ELSE Pulses + 1
        /\ tv_usec = IF Past < USECS THEN Past ELSE Past - USECS
    BY KernelTime
  <1>3. /\ inStep => sec_in_pps = Pulses
        /\ \/ sec_in_pps = 0
           \/ sec_in_pps \in BootSecs .. Pulses /\ usec_in_pps = phase
    BY DEF BaseInv, Pulses
  <1>4. Past = phase + Since /\ Pulses >= BootSecs
    BY <1>1 DEF Past, Pulses, TypeOK
  <1> DEFINE us == calculate_usecs(tv_sec, tv_usec, sec_in_pps, usec_in_pps)
  <1>5. us = IF sec_in_pps = tv_sec THEN tv_usec - usec_in_pps
             ELSE IF sec_in_pps + 1 = tv_sec THEN USECS - usec_in_pps + tv_usec
             ELSE 0
    BY <1>1, <1>2 DEF calculate_usecs
  <1> HIDE DEF us
  <1>6. us \in 0 .. 2 * USECS - 1 /\ us \in {0, Since, Since + USECS}
        /\ (inStep => us = Since)
    BY <1>1, <1>2, <1>3, <1>4, <1>5
  <1> QED BY <1>6 DEF us

-----------------------------------------------------------------------------
(* The invariant.                                                          *)

\* At load time no pulse has fallen and no sample has been written.
LEMMA IInvInit == Init => IInv
  <1> SUFFICES ASSUME Init PROVE IInv
    OBVIOUS
  <1>1. USECS \in Nat /\ USECS > 0
    BY ClockAssumption
  <1>2. TypeOK
    <2>1. 0 \in 0 .. MaxTicks /\ 0 \in 0 .. USECS - 1 /\ 0 \in 0 .. 2 * USECS - 1
      BY <1>1, ClockAssumption
    <2>2. sample \in [timestamp : Nat, seq : Nat, at : Int, mux : {0, 1},
                       valid : BOOLEAN]
      BY DEF Init, NoSample
    <2>3. ppsDue \in BOOLEAN /\ adcDue \in BOOLEAN /\ inStep \in BOOLEAN
          /\ status \subseteq {SCL, SDA} /\ handling \in {"no", "adc", "gps"}
      BY Zenon DEF Init
    <2> QED BY <2>1, <2>2, <2>3 DEF Init, TypeOK
  <1>3. Since = 0
    BY <1>1 DEF Init, Since
  <1>4. PulseInv
    BY <1>1, <1>3 DEF Init, PulseInv, PulsePending
  <1>5. StampErrorBounded
    BY <1>1 DEF Init, NoSample, StampErrorBounded
  <1> QED BY <1>2, <1>4, <1>5
          DEF Init, IInv, BaseInv, MuxInv, StampExact, MuxSelected, NoSample

\* A tick: the pulse falls due when the second is over, and not before.
LEMMA TickStep == ASSUME IInv, Tick PROVE IInv'
  <1>1. /\ TypeOK /\ PulseInv /\ USECS \in Nat /\ USECS > 0
        /\ elapsed_secs \in Nat /\ missed \in Nat /\ now \in Nat
        /\ elapsed_secs' = elapsed_secs /\ missed' = missed /\ now' = now + 1
    BY ClockAssumption DEF IInv, TypeOK, Tick, ppsVars
  <1>2. Since' = Since + 1
    BY <1>1 DEF Since
  <1>3. ~PulsePending
    BY DEF Tick, PulsePending
  <1>4. Since \in 0 .. USECS - 1
    BY <1>1, <1>3 DEF PulseInv
  <1>5. (now' % USECS = 0) <=> Since + 1 = USECS
    <2>1. elapsed_secs + missed \in Nat /\ Since + 1 \in 1 .. USECS
          /\ now' = (elapsed_secs + missed) * USECS + (Since + 1)
      BY <1>1, <1>4 DEF Since
    <2> QED BY <2>1, TickStartsSecond
  <1>6. PulseInv'
    <2>1. PulsePending' <=> Since' = USECS
      BY <1>2, <1>5 DEF Tick, PulsePending
    <2>2. Since' \in 0 .. USECS
      BY <1>1, <1>2, <1>4
    <2> QED BY <2>1, <2>2 DEF Tick, PulseInv
  <1>7. TypeOK'
    BY <1>1, ClockAssumption DEF Tick, TypeOK, ppsVars
  <1> QED BY <1>6, <1>7 DEF Tick, ppsVars, IInv, BaseInv, MuxInv, StampExact,
         StampErrorBounded, MuxSelected

\* An edge latches; the pulse stays pending, now in the status register.
LEMMA EdgeStep == ASSUME IInv, PpsEdge \/ AdcEdge PROVE IInv'
  <1>1. TypeOK'
    BY DEF IInv, TypeOK, PpsEdge, AdcEdge, ppsVars
  <1>2. Since' = Since
    BY DEF PpsEdge, AdcEdge, ppsVars, Since
  <1>3. (PulsePending' <=> PulsePending) /\ handling' = handling
        /\ (handling' = "gps" => SDA \in status') /\ (SDA \in status' => ~ppsDue')
    BY DEF IInv, TypeOK, PpsEdge, AdcEdge, PulsePending, PulseInv, SDA, SCL
  <1>4. PulseInv'
    BY <1>2, <1>3 DEF IInv, PulseInv
  <1> QED BY <1>1, <1>4 DEF PpsEdge, AdcEdge, ppsVars, IInv, BaseInv, MuxInv,
         StampExact, StampErrorBounded, MuxSelected

\* The pulse alone: base and seconds counter are those of this pulse.
LEMMA GpsStep ==
  ASSUME IInv, interrupt, handling' = "gps" PROVE IInv'
  <1>1. PICK busy \in BOOLEAN : handle_gps_int(busy)
    BY DEF interrupt
  <1>2. /\ handling = "no" /\ status # {} /\ SCL \notin status
        /\ UNCHANGED <<clockVars, status, missed>>
    BY DEF interrupt
  <1>3. TypeOK /\ PulseInv /\ SDA \in status /\ ~ppsDue /\ PulsePending
    BY <1>2 DEF IInv, TypeOK, PulseInv, PulsePending
  <1>4. /\ USECS \in Nat /\ USECS > 0 /\ BootSecs \in Nat
        /\ elapsed_secs \in Nat /\ missed \in Nat /\ now \in Nat
        /\ phase \in 0 .. USECS - 1 /\ counter \in Nat
        /\ Since = USECS
    BY <1>3, ClockAssumption DEF TypeOK, PulseInv
  <1>5. /\ elapsed_secs' = elapsed_secs + 1 /\ missed' = missed /\ now' = now
        /\ phase' = phase /\ inStep' = TRUE /\ elapsed_usecs' = 0
        /\ counter_scl' = 0 /\ counter' = counter /\ sample' = sample
        /\ sec_in_pps' = tv_sec /\ usec_in_pps' = tv_usec
    BY <1>1, <1>2 DEF handle_gps_int, clockVars
  <1>6. tv_sec = Pulses + 1 /\ tv_usec = phase
    <2>1. /\ Past \in 0 .. 2 * USECS - 1 /\ Pulses \in Nat
          /\ tv_sec = IF Past < USECS THEN Pulses ELSE Pulses + 1
          /\ tv_usec = IF Past < USECS THEN Past ELSE Past - USECS
      BY <1>3, KernelTime
    <2> QED BY <2>1, <1>4 DEF Past
  <1>7. Since' = 0
    BY <1>4, <1>5 DEF Since
  <1>8. PulseInv'
    BY <1>2, <1>3, <1>4, <1>7 DEF PulseInv, PulsePending, clockVars
  <1>9. BaseInv'
    BY <1>4, <1>5, <1>6 DEF BaseInv, Pulses
  <1>10. mux_state' \in {0, 1} /\ dio26' \in {0, 1} /\ MuxInv'
    BY <1>1, <1>3 DEF handle_gps_int, IInv, MuxInv, TypeOK
  <1>11. TypeOK'
    <2>1. sec_in_pps' \in Nat /\ usec_in_pps' \in 0 .. USECS - 1
      BY <1>4, <1>5, <1>6 DEF Pulses
    <2> QED BY <1>2, <1>3, <1>4, <1>5, <1>10, <2>1 DEF TypeOK, clockVars
  <1> QED BY <1>5, <1>8, <1>9, <1>10, <1>11
          DEF IInv, StampExact, StampErrorBounded, MuxSelected

\* Data ready: the stamp is exact in step, at most one second off otherwise.
LEMMA AdcStep ==
  ASSUME IInv, interrupt, handling' = "adc" PROVE IInv'
  <1>1. PICK busy \in BOOLEAN : handle_adc_int(busy)
    BY DEF interrupt
  <1>2. /\ handling = "no" /\ UNCHANGED <<clockVars, ppsVars, status, missed, inStep>>
    BY <1>1 DEF interrupt, handle_adc_int
  <1>3. TypeOK /\ PulseInv /\ BaseInv
    BY DEF IInv
  <1>4. /\ USECS \in Nat /\ USECS > 0 /\ elapsed_secs \in Nat /\ missed \in Nat
        /\ now \in Nat /\ counter \in Nat /\ counter_scl \in 0 .. counter
        /\ Since \in 0 .. USECS
    BY <1>3, ClockAssumption DEF TypeOK, PulseInv
  <1>5. /\ elapsed_usecs' \in 0 .. 2 * USECS - 1
        /\ elapsed_usecs' \in {0, Since, Since + USECS}
        /\ inStep => elapsed_usecs' = Since
    BY <1>1, <1>3, UsecsValue DEF handle_adc_int
  <1>6. counter' \in Nat /\ counter_scl' \in 0 .. counter'
    BY <1>1, <1>4 DEF handle_adc_int
  <1>7. PulseInv' /\ BaseInv'
    BY <1>2, <1>3
    DEF PulseInv, PulsePending, BaseInv, Since, clockVars, ppsVars
  <1>8. CASE busy
    <2>1. UNCHANGED <<mux_state, dio26, sample>>
      BY <1>1, <1>8 DEF handle_adc_int
    <2>2. TypeOK'
      BY <1>2, <1>3, <1>5, <1>6, <2>1 DEF TypeOK, clockVars, ppsVars
    <2> QED BY <1>7, <2>1, <2>2
            DEF IInv, MuxInv, StampExact, StampErrorBounded, MuxSelected
  <1>9. CASE ~busy
    <2> DEFINE ts == elapsed_secs * USECS + elapsed_usecs'
               at == now - missed * USECS
    <2>1. /\ mux_state' = 1 /\ dio26' = 1
          /\ sample' = [timestamp |-> ts, seq |-> counter', at |-> at,
                        mux |-> 1, valid |-> inStep]
      <3>1. /\ mux_state' = 1
            /\ dio26' = IF mux_state = 0 THEN 1 ELSE dio26
            /\ sample' = [timestamp |-> ts, seq |-> counter', at |-> at,
                          mux |-> dio26', valid |-> inStep]
        BY <1>1, <1>9 DEF handle_adc_int
      <3>2. dio26' = 1
        BY <3>1 DEF IInv, MuxInv, TypeOK
      <3> QED BY <3>1, <3>2
    <2>2. /\ ts \in Nat /\ at \in Int
          /\ ts - at \in (-USECS) .. USECS /\ (inStep => ts = at)
      <3>1. PICK us \in 0 .. 2 * USECS - 1 : us = elapsed_usecs'
        BY <1>5
      <3>2. us \in {0, Since, Since + USECS} /\ (inStep => us = Since)
        BY <1>5, <3>1
      <3>3. /\ elapsed_secs * USECS + us \in Nat /\ now - missed * USECS \in Int
            /\ (elapsed_secs * USECS + us) - (now - missed * USECS)
                 \in (-USECS) .. USECS
            /\ us = Since => elapsed_secs * USECS + us = now - missed * USECS
        BY <1>4, <3>2, StampError DEF Since
      <3> QED BY <3>1, <3>2, <3>3
    <2> HIDE DEF ts, at
    <2>3. TypeOK'
      BY <1>2, <1>3, <1>5, <1>6, <2>1, <2>2 DEF TypeOK, clockVars, ppsVars
    <2>4. StampExact' /\ StampErrorBounded' /\ MuxSelected' /\ MuxInv'
      BY <2>1, <2>2 DEF StampExact, StampErrorBounded, MuxSelected, MuxInv
    <2> QED BY <1>7, <2>3, <2>4 DEF IInv
  <1> QED BY <1>8, <1>9

\* The return clears both edges: a pulse that was not handled is lost, and the
\* base is no longer that of the latest pulse.
LEMMA ReturnStep == ASSUME IInv, interrupt_return PROVE IInv'
  <1>1. /\ TypeOK /\ PulseInv /\ BaseInv /\ status' = {} /\ handling' = "no"
        /\ UNCHANGED <<clockVars, ppsVars, elapsed_usecs, counter, counter_scl,
                       mux_state, dio26, sample>>
    BY DEF IInv, interrupt_return
  <1>2. /\ USECS \in Nat /\ USECS > 0 /\ elapsed_secs \in Nat /\ missed \in Nat
        /\ now \in Nat /\ BootSecs \in Nat
    BY <1>1, ClockAssumption DEF TypeOK
  <1>3. CASE handling = "adc" /\ SDA \in status
    <2>1. missed' = missed + 1 /\ inStep' = FALSE
      BY <1>3 DEF interrupt_return
    <2>2. Since = USECS /\ ~ppsDue
      BY <1>1, <1>3 DEF PulseInv, PulsePending
    <2>3. Since' = 0
      BY <1>1, <1>2, <2>1, <2>2 DEF Since, clockVars, ppsVars
    <2>4. PulseInv'
      BY <1>1, <1>2, <2>2, <2>3 DEF PulseInv, PulsePending, clockVars
    <2>5. BaseInv'
      BY <1>1, <1>2, <2>1 DEF BaseInv, TypeOK, clockVars, ppsVars
    <2>6. TypeOK'
      <3>1. missed' \in Nat
        BY <1>2, <2>1
      <3>2. inStep' \in BOOLEAN /\ status' \subseteq {SCL, SDA}
            /\ handling' \in {"no", "adc", "gps"}
        BY <1>1, <2>1, Zenon
      <3> QED BY <1>1, <3>1, <3>2 DEF TypeOK, clockVars, ppsVars
    <2> QED BY <1>1, <2>4, <2>5, <2>6
            DEF IInv, MuxInv, StampExact, StampErrorBounded, MuxSelected
  <1>4. CASE ~(handling = "adc" /\ SDA \in status)
    <2>1. UNCHANGED <<missed, inStep>>
      BY <1>4 DEF interrupt_return
    <2>2. PulsePending' <=> PulsePending
      BY <1>1, <1>4 DEF PulsePending, PulseInv, TypeOK, clockVars, interrupt_return
    <2>3. PulseInv' /\ BaseInv' /\ TypeOK'
      BY <1>1, <2>1, <2>2
      DEF PulseInv, BaseInv, TypeOK, Since, clockVars, ppsVars
    <2> QED BY <1>1, <2>3
            DEF IInv, MuxInv, StampExact, StampErrorBounded, MuxSelected
  <1> QED BY <1>3, <1>4

-----------------------------------------------------------------------------
\* Ticks, edges, the handler and its return keep the accounting of pulses, the
\* recorded base and the exactness of the last stamp.
THEOREM Invariant == Spec => []IInv
  <1>1. IInv /\ [Next]_vars => IInv'
    <2> SUFFICES ASSUME IInv, [Next]_vars PROVE IInv'
      OBVIOUS
    <2>1. CASE interrupt
      <3>1. handling' = "adc" \/ handling' = "gps"
        BY <2>1 DEF interrupt
      <3> QED BY <2>1, <3>1, AdcStep, GpsStep
    <2>2. CASE UNCHANGED vars
      BY <2>2 DEF vars, clockVars, ppsVars, IInv, TypeOK, PulseInv, PulsePending,
         Since, BaseInv, MuxInv, StampExact, StampErrorBounded, MuxSelected
    <2> QED BY <2>1, <2>2, TickStep, EdgeStep, ReturnStep DEF Next
  <1> QED BY <1>1, IInvInit, PTL DEF Spec

\* The counters and the stamp parts stay in the ranges int.c relies on, among
\* them elapsed_usecs below two seconds.
THEOREM TypeCorrect == Spec => []TypeOK
  <1>1. IInv => TypeOK
    BY DEF IInv
  <1> QED BY <1>1, Invariant, PTL

\* In a second whose pulse was handled, the stamp is the true time less the
\* pulses lost, for every length of a second and every phase.
THEOREM ExactStamps == Spec => []StampExact
  <1>1. IInv => StampExact
    BY DEF IInv
  <1> QED BY <1>1, Invariant, PTL

\* No sequence of lost pulses makes calculate_usecs err by more than a second.
THEOREM BoundedStampError == Spec => []StampErrorBounded
  <1>1. IInv => StampErrorBounded
    BY DEF IInv
  <1> QED BY <1>1, Invariant, PTL

\* The ADC is only read with the multiplexer pin on it, whenever the bus was
\* busy at earlier interrupts.
THEOREM MultiplexerSelected == Spec => []MuxSelected
  <1>1. IInv => MuxSelected
    BY DEF IInv
  <1> QED BY <1>1, Invariant, PTL
-----------------------------------------------------------------------------
(***************************************************************************)
(* Proofs about the bus lock, for any set of tools.  The handler's test of *)
(* the mark is only as good as the tools' own exclusion: the invariant     *)
(* first shows that the semaphore has one holder at a time, then that a    *)
(* holder that did not race keeps its mark until it gives up the bus.      *)
(***************************************************************************)

\* The tools that keep the semaphore at zero: its holder, or its creator.
Owning == Holding \cup {"create"}

\* The semaphore is created before any tool is past semget, it has at most one
\* owner, and none while its value is 1.
OneOwner ==
  /\ semaphore = -1 => \A t \in Tools : tool[t] = "out"
  /\ semaphore = 1 => \A t \in Tools : tool[t] \notin Owning
  /\ \A t, u \in Tools : tool[t] \in Owning /\ tool[u] \in Owning => t = u

\* While a holder that did not race has the semaphore, nobody else is about to
\* clear the mark, and once set the mark stays.
MarkKept ==
  \A t \in Tools : tool[t] \in Holding /\ ~raced[t] =>
    /\ \A u \in Tools \ {t} : tool[u] \notin {"clear_load", "clear_store"}
    /\ tool[t] = "using" => mutex = 1

\* The handler is on the bus only while the mark is clear.
AccessUnmarked == irq = "access" => mutex = 0

\* Two tools are never between semop(-1) and semop(+1) of sbuslock together,
\* although the kernel gives the semaphore back for a tool that dies.
ToolsExcluded ==
  \A t, u \in Tools : tool[t] \in Holding /\ tool[u] \in Holding => t = u

BusInv == BusTypeOK /\ OneOwner /\ MarkKept /\ AccessUnmarked

-----------------------------------------------------------------------------
\* No tool has started, nobody has created the semaphore.
LEMMA BusInvInit == BusInit => BusInv
  BY DEF BusInit, BusInv, BusTypeOK, OneOwner, MarkKept, AccessUnmarked, ToolLabels, Owning,
         Holding

\* The semaphore never counts above one.
LEMMA BusTypeStep == BusTypeOK /\ OneOwner /\ [BusNext]_busVars => BusTypeOK'
  <1> SUFFICES ASSUME BusTypeOK, OneOwner, [BusNext]_busVars PROVE BusTypeOK'
    OBVIOUS
  <1> USE DEF BusTypeOK, Goto, ToolLabels
  <1>1. ASSUME NEW t \in Tools, semget(t) PROVE BusTypeOK'
    BY <1>1 DEF semget
  <1>2. ASSUME NEW t \in Tools, semop_create(t) PROVE BusTypeOK'
    BY <1>2 DEF semop_create, OneOwner, Owning
  <1>3. ASSUME NEW t \in Tools, semop_lock(t) PROVE BusTypeOK'
    BY <1>3 DEF semop_lock, Clearing
  <1>4. ASSUME NEW t \in Tools, mark_load(t) PROVE BusTypeOK'
    BY <1>4 DEF mark_load
  <1>5. ASSUME NEW t \in Tools, mark_store(t) PROVE BusTypeOK'
    BY <1>5 DEF mark_store
  <1>6. ASSUME NEW t \in Tools, semop_unlock(t) PROVE BusTypeOK'
    BY <1>6 DEF semop_unlock, OneOwner, Owning, Holding
  <1>7. ASSUME NEW t \in Tools, clear_load(t) PROVE BusTypeOK'
    BY <1>7 DEF clear_load
  <1>8. ASSUME NEW t \in Tools, clear_store(t) PROVE BusTypeOK'
    BY <1>8 DEF clear_store
  <1>9. ASSUME NEW t \in Tools, die(t) PROVE BusTypeOK'
    BY <1>9 DEF die, OneOwner, Owning, Holding
  <1>10. CASE interrupt_enter \/ interrupt_exit
    BY <1>10 DEF interrupt_enter, interrupt_exit
  <1>11. CASE UNCHANGED busVars
    BY <1>11 DEF busVars
  <1> QED BY <1>1, <1>2, <1>3, <1>4, <1>5, <1>6, <1>7, <1>8, <1>9, <1>10, <1>11
          DEF BusNext, sbuslock, sbusunlock

\* No step lets a second tool own the semaphore.
LEMMA BusOwnerStep == BusTypeOK /\ OneOwner /\ [BusNext]_busVars => OneOwner'
  <1> SUFFICES ASSUME BusTypeOK, OneOwner, [BusNext]_busVars PROVE OneOwner'
    OBVIOUS
  <1> USE DEF BusTypeOK, Goto, OneOwner, Owning, Holding
  <1>1. ASSUME NEW t \in Tools, semget(t) PROVE OneOwner'
    BY <1>1 DEF semget
  <1>2. ASSUME NEW t \in Tools, semop_create(t) PROVE OneOwner'
    BY <1>2 DEF semop_create
  <1>3. ASSUME NEW t \in Tools, semop_lock(t) PROVE OneOwner'
    BY <1>3 DEF semop_lock
  <1>4. ASSUME NEW t \in Tools, mark_load(t) PROVE OneOwner'
    BY <1>4 DEF mark_load
  <1>5. ASSUME NEW t \in Tools, mark_store(t) PROVE OneOwner'
    BY <1>5 DEF mark_store
  <1>6. ASSUME NEW t \in Tools, semop_unlock(t) PROVE OneOwner'
    BY <1>6 DEF semop_unlock
  <1>7. ASSUME NEW t \in Tools, clear_load(t) PROVE OneOwner'
    BY <1>7 DEF clear_load
  <1>8. ASSUME NEW t \in Tools, clear_store(t) PROVE OneOwner'
    BY <1>8 DEF clear_store
  <1>9. ASSUME NEW t \in Tools, die(t) PROVE OneOwner'
    BY <1>9 DEF die
  <1>10. CASE interrupt_enter \/ interrupt_exit
    BY <1>10 DEF interrupt_enter, interrupt_exit
  <1>11. CASE UNCHANGED busVars
    BY <1>11 DEF busVars
  <1> QED BY <1>1, <1>2, <1>3, <1>4, <1>5, <1>6, <1>7, <1>8, <1>9, <1>10, <1>11
          DEF BusNext, sbuslock, sbusunlock

\* No step clears the mark of a holder that did not race.
LEMMA BusMarkStep ==
  BusTypeOK /\ OneOwner /\ MarkKept /\ [BusNext]_busVars => MarkKept'
  <1> SUFFICES ASSUME BusTypeOK, OneOwner, MarkKept, [BusNext]_busVars PROVE MarkKept'
    OBVIOUS
  <1> USE DEF BusTypeOK, Goto, MarkKept, Holding
  <1>1. ASSUME NEW t \in Tools, semget(t) PROVE MarkKept'
    BY <1>1 DEF semget
  <1>2. ASSUME NEW t \in Tools, semop_create(t) PROVE MarkKept'
    BY <1>2 DEF semop_create
  <1>3. ASSUME NEW t \in Tools, semop_lock(t) PROVE MarkKept'
    BY <1>3 DEF semop_lock, Clearing
  <1>4. ASSUME NEW t \in Tools, mark_load(t) PROVE MarkKept'
    BY <1>4 DEF mark_load
  <1>5. ASSUME NEW t \in Tools, mark_store(t) PROVE MarkKept'
    BY <1>5 DEF mark_store
  <1>6. ASSUME NEW t \in Tools, semop_unlock(t) PROVE MarkKept'
    BY <1>6 DEF semop_unlock, OneOwner, Owning
  <1>7. ASSUME NEW t \in Tools, clear_load(t) PROVE MarkKept'
    BY <1>7 DEF clear_load
  <1>8. ASSUME NEW t \in Tools, clear_store(t) PROVE MarkKept'
    BY <1>8 DEF clear_store
  <1>9. ASSUME NEW t \in Tools, die(t) PROVE MarkKept'
    BY <1>9 DEF die
  <1>10. CASE interrupt_enter \/ interrupt_exit
    BY <1>10 DEF interrupt_enter, interrupt_exit
  <1>11. CASE UNCHANGED busVars
    BY <1>11 DEF busVars
  <1> QED BY <1>1, <1>2, <1>3, <1>4, <1>5, <1>6, <1>7, <1>8, <1>9, <1>10, <1>11
          DEF BusNext, sbuslock, sbusunlock

\* The handler tests the mark when it starts, and no tool moves before it
\* returns.
LEMMA BusAccessStep == BusTypeOK /\ AccessUnmarked /\ [BusNext]_busVars => AccessUnmarked'
  BY DEF BusTypeOK, AccessUnmarked, BusNext, busVars, sbuslock, sbusunlock, semget,
     semop_create, semop_lock, mark_load, mark_store, semop_unlock, clear_load,
     clear_store, die, interrupt_enter, interrupt_exit, is_fpga_used, Goto

-----------------------------------------------------------------------------
\* sbuslock, sbusunlock, the deaths of tools and the handler keep the four
\* parts of the invariant.
THEOREM BusInvariant == BusSpec => []BusInv
  <1>1. BusInv /\ [BusNext]_busVars => BusInv'
    BY BusTypeStep, BusOwnerStep, BusMarkStep, BusAccessStep DEF BusInv
  <1> QED BY <1>1, BusInvInit, PTL DEF BusSpec

\* The semaphore value, the mark and the labels stay in their ranges for any
\* set of tools: no sequence of deaths and restarts makes the count exceed one.
THEOREM BusTypeCorrect == BusSpec => []BusTypeOK
  <1>1. BusInv => BusTypeOK
    BY DEF BusInv
  <1> QED BY <1>1, BusInvariant, PTL

\* sbuslock excludes the tools from one another, for any number of them.
THEOREM ToolExclusion == BusSpec => []ToolsExcluded
  <1>1. BusInv => ToolsExcluded
    BY DEF BusInv, OneOwner, ToolsExcluded, Owning
  <1> QED BY <1>1, BusInvariant, PTL

\* For any number of tools: the handler is never on the bus together with a
\* tool, unless that tool took the semaphore inside another's sbusunlock.
THEOREM HandlerExclusion == BusSpec => []HandlerExcludedUnlessRaced
  <1>1. BusInv => HandlerExcludedUnlessRaced
    BY DEF BusInv, BusTypeOK, MarkKept, AccessUnmarked, HandlerExcludedUnlessRaced,
       Holding
  <1> QED BY <1>1, BusInvariant, PTL
-----------------------------------------------------------------------------
(***************************************************************************)
(* Proofs about the bytes of a sample, for bytes of any even number of     *)
(* values and all readings.                                                *)
(***************************************************************************)

\* The number that digits make up.
Pair(x, y) == x * BASE + y
Triple(x, y, z) == Pair(Pair(x, y), z)
Quad(x, y, z, w) == Pair(Triple(x, y, z), w)

\* Pairs of digits are numbers below BASE * BASE, and so on.
LEMMA PairIs ==
  ASSUME NEW m \in Nat \ {0}, NEW x \in 0..(m - 1), NEW y \in Byte
  PROVE  Pair(x, y) \in 0..(m * BASE - 1) /\ m * BASE \in Nat \ {0}
  <1>1. PICK b \in Nat \ {0, 1} : b = BASE
    BY BaseAssumption
  <1>2. x * b <= (m - 1) * b
    <2>1. (m - 1 - x) * b >= 0
      BY <1>1
    <2> QED BY <2>1, <1>1
  <1>3. (m - 1) * b = m * b - b /\ x * b >= 0 /\ m * b \in Nat /\ m * b >= m
    BY <1>1
  <1>4. y >= 0 /\ y <= b - 1
    BY <1>1 DEF Byte
  <1>5. PICK u \in Int, v \in Int : u = x * b /\ v = m * b
    BY <1>1
  <1>6. u <= v - b /\ u >= 0 /\ v \in Nat \ {0}
    BY <1>2, <1>3, <1>5
  <1>7. u + y \in 0..(v - 1)
    BY <1>4, <1>6 DEF Byte
  <1> QED BY <1>1, <1>5, <1>6, <1>7 DEF Pair

\* And the digits can be read from them.
LEMMA PairDigits ==
  ASSUME NEW x \in Nat, NEW y \in Byte
  PROVE  Pair(x, y) \in Nat /\ Pair(x, y) \div BASE = x /\ Pair(x, y) % BASE = y
  BY BaseAssumption, DivisionIs DEF Pair, Byte

LEMMA DivTwice ==
  ASSUME NEW c \in Nat \ {0}, NEW n \in Nat
  PROVE  n \div (c * BASE) = (n \div BASE) \div c
  <1>1. PICK b \in Nat \ {0, 1} : b = BASE
    BY BaseAssumption
  <1>2. PICK q \in Nat, y \in 0..(b - 1) : n = q * b + y /\ q = n \div b
    OBVIOUS
  <1>3. PICK r \in Nat, z \in 0..(c - 1) : q = r * c + z /\ r = q \div c
    OBVIOUS
  <1>4. y \in Byte
    BY <1>1 DEF Byte
  <1>5. z * b + y \in 0..(c * b - 1) /\ c * b \in Nat \ {0}
    BY <1>1, <1>4, PairIs DEF Pair
  <1>6. n = r * (c * b) + (z * b + y)
    <2>1. q * b = (r * c) * b + z * b
      BY <1>3
    <2>2. (r * c) * b = r * (c * b)
      OBVIOUS
    <2> QED BY <1>2, <2>1, <2>2
  <1>7. n \div (c * b) = r
    BY <1>5, <1>6, DivisionIs
  <1> QED BY <1>1, <1>2, <1>3, <1>7

\* The bytes of a word of four.
LEMMA QuadBytes ==
  ASSUME NEW x \in Byte, NEW y \in Byte, NEW z \in Byte, NEW w \in Byte
  PROVE  /\ ByteOf(Quad(x, y, z, w), 0) = w /\ ByteOf(Quad(x, y, z, w), 1) = z
         /\ ByteOf(Quad(x, y, z, w), 2) = y /\ ByteOf(Quad(x, y, z, w), 3) = x
  <1>1. PICK b \in Nat \ {0, 1} : b = BASE
    BY BaseAssumption
  <1>2. x \in Nat /\ x < b
    BY <1>1 DEF Byte
  <1>3. PICK p \in Nat : p = Pair(x, y) /\ p \div b = x /\ p % b = y
    BY <1>1, <1>2, PairDigits
  <1>4. PICK t \in Nat : t = Pair(p, z) /\ t \div b = p /\ t % b = z
    BY <1>1, PairDigits
  <1>5. PICK n \in Nat : n = Pair(t, w) /\ n \div b = t /\ n % b = w
    BY <1>1, PairDigits
  <1>6. n = Quad(x, y, z, w)
    BY <1>3, <1>4, <1>5 DEF Quad, Triple
  <1>7. n \div (b * b) = p
    BY <1>1, <1>4, <1>5, DivTwice
  <1>8. b * b \in Nat \ {0}
    BY <1>1
  <1>9. t \div (b * b) = x
    BY <1>1, <1>3, <1>4, DivTwice
  <1>10. n \div ((b * b) * b) = x
    <2>1. PICK c \in Nat \ {0} : c = b * b
      BY <1>8
    <2>2. n \div (c * BASE) = (n \div BASE) \div c
      BY DivTwice
    <2> QED BY <1>1, <1>5, <1>9, <2>1, <2>2
  <1>11. x % b = x
    BY <1>1, <1>2
  <1>12. n \div (BASE * BASE * BASE) = x /\ n \div (BASE * BASE) = p
         /\ n \div BASE = t /\ n % BASE = w /\ t % BASE = z /\ p % BASE = y
         /\ x % BASE = x
    BY <1>1, <1>3, <1>4, <1>5, <1>7, <1>10, <1>11
  <1>13. ByteOf(n, 0) = n % BASE /\ ByteOf(n, 1) = (n \div BASE) % BASE
         /\ ByteOf(n, 2) = (n \div (BASE * BASE)) % BASE
         /\ ByteOf(n, 3) = (n \div (BASE * BASE * BASE)) % BASE
    BY DEF ByteOf
  <1> QED BY <1>6, <1>12, <1>13

\* The bytes of a reading make it up.
LEMMA ReadingBytes ==
  ASSUME NEW n \in Reading
  PROVE  /\ ByteOf(n, 0) \in Byte /\ ByteOf(n, 1) \in Byte /\ ByteOf(n, 2) \in Byte
         /\ Triple(ByteOf(n, 2), ByteOf(n, 1), ByteOf(n, 0)) = n
  <1>1. PICK b \in Nat \ {0, 1} : b = BASE
    BY BaseAssumption
  <1>2. n \in Nat /\ n < (b * b) * b
    BY <1>1 DEF Reading
  <1>3. PICK t \in Nat, w \in 0..(b - 1) : n = t * b + w /\ t = n \div b /\ w = n % b
    BY <1>2
  <1>4. PICK p \in Nat, z \in 0..(b - 1) : t = p * b + z /\ p = t \div b /\ z = t % b
    OBVIOUS
  <1>5. n \div (b * b) = p
    <2>1. n \div (b * BASE) = (n \div BASE) \div b
      BY <1>2, DivTwice
    <2> QED BY <1>1, <1>3, <1>4, <2>1
  <1>6. p < b
    <2> SUFFICES ASSUME p >= b PROVE FALSE
      OBVIOUS
    <2>1. p * b >= b * b
      <3>1. (p - b) * b >= 0
        OBVIOUS
      <3> QED BY <3>1
    <2>2. PICK c \in Nat : c = b * b
      OBVIOUS
    <2>3. t >= c
      BY <1>4, <2>1, <2>2
    <2>4. t * b >= c * b
      <3>1. (t - c) * b >= 0
        BY <2>3
      <3> QED BY <3>1
    <2> QED BY <1>2, <1>3, <2>2, <2>4
  <1>7. p % b = p
    BY <1>6
  <1>8. ByteOf(n, 0) = w /\ ByteOf(n, 1) = z /\ ByteOf(n, 2) = p
    <2>1. ByteOf(n, 0) = n % BASE /\ ByteOf(n, 1) = (n \div BASE) % BASE
          /\ ByteOf(n, 2) = (n \div (BASE * BASE)) % BASE
      BY DEF ByteOf
    <2> QED BY <1>1, <1>3, <1>4, <1>5, <1>7, <2>1
  <1>9. w \in Byte /\ z \in Byte /\ p \in Byte
    BY <1>1, <1>6 DEF Byte
  <1>10. Triple(p, z, w) = n
    BY <1>1, <1>3, <1>4 DEF Triple, Pair
  <1> QED BY <1>8, <1>9, <1>10

\* The bytes the ADC sends.
LEMMA AdcBytes ==
  ASSUME adc \in [Channels -> Reading], NEW c \in Channels
  PROVE  /\ AdcByte(3 * c - 2) = ByteOf(adc[c], 2)
         /\ AdcByte(3 * c - 1) = ByteOf(adc[c], 1)
         /\ AdcByte(3 * c) = ByteOf(adc[c], 0)
         /\ AdcByte(3 * c - 2) \in Byte /\ AdcByte(3 * c - 1) \in Byte
         /\ AdcByte(3 * c) \in Byte
         /\ Triple(AdcByte(3 * c - 2), AdcByte(3 * c - 1), AdcByte(3 * c)) = adc[c]
  <1>1. /\ ((3 * c - 2 - 1) \div 3) + 1 = c /\ 2 - ((3 * c - 2 - 1) % 3) = 2
        /\ ((3 * c - 1 - 1) \div 3) + 1 = c /\ 2 - ((3 * c - 1 - 1) % 3) = 1
        /\ ((3 * c - 1) \div 3) + 1 = c /\ 2 - ((3 * c - 1) % 3) = 0
    BY DEF Channels
  <1>2. /\ AdcByte(3 * c - 2) = ByteOf(adc[c], 2)
        /\ AdcByte(3 * c - 1) = ByteOf(adc[c], 1)
        /\ AdcByte(3 * c) = ByteOf(adc[c], 0)
    BY <1>1 DEF AdcByte
  <1>3. adc[c] \in Reading
    OBVIOUS
  <1> QED BY <1>2, <1>3, ReadingBytes

\* What read_four_channels stores are those bytes, in that order.
LEMMA StoredBytes ==
  ASSUME adc \in [Channels -> Reading], NEW i \in 1..12
  PROVE  ByteOf(temp_buffer(((i - 1) \div 4) + 1), 3 - ((i - 1) % 4)) = AdcByte(i)
  <1>1. \A k \in 1..12 : AdcByte(k) \in Byte
    <2> SUFFICES ASSUME NEW k \in 1..12 PROVE AdcByte(k) \in Byte
      OBVIOUS
    <2>1. PICK c \in Channels : k = 3 * c - 2 \/ k = 3 * c - 1 \/ k = 3 * c
      <3>1. 1 \in Channels /\ 2 \in Channels /\ 3 \in Channels /\ 4 \in Channels
        BY DEF Channels
      <3>2. k \in {1, 2, 3} \/ k \in {4, 5, 6} \/ k \in {7, 8, 9} \/ k \in {10, 11, 12}
        OBVIOUS
      <3> QED BY <3>1, <3>2
    <2> QED BY <2>1, AdcBytes
  <1>2. PICK t \in 1..3, j \in 0..3 : i = 4 * t - 3 + j /\ ((i - 1) \div 4) + 1 = t
                                      /\ (i - 1) % 4 = j
    <2>1. PICK t \in Int, j \in Int : t = ((i - 1) \div 4) + 1 /\ j = (i - 1) % 4
      OBVIOUS
    <2>2. t \in 1..3 /\ j \in 0..3 /\ i = 4 * t - 3 + j
      BY <2>1
    <2> QED BY <2>1, <2>2
  <1>3. PICK x \in Byte, y \in Byte, z \in Byte, w \in Byte :
           /\ x = AdcByte(4 * t - 3) /\ y = AdcByte(4 * t - 2)
           /\ z = AdcByte(4 * t - 1) /\ w = AdcByte(4 * t)
    <2>1. 4 * t - 3 \in 1..12 /\ 4 * t - 2 \in 1..12 /\ 4 * t - 1 \in 1..12 /\ 4 * t \in 1..12
      OBVIOUS
    <2> QED BY <1>1, <2>1
  <1>4. temp_buffer(t) = Quad(x, y, z, w)
    <2>1. PICK b \in Nat : b = BASE
      BY BaseAssumption
    <2>2. 2 * (2 * t - 1) - 1 = 4 * t - 3 /\ 2 * (2 * t - 1) = 4 * t - 2
          /\ 2 * (2 * t) - 1 = 4 * t - 1 /\ 2 * (2 * t) = 4 * t
      OBVIOUS
    <2>3. peek16(2 * t - 1) = x * b + y /\ peek16(2 * t) = z * b + w
      BY <1>3, <2>1, <2>2 DEF peek16
    <2>4. x \in Int /\ y \in Int /\ z \in Int /\ w \in Int
      BY <2>1 DEF Byte
    <2>5. (x * b + y) * b * b + (z * b + w) = ((x * b + y) * b + z) * b + w
      BY <2>4
    <2>6. temp_buffer(t) = (x * b + y) * b * b + (z * b + w)
      BY <2>1, <2>3 DEF temp_buffer
    <2> QED BY <2>1, <2>5, <2>6 DEF Quad, Triple, Pair
  <1>5. /\ ByteOf(temp_buffer(t), 0) = w /\ ByteOf(temp_buffer(t), 1) = z
        /\ ByteOf(temp_buffer(t), 2) = y /\ ByteOf(temp_buffer(t), 3) = x
    BY <1>4, QuadBytes
  <1>6. ByteOf(temp_buffer(t), 3 - j) = AdcByte(4 * t - 3 + j)
    <2>1. CASE j = 0
      <3>1. 3 - j = 3 /\ 4 * t - 3 + j = 4 * t - 3
        BY <2>1
      <3> QED BY <1>3, <1>5, <3>1
    <2>2. CASE j = 1
      <3>1. 3 - j = 2 /\ 4 * t - 3 + j = 4 * t - 2
        BY <2>2
      <3> QED BY <1>3, <1>5, <3>1
    <2>3. CASE j = 2
      <3>1. 3 - j = 1 /\ 4 * t - 3 + j = 4 * t - 1
        BY <2>3
      <3> QED BY <1>3, <1>5, <3>1
    <2>4. CASE j = 3
      <3>1. 3 - j = 0 /\ 4 * t - 3 + j = 4 * t
        BY <2>4
      <3> QED BY <1>3, <1>5, <3>1
    <2> QED BY <2>1, <2>2, <2>3, <2>4
  <1> QED BY <1>2, <1>6

\* The stored bytes are those of the readings.
Stored == data = [i \in 1..12 |-> AdcByte(i)]

\* Both programs find the readings in them.
LEMMA ReadingsFound ==
  ASSUME adc \in [Channels -> Reading], Stored, NEW c \in Channels
  PROVE  Raw(c) = adc[c] /\ Separated(c) = adc[c]
  <1>1. PICK b \in Nat : b = BASE
    BY BaseAssumption
  <1>2. PICK x \in Byte, y \in Byte, z \in Byte :
           /\ x = AdcByte(3 * c - 2) /\ y = AdcByte(3 * c - 1) /\ z = AdcByte(3 * c)
           /\ Triple(x, y, z) = adc[c]
    BY AdcBytes
  <1>3. data[3 * c - 2] = x /\ data[3 * c - 1] = y /\ data[3 * c] = z
    <2>1. 3 * c - 2 \in 1..12 /\ 3 * c - 1 \in 1..12 /\ 3 * c \in 1..12
      BY DEF Channels
    <2> QED BY <1>2, <2>1 DEF Stored
  <1>4. Picks[c][1] + 1 = 3 * c /\ Picks[c][2] + 1 = 3 * c - 1 /\ Picks[c][3] + 1 = 3 * c - 2
    <2>1. c = 1 \/ c = 2 \/ c = 3 \/ c = 4
      BY DEF Channels
    <2> QED BY <2>1 DEF Picks
  <1>5. x \in Int /\ y \in Int /\ z \in Int
    BY <1>1 DEF Byte
  <1>6. adc[c] = (x * b + y) * b + z
    BY <1>1, <1>2 DEF Triple, Pair
  <1>7. Raw(c) = z + y * b + x * b * b
    <2>1. 0 + 1 = 1 /\ 1 + 1 = 2 /\ 2 + 1 = 3
      OBVIOUS
    <2> QED BY <1>1, <1>3, <1>4, <2>1 DEF Raw
  <1>8. Separated(c) = x * b * b + y * b + z
    <2>1. 3 * (c - 1) + 1 = 3 * c - 2 /\ 3 * (c - 1) + 2 = 3 * c - 1 /\ 3 * (c - 1) + 3 = 3 * c
      BY DEF Channels
    <2> QED BY <1>1, <1>3, <2>1 DEF Separated
  <1> QED BY <1>5, <1>6, <1>7, <1>8

\* The conversion to a signed number.
LEMMA SignedIs ==
  ASSUME NEW n \in Reading
  PROVE  IF n = SIGN THEN Signed(n) = SIGN ELSE Signed(n) = TwosComplement(n)
  <1>1. PICK b \in Nat \ {0, 1} : b = BASE /\ b % 2 = 0
    BY BaseAssumption
  <1>2. PICK h \in Nat : b = 2 * h
    <2>1. PICK g \in Int : g = b \div 2
      OBVIOUS
    <2>2. g \in Nat /\ b = 2 * g
      BY <1>1, <2>1
    <2> QED BY <2>2
  <1>3. PICK m \in Nat : m = b * b * b
    OBVIOUS
  <1>4. m = 2 * (h * b * b)
    BY <1>2, <1>3
  <1>5. PICK k \in Nat : k = h * b * b
    BY <1>1, <1>2
  <1>6. SIGN = k /\ m = 2 * k
    BY <1>1, <1>3, <1>4, <1>5 DEF SIGN
  <1>7. n \in 0..(2 * k - 1)
    BY <1>1, <1>3, <1>6 DEF Reading
  <1>8. CASE n > k
    <2>1. (2 * k - n) % (2 * k) = 2 * k - n
      BY <1>7, <1>8
    <2> QED BY <1>6, <1>7, <1>8, <2>1 DEF Signed, TwosComplement
  <1>9. CASE n <= k
    BY <1>6, <1>7, <1>9 DEF Signed, TwosComplement
  <1> QED BY <1>7, <1>8, <1>9

\* The readings do not change, and the bytes are theirs once they are stored.
CodecInv ==
  /\ adc \in [Channels -> Reading]
  /\ data = <<>> \/ Stored
  /\ ReadingRestored

\* Every step of the conversion keeps the invariant.
THEOREM CodecInvariant == CodecSpec => []CodecInv
  <1>1. CodecInit => CodecInv
    BY DEF CodecInit, CodecInv, ReadingRestored
  <1>2. CodecInv /\ [CodecNext]_codecVars => CodecInv'
    <2> SUFFICES ASSUME CodecInv, [CodecNext]_codecVars
                 PROVE  CodecInv'
      OBVIOUS
    <2>0. adc \in [Channels -> Reading] /\ (data = <<>> \/ Stored) /\ ReadingRestored
      BY DEF CodecInv
    <2>1. CASE read_four_channels
      <3>1. data' = [i \in 1..12 |-> AdcByte(i)]
        BY <2>0, <2>1, StoredBytes DEF read_four_channels
      <3>2. Stored'
        BY <2>1, <3>1 DEF Stored, AdcByte, read_four_channels
      <3>3. ReadingRestored'
        BY <2>0, <2>1 DEF read_four_channels, ReadingRestored
      <3> QED BY <2>0, <2>1, <3>2, <3>3 DEF read_four_channels, CodecInv
    <2>2. ASSUME adc' = adc, data' = data, Stored,
                 \A c \in Channels : numbers'[c] = Signed(adc[c])
          PROVE  CodecInv'
      <3>1. Stored'
        BY <2>2 DEF Stored, AdcByte
      <3>2. ReadingRestored'
        <4> SUFFICES ASSUME NEW c \in Channels
                     PROVE  IF adc[c] = SIGN THEN numbers'[c] = SIGN
                            ELSE numbers'[c] = TwosComplement(adc[c])
          BY <2>2 DEF ReadingRestored
        <4>1. adc[c] \in Reading
          BY <2>0
        <4> QED BY <2>2, <4>1, SignedIs
      <3> QED BY <2>0, <2>2, <3>1, <3>2 DEF CodecInv
    <2>3. CASE write_json
      <3>1. adc' = adc /\ data' = data /\ Stored
            /\ numbers' = [c \in Channels |-> Signed(Raw(c))]
        BY <2>0, <2>3 DEF write_json
      <3>2. \A c \in Channels : numbers'[c] = Signed(adc[c])
        BY <2>0, <3>1, ReadingsFound
      <3> QED BY <2>2, <3>1, <3>2
    <2>4. CASE userland_reader
      <3>1. adc' = adc /\ data' = data /\ Stored
            /\ numbers' = [c \in Channels |-> Signed(Separated(c))]
        BY <2>0, <2>4 DEF userland_reader
      <3>2. \A c \in Channels : numbers'[c] = Signed(adc[c])
        BY <2>0, <3>1, ReadingsFound
      <3> QED BY <2>2, <3>1, <3>2
    <2>5. CASE UNCHANGED codecVars
      BY <2>0, <2>5 DEF codecVars, CodecInv, Stored, ReadingRestored, AdcByte
    <2> QED BY <2>1, <2>3, <2>4, <2>5 DEF CodecNext
  <1> QED BY <1>1, <1>2, PTL DEF CodecSpec

\* Each channel's number is its reading in two's complement, for bytes of any
\* even number of values and all readings: through the words of the FPGA, the
\* bytes of the sample and either program that takes them apart.
THEOREM ReadingRestoredAlways == CodecSpec => []ReadingRestored
  <1>1. CodecInv => ReadingRestored
    BY DEF CodecInv
  <1> QED BY <1>1, CodecInvariant, PTL

=============================================================================
