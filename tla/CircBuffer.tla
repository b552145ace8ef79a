----------------------------- MODULE CircBuffer -----------------------------
(***************************************************************************)
(* The sample ring shared by the ADC interrupt handler and the sender      *)
(* thread: interruption/proc_entry.c.  write_to_buffer runs inside the     *)
(* hard interrupt of a single-core board, so it is one atomic step;        *)
(* read_nsamples runs in a kernel thread that the interrupt can preempt    *)
(* between any two of its memory accesses, so it is a process with one     *)
(* step per access to the shared words last_write and CIRC_BUFFER.         *)
(*                                                                         *)
(* A sample is identified by the ordinal of the write that produced it,    *)
(* once in its header words (timestamp, seq_number) and once in its data   *)
(* words, because the thread copies the struct word by word and a write    *)
(* can fall between the two halves.                                        *)
(***************************************************************************)
EXTENDS Integers, Sequences

CONSTANTS
  CIRC_BUF_SIZE,  \* number of slots of the ring (1024 in proc_entry.h)
  UINT32,         \* the modulus of uint32_t (2^32 on the board)
  KMALLOC_MAX,    \* the largest number of samples one kmalloc can hold
  MaxWrites       \* bound: number of samples the interrupt writes

ASSUME SizeAssumption == CIRC_BUF_SIZE \in Nat /\ CIRC_BUF_SIZE > 1

\* A batch always fits one kmalloc, a wrapped-around count never does.
ASSUME WordAssumption ==
  /\ UINT32 \in Nat
  /\ KMALLOC_MAX \in Nat
  /\ 2 * CIRC_BUF_SIZE <= KMALLOC_MAX
  /\ KMALLOC_MAX < UINT32 - CIRC_BUF_SIZE

ASSUME BoundAssumption == MaxWrites \in Nat

VARIABLES
  last_write,       \* index of the last slot written
  last_read,        \* index of the last slot read
  CIRC_BUFFER,      \* the slots
  pc,               \* where the reader is inside read_nsamples
  last_write_tmp,   \* the local copy taken at entry
  samples_to_copy,  \* local: the size of the batch
  be_samples,       \* the batch under construction (its length is i)
  written,          \* history: number of samples written so far
  delivered,        \* history: every sample read_nsamples has returned
  overrun           \* history: last_write has caught up with last_read

shared == <<last_write, CIRC_BUFFER, written>>
locals == <<last_write_tmp, samples_to_copy, be_samples>>
ringVars == <<last_write, last_read, CIRC_BUFFER, pc, last_write_tmp,
          samples_to_copy, be_samples, written, delivered, overrun>>

Index == 0 .. CIRC_BUF_SIZE - 1
LAST_INDEX == CIRC_BUF_SIZE - 1

Sample(n) == [head |-> n, data |-> n]
Samples == [head : Nat, data : Nat]

\* proc_entry.h: the mask with CIRC_BUF_SIZE - 1, a power of two minus one.
quick_module(x) == x % CIRC_BUF_SIZE

\* Unsigned subtraction of two words.
Minus32(a, b) == (a - b) % UINT32

-----------------------------------------------------------------------------
RingInit ==
  /\ last_write = 0 /\ last_read = 0
  /\ CIRC_BUFFER = [s \in Index |-> Sample(0)]
  /\ pc = "idle"
  /\ last_write_tmp = 0 /\ samples_to_copy = 0 /\ be_samples = <<>>
  /\ written = 0 /\ delivered = <<>> /\ overrun = FALSE

\* Mutant: the slot is filled before last_write moves on.
write_to_buffer_FillFirst ==
  /\ written < MaxWrites
  /\ written' = written + 1
  /\ last_write' = quick_module(last_write + 1)
  /\ CIRC_BUFFER' = [CIRC_BUFFER EXCEPT ![last_write] = Sample(written')]
  /\ overrun' = (overrun \/ last_write' = last_read)
  /\ UNCHANGED <<last_read, pc, last_write_tmp, samples_to_copy, be_samples,
                 delivered>>

\* The interrupt: advance last_write, fill that slot.  Nothing checks whether
\* the slot has been read.
write_to_buffer ==
  /\ written < MaxWrites
  /\ written' = written + 1
  /\ last_write' = quick_module(last_write + 1)
  /\ CIRC_BUFFER' = [CIRC_BUFFER EXCEPT ![last_write'] = Sample(written')]
  /\ overrun' = (overrun \/ last_write' = last_read)
  /\ UNCHANGED <<last_read, pc, last_write_tmp, samples_to_copy, be_samples,
                 delivered>>

-----------------------------------------------------------------------------
(* read_nsamples, one action per access to a word the interrupt writes.    *)

Step(from, to) == pc = from /\ pc' = to

\* The call, and the snapshot of last_write that the closing check uses.
Enter ==
  /\ Step("idle", "check_empty")
  /\ last_write_tmp' = last_write
  /\ samples_to_copy' = 0 /\ be_samples' = <<>>
  /\ UNCHANGED <<shared, last_read, delivered, overrun>>

\* Mutant: "nothing to read" also when the writer has wrapped.
CheckEmpty_NoWrap ==
  /\ \/ last_read >= last_write /\ Step("check_empty", "idle")
     \/ last_read < last_write /\ Step("check_empty", "compare")
  /\ UNCHANGED <<shared, locals, last_read, delivered, overrun>>

\* Nothing to read: return 0.
CheckEmpty ==
  /\ \/ last_read = last_write /\ Step("check_empty", "idle")
     \/ last_read # last_write /\ Step("check_empty", "compare")
  /\ UNCHANGED <<shared, locals, last_read, delivered, overrun>>

\* Is the writer behind the reader in the array?
Compare ==
  /\ \/ last_read > last_write /\ Step("compare", "count_wrapped")
     \/ last_read <= last_write /\ Step("compare", "count_ahead")
  /\ UNCHANGED <<shared, locals, last_read, delivered, overrun>>

\* Mutant: one sample too many.
CountWrapped_OneMore ==
  /\ Step("count_wrapped", "kmalloc")
  /\ samples_to_copy' = (LAST_INDEX - last_read) + last_write + 2
  /\ UNCHANGED <<shared, last_write_tmp, be_samples, last_read, delivered,
                 overrun>>

\* Count when the writer is behind: a fresh read of last_write.
CountWrapped ==
  /\ Step("count_wrapped", "kmalloc")
  /\ samples_to_copy' = (LAST_INDEX - last_read) + last_write + 1
  /\ UNCHANGED <<shared, last_write_tmp, be_samples, last_read, delivered,
                 overrun>>

\* Count when the writer is ahead: a fresh read of last_write, which may have
\* wrapped since the comparison.
CountAhead ==
  /\ Step("count_ahead", "kmalloc")
  /\ samples_to_copy' = Minus32(last_write, last_read)
  /\ UNCHANGED <<shared, last_write_tmp, be_samples, last_read, delivered,
                 overrun>>

\* kmalloc(GFP_ATOMIC) may always fail, and must when the batch is too large:
\* return 0 and leave last_read alone.
KmallocFails ==
  /\ Step("kmalloc", "idle")
  /\ UNCHANGED <<shared, locals, last_read, delivered, overrun>>

KmallocSucceeds ==
  /\ samples_to_copy <= KMALLOC_MAX
  /\ Step("kmalloc", "copy")
  /\ UNCHANGED <<shared, locals, last_read, delivered, overrun>>

\* One turn of the copy loop, first the header words of the slot ...
CopyHead ==
  /\ Len(be_samples) < samples_to_copy
  /\ Step("copy", "copy_data")
  /\ LET current_index == quick_module(last_read + 1 + Len(be_samples))
     IN  be_samples' =
           Append(be_samples, [head |-> CIRC_BUFFER[current_index].head,
                               data |-> 0])
  /\ UNCHANGED <<shared, last_write_tmp, samples_to_copy, last_read,
                 delivered, overrun>>

\* ... then its data words.
CopyData ==
  /\ Step("copy_data", "copy")
  /\ LET current_index == quick_module(last_read + Len(be_samples))
     IN  be_samples' =
           [be_samples EXCEPT ![Len(be_samples)] =
              [head |-> @.head, data |-> CIRC_BUFFER[current_index].data]]
  /\ UNCHANGED <<shared, last_write_tmp, samples_to_copy, last_read,
                 delivered, overrun>>

\* Mutant: catch up with whatever last_write is now.
Commit_ToLastWrite ==
  /\ Len(be_samples) >= samples_to_copy
  /\ Step("copy", "idle")
  /\ last_read' = last_write
  /\ delivered' = delivered \o be_samples
  /\ UNCHANGED <<shared, locals, overrun>>

\* The loop is over: move last_read and return the batch.  The mismatch of
\* last_read and last_write_tmp is only logged.
Commit ==
  /\ Len(be_samples) >= samples_to_copy
  /\ Step("copy", "idle")
  /\ last_read' = quick_module(last_read + samples_to_copy)
  /\ delivered' = delivered \o be_samples
  /\ UNCHANGED <<shared, locals, overrun>>

read_nsamples ==
  \/ Enter \/ CheckEmpty \/ Compare \/ CountWrapped \/ CountAhead
  \/ KmallocFails \/ KmallocSucceeds \/ CopyHead \/ CopyData \/ Commit

RingNext == write_to_buffer \/ read_nsamples

RingSpec == RingInit /\ [][RingNext]_ringVars

\* The thread keeps calling read_nsamples (main_loop of sender_kthread.c), the
\* scheduler keeps running it, and memory pressure does not last for ever.
RingFairness == WF_ringVars(read_nsamples) /\ SF_ringVars(KmallocSucceeds)

RingFairSpec == RingSpec /\ RingFairness

-----------------------------------------------------------------------------
(* Properties.                                                             *)

\* Steps forward around the ring from index a to index b.
Dist(a, b) == IF b >= a THEN b - a ELSE b + CIRC_BUF_SIZE - a

Unread == Dist(last_read, last_write)

Labels == {"idle", "check_empty", "compare", "count_wrapped", "count_ahead",
           "kmalloc", "copy", "copy_data"}

\* Type invariant: both indices stay inside the array whatever read_nsamples
\* and the interrupt do, and the batch size is a word.
RingTypeOK ==
  /\ last_write \in Index /\ last_read \in Index
  /\ CIRC_BUFFER \in [Index -> Samples]
  /\ pc \in Labels
  /\ last_write_tmp \in Index
  /\ samples_to_copy \in 0 .. UINT32 - 1
  /\ be_samples \in Seq(Samples)
  /\ written \in Nat
  /\ delivered \in Seq(Samples)
  /\ overrun \in BOOLEAN

\* As long as the writer has not caught up with the reader, read_nsamples
\* returns every sample once, in the order written and never torn, although
\* it reads last_write up to four times and copies while the interrupt keeps
\* writing (proc_entry.c:71-114).
InOrder ==
  ~overrun => \A k \in 1 .. Len(delivered) : delivered[k] = Sample(k)

\* The ring refines an unbounded-index FIFO of CIRC_BUF_SIZE - 1 samples.
Fifo == INSTANCE SampleFifo WITH
  Capacity <- CIRC_BUF_SIZE - 1,
  Item <- Sample,
  unread <- IF overrun THEN <<>>
            ELSE [k \in 1 .. Unread |->
                    CIRC_BUFFER[quick_module(last_read + k)]],
  out <- IF overrun THEN <<>> ELSE delivered,
  intact <- ~overrun

\* proc_entry.c implements the FIFO that main_loop of the sender relies on:
\* each write puts one sample, each successful call takes a batch from the
\* front, and every other step of read_nsamples changes nothing.
RefinesFifo == Fifo!Spec

\* The reader never advances past the writer ("the reader is faster than the
\* writer", proc_entry.c:22-23): a call moves last_read by at most the number
\* of unread samples.
ReaderStaysBehind ==
  [][~overrun => Dist(last_read, last_read') <= Unread]_ringVars

\* Every sample written is eventually returned to the sender unless the
\* writer laps the reader, although a call can fail for lack of memory or
\* because last_write wrapped between the comparison and the count.
EventuallyDelivered ==
  \A n \in 1 .. MaxWrites :
    (written >= n) ~> (overrun \/ Len(delivered) >= n)
=============================================================================
