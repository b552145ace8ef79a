----------------------------- MODULE SampleFifo -----------------------------
(***************************************************************************)
(* What the sample ring promises its two users, without indices: the       *)
(* samples the interrupt handler puts in come out once each, in order and  *)
(* in batches, as long as the reader never lets the ring fill up.  When    *)
(* one more sample arrives than the ring can hold the promise is void.     *)
(***************************************************************************)
EXTENDS Naturals, Sequences

CONSTANTS Capacity,   \* samples that can wait unread
          Item(_)     \* the n-th sample

VARIABLES unread, out, intact

fifoVars == <<unread, out, intact>>

Init == unread = <<>> /\ out = <<>> /\ intact = TRUE

Put ==
  /\ intact /\ Len(unread) < Capacity
  /\ unread' = Append(unread, Item(Len(out) + Len(unread) + 1))
  /\ UNCHANGED <<out, intact>>

\* A batch: some non-empty prefix of what is waiting.
Take ==
  /\ intact
  /\ \E k \in 1 .. Len(unread) :
       /\ out' = out \o SubSeq(unread, 1, k)
       /\ unread' = SubSeq(unread, k + 1, Len(unread))
  /\ UNCHANGED intact

GiveUp ==
  /\ intact /\ Len(unread) = Capacity
  /\ intact' = FALSE /\ unread' = <<>> /\ out' = <<>>

Next == Put \/ Take \/ GiveUp

Spec == Init /\ [][Next]_fifoVars
=============================================================================
