--------------------------- MODULE InjectionQueue ---------------------------
(***************************************************************************)
(* What the deaggregation hook and the injection thread rely on: a queue.  *)
(* The hook adds packets at the end, the thread takes them from the front  *)
(* one at a time, and an unload drops the rest.                            *)
(***************************************************************************)
EXTENDS Sequences, SequencesExt

CONSTANT None

VARIABLES items, hand   \* waiting, and in the hands of the thread

queueVars == <<items, hand>>

Init == items = <<>> /\ hand = None

Put == IsStrictPrefix(items, items') /\ UNCHANGED hand
Get == items # <<>> /\ hand = None /\ hand' = Head(items) /\ items' = Tail(items)
Sent == hand # None /\ hand' = None /\ UNCHANGED items
Drop == items # <<>> /\ items' = <<>> /\ UNCHANGED hand

Next == Put \/ Get \/ Sent \/ Drop

Spec == Init /\ [][Next]_queueVars
=============================================================================
