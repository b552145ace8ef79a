------------------------------- MODULE FpgaBus -------------------------------
(***************************************************************************)
(* The SPI bus to the FPGA, shared by the ADC/PPS interrupt handler of     *)
(* int_mod and by the modified userland tools sdctl and xuartctl.  The     *)
(* tools exclude each other with a System V semaphore; they exclude the    *)
(* handler with bit 0 of the GPIO trigger register (0x34), which a tool    *)
(* sets after taking the semaphore and clears after giving it back.  The   *)
(* handler cannot wait: it skips the bus when the bit is set.              *)
(*                                                                         *)
(* The tools are preempted by one another and by the interrupt between any *)
(* two instructions; the handler runs to completion before any tool moves. *)
(***************************************************************************)
EXTENDS Integers, FiniteSets

CONSTANTS Tools,      \* the processes that call sbuslock
          MayDie      \* TRUE: a tool may exit inside its critical section

ASSUME ToolsAssumption == MayDie \in BOOLEAN

VARIABLES
  semaphore,  \* -1: not created yet, otherwise its value
  mutex,      \* bit 0 of the trigger register
  loaded,     \* per tool: the value its read-modify-write has loaded
  tool,       \* per tool: where it is
  irq,        \* "idle", "access" (on the bus) or "skipped"
  orphaned,   \* history: the mark was left behind by a tool that died
  raced       \* history, per tool: it took the semaphore while another tool
              \* had given it back but not yet cleared the mark

busVars == <<semaphore, mutex, loaded, tool, irq, orphaned, raced>>

ToolLabels == {"out", "create", "wait", "mark_load", "mark_store", "using",
           "clear_load", "clear_store"}

\* The labels at which a tool holds the semaphore (and a pending SEM_UNDO).
Holding == {"mark_load", "mark_store", "using"}

BusTypeOK ==
  /\ semaphore \in {-1, 0, 1}
  /\ mutex \in {0, 1}
  /\ loaded \in [Tools -> {0, 1}]
  /\ tool \in [Tools -> ToolLabels]
  /\ irq \in {"idle", "access", "skipped"}
  /\ orphaned \in BOOLEAN
  /\ raced \in [Tools -> BOOLEAN]

BusInit ==
  /\ semaphore = -1 /\ mutex = 0
  /\ loaded = [t \in Tools |-> 0]
  /\ tool = [t \in Tools |-> "out"]
  /\ irq = "idle" /\ orphaned = FALSE
  /\ raced = [t \in Tools |-> FALSE]

Goto(t, from, to) ==
  /\ irq = "idle"
  /\ tool[t] = from /\ tool' = [tool EXCEPT ![t] = to]

-----------------------------------------------------------------------------
(* sbuslock of sdctl.c and xuartctl.c.                                     *)

\* semget: the first tool creates the semaphore with value 0, the others
\* attach to it.
semget(t) ==
  /\ \/ semaphore = -1 /\ Goto(t, "out", "create") /\ semaphore' = 0
     \/ semaphore # -1 /\ Goto(t, "out", "wait") /\ UNCHANGED semaphore
  /\ UNCHANGED <<mutex, loaded, irq, orphaned, raced>>

\* The creator makes it available, without SEM_UNDO.
semop_create(t) ==
  /\ Goto(t, "create", "wait")
  /\ semaphore' = semaphore + 1
  /\ UNCHANGED <<mutex, loaded, irq, orphaned, raced>>

\* Another tool is between the two halves of sbusunlock.
Clearing(t) ==
  \E u \in Tools \ {t} : tool[u] \in {"clear_load", "clear_store"}

\* semop(-1, SEM_UNDO), retried on EINTR.
semop_lock(t) ==
  /\ semaphore > 0
  /\ Goto(t, "wait", "mark_load")
  /\ semaphore' = semaphore - 1
  /\ raced' = [raced EXCEPT ![t] = Clearing(t)]
  /\ UNCHANGED <<mutex, loaded, irq, orphaned>>

\* cvgpioregs[0x34/4] |= 1 is a load and a store.
mark_load(t) ==
  /\ Goto(t, "mark_load", "mark_store")
  /\ loaded' = [loaded EXCEPT ![t] = mutex]
  /\ UNCHANGED <<semaphore, mutex, irq, orphaned, raced>>

\* Mutant: the bus is used without storing the mark.
mark_store_Lost(t) ==
  /\ Goto(t, "mark_store", "using")
  /\ orphaned' = FALSE
  /\ UNCHANGED <<semaphore, mutex, loaded, irq, raced>>

mark_store(t) ==
  /\ Goto(t, "mark_store", "using")
  /\ mutex' = 1 /\ orphaned' = FALSE
  /\ UNCHANGED <<semaphore, loaded, irq, raced>>

-----------------------------------------------------------------------------
(* sbusunlock.                                                             *)

\* semop(+1, SEM_UNDO): the semaphore is free before the mark is cleared.
semop_unlock(t) ==
  /\ Goto(t, "using", "clear_load")
  /\ semaphore' = semaphore + 1
  /\ UNCHANGED <<mutex, loaded, irq, orphaned, raced>>

\* cvgpioregs[0x34/4] &= 0xFFFFFFFE.
clear_load(t) ==
  /\ Goto(t, "clear_load", "clear_store")
  /\ loaded' = [loaded EXCEPT ![t] = mutex]
  /\ UNCHANGED <<semaphore, mutex, irq, orphaned, raced>>

\* Mutant: the value loaded is stored back without clearing the bit.
clear_store_Keeps(t) ==
  /\ Goto(t, "clear_store", "out")
  /\ mutex' = loaded[t] /\ UNCHANGED orphaned
  /\ UNCHANGED <<semaphore, loaded, irq, raced>>

clear_store(t) ==
  /\ Goto(t, "clear_store", "out")
  /\ mutex' = 0 /\ orphaned' = FALSE
  /\ UNCHANGED <<semaphore, loaded, irq, raced>>

\* Mutant: the semaphore operations carry no SEM_UNDO.
die_NoUndo(t) ==
  /\ MayDie
  /\ Goto(t, "using", "out")
  /\ orphaned' = (mutex = 1)
  /\ UNCHANGED <<semaphore, mutex, loaded, irq, raced>>

\* exit(1) from sbuspreempt once a signal has set die (killable is 0 inside
\* the section): SEM_UNDO gives the semaphore back, nothing clears the mark.
\* The tool can be started again.
die(t) ==
  /\ MayDie
  /\ Goto(t, "using", "out")
  /\ semaphore' = semaphore + 1
  /\ orphaned' = (mutex = 1)
  /\ UNCHANGED <<mutex, loaded, irq, raced>>

-----------------------------------------------------------------------------
(* The interrupt handler.  *p &= 0x1 in is_fpga_used writes the mark back  *)
(* unchanged and clears only trigger bits of other pins.                   *)
is_fpga_used == mutex = 1

interrupt_enter ==
  /\ irq = "idle"
  /\ irq' = IF is_fpga_used THEN "skipped" ELSE "access"
  /\ UNCHANGED <<semaphore, mutex, loaded, tool, orphaned, raced>>

interrupt_exit ==
  /\ irq # "idle"
  /\ irq' = "idle"
  /\ UNCHANGED <<semaphore, mutex, loaded, tool, orphaned, raced>>

-----------------------------------------------------------------------------
sbuslock(t) == semget(t) \/ semop_create(t) \/ semop_lock(t) \/ mark_load(t)
               \/ mark_store(t)

sbusunlock(t) == semop_unlock(t) \/ clear_load(t) \/ clear_store(t)

BusNext ==
  \/ \E t \in Tools : sbuslock(t) \/ sbusunlock(t) \/ die(t)
  \/ interrupt_enter \/ interrupt_exit

BusSpec == BusInit /\ [][BusNext]_busVars

\* The handler always returns.  A tool in sbuslock or sbusunlock is scheduled
\* and leaves its section again, and the semaphore serves its queue in order;
\* no tool is obliged to ask for the bus.  The interrupt comes at a fixed rate
\* and keeps no tool from running, hence strong fairness for the tools.
BusFairness ==
  /\ WF_busVars(interrupt_exit)
  /\ \A t \in Tools : /\ SF_busVars(semop_create(t)) /\ SF_busVars(semop_lock(t))
                      /\ SF_busVars(mark_load(t)) /\ SF_busVars(mark_store(t))
                      /\ SF_busVars(sbusunlock(t))

BusFairSpec == BusSpec /\ BusFairness

-----------------------------------------------------------------------------
(* Properties.                                                             *)

\* The only way to lose that exclusion is the window inside sbusunlock: a tool
\* that took the semaphore when no other tool still had its mark to clear
\* (always so when it is alone) is never interrupted on the bus, deaths and
\* restarts included.
HandlerExcludedUnlessRaced ==
  irq = "access" => \A t \in Tools : tool[t] = "using" => raced[t]

\* A tool that never dies does not keep the handler off the bus for ever: the
\* mark is cleared again after every use.
MarkCleared == mutex = 1 ~> (mutex = 0 \/ orphaned)

\* A tool that waits for the bus gets it, even when the holder dies inside its
\* section: the kernel undoes the holder's semop.
BusGranted == \A t \in Tools : tool[t] = "wait" ~> tool[t] = "using"
=============================================================================
