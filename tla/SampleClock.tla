----------------------------- MODULE SampleClock -----------------------------
(***************************************************************************)
(* The interrupt handler of int_mod (interruption/int.c): two edge lines   *)
(* share one interrupt, the ADC's data-ready (SCL) and the GPS receiver's  *)
(* pulse per second (SDA).  The pulse advances the seconds counter and     *)
(* records the kernel time; a sample is stamped with the seconds counter   *)
(* and the kernel time elapsed since the last recorded pulse.              *)
(*                                                                         *)
(* Time is counted in ticks, USECS of them in a second (10^6 in the code). *)
(* The kernel clock runs at the rate of the GPS but at any phase to it.    *)
(* An interrupt is served within the tick in which its edge falls.         *)
(***************************************************************************)
EXTENDS Integers, Sequences

CONSTANTS
  USECS,      \* NUMBER_OF_USECS_IN_SECONDS
  BootSecs,   \* seconds on the kernel clock when the module is loaded
  MaxTicks    \* bound: length of the run

\* base_sec starts at 0, long before any time the clock can show.
ASSUME ClockAssumption ==
  /\ USECS \in Nat \ {0} /\ BootSecs \in Nat /\ BootSecs > 1 /\ MaxTicks \in Nat

VARIABLES
  now,                     \* ticks since the module was loaded
  phase,                   \* offset of the kernel clock to the pulse
  ppsDue,                  \* the pulse of this second has not fallen yet
  adcDue,                  \* the ADC may still signal in this tick
  status,                  \* gpio_int_status: the latched edges
  handling,                \* "no", or the handler running: "adc", "gps"
  sec_in_pps, usec_in_pps, \* kernel time at the last pulse handled
  elapsed_secs,            \* __miavita_elapsed_secs, 0 at load time
  elapsed_usecs,           \* __miavita_elapsed_usecs
  counter,                 \* sequence number of the last data-ready handled
  counter_scl,             \* data-ready interrupts since the last pulse
  mux_state,               \* the handler's copy of the multiplexer pin
  dio26,                   \* the pin
  sample,                  \* the last sample written to the ring
  missed,                  \* history: pulses cleared without being handled
  inStep                   \* history: the latest pulse was handled (the
                           \* seconds counter and the base are those of it)

clockVars == <<now, phase, ppsDue, adcDue>>
ppsVars == <<sec_in_pps, usec_in_pps, elapsed_secs>>
vars == <<clockVars, ppsVars, status, handling, elapsed_usecs, counter,
          counter_scl, mux_state, dio26, sample, missed, inStep>>

SCL == "scl"
SDA == "sda"
NoSample == [timestamp |-> 0, seq |-> 0, at |-> 0, mux |-> 1, valid |-> FALSE]

\* do_gettimeofday.
KernelTicks == BootSecs * USECS + phase + now
tv_sec == KernelTicks \div USECS
tv_usec == KernelTicks % USECS

Init ==
  /\ now = 0 /\ phase \in 0 .. USECS - 1
  /\ ppsDue = FALSE /\ adcDue = TRUE
  /\ status = {} /\ handling = "no"
  /\ sec_in_pps = 0 /\ usec_in_pps = 0
  /\ elapsed_secs = 0 /\ elapsed_usecs = 0
  /\ counter = 0 /\ counter_scl = 0
  /\ mux_state = 0 /\ dio26 \in {0, 1}
  /\ sample = NoSample
  /\ missed = 0 /\ inStep = FALSE

-----------------------------------------------------------------------------
(* The hardware.                                                           *)

Tick ==
  /\ now < MaxTicks
  /\ status = {} /\ handling = "no" /\ ~ppsDue
  /\ now' = now + 1
  /\ ppsDue' = (now' % USECS = 0) /\ adcDue' = TRUE
  /\ UNCHANGED <<phase, ppsVars, status, handling, elapsed_usecs, counter,
                 counter_scl, mux_state, dio26, sample, missed, inStep>>

\* Edges latch in the status register whether or not the handler is running.
PpsEdge ==
  /\ ppsDue /\ ppsDue' = FALSE
  /\ status' = status \cup {SDA}
  /\ UNCHANGED <<now, phase, adcDue, ppsVars, handling, elapsed_usecs, counter,
                 counter_scl, mux_state, dio26, sample, missed, inStep>>

AdcEdge ==
  /\ adcDue /\ adcDue' = FALSE
  /\ status' = status \cup {SCL}
  /\ UNCHANGED <<now, phase, ppsDue, ppsVars, handling, elapsed_usecs, counter,
                 counter_scl, mux_state, dio26, sample, missed, inStep>>

-----------------------------------------------------------------------------
(* The handler.                                                            *)

\* Mutant: the second after the pulse is not recognised.
calculate_usecs_SameSecondOnly(sec, usec, base_sec, base_usec) ==
  IF base_sec = sec THEN usec - base_usec ELSE 0

\* Kernel time since the last pulse handled, 0 in the error case.
calculate_usecs(sec, usec, base_sec, base_usec) ==
  CASE base_sec = sec -> usec - base_usec
    [] base_sec + 1 = sec -> USECS - base_usec + usec
    [] OTHER -> 0

\* Mutant: the seconds are reset with the microseconds.
handle_gps_int_ResetsSecs(busy) ==
  /\ sec_in_pps' = tv_sec /\ usec_in_pps' = tv_usec
  /\ elapsed_usecs' = 0 /\ elapsed_secs' = 0
  /\ counter_scl' = 0
  /\ IF busy THEN UNCHANGED <<dio26, mux_state>>
             ELSE dio26' = 0 /\ mux_state' = 0
  /\ inStep' = TRUE
  /\ UNCHANGED <<counter, sample>>

\* Mutant: the pin is released but the copy of its state is not.
handle_gps_int_StaleMux(busy) ==
  /\ sec_in_pps' = tv_sec /\ usec_in_pps' = tv_usec
  /\ elapsed_usecs' = 0 /\ elapsed_secs' = elapsed_secs + 1
  /\ counter_scl' = 0
  /\ UNCHANGED mux_state
  /\ IF busy THEN UNCHANGED dio26 ELSE dio26' = 0
  /\ inStep' = TRUE
  /\ UNCHANGED <<counter, sample>>

\* The pulse: new base, next second; the multiplexer is released unless a
\* userland tool is on the FPGA bus (busy).
handle_gps_int(busy) ==
  /\ sec_in_pps' = tv_sec /\ usec_in_pps' = tv_usec
  /\ elapsed_usecs' = 0 /\ elapsed_secs' = elapsed_secs + 1
  /\ counter_scl' = 0
  /\ IF busy THEN UNCHANGED <<dio26, mux_state>>
             ELSE dio26' = 0 /\ mux_state' = 0
  /\ inStep' = TRUE
  /\ UNCHANGED <<counter, sample>>

\* Data ready: stamp, count, and unless the bus is busy select the ADC, read
\* it and write the sample to the ring.
handle_adc_int(busy) ==
  /\ elapsed_usecs' =
       calculate_usecs(tv_sec, tv_usec, sec_in_pps, usec_in_pps)
  /\ counter' = counter + 1 /\ counter_scl' = counter_scl + 1
  /\ IF busy
     THEN UNCHANGED <<mux_state, dio26, sample>>
     ELSE /\ mux_state' = 1
          /\ dio26' = IF mux_state = 0 THEN 1 ELSE dio26
          /\ sample' = [timestamp |-> elapsed_secs * USECS + elapsed_usecs',
                        seq |-> counter', at |-> now - missed * USECS,
                        mux |-> dio26', valid |-> inStep]
  /\ UNCHANGED <<ppsVars, inStep>>

\* Dispatch: data ready goes first, the pulse only when it is alone.
interrupt ==
  /\ handling = "no" /\ status # {}
  /\ \E busy \in BOOLEAN :
       \/ SCL \in status /\ handling' = "adc" /\ handle_adc_int(busy)
       \/ SCL \notin status /\ handling' = "gps" /\ handle_gps_int(busy)
  /\ UNCHANGED <<clockVars, status, missed>>

\* Both edges are cleared and the line enabled again.  A pulse latched beside
\* a data-ready edge, or while that edge was handled, goes unhandled.
interrupt_return ==
  /\ handling # "no" /\ handling' = "no"
  /\ status' = {}
  /\ IF handling = "adc" /\ SDA \in status
     THEN missed' = missed + 1 /\ inStep' = FALSE
     ELSE UNCHANGED <<missed, inStep>>
  /\ UNCHANGED <<clockVars, ppsVars, elapsed_usecs, counter, counter_scl,
                 mux_state, dio26, sample>>

Next == Tick \/ PpsEdge \/ AdcEdge \/ interrupt \/ interrupt_return

Spec == Init /\ [][Next]_vars

-----------------------------------------------------------------------------
(* Properties.                                                             *)

TypeOK ==
  /\ now \in 0 .. MaxTicks /\ phase \in 0 .. USECS - 1
  /\ ppsDue \in BOOLEAN /\ adcDue \in BOOLEAN
  /\ status \subseteq {SCL, SDA} /\ handling \in {"no", "adc", "gps"}
  /\ sec_in_pps \in Nat /\ usec_in_pps \in 0 .. USECS - 1
  /\ elapsed_secs \in Nat /\ elapsed_usecs \in 0 .. 2 * USECS - 1
  /\ counter \in Nat /\ counter_scl \in 0 .. counter
  /\ mux_state \in {0, 1} /\ dio26 \in {0, 1}
  /\ sample \in [timestamp : Nat, seq : Nat, at : Int, mux : {0, 1},
                  valid : BOOLEAN]
  /\ missed \in Nat /\ inStep \in BOOLEAN

\* A sample taken in a second whose pulse was handled is stamped with the true
\* time, less one whole second for every pulse ever missed, at whatever phase
\* the kernel clock runs and in whatever second of it the sample falls
\* (int.c:384-399, 443).
StampExact == sample.valid => sample.timestamp = sample.at

\* However many pulses in a row are missed, and whether calculate_usecs counts
\* on from an old pulse or falls into its error case, a sample's stamp is never
\* more than one second off the true time less one second per pulse missed.
StampErrorBounded ==
  sample.timestamp - sample.at \in (-USECS) .. USECS

\* The ADC is only read with the multiplexer pin selecting it, although the
\* handler decides on its own copy of the pin's state and leaves both alone
\* when the bus is busy (int.c:338-344, 433-437).
MuxSelected == sample.mux = 1
=============================================================================
