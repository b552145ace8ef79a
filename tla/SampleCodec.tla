----------------------------- MODULE SampleCodec -----------------------------
(***************************************************************************)
(* A sample's bytes, from the FPGA's registers to the numbers in the JSON  *)
(* file: read_four_channels (interruption/fpga.c) packs six 16-bit reads   *)
(* into twelve bytes.  Two programs make four signed numbers of them:      *)
(* write_json (receiver/list.c), from the copy prepare_packet sends, and   *)
(* userland_reader, from the copy in /proc/geophone.  The ADC sends four   *)
(* readings of three bytes, most significant byte first.                   *)
(*                                                                         *)
(* BASE is the number of values of a byte (256 in the code).  Both         *)
(* processors are little endian.                                           *)
(***************************************************************************)
EXTENDS Integers, Sequences

CONSTANT BASE

ASSUME BaseAssumption == BASE \in Nat \ {0, 1} /\ BASE % 2 = 0

Byte == 0..(BASE - 1)
Reading == 0..(BASE * BASE * BASE - 1)
SIGN == (BASE * BASE * BASE) \div 2      \* 0x800000
Channels == 1..4

VARIABLES adc,      \* the four readings the ADC holds
          data,     \* the sample's twelve bytes, or <<>>
          numbers   \* what the program that reads them prints, or <<>>

codecVars == <<adc, data, numbers>>

CodecInit == adc \in [Channels -> Reading] /\ data = <<>> /\ numbers = <<>>

-----------------------------------------------------------------------------
(* fpga.c.                                                                 *)

\* Byte k (0 the least significant) of a number.
ByteOf(n, k) ==
  CASE k = 0 -> n % BASE
    [] k = 1 -> (n \div BASE) % BASE
    [] k = 2 -> (n \div (BASE * BASE)) % BASE
    [] k = 3 -> (n \div (BASE * BASE * BASE)) % BASE

\* The twelve bytes of the readings in the order the ADC sends them.
AdcByte(i) == ByteOf(adc[((i - 1) \div 3) + 1], 2 - ((i - 1) % 3))

\* The w-th peek16 at the FPGA returns the next two of them.
peek16(w) == AdcByte(2 * w - 1) * BASE + AdcByte(2 * w)

\* temp_buffer1, 2 and 3: two reads each, the first in the high half.
temp_buffer(t) == peek16(2 * t - 1) * BASE * BASE + peek16(2 * t)

\* Mutant: the bytes of a word are stored in the processor's order.
read_four_channels_LittleEndian ==
  /\ data = <<>>
  /\ data' = [i \in 1..12 |->
                ByteOf(temp_buffer(((i - 1) \div 4) + 1), (i - 1) % 4)]
  /\ UNCHANGED <<adc, numbers>>

\* Each word is stored most significant byte first.
read_four_channels ==
  /\ data = <<>>
  /\ data' = [i \in 1..12 |->
                ByteOf(temp_buffer(((i - 1) \div 4) + 1), 3 - ((i - 1) % 4))]
  /\ UNCHANGED <<adc, numbers>>

-----------------------------------------------------------------------------
(* list.c.                                                                 *)

\* The indices of pkt->samples (from 0) that make up bytes 0, 1 and 2 of each
\* number.
Picks == << <<2, 1, 0>>, <<5, 4, 3>>, <<8, 7, 6>>, <<11, 10, 9>> >>

Raw(c) ==
  LET b(k) == data[Picks[c][k + 1] + 1]
  IN  b(0) + b(1) * BASE + b(2) * BASE * BASE

\* A raw value above 0x800000 is negative: (~n + 1) & 0xFFFFFF, negated.
Signed(n) == IF n > SIGN THEN -((2 * SIGN - n) % (2 * SIGN)) ELSE n

write_json ==
  /\ data # <<>> /\ numbers = <<>>
  /\ numbers' = [c \in Channels |-> Signed(Raw(c))]
  /\ UNCHANGED <<adc, data>>

-----------------------------------------------------------------------------
(* userland_reader.c.                                                      *)

\* separate_channels: three bytes each, the first one the most significant.
Separated(c) ==
  LET i == 3 * (c - 1)
  IN  data[i + 1] * BASE * BASE + data[i + 2] * BASE + data[i + 3]

\* separate_channels, then two_complement, which is write_json's conversion.
userland_reader ==
  /\ data # <<>> /\ numbers = <<>>
  /\ numbers' = [c \in Channels |-> Signed(Separated(c))]
  /\ UNCHANGED <<adc, data>>

CodecNext == read_four_channels \/ write_json \/ userland_reader

CodecSpec == CodecInit /\ [][CodecNext]_codecVars

-----------------------------------------------------------------------------
(* Properties.                                                             *)

\* The reference: the reading in two's complement.
TwosComplement(n) == IF n >= SIGN THEN n - 2 * SIGN ELSE n

\* Each channel's number is the reading of that channel in two's complement,
\* through the repacking into 16-bit, 32-bit and 24-bit groups and back, and
\* congruent to it at the one value the code does not negate, 0x800000.
ReadingRestored ==
  numbers # <<>> =>
    \A c \in Channels :
      IF adc[c] = SIGN THEN numbers[c] = SIGN
                       ELSE numbers[c] = TwosComplement(adc[c])
=============================================================================
