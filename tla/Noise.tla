-------------------------------- MODULE Noise --------------------------------
(* Channel 4 of the sound unit: libgb/io/apu.cpp.  A counter divides the clock *)
(* and shifts a register whose lowest bit is the noise, while the program      *)
(* writes the divider, triggers the channel and turns its DAC off.  Length and *)
(* envelope are those of channel 1 (module Apu): here the length may end a     *)
(* channel at any event, and the level of the noise is left out.              *)
EXTENDS Integers

CONSTANTS
  CounterCount,  \* values of the counter, 2^64 in the program
  TopPlace,      \* of the highest bit of the shift register, 2^15
  ShortPlace,    \* of the bit that the short mode sets as well, 2^7
  Randomness     \* settings of NR43 that the program writes

LsrAssumption ==
  TopPlace \in Nat \ {0} /\ ShortPlace \in 1 .. TopPlace /\ TopPlace % ShortPlace = 0
RandomnessAssumption ==
  Randomness \subseteq [divider : 0 .. 7, shift : 0 .. 15, short : BOOLEAN]

(* Period = 4 * divider * (2 ** shift) increments.                             *)
Period(r) == r.divider * 2 ^ (r.shift + 2)
LongestPeriod == CHOOSE p \in {Period(r) : r \in Randomness} :
                   \A r \in Randomness : Period(r) <= p
CounterAssumption ==
  CounterCount \in Nat \ {0} /\ \A r \in Randomness : Period(r) < CounterCount

VARIABLES
  m_apu_has_power,
  dac,             \* NR42: the initial volume and the direction are not all 0s
  randomness,      \* NR43
  length_enabled,  \* NR44
  channel_on,
  counter,
  m_channel4_lsr

regs == <<dac, randomness, length_enabled>>
vars == <<m_apu_has_power, regs, channel_on, counter, m_channel4_lsr>>

ClearedRandomness == [divider |-> 0, shift |-> 0, short |-> FALSE]

Init ==
  /\ m_apu_has_power = FALSE /\ dac = FALSE
  /\ randomness = ClearedRandomness /\ length_enabled = FALSE
  /\ channel_on = FALSE /\ counter = 0 /\ m_channel4_lsr = 0

(* The bit that enters at the top.                                            *)
Bit(place) == (m_channel4_lsr \div place) % 2
Feedback == IF Bit(1) = 1 /\ Bit(2) = 1 THEN 0 ELSE 1

(* The register is shifted and the bit is or-ed in, in the short mode at two    *)
(* places.                                                                      *)
SetBit(value, place, bit) ==
  IF bit = 1 /\ (value \div place) % 2 = 0 THEN value + place ELSE value
Shifted ==
  LET long == SetBit(m_channel4_lsr \div 2, TopPlace, Feedback)
  IN IF randomness.short THEN SetBit(long, ShortPlace, Feedback) ELSE long

(* tick_channel4, at every fourth clock. The counter is decremented first,     *)
(* below 0 too.                                                                *)
Elapsed(count) == count = 0

Tick ==
  LET count == (counter - 1) % CounterCount
  IN /\ channel_on
     /\ IF Elapsed(count)
        THEN counter' = Period(randomness) /\ m_channel4_lsr' = Shifted
        ELSE counter' = count /\ UNCHANGED m_channel4_lsr
     /\ UNCHANGED <<m_apu_has_power, regs, channel_on>>

(* sound_length_event, when the length has run out.                           *)
LengthRunsOut ==
  /\ length_enabled /\ channel_on' = FALSE
  /\ UNCHANGED <<m_apu_has_power, regs, counter, m_channel4_lsr>>

(* write: the program's writes, which an unpowered unit ignores.               *)
WriteVolume(isOn) ==
  /\ m_apu_has_power
  /\ dac' = isOn /\ channel_on' = (channel_on /\ isOn)
  /\ UNCHANGED <<m_apu_has_power, randomness, length_enabled, counter, m_channel4_lsr>>

WriteRandomness(r) ==
  /\ m_apu_has_power
  /\ randomness' = r
  /\ UNCHANGED <<m_apu_has_power, dac, length_enabled, channel_on, counter, m_channel4_lsr>>

WriteCtl(enabled, triggered) ==
  /\ m_apu_has_power
  /\ length_enabled' = enabled
  /\ IF triggered
     THEN channel_on' = dac /\ counter' = 0 /\ m_channel4_lsr' = 0
     ELSE UNCHANGED <<channel_on, counter, m_channel4_lsr>>
  /\ UNCHANGED <<m_apu_has_power, dac, randomness>>

Trigger == \E enabled \in BOOLEAN : WriteCtl(enabled, TRUE)

PowerUp ==
  /\ m_apu_has_power' = TRUE
  /\ UNCHANGED <<regs, channel_on, counter, m_channel4_lsr>>

(* The registers are cleared; the channel goes on, with a divider of 0.        *)
PowerDown ==
  /\ m_apu_has_power' = FALSE
  /\ dac' = FALSE /\ randomness' = ClearedRandomness /\ length_enabled' = FALSE
  /\ UNCHANGED <<channel_on, counter, m_channel4_lsr>>

Next ==
  \/ Tick \/ LengthRunsOut \/ PowerUp \/ PowerDown
  \/ \E isOn \in BOOLEAN : WriteVolume(isOn)
  \/ \E r \in Randomness : WriteRandomness(r)
  \/ \E enabled, triggered \in BOOLEAN : WriteCtl(enabled, triggered)

Spec == Init /\ [][Next]_vars

(* clock_to ticks the channel as long as the machine is clocked.               *)
FairSpec == Spec /\ WF_vars(Tick)

-----------------------------------------------------------------------------
(* Among the types: the counter and the register stay within their widths.    *)
TypeOK ==
  /\ m_apu_has_power \in BOOLEAN /\ dac \in BOOLEAN /\ length_enabled \in BOOLEAN
  /\ channel_on \in BOOLEAN
  /\ randomness \in Randomness \cup {ClearedRandomness}
  /\ counter \in 0 .. CounterCount - 1
  /\ m_channel4_lsr \in 0 .. 2 * TopPlace - 1

(* A channel that stays on gives both levels of the noise again and again,    *)
(* whatever divider and mode are written meanwhile and without power too,      *)
(* unless the program keeps triggering it: the shift register gets stuck in    *)
(* neither mode, and a counter below 0 comes round (tick_channel4).            *)
NoiseGoesOn ==
  <>[]channel_on => \/ []<>(Bit(1) = 0) /\ []<>(Bit(1) = 1)
                    \/ []<><<Trigger>>_vars

(* The promise of the comment in tick_channel4, "Period = 4 * divider *        *)
(* (2 ** shift) increments": no step of the noise takes longer than the        *)
(* longest period written.                                                    *)
StepsWithinPeriod == channel_on => counter <= LongestPeriod
=============================================================================
