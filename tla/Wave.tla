-------------------------------- MODULE Wave ---------------------------------
(* Channel 3 of the sound unit: libgb/io/apu.cpp.  A counter runs up to the     *)
(* overflow, is reloaded from the period that the program may be writing and    *)
(* steps through the 32 samples of the wave; the length counts to 256 and is    *)
(* not reloaded by a trigger.  What a sample sounds like is left out.          *)
EXTENDS Integers

CONSTANTS
  PeriodCount,   \* periods, 2^11 in the program
  LowCount,      \* values of the lower period register, 2^8
  LengthCount,   \* length units that the channel counts, 256
  SampleCount,   \* samples of the wave, 32
  Volumes        \* settings of NR32, 0 .. 3: mute, full, half and a quarter

PeriodAssumption ==
  PeriodCount \in Nat /\ LowCount \in 1 .. PeriodCount /\ PeriodCount % LowCount = 0
CountAssumption ==
  LengthCount \in Nat \ {0} /\ SampleCount \in Nat \ {0} /\ 0 \in Volumes

VARIABLES
  m_apu_has_power,
  regs,           \* registers NR30 to NR34, by the fields they hold
  channel_on,
  length_timer,
  counter,
  sample_point,
  peek_level,     \* the volume that the last trigger has taken over
  lengthDue,      \* the next event of the divider counts lengths: each second does
  powerLost       \* history: the unit lost its power since the last trigger

vars == <<m_apu_has_power, regs, channel_on, length_timer, counter, sample_point,
          peek_level, lengthDue, powerLost>>
playing == <<counter, sample_point, peek_level>>

Cleared == [dac |-> FALSE, length |-> 0, volume |-> 0, period |-> 0,
            length_enabled |-> FALSE]

Init ==
  /\ m_apu_has_power = FALSE /\ regs = Cleared
  /\ channel_on = FALSE /\ length_timer = 0
  /\ counter = 0 /\ sample_point = 0 /\ peek_level = 0
  /\ lengthDue = FALSE /\ powerLost = FALSE

(* tick_channel3, at every second clock. The period is looked at when the       *)
(* counter overflows and at no other time.                                      *)
Reloaded == regs.period

Tick ==
  /\ channel_on
  /\ IF counter + 1 = PeriodCount
     THEN counter' = Reloaded /\ sample_point' = (sample_point + 1) % SampleCount
     ELSE counter' = counter + 1 /\ UNCHANGED sample_point
  /\ UNCHANGED <<m_apu_has_power, regs, channel_on, length_timer, peek_level,
                 lengthDue, powerLost>>

(* The events of the divider, of which every second counts the length of the   *)
(* channel and shows it in NR31.                                              *)
DivEvent ==
  LET counts == lengthDue /\ regs.length_enabled
      ends   == counts /\ length_timer + 1 = LengthCount
      timer  == IF ~counts THEN length_timer ELSE IF ends THEN 0 ELSE length_timer + 1
  IN /\ lengthDue' = ~lengthDue
     /\ channel_on' = (channel_on /\ ~ends)
     /\ length_timer' = timer
     /\ regs' = IF counts THEN [regs EXCEPT !.length = timer] ELSE regs
     /\ UNCHANGED <<m_apu_has_power, playing, powerLost>>

(* Writes to the registers; an unpowered unit ignores them.                    *)
Silenced(dac) == ~dac
WriteDac(dac) ==
  /\ m_apu_has_power
  /\ regs' = [regs EXCEPT !.dac = dac]
  /\ channel_on' = (channel_on /\ ~Silenced(dac))
  /\ UNCHANGED <<m_apu_has_power, length_timer, playing, lengthDue, powerLost>>

WriteLength(length) ==
  /\ m_apu_has_power
  /\ regs' = [regs EXCEPT !.length = length] /\ length_timer' = length
  /\ UNCHANGED <<m_apu_has_power, channel_on, playing, lengthDue, powerLost>>

(* Volume and period are forwarded to the registers.  (Slip: a new period      *)
(* restarts the counter.)                                                     *)
Forward(written) ==
  /\ m_apu_has_power
  /\ regs' = written
  /\ UNCHANGED <<m_apu_has_power, channel_on, length_timer, lengthDue, powerLost>>
WriteVolume(volume) ==
  Forward([regs EXCEPT !.volume = volume]) /\ UNCHANGED playing

WithLow(low) == [regs EXCEPT !.period = LowCount * (@ \div LowCount) + low]
WritePeriodLowRestarting(low) ==
  Forward(WithLow(low)) /\ counter' = 0 /\ UNCHANGED <<sample_point, peek_level>>
WritePeriodLow(low) ==
  Forward(WithLow(low)) /\ UNCHANGED playing

(* trigger_channel3. The length goes on from where it is.                       *)
Trigger(r) ==
  /\ channel_on' = r.dac /\ powerLost' = FALSE
  /\ sample_point' = 0 /\ counter' = 0 /\ peek_level' = r.volume
  /\ UNCHANGED length_timer

WriteCtl(high, length_enabled, triggered) ==
  /\ m_apu_has_power
  /\ regs' = [regs EXCEPT !.period = LowCount * high + (@ % LowCount),
                          !.length_enabled = length_enabled]
  /\ IF triggered
     THEN Trigger(regs')
     ELSE UNCHANGED <<channel_on, playing, length_timer, powerLost>>
  /\ UNCHANGED <<m_apu_has_power, lengthDue>>

(* Losing power clears registers; the timer and the sound stay.                *)
PowerUp ==
  /\ m_apu_has_power' = TRUE
  /\ UNCHANGED <<regs, channel_on, length_timer, playing, lengthDue, powerLost>>

PowerDown ==
  /\ m_apu_has_power' = FALSE
  /\ regs' = Cleared /\ powerLost' = TRUE
  /\ UNCHANGED <<channel_on, length_timer, playing, lengthDue>>

Highs == 0 .. PeriodCount \div LowCount - 1
Retrigger == \E high \in Highs, enabled \in BOOLEAN : WriteCtl(high, enabled, TRUE)
Load == \E length \in 0 .. LengthCount - 1 : WriteLength(length)

Next ==
  \/ Tick \/ DivEvent \/ PowerUp \/ PowerDown \/ Load
  \/ \E dac \in BOOLEAN : WriteDac(dac)
  \/ \E volume \in Volumes : WriteVolume(volume)
  \/ \E low \in 0 .. LowCount - 1 : WritePeriodLow(low)
  \/ \E high \in Highs, enabled, triggered \in BOOLEAN : WriteCtl(high, enabled, triggered)

Spec == Init /\ [][Next]_vars

(* Both are clocked as long as the machine runs (clock_to).                    *)
FairSpec == Spec /\ WF_vars(Tick) /\ WF_vars(DivEvent)

-----------------------------------------------------------------------------
(* Among the types: no write of the period lets the counter step over the      *)
(* overflow that it is compared with, and the volume is one of four            *)
(* (tick_channel3, whose switch asserts it).                                   *)
TypeOK ==
  /\ m_apu_has_power \in BOOLEAN /\ channel_on \in BOOLEAN
  /\ lengthDue \in BOOLEAN /\ powerLost \in BOOLEAN
  /\ regs \in [dac : BOOLEAN, length : 0 .. LengthCount - 1, volume : Volumes,
               period : 0 .. PeriodCount - 1, length_enabled : BOOLEAN]
  /\ length_timer \in 0 .. LengthCount - 1
  /\ counter \in 0 .. PeriodCount - 1
  /\ sample_point \in 0 .. SampleCount - 1 /\ peek_level \in Volumes

(* The channel sounds only while its DAC is on, until the power goes.          *)
SoundsThroughDac == channel_on /\ ~powerLost => regs.dac

(* A channel that stays on plays the whole wave again and again, however its    *)
(* period is changed while the counter runs, unless triggers restart it for    *)
(* ever (tick_channel3, write).                                               *)
WaveGoesOn ==
  <>[]channel_on => \/ \A point \in 0 .. SampleCount - 1 : []<>(sample_point = point)
                    \/ []<><<Retrigger>>_vars

(* With the length enabled the channel falls silent, though a trigger does not  *)
(* load the length again, unless the program loads lengths for ever            *)
(* (sound_length_event_channel3).                                             *)
LengthEnds ==
  \/ []<>~(channel_on /\ regs.length_enabled)
  \/ []<><<Load>>_vars
=============================================================================
