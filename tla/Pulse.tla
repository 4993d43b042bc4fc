-------------------------------- MODULE Pulse --------------------------------
(* Channel 2 of the sound unit, and what channel 1 does besides its sweep       *)
(* (module Apu): libgb/io/apu.cpp.  A counter runs up to the overflow, is       *)
(* reloaded from the period and steps through the 8 points of a pulse; the      *)
(* level at a point is that of the envelope or none.  Two clocks, that of the   *)
(* counter and that of the divider, and the program act on the same channel.   *)
EXTENDS Integers, Sequences

CONSTANTS
  PeriodCount,   \* periods, 2^11 in the program
  LowCount,      \* values of the lower period register, 2^8
  LengthCount,   \* length units that the channel counts, 64
  Loudest,       \* highest level of the envelope, 15
  Duties,        \* pulses that the program selects
  Volumes        \* settings of NR22

PeriodAssumption ==
  PeriodCount \in Nat /\ LowCount \in 1 .. PeriodCount /\ PeriodCount % LowCount = 0
SettingAssumption ==
  /\ LengthCount \in Nat \ {0} /\ Loudest \in Nat
  /\ 0 \in Duties /\ Duties \subseteq 0 .. 3
  /\ Volumes \subseteq [level : 0 .. Loudest, up : BOOLEAN, pace : 0 .. 7]

VARIABLES
  m_apu_has_power,
  regs,          \* registers NR21 to NR24, by the fields they hold
  channel_on,
  length_timer,
  envelope,      \* peek_level, envelope_sweep_pace, _timer and _increases
  counter,
  sample_point,
  current_output_level,
  m_div_apu_counter

vars == <<m_apu_has_power, regs, channel_on, length_timer, envelope, counter,
          sample_point, current_output_level, m_div_apu_counter>>
wave == <<counter, sample_point, current_output_level>>

Mute == [level |-> 0, up |-> FALSE, pace |-> 0]
Cleared == [duty |-> 0, length |-> 0, volume |-> Mute, period |-> 0, length_enabled |-> FALSE]

Init ==
  /\ m_apu_has_power = FALSE /\ regs = Cleared
  /\ channel_on = FALSE /\ length_timer = 0
  /\ envelope = [peak |-> 0, pace |-> 0, timer |-> 0, up |-> FALSE]
  /\ counter = 0 /\ sample_point = 0 /\ current_output_level = 0
  /\ m_div_apu_counter = 0

(* The points at which each pulse is high.                                     *)
pulses == << 0 .. 6, 1 .. 6, 1 .. 4, {0, 7} >>
IsHigh(point) == point \in pulses[regs.duty + 1]

Heard(point) == IF IsHigh(point) THEN envelope.peak ELSE 0

(* tick_pulse_channel, at every fourth clock.                                    *)
Reloaded == regs.period

Tick ==
  /\ channel_on
  /\ IF counter + 1 = PeriodCount
     THEN /\ counter' = Reloaded
          /\ sample_point' = (sample_point + 1) % 8
          /\ current_output_level' = Heard(sample_point')
     ELSE counter' = counter + 1 /\ UNCHANGED <<sample_point, current_output_level>>
  /\ UNCHANGED <<m_apu_has_power, regs, channel_on, length_timer, envelope, m_div_apu_counter>>

(* An event of the divider: the envelope at every eighth, then the length at     *)
(* every second.                                                               *)
Louder(peak) == IF peak = Loudest THEN peak ELSE peak + 1
Softer(peak) == IF peak = 0 THEN 0 ELSE peak - 1
EnvelopeEvent(e) ==
  IF e.pace = 0 THEN e
  ELSE IF e.timer # 1 THEN [e EXCEPT !.timer = @ - 1]
  ELSE [e EXCEPT !.timer = e.pace, !.peak = IF e.up THEN Louder(@) ELSE Softer(@)]

DivEvent ==
  LET event  == (m_div_apu_counter + 1) % 8
      counts == event % 2 = 0 /\ regs.length_enabled
      ends   == counts /\ length_timer + 1 = LengthCount
      timer  == IF ~counts THEN length_timer ELSE IF ends THEN 0 ELSE length_timer + 1
  IN /\ m_div_apu_counter' = event
     /\ envelope' = IF event = 0 THEN EnvelopeEvent(envelope) ELSE envelope
     /\ channel_on' = (channel_on /\ ~ends)
     /\ length_timer' = timer
     /\ regs' = IF counts THEN [regs EXCEPT !.length = timer] ELSE regs
     /\ UNCHANGED <<m_apu_has_power, wave>>

(* Writes to the registers; an unpowered unit ignores them.                     *)
WriteLengthDuty(duty, length) ==
  /\ m_apu_has_power
  /\ regs' = [regs EXCEPT !.duty = duty, !.length = length] /\ length_timer' = length
  /\ UNCHANGED <<m_apu_has_power, channel_on, envelope, wave, m_div_apu_counter>>

HasDac(volume) == volume.level # 0 \/ volume.up
WriteVolume(volume) ==
  /\ m_apu_has_power
  /\ regs' = [regs EXCEPT !.volume = volume]
  /\ channel_on' = (channel_on /\ HasDac(volume))
  /\ UNCHANGED <<m_apu_has_power, length_timer, envelope, wave, m_div_apu_counter>>

WritePeriodLow(low) ==
  /\ m_apu_has_power
  /\ regs' = [regs EXCEPT !.period = LowCount * (@ \div LowCount) + low]
  /\ UNCHANGED <<m_apu_has_power, channel_on, length_timer, envelope, wave, m_div_apu_counter>>

(* trigger_pwm_channel.  The level that is heard stays until the next step.      *)
Trigger(r) ==
  /\ channel_on' = HasDac(r.volume)
  /\ sample_point' = 0 /\ counter' = 0
  /\ envelope' = [peak |-> r.volume.level, pace |-> r.volume.pace,
                  timer |-> r.volume.pace, up |-> r.volume.up]
  /\ length_timer' = r.length
  /\ UNCHANGED current_output_level

WriteCtl(high, length_enabled, triggered) ==
  /\ m_apu_has_power
  /\ regs' = [regs EXCEPT !.period = LowCount * high + (@ % LowCount),
                          !.length_enabled = length_enabled]
  /\ IF triggered
     THEN Trigger(regs')
     ELSE UNCHANGED <<channel_on, length_timer, envelope, wave>>
  /\ UNCHANGED <<m_apu_has_power, m_div_apu_counter>>

PowerUp ==
  /\ m_apu_has_power' = TRUE
  /\ UNCHANGED <<regs, channel_on, length_timer, envelope, wave, m_div_apu_counter>>

PowerDown ==
  /\ m_apu_has_power' = FALSE /\ regs' = Cleared
  /\ UNCHANGED <<channel_on, length_timer, envelope, wave, m_div_apu_counter>>

Highs == 0 .. PeriodCount \div LowCount - 1
Retrigger == \E high \in Highs, enabled \in BOOLEAN : WriteCtl(high, enabled, TRUE)
SelectPulse == \E duty \in Duties, length \in 0 .. LengthCount - 1 : WriteLengthDuty(duty, length)

Next ==
  \/ Tick \/ DivEvent \/ PowerUp \/ PowerDown \/ SelectPulse
  \/ \E volume \in Volumes : WriteVolume(volume)
  \/ \E low \in 0 .. LowCount - 1 : WritePeriodLow(low)
  \/ \E high \in Highs, enabled, triggered \in BOOLEAN : WriteCtl(high, enabled, triggered)

Spec == Init /\ [][Next]_vars

(* The counter is clocked as long as the machine runs (clock_to).               *)
FairSpec == Spec /\ WF_vars(Tick)

-----------------------------------------------------------------------------
(* Among the types: no write of the period lets the counter step over the        *)
(* overflow that it is compared with, and levels and timers, unsigned in the     *)
(* program, are not counted below 0 (tick_pulse_channel, envelope_sweep_event). *)
TypeOK ==
  /\ m_apu_has_power \in BOOLEAN /\ channel_on \in BOOLEAN
  /\ regs \in [duty : Duties, length : 0 .. LengthCount - 1, volume : Volumes \cup {Mute},
               period : 0 .. PeriodCount - 1, length_enabled : BOOLEAN]
  /\ length_timer \in 0 .. LengthCount - 1
  /\ envelope \in [peak : 0 .. Loudest, pace : 0 .. 7, timer : 0 .. 7, up : BOOLEAN]
  /\ envelope.timer <= envelope.pace /\ (envelope.pace # 0 => envelope.timer # 0)
  /\ counter \in 0 .. PeriodCount - 1 /\ sample_point \in 0 .. 7
  /\ current_output_level \in 0 .. Loudest /\ m_div_apu_counter \in 0 .. 7

(* A channel whose envelope has a level pulses, between silence and sound: the    *)
(* level that is heard never stays, however the period is changed, unless        *)
(* triggers or changes of the pulse restart or catch it for ever                 *)
(* (tick_pulse_channel, write).                                                *)
Pulses ==
  <>[](channel_on /\ envelope.peak # 0) =>
    \/ []<>(current_output_level = 0) /\ []<>(current_output_level # 0)
    \/ []<><<Retrigger>>_vars \/ []<><<SelectPulse>>_vars

(* A channel that its envelope has faded out falls silent, though the level that  *)
(* is heard is looked up at the steps of the pulse only                          *)
(* (envelope_sweep_event, tick_pulse_channel).                                 *)
FadesOut ==
  <>[](channel_on /\ envelope.peak = 0) =>
    <>[](current_output_level = 0) \/ []<><<Retrigger>>_vars
=============================================================================
