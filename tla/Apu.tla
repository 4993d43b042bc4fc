--------------------------------- MODULE Apu ---------------------------------
(* Channel 1 of the sound unit: libgb/io/apu.cpp.  A program writes registers  *)
(* while every 512th part of a second an event of the divider ages the length, *)
(* the envelope and the frequency sweep, which may switch the channel off and  *)
(* which write registers themselves.  Channel 2 is channel 1 without a sweep.  *)
(* Sample points, duty, panning and the samples are left out: nothing of them  *)
(* comes back to the state below.                                             *)
EXTENDS Integers

CONSTANTS
  PeriodCount,  \* periods, 2^11 in the program
  LowCount,     \* values of the lower period register, 2^8
  LengthCount,  \* length units that a channel counts, 64
  Loudest,      \* highest level of the envelope, 15
  Sweeps,       \* settings of NR10 that the program writes
  Volumes,      \* settings of NR12
  Lengths       \* settings of NR11

ASSUME PeriodAssumption ==
  PeriodCount \in Nat /\ LowCount \in 1 .. PeriodCount /\ PeriodCount % LowCount = 0
ASSUME LengthAssumption == LengthCount \in Nat \ {0} /\ Lengths \subseteq 0 .. LengthCount - 1
ASSUME SettingAssumption ==
  /\ Loudest \in Nat
  /\ Sweeps \subseteq [pace : 0 .. 7, negative : BOOLEAN, step : 0 .. 7]
  /\ Volumes \subseteq [level : 0 .. Loudest, up : BOOLEAN, pace : 0 .. 7]

VARIABLES
  m_apu_has_power,
  regs,          \* registers NR10 to NR14, by the fields they hold
  channel_on,
  length_timer,
  envelope,      \* peak_level, envelope_sweep_pace, _timer and _increases
  sweep,         \* m_channel1_sweep_countdown, _active and _locked_until_trigger
  m_div_apu_counter,
  powerLost      \* history: the unit lost its power since the last trigger

vars == <<m_apu_has_power, regs, channel_on, length_timer, envelope, sweep,
          m_div_apu_counter, powerLost>>
unswept == <<m_apu_has_power, length_timer, envelope, m_div_apu_counter, powerLost>>

NoSweep == [pace |-> 0, negative |-> FALSE, step |-> 0]
Mute == [level |-> 0, up |-> FALSE, pace |-> 0]
Cleared == [sweep |-> NoSweep, length |-> 0, volume |-> Mute, period |-> 0,
            length_enabled |-> FALSE]

Init ==
  /\ m_apu_has_power = FALSE /\ regs = Cleared
  /\ channel_on = FALSE /\ length_timer = 0
  /\ envelope = [peak |-> 0, pace |-> 0, timer |-> 0, up |-> FALSE]
  /\ sweep = [countdown |-> 0, active |-> FALSE, locked |-> FALSE]
  /\ m_div_apu_counter = 0 /\ powerLost = FALSE

(* Initial volume and direction, all 0s: the DAC is off.                      *)
HasDac(volume) == volume.level # 0 \/ volume.up

(* The period that the sweep goes to, and whether that is out of range.       *)
Delta(r) == r.period \div 2 ^ r.sweep.step
SweptPeriod(r) == IF r.sweep.negative THEN r.period - Delta(r) ELSE r.period + Delta(r)
Overflows(r) == ~r.sweep.negative /\ r.period + Delta(r) >= PeriodCount

(* rearm_channel1_sweep: the overflow test comes last and wins.               *)
(* (Slip: the lock is taken for a sweep without steps alone.)                  *)
OverflowsNow(r) == r.sweep.step # 0 /\ Overflows(r)
RearmedUnlocked(r) ==
  [countdown |-> r.sweep.pace,
   active |-> r.sweep.pace # 0 /\ ~OverflowsNow(r),
   locked |-> r.sweep.step = 0]
Rearmed(r) ==
  [countdown |-> r.sweep.pace,
   active |-> r.sweep.pace # 0 /\ ~OverflowsNow(r),
   locked |-> r.sweep.pace # 0 \/ r.sweep.step = 0]

(* Writes to the registers; an unpowered unit ignores them.  (Slip: it        *)
(* accepts them.)                                                             *)
AcceptedAlways == TRUE
Accepted == m_apu_has_power

WriteSweep(s) ==
  /\ Accepted /\ s \in Sweeps
  /\ regs' = [regs EXCEPT !.sweep = s]
  /\ IF sweep.locked
     THEN /\ sweep' = [sweep EXCEPT !.active = @ /\ s.pace # 0]
          /\ UNCHANGED channel_on
     ELSE /\ sweep' = Rearmed(regs')
          /\ channel_on' = (channel_on /\ ~OverflowsNow(regs'))
  /\ UNCHANGED unswept

WriteLength(length) ==
  /\ Accepted
  /\ regs' = [regs EXCEPT !.length = length]
  /\ length_timer' = length
  /\ UNCHANGED <<m_apu_has_power, channel_on, envelope, sweep, m_div_apu_counter, powerLost>>

(* (Slip: the DAC is looked at by a trigger only.)                            *)
MutedByTrigger(volume) == FALSE
Muted(volume) == ~HasDac(volume)
WriteVolume(volume) ==
  /\ Accepted
  /\ regs' = [regs EXCEPT !.volume = volume]
  /\ channel_on' = (channel_on /\ ~Muted(volume))
  /\ UNCHANGED <<sweep, unswept>>

WritePeriodLow(low) ==
  /\ Accepted
  /\ regs' = [regs EXCEPT !.period = LowCount * (@ \div LowCount) + low]
  /\ UNCHANGED <<channel_on, sweep, unswept>>

(* trigger_pwm_channel, with the registers as the write has left them.        *)
Trigger(r) ==
  /\ channel_on' = (HasDac(r.volume) /\ ~OverflowsNow(r))
  /\ sweep' = Rearmed(r)
  /\ envelope' = [peak |-> r.volume.level, pace |-> r.volume.pace,
                  timer |-> r.volume.pace, up |-> r.volume.up]
  /\ length_timer' = r.length
  /\ powerLost' = FALSE

WriteCtl(high, length_enabled, triggered) ==
  /\ Accepted
  /\ regs' = [regs EXCEPT !.period = LowCount * high + (@ % LowCount),
                          !.length_enabled = length_enabled]
  /\ IF triggered
     THEN Trigger(regs')
     ELSE UNCHANGED <<channel_on, sweep, envelope, length_timer, powerLost>>
  /\ UNCHANGED <<m_apu_has_power, m_div_apu_counter>>

(* Writes to NR52.  Losing power clears registers, and nothing else.          *)
PowerUp ==
  /\ m_apu_has_power' = TRUE
  /\ UNCHANGED <<regs, channel_on, length_timer, envelope, sweep,
                 m_div_apu_counter, powerLost>>

PowerDown ==
  /\ m_apu_has_power' = FALSE
  /\ regs' = Cleared /\ powerLost' = TRUE
  /\ UNCHANGED <<channel_on, length_timer, envelope, sweep, m_div_apu_counter>>

(* The three events.  (Slip: the sweep goes on after an overflow.)            *)
EnvelopeEvent(e) ==
  IF e.pace = 0 THEN e
  ELSE IF e.timer # 1 THEN [e EXCEPT !.timer = @ - 1]
  ELSE [e EXCEPT !.timer = e.pace,
                 !.peak = IF e.up THEN IF @ = Loudest THEN @ ELSE @ + 1
                                  ELSE IF @ = 0 THEN @ ELSE @ - 1]

Counts(r) == r.length_enabled
RunsOut(timer) == timer + 1 = LengthCount

(* (Slip: what is left of the length is not written back.)                    *)
KeptBack(r, timer) == r
WrittenBack(r, timer) == [r EXCEPT !.length = timer]

ContinuesAlways(r) == TRUE
Continues(r) == ~Overflows(r)
SweepEvent(isOn, r) ==
  LET s     == [sweep EXCEPT !.countdown = IF @ = 0 THEN 0 ELSE @ - 1]
      fires == s.countdown = 0 /\ s.active
      moved == IF Continues(r) /\ r.sweep.step # 0
               THEN [r EXCEPT !.period = SweptPeriod(r)] ELSE r
  IN CASE ~isOn ->
            sweep' = sweep /\ regs' = r /\ channel_on' = FALSE
       [] isOn /\ ~fires ->
            sweep' = s /\ regs' = r /\ channel_on' = TRUE
       [] isOn /\ fires ->
            /\ regs' = moved
            /\ sweep' = Rearmed(moved)
            /\ channel_on' = (~Overflows(r) /\ ~OverflowsNow(moved))

(* tick_div_apu, when bit 4 of DIV has fallen: the envelope, then the length,  *)
(* then the sweep, each at its own rate.                                      *)
DivEvent ==
  LET counter == (m_div_apu_counter + 1) % 8
      lengthDue == counter % 2 = 0 /\ Counts(regs)
      ends == lengthDue /\ RunsOut(length_timer)
      timer == IF ~lengthDue THEN length_timer
               ELSE IF ends THEN 0 ELSE length_timer + 1
      shown == IF lengthDue THEN WrittenBack(regs, timer) ELSE regs
      isOn == channel_on /\ ~ends
  IN /\ m_div_apu_counter' = counter
     /\ envelope' = IF counter = 0 THEN EnvelopeEvent(envelope) ELSE envelope
     /\ length_timer' = timer
     /\ IF counter % 4 = 0
        THEN SweepEvent(isOn, shown)
        ELSE regs' = shown /\ channel_on' = isOn /\ UNCHANGED sweep
     /\ UNCHANGED <<m_apu_has_power, powerLost>>

Next ==
  \/ DivEvent
  \/ PowerUp \/ PowerDown
  \/ \E s \in Sweeps : WriteSweep(s)
  \/ \E length \in Lengths : WriteLength(length)
  \/ \E volume \in Volumes : WriteVolume(volume)
  \/ \E low \in 0 .. LowCount - 1 : WritePeriodLow(low)
  \/ \E high \in 0 .. PeriodCount \div LowCount - 1, enabled, triggered \in BOOLEAN :
       WriteCtl(high, enabled, triggered)

Spec == Init /\ [][Next]_vars

(* The divider counts as long as the machine is clocked (updateTimers).       *)
FairSpec == Spec /\ WF_vars(DivEvent)

-----------------------------------------------------------------------------
(* Among the types: the sweep stays in the range of the period, as the        *)
(* assertion of write_channel_period demands, and neither the levels nor the   *)
(* timers, unsigned in the program, are counted below 0.                      *)
TypeOK ==
  /\ m_apu_has_power \in BOOLEAN /\ channel_on \in BOOLEAN /\ powerLost \in BOOLEAN
  /\ regs.period \in 0 .. PeriodCount - 1
  /\ regs.sweep \in Sweeps \cup {NoSweep} /\ regs.volume \in Volumes \cup {Mute}
  /\ regs.length \in 0 .. LengthCount - 1 /\ length_timer \in 0 .. LengthCount - 1
  /\ envelope.peak \in 0 .. Loudest
  /\ envelope.pace # 0 => envelope.timer \in 1 .. envelope.pace
  /\ sweep.countdown \in 0 .. 7
  /\ m_div_apu_counter \in 0 .. 7

(* A channel that sounds has its DAC on, for every order of triggers, volumes *)
(* and events: until the power goes, which clears the volume and leaves the    *)
(* channel on (write, trigger_pwm_channel, power_down).                       *)
SoundsThroughDac == channel_on /\ ~powerLost => HasDac(regs.volume)

(* Without power the registers are clear and stay so, though the events of    *)
(* the divider go on and write to them (power_down, tick_div_apu).            *)
UnpoweredIsClear == ~m_apu_has_power => regs = Cleared

(* A sweep that is active is locked, so that a write to NR10 can stop it but  *)
(* never starts its countdown again (write, rearm_channel1_sweep).            *)
ActiveIsLocked == sweep.active => sweep.locked /\ sweep.countdown # 0

(* A channel whose length is enabled falls silent, however often it is        *)
(* triggered again, unless the program goes on loading lengths                *)
(* (sound_length_event, trigger_pwm_channel).                                 *)
LengthEnds ==
  \/ []<><<\E length \in Lengths : WriteLength(length)>>_vars
  \/ []<>~(channel_on /\ regs.length_enabled)
=============================================================================
