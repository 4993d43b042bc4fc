---------------------------- MODULE Sound_proofs ----------------------------
(* Proofs about the sound unit: for all widths of the counters, all settings     *)
(* that the program writes and all batches, its channels keep their types, the    *)
(* safety invariants of channels 1 and 3 hold, and no sample is lost, repeated    *)
(* or taken that is not there.                                                *)
EXTENDS Sound, TLAPS

(* Division and remainder, for every divisor.                                 *)
LEMMA DivMod ==
  ASSUME NEW x \in Int, NEW d \in Nat \ {0}
  PROVE  /\ x \div d \in Int /\ x % d \in 0 .. d - 1
         /\ x = d * (x \div d) + (x % d)
         /\ x \in Nat => x \div d \in Nat
OBVIOUS

(* A smaller multiple is smaller by a whole divisor.                          *)
LEMMA Multiples ==
  ASSUME NEW d \in Nat \ {0}, NEW a \in Int, NEW b \in Int, a < b
  PROVE  d * a + d <= d * b
<1>1. b - a >= 1 /\ b - a \in Int
  OBVIOUS
<1>2. d * (b - a) >= d
  BY <1>1
<1>3. QED BY <1>2

(* The registers of a period hold one part each: no write takes it out of its   *)
(* range.                                                                     *)
LEMMA LowWritten ==
  ASSUME NEW C \in Nat, NEW L \in 1 .. C, C % L = 0,
         NEW period \in 0 .. C - 1, NEW low \in 0 .. L - 1
  PROVE  L * (period \div L) + low \in 0 .. C - 1
<1> DEFINE q == period \div L
           k == C \div L
<1> L \in Nat \ {0} /\ period \in Nat /\ period \in Int /\ C \in Int
  OBVIOUS
<1>1. q \in Nat /\ period % L \in 0 .. L - 1 /\ period = L * q + (period % L)
  BY DivMod, Zenon
<1>2. k \in Nat /\ C = L * k
  BY DivMod
<1>3. L * q \in Nat /\ L * k \in Nat
  BY <1>1, <1>2
<1>4. q < k
  <2>1. CASE k <= q
    <3>1. k = q \/ L * k + L <= L * q
      BY <1>1, <1>2, <2>1, Multiples
    <3>2. QED BY <1>1, <1>2, <1>3, <3>1
  <2>2. QED BY <1>1, <1>2, <2>1
<1>5. L * q + L <= L * k
  BY <1>1, <1>2, <1>4, Multiples
<1>6. QED BY <1>2, <1>3, <1>5

LEMMA HighWritten ==
  ASSUME NEW C \in Nat, NEW L \in 1 .. C, C % L = 0,
         NEW period \in 0 .. C - 1, NEW high \in 0 .. C \div L - 1
  PROVE  L * high + (period % L) \in 0 .. C - 1
<1> DEFINE k == C \div L
<1>1. k \in Nat /\ C = L * k
  BY DivMod
<1>2. period % L \in 0 .. L - 1
  BY DivMod
<1>3. L * high + L <= L * k /\ L * high \in Nat
  BY <1>1, Multiples
<1>4. QED BY <1>1, <1>2, <1>3

(* The powers that a step of the sweep divides by.                            *)
LEMMA Powers == \A n \in 0 .. 7 : 2 ^ n \in Nat \ {0}
<1> TAKE n \in 0 .. 7
<1>1. CASE n = 0
  BY <1>1
<1>2. CASE n = 1
  BY <1>2
<1>3. CASE n = 2
  BY <1>3
<1>4. CASE n = 3
  BY <1>4
<1>5. CASE n = 4
  BY <1>5
<1>6. CASE n = 5
  BY <1>6
<1>7. CASE n = 6
  BY <1>7
<1>8. CASE n = 7
  BY <1>8
<1>9. QED BY <1>1, <1>2, <1>3, <1>4, <1>5, <1>6, <1>7, <1>8

-----------------------------------------------------------------------------
(* The registers are a record of these fields, and the sweep of those: all    *)
(* the typing that the proofs need.                                           *)
IsRegisters(r) ==
  r = [sweep |-> r.sweep, length |-> r.length, volume |-> r.volume,
       period |-> r.period, length_enabled |-> r.length_enabled]
IsSweep(s) == s = [countdown |-> s.countdown, active |-> s.active, locked |-> s.locked]
Shaped == IsRegisters(regs) /\ IsSweep(sweep)

(* A sweep that is armed again is locked if it is active.                     *)
LEMMA RearmedInvariant ==
  ASSUME NEW r, sweep' = Rearmed(r)
  PROVE  IsSweep(sweep') /\ ActiveIsLocked'
BY DEF IsSweep, Rearmed, ActiveIsLocked

(* An event of the sweep changes no register but the period, starts no        *)
(* channel and leaves an active sweep locked and counting.                    *)
LEMMA SweepEventMoves ==
  ASSUME NEW isOn, NEW r, IsRegisters(r), IsSweep(sweep), SweepEvent(isOn, r)
  PROVE  /\ IsRegisters(regs') /\ IsSweep(sweep')
         /\ regs'.volume = r.volume
         /\ channel_on' => isOn
         /\ r.sweep.step = 0 => regs' = r
         /\ ActiveIsLocked => ActiveIsLocked'
<1> DEFINE s == [sweep EXCEPT !.countdown = IF @ = 0 THEN 0 ELSE @ - 1]
           fires == s.countdown = 0 /\ s.active
           moved == IF Continues(r) /\ r.sweep.step # 0
                    THEN [r EXCEPT !.period = SweptPeriod(r)] ELSE r
<1>1. IsRegisters(moved) /\ moved.volume = r.volume /\ (r.sweep.step = 0 => moved = r)
  BY DEF IsRegisters
<1>2. IsSweep(s) /\ s.active = sweep.active /\ s.locked = sweep.locked
  BY DEF IsSweep
<1> HIDE DEF s, fires, moved
<1>3. CASE ~isOn
  BY <1>3 DEF SweepEvent, ActiveIsLocked
<1>4. CASE isOn /\ ~fires
  <2>1. sweep' = s /\ regs' = r /\ channel_on' = TRUE
    BY <1>4 DEF SweepEvent, s, fires
  <2>2. QED BY <1>2, <1>4, <2>1 DEF ActiveIsLocked, fires
<1>5. CASE isOn /\ fires
  <2>1. regs' = moved /\ sweep' = Rearmed(moved)
    BY <1>5 DEF SweepEvent, s, fires, moved
  <2>2. IsSweep(Rearmed(moved)) /\ ActiveIsLocked'
    BY <2>1, RearmedInvariant
  <2>3. QED BY <1>1, <1>5, <2>1, <2>2
<1>6. QED BY <1>3, <1>4, <1>5

(* What an event of the divider may do to the registers and the channel.      *)
LEMMA DivEventMoves ==
  ASSUME Shaped, DivEvent
  PROVE  /\ Shaped'
         /\ m_apu_has_power' = m_apu_has_power /\ powerLost' = powerLost
         /\ regs'.volume = regs.volume
         /\ channel_on' => channel_on
         /\ ~regs.length_enabled /\ regs.sweep.step = 0 => regs' = regs
         /\ ActiveIsLocked => ActiveIsLocked'
<1> DEFINE counter == (m_div_apu_counter + 1) % 8
           counts == counter % 2 = 0 /\ Counts(regs)
           ends == counts /\ RunsOut(length_timer)
           timer == IF ~counts THEN length_timer
                    ELSE IF ends THEN 0 ELSE length_timer + 1
           shown == IF counts THEN WrittenBack(regs, timer) ELSE regs
           isOn == channel_on /\ ~ends
<1>1. /\ IsRegisters(shown) /\ shown.volume = regs.volume /\ shown.sweep = regs.sweep
      /\ ~regs.length_enabled => shown = regs
  BY DEF Shaped, IsRegisters, Counts, WrittenBack
<1>2. isOn => channel_on
  OBVIOUS
<1> HIDE DEF counter, counts, ends, timer, shown, isOn
<1>3. /\ m_apu_has_power' = m_apu_has_power /\ powerLost' = powerLost
      /\ IF counter % 4 = 0 THEN SweepEvent(isOn, shown)
         ELSE regs' = shown /\ channel_on' = isOn /\ UNCHANGED sweep
  BY DEF DivEvent, counter, counts, ends, timer, shown, isOn
<1>4. CASE counter % 4 = 0
  BY <1>1, <1>2, <1>3, <1>4, SweepEventMoves DEF Shaped
<1>5. CASE counter % 4 # 0
  BY <1>1, <1>2, <1>3, <1>5 DEF Shaped, ActiveIsLocked
<1>6. QED BY <1>4, <1>5

Invariant == Shaped /\ SoundsThroughDac /\ UnpoweredIsClear /\ ActiveIsLocked

(* A trigger locks an active sweep and sounds through the DAC alone.          *)
LEMMA TriggerInvariant ==
  ASSUME NEW r, Trigger(r)
  PROVE  /\ IsSweep(sweep')
         /\ channel_on' => HasDac(r.volume)
         /\ ActiveIsLocked'
BY DEF Trigger, IsSweep, Rearmed, ActiveIsLocked

LEMMA InvariantStep == Invariant /\ [Next]_vars => Invariant'
<1> SUFFICES ASSUME Invariant, [Next]_vars PROVE Invariant'
  OBVIOUS
<1> USE DEF Invariant
<1>1. CASE DivEvent
  <2>1. Shaped' /\ ActiveIsLocked'
    BY <1>1, DivEventMoves
  <2>2. SoundsThroughDac'
    BY <1>1, DivEventMoves DEF SoundsThroughDac
  <2>3. UnpoweredIsClear'
    BY <1>1, DivEventMoves DEF UnpoweredIsClear, Cleared, NoSweep
  <2>4. QED BY <2>1, <2>2, <2>3
<1>2. CASE PowerUp
  BY <1>2 DEF PowerUp, Shaped, SoundsThroughDac, UnpoweredIsClear, ActiveIsLocked
<1>3. CASE PowerDown
  BY <1>3 DEF PowerDown, Shaped, IsRegisters, Cleared, SoundsThroughDac, UnpoweredIsClear,
              ActiveIsLocked
<1>4. ASSUME NEW s \in Sweeps, WriteSweep(s) PROVE Invariant'
  <2>1. /\ regs' = [regs EXCEPT !.sweep = s] /\ m_apu_has_power'
        /\ powerLost' = powerLost /\ (channel_on' => channel_on)
    BY <1>4 DEF Accepted, WriteSweep, unswept, UnpoweredIsClear
  <2>2. IsRegisters(regs') /\ regs'.volume = regs.volume
    BY <2>1 DEF Shaped, IsRegisters
  <2>3. IsSweep(sweep') /\ ActiveIsLocked'
    <3>1. CASE sweep.locked
      <4>1. sweep' = [sweep EXCEPT !.active = @ /\ s.pace # 0]
        BY <1>4, <3>1 DEF Accepted, WriteSweep
      <4>2. /\ IsSweep(sweep') /\ sweep'.countdown = sweep.countdown
            /\ sweep'.locked = sweep.locked
            /\ sweep'.active = (sweep.active /\ s.pace # 0)
        BY <4>1 DEF Shaped, IsSweep
      <4>3. QED BY <3>1, <4>2 DEF ActiveIsLocked
    <3>2. CASE ~sweep.locked
      <4>1. sweep' = Rearmed(regs')
        BY <1>4, <3>2 DEF Accepted, WriteSweep
      <4>2. QED BY <4>1, RearmedInvariant
    <3>3. QED BY <3>1, <3>2
  <2>4. QED BY <2>1, <2>2, <2>3 DEF Shaped, SoundsThroughDac, UnpoweredIsClear
<1>5. ASSUME NEW length \in Lengths, WriteLength(length) PROVE Invariant'
  BY <1>5 DEF WriteLength, Accepted, Shaped, IsRegisters, SoundsThroughDac, UnpoweredIsClear,
              ActiveIsLocked
<1>6. ASSUME NEW volume \in Volumes, WriteVolume(volume) PROVE Invariant'
  BY <1>6 DEF Accepted, WriteVolume, unswept, Muted, Shaped, IsRegisters, SoundsThroughDac,
              UnpoweredIsClear, ActiveIsLocked
<1>7. ASSUME NEW low \in 0 .. LowCount - 1, WritePeriodLow(low) PROVE Invariant'
  BY <1>7 DEF Accepted, WritePeriodLow, unswept, Shaped, IsRegisters, SoundsThroughDac,
              UnpoweredIsClear, ActiveIsLocked
<1>8. ASSUME NEW high \in 0 .. PeriodCount \div LowCount - 1,
             NEW enabled \in BOOLEAN, NEW triggered \in BOOLEAN,
             WriteCtl(high, enabled, triggered)
      PROVE  Invariant'
  <2>1. /\ IsRegisters(regs') /\ regs'.volume = regs.volume
        /\ m_apu_has_power' = m_apu_has_power /\ m_apu_has_power
    BY <1>8 DEF Accepted, WriteCtl, Shaped, IsRegisters
  <2>2. CASE triggered
    <3>1. Trigger(regs')
      BY <1>8, <2>2 DEF Accepted, WriteCtl
    <3>2. IsSweep(sweep') /\ (channel_on' => HasDac(regs'.volume)) /\ ActiveIsLocked'
      BY <3>1, TriggerInvariant
    <3>3. QED BY <2>1, <3>2 DEF Shaped, SoundsThroughDac, UnpoweredIsClear
  <2>3. CASE ~triggered
    BY <1>8, <2>1, <2>3 DEF Accepted, WriteCtl, Shaped, SoundsThroughDac, UnpoweredIsClear, ActiveIsLocked
  <2>4. QED BY <2>2, <2>3
<1>9. CASE UNCHANGED vars
  BY <1>9 DEF vars, Shaped, SoundsThroughDac, UnpoweredIsClear, ActiveIsLocked
<1>10. QED
  BY <1>1, <1>2, <1>3, <1>4, <1>5, <1>6, <1>7, <1>8, <1>9 DEF Next

(* What the registers, the sweep and the envelope of channel 1 may hold.        *)
Registers ==
  [sweep : Sweeps \cup {NoSweep}, length : 0 .. LengthCount - 1,
   volume : Volumes \cup {Mute}, period : 0 .. PeriodCount - 1, length_enabled : BOOLEAN]
Envelope == [peak : 0 .. Loudest, pace : 0 .. 7, timer : 0 .. 7, up : BOOLEAN]
Running(e) == e.pace # 0 => e.timer \in 1 .. e.pace
Typed ==
  /\ m_apu_has_power \in BOOLEAN /\ channel_on \in BOOLEAN /\ powerLost \in BOOLEAN
  /\ regs \in Registers /\ length_timer \in 0 .. LengthCount - 1
  /\ envelope \in Envelope /\ Running(envelope)
  /\ sweep \in [countdown : 0 .. 7, active : BOOLEAN, locked : BOOLEAN]
  /\ m_div_apu_counter \in 0 .. 7

LEMMA Settings ==
  /\ Sweeps \cup {NoSweep} \subseteq [pace : 0 .. 7, negative : BOOLEAN, step : 0 .. 7]
  /\ Volumes \cup {Mute} \subseteq [level : 0 .. Loudest, up : BOOLEAN, pace : 0 .. 7]
  /\ 0 \in 0 .. LengthCount - 1 /\ 0 \in 0 .. PeriodCount - 1
<1>1. /\ NoSweep \in [pace : 0 .. 7, negative : BOOLEAN, step : 0 .. 7]
      /\ Loudest \in Nat => Mute \in [level : 0 .. Loudest, up : BOOLEAN, pace : 0 .. 7]
  BY DEF NoSweep, Mute
<1>2. 0 \in 0 .. LengthCount - 1 /\ 0 \in 0 .. PeriodCount - 1
  BY LengthAssumption, PeriodAssumption
<1>3. QED BY <1>1, <1>2, SettingAssumption

LEMMA TypedIsTypeOK == Typed => TypeOK
<1> SUFFICES ASSUME Typed PROVE TypeOK
  OBVIOUS
<1>1. QED BY DEF Typed, TypeOK, Registers, Envelope, Running

(* The sweep goes to a period in range, unless it overflows.                   *)
LEMMA SweptInRange ==
  ASSUME NEW r \in Registers, Continues(r)
  PROVE  SweptPeriod(r) \in 0 .. PeriodCount - 1
<1> DEFINE p == r.period
           n == 2 ^ r.sweep.step
           d == p \div n
<1>1. p \in 0 .. PeriodCount - 1 /\ r.sweep.step \in 0 .. 7 /\ PeriodCount \in Nat
  BY Settings, PeriodAssumption DEF Registers
<1>2. n \in Nat \ {0}
  BY <1>1, Powers
<1> HIDE DEF n
<1>3. d \in Nat /\ p % n \in 0 .. n - 1 /\ p = n * d + (p % n)
  <2>1. p \in Int /\ p \in Nat
    BY <1>1
  <2>2. QED BY <1>2, <2>1, DivMod, Zenon
<1> HIDE DEF p, d
<1>4. d <= p
  <2>1. n * d >= d /\ n * d \in Nat
    BY <1>2, <1>3
  <2>2. QED BY <1>1, <1>2, <1>3, <2>1
<1>5. Delta(r) = d
  BY DEF Delta, n, d, p
<1>6. CASE r.sweep.negative
  BY <1>1, <1>3, <1>4, <1>5, <1>6 DEF SweptPeriod, p
<1>7. CASE ~r.sweep.negative
  BY <1>1, <1>3, <1>5, <1>7 DEF SweptPeriod, Continues, Overflows, p
<1>8. QED BY <1>6, <1>7

LEMMA RearmedType ==
  ASSUME NEW r \in Registers
  PROVE  Rearmed(r) \in [countdown : 0 .. 7, active : BOOLEAN, locked : BOOLEAN]
<1>1. r.sweep.pace \in 0 .. 7
  BY Settings DEF Registers
<1>2. QED BY <1>1 DEF Rearmed

LEMMA SweepEventType ==
  ASSUME NEW isOn \in BOOLEAN, NEW r \in Registers,
         sweep \in [countdown : 0 .. 7, active : BOOLEAN, locked : BOOLEAN],
         SweepEvent(isOn, r)
  PROVE  /\ regs' \in Registers /\ channel_on' \in BOOLEAN
         /\ sweep' \in [countdown : 0 .. 7, active : BOOLEAN, locked : BOOLEAN]
<1> DEFINE s == [sweep EXCEPT !.countdown = IF @ = 0 THEN 0 ELSE @ - 1]
           fires == s.countdown = 0 /\ s.active
           moved == IF Continues(r) /\ r.sweep.step # 0
                    THEN [r EXCEPT !.period = SweptPeriod(r)] ELSE r
<1>1. s \in [countdown : 0 .. 7, active : BOOLEAN, locked : BOOLEAN]
  OBVIOUS
<1>2. moved \in Registers
  BY SweptInRange DEF Registers
<1>3. Rearmed(moved) \in [countdown : 0 .. 7, active : BOOLEAN, locked : BOOLEAN]
  BY <1>2, RearmedType
<1>4. \/ sweep' = sweep /\ regs' = r /\ channel_on' = FALSE
      \/ sweep' = s /\ regs' = r /\ channel_on' = TRUE
      \/ /\ regs' = moved /\ sweep' = Rearmed(moved)
         /\ channel_on' = (~Overflows(r) /\ ~OverflowsNow(moved))
  BY DEF SweepEvent
<1> HIDE DEF s, fires, moved
<1>5. QED BY <1>1, <1>2, <1>3, <1>4

LEMMA EnvelopeEventType ==
  ASSUME NEW e \in Envelope, Running(e)
  PROVE  EnvelopeEvent(e) \in Envelope /\ Running(EnvelopeEvent(e))
<1>1. Loudest \in Nat
  BY SettingAssumption
<1>2. CASE e.pace = 0
  BY <1>2 DEF EnvelopeEvent
<1>3. CASE e.pace # 0 /\ e.timer # 1
  BY <1>1, <1>3 DEF EnvelopeEvent, Envelope, Running
<1>4. CASE e.pace # 0 /\ e.timer = 1
  <2> DEFINE peak == IF e.up THEN IF e.peak = Loudest THEN e.peak ELSE e.peak + 1
                             ELSE IF e.peak = 0 THEN e.peak ELSE e.peak - 1
  <2>1. peak \in 0 .. Loudest /\ e.pace \in 1 .. 7
    BY <1>1, <1>4 DEF Envelope
  <2>2. EnvelopeEvent(e) = [peak |-> peak, pace |-> e.pace, timer |-> e.pace, up |-> e.up]
    BY <1>4 DEF EnvelopeEvent, Envelope
  <2>3. e.up \in BOOLEAN /\ e.pace \in 0 .. 7
    BY DEF Envelope
  <2> HIDE DEF peak
  <2>4. QED BY <2>1, <2>2, <2>3 DEF Envelope, Running
<1>5. QED BY <1>2, <1>3, <1>4

LEMMA DivEventType ==
  ASSUME Typed, DivEvent
  PROVE  Typed'
<1> DEFINE counter == (m_div_apu_counter + 1) % 8
           counts == counter % 2 = 0 /\ Counts(regs)
           ends == counts /\ RunsOut(length_timer)
           timer == IF ~counts THEN length_timer
                    ELSE IF ends THEN 0 ELSE length_timer + 1
           shown == IF counts THEN WrittenBack(regs, timer) ELSE regs
           isOn == channel_on /\ ~ends
<1>1. timer \in 0 .. LengthCount - 1
  BY LengthAssumption DEF Typed, RunsOut
<1>2. shown \in Registers
  BY <1>1 DEF Typed, Registers, WrittenBack
<1>3. isOn \in BOOLEAN /\ counter \in 0 .. 7
  BY DEF Typed
<1>4. /\ m_apu_has_power' = m_apu_has_power /\ powerLost' = powerLost
      /\ m_div_apu_counter' = counter /\ length_timer' = timer
      /\ envelope' = IF counter = 0 THEN EnvelopeEvent(envelope) ELSE envelope
      /\ \/ SweepEvent(isOn, shown)
         \/ regs' = shown /\ channel_on' = isOn /\ sweep' = sweep
  BY DEF DivEvent
<1> HIDE DEF counter, counts, ends, timer, shown, isOn
<1>5. envelope' \in Envelope /\ Running(envelope')
  BY <1>4, EnvelopeEventType DEF Typed
<1>6. /\ regs' \in Registers /\ channel_on' \in BOOLEAN
      /\ sweep' \in [countdown : 0 .. 7, active : BOOLEAN, locked : BOOLEAN]
  <2>1. CASE SweepEvent(isOn, shown)
    BY <1>2, <1>3, <2>1, SweepEventType DEF Typed
  <2>2. CASE regs' = shown /\ channel_on' = isOn /\ sweep' = sweep
    BY <1>2, <1>3, <2>2 DEF Typed
  <2>3. QED BY <1>4, <2>1, <2>2
<1>7. QED BY <1>1, <1>3, <1>4, <1>5, <1>6 DEF Typed

LEMMA TriggerType ==
  ASSUME NEW r \in Registers, Trigger(r)
  PROVE  /\ channel_on' \in BOOLEAN /\ powerLost' \in BOOLEAN
         /\ sweep' \in [countdown : 0 .. 7, active : BOOLEAN, locked : BOOLEAN]
         /\ envelope' \in Envelope /\ Running(envelope')
         /\ length_timer' \in 0 .. LengthCount - 1
<1>1. sweep' \in [countdown : 0 .. 7, active : BOOLEAN, locked : BOOLEAN]
  BY RearmedType DEF Trigger
<1>2. r.volume \in [level : 0 .. Loudest, up : BOOLEAN, pace : 0 .. 7]
  BY Settings DEF Registers
<1>3. envelope' \in Envelope /\ Running(envelope')
  BY <1>2 DEF Trigger, Envelope, Running
<1>4. r.length \in 0 .. LengthCount - 1
  BY DEF Registers
<1>5. QED BY <1>1, <1>3, <1>4 DEF Trigger

LEMMA TypedStep == Typed /\ [Next]_vars => Typed'
<1> SUFFICES ASSUME Typed, [Next]_vars PROVE Typed'
  OBVIOUS
<1>1. CASE DivEvent
  BY <1>1, DivEventType
<1>2. CASE PowerUp
  BY <1>2 DEF PowerUp, Typed
<1>3. CASE PowerDown
  <2>1. Cleared \in Registers
    BY Settings DEF Cleared, Registers
  <2>2. QED BY <1>3, <2>1 DEF PowerDown, Typed
<1>4. ASSUME NEW s \in Sweeps, WriteSweep(s) PROVE Typed'
  <2>1. /\ regs' = [regs EXCEPT !.sweep = s]
        /\ UNCHANGED unswept
        /\ \/ sweep' = [sweep EXCEPT !.active = @ /\ s.pace # 0] /\ channel_on' = channel_on
           \/ sweep' = Rearmed(regs') /\ channel_on' = (channel_on /\ ~OverflowsNow(regs'))
    BY <1>4 DEF WriteSweep
  <2>2. regs' \in Registers
    BY <2>1 DEF Typed, Registers
  <2>3. /\ channel_on' \in BOOLEAN
        /\ sweep' \in [countdown : 0 .. 7, active : BOOLEAN, locked : BOOLEAN]
    BY <2>1, <2>2, RearmedType DEF Typed
  <2>4. QED BY <2>1, <2>2, <2>3 DEF Typed, unswept
<1>5. ASSUME NEW length \in Lengths, WriteLength(length) PROVE Typed'
  <2>1. length \in 0 .. LengthCount - 1
    BY LengthAssumption
  <2>2. regs' \in Registers
    BY <1>5, <2>1 DEF WriteLength, Typed, Registers
  <2>3. QED BY <1>5, <2>1, <2>2 DEF WriteLength, Typed
<1>6. ASSUME NEW volume \in Volumes, WriteVolume(volume) PROVE Typed'
  <2>1. regs' \in Registers
    BY <1>6 DEF WriteVolume, Typed, Registers
  <2>2. QED BY <1>6, <2>1 DEF WriteVolume, unswept, Typed
<1>7. ASSUME NEW low \in 0 .. LowCount - 1, WritePeriodLow(low) PROVE Typed'
  <2>1. regs.period \in 0 .. PeriodCount - 1
    BY DEF Typed, Registers
  <2>2. LowCount * (regs.period \div LowCount) + low \in 0 .. PeriodCount - 1
    BY <2>1, LowWritten, PeriodAssumption
  <2>3. regs' \in Registers
    BY <1>7, <2>2 DEF WritePeriodLow, Typed, Registers
  <2>4. QED BY <1>7, <2>3 DEF WritePeriodLow, unswept, Typed
<1>8. ASSUME NEW high \in 0 .. PeriodCount \div LowCount - 1,
             NEW enabled \in BOOLEAN, NEW triggered \in BOOLEAN,
             WriteCtl(high, enabled, triggered)
      PROVE  Typed'
  <2>1. regs.period \in 0 .. PeriodCount - 1
    BY DEF Typed, Registers
  <2>2. LowCount * high + (regs.period % LowCount) \in 0 .. PeriodCount - 1
    BY <2>1, HighWritten, PeriodAssumption
  <2>3. regs' \in Registers
    BY <1>8, <2>2 DEF WriteCtl, Typed, Registers
  <2>4. CASE triggered
    <3>1. Trigger(regs')
      BY <1>8, <2>4 DEF WriteCtl
    <3>2. QED BY <1>8, <2>3, <3>1, TriggerType DEF WriteCtl, Typed
  <2>5. CASE ~triggered
    BY <1>8, <2>3, <2>5 DEF WriteCtl, Typed
  <2>6. QED BY <2>4, <2>5
<1>9. CASE UNCHANGED vars
  BY <1>9 DEF vars, Typed
<1>10. QED
  BY <1>1, <1>2, <1>3, <1>4, <1>5, <1>6, <1>7, <1>8, <1>9 DEF Next

LEMMA TypedInit == Init => Typed
<1> SUFFICES ASSUME Init PROVE Typed
  OBVIOUS
<1>1. Cleared \in Registers
  BY Settings DEF Cleared, Registers
<1>2. envelope \in Envelope /\ Running(envelope)
  BY SettingAssumption DEF Init, Envelope, Running
<1>3. sweep \in [countdown : 0 .. 7, active : BOOLEAN, locked : BOOLEAN]
  BY DEF Init
<1>4. QED BY <1>1, <1>2, <1>3, Settings DEF Init, Typed

-----------------------------------------------------------------------------
(* Channels 1 to 4 and the samples act side by side.                           *)
sound == <<unit, vars, pulseVars, waveVars, noiseVars, audioVars>>
LEMMA Moves ==
  ASSUME [SoundNext]_sound
  PROVE  /\ [Next]_vars /\ [Pulse!Next]_Pulse!vars /\ [Wave!Next]_Wave!vars
         /\ [Noise!Next]_Noise!vars /\ [Audio!Next]_Audio!vars
BY DEF SoundNext, sound, pulseVars, waveVars, noiseVars, audioVars,
       Pulse!vars, Wave!vars, Noise!vars, Noise!regs, Audio!vars

LEMMA InitParts ==
  SoundInit => Init /\ Pulse!Init /\ Wave!Init /\ Noise!Init /\ Audio!Init
BY DEF SoundInit

LEMMA Unfold == SoundSpec => SoundInit /\ [][SoundNext]_sound
BY DEF SoundSpec, sound

-----------------------------------------------------------------------------
(* Channel 2.                                                                 *)
LEMMA PulseSettings ==
  /\ Volumes \cup {Pulse!Mute} \subseteq [level : 0 .. Loudest, up : BOOLEAN, pace : 0 .. 7]
  /\ Loudest \in Nat /\ LengthCount \in Nat \ {0} /\ 0 \in Duties
  /\ PulsePeriods \in Nat /\ PulseLows \in 1 .. PulsePeriods /\ PulsePeriods % PulseLows = 0
<1>1. Loudest \in Nat => Pulse!Mute \in [level : 0 .. Loudest, up : BOOLEAN, pace : 0 .. 7]
  BY DEF Pulse!Mute
<1>2. QED
  BY <1>1, ChannelAssumptions DEF Pulse!PeriodAssumption, Pulse!SettingAssumption

PulseRegisters ==
  [duty : Duties, length : 0 .. LengthCount - 1, volume : Volumes \cup {Pulse!Mute},
   period : 0 .. PulsePeriods - 1, length_enabled : BOOLEAN]
PulseRunning(e) == e.timer <= e.pace /\ (e.pace # 0 => e.timer # 0)

LEMMA PulseCleared == Pulse!Cleared \in PulseRegisters
<1>1. 0 \in 0 .. LengthCount - 1 /\ 0 \in 0 .. PulsePeriods - 1
  BY PulseSettings
<1>2. QED BY <1>1, PulseSettings DEF Pulse!Cleared, PulseRegisters

LEMMA PulseEnvelope ==
  ASSUME NEW e \in Envelope, PulseRunning(e)
  PROVE  Pulse!EnvelopeEvent(e) \in Envelope /\ PulseRunning(Pulse!EnvelopeEvent(e))
<1> DEFINE peak == IF e.up THEN Pulse!Louder(e.peak) ELSE Pulse!Softer(e.peak)
<1>1. CASE e.pace = 0
  BY <1>1 DEF Pulse!EnvelopeEvent
<1>2. CASE e.pace # 0 /\ e.timer # 1
  BY <1>2 DEF Pulse!EnvelopeEvent, Envelope, PulseRunning
<1>3. CASE e.pace # 0 /\ e.timer = 1
  <2>1. peak \in 0 .. Loudest
    BY PulseSettings DEF Pulse!Louder, Pulse!Softer, Envelope
  <2>2. Pulse!EnvelopeEvent(e)
          = [peak |-> peak, pace |-> e.pace, timer |-> e.pace, up |-> e.up]
    BY <1>3 DEF Pulse!EnvelopeEvent, Envelope
  <2>3. e.up \in BOOLEAN /\ e.pace \in 0 .. 7
    BY DEF Envelope
  <2> HIDE DEF peak
  <2>4. QED BY <1>3, <2>1, <2>2, <2>3 DEF Envelope, PulseRunning
<1>4. QED BY <1>1, <1>2, <1>3

LEMMA PulseTick == Pulse!TypeOK /\ Pulse!Tick => Pulse!TypeOK'
<1> SUFFICES ASSUME Pulse!TypeOK, Pulse!Tick PROVE Pulse!TypeOK'
  OBVIOUS
<1>1. pulseRegs.period \in 0 .. PulsePeriods - 1 /\ pulseEnvelope.peak \in 0 .. Loudest
  BY DEF Pulse!TypeOK
<1>2. /\ pulseCounter' \in 0 .. PulsePeriods - 1 /\ pulsePoint' \in 0 .. 7
      /\ current_output_level' \in 0 .. Loudest
  <2>1. CASE pulseCounter + 1 = PulsePeriods
    BY <1>1, <2>1, PulseSettings DEF Pulse!Tick, Pulse!Reloaded, Pulse!Heard, Pulse!TypeOK
  <2>2. CASE pulseCounter + 1 # PulsePeriods
    BY <2>2, PulseSettings DEF Pulse!Tick, Pulse!TypeOK
  <2>3. QED BY <2>1, <2>2
<1>3. QED BY <1>2 DEF Pulse!Tick, Pulse!TypeOK

LEMMA PulseDivEvent == Pulse!TypeOK /\ Pulse!DivEvent => Pulse!TypeOK'
<1> SUFFICES ASSUME Pulse!TypeOK, Pulse!DivEvent PROVE Pulse!TypeOK'
  OBVIOUS
<1> DEFINE event == (pulseEvents + 1) % 8
           counts == event % 2 = 0 /\ pulseRegs.length_enabled
           ends == counts /\ pulseLength + 1 = LengthCount
           timer == IF ~counts THEN pulseLength ELSE IF ends THEN 0 ELSE pulseLength + 1
<1>1. timer \in 0 .. LengthCount - 1 /\ event \in 0 .. 7
  BY PulseSettings DEF Pulse!TypeOK
<1>2. /\ pulseEvents' = event /\ pulseLength' = timer
      /\ pulseEnvelope' = IF event = 0 THEN Pulse!EnvelopeEvent(pulseEnvelope)
                                       ELSE pulseEnvelope
      /\ pulseOn' = (pulseOn /\ ~ends)
      /\ pulseRegs' = IF counts THEN [pulseRegs EXCEPT !.length = timer] ELSE pulseRegs
      /\ UNCHANGED <<pulsePower, pulseCounter, pulsePoint, current_output_level>>
  BY DEF Pulse!DivEvent, Pulse!wave
<1> HIDE DEF event, counts, ends, timer
<1>3. pulseRegs' \in PulseRegisters
  BY <1>1, <1>2 DEF Pulse!TypeOK, PulseRegisters
<1>4. pulseEnvelope' \in Envelope /\ PulseRunning(pulseEnvelope')
  BY <1>2, PulseEnvelope DEF Pulse!TypeOK, Envelope, PulseRunning
<1>5. QED BY <1>1, <1>2, <1>3, <1>4 DEF Pulse!TypeOK, Envelope, PulseRegisters, PulseRunning

LEMMA PulseWriteCtl ==
  ASSUME Pulse!TypeOK, NEW high \in Pulse!Highs, NEW enabled \in BOOLEAN,
         NEW triggered \in BOOLEAN, Pulse!WriteCtl(high, enabled, triggered)
  PROVE  Pulse!TypeOK'
<1>1. pulseRegs.period \in 0 .. PulsePeriods - 1
  BY DEF Pulse!TypeOK
<1>2. PulseLows * high + (pulseRegs.period % PulseLows) \in 0 .. PulsePeriods - 1
  BY <1>1, HighWritten, PulseSettings DEF Pulse!Highs
<1>3. pulseRegs' \in PulseRegisters
  BY <1>2 DEF Pulse!WriteCtl, Pulse!TypeOK, PulseRegisters
<1>4. CASE triggered
  <2>1. Pulse!Trigger(pulseRegs')
    BY <1>4 DEF Pulse!WriteCtl
  <2>2. pulseRegs'.volume \in [level : 0 .. Loudest, up : BOOLEAN, pace : 0 .. 7]
    BY <1>3, PulseSettings DEF PulseRegisters
  <2>3. pulseEnvelope' \in Envelope /\ PulseRunning(pulseEnvelope')
    BY <2>1, <2>2 DEF Pulse!Trigger, Envelope, PulseRunning
  <2>4. pulseLength' \in 0 .. LengthCount - 1
    BY <1>3, <2>1 DEF Pulse!Trigger, PulseRegisters
  <2>5. pulseOn' \in BOOLEAN
    BY <2>1, <2>2 DEF Pulse!Trigger, Pulse!HasDac
  <2>6. 0 \in 0 .. PulsePeriods - 1
    BY PulseSettings
  <2>7. /\ pulseCounter' = 0 /\ pulsePoint' = 0
        /\ UNCHANGED <<pulsePower, current_output_level, pulseEvents>>
    BY <2>1 DEF Pulse!Trigger, Pulse!WriteCtl
  <2>8. QED
    BY <1>3, <2>3, <2>4, <2>5, <2>6, <2>7
    DEF Pulse!TypeOK, Envelope, PulseRegisters, PulseRunning
<1>5. CASE ~triggered
  BY <1>3, <1>5 DEF Pulse!WriteCtl, Pulse!wave, Pulse!TypeOK, PulseRegisters
<1>6. QED BY <1>4, <1>5

LEMMA PulseStep == Pulse!TypeOK /\ [Pulse!Next]_Pulse!vars => Pulse!TypeOK'
<1> SUFFICES ASSUME Pulse!TypeOK, [Pulse!Next]_Pulse!vars PROVE Pulse!TypeOK'
  OBVIOUS
<1> USE DEF Pulse!wave
<1>1. CASE Pulse!Tick
  BY <1>1, PulseTick
<1>2. CASE Pulse!DivEvent
  BY <1>2, PulseDivEvent
<1>3. CASE Pulse!PowerUp
  BY <1>3 DEF Pulse!PowerUp, Pulse!TypeOK
<1>4. CASE Pulse!PowerDown
  BY <1>4, PulseCleared DEF Pulse!PowerDown, Pulse!TypeOK, PulseRegisters
<1>5. CASE Pulse!SelectPulse
  <2>1. PICK duty \in Duties, length \in 0 .. LengthCount - 1 :
          Pulse!WriteLengthDuty(duty, length)
    BY <1>5 DEF Pulse!SelectPulse
  <2>2. QED BY <2>1 DEF Pulse!WriteLengthDuty, Pulse!TypeOK
<1>6. ASSUME NEW volume \in Volumes, Pulse!WriteVolume(volume) PROVE Pulse!TypeOK'
  BY <1>6 DEF Pulse!WriteVolume, Pulse!TypeOK
<1>7. ASSUME NEW low \in 0 .. PulseLows - 1, Pulse!WritePeriodLow(low) PROVE Pulse!TypeOK'
  <2>1. pulseRegs.period \in 0 .. PulsePeriods - 1
    BY DEF Pulse!TypeOK
  <2>2. PulseLows * (pulseRegs.period \div PulseLows) + low \in 0 .. PulsePeriods - 1
    BY <2>1, LowWritten, PulseSettings
  <2>3. QED BY <1>7, <2>2 DEF Pulse!WritePeriodLow, Pulse!TypeOK
<1>8. ASSUME NEW high \in Pulse!Highs, NEW enabled \in BOOLEAN, NEW triggered \in BOOLEAN,
             Pulse!WriteCtl(high, enabled, triggered)
      PROVE  Pulse!TypeOK'
  BY <1>8, PulseWriteCtl
<1>9. CASE UNCHANGED Pulse!vars
  BY <1>9 DEF Pulse!vars, Pulse!TypeOK
<1>10. QED
  BY <1>1, <1>2, <1>3, <1>4, <1>5, <1>6, <1>7, <1>8, <1>9 DEF Pulse!Next

LEMMA PulseInit == Pulse!Init => Pulse!TypeOK
<1> SUFFICES ASSUME Pulse!Init PROVE Pulse!TypeOK
  OBVIOUS
<1>1. /\ 0 \in 0 .. LengthCount - 1 /\ 0 \in 0 .. PulsePeriods - 1 /\ 0 \in 0 .. Loudest
  BY PulseSettings
<1>2. /\ pulseEnvelope \in Envelope
      /\ pulseEnvelope.timer <= pulseEnvelope.pace
      /\ pulseEnvelope.pace # 0 => pulseEnvelope.timer # 0
  BY <1>1 DEF Pulse!Init, Envelope
<1>3. pulseRegs \in PulseRegisters
  BY PulseCleared DEF Pulse!Init
<1>4. QED BY <1>1, <1>2, <1>3 DEF Pulse!Init, Pulse!TypeOK, PulseRegisters, Envelope

-----------------------------------------------------------------------------
(* Channel 3.                                                                 *)
LEMMA WaveSettings ==
  /\ WaveLengths \in Nat \ {0} /\ SampleCount \in Nat \ {0} /\ 0 \in WaveVolumes
  /\ WavePeriods \in Nat /\ WaveLows \in 1 .. WavePeriods /\ WavePeriods % WaveLows = 0
BY ChannelAssumptions DEF Wave!PeriodAssumption, Wave!CountAssumption

WaveRegisters ==
  [dac : BOOLEAN, length : 0 .. WaveLengths - 1, volume : WaveVolumes,
   period : 0 .. WavePeriods - 1, length_enabled : BOOLEAN]

LEMMA WaveCleared == Wave!Cleared \in WaveRegisters
<1>1. 0 \in 0 .. WaveLengths - 1 /\ 0 \in 0 .. WavePeriods - 1
  BY WaveSettings
<1>2. QED BY <1>1, WaveSettings DEF Wave!Cleared, WaveRegisters

(* The channel sounds through its DAC: each action keeps that as well.         *)
WaveInv == Wave!TypeOK /\ Wave!SoundsThroughDac

LEMMA WaveTick == WaveInv /\ Wave!Tick => WaveInv'
<1> SUFFICES ASSUME WaveInv, Wave!Tick PROVE WaveInv'
  OBVIOUS
<1>1. waveCounter' \in 0 .. WavePeriods - 1 /\ wavePoint' \in 0 .. SampleCount - 1
  <2>1. CASE waveCounter + 1 = WavePeriods
    <3>1. waveRegs.period \in 0 .. WavePeriods - 1
      BY DEF WaveInv, Wave!TypeOK
    <3>2. wavePoint + 1 \in Int
      BY WaveSettings DEF WaveInv, Wave!TypeOK
    <3>3. (wavePoint + 1) % SampleCount \in 0 .. SampleCount - 1
      BY <3>2, WaveSettings, DivMod
    <3>4. QED BY <2>1, <3>1, <3>3 DEF Wave!Tick, Wave!Reloaded
  <2>2. CASE waveCounter + 1 # WavePeriods
    BY <2>2, WaveSettings DEF Wave!Tick, WaveInv, Wave!TypeOK
  <2>3. QED BY <2>1, <2>2
<1>2. QED BY <1>1 DEF Wave!Tick, WaveInv, Wave!TypeOK, Wave!SoundsThroughDac

LEMMA WaveDivEvent == WaveInv /\ Wave!DivEvent => WaveInv'
<1> SUFFICES ASSUME WaveInv, Wave!DivEvent PROVE WaveInv'
  OBVIOUS
<1> DEFINE counts == lengthDue /\ waveRegs.length_enabled
           ends == counts /\ waveLength + 1 = WaveLengths
           timer == IF ~counts THEN waveLength ELSE IF ends THEN 0 ELSE waveLength + 1
<1>1. timer \in 0 .. WaveLengths - 1
  BY WaveSettings DEF WaveInv, Wave!TypeOK
<1>2. /\ lengthDue' = ~lengthDue /\ waveOn' = (waveOn /\ ~ends) /\ waveLength' = timer
      /\ waveRegs' = IF counts THEN [waveRegs EXCEPT !.length = timer] ELSE waveRegs
      /\ UNCHANGED <<wavePower, waveCounter, wavePoint, peek_level, wavePowerLost>>
  BY DEF Wave!DivEvent, Wave!playing
<1> HIDE DEF counts, ends, timer
<1>3. waveRegs' \in WaveRegisters /\ waveRegs'.dac = waveRegs.dac
  BY <1>1, <1>2 DEF WaveInv, Wave!TypeOK, WaveRegisters
<1>4. QED
  BY <1>1, <1>2, <1>3 DEF WaveInv, Wave!TypeOK, Wave!SoundsThroughDac, WaveRegisters

LEMMA WaveForward ==
  ASSUME WaveInv, NEW written \in WaveRegisters, written.dac = waveRegs.dac,
         Wave!Forward(written), UNCHANGED <<waveCounter, wavePoint, peek_level>>
  PROVE  WaveInv'
BY DEF Wave!Forward, WaveInv, Wave!TypeOK, Wave!SoundsThroughDac, WaveRegisters

LEMMA WaveWriteCtl ==
  ASSUME WaveInv, NEW high \in Wave!Highs, NEW enabled \in BOOLEAN,
         NEW triggered \in BOOLEAN, Wave!WriteCtl(high, enabled, triggered)
  PROVE  WaveInv'
<1>1. waveRegs.period \in 0 .. WavePeriods - 1
  BY DEF WaveInv, Wave!TypeOK
<1>2. WaveLows * high + (waveRegs.period % WaveLows) \in 0 .. WavePeriods - 1
  BY <1>1, HighWritten, WaveSettings DEF Wave!Highs
<1>3. waveRegs' \in WaveRegisters /\ waveRegs'.dac = waveRegs.dac
  BY <1>2 DEF Wave!WriteCtl, WaveInv, Wave!TypeOK, WaveRegisters
<1>4. CASE triggered
  <2>1. Wave!Trigger(waveRegs') /\ UNCHANGED <<wavePower, lengthDue>>
    BY <1>4 DEF Wave!WriteCtl
  <2>2. 0 \in 0 .. WavePeriods - 1 /\ 0 \in 0 .. SampleCount - 1
    BY WaveSettings
  <2>3. QED
    BY <1>3, <2>1, <2>2
    DEF Wave!Trigger, WaveInv, Wave!TypeOK, Wave!SoundsThroughDac, WaveRegisters
<1>5. CASE ~triggered
  BY <1>3, <1>5
  DEF Wave!WriteCtl, Wave!playing, WaveInv, Wave!TypeOK, Wave!SoundsThroughDac, WaveRegisters
<1>6. QED BY <1>4, <1>5

LEMMA WaveStep == WaveInv /\ [Wave!Next]_Wave!vars => WaveInv'
<1> SUFFICES ASSUME WaveInv, [Wave!Next]_Wave!vars PROVE WaveInv'
  OBVIOUS
<1> USE DEF Wave!playing
<1>1. CASE Wave!Tick
  BY <1>1, WaveTick
<1>2. CASE Wave!DivEvent
  BY <1>2, WaveDivEvent
<1>3. CASE Wave!PowerUp
  BY <1>3 DEF Wave!PowerUp, WaveInv, Wave!TypeOK, Wave!SoundsThroughDac
<1>4. CASE Wave!PowerDown
  BY <1>4, WaveCleared
  DEF Wave!PowerDown, WaveInv, Wave!TypeOK, Wave!SoundsThroughDac, WaveRegisters
<1>5. CASE Wave!Load
  <2>1. PICK length \in 0 .. WaveLengths - 1 : Wave!WriteLength(length)
    BY <1>5 DEF Wave!Load
  <2>2. QED BY <2>1 DEF Wave!WriteLength, WaveInv, Wave!TypeOK, Wave!SoundsThroughDac
<1>6. ASSUME NEW isOn \in BOOLEAN, Wave!WriteDac(isOn) PROVE WaveInv'
  BY <1>6 DEF Wave!WriteDac, Wave!Silenced, WaveInv, Wave!TypeOK, Wave!SoundsThroughDac
<1>7. ASSUME NEW volume \in WaveVolumes, Wave!WriteVolume(volume) PROVE WaveInv'
  <2> DEFINE written == [waveRegs EXCEPT !.volume = volume]
  <2>1. written \in WaveRegisters /\ written.dac = waveRegs.dac
    BY DEF WaveInv, Wave!TypeOK, WaveRegisters
  <2>2. Wave!Forward(written) /\ UNCHANGED <<waveCounter, wavePoint, peek_level>>
    BY <1>7 DEF Wave!WriteVolume
  <2> HIDE DEF written
  <2>3. QED BY <2>1, <2>2, WaveForward
<1>8. ASSUME NEW low \in 0 .. WaveLows - 1, Wave!WritePeriodLow(low) PROVE WaveInv'
  <2>1. waveRegs.period \in 0 .. WavePeriods - 1
    BY DEF WaveInv, Wave!TypeOK
  <2>2. WaveLows * (waveRegs.period \div WaveLows) + low \in 0 .. WavePeriods - 1
    BY <2>1, LowWritten, WaveSettings
  <2>3. Wave!WithLow(low) \in WaveRegisters /\ Wave!WithLow(low).dac = waveRegs.dac
    BY <2>2 DEF WaveInv, Wave!TypeOK, WaveRegisters, Wave!WithLow
  <2>4. Wave!Forward(Wave!WithLow(low)) /\ UNCHANGED <<waveCounter, wavePoint, peek_level>>
    BY <1>8 DEF Wave!WritePeriodLow
  <2>5. QED BY <2>3, <2>4, WaveForward
<1>9. ASSUME NEW high \in Wave!Highs, NEW enabled \in BOOLEAN, NEW triggered \in BOOLEAN,
             Wave!WriteCtl(high, enabled, triggered)
      PROVE  WaveInv'
  BY <1>9, WaveWriteCtl
<1>10. CASE UNCHANGED Wave!vars
  BY <1>10 DEF Wave!vars, WaveInv, Wave!TypeOK, Wave!SoundsThroughDac
<1>11. QED
  BY <1>1, <1>2, <1>3, <1>4, <1>5, <1>6, <1>7, <1>8, <1>9, <1>10 DEF Wave!Next

LEMMA WaveInit == Wave!Init => WaveInv
<1> SUFFICES ASSUME Wave!Init PROVE WaveInv
  OBVIOUS
<1>1. 0 \in 0 .. WaveLengths - 1 /\ 0 \in 0 .. WavePeriods - 1 /\ 0 \in 0 .. SampleCount - 1
  BY WaveSettings
<1>2. QED
  BY <1>1, WaveCleared, WaveSettings
  DEF Wave!Init, WaveInv, Wave!TypeOK, Wave!SoundsThroughDac, WaveRegisters

-----------------------------------------------------------------------------
(* Channel 4.                                                                 *)
LEMMA NoiseSettings ==
  /\ CounterCount \in Nat \ {0} /\ TopPlace \in Nat \ {0} /\ ShortPlace \in Nat \ {0}
  /\ TopPlace % ShortPlace = 0 /\ TopPlace % TopPlace = 0
BY ChannelAssumptions DEF Noise!LsrAssumption, Noise!CounterAssumption

(* Powers of 2 are natural numbers.                                           *)
LEMMA MorePowers == \A n \in 0 .. 15 : 2 ^ (n + 2) \in Nat
<1> TAKE n \in 0 .. 15
<1>1. CASE n = 0
  BY <1>1
<1>2. CASE n = 1
  BY <1>2
<1>3. CASE n = 2
  BY <1>3
<1>4. CASE n = 3
  BY <1>4
<1>5. CASE n = 4
  BY <1>5
<1>6. CASE n = 5
  BY <1>6
<1>7. CASE n = 6
  BY <1>7
<1>8. CASE n = 7
  BY <1>8
<1>9. CASE n = 8
  BY <1>9
<1>10. CASE n = 9
  BY <1>10
<1>11. CASE n = 10
  BY <1>11
<1>12. CASE n = 11
  BY <1>12
<1>13. CASE n = 12
  BY <1>13
<1>14. CASE n = 13
  BY <1>14
<1>15. CASE n = 14
  BY <1>15
<1>16. CASE n = 15
  BY <1>16
<1>17. QED
  BY <1>1, <1>2, <1>3, <1>4, <1>5, <1>6, <1>7, <1>8, <1>9, <1>10, <1>11, <1>12, <1>13, <1>14, <1>15, <1>16

(* The counter is loaded within its width, also with no divider.               *)
LEMMA PeriodInRange ==
  \A r \in Randomness \cup {Noise!ClearedRandomness} : Noise!Period(r) \in 0 .. CounterCount - 1
<1> TAKE r \in Randomness \cup {Noise!ClearedRandomness}
<1>1. CASE r \in Randomness
  <2>1. r.divider \in 0 .. 7 /\ r.shift \in 0 .. 15
    BY <1>1, ChannelAssumptions DEF Noise!RandomnessAssumption
  <2> DEFINE power == 2 ^ (r.shift + 2)
  <2>2. power \in Nat
    BY <2>1, MorePowers
  <2>3. Noise!Period(r) = r.divider * power
    BY DEF Noise!Period
  <2> HIDE DEF power
  <2>4. Noise!Period(r) \in Nat
    BY <2>1, <2>2, <2>3
  <2>5. Noise!Period(r) < CounterCount
    BY <1>1, ChannelAssumptions DEF Noise!CounterAssumption
  <2>6. QED BY <2>4, <2>5, NoiseSettings
<1>2. CASE r = Noise!ClearedRandomness
  <2>1. r.divider = 0 /\ r.shift = 0
    BY <1>2 DEF Noise!ClearedRandomness
  <2>2. Noise!Period(r) = 0 * 2 ^ (0 + 2)
    BY <2>1 DEF Noise!Period
  <2>3. Noise!Period(r) = 0
    BY <2>2
  <2>4. QED BY <2>3, NoiseSettings
<1>3. QED BY <1>1, <1>2

(* A bit that was 0 may be set: the value stays below the next power.           *)
LEMMA BitSet ==
  ASSUME NEW place \in Nat \ {0}, TopPlace % place = 0,
         NEW value \in 0 .. 2 * TopPlace - 1, NEW bit
  PROVE  Noise!SetBit(value, place, bit) \in 0 .. 2 * TopPlace - 1
<1> DEFINE k == TopPlace \div place
           q == value \div place
<1>1. TopPlace \in Nat
  BY NoiseSettings
<1>2. k \in Nat /\ TopPlace = place * k
  BY <1>1, DivMod
<1>3. q \in Nat /\ value % place \in 0 .. place - 1 /\ value = place * q + (value % place)
  <2>1. value \in Int /\ value \in Nat
    BY <1>1
  <2>2. QED BY <2>1, DivMod, Zenon
<1> HIDE DEF k, q
<1>4. CASE q % 2 = 0
  <2>1. place * q \in Nat /\ place * (2 * k) = 2 * TopPlace
    BY <1>2, <1>3
  <2>2. q < 2 * k
    <3>1. CASE 2 * k <= q
      <4>1. 2 * k = q \/ place * (2 * k) + place <= place * q
        BY <1>2, <1>3, <3>1, Multiples
      <4>2. place * (2 * k) <= place * q
        BY <1>2, <1>3, <2>1, <4>1
      <4>3. QED BY <1>1, <1>3, <2>1, <4>2
    <3>2. QED BY <1>2, <1>3, <3>1
  <2>3. q + 1 < 2 * k
    BY <1>2, <1>3, <1>4, <2>2
  <2>4. place * (q + 1) + place <= place * (2 * k)
    BY <1>2, <1>3, <2>3, Multiples
  <2>5. place * (q + 1) = place * q + place
    BY <1>3
  <2>6. value + place \in 0 .. 2 * TopPlace - 1
    BY <1>1, <1>3, <2>1, <2>4, <2>5
  <2>7. QED BY <2>6 DEF Noise!SetBit
<1>5. CASE q % 2 # 0
  BY <1>5 DEF Noise!SetBit, q
<1>6. QED BY <1>4, <1>5

LEMMA ShiftedType ==
  ASSUME m_channel4_lsr \in 0 .. 2 * TopPlace - 1
  PROVE  Noise!Shifted \in 0 .. 2 * TopPlace - 1
<1> DEFINE half == m_channel4_lsr \div 2
           long == Noise!SetBit(half, TopPlace, Noise!Feedback)
<1>1. half \in 0 .. 2 * TopPlace - 1
  BY NoiseSettings
<1>2. long \in 0 .. 2 * TopPlace - 1
  BY <1>1, NoiseSettings, BitSet
<1>3. Noise!SetBit(long, ShortPlace, Noise!Feedback) \in 0 .. 2 * TopPlace - 1
  BY <1>2, NoiseSettings, BitSet
<1>4. QED BY <1>2, <1>3 DEF Noise!Shifted

LEMMA NoiseStep == Noise!TypeOK /\ [Noise!Next]_Noise!vars => Noise!TypeOK'
<1> SUFFICES ASSUME Noise!TypeOK, [Noise!Next]_Noise!vars PROVE Noise!TypeOK'
  OBVIOUS
<1> USE DEF Noise!regs
<1>1. CASE Noise!Tick
  <2> DEFINE count == (noiseCounter - 1) % CounterCount
  <2>1. count \in 0 .. CounterCount - 1
    <3>1. noiseCounter - 1 \in Int
      BY NoiseSettings DEF Noise!TypeOK
    <3>2. QED BY <3>1, NoiseSettings, DivMod
  <2>2. Noise!Period(randomness) \in 0 .. CounterCount - 1
    BY PeriodInRange DEF Noise!TypeOK
  <2>3. Noise!Shifted \in 0 .. 2 * TopPlace - 1
    BY ShiftedType DEF Noise!TypeOK
  <2>4. /\ noiseCounter' = count \/ noiseCounter' = Noise!Period(randomness)
        /\ m_channel4_lsr' = m_channel4_lsr \/ m_channel4_lsr' = Noise!Shifted
        /\ UNCHANGED <<noisePower, dac, randomness, length_enabled, noiseOn>>
    BY <1>1 DEF Noise!Tick
  <2> HIDE DEF count
  <2>5. QED BY <2>1, <2>2, <2>3, <2>4 DEF Noise!TypeOK
<1>2. CASE Noise!LengthRunsOut
  BY <1>2 DEF Noise!LengthRunsOut, Noise!TypeOK
<1>3. CASE Noise!PowerUp
  BY <1>3 DEF Noise!PowerUp, Noise!TypeOK
<1>4. CASE Noise!PowerDown
  BY <1>4 DEF Noise!PowerDown, Noise!TypeOK
<1>5. ASSUME NEW isOn \in BOOLEAN, Noise!WriteVolume(isOn) PROVE Noise!TypeOK'
  BY <1>5 DEF Noise!WriteVolume, Noise!TypeOK
<1>6. ASSUME NEW r \in Randomness, Noise!WriteRandomness(r) PROVE Noise!TypeOK'
  BY <1>6 DEF Noise!WriteRandomness, Noise!TypeOK
<1>7. ASSUME NEW enabled \in BOOLEAN, NEW triggered \in BOOLEAN,
             Noise!WriteCtl(enabled, triggered)
      PROVE  Noise!TypeOK'
  BY <1>7, NoiseSettings DEF Noise!WriteCtl, Noise!TypeOK
<1>8. CASE UNCHANGED Noise!vars
  BY <1>8 DEF Noise!vars, Noise!TypeOK
<1>9. QED
  BY <1>1, <1>2, <1>3, <1>4, <1>5, <1>6, <1>7, <1>8 DEF Noise!Next

LEMMA NoiseInit == Noise!Init => Noise!TypeOK
<1> SUFFICES ASSUME Noise!Init PROVE Noise!TypeOK
  OBVIOUS
<1>1. 0 \in 0 .. CounterCount - 1 /\ 0 \in 0 .. 2 * TopPlace - 1
  BY NoiseSettings
<1>2. randomness \in Randomness \cup {Noise!ClearedRandomness}
  BY DEF Noise!Init
<1>3. QED BY <1>1, <1>2 DEF Noise!Init, Noise!TypeOK

-----------------------------------------------------------------------------
(* The samples.  Between two instructions fewer than two batches wait; when the   *)
(* emulator has seen two, these are there, and the device's queue has at most      *)
(* become shorter since.                                                       *)
AudioInv ==
  /\ Audio!TypeOK /\ Audio!WaitingInOrder
  /\ emu = "run" => Len(samples) < 2 * Batch
  /\ emu = "flush" => Len(samples) = 2 * Batch /\ queue <= queued_samples

LEMMA AudioSettings ==
  /\ Batch \in Nat \ {0} /\ ExtraDiscard \in 0 .. Batch /\ PerFrame \in Nat \ {0}
  /\ Names \in Nat \ {0} /\ ClocksPerSample \in Nat
  /\ Instructions \subseteq 1 .. ClocksPerSample + 1
BY AudioAssumptions DEF Audio!BatchAssumption, Audio!FrameAssumption, Audio!ClockAssumption

(* Names that are one round apart are the same.                                *)
LEMMA Round ==
  ASSUME NEW n \in Nat \ {0}, NEW x \in Int
  PROVE  (x - n) % n = x % n
<1> DEFINE q == x \div n
           y == x - n
           p == y \div n
<1>1. q \in Int /\ x % n \in 0 .. n - 1 /\ x = n * q + (x % n)
  BY DivMod
<1>2. p \in Int /\ y % n \in 0 .. n - 1 /\ y = n * p + (y % n)
  <2>1. y \in Int
    OBVIOUS
  <2> HIDE DEF y
  <2>2. QED BY <2>1, DivMod
<1>3. n * q \in Int /\ n * p \in Int /\ n * (q - 1) = n * q - n
  BY <1>1, <1>2
<1>4. ~ (p < q - 1)
  <2>1. p < q - 1 => n * p + n <= n * (q - 1)
    BY <1>1, <1>2, Multiples
  <2>2. QED BY <1>1, <1>2, <1>3, <2>1
<1>5. ~ (q - 1 < p)
  <2>1. q - 1 < p => n * (q - 1) + n <= n * p
    BY <1>1, <1>2, Multiples
  <2>2. QED BY <1>1, <1>2, <1>3, <2>1
<1>6. p = q - 1
  BY <1>1, <1>2, <1>4, <1>5
<1>7. QED BY <1>1, <1>2, <1>3, <1>6

LEMMA Small ==
  ASSUME NEW n \in Nat \ {0}, NEW x \in 0 .. n - 1
  PROVE  x % n = x
OBVIOUS

LEMMA SampleTaken ==
  ASSUME AudioInv, samples' = Append(samples, next), next' = (next + 1) % Names
  PROVE  next' \in 0 .. Names - 1 /\ Audio!WaitingInOrder'
<1> DEFINE n == Len(samples)
<1>1. /\ next \in 0 .. Names - 1 /\ samples \in Seq(0 .. Names - 1) /\ n \in Nat
      /\ Names \in Nat \ {0}
  BY AudioSettings DEF AudioInv, Audio!TypeOK
<1>2. next' = next + 1 \/ (next = Names - 1 /\ next' = 0 /\ next' = next + 1 - Names)
  <2>1. CASE next = Names - 1
    BY <1>1, <2>1
  <2>2. CASE next # Names - 1
    <3>1. next + 1 \in 0 .. Names - 1
      BY <1>1, <2>2
    <3>2. QED BY <1>1, <3>1, Small
  <2>3. QED BY <2>1, <2>2
<1>3. next' \in 0 .. Names - 1
  BY <1>1, <1>2
<1>4. Len(samples') = n + 1 /\ DOMAIN samples' = 1 .. n + 1 /\ DOMAIN samples = 1 .. n
  BY <1>1
<1>5. ASSUME NEW i \in 1 .. n + 1
      PROVE  samples'[i] = (next' - 1 - Len(samples') + i) % Names
  <2> DEFINE x == next - 1 - n + i
  <2>1. x \in Int
    BY <1>1
  <2>2. (next' - 1 - Len(samples') + i) % Names = x % Names
    <3> HIDE DEF n
    <3>1. /\ Len(samples') = n + 1
          /\ n \in Int /\ i \in Int /\ next \in Int /\ Names \in Int
      BY <1>1, <1>4
    <3>2. CASE next' = next + 1
      <4>1. next' - 1 - Len(samples') + i = x
        BY <3>1, <3>2
      <4>2. QED BY <4>1
    <3>3. CASE next' = next + 1 - Names
      <4>1. next' - 1 - Len(samples') + i = x - Names
        BY <3>1, <3>3
      <4> HIDE DEF x
      <4>2. QED BY <1>1, <2>1, <4>1, Round
    <3>4. QED BY <1>2, <3>2, <3>3
  <2>3. CASE i = n + 1
    <3>1. x = next /\ samples'[i] = next
      BY <1>1, <2>3
    <3>2. QED BY <1>1, <2>2, <3>1, Small
  <2>4. CASE i # n + 1
    <3>1. i \in 1 .. n /\ samples'[i] = samples[i]
      BY <1>1, <2>4
    <3>2. samples[i] = x % Names
      BY <1>4, <3>1 DEF AudioInv, Audio!WaitingInOrder
    <3>3. QED BY <2>2, <3>1, <3>2
  <2>5. QED BY <2>3, <2>4
<1>6. QED BY <1>3, <1>4, <1>5 DEF Audio!WaitingInOrder

LEMMA FunctionIsSequence ==
  ASSUME NEW S, NEW n \in Nat, NEW f \in [1 .. n -> S]
  PROVE  f \in Seq(S) /\ Len(f) = n /\ DOMAIN f = 1 .. n
OBVIOUS

LEMMA FlushKeeps ==
  ASSUME AudioInv, NEW count \in 0 .. Len(samples), samples' = Audio!Flushed(count),
         next' = next
  PROVE  /\ samples' \in Seq(0 .. Names - 1) /\ Len(samples') = Len(samples) - count
         /\ Audio!WaitingInOrder'
<1> DEFINE n == Len(samples) - count
<1>1. /\ next \in 0 .. Names - 1 /\ samples \in Seq(0 .. Names - 1) /\ Len(samples) \in Nat
      /\ n \in Nat /\ Names \in Nat \ {0} /\ DOMAIN samples = 1 .. Len(samples)
  BY AudioSettings DEF AudioInv, Audio!TypeOK
<1>2. CASE count = Len(samples)
  BY <1>1, <1>2 DEF Audio!Flushed, Audio!WaitingInOrder
<1>3. CASE count # Len(samples)
  <2>1. samples' = [i \in 1 .. n |-> samples[count + i]]
    BY <1>3 DEF Audio!Flushed
  <2>2. \A i \in 1 .. n : count + i \in DOMAIN samples /\ samples[count + i] \in 0 .. Names - 1
    BY <1>1
  <2>3. samples' \in [1 .. n -> 0 .. Names - 1]
    BY <2>1, <2>2
  <2>4. samples' \in Seq(0 .. Names - 1) /\ Len(samples') = n /\ DOMAIN samples' = 1 .. n
    BY <1>1, <2>3, FunctionIsSequence
  <2>5. ASSUME NEW i \in 1 .. n
        PROVE  samples'[i] = (next' - 1 - Len(samples') + i) % Names
    <3>1. samples'[i] = samples[count + i]
      BY <2>1
    <3>2. samples[count + i] = (next - 1 - Len(samples) + (count + i)) % Names
      BY <2>2 DEF AudioInv, Audio!WaitingInOrder
    <3>3. next - 1 - Len(samples) + (count + i) = next' - 1 - Len(samples') + i
      BY <1>1, <2>4
    <3>4. QED BY <3>1, <3>2, <3>3
  <2>6. QED BY <2>4, <2>5 DEF Audio!WaitingInOrder
<1>4. QED BY <1>2, <1>3

LEMMA InstructionStep ==
  ASSUME AudioInv, NEW clocks \in Instructions, Audio!Instruction(clocks)
  PROVE  AudioInv'
<1>1. /\ samples \in Seq(0 .. Names - 1) /\ Len(samples) \in Nat /\ Len(samples) < 2 * Batch
      /\ next \in 0 .. Names - 1 /\ m_clocks_till_sample \in 0 .. ClocksPerSample
      /\ emu = "run" /\ emu' = "update" /\ UNCHANGED <<queued_samples, queue>>
      /\ clocks \in 1 .. ClocksPerSample + 1 /\ Batch \in Nat /\ ClocksPerSample \in Nat
  BY AudioSettings DEF Audio!Instruction, AudioInv, Audio!TypeOK
<1>2. CASE m_clocks_till_sample >= clocks
  <2>1. m_clocks_till_sample' = m_clocks_till_sample - clocks /\ UNCHANGED <<next, samples>>
    BY <1>2 DEF Audio!Instruction
  <2>2. m_clocks_till_sample' \in 0 .. ClocksPerSample
    BY <1>1, <1>2, <2>1
  <2>3. QED BY <1>1, <2>1, <2>2 DEF AudioInv, Audio!TypeOK, Audio!WaitingInOrder
<1>3. CASE ~ (m_clocks_till_sample >= clocks)
  <2>1. /\ m_clocks_till_sample' = ClocksPerSample - (clocks - m_clocks_till_sample - 1)
        /\ samples' = Append(samples, next) /\ next' = (next + 1) % Names
    BY <1>3 DEF Audio!Instruction
  <2>2. m_clocks_till_sample' \in 0 .. ClocksPerSample
    BY <1>1, <1>3, <2>1
  <2>3. next' \in 0 .. Names - 1 /\ Audio!WaitingInOrder'
    BY <2>1, SampleTaken
  <2>4. samples' \in Seq(0 .. Names - 1) /\ Len(samples') <= 2 * Batch
    BY <1>1, <2>1
  <2>5. queued_samples' \in Nat /\ queue' \in 0 .. 5 * PerFrame + Batch
    BY <1>1 DEF AudioInv, Audio!TypeOK
  <2>6. QED BY <1>1, <2>2, <2>3, <2>4, <2>5 DEF AudioInv, Audio!TypeOK
<1>4. QED BY <1>2, <1>3

LEMMA UpdateStep == AudioInv /\ Audio!Update => AudioInv'
<1> SUFFICES ASSUME AudioInv, Audio!Update PROVE AudioInv'
  OBVIOUS
<1>1. /\ UNCHANGED <<m_clocks_till_sample, next, samples, queue>>
      /\ \/ emu' = "flush" /\ queued_samples' = queue /\ Len(samples) >= 2 * Batch
         \/ emu' = "run" /\ queued_samples' = queued_samples /\ ~ (Len(samples) >= 2 * Batch)
  BY DEF Audio!Update, Audio!Enough
<1>2. Len(samples) \in Nat /\ Len(samples) <= 2 * Batch /\ Batch \in Nat /\ queue \in Nat
  BY AudioSettings DEF AudioInv, Audio!TypeOK
<1>3. Audio!TypeOK' /\ Audio!WaitingInOrder'
  BY <1>1, <1>2 DEF AudioInv, Audio!TypeOK, Audio!WaitingInOrder
<1>4. QED BY <1>1, <1>2, <1>3 DEF AudioInv

LEMMA FlushFitsNow == AudioInv => Audio!FlushFits
<1>1. Audio!Discarded \in 0 .. Batch
  BY AudioSettings DEF Audio!Discarded
<1>2. QED BY <1>1, AudioSettings DEF AudioInv, Audio!FlushFits

LEMMA FlushStep == AudioInv /\ (Audio!QueueBatch \/ Audio!GiveUp) => AudioInv'
<1> SUFFICES ASSUME AudioInv, Audio!QueueBatch \/ Audio!GiveUp PROVE AudioInv'
  OBVIOUS
<1>1. /\ emu = "flush" /\ emu' = "run" /\ Len(samples) \in Nat /\ Batch \in Nat \ {0}
      /\ Len(samples) = 2 * Batch /\ queue <= queued_samples /\ queue \in Nat
      /\ queued_samples \in Nat /\ PerFrame \in Nat
      /\ UNCHANGED <<m_clocks_till_sample, next, queued_samples>>
  BY AudioSettings DEF AudioInv, Audio!TypeOK, Audio!QueueBatch, Audio!GiveUp
<1>2. CASE Audio!QueueBatch
  <2>1. queue' = queue + Batch /\ ~Audio!GivesUp
        /\ samples' = Audio!Flushed(Batch + Audio!Discarded)
    BY <1>2 DEF Audio!QueueBatch
  <2>2. Audio!Discarded \in 0 .. Batch
    BY AudioSettings DEF Audio!Discarded
  <2>3. Batch + Audio!Discarded \in 0 .. Len(samples) /\ Batch + Audio!Discarded > 0
    BY <1>1, <2>2
  <2>4. /\ samples' \in Seq(0 .. Names - 1) /\ Audio!WaitingInOrder'
        /\ Len(samples') = Len(samples) - (Batch + Audio!Discarded)
    BY <1>1, <2>1, <2>3, FlushKeeps
  <2>5. Len(samples') < 2 * Batch
    BY <1>1, <2>2, <2>4
  <2>6. queue' \in 0 .. 5 * PerFrame + Batch
    BY <1>1, <2>1 DEF Audio!GivesUp
  <2>7. QED BY <1>1, <2>4, <2>5, <2>6 DEF AudioInv, Audio!TypeOK
<1>3. CASE Audio!GiveUp
  <2>1. queue' = queue /\ samples' = Audio!Flushed(Len(samples))
    BY <1>3 DEF Audio!GiveUp
  <2>2. /\ samples' \in Seq(0 .. Names - 1) /\ Audio!WaitingInOrder'
        /\ Len(samples') = Len(samples) - Len(samples)
    BY <1>1, <2>1, FlushKeeps
  <2>3. Len(samples') < 2 * Batch
    BY <1>1, <2>2
  <2>4. QED BY <1>1, <2>1, <2>2, <2>3 DEF AudioInv, Audio!TypeOK
<1>4. QED BY <1>2, <1>3

LEMMA AudioStep == AudioInv /\ [Audio!Next]_Audio!vars => AudioInv'
<1> SUFFICES ASSUME AudioInv, [Audio!Next]_Audio!vars PROVE AudioInv'
  OBVIOUS
<1>1. CASE Audio!Emulate
  BY <1>1, InstructionStep, UpdateStep, FlushStep DEF Audio!Emulate
<1>2. CASE Audio!Play
  <2>1. queue' \in 0 .. queue
    BY <1>2, AudioSettings DEF Audio!Play, AudioInv, Audio!TypeOK
  <2>2. UNCHANGED <<emu, m_clocks_till_sample, next, samples, queued_samples>>
    BY <1>2 DEF Audio!Play
  <2>3. QED
    BY <2>1, <2>2, AudioSettings DEF AudioInv, Audio!TypeOK, Audio!WaitingInOrder
<1>3. CASE UNCHANGED Audio!vars
  BY <1>3 DEF Audio!vars, AudioInv, Audio!TypeOK, Audio!WaitingInOrder
<1>4. QED BY <1>1, <1>2, <1>3 DEF Audio!Next

LEMMA AudioInit == Audio!Init => AudioInv
BY AudioSettings DEF Audio!Init, AudioInv, Audio!TypeOK, Audio!WaitingInOrder

-----------------------------------------------------------------------------
(* The channels and the samples side by side: the invariants of all of them.      *)
IInv ==
  Typed /\ Invariant /\ Pulse!TypeOK /\ WaveInv /\ Noise!TypeOK /\ AudioInv

LEMMA InitInvariant == Init => Invariant
BY DEF Init, Invariant, Shaped, IsRegisters, IsSweep, Cleared, SoundsThroughDac,
       UnpoweredIsClear, ActiveIsLocked

LEMMA InvariantHolds == SoundSpec => []IInv
<1>1. SoundInit => IInv
  BY InitParts, InitInvariant, TypedInit, PulseInit, WaveInit, NoiseInit, AudioInit DEF IInv
<1>2. IInv /\ [SoundNext]_sound => IInv'
  BY Moves, InvariantStep, TypedStep, PulseStep, WaveStep, NoiseStep, AudioStep DEF IInv
<1>3. QED BY <1>1, <1>2, Unfold, PTL

(* Nothing of a channel leaves its width: periods, lengths, levels and countdowns  *)
(* of the pulses, the wave and the noise, for every program.                     *)
THEOREM TypesCorrect == SoundSpec => []SoundTypeOK
<1>1. IInv => SoundTypeOK
  BY TypedIsTypeOK DEF IInv, WaveInv, SoundTypeOK
<1>2. QED BY <1>1, InvariantHolds, PTL

(* A sounding channel has its DAC on until the power goes, for every program.  *)
THEOREM DacHeard == SoundSpec => []SoundsThroughDac
<1>1. IInv => SoundsThroughDac
  BY DEF IInv, Invariant
<1>2. QED BY <1>1, InvariantHolds, PTL

(* So has channel 3.                                                          *)
THEOREM WaveHeard == SoundSpec => []Wave!SoundsThroughDac
<1>1. IInv => Wave!SoundsThroughDac
  BY DEF IInv, WaveInv
<1>2. QED BY <1>1, InvariantHolds, PTL

(* The registers of an unpowered unit are clear, for every program.            *)
THEOREM ClearWithoutPower == SoundSpec => []UnpoweredIsClear
<1>1. IInv => UnpoweredIsClear
  BY DEF IInv, Invariant
<1>2. QED BY <1>1, InvariantHolds, PTL

(* An active sweep is locked and its countdown runs, for every program.        *)
THEOREM SweepLocked == SoundSpec => []ActiveIsLocked
<1>1. IInv => ActiveIsLocked
  BY DEF IInv, Invariant
<1>2. QED BY <1>1, InvariantHolds, PTL

(* What waits for the device is gapless, bounded and there when it is flushed,     *)
(* however the device plays.                                                   *)
THEOREM SamplesStay == SoundSpec => []SamplesKept
<1>1. IInv => SamplesKept
  BY FlushFitsNow DEF IInv, AudioInv, SamplesKept
<1>2. QED BY <1>1, InvariantHolds, PTL
=============================================================================
