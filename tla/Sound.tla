-------------------------------- MODULE Sound --------------------------------
(* The channels of the sound unit and the way of its samples.  Channels act on   *)
(* registers of their own and are mixed by a sum: a behaviour is one of channel   *)
(* 1 with its sweep (Apu), of channel 2 (Pulse), 3 (Wave) or 4 (Noise), or of the  *)
(* samples on their way to the audio device (Audio).                           *)
EXTENDS Apu, Sequences

CONSTANTS
  PulsePeriods, PulseLows, Duties,                          \* of Pulse
  WavePeriods, WaveLows, WaveLengths, SampleCount, WaveVolumes,  \* of Wave
  CounterCount, TopPlace, ShortPlace, Randomness,           \* of Noise
  Batch, PerFrame, ExtraDiscard, ClocksPerSample, Instructions, Names  \* of Audio

VARIABLES
  unit,
  pulsePower, pulseRegs, pulseOn, pulseLength, pulseEnvelope, pulseCounter,
  pulsePoint, current_output_level, pulseEvents,            \* of Pulse
  wavePower, waveRegs, waveOn, waveLength, waveCounter, wavePoint, peek_level,
  lengthDue, wavePowerLost,                                 \* of Wave
  noisePower, dac, randomness, length_enabled, noiseOn, noiseCounter,
  m_channel4_lsr,                                           \* of Noise
  emu, m_clocks_till_sample, next, samples, queued_samples, queue  \* of Audio

pulseVars == <<pulsePower, pulseRegs, pulseOn, pulseLength, pulseEnvelope, pulseCounter,
               pulsePoint, current_output_level, pulseEvents>>
waveVars == <<wavePower, waveRegs, waveOn, waveLength, waveCounter, wavePoint, peek_level,
              lengthDue, wavePowerLost>>
noiseVars == <<noisePower, dac, randomness, length_enabled, noiseOn, noiseCounter,
               m_channel4_lsr>>
audioVars == <<emu, m_clocks_till_sample, next, samples, queued_samples, queue>>

Pulse == INSTANCE Pulse WITH
  m_apu_has_power <- pulsePower, regs <- pulseRegs, channel_on <- pulseOn,
  length_timer <- pulseLength, envelope <- pulseEnvelope, counter <- pulseCounter,
  sample_point <- pulsePoint, m_div_apu_counter <- pulseEvents,
  PeriodCount <- PulsePeriods, LowCount <- PulseLows
Wave == INSTANCE Wave WITH
  m_apu_has_power <- wavePower, regs <- waveRegs, channel_on <- waveOn,
  length_timer <- waveLength, counter <- waveCounter, sample_point <- wavePoint,
  powerLost <- wavePowerLost,
  PeriodCount <- WavePeriods, LowCount <- WaveLows, LengthCount <- WaveLengths,
  Volumes <- WaveVolumes
Noise == INSTANCE Noise WITH
  m_apu_has_power <- noisePower, channel_on <- noiseOn, counter <- noiseCounter
Audio == INSTANCE Audio

ASSUME ChannelAssumptions ==
  /\ Pulse!PeriodAssumption /\ Pulse!SettingAssumption
  /\ Wave!PeriodAssumption /\ Wave!CountAssumption
  /\ Noise!LsrAssumption /\ Noise!RandomnessAssumption /\ Noise!CounterAssumption
ASSUME AudioAssumptions ==
  Audio!BatchAssumption /\ Audio!FrameAssumption /\ Audio!ClockAssumption

-----------------------------------------------------------------------------
SoundInit ==
  /\ unit \in {"sweep", "pulse", "wave", "noise", "samples"}
  /\ Init /\ Pulse!Init /\ Wave!Init /\ Noise!Init /\ Audio!Init

SoundNext ==
  /\ UNCHANGED unit
  /\ \/ /\ unit = "sweep" /\ Next
        /\ UNCHANGED <<pulseVars, waveVars, noiseVars, audioVars>>
     \/ /\ unit = "pulse" /\ Pulse!Next
        /\ UNCHANGED <<vars, waveVars, noiseVars, audioVars>>
     \/ /\ unit = "wave" /\ Wave!Next
        /\ UNCHANGED <<vars, pulseVars, noiseVars, audioVars>>
     \/ /\ unit = "noise" /\ Noise!Next
        /\ UNCHANGED <<vars, pulseVars, waveVars, audioVars>>
     \/ /\ unit = "samples" /\ Audio!Next
        /\ UNCHANGED <<vars, pulseVars, waveVars, noiseVars>>

SoundSpec ==
  SoundInit /\ [][SoundNext]_<<unit, vars, pulseVars, waveVars, noiseVars, audioVars>>

(* The fairness of the units.                                                  *)
FairSoundSpec ==
  /\ SoundSpec
  /\ WF_vars(unit = "sweep" /\ DivEvent)
  /\ WF_pulseVars(unit = "pulse" /\ Pulse!Tick)
  /\ WF_waveVars(unit = "wave" /\ Wave!Tick)
  /\ WF_waveVars(unit = "wave" /\ Wave!DivEvent)
  /\ WF_noiseVars(unit = "noise" /\ Noise!Tick)
  /\ WF_audioVars(unit = "samples" /\ Audio!Emulate)
  /\ WF_audioVars(unit = "samples" /\ Audio!Play)

-----------------------------------------------------------------------------
(* The types of all channels, with the bounds that the code relies on when it     *)
(* counts down and indexes.                                                    *)
SoundTypeOK == TypeOK /\ Pulse!TypeOK /\ Wave!TypeOK /\ Noise!TypeOK

(* What is flushed is there, and what waits is gapless and ends with the newest   *)
(* sample (try_flush_audio, flush_samples).                                     *)
SamplesKept == Audio!TypeOK /\ Audio!FlushFits /\ Audio!WaitingInOrder

(* Channels fall silent: channel 3 with its DAC, until the power goes; a channel      *)
(* by its length, though triggers do not load it; and by an envelope that has       *)
(* faded out (write, sound_length_event, envelope_sweep_event).                   *)
FallsSilent ==
  []Wave!SoundsThroughDac /\ LengthEnds /\ Wave!LengthEnds /\ Pulse!FadesOut

(* What is on goes on: the pulse, the wave and the noise, and the queue of the     *)
(* device is given sound again and again.                                       *)
ChannelsGoOn ==
  /\ Pulse!Pulses /\ Wave!WaveGoesOn /\ Noise!NoiseGoesOn
  /\ unit = "samples" => Audio!SoundGoesOn

(* The comment of tick_channel4 says "Period = 4 * divider * (2 ** shift)           *)
(* increments": no step of the noise takes longer than the longest period.       *)
StepsWithinPeriod == Noise!StepsWithinPeriod
=============================================================================
