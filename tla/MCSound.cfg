SPECIFICATION FairSoundSpec
CONSTANTS
  PeriodCount = 4
  LowCount = 2
  LengthCount = 2
  Loudest = 1
  Lengths = {0}
  Sweeps <- ChosenSweeps
  Volumes <- ChosenVolumes
  PulsePeriods = 2
  PulseLows = 1
  Duties = {0, 3}
  WavePeriods = 4
  WaveLows = 2
  WaveLengths = 2
  SampleCount = 3
  WaveVolumes = {0, 1}
  CounterCount = 16
  TopPlace = 128
  ShortPlace = 8
  Randomness <- ChosenRandomness
  Batch = 4
  PerFrame = 2
  ExtraDiscard = 2
  ClocksPerSample = 4
  Instructions = {1, 2, 5}
  Names = 11
INVARIANTS SoundTypeOK SoundsThroughDac UnpoweredIsClear ActiveIsLocked SamplesKept
PROPERTIES FallsSilent ChannelsGoOn
