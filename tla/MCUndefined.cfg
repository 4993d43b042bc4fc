\* Two runs that differ in undefined bytes alone; a permitted report ends them.
SPECIFICATION Spec
CONSTANTS
  Radix = 2
  Devices <- MCDevices
  Requested <- MCRequested
  Enable <- MCEnable
  Result <- MCResult
  Flags <- MCFlags
  Preset <- MCPreset
  And <- MCAnd
  FlagBits = 1
INVARIANTS Indistinguishable OutsideIsDefined
CHECK_DEADLOCK FALSE
