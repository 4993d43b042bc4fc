SPECIFICATION DevicesSpec
CONSTANTS
  Length = 2
  Value = {z, v, g}
  Zero = z
  Garbage = g
  MaxCycle = 4
  Bytes <- ChosenBytes
  Contents = {0, 1}
  DivStep = 2
  DivCount = 4
  CycleCount = 16
  TimaCount = 4
  Period <- TimerPeriod
  TacValues = {0, 4, 5}
  TmaValues = {0, 3}
  MaxInstruction = 4
  MaxBacklog = 9
  ClockCount = 32
  Half = 2
  EventCount = 2
  MaxUpdate = 3
  Keys = {a, b}
  Unmapped = {x}
  SerialBytes = {72, 255}
  Controls = {0, 1, 129, 130}
  MaxEvents = 4
INVARIANTS DevicesDefined NeverBankZero EventsCounted
PROPERTIES IsSlowTransfer LazyIsEager TimeGoesOn KeysSeen
