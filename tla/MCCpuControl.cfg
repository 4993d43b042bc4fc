SPECIFICATION ControlSpec
CONSTANTS
  AddrCount = 16
  Byte = {0, 1}
  Cell <- ChosenCell
  Writable <- ChosenWritable
  InitMem <- ChosenMem
  Code <- ChosenCode
  ValidPC <- ChosenCode
  PushWords <- ChosenWords
  DataAddrs = {2, 8}
  DataBytes = {1}
  StackTops = {12}
  Options <- ChosenOptions
  MaxFrames = 3
  StackLimit = 6
  Lines = {0, 1}
  Vector <- ChosenVector
INVARIANTS NoFalseReport ProgramDecides
PROPERTY InterruptsInvisible
CHECK_DEADLOCK FALSE
