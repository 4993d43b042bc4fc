SPECIFICATION Spec
CONSTANTS
  AddrCount = 8
  Byte <- MCByte
  Cell <- MCCell
  Writable <- MCWritable
  InitMem <- MCInitMem
  Code <- MCCode
  ValidPC <- MCValidPC
  PushWords <- MCPushWords
  DataAddrs = {2, 5}
  DataBytes = {1}
  StackTops = {1}
  Options <- MCOptions
  MaxFrames = 2
INVARIANT ShadowMatchesStack
PROPERTIES CallsNest SanitizerInvisible
CHECK_DEADLOCK FALSE
