\* Two addresses, so that the machine can be at a breakpoint and leave it, one of them a
\* vector; two ^C, which may cross a stop and arrive together.
SPECIFICATION FairSpec
CONSTANTS
  Addr = {0, 1}
  Entry = 0
  Vectors = {1}
  MaxInterrupts = 2
INVARIANTS StopsAreTrue PoliteSessionParses
PROPERTIES IsDialogue StopsInTime ClientServed
CHECK_DEADLOCK FALSE
