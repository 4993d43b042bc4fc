\* The emulator waits for a buffer.
SPECIFICATION FairSpec
CONSTANT Lines = 2
PROPERTY EmulatorResumes
CHECK_DEADLOCK FALSE
